------------------------ MODULE ServerLifecycleProofs ------------------------
(***************************************************************************)
(* What CommandStore promises it also promises under ServerLifecycle, with *)
(* any number of processes that start, drain, fail and are killed: every   *)
(* step of a process is a Vanish or leaves the store alone.                *)
(***************************************************************************)
EXTENDS ServerLifecycle, CommandStoreProofs

\* The life of a process is management as far as the store can see.
LEMMA ServerSteps ==
  ASSUME TypeOK, [ServerNext]_serverVars
  PROVE  StoreStep
<1>1. CASE \E h \in Handlers : Serve(h)
  BY <1>1 DEF StoreStep
<1>2. ASSUME NEW p \in Processes, Open(p) \/ OpenFails(p) \/ AddressInUse(p)
      PROVE  StoreStep
  BY <1>2 DEF Open, OpenFails, AddressInUse, StoreStep, ManageStep, vars, locals, TypeOK
<1>3. ASSUME NEW p \in Processes, Listen(p) \/ Signal(p) \/ GiveUp(p) \/ ServeFails(p)
      PROVE  StoreStep
  <2>1. PICK next \in {"serving", "draining", "closed"} : Enter(p, next)
    BY <1>3 DEF Listen, Signal, GiveUp, ServeFails
  <2>2. ManageStep  BY <2>1 DEF Enter, ManageStep, TypeOK
  <2> QED BY <2>2 DEF StoreStep
<1>4. ASSUME NEW p \in Processes, Drained(p) \/ Exit(p) \/ Kill(p)
      PROVE  StoreStep
  BY <1>4 DEF Drained, Exit, Kill, StoreStep
<1>5. CASE UNCHANGED serverVars
  BY <1>5 DEF serverVars, StoreStep, ManageStep, vars, locals, TypeOK
<1> QED BY <1>1, <1>2, <1>3, <1>4, <1>5 DEF ServerNext, Run

LEMMA ServerStarts == ServerInit => Started
BY DEF ServerInit, Started

LEMMA ServerInvariant == ServerSpec => [](TablesInv /\ RepliesHold /\ MutexInv)
BY ServerStarts, InitTables, InitReplies, InitMutex, ServerSteps, TablesStep, RepliesStep, MutexStep, PTL
   DEF ServerSpec, TablesInv

\* However often processes are stopped, killed and started beside each other, a command
\* is applied once (execute, runServer).
THEOREM ServersApplyOnce == ServerSpec => []ExactlyOnce
BY ServerInvariant, RowsGiveExactlyOnce, PTL DEF TablesInv

\* An answer given by a process that was stopped afterwards, by a deadline that closed
\* its database or by a kill, stands (execute, runServer).
THEOREM ServersKeepAnswers == ServerSpec => []AnswersAreDurable
<1>1. RepliesHold => AnswersAreDurable  BY DEF RepliesHold, Holds, AnswersAreDurable
<1> QED BY <1>1, ServerInvariant, PTL

\* The processes together are one ledger (Create, Mutate, runServer).
THEOREM ServersAreLedger == ServerSpec => ImplementsLedger
BY ServerStarts, InitIsLedger, StepInLedger, ServerInvariant, ServerSteps, PTL
   DEF ServerSpec, ImplementsLedger, Books!Spec, TablesInv

\* The server's own variables keep their types, and who serves is who listens.
LEMMA ServerTypesStep ==
  ASSUME ServerTypeOK, TypeOK', [ServerNext]_serverVars
  PROVE  ServerTypeOK'
<1>0. TypeOK  BY DEF ServerTypeOK
<1> SUFFICES /\ opened' \subseteq {p \in Processes : phase'[p] = "down"}
             /\ port' \in Processes \cup {None} /\ exit' \in [Processes -> {0, 1, None}]
             /\ \A p \in Processes : phase'[p] = "serving" <=> port' = p
  BY DEF ServerTypeOK
<1>1. ASSUME NEW h \in Handlers, Serve(h), UNCHANGED <<opened, port, exit>>
      PROVE  UNCHANGED <<phase, opened, port, exit>>
  BY <1>1 DEF Serve, Step, Receive, Lock, Begin, Lookup, Refuse, Operate, Commit, AwaitReaders,
              Busy, Cancel, Respond
<1>2. CASE UNCHANGED <<phase, opened, port, exit>>
  BY <1>2 DEF ServerTypeOK
<1>3. ASSUME NEW p \in Processes, Open(p) \/ OpenFails(p) \/ AddressInUse(p)
      PROVE  /\ opened' \subseteq {q \in Processes : phase'[q] = "down"}
             /\ port' \in Processes \cup {None} /\ exit' \in [Processes -> {0, 1, None}]
             /\ \A q \in Processes : phase'[q] = "serving" <=> port' = q
  BY <1>3 DEF Open, Down, OpenFails, AddressInUse, ServerTypeOK, vars
<1>4. ASSUME NEW p \in Processes, Listen(p) \/ Signal(p) \/ GiveUp(p) \/ ServeFails(p)
      PROVE  /\ opened' \subseteq {q \in Processes : phase'[q] = "down"}
             /\ port' \in Processes \cup {None} /\ exit' \in [Processes -> {0, 1, None}]
             /\ \A q \in Processes : phase'[q] = "serving" <=> port' = q
  <2> USE ServerAssumption DEF Enter, Leave, ServerTypeOK
  <2>1. phase \in [Processes -> {"down", "serving", "draining", "closed"}]  BY DEF TypeOK
  <2>2. CASE Listen(p)  BY <2>1, <2>2 DEF Listen
  <2>3. CASE Signal(p)  BY <2>1, <2>3 DEF Signal
  <2>4. CASE GiveUp(p)  BY <2>1, <2>4 DEF GiveUp
  <2>5. CASE ServeFails(p)  BY <2>1, <2>5 DEF ServeFails
  <2> QED BY <1>4, <2>2, <2>3, <2>4, <2>5
<1>5. ASSUME NEW p \in Processes, Drained(p) \/ Exit(p) \/ Kill(p)
      PROVE  /\ opened' \subseteq {q \in Processes : phase'[q] = "down"}
             /\ port' \in Processes \cup {None} /\ exit' \in [Processes -> {0, 1, None}]
             /\ \A q \in Processes : phase'[q] = "serving" <=> port' = q
  <2> USE ServerAssumption DEF Leave, ServerTypeOK
  <2>1. phase \in [Processes -> {"down", "serving", "draining", "closed"}]  BY DEF TypeOK
  <2>2. phase' = [phase EXCEPT ![p] = "down"]  BY <1>5 DEF Drained, Exit, Kill, Vanish
  <2>3. CASE Drained(p)  BY <2>1, <2>2, <2>3 DEF Drained
  <2>4. CASE Exit(p)  BY <2>1, <2>2, <2>4 DEF Exit
  <2>5. CASE Kill(p)  BY <2>1, <2>2, <2>5 DEF Kill
  <2> QED BY <1>5, <2>3, <2>4, <2>5
<1>6. CASE UNCHANGED serverVars
  BY <1>2, <1>6 DEF serverVars, vars
<1> QED BY <1>1, <1>2, <1>3, <1>4, <1>5, <1>6 DEF ServerNext, Run

\* A process is serving exactly while it is the one that listens (runServer).
THEOREM ServerTypes == ServerSpec => []ServerTypeOK
<1>1. ServerInit => ServerTypeOK
  <2>1. ServerInit => TypeOK  BY ServerStarts, InitTypes
  <2> QED BY <2>1, ServerAssumption DEF ServerInit, Empty, ServerTypeOK
<1>2. TablesInv /\ TablesInv' /\ ServerTypeOK /\ [ServerNext]_serverVars => ServerTypeOK'
  BY ServerTypesStep DEF TablesInv
<1> QED BY <1>1, <1>2, ServerInvariant, PTL DEF ServerSpec
=============================================================================
