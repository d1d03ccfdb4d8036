-------------------------- MODULE CommandStoreProofs --------------------------
(***************************************************************************)
(* Proofs about CommandStore, for any number of processes, handlers,       *)
(* batches, requests and commands.                                         *)
(*                                                                         *)
(* The tables change in one way only: a COMMIT replaces them by what its   *)
(* transaction has written, and as long as that transaction lasts nobody   *)
(* else commits, so what it has written is still the command applied to    *)
(* the tables as they are (Isolation).  Hence every invariant of the       *)
(* tables is proved against one formula, Effect(c).                        *)
(***************************************************************************)
EXTENDS CommandStore, TLAPS

-----------------------------------------------------------------------------
(* Commands, rows and tables                                                 *)

\* The fields of a command.
LEMMA CommandFields ==
  ASSUME NEW c \in Commands
  PROVE  /\ c.request \in Requests /\ c.batch \in Batches /\ c.kind \in Kinds
         /\ c.expected \in Nat /\ c.observation \in ObservationIds \cup {None}
  BY StoreAssumption DEF CommandType

\* The tables of the database.
LEMMA TableFields ==
  ASSUME NEW t \in Tables
  PROVE  /\ t.batches \in [Batches -> BatchRows \cup {None}]
         /\ t.audit \in [Batches -> Seq(EventRows)]
         /\ t.certificates \in [Batches -> Certificates \cup {None}]
         /\ t.observations \in [ObservationIds -> Batches \cup {None}]
         /\ t.idempotency \in [Requests -> StoredAnswers \cup {None}]
  BY DEF Tables

\* A batch has a revision whether it exists or not.
LEMMA RevisionType ==
  ASSUME NEW t \in Tables, NEW b \in Batches
  PROVE  Revision(b, t) \in Nat
  BY TableFields DEF Revision, BatchRows

\* A digest extends the digest before it.
LEMMA DigestType ==
  ASSUME NEW e \in EventRows
  PROVE  Digest(e) \in Digests
<1>1. /\ e.previous \in Seq(Requests \X Nat)
      /\ <<e.request, e.revision>> \in Requests \X Nat
  BY DEF EventRows, Digests
<1> QED BY <1>1 DEF Digest, Digests

LEMMA AuditRootType ==
  ASSUME NEW events \in Seq(EventRows)
  PROVE  AuditRoot(events) \in Digests
<1>1. CASE events = <<>>
  <2>1. <<>> \in Seq(Requests \X Nat)  OBVIOUS
  <2> QED BY <1>1, <2>1 DEF AuditRoot, Digests
<1>2. CASE events # <<>>
  <2>1. events[Len(events)] \in EventRows  BY <1>2
  <2> QED BY <1>2, <2>1, DigestType DEF AuditRoot
<1> QED BY <1>1, <1>2

LEMMA EventType ==
  ASSUME NEW c \in Commands, NEW t \in Tables
  PROVE  Event(c, t) \in EventRows
<1>1. NextRevision(c, t) \in Nat  BY RevisionType, CommandFields DEF NextRevision
<1>2. AuditRoot(t.audit[c.batch]) \in Digests  BY AuditRootType, TableFields, CommandFields
<1> QED BY <1>1, <1>2, CommandFields DEF Event, EventRows

LEMMA RowType ==
  ASSUME NEW c \in Commands, NEW t \in Tables
  PROVE  Row(c, t) \in BatchRows
<1>1. NextRevision(c, t) \in Nat \ {0}  BY RevisionType, CommandFields DEF NextRevision
<1> QED BY <1>1 DEF Row, BatchRows, Statuses

\* Applying a command to the tables gives tables.
LEMMA ApplyType ==
  ASSUME NEW c \in Commands, NEW t \in Tables
  PROVE  Apply(c, t) \in Tables
<1> DEFINE new == Apply(c, t)
<1>1. NextRevision(c, t) \in Nat  BY RevisionType, CommandFields DEF NextRevision
<1>2. new.batches \in [Batches -> BatchRows \cup {None}]
  BY RowType, TableFields, CommandFields DEF Apply
<1>3. new.audit \in [Batches -> Seq(EventRows)]
  <2>1. Append(t.audit[c.batch], Event(c, t)) \in Seq(EventRows)
    BY EventType, TableFields, CommandFields
  <2> QED BY <2>1, TableFields, CommandFields DEF Apply
<1>4. new.certificates \in [Batches -> Certificates \cup {None}]
  <2>1. Certificate(c, t) \in Certificates
    BY <1>1, EventType, DigestType DEF Certificate, Certificates
  <2> QED BY <2>1, TableFields, CommandFields DEF Apply
<1>5. new.observations \in [ObservationIds -> Batches \cup {None}]
  BY TableFields, CommandFields DEF Apply
<1>6. new.idempotency \in [Requests -> StoredAnswers \cup {None}]
  <2>1. [command |-> c, response |-> NextRevision(c, t)] \in StoredAnswers
    BY <1>1 DEF StoredAnswers
  <2> QED BY <2>1, TableFields, CommandFields DEF Apply
<1> QED BY <1>2, <1>3, <1>4, <1>5, <1>6 DEF Apply, Tables

LEMMA EmptyType == EmptyTables \in Tables
<1>1. <<>> \in Seq(EventRows)  OBVIOUS
<1> QED BY <1>1 DEF EmptyTables, Tables

-----------------------------------------------------------------------------
(* Steps and types                                                           *)

\* Processes come and go, the store stays as it is.
ManageStep ==
  /\ phase' \in [Processes -> {"down", "serving", "draining", "closed"}]
  /\ UNCHANGED <<db, wanted, owner, locals, heard>>

\* Everything that can happen to the store, under whatever management of its processes.
StoreStep ==
  \/ \E h \in Handlers : Serve(h)
  \/ \E p \in Processes : Vanish(p)
  \/ ManageStep

LEMMA NextSteps ==
  ASSUME TypeOK, [Next]_vars
  PROVE  StoreStep
<1>1. CASE \E h \in Handlers : Serve(h)
  BY <1>1 DEF StoreStep
<1>2. ASSUME NEW p \in Processes, Crash(p)
      PROVE  StoreStep
  BY <1>2 DEF StoreStep, Crash
<1>3. ASSUME NEW p \in Processes, Start(p)
      PROVE  StoreStep
  BY <1>3 DEF StoreStep, ManageStep, Start, TypeOK
<1>4. CASE UNCHANGED vars
  BY <1>4 DEF StoreStep, ManageStep, vars, locals, TypeOK
<1> QED BY <1>1, <1>2, <1>3, <1>4 DEF Next

\* A handler that serves has a command of its own.
LEMMA Serving ==
  ASSUME TypeOK, NEW h \in Handlers, pc[h] # "idle"
  PROVE  /\ command[h] \in Commands /\ command[h].request \in Requests
         /\ command[h].batch \in Batches /\ MutexOf(h, command[h]) \in Processes \X Batches
<1>1. command[h] \in Commands  BY DEF TypeOK
<1> QED BY <1>1, CommandFields, StoreAssumption DEF MutexOf

LEMMA AnswerTypes ==
  /\ InternalError \in Answers /\ Answer("refused", 0) \in Answers
  /\ \A c \in Commands, row \in StoredAnswers : StoredAnswer(c, row) \in Answers
  /\ \A c \in Commands, t \in Tables : Mismatch(c, t) \in Answers
<1>1. \A code \in Codes, n \in Nat : Answer(code, n) \in Answers  BY DEF Answer, Answers
<1>2. InternalError \in Answers /\ Answer("refused", 0) \in Answers
  BY <1>1 DEF InternalError, Codes
<1>3. ASSUME NEW c \in Commands, NEW row \in StoredAnswers
      PROVE  StoredAnswer(c, row) \in Answers
  BY <1>1 DEF StoredAnswer, StoredAnswers, Codes
<1>4. ASSUME NEW c \in Commands, NEW t \in Tables
      PROVE  Mismatch(c, t) \in Answers
  BY <1>1, RevisionType, CommandFields DEF Mismatch, Codes
<1> QED BY <1>2, <1>3, <1>4

\* The end of a transaction keeps the types of what it changes.
LEMMA EndTypes ==
  ASSUME TypeOK, NEW h \in Handlers, NEW answer \in Answers, pc[h] \notin {"idle"},
         EndTransaction(h, answer), db' \in Tables,
         UNCHANGED <<phase, wanted, owner, heard>>
  PROVE  TypeOK'
<1> USE DEF TypeOK, EndTransaction, Steps
<1>1. /\ pc' \in [Handlers -> Steps] /\ command' \in [Handlers -> Commands \cup {None}]
      /\ written' \in [Handlers -> Tables \cup {None}] /\ reply' \in [Handlers -> Answers \cup {None}]
  OBVIOUS
<1>2. ASSUME NEW g \in Handlers
      PROVE  /\ command'[g] = None <=> pc'[g] = "idle"
             /\ written'[g] = None <=> ~(pc'[g] \in {"commit", "pending"})
             /\ reply'[g] = None <=> pc'[g] # "unlock"
  BY StoreAssumption DEF Reserved
<1> QED BY <1>1, <1>2 DEF Reserved

\* A step of a handler outside its transaction's end: it goes on, and may have got a
\* command, a mutex or tables to write.
LEMMA ReceiveTypes ==
  ASSUME TypeOK, NEW h \in Handlers, NEW c \in Commands, Receive(h, c)
  PROVE  TypeOK'
<1>1. MutexOf(h, c) \in Processes \X Batches
  BY CommandFields, StoreAssumption DEF MutexOf
<1> QED BY <1>1, StoreAssumption DEF TypeOK, Receive, Goto, Mutex!Request, Steps, Reserved

LEMMA LockTypes ==
  ASSUME TypeOK, NEW h \in Handlers, Lock(h)
  PROVE  TypeOK'
<1>1. MutexOf(h, command[h]) \in Processes \X Batches  BY Serving DEF Lock, Goto
<1> QED BY <1>1, StoreAssumption DEF TypeOK, Lock, Goto, Mutex!Grant, Steps, Reserved

LEMMA GoOnTypes ==
  ASSUME TypeOK, NEW h \in Handlers,
         Begin(h) \/ AwaitReaders(h) \/ (Goto(h, {"lookup"}, "operate")
           /\ UNCHANGED <<db, phase, wanted, owner, command, written, reply, heard>>)
  PROVE  TypeOK'
BY DEF TypeOK, Begin, AwaitReaders, Goto, Steps, Reserved

LEMMA LookupTypes ==
  ASSUME TypeOK, NEW h \in Handlers, Lookup(h)
  PROVE  TypeOK'
<1> DEFINE row == db.idempotency[command[h].request]
<1>1. CASE row = None
  BY <1>1, GoOnTypes DEF Lookup
<1>2. CASE row # None
  <2>1. command[h] \in Commands /\ row \in StoredAnswers
    BY <1>2, Serving, TableFields DEF TypeOK, Lookup
  <2> QED BY <1>2, <2>1, AnswerTypes, EndTypes DEF Lookup, TypeOK
<1> QED BY <1>1, <1>2

LEMMA RefuseTypes ==
  ASSUME TypeOK, NEW h \in Handlers, Refuse(h)
  PROVE  TypeOK'
<1>1. command[h] \in Commands /\ db \in Tables  BY Serving DEF Refuse, TypeOK
<1> QED BY <1>1, AnswerTypes, EndTypes DEF Refuse

LEMMA OperateTypes ==
  ASSUME TypeOK, NEW h \in Handlers, Operate(h)
  PROVE  TypeOK'
<1>1. command[h] \in Commands /\ db \in Tables  BY Serving DEF Operate, TypeOK
<1>2. CASE Unique(command[h], db)
  <2>1. Apply(command[h], db) \in Tables  BY <1>1, ApplyType
  <2> QED BY <1>2, <2>1, StoreAssumption DEF TypeOK, Operate, Goto, Steps, Reserved
<1>3. CASE ~Unique(command[h], db)
  BY <1>1, <1>3, AnswerTypes, EndTypes DEF Operate
<1> QED BY <1>2, <1>3

LEMMA CommitTypes ==
  ASSUME TypeOK, NEW h \in Handlers, Commit(h),
         written[h].idempotency[command[h].request] \in StoredAnswers
  PROVE  TypeOK'
<1>1. command[h] \in Commands /\ written[h] \in Tables
  BY Serving DEF Commit, TypeOK, Reserved
<1> QED BY <1>1, AnswerTypes, EndTypes DEF Commit

LEMMA GiveUpTypes ==
  ASSUME TypeOK, NEW h \in Handlers, Busy(h) \/ Cancel(h)
  PROVE  TypeOK'
BY AnswerTypes, EndTypes DEF Busy, Cancel, TypeOK

LEMMA RespondTypes ==
  ASSUME TypeOK, NEW h \in Handlers, Respond(h)
  PROVE  TypeOK'
<1>1. command[h] \in Commands /\ reply[h] \in Answers
  BY Serving DEF Respond, Goto, TypeOK
<1>2. heard' \subseteq Commands \X Nat
  BY <1>1 DEF Respond, TypeOK, Answers
<1> QED BY <1>2, StoreAssumption DEF TypeOK, Respond, Goto, Mutex!Release, Steps, Reserved

LEMMA VanishTypes ==
  ASSUME TypeOK, NEW p \in Processes, Vanish(p)
  PROVE  TypeOK'
BY StoreAssumption DEF TypeOK, Vanish, Steps, Reserved

-----------------------------------------------------------------------------
(* Isolation: a transaction that has read finds its request still unused, and *)
(* one that has written has applied its command to the tables as they are.    *)

Isolation ==
  /\ \A h \in Handlers : Shared(h) => db.idempotency[command[h].request] = None
  /\ \A h \in Handlers : Reserved(h) =>
       /\ written[h] = Apply(command[h], db)
       /\ AsExpected(command[h], db) /\ ~Sealed(command[h], db) /\ Unique(command[h], db)
  /\ \A g, h \in Handlers : Reserved(g) /\ Reserved(h) => g = h

\* Command c takes effect in the tables.
Effect(c) ==
  /\ db' = Apply(c, db)
  /\ AsExpected(c, db) /\ ~Sealed(c, db) /\ Unique(c, db)
  /\ db.idempotency[c.request] = None

\* A step that gives no handler a lock of the database and leaves its tables alone.
LEMMA QuietSteps ==
  ASSUME TypeOK, Isolation, UNCHANGED db,
         \A g \in Handlers : Shared(g)' =>
           /\ Shared(g) /\ (Reserved(g)' => Reserved(g))
           /\ command'[g] = command[g] /\ written'[g] = written[g]
  PROVE  Isolation'
<1>1. ASSUME NEW g \in Handlers, Shared(g)'
      PROVE  db'.idempotency[command'[g].request] = None
  BY <1>1 DEF Isolation
<1>2. ASSUME NEW g \in Handlers, Reserved(g)'
      PROVE  /\ Reserved(g)
             /\ written'[g] = Apply(command'[g], db')
             /\ AsExpected(command'[g], db') /\ ~Sealed(command'[g], db') /\ Unique(command'[g], db')
  <2>1. Shared(g)'  BY <1>2 DEF Shared, Reserved
  <2>2. Reserved(g) /\ command'[g] = command[g] /\ written'[g] = written[g]  BY <1>2, <2>1
  <2> QED BY <2>2 DEF Isolation
<1> QED BY <1>1, <1>2 DEF Isolation

\* So does the end of a transaction that does not commit.
LEMMA EndIsQuiet ==
  ASSUME TypeOK, Isolation, UNCHANGED db, NEW h \in Handlers, NEW answer,
         EndTransaction(h, answer)
  PROVE  Isolation'
<1>1. ASSUME NEW g \in Handlers, Shared(g)'
      PROVE  /\ Shared(g) /\ (Reserved(g)' => Reserved(g))
             /\ command'[g] = command[g] /\ written'[g] = written[g]
  BY <1>1 DEF EndTransaction, Shared, Reserved, TypeOK
<1> QED BY <1>1, QuietSteps

\* One handler moves to a step without locks, the others stay.
LEMMA MoveIsQuiet ==
  ASSUME TypeOK, Isolation, UNCHANGED db, NEW h \in Handlers,
         Receive(h, command'[h]) \/ Lock(h) \/ Begin(h) \/ AwaitReaders(h) \/ Respond(h)
  PROVE  Isolation'
<1>1. ASSUME NEW g \in Handlers, Shared(g)'
      PROVE  /\ Shared(g) /\ (Reserved(g)' => Reserved(g))
             /\ command'[g] = command[g] /\ written'[g] = written[g]
  BY <1>1 DEF Receive, Lock, Begin, AwaitReaders, Respond, Goto, Shared, Reserved, TypeOK
<1> QED BY <1>1, QuietSteps

LEMMA LookupKeepsIsolation ==
  ASSUME TypeOK, Isolation, NEW h \in Handlers, Lookup(h)
  PROVE  Isolation'
<1>1. CASE db.idempotency[command[h].request] = None /\ Goto(h, {"lookup"}, "operate")
           /\ UNCHANGED <<command, written, reply>>
  BY <1>1 DEF Lookup, Isolation, Goto, Shared, Reserved, TypeOK
<1>2. CASE \E answer : EndTransaction(h, answer)
  BY <1>2, EndIsQuiet DEF Lookup
<1> QED BY <1>1, <1>2 DEF Lookup

LEMMA OperateKeepsIsolation ==
  ASSUME TypeOK, Isolation, NEW h \in Handlers, Operate(h)
  PROVE  Isolation'
<1>1. CASE /\ Unique(command[h], db)
           /\ Goto(h, {"operate"}, "commit")
           /\ written' = [written EXCEPT ![h] = Apply(command[h], db)]
           /\ UNCHANGED <<command, reply>>
  <2>1. ASSUME NEW g \in Handlers, Shared(g)'
        PROVE  db'.idempotency[command'[g].request] = None
    BY <1>1, <2>1 DEF Operate, Isolation, Goto, Shared, TypeOK
  <2>2. ASSUME NEW g \in Handlers, Reserved(g)'
        PROVE  g = h
    BY <1>1, <2>2 DEF Operate, MayWrite, Goto, Reserved, TypeOK
  <2>3. /\ written'[h] = Apply(command'[h], db')
        /\ AsExpected(command'[h], db') /\ ~Sealed(command'[h], db') /\ Unique(command'[h], db')
    BY <1>1 DEF Operate, TypeOK
  <2> QED BY <2>1, <2>2, <2>3 DEF Isolation
<1>2. CASE EndTransaction(h, InternalError)
  BY <1>2, EndIsQuiet DEF Operate
<1> QED BY <1>1, <1>2 DEF Operate

\* Nobody else has read when a transaction commits.
LEMMA CommitKeepsIsolation ==
  ASSUME TypeOK, Isolation, NEW h \in Handlers, Commit(h)
  PROVE  Isolation'
<1>1. ASSUME NEW g \in Handlers
      PROVE  ~(pc'[g] \in {"operate", "commit", "pending"})
  BY DEF Commit, MayCommit, EndTransaction, Shared, TypeOK
<1> QED BY <1>1 DEF Isolation, Shared, Reserved

LEMMA VanishIsQuiet ==
  ASSUME TypeOK, Isolation, NEW p \in Processes, Vanish(p)
  PROVE  Isolation'
<1>1. ASSUME NEW g \in Handlers, Shared(g)'
      PROVE  /\ Shared(g) /\ (Reserved(g)' => Reserved(g))
             /\ command'[g] = command[g] /\ written'[g] = written[g]
  BY <1>1 DEF Vanish, Shared, Reserved, TypeOK
<1> QED BY <1>1, QuietSteps DEF Vanish

\* The COMMIT of a handler is its command taking effect.
LEMMA CommitEffect ==
  ASSUME TypeOK, Isolation, NEW h \in Handlers, Commit(h)
  PROVE  /\ command[h] \in Commands /\ Effect(command[h])
         /\ db'.idempotency[command[h].request] =
              [command |-> command[h], response |-> NextRevision(command[h], db)]
         /\ reply' = [reply EXCEPT ![h] = Answer("accepted", NextRevision(command[h], db))]
<1> DEFINE c == command[h]
<1>1. c \in Commands /\ c.request \in Requests /\ db \in Tables
  BY Serving DEF Commit, TypeOK
<1>2. Reserved(h) /\ Shared(h)  BY DEF Commit, Reserved, Shared
<1>3. Effect(c) /\ written[h] = Apply(c, db)  BY <1>2 DEF Isolation, Effect, Commit
<1>4. Apply(c, db).idempotency[c.request] = [command |-> c, response |-> NextRevision(c, db)]
  BY <1>1, TableFields DEF Apply
<1>5. StoredAnswer(c, Apply(c, db).idempotency[c.request]) = Answer("accepted", NextRevision(c, db))
  BY <1>4 DEF StoredAnswer
<1> QED BY <1>1, <1>3, <1>4, <1>5 DEF Commit, EndTransaction

\* Types and isolation are kept by every step of the store.
LEMMA StoreKeepsTypes ==
  ASSUME TypeOK, Isolation, StoreStep
  PROVE  TypeOK' /\ Isolation'
<1>1. ASSUME NEW h \in Handlers, Serve(h)
      PROVE  TypeOK' /\ Isolation'
  <2>1. ASSUME NEW c \in Commands, Receive(h, c)
        PROVE  TypeOK' /\ Isolation'
    <3>1. TypeOK'  BY <2>1, ReceiveTypes
    <3>2. command'[h] = c /\ UNCHANGED db  BY <2>1 DEF Receive, TypeOK
    <3> QED BY <2>1, <3>1, <3>2, MoveIsQuiet
  <2>2. CASE Lock(h)
    BY <2>2, LockTypes, MoveIsQuiet DEF Lock
  <2>3. CASE Begin(h)
    BY <2>3, GoOnTypes, MoveIsQuiet DEF Begin
  <2>4. CASE Lookup(h)
    BY <2>4, LookupTypes, LookupKeepsIsolation
  <2>5. CASE Refuse(h)
    BY <2>5, RefuseTypes, EndIsQuiet DEF Refuse
  <2>6. CASE Operate(h)
    BY <2>6, OperateTypes, OperateKeepsIsolation
  <2>7. CASE Commit(h)
    <3>1. /\ command[h] \in Commands /\ db \in Tables
          /\ db'.idempotency[command[h].request] =
               [command |-> command[h], response |-> NextRevision(command[h], db)]
      BY <2>7, CommitEffect DEF TypeOK
    <3>2. NextRevision(command[h], db) \in Nat
      BY <3>1, RevisionType, CommandFields DEF NextRevision
    <3>3. written[h].idempotency[command[h].request] \in StoredAnswers
      BY <2>7, <3>1, <3>2 DEF Commit, StoredAnswers
    <3> QED BY <2>7, <3>3, CommitTypes, CommitKeepsIsolation
  <2>8. CASE AwaitReaders(h)
    BY <2>8, GoOnTypes, MoveIsQuiet DEF AwaitReaders
  <2>9. CASE Busy(h) \/ Cancel(h)
    BY <2>9, GiveUpTypes, EndIsQuiet DEF Busy, Cancel
  <2>10. CASE Respond(h)
    BY <2>10, RespondTypes, MoveIsQuiet DEF Respond
  <2> QED BY <1>1, <2>1, <2>2, <2>3, <2>4, <2>5, <2>6, <2>7, <2>8, <2>9, <2>10 DEF Serve, Step
<1>2. ASSUME NEW p \in Processes, Vanish(p)
      PROVE  TypeOK' /\ Isolation'
  BY <1>2, VanishTypes, VanishIsQuiet
<1>3. CASE ManageStep
  <2>1. TypeOK'  BY <1>3 DEF ManageStep, TypeOK, locals, Reserved
  <2>2. Isolation'
    BY <1>3 DEF ManageStep, Isolation, locals, Shared, Reserved
  <2> QED BY <2>1, <2>2
<1> QED BY <1>1, <1>2, <1>3 DEF StoreStep

\* The processes may start in any phase.
Started == \E start \in {"down", "serving"} : Empty(start)

LEMMA InitTypes == Started => TypeOK /\ Isolation
<1> SUFFICES ASSUME NEW start \in {"down", "serving"}, Empty(start)
             PROVE  TypeOK /\ Isolation
  BY DEF Started
<1>1. TypeOK
  BY EmptyType, StoreAssumption DEF Empty, TypeOK, Mutex!Init, Steps, Reserved
<1>2. Isolation
  BY DEF Empty, Isolation, Shared, Reserved
<1> QED BY <1>1, <1>2

LEMMA InitStarts == Init => Started
BY DEF Init, Started

\* Every variable has its type, whatever the processes do (the types of command.go).
THEOREM StoreTypes == Spec => []TypeOK
<1>1. TypeOK /\ Isolation /\ [Next]_vars => TypeOK' /\ Isolation'
  BY NextSteps, StoreKeepsTypes
<1> QED BY InitStarts, InitTypes, <1>1, PTL DEF Spec

\* The tables change by a command that takes effect, and in no other way.
LEMMA OnlyCommits ==
  ASSUME TypeOK, Isolation, StoreStep
  PROVE  UNCHANGED db \/ \E c \in Commands : Effect(c)
<1>1. ASSUME NEW h \in Handlers, Serve(h)
      PROVE  UNCHANGED db \/ \E c \in Commands : Effect(c)
  <2>1. CASE Commit(h)
    BY <2>1, CommitEffect
  <2>2. CASE ~Commit(h)
    BY <1>1, <2>2 DEF Serve, Step, Receive, Lock, Begin, Lookup, Refuse, Operate, AwaitReaders,
                      Busy, Cancel, Respond
  <2> QED BY <2>1, <2>2
<1>2. ASSUME NEW p \in Processes, Vanish(p)
      PROVE  UNCHANGED db
  BY <1>2 DEF Vanish
<1> QED BY <1>1, <1>2 DEF StoreStep, ManageStep

-----------------------------------------------------------------------------
(* The trails                                                                *)

\* What a command that takes effect does to the batches.
LEMMA EffectOnBatches ==
  ASSUME TypeOK, NEW c \in Commands, Effect(c), NEW b \in Batches
  PROVE  /\ b # c.batch => /\ db'.batches[b] = db.batches[b] /\ db'.audit[b] = db.audit[b]
                           /\ db'.certificates[b] = db.certificates[b]
                           /\ Revision(b, db') = Revision(b, db)
         /\ b = c.batch => /\ db'.batches[b] = Row(c, db) /\ db'.batches[b] # None
                           /\ db'.audit[b] = Append(db.audit[b], Event(c, db))
                           /\ Revision(b, db') = NextRevision(c, db)
                           /\ Revision(b, db) = c.expected /\ NextRevision(c, db) = c.expected + 1
<1>1. db \in Tables /\ c.batch \in Batches  BY CommandFields DEF TypeOK
<1>2. /\ db.batches \in [Batches -> BatchRows \cup {None}] /\ db.audit \in [Batches -> Seq(EventRows)]
      /\ db.certificates \in [Batches -> Certificates \cup {None}]
  BY <1>1, TableFields
<1>3. CASE b # c.batch
  BY <1>1, <1>2, <1>3 DEF Effect, Apply, Revision
<1>4. CASE b = c.batch
  <2>1. db'.batches[b] = Row(c, db) /\ db'.audit[b] = Append(db.audit[b], Event(c, db))
    BY <1>1, <1>2, <1>4 DEF Effect, Apply
  <2>2. Row(c, db) # None  BY <1>1, RowType, StoreAssumption
  <2>3. Revision(b, db') = NextRevision(c, db)  BY <2>1, <2>2 DEF Revision, Row
  <2>4. Revision(b, db) = c.expected  BY <1>4 DEF Effect, AsExpected
  <2> QED BY <1>4, <2>1, <2>2, <2>3, <2>4 DEF NextRevision
<1> QED BY <1>3, <1>4

\* What it does to the requests.
LEMMA EffectOnRequests ==
  ASSUME TypeOK, NEW c \in Commands, Effect(c), NEW r \in Requests
  PROVE  /\ r # c.request => db'.idempotency[r] = db.idempotency[r]
         /\ r = c.request => /\ db.idempotency[r] = None
                             /\ db'.idempotency[r] = [command |-> c, response |-> c.expected + 1]
                             /\ db'.idempotency[r] # None
<1>1. db \in Tables /\ c.batch \in Batches /\ c.request \in Requests /\ c.expected \in Nat
  BY CommandFields DEF TypeOK
<1>2. db.idempotency \in [Requests -> StoredAnswers \cup {None}]  BY <1>1, TableFields
<1>3. NextRevision(c, db) = c.expected + 1  BY <1>1, EffectOnBatches
<1>4. [command |-> c, response |-> c.expected + 1] \in StoredAnswers  BY <1>1 DEF StoredAnswers
<1> QED BY <1>1, <1>2, <1>3, <1>4, StoreAssumption DEF Effect, Apply

\* The root of a trail with one more event is that event's digest.
LEMMA AppendRoot ==
  ASSUME NEW events \in Seq(EventRows), NEW e \in EventRows
  PROVE  /\ Len(Append(events, e)) = Len(events) + 1
         /\ AuditRoot(Append(events, e)) = Digest(e)
<1> DEFINE new == Append(events, e)
<1>1. Len(new) = Len(events) + 1 /\ new[Len(new)] = e  OBVIOUS
<1>2. new # <<>>  OBVIOUS
<1> HIDE DEF new
<1>3. AuditRoot(new) = Digest(e)  BY <1>1, <1>2 DEF AuditRoot
<1> QED BY <1>1, <1>3 DEF new

LEMMA TrailStep ==
  ASSUME TypeOK, TrailTellsRevisions, NEW c \in Commands, Effect(c)
  PROVE  TrailTellsRevisions'
<1> SUFFICES ASSUME NEW b \in Batches
             PROVE  /\ Len(db'.audit[b]) = Revision(b, db')
                    /\ \A i \in DOMAIN db'.audit[b] : db'.audit[b][i].revision = i
                    /\ VerifyEvents(db'.audit[b])
  BY DEF TrailTellsRevisions
<1>1. /\ Len(db.audit[b]) = Revision(b, db)
      /\ \A i \in DOMAIN db.audit[b] : db.audit[b][i].revision = i
      /\ VerifyEvents(db.audit[b])
  BY DEF TrailTellsRevisions
<1>2. CASE b # c.batch
  BY <1>1, <1>2, EffectOnBatches
<1>3. CASE b = c.batch
  <2> DEFINE old == db.audit[b]  new == db'.audit[b]  e == Event(c, db)
  <2>1. db \in Tables  BY DEF TypeOK
  <2>2. old \in Seq(EventRows) /\ e \in EventRows  BY <2>1, TableFields, EventType
  <2>3. new = Append(old, e) /\ Revision(b, db') = NextRevision(c, db) /\ Revision(b, db) \in Nat
    BY <1>3, <2>1, EffectOnBatches, RevisionType
  <2>4. NextRevision(c, db) = Len(old) + 1  BY <1>1, <1>3 DEF NextRevision
  <2>5. /\ Len(new) = Len(old) + 1 /\ new[Len(new)] = e
        /\ \A i \in DOMAIN new : i # Len(new) => i \in DOMAIN old /\ new[i] = old[i]
        /\ DOMAIN new = 1 .. Len(new) /\ Len(old) \in Nat
    BY <2>2, <2>3
  <2>6. e.revision = Len(new) /\ e.previous = AuditRoot(old)
    BY <1>3, <2>4, <2>5 DEF Event
  <2>7. \A i \in DOMAIN new : new[i].revision = i
    BY <1>1, <2>5, <2>6
  <2>8. ASSUME NEW i \in DOMAIN new
        PROVE  new[i].previous = IF i = 1 THEN <<>> ELSE Digest(new[i - 1])
    <3>1. CASE i = Len(new)
      <4>1. old = <<>> <=> i = 1  BY <2>2, <2>5, <3>1
      <4>2. i # 1 => new[i - 1] = old[Len(old)]  BY <2>5, <3>1
      <4> QED BY <2>5, <2>6, <3>1, <4>1, <4>2 DEF AuditRoot
    <3>2. CASE i # Len(new)
      <4>1. i \in DOMAIN old /\ new[i] = old[i]  BY <2>5, <3>2
      <4>2. i # 1 => new[i - 1] = old[i - 1]  BY <2>2, <2>5, <4>1
      <4> QED BY <1>1, <4>1, <4>2 DEF VerifyEvents
    <3> QED BY <3>1, <3>2
  <2> QED BY <2>3, <2>4, <2>5, <2>7, <2>8 DEF VerifyEvents
<1> QED BY <1>2, <1>3

\* The certificate's root is the digest of the last event.
LEMMA SealStep ==
  ASSUME TypeOK, TrailTellsRevisions, CertificateSealsTrail, NEW c \in Commands, Effect(c)
  PROVE  CertificateSealsTrail'
<1> SUFFICES ASSUME NEW b \in Batches
             PROVE  /\ db'.certificates[b] # None <=>
                         db'.batches[b] # None /\ db'.batches[b].status = "approved_sealed"
                    /\ db'.certificates[b] # None => db'.certificates[b] =
                         [revision |-> Len(db'.audit[b]), root |-> AuditRoot(db'.audit[b])]
  BY DEF CertificateSealsTrail
<1>1. /\ db.certificates[b] # None <=>
           db.batches[b] # None /\ db.batches[b].status = "approved_sealed"
      /\ db.certificates[b] # None => db.certificates[b] =
           [revision |-> Len(db.audit[b]), root |-> AuditRoot(db.audit[b])]
  BY DEF CertificateSealsTrail
<1>2. CASE b # c.batch
  BY <1>1, <1>2, EffectOnBatches
<1>3. CASE b = c.batch
  <2> DEFINE old == db.audit[b]  new == db'.audit[b]  e == Event(c, db)
  <2>1. db \in Tables  BY DEF TypeOK
  <2>2. old \in Seq(EventRows) /\ e \in EventRows  BY <2>1, TableFields, EventType
  <2>3. new = Append(old, e) /\ db'.batches[b] = Row(c, db) /\ db'.batches[b] # None
    BY <1>3, EffectOnBatches
  <2>4. NextRevision(c, db) = Len(old) + 1  BY <1>3 DEF NextRevision, TrailTellsRevisions
  <2>5. Len(new) = Len(old) + 1 /\ AuditRoot(new) = Digest(e)
    BY <2>2, <2>3, AppendRoot
  <2>6. CASE c.kind = "approve"
    <3>1. db'.certificates[b] = Certificate(c, db)
      BY <1>3, <2>1, <2>6, TableFields DEF Effect, Apply
    <3>2. Certificate(c, db) \in Certificates
      BY <2>1, <2>2, <2>4, DigestType, AuditRootType, RevisionType DEF Certificate, Certificates
    <3>3. Certificate(c, db) # None  BY <3>2, StoreAssumption
    <3>4. Row(c, db).status = "approved_sealed"  BY <2>6 DEF Row
    <3> QED BY <2>3, <2>4, <2>5, <3>1, <3>3, <3>4 DEF Certificate
  <2>7. CASE c.kind # "approve"
    <3>1. db'.certificates[b] = db.certificates[b]
      BY <1>3, <2>1, <2>7, TableFields DEF Effect, Apply
    <3>2. db'.batches[b].status # "approved_sealed"  BY <2>3, <2>7 DEF Row
    <3>3. db.batches[b] = None \/ db.batches[b].status = "open"
      <4>1. CASE c.kind = "create"
        <5>1. Revision(b, db) = 0  BY <1>3, <4>1 DEF Effect, AsExpected
        <5>2. db.batches[b] \in BatchRows \cup {None}  BY <2>1, TableFields
        <5> QED BY <5>1, <5>2 DEF Revision, BatchRows
      <4>2. CASE c.kind # "create"
        BY <1>3, <4>2 DEF Effect, Sealed
      <4> QED BY <4>1, <4>2
    <3> QED BY <1>1, <2>3, <3>1, <3>2, <3>3
  <2> QED BY <2>6, <2>7
<1> QED BY <1>2, <1>3

-----------------------------------------------------------------------------
(* Requests and events                                                       *)

\* An idempotency row points at the event of its request, an event at its row.
RowsAndEvents ==
  /\ \A r \in Requests : LET row == db.idempotency[r] IN row # None =>
       /\ row.command.request = r /\ row.response = row.command.expected + 1
       /\ row.response \in DOMAIN db.audit[row.command.batch]
       /\ db.audit[row.command.batch][row.response].request = r
  /\ \A b \in Batches : \A i \in DOMAIN db.audit[b] :
       LET row == db.idempotency[db.audit[b][i].request] IN
         row # None /\ row.command.batch = b /\ row.response = i

LEMMA RowsStep ==
  ASSUME TypeOK, TrailTellsRevisions, RowsAndEvents, NEW c \in Commands, Effect(c)
  PROVE  RowsAndEvents'
<1> DEFINE b0 == c.batch  old == db.audit[b0]  e == Event(c, db)  n == c.expected + 1
<1>1. /\ db \in Tables /\ b0 \in Batches /\ c.request \in Requests /\ c.expected \in Nat
  BY CommandFields DEF TypeOK
<1>2. old \in Seq(EventRows) /\ e \in EventRows /\ e.request = c.request
  BY <1>1, TableFields, EventType DEF Event
<1>3. db'.audit[b0] = Append(old, e) /\ Len(old) = c.expected
  BY <1>1, EffectOnBatches DEF TrailTellsRevisions
<1>4. /\ DOMAIN db'.audit[b0] = 1 .. n /\ DOMAIN old = 1 .. c.expected
      /\ db'.audit[b0][n] = e /\ \A i \in 1 .. c.expected : db'.audit[b0][i] = old[i]
  BY <1>1, <1>2, <1>3
<1>5. db'.idempotency[c.request] = [command |-> c, response |-> n] /\ db'.idempotency[c.request] # None
  BY <1>1, EffectOnRequests
<1>6. ASSUME NEW b \in Batches, NEW i \in DOMAIN db.audit[b]
      PROVE  i \in DOMAIN db'.audit[b] /\ db'.audit[b][i] = db.audit[b][i]
  <2>1. CASE b # b0  BY <2>1, EffectOnBatches
  <2>2. CASE b = b0
    <3>1. i \in 1 .. c.expected /\ i \in 1 .. n  BY <1>1, <1>4, <2>2
    <3> QED BY <1>4, <2>2, <3>1
  <2> QED BY <2>1, <2>2
<1>7. ASSUME NEW r \in Requests, db'.idempotency[r] # None
      PROVE  LET row == db'.idempotency[r] IN
             /\ row.command.request = r /\ row.response = row.command.expected + 1
             /\ row.response \in DOMAIN db'.audit[row.command.batch]
             /\ db'.audit[row.command.batch][row.response].request = r
  <2>1. CASE r = c.request
    BY <1>1, <1>2, <1>4, <1>5, <2>1
  <2>2. CASE r # c.request
    <3>1. db'.idempotency[r] = db.idempotency[r]  BY <2>2, EffectOnRequests
    <3>2. db.idempotency[r].command.batch \in Batches
      BY <1>1, <1>7, <3>1, TableFields, CommandFields DEF StoredAnswers
    <3> QED BY <1>6, <1>7, <3>1, <3>2 DEF RowsAndEvents
  <2> QED BY <2>1, <2>2
<1>8. ASSUME NEW b \in Batches, NEW i \in DOMAIN db'.audit[b]
      PROVE  LET row == db'.idempotency[db'.audit[b][i].request] IN
             row # None /\ row.command.batch = b /\ row.response = i
  <2>1. CASE b = b0 /\ i = n
    BY <1>2, <1>4, <1>5, <2>1
  <2>2. CASE ~(b = b0 /\ i = n)
    <3>1. i \in DOMAIN db.audit[b] /\ db'.audit[b][i] = db.audit[b][i]
      <4>1. CASE b # b0  BY <4>1, EffectOnBatches
      <4>2. CASE b = b0
        <5>1. i \in 1 .. c.expected  BY <1>1, <1>4, <2>2, <4>2
        <5> QED BY <1>4, <4>2, <5>1
      <4> QED BY <4>1, <4>2
    <3>2. db.audit[b][i].request \in Requests
      <4>1. db.audit[b] \in Seq(EventRows)  BY <1>1, TableFields
      <4>2. db.audit[b][i] \in EventRows  BY <3>1, <4>1
      <4> QED BY <4>2 DEF EventRows
    <3>3. db.idempotency[db.audit[b][i].request] # None  BY <3>1 DEF RowsAndEvents
    <3>4. db'.idempotency[db.audit[b][i].request] = db.idempotency[db.audit[b][i].request]
      BY <3>2, <3>3, EffectOnRequests
    <3>5. /\ db.idempotency[db.audit[b][i].request].command.batch = b
          /\ db.idempotency[db.audit[b][i].request].response = i
      BY <3>1 DEF RowsAndEvents
    <3> HIDE DEF b0, old, e, n
    <3> QED BY <3>1, <3>3, <3>4, <3>5
  <2> QED BY <2>1, <2>2
<1> QED BY <1>7, <1>8 DEF RowsAndEvents

LEMMA RowsGiveExactlyOnce == TypeOK /\ RowsAndEvents => ExactlyOnce
<1> SUFFICES ASSUME TypeOK, RowsAndEvents, NEW r \in Requests
             PROVE  Traces(r) = IF db.idempotency[r] = None THEN {}
                                ELSE {<<db.idempotency[r].command.batch, db.idempotency[r].response>>}
  BY DEF ExactlyOnce
<1> DEFINE row == db.idempotency[r]
<1>1. \A x : x \in Traces(r) <=>
        \E b \in Batches : \E i \in DOMAIN db.audit[b] : x = <<b, i>> /\ db.audit[b][i].request = r
  BY DEF Traces
<1>2. CASE row = None
  BY <1>1, <1>2 DEF RowsAndEvents
<1>3. CASE row # None
  <2>1. row.command.batch \in Batches
    BY <1>3, TableFields, CommandFields DEF TypeOK, StoredAnswers
  <2>2. <<row.command.batch, row.response>> \in Traces(r)
    BY <1>1, <1>3, <2>1 DEF RowsAndEvents
  <2>3. \A x \in Traces(r) : x = <<row.command.batch, row.response>>
    BY <1>1 DEF RowsAndEvents
  <2> QED BY <1>3, <2>2, <2>3
<1> QED BY <1>2, <1>3

LEMMA RowsGiveOneWinner == TypeOK /\ RowsAndEvents => OneWinnerPerRevision
<1> SUFFICES ASSUME TypeOK, RowsAndEvents,
                    NEW r \in Requests, NEW s \in Requests,
                    db.idempotency[r] # None, db.idempotency[s] # None
             PROVE  LET rowR == db.idempotency[r]  rowS == db.idempotency[s] IN
                    /\ rowR.response = rowR.command.expected + 1
                    /\ rowR.command.batch = rowS.command.batch
                         /\ rowR.command.expected = rowS.command.expected => r = s
  BY DEF OneWinnerPerRevision
<1> DEFINE rowR == db.idempotency[r]  rowS == db.idempotency[s]
<1>1. /\ rowR.response = rowR.command.expected + 1 /\ rowS.response = rowS.command.expected + 1
      /\ db.audit[rowR.command.batch][rowR.response].request = r
      /\ db.audit[rowS.command.batch][rowS.response].request = s
  BY DEF RowsAndEvents
<1> QED BY <1>1

-----------------------------------------------------------------------------
(* The invariant of the tables                                               *)

TablesInv == TypeOK /\ Isolation /\ TrailTellsRevisions /\ CertificateSealsTrail /\ RowsAndEvents

LEMMA InitTables == Started => TablesInv
<1> SUFFICES ASSUME Started PROVE TablesInv
  OBVIOUS
<1>1. TypeOK /\ Isolation  BY InitTypes
<1>2. db = EmptyTables  BY DEF Started, Empty
<1>3. TrailTellsRevisions  BY <1>2 DEF TrailTellsRevisions, EmptyTables, Revision, VerifyEvents
<1>4. CertificateSealsTrail  BY <1>2 DEF CertificateSealsTrail, EmptyTables
<1>5. RowsAndEvents  BY <1>2 DEF RowsAndEvents, EmptyTables
<1> QED BY <1>1, <1>3, <1>4, <1>5 DEF TablesInv

LEMMA TablesStep == TablesInv /\ StoreStep => TablesInv'
<1> SUFFICES ASSUME TablesInv, StoreStep PROVE TablesInv'
  OBVIOUS
<1> USE DEF TablesInv
<1>1. TypeOK' /\ Isolation'  BY StoreKeepsTypes
<1>2. CASE UNCHANGED db
  BY <1>1, <1>2 DEF TrailTellsRevisions, CertificateSealsTrail, RowsAndEvents, Revision
<1>3. ASSUME NEW c \in Commands, Effect(c)
      PROVE  TablesInv'
  BY <1>1, <1>3, TrailStep, SealStep, RowsStep
<1> QED BY <1>2, <1>3, OnlyCommits

LEMMA StoreInvariant == Spec => []TablesInv
BY InitStarts, InitTables, TablesStep, NextSteps, PTL DEF Spec, TablesInv

\* However often a command is sent it is applied once (execute).
THEOREM RequestsApplyOnce == Spec => []ExactlyOnce
BY StoreInvariant, RowsGiveExactlyOnce, PTL DEF TablesInv

\* Of commands prepared on the same revision one is accepted at most (Mutate, Create).
THEOREM RevisionsHaveOneWinner == Spec => []OneWinnerPerRevision
BY StoreInvariant, RowsGiveOneWinner, PTL DEF TablesInv

\* The audit trail has one event per revision, and they form a chain (appendEventTx).
THEOREM TrailsAreComplete == Spec => []TrailTellsRevisions
BY StoreInvariant, PTL DEF TablesInv

\* A certificate seals the last event of the trail (insertCertificateTx).
THEOREM CertificatesAreFinal == Spec => []CertificateSealsTrail
BY StoreInvariant, PTL DEF TablesInv

-----------------------------------------------------------------------------
(* History                                                                   *)

\* An effect adds to the tables; a certificate is not replaced, for the command that
\* takes effect found its batch open.
LEMMA EffectKeepsHistory ==
  ASSUME TablesInv, NEW c \in Commands, Effect(c)
  PROVE  /\ \A b \in Batches :
              /\ Len(db'.audit[b]) >= Len(db.audit[b])
              /\ \A i \in DOMAIN db.audit[b] : db'.audit[b][i] = db.audit[b][i]
              /\ db.certificates[b] # None => db'.certificates[b] = db.certificates[b]
         /\ \A r \in Requests : db.idempotency[r] # None => db'.idempotency[r] = db.idempotency[r]
         /\ \A o \in ObservationIds :
              db.observations[o] # None => db'.observations[o] = db.observations[o]
<1>1. db \in Tables /\ TypeOK  BY DEF TablesInv, TypeOK
<1>2. ASSUME NEW b \in Batches
      PROVE  /\ Len(db'.audit[b]) >= Len(db.audit[b])
             /\ \A i \in DOMAIN db.audit[b] : db'.audit[b][i] = db.audit[b][i]
             /\ db.certificates[b] # None => db'.certificates[b] = db.certificates[b]
  <2>1. db.audit[b] \in Seq(EventRows)  BY <1>1, TableFields
  <2>2. CASE b # c.batch
    BY <1>1, <2>1, <2>2, EffectOnBatches
  <2>3. CASE b = c.batch
    <3>1. Event(c, db) \in EventRows  BY <1>1, EventType
    <3>2. db'.audit[b] = Append(db.audit[b], Event(c, db))  BY <1>1, <2>3, EffectOnBatches
    <3>3. Len(db'.audit[b]) >= Len(db.audit[b]) /\ \A i \in DOMAIN db.audit[b] : db'.audit[b][i] = db.audit[b][i]
      BY <2>1, <3>1, <3>2
    <3>4. db.certificates[b] = None
      <4>1. db.certificates[b] # None =>
              db.batches[b] # None /\ db.batches[b].status = "approved_sealed"
        BY DEF TablesInv, CertificateSealsTrail
      <4>2. db.batches[b] \in BatchRows \cup {None}  BY <1>1, TableFields
      <4>3. CASE c.kind = "create"
        BY <2>3, <4>1, <4>2, <4>3 DEF Effect, AsExpected, Revision, BatchRows
      <4>4. CASE c.kind # "create"
        BY <2>3, <4>1, <4>4 DEF Effect, Sealed
      <4> QED BY <4>3, <4>4
    <3> QED BY <3>3, <3>4
  <2> QED BY <2>2, <2>3
<1>3. ASSUME NEW r \in Requests, db.idempotency[r] # None
      PROVE  db'.idempotency[r] = db.idempotency[r]
  BY <1>1, <1>3, EffectOnRequests
<1>4. ASSUME NEW o \in ObservationIds, db.observations[o] # None
      PROVE  db'.observations[o] = db.observations[o]
  <2>1. o # c.observation  BY <1>4, StoreAssumption DEF Effect, Unique
  <2>2. db'.observations = [x \in ObservationIds |->
                             IF x = c.observation THEN c.batch ELSE db.observations[x]]
    BY DEF Effect, Apply
  <2> QED BY <2>1, <2>2
<1> QED BY <1>2, <1>3, <1>4

\* Committed history is never rewritten (appendEventTx, insertCertificateTx, execute).
THEOREM StoreKeepsHistory == Spec => HistoryIsKept
<1>1. ASSUME TablesInv, [Next]_vars
      PROVE  [/\ \A b \in Batches :
                  /\ Len(db'.audit[b]) >= Len(db.audit[b])
                  /\ \A i \in DOMAIN db.audit[b] : db'.audit[b][i] = db.audit[b][i]
                  /\ db.certificates[b] # None => db'.certificates[b] = db.certificates[b]
              /\ \A r \in Requests : db.idempotency[r] # None => db'.idempotency[r] = db.idempotency[r]
              /\ \A o \in ObservationIds :
                   db.observations[o] # None => db'.observations[o] = db.observations[o]]_db
  BY <1>1, NextSteps, OnlyCommits, EffectKeepsHistory DEF TablesInv
<1> QED BY <1>1, StoreInvariant, PTL DEF Spec, HistoryIsKept

-----------------------------------------------------------------------------
(* Answers                                                                   *)

\* The row of request c.request is that of command c, with response n.
Holds(c, n, t) == t.idempotency[c.request] = [command |-> c, response |-> n]

\* Command c had not been applied when the batch was at revision n, and never will be
\* unless it was premature.
Dead(c, n, t) ==
  LET row == t.idempotency[c.request] IN
  IF Premature(c, n)
  THEN row # None /\ row.command = c => row.response > n
  ELSE /\ row # None => row.command # c
       /\ Revision(c.batch, t) > c.expected \/ (c.kind = "create" /\ c.expected # 0)

RepliesHold ==
  /\ \A answer \in heard : Holds(answer[1], answer[2], db)
  /\ \A h \in Handlers : reply[h] # None =>
       /\ reply[h].code = "accepted" => Holds(command[h], reply[h].revision, db)
       /\ reply[h].code = "idempotency_conflict" =>
            /\ db.idempotency[command[h].request] # None
            /\ db.idempotency[command[h].request].command # command[h]
       /\ reply[h].code = "revision_conflict" => Dead(command[h], reply[h].revision, db)

\* What holds of an answer holds for good.
LEMMA EffectKeepsAnswers ==
  ASSUME TablesInv, NEW d \in Commands, Effect(d), NEW c \in Commands, NEW n \in Nat
  PROVE  /\ Holds(c, n, db) => Holds(c, n, db')
         /\ db.idempotency[c.request] # None =>
              db'.idempotency[c.request] = db.idempotency[c.request]
         /\ Dead(c, n, db) => Dead(c, n, db')
<1> DEFINE row == db.idempotency[c.request]
<1>1. /\ TypeOK /\ db \in Tables /\ c.request \in Requests /\ c.batch \in Batches
      /\ c.expected \in Nat /\ d.expected \in Nat
  BY CommandFields DEF TablesInv, TypeOK
<1>2. row # None => db'.idempotency[c.request] = row
  BY <1>1, EffectOnRequests
<1>3. ASSUME Holds(c, n, db)
      PROVE  Holds(c, n, db')
  <2>1. [command |-> c, response |-> n] # None  BY StoreAssumption DEF StoredAnswers
  <2> QED BY <1>2, <1>3, <2>1 DEF Holds
<1>4. CASE c.request # d.request
  <2>1. db'.idempotency[c.request] = row  BY <1>1, <1>4, EffectOnRequests
  <2>2. Revision(c.batch, db) > c.expected => Revision(c.batch, db') > c.expected
    BY <1>1, RevisionType, EffectOnBatches
  <2> QED BY <1>2, <1>3, <2>1, <2>2 DEF Dead
<1>5. CASE c.request = d.request
  <2>1. db'.idempotency[c.request] = [command |-> d, response |-> d.expected + 1]
    BY <1>1, <1>5, EffectOnRequests
  <2>2. ASSUME Dead(c, n, db), Premature(c, n)
        PROVE  Dead(c, n, db')
    BY <1>1, <2>1, <2>2 DEF Dead, Premature
  <2>3. ASSUME Dead(c, n, db), ~Premature(c, n)
        PROVE  Dead(c, n, db')
    <3>1. Revision(c.batch, db) > c.expected \/ (c.kind = "create" /\ c.expected # 0)
      BY <2>3 DEF Dead
    <3>2. Revision(c.batch, db) \in Nat  BY <1>1, RevisionType
    <3>3. d # c  BY <1>1, <3>1, <3>2 DEF Effect, AsExpected
    <3>4. Revision(c.batch, db) > c.expected => Revision(c.batch, db') > c.expected
      BY <1>1, <3>2, EffectOnBatches
    <3> QED BY <2>1, <2>3, <3>1, <3>3, <3>4 DEF Dead
  <2> QED BY <1>2, <1>3, <2>2, <2>3
<1> QED BY <1>4, <1>5

\* The answers of a handler whose transaction ends without COMMIT.
LEMMA EndKeepsReplies ==
  ASSUME TypeOK, RepliesHold, UNCHANGED <<db, heard>>, NEW h \in Handlers, NEW answer,
         EndTransaction(h, answer),
         answer.code = "accepted" => Holds(command[h], answer.revision, db),
         answer.code = "idempotency_conflict" =>
           /\ db.idempotency[command[h].request] # None
           /\ db.idempotency[command[h].request].command # command[h],
         answer.code = "revision_conflict" => Dead(command[h], answer.revision, db)
  PROVE  RepliesHold'
<1>1. ASSUME NEW g \in Handlers, reply'[g] # None
      PROVE  /\ reply'[g].code = "accepted" => Holds(command'[g], reply'[g].revision, db')
             /\ reply'[g].code = "idempotency_conflict" =>
                  /\ db'.idempotency[command'[g].request] # None
                  /\ db'.idempotency[command'[g].request].command # command'[g]
             /\ reply'[g].code = "revision_conflict" => Dead(command'[g], reply'[g].revision, db')
  <2>1. CASE g = h
    BY <2>1 DEF EndTransaction, TypeOK, Holds, Dead, Revision
  <2>2. CASE g # h
    BY <1>1, <2>2 DEF EndTransaction, TypeOK, RepliesHold, Holds, Dead, Revision
  <2> QED BY <2>1, <2>2
<1>2. \A answered \in heard' : Holds(answered[1], answered[2], db')
  BY DEF RepliesHold, Holds
<1> QED BY <1>1, <1>2 DEF RepliesHold

LEMMA LookupKeepsReplies ==
  ASSUME TypeOK, RepliesHold, NEW h \in Handlers, Lookup(h)
  PROVE  RepliesHold'
<1> DEFINE row == db.idempotency[command[h].request]  c == command[h]
<1>1. c \in Commands /\ c.request \in Requests /\ db \in Tables
  BY Serving DEF Lookup, TypeOK
<1>2. CASE row = None
  BY <1>2 DEF Lookup, RepliesHold, Holds, Dead, Revision
<1>3. CASE row # None
  <2>1. row \in StoredAnswers  BY <1>1, <1>3, TableFields
  <2>2. row.command = c => Holds(c, row.response, db)
    BY <2>1 DEF StoredAnswers, Holds
  <2> QED BY <1>1, <1>3, <2>1, <2>2, EndKeepsReplies DEF Lookup, StoredAnswer, Answer
<1> QED BY <1>2, <1>3

LEMMA RefuseKeepsReplies ==
  ASSUME TypeOK, Isolation, RepliesHold, NEW h \in Handlers, Refuse(h)
  PROVE  RepliesHold'
<1> DEFINE c == command[h]
        answer == IF AsExpected(c, db) THEN Answer("refused", 0) ELSE Mismatch(c, db)
<1>1. db.idempotency[c.request] = None  BY DEF Refuse, Isolation, Shared
<1>2. answer.code \notin {"accepted", "idempotency_conflict"}
  BY DEF Answer, Mismatch
<1>3. answer.code = "revision_conflict" => Dead(c, answer.revision, db)
  <2> SUFFICES ASSUME answer.code = "revision_conflict" PROVE Dead(c, answer.revision, db)
    OBVIOUS
  <2>1. c \in Commands /\ c.expected \in Nat /\ Revision(c.batch, db) \in Nat
    BY Serving, CommandFields, RevisionType DEF Refuse, TypeOK
  <2>2. ~AsExpected(c, db) /\ answer.revision = Revision(c.batch, db)
    BY DEF Answer, Mismatch
  <2>3. c.kind # "create" => Revision(c.batch, db) # 0
    BY <2>2 DEF Answer, Mismatch
  <2> QED BY <1>1, <2>1, <2>2, <2>3 DEF Dead, Premature, AsExpected
<1> QED BY <1>2, <1>3, EndKeepsReplies DEF Refuse

LEMMA GiveUpKeepsReplies ==
  ASSUME TypeOK, RepliesHold, UNCHANGED <<db, heard>>, NEW h \in Handlers,
         EndTransaction(h, InternalError)
  PROVE  RepliesHold'
BY EndKeepsReplies DEF InternalError, Answer

\* The step of one handler that prepares no answer.
LEMMA MoveKeepsReplies ==
  ASSUME TypeOK, RepliesHold, UNCHANGED <<db, heard>>,
         \A g \in Handlers : reply'[g] # None => reply'[g] = reply[g] /\ command'[g] = command[g]
  PROVE  RepliesHold'
BY DEF RepliesHold, Holds, Dead, Revision

LEMMA CommitKeepsReplies ==
  ASSUME TablesInv, RepliesHold, NEW h \in Handlers, Commit(h)
  PROVE  RepliesHold'
<1> DEFINE c == command[h]  n == NextRevision(c, db)
<1>1. /\ TypeOK /\ c \in Commands /\ Effect(c) /\ reply' = [reply EXCEPT ![h] = Answer("accepted", n)]
      /\ db'.idempotency[c.request] = [command |-> c, response |-> n]
      /\ command' = command /\ heard' = heard
  BY CommitEffect DEF TablesInv, Commit, EndTransaction
<1>2. ASSUME NEW answer \in heard'
      PROVE  Holds(answer[1], answer[2], db')
  <2>1. answer[1] \in Commands /\ answer[2] \in Nat /\ Holds(answer[1], answer[2], db)
    BY <1>1, <1>2 DEF TypeOK, RepliesHold
  <2> QED BY <1>1, <2>1, EffectKeepsAnswers
<1>3. ASSUME NEW g \in Handlers, reply'[g] # None
      PROVE  /\ reply'[g].code = "accepted" => Holds(command'[g], reply'[g].revision, db')
             /\ reply'[g].code = "idempotency_conflict" =>
                  /\ db'.idempotency[command'[g].request] # None
                  /\ db'.idempotency[command'[g].request].command # command'[g]
             /\ reply'[g].code = "revision_conflict" => Dead(command'[g], reply'[g].revision, db')
  <2>1. CASE g = h
    BY <1>1, <2>1 DEF Holds, Answer, TypeOK
  <2>2. CASE g # h
    <3>1. reply'[g] = reply[g]  BY <1>1, <2>2 DEF TypeOK
    <3>2. reply[g] \in Answers /\ command[g] \in Commands
      BY <1>1, <1>3, <3>1 DEF TypeOK
    <3>3. reply[g].revision \in Nat  BY <3>2 DEF Answers
    <3>4. /\ reply[g].code = "accepted" => Holds(command[g], reply[g].revision, db)
          /\ reply[g].code = "idempotency_conflict" =>
               /\ db.idempotency[command[g].request] # None
               /\ db.idempotency[command[g].request].command # command[g]
          /\ reply[g].code = "revision_conflict" => Dead(command[g], reply[g].revision, db)
      BY <1>3, <3>1 DEF RepliesHold
    <3>5. Holds(command[g], reply[g].revision, db) => Holds(command[g], reply[g].revision, db')
      BY <1>1, <3>2, <3>3, EffectKeepsAnswers
    <3>6. Dead(command[g], reply[g].revision, db) => Dead(command[g], reply[g].revision, db')
      BY <1>1, <3>2, <3>3, EffectKeepsAnswers
    <3>7. db.idempotency[command[g].request] # None =>
            db'.idempotency[command[g].request] = db.idempotency[command[g].request]
      BY <1>1, <3>2, <3>3, EffectKeepsAnswers
    <3> QED BY <1>1, <3>1, <3>4, <3>5, <3>6, <3>7
  <2> QED BY <2>1, <2>2
<1> QED BY <1>2, <1>3 DEF RepliesHold

LEMMA RespondKeepsReplies ==
  ASSUME TypeOK, RepliesHold, NEW h \in Handlers, Respond(h)
  PROVE  RepliesHold'
<1>1. \A g \in Handlers : reply'[g] # None => reply'[g] = reply[g] /\ command'[g] = command[g]
  BY DEF Respond, TypeOK
<1>2. UNCHANGED db  BY DEF Respond
<1>3. reply[h].code = "accepted" => Holds(command[h], reply[h].revision, db)
  BY DEF RepliesHold, Respond, Goto, TypeOK
<1>4. \A answer \in heard' : Holds(answer[1], answer[2], db)
  BY <1>3 DEF Respond, RepliesHold
<1> QED BY <1>1, <1>2, <1>4 DEF RepliesHold, Holds, Dead, Revision

LEMMA RepliesStep == TablesInv /\ RepliesHold /\ StoreStep => RepliesHold'
<1> SUFFICES ASSUME TablesInv, RepliesHold, StoreStep PROVE RepliesHold'
  OBVIOUS
<1>0. TypeOK /\ Isolation  BY DEF TablesInv
<1>1. ASSUME NEW h \in Handlers, Serve(h)
      PROVE  RepliesHold'
  <2>1. CASE (\E c \in Commands : Receive(h, c)) \/ Lock(h) \/ Begin(h) \/ AwaitReaders(h)
    <3>1. UNCHANGED <<db, heard>>  BY <2>1 DEF Receive, Lock, Begin, AwaitReaders
    <3>2. \A g \in Handlers : reply'[g] # None => reply'[g] = reply[g] /\ command'[g] = command[g]
      BY <1>0, <2>1 DEF Receive, Lock, Begin, AwaitReaders, Goto, TypeOK
    <3> QED BY <1>0, <3>1, <3>2, MoveKeepsReplies
  <2>2. CASE Lookup(h)
    BY <1>0, <2>2, LookupKeepsReplies
  <2>3. CASE Refuse(h)
    BY <1>0, <2>3, RefuseKeepsReplies
  <2>4. CASE Operate(h)
    <3>1. CASE EndTransaction(h, InternalError)
      BY <1>0, <2>4, <3>1, GiveUpKeepsReplies DEF Operate
    <3>2. CASE UNCHANGED <<command, reply>>
      BY <1>0, <2>4, <3>2, MoveKeepsReplies DEF Operate
    <3> QED BY <2>4, <3>1, <3>2 DEF Operate
  <2>5. CASE Commit(h)
    BY <2>5, CommitKeepsReplies
  <2>6. CASE Busy(h) \/ Cancel(h)
    BY <1>0, <2>6, GiveUpKeepsReplies DEF Busy, Cancel
  <2>7. CASE Respond(h)
    BY <1>0, <2>7, RespondKeepsReplies
  <2> QED BY <1>1, <2>1, <2>2, <2>3, <2>4, <2>5, <2>6, <2>7 DEF Serve, Step
<1>2. ASSUME NEW p \in Processes, Vanish(p)
      PROVE  RepliesHold'
  BY <1>0, <1>2, MoveKeepsReplies DEF Vanish
<1>3. CASE ManageStep
  BY <1>0, <1>3, MoveKeepsReplies DEF ManageStep, locals
<1> QED BY <1>1, <1>2, <1>3 DEF StoreStep

LEMMA InitReplies == Started => RepliesHold
BY DEF Started, Empty, RepliesHold

LEMMA AnswersInvariant == Spec => [](TablesInv /\ RepliesHold)
BY InitStarts, InitReplies, InitTables, TablesStep, RepliesStep, NextSteps, PTL DEF Spec, TablesInv

\* What a client has been told is in the store for good (execute).
THEOREM AnswersStand == Spec => []AnswersAreDurable
<1>1. RepliesHold => AnswersAreDurable  BY DEF RepliesHold, Holds, AnswersAreDurable
<1> QED BY <1>1, AnswersInvariant, PTL

\* A command that is answered with a conflict has not been applied, and never will be
\* unless it was sent too early (execute, Mutate).
THEOREM ConflictsStand == Spec => []ConflictsAreFinal
<1>1. TablesInv /\ RepliesHold => ConflictsAreFinal
  <2> SUFFICES ASSUME TablesInv, RepliesHold, NEW h \in Handlers, reply[h] # None,
                      reply[h].code = "revision_conflict", ~Premature(command[h], reply[h].revision)
               PROVE  ~AsExpected(command[h], db)
    BY DEF RepliesHold, Dead, ConflictsAreFinal
  <2>1. /\ command[h].expected \in Nat /\ Revision(command[h].batch, db) \in Nat
        /\ db \in Tables
    <3>1. TypeOK /\ command[h] \in Commands  BY DEF TablesInv, TypeOK
    <3> QED BY <3>1, CommandFields, RevisionType DEF TypeOK
  <2> QED BY <2>1 DEF RepliesHold, Dead, AsExpected
<1> QED BY <1>1, AnswersInvariant, PTL

-----------------------------------------------------------------------------
(* The mutexes of the batches                                                *)

\* A handler that is past its mutex holds it.
MutexInv == \A h \in Handlers :
  pc[h] \notin {"idle", "lock"} => owner[MutexOf(h, command[h])] = h

LEMMA MutexStep == TypeOK /\ MutexInv /\ StoreStep => MutexInv'
<1> SUFFICES ASSUME TypeOK, MutexInv, StoreStep PROVE MutexInv'
  OBVIOUS
<1>1. ASSUME NEW h \in Handlers, Serve(h)
      PROVE  MutexInv'
  <2>1. CASE Lock(h)
    <3>1. /\ MutexOf(h, command[h]) \in Processes \X Batches /\ UNCHANGED command
          /\ owner[MutexOf(h, command[h])] = None
          /\ owner' = [owner EXCEPT ![MutexOf(h, command[h])] = h]
          /\ pc' = [pc EXCEPT ![h] = "connect"]
      BY <2>1, Serving DEF Lock, Goto, Mutex!Grant
    <3>2. ASSUME NEW g \in Handlers, g # h, pc[g] \notin {"idle", "lock"}
          PROVE  owner'[MutexOf(g, command'[g])] = g
      <4>1. owner[MutexOf(g, command[g])] = g  BY <3>2 DEF MutexInv
      <4>2. MutexOf(g, command[g]) # MutexOf(h, command[h])  BY <3>1, <4>1, StoreAssumption
      <4> QED BY <3>1, <4>1, <4>2 DEF TypeOK, MutexOf
    <3>3. owner'[MutexOf(h, command'[h])] = h  BY <3>1 DEF TypeOK, MutexOf
    <3> QED BY <3>1, <3>2, <3>3 DEF MutexInv, MutexOf, TypeOK
  <2>2. CASE Respond(h)
    <3>1. /\ pc' = [pc EXCEPT ![h] = "idle"]
          /\ owner' = [owner EXCEPT ![MutexOf(h, command[h])] = None]
          /\ command' = [command EXCEPT ![h] = None] /\ owner[MutexOf(h, command[h])] = h
      BY <2>2 DEF Respond, Goto, Mutex!Release
    <3>2. ASSUME NEW g \in Handlers, g # h, pc[g] \notin {"idle", "lock"}
          PROVE  owner'[MutexOf(g, command[g])] = g
      <4>1. owner[MutexOf(g, command[g])] = g  BY <3>2 DEF MutexInv
      <4>2. MutexOf(g, command[g]) # MutexOf(h, command[h])  BY <3>1, <3>2, <4>1
      <4> QED BY <3>1, <4>1, <4>2 DEF TypeOK
    <3>3. \A g \in Handlers \ {h} : pc'[g] = pc[g] /\ command'[g] = command[g]
      BY <3>1 DEF TypeOK
    <3>4. pc'[h] = "idle"  BY <3>1 DEF TypeOK
    <3> QED BY <3>2, <3>3, <3>4 DEF MutexInv, MutexOf
  <2>3. CASE \E c \in Commands : Receive(h, c)
    BY <2>3 DEF Receive, Goto, Mutex!Request, MutexInv, MutexOf, TypeOK
  <2>4. CASE \/ Begin(h) \/ Lookup(h) \/ Refuse(h) \/ Operate(h) \/ Commit(h)
             \/ AwaitReaders(h) \/ Busy(h) \/ Cancel(h)
    <3>1. /\ UNCHANGED <<owner, command>> /\ pc[h] \notin {"idle", "lock"}
          /\ \A g \in Handlers \ {h} : pc'[g] = pc[g]
      BY <2>4 DEF Begin, Lookup, Refuse, Operate, Commit, AwaitReaders, Busy, Cancel, Goto,
                  EndTransaction, TypeOK
    <3> QED BY <3>1 DEF MutexInv, MutexOf
  <2> QED BY <1>1, <2>1, <2>2, <2>3, <2>4 DEF Serve, Step
<1>2. ASSUME NEW p \in Processes, Vanish(p)
      PROVE  MutexInv'
  <2>1. ASSUME NEW g \in Handlers, pc'[g] \notin {"idle", "lock"}
        PROVE  owner'[MutexOf(g, command'[g])] = g
    <3>1. ProcessOf[g] # p /\ pc'[g] = pc[g] /\ command'[g] = command[g]
      BY <1>2, <2>1 DEF Vanish
    <3>2. MutexOf(g, command[g]) \in Processes \X Batches /\ MutexOf(g, command[g])[1] = ProcessOf[g]
      BY <2>1, <3>1, Serving DEF MutexOf
    <3>3. owner[MutexOf(g, command[g])] = g  BY <2>1, <3>1 DEF MutexInv
    <3>4. owner'[MutexOf(g, command[g])] = g  BY <1>2, <3>1, <3>2, <3>3 DEF Vanish
    <3> QED BY <3>1, <3>4
  <2> QED BY <2>1 DEF MutexInv, MutexOf
<1>3. CASE ManageStep
  BY <1>3 DEF ManageStep, locals, MutexInv, MutexOf
<1> QED BY <1>1, <1>2, <1>3 DEF StoreStep

LEMMA InitMutex == Started => MutexInv
BY DEF Started, Empty, MutexInv

LEMMA MutexInvariant == Spec => [](TypeOK /\ MutexInv)
BY InitStarts, InitMutex, StoreTypes, MutexStep, NextSteps, PTL DEF Spec

\* Transactions of one process on one batch do not overlap (Create, Mutate).
THEOREM TransactionsAreSerial == Spec => []OneTransactionPerBatch
<1>1. ASSUME TypeOK, MutexInv, NEW p \in Processes, NEW g \in Connected(p), NEW h \in Connected(p),
             command[g].batch = command[h].batch
      PROVE  g = h
  <2>1. /\ g \in Handlers /\ ProcessOf[g] = p /\ pc[g] \notin {"idle", "lock"}
        /\ h \in Handlers /\ ProcessOf[h] = p /\ pc[h] \notin {"idle", "lock"}
    BY DEF Connected
  <2>2. MutexOf(g, command[g]) = MutexOf(h, command[h])  BY <1>1, <2>1 DEF MutexOf
  <2> QED BY <1>1, <2>1, <2>2 DEF MutexInv
<1>2. TypeOK /\ MutexInv => OneTransactionPerBatch
  BY <1>1 DEF OneTransactionPerBatch
<1> QED BY <1>2, MutexInvariant, PTL

-----------------------------------------------------------------------------
(* The ledger                                                                *)

LEMMA InitIsLedger == Started => Books!Init
BY DEF Started, Empty, Books!Init, EmptyTables, Revision

\* A command that takes effect takes effect in the ledger.
LEMMA EffectInLedger ==
  ASSUME TypeOK, NEW c \in Commands, Effect(c), UNCHANGED heard
  PROVE  Books!TakeEffect(c)
<1> DEFINE Sealing(t) == {b \in Batches : Revision(b, t) # 0 /\ t.batches[b].status # "open"}
<1>1. /\ db \in Tables /\ c.request \in Requests /\ c.batch \in Batches /\ c.expected \in Nat
  BY CommandFields DEF TypeOK
<1>2. /\ db.idempotency[c.request] = None /\ Revision(c.batch, db) = c.expected
      /\ c.kind = "create" <=> c.expected = 0
  BY DEF Effect, AsExpected
<1>3. c.batch \notin Sealing(db)
  BY <1>2 DEF Effect, Sealed
<1>4. [b \in Batches |-> Revision(b, db')] =
        [[b \in Batches |-> Revision(b, db)] EXCEPT ![c.batch] = c.expected + 1]
  BY <1>1, EffectOnBatches
<1>5. db'.idempotency =
        [db.idempotency EXCEPT ![c.request] = [command |-> c, response |-> c.expected + 1]]
  <2>1. NextRevision(c, db) = c.expected + 1  BY <1>1, EffectOnBatches
  <2> QED BY <2>1 DEF Effect, Apply
<1>6. Sealing(db') = IF c.kind \in {"approve", "reject"} THEN Sealing(db) \cup {c.batch} ELSE Sealing(db)
  <2>1. ASSUME NEW b \in Batches, b # c.batch
        PROVE  b \in Sealing(db') <=> b \in Sealing(db)
    BY <2>1, EffectOnBatches
  <2>2. c.batch \in Sealing(db') <=> c.kind \in {"approve", "reject"}
    <3>1. db'.batches[c.batch] = Row(c, db) /\ Revision(c.batch, db') = c.expected + 1
      BY <1>1, EffectOnBatches
    <3> QED BY <1>1, <3>1 DEF Row
  <2> QED BY <1>1, <1>3, <2>1, <2>2
<1> QED BY <1>1, <1>2, <1>3, <1>4, <1>5, <1>6 DEF Books!TakeEffect, Revision

\* An answer that reaches its client is told by the ledger.
LEMMA RespondInLedger ==
  ASSUME TablesInv, RepliesHold, NEW h \in Handlers, Respond(h)
  PROVE  [Books!Next]_(Books!vars)
<1> DEFINE c == command[h]  n == reply[h].revision
<1>1. c.request \in Requests /\ UNCHANGED db
  BY Serving DEF Respond, Goto, TablesInv
<1>2. CASE UNCHANGED heard
  BY <1>1, <1>2 DEF Books!vars, Revision
<1>3. CASE reply[h].code = "accepted" /\ heard' = heard \cup {<<c, n>>}
  <2>1. Holds(c, n, db)  BY <1>3 DEF RepliesHold, Respond, Goto, TablesInv, TypeOK
  <2>2. [command |-> c, response |-> n] # None
    <3>1. c \in Commands /\ reply[h] \in Answers
      BY Serving DEF Respond, Goto, TablesInv, TypeOK
    <3> QED BY <3>1, StoreAssumption DEF Answers, StoredAnswers
  <2>3. Books!Tell(c.request)
    BY <1>1, <1>3, <2>1, <2>2 DEF Holds, Books!Tell, Revision
  <2> QED BY <1>1, <2>3 DEF Books!Next
<1> QED BY <1>2, <1>3 DEF Respond

LEMMA StepInLedger == TablesInv /\ RepliesHold /\ StoreStep => [Books!Next]_(Books!vars)
<1> SUFFICES ASSUME TablesInv, RepliesHold, StoreStep PROVE [Books!Next]_(Books!vars)
  OBVIOUS
<1>1. CASE UNCHANGED <<db, heard>>
  BY <1>1 DEF Books!vars, Revision
<1>2. CASE \E h \in Handlers : Respond(h)
  BY <1>2, RespondInLedger
<1>3. CASE \E h \in Handlers : Commit(h)
  <2>1. UNCHANGED heard /\ (UNCHANGED db \/ \E c \in Commands : Effect(c))
    BY <1>3, OnlyCommits DEF Commit, TablesInv
  <2>2. ASSUME NEW c \in Commands, Effect(c)
        PROVE  Books!TakeEffect(c)
    BY <2>1, <2>2, EffectInLedger DEF TablesInv
  <2> QED BY <1>1, <2>1, <2>2 DEF Books!Next
<1>4. UNCHANGED <<db, heard>> \/ (\E h \in Handlers : Respond(h)) \/ (\E h \in Handlers : Commit(h))
  <2>1. ASSUME NEW h \in Handlers, Serve(h)
        PROVE  UNCHANGED <<db, heard>> \/ Respond(h) \/ Commit(h)
    BY <2>1 DEF Serve, Step, Receive, Lock, Begin, Lookup, Refuse, Operate, AwaitReaders, Busy, Cancel
  <2> QED BY <2>1 DEF StoreStep, Vanish, ManageStep
<1> QED BY <1>1, <1>2, <1>3, <1>4

\* With handlers, transactions, locks, crashes and several processes the store is still
\* the ledger: a command is applied at one moment or not at all (Create, Mutate).
THEOREM StoreIsLedger == Spec => ImplementsLedger
BY InitStarts, InitIsLedger, StepInLedger, AnswersInvariant, NextSteps, PTL
   DEF Spec, ImplementsLedger, Books!Spec, TablesInv

=============================================================================
