--------------------------- MODULE ServerLifecycle ---------------------------
(***************************************************************************)
(* The life of the processes that serve one database at one address        *)
(* (cmd/server/runtime.go): open the database, listen, serve, and on a     *)
(* signal stop listening, give the running handlers ten seconds, close the *)
(* database and exit.  A process that drains has already given the address *)
(* up, so that another may open the database and serve beside it.          *)
(*                                                                         *)
(* Handlers and tables are those of CommandStore; Crash and Start of that  *)
(* module become the steps of the process itself.                          *)
(***************************************************************************)
EXTENDS CommandStore

ASSUME ServerAssumption == None \notin Processes /\ None \notin {0, 1}

VARIABLES
  opened,   (* the processes that have the database and do not listen yet     *)
  port,     (* the process that listens at the address, None if nobody does   *)
  exit      (* the exit code of a process that has ended, None otherwise      *)

serverVars == <<vars, opened, port, exit>>

\* Nothing is done to the store but to let processes serve or not.
Enter(p, next) ==
  /\ phase' = [phase EXCEPT ![p] = next]
  /\ UNCHANGED <<db, wanted, owner, locals, heard>>

HandlersOf(p) == {h \in Handlers : ProcessOf[h] = p}

\* The port of a process that stops listening.
Leave(p) == port' = IF port = p THEN None ELSE port

-----------------------------------------------------------------------------
ServerInit ==
  /\ Empty("down")
  /\ opened = {} /\ port = None
  /\ exit = [p \in Processes |-> None]

Down(p) == phase[p] = "down" /\ p \notin opened

\* buildRuntime: Open migrates the database, which SchemaMigration tells in full, and
\* insists on intact audit chains.
Open(p) ==
  /\ Down(p) /\ MayRead
  /\ \A b \in Batches : VerifyEvents(db.audit[b])
  /\ opened' = opened \cup {p}
  /\ exit' = [exit EXCEPT ![p] = None]
  /\ UNCHANGED <<vars, port>>

\* buildRuntime fails: locks of another process that starts, serves or drains, an error
\* of I/O or a broken chain.
OpenFails(p) ==
  /\ Down(p)
  /\ exit' = [exit EXCEPT ![p] = 1]
  /\ UNCHANGED <<vars, opened, port>>

\* net.Listen succeeds, and Serve runs.
Listen(p) ==
  /\ p \in opened /\ port = None
  /\ opened' = opened \ {p} /\ port' = p
  /\ Enter(p, "serving")
  /\ UNCHANGED exit

\* Another process listens at the address; the database is closed again.
AddressInUse(p) ==
  /\ p \in opened /\ port # None
  /\ opened' = opened \ {p}
  /\ exit' = [exit EXCEPT ![p] = 1]
  /\ UNCHANGED <<vars, port>>

\* SIGINT or SIGTERM: Shutdown closes the listener and waits.
Signal(p) ==
  /\ phase[p] = "serving"
  /\ Enter(p, "draining") /\ Leave(p)
  /\ UNCHANGED <<opened, exit>>

\* Shutdown finds no handler running; the database is closed and the process ends.
Drained(p) ==
  /\ phase[p] = "draining"
  /\ \A h \in HandlersOf(p) : pc[h] = "idle"
  /\ Vanish(p) /\ exit' = [exit EXCEPT ![p] = 0]
  /\ UNCHANGED <<opened, port>>

\* Mutant: Shutdown without a deadline.
NeverGiveUp(p) == Drained(p)

\* Shutdown's ten seconds are over: its error ends runServer, and the deferred close
\* takes the database away from the handlers that still run.
GiveUp(p) ==
  /\ phase[p] = "draining"
  /\ Enter(p, "closed")
  /\ UNCHANGED <<opened, port, exit>>

\* Serve fails (Accept returns an error): runServer returns without any Shutdown.
ServeFails(p) ==
  /\ phase[p] = "serving"
  /\ Enter(p, "closed") /\ Leave(p)
  /\ UNCHANGED <<opened, exit>>

\* main exits with code 1, whatever the handlers do.
Exit(p) ==
  /\ phase[p] = "closed"
  /\ Vanish(p) /\ exit' = [exit EXCEPT ![p] = 1]
  /\ UNCHANGED <<opened, port>>

\* The process is killed.
Kill(p) ==
  /\ phase[p] # "down" \/ p \in opened
  /\ Vanish(p) /\ Leave(p)
  /\ opened' = opened \ {p} /\ exit' = [exit EXCEPT ![p] = 1]

Run(p) ==
  \/ Open(p) \/ OpenFails(p) \/ Listen(p) \/ AddressInUse(p)
  \/ Drained(p) \/ GiveUp(p) \/ Exit(p)

ServerNext ==
  \/ \E h \in Handlers : Serve(h) /\ UNCHANGED <<opened, port, exit>>
  \/ \E p \in Processes : Run(p) \/ Signal(p) \/ ServeFails(p) \/ Kill(p)

ServerSpec == ServerInit /\ [][ServerNext]_serverVars

\* Handlers run as in CommandStore and a process goes through its life; a signal, a
\* failure or a kill need not come.  Whoever runs the server starts it again; a start
\* that nothing stands in the way of does not fail every time, and it is not killed
\* every time before it listens.
FairServerSpec ==
  /\ ServerSpec
  /\ \A h \in Handlers : /\ WF_serverVars(Step(h) /\ UNCHANGED <<opened, port, exit>>)
                        /\ SF_serverVars(Lock(h) /\ UNCHANGED <<opened, port, exit>>)
                        /\ SF_serverVars(Begin(h) /\ UNCHANGED <<opened, port, exit>>)
  /\ \A p \in Processes :
       WF_serverVars(Run(p)) /\ WF_serverVars(Open(p)) /\ SF_serverVars(Listen(p))

-----------------------------------------------------------------------------
\* A process serves as long as the address is its own; the other variables have the
\* values of runtime.go.
ServerTypeOK ==
  /\ TypeOK
  /\ opened \subseteq {p \in Processes : phase[p] = "down"}
  /\ port \in Processes \cup {None}
  /\ exit \in [Processes -> {0, 1, None}]
  /\ \A p \in Processes : phase[p] = "serving" <=> port = p

\* A signal ends the process, however many requests still come in on connections that
\* are open and however long they take (runServer bounds Shutdown).
SignalsEnd == \A p \in Processes : phase[p] = "draining" ~> phase[p] = "down"

\* Whatever ended a server and left behind, one of the processes serves again: no
\* state of the database keeps Open from accepting it, no draining process keeps the
\* address (runServer, VerifyAllAuditChains).
ServiceComesBack == port = None ~> port # None
=============================================================================
