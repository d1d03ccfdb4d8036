--------------------------- MODULE SchemaMigration ---------------------------
(***************************************************************************)
(* How a server comes to an open database (Open and migrate): one deferred *)
(* transaction creates what the file lacks, writes the schema version if   *)
(* there is none, and refuses a file of another version; then the audit    *)
(* chains are read.  Several servers may start on one file at a time,      *)
(* beside others that run already, and any of them may crash.              *)
(*                                                                         *)
(* Of SQLite (external): a statement that only reads takes a SHARED lock,  *)
(* one that writes a RESERVED lock, and both are kept until the            *)
(* transaction ends; COMMIT of a writer needs all others to be without a   *)
(* lock, and new ones wait as soon as it is tried.  Whoever waits gives up *)
(* at the busy timeout; a reader that would write does not wait at all.    *)
(* A writer that crashes leaves a hot journal: whoever reads next has to   *)
(* roll it back first, for which nobody else may have a lock.              *)
(***************************************************************************)
EXTENDS Naturals, Sequences

CONSTANTS
  Processes,
  Objects,       (* the tables and indexes of the schema                      *)
  Statements,    (* the objects in the order of the list migrations           *)
  InitialFiles   (* database files that a server may be started on            *)

SchemaVersion == 1

\* A file: the objects in it and the rows of its table schema_version.
Files == [objects : SUBSET Objects, versions : Seq(Nat)]

\* A file this program made has at most one version row.
OneVersion(f) ==
  f.versions \in {<<>>, <<SchemaVersion>>} \/ (f.versions # <<>> /\ f.versions[1] # SchemaVersion)

ASSUME MigrationAssumption ==
  /\ Statements \in Seq(Objects)
  /\ Objects = {Statements[i] : i \in DOMAIN Statements} /\ Statements # <<>>
  /\ InitialFiles \subseteq Files /\ \A f \in InitialFiles : OneVersion(f)

VARIABLES
  file,     (* the database as committed                                      *)
  at,       (* where a process is in Open                                     *)
  next,     (* the statement it executes next                                 *)
  lock,     (* its lock on the file; a server that runs has one at times too  *)
  written,  (* the database as its transaction has written it                 *)
  hot       (* whether a writer has crashed and left its journal              *)

vars == <<file, at, next, lock, written, hot>>

\* Where a process is in migrate, and in all of Open.
Migrating == {"execute", "insert", "check", "commit"}
Starting  == Migrating \cup {"verify"}

Blank == [objects |-> {}, versions |-> <<>>]

Current(f) == f.objects = Objects /\ f.versions = <<SchemaVersion>>

\* The database as the transaction of p sees it.
Seen(p) == IF lock[p] = "reserved" THEN written[p] ELSE file

\* The lock of a COMMIT that waits for readers or writes, or of a rollback of the
\* journal: no new reader gets in.
Exclusive(p) == lock[p] = "exclusive" \/ (at[p] = "commit" /\ lock[p] = "reserved")

Others(p) == Processes \ {p}

\* The others keep p from its first read.
KeptOut(p) ==
  /\ lock[p] = "none"
  /\ \E q \in Others(p) : Exclusive(q) \/ (hot /\ lock[q] # "none")

MayRead(p) == ~KeptOut(p) /\ (hot => lock[p] # "none")

MayWrite(p) == \A q \in Others(p) : lock[q] \notin {"reserved", "exclusive"}

MayCommit(p) == lock[p] = "reserved" => \A q \in Others(p) : lock[q] = "none"

Goto(p, step) == at' = [at EXCEPT ![p] = step]

\* Mutant: no deferred Rollback.
KeepTransaction(p) == next' = [next EXCEPT ![p] = 1] /\ UNCHANGED <<lock, written>>

\* The transaction of p is over, and what it has written is lost.
Release(p) ==
  /\ lock' = [lock EXCEPT ![p] = "none"] /\ written' = [written EXCEPT ![p] = Blank]
  /\ next' = [next EXCEPT ![p] = 1]

Fail(p) == Goto(p, "failed") /\ Release(p) /\ UNCHANGED <<file, hot>>

\* A statement of the transaction reads.
Read(p) ==
  /\ MayRead(p)
  /\ lock' = [lock EXCEPT ![p] = IF @ = "reserved" THEN @ ELSE "shared"]
  /\ UNCHANGED <<file, written, hot>>

\* Mutant: no transaction; every statement commits by itself.
Autocommit(p, f) ==
  /\ file' = f
  /\ UNCHANGED <<lock, written, hot>>

\* A statement of the transaction writes; its journal takes the place of any other.
Write(p, f) ==
  /\ MayRead(p) /\ MayWrite(p)
  /\ lock' = [lock EXCEPT ![p] = "reserved"]
  /\ written' = [written EXCEPT ![p] = f]
  /\ hot' = FALSE /\ UNCHANGED file

-----------------------------------------------------------------------------
Init ==
  /\ file \in InitialFiles
  /\ at = [p \in Processes |-> "down"] /\ next = [p \in Processes |-> 1]
  /\ lock = [p \in Processes |-> "none"] /\ written = [p \in Processes |-> Blank]
  /\ hot = FALSE

\* sql.Open, the PRAGMAs and BEGIN touch nothing yet.
Start(p) ==
  /\ at[p] \in {"down", "failed"}
  /\ Goto(p, "execute")
  /\ UNCHANGED <<file, next, lock, written, hot>>

\* The first read of a transaction finds a hot journal and rolls it back.
Recover(p) ==
  /\ hot /\ at[p] \in {"execute", "verify", "open"}
  /\ \A q \in Processes : lock[q] = "none"
  /\ lock' = [lock EXCEPT ![p] = "exclusive"] /\ hot' = FALSE
  /\ UNCHANGED <<file, at, next, written>>

AtStatement(p) == at[p] = "execute" /\ next[p] \in DOMAIN Statements

\* Mutant: CREATE TABLE without IF NOT EXISTS.
RefuseExisting(p) ==
  /\ AtStatement(p) /\ Statements[next[p]] \in Seen(p).objects
  /\ Fail(p)

\* CREATE ... IF NOT EXISTS finds its object.
Skip(p) ==
  /\ AtStatement(p) /\ Statements[next[p]] \in Seen(p).objects
  /\ Read(p)
  /\ next' = [next EXCEPT ![p] = @ + 1]
  /\ UNCHANGED at

Create(p) ==
  /\ AtStatement(p) /\ Statements[next[p]] \notin Seen(p).objects
  /\ Write(p, [Seen(p) EXCEPT !.objects = @ \cup {Statements[next[p]]}])
  /\ next' = [next EXCEPT ![p] = @ + 1]
  /\ UNCHANGED at

\* SELECT COUNT(*) FROM schema_version.
Count(p) ==
  /\ at[p] = "execute" /\ next[p] = Len(Statements) + 1
  /\ Goto(p, IF Seen(p).versions = <<>> THEN "insert" ELSE "check")
  /\ UNCHANGED <<file, next, lock, written, hot>>

Insert(p) ==
  /\ at[p] = "insert"
  /\ Write(p, [Seen(p) EXCEPT !.versions = Append(@, SchemaVersion)])
  /\ Goto(p, "check")
  /\ UNCHANGED next

\* Mutant: the version is not compared.
CheckNothing(p) ==
  /\ at[p] = "check"
  /\ Goto(p, "commit") /\ UNCHANGED <<file, next, lock, written, hot>>

\* The version read must be the one this program knows.
Check(p) ==
  /\ at[p] = "check"
  /\ IF Seen(p).versions[1] = SchemaVersion
     THEN Goto(p, "commit") /\ UNCHANGED <<file, next, lock, written, hot>>
     ELSE Fail(p)

Commit(p) ==
  /\ at[p] = "commit" /\ MayCommit(p)
  /\ file' = Seen(p)
  /\ Goto(p, "verify") /\ Release(p) /\ UNCHANGED hot

\* VerifyAllAuditChains reads outside any transaction.  That it finds the chains intact
\* is TrailTellsRevisions in CommandStore.
Verify(p) ==
  /\ at[p] = "verify"
  /\ \/ lock[p] # "shared" /\ Read(p) /\ UNCHANGED <<at, next>>
     \/ lock[p] = "shared" /\ Goto(p, "open") /\ Release(p) /\ UNCHANGED <<file, hot>>

\* A statement of p cannot have the lock it needs.
Blocked(p) ==
  \/ at[p] \in {"execute", "verify"} /\ KeptOut(p)
  \/ AtStatement(p) /\ Statements[next[p]] \notin Seen(p).objects /\ ~MayWrite(p)
  \/ at[p] = "insert" /\ ~MayWrite(p)
  \/ at[p] = "commit" /\ ~MayCommit(p)

\* Mutant: whoever is blocked waits as long as it takes.
Wait(p) == Blocked(p) /\ UNCHANGED vars

\* SQLITE_BUSY, at the busy timeout or at once; the deferred Rollback and Close follow.
Busy(p) == Blocked(p) /\ Fail(p)

Step(p) ==
  \/ Recover(p) \/ Skip(p) \/ Create(p) \/ Count(p) \/ Insert(p) \/ Check(p) \/ Commit(p)
  \/ Verify(p) \/ Busy(p)

\* A server that runs: what its commands do to the locks of the file (execute, the
\* queries).  They write other tables than schema_version.  One at a time stands for
\* all that may run, for it may have any lock.
Command(p) ==
  /\ at[p] = "open"
  /\ \/ lock[p] # "reserved" /\ Read(p)
     \/ lock[p] = "shared" /\ Write(p, file)
     \/ /\ lock[p] = "reserved" /\ lock' = [lock EXCEPT ![p] = "exclusive"]
        /\ UNCHANGED <<file, written, hot>>
     \/ lock[p] # "none" /\ Release(p) /\ UNCHANGED <<file, hot>>
  /\ UNCHANGED <<at, next>>

\* The process ends, in the middle of Open or later.
Crash(p) ==
  /\ at[p] \notin {"down", "failed"}
  /\ Goto(p, "down") /\ Release(p) /\ UNCHANGED file
  /\ hot' = (hot \/ lock[p] \in {"reserved", "exclusive"})

Next == \E p \in Processes : Start(p) \/ Step(p) \/ Command(p) \/ Crash(p)

Spec == Init /\ [][Next]_vars

\* A process that has begun runs on; nobody has to start one or to kill it.
FairSpec == Spec /\ \A p \in Processes : WF_vars(Step(p))

-----------------------------------------------------------------------------
\* The variables have their types, and no process that has failed or ended keeps a lock
\* (the deferred Rollback and COMMIT end the transaction).
TypeOK ==
  /\ file \in Files
  /\ at \in [Processes -> Starting \cup {"down", "open", "failed"}]
  /\ next \in [Processes -> 1 .. Len(Statements) + 1]
  /\ lock \in [Processes -> {"none", "shared", "reserved", "exclusive"}]
  /\ written \in [Processes -> Files]
  /\ hot \in BOOLEAN
  /\ \A p \in Processes :
       /\ at[p] \in {"down", "failed"} => lock[p] = "none"
       /\ at[p] \notin Migrating => next[p] = 1

\* Ready.
Ready(f) == f.versions # <<>> /\ f.versions[1] = SchemaVersion

\* A server that has opened the database finds the whole schema and exactly one
\* version row for as long as it runs, however many servers start, fail and crash
\* beside it on the same new file; so /readyz says ready (COUNT and INSERT at
\* migrations.go:65 are two statements).
OpenOnWholeSchema ==
  \A p \in Processes : at[p] = "open" => Current(file) /\ Ready(file)

\* A file of another version is left as it was, though the statements that create
\* tables run on it before its version is looked at (migrations.go:59 and 77).
ForeignFilesAreKept ==
  [][file.versions # <<>> /\ file.versions # <<SchemaVersion>> => file' = file]_vars

\* Errors of I/O and broken audit chains apart, a start fails only over a file of another
\* version or beside another process, starting or running, that has a lock on the file
\* at that moment: what crashes and failures leave behind, tables without a version, a
\* journal, a lock, never stops the next start (the deferred Rollback and Close, IF NOT
\* EXISTS).
StartsFailForCause ==
  [][\A p \in Processes : at[p] # "failed" /\ at'[p] = "failed" =>
       \/ file.versions # <<>> /\ ~Ready(file)
       \/ \E q \in Others(p) : lock[q] # "none"]_vars

\* Every start ends, with an open database or an error: servers that create the same
\* schema never wait for each other for ever.
EveryStartEnds ==
  \A p \in Processes : at[p] \in Starting ~> at[p] \notin Starting
=============================================================================
