------------------------ MODULE SchemaMigrationProofs ------------------------
(***************************************************************************)
(* Theorems of SchemaMigration for any number of servers and statements.   *)
(*                                                                         *)
(* The argument: a transaction keeps its lock from its first statement on, *)
(* so between two of its statements no other one commits; what it sees     *)
(* only grows by its own writes.  Those leave a version that is there      *)
(* alone and put <<SchemaVersion>> where there is none.                    *)
(***************************************************************************)
EXTENDS SchemaMigration, TLAPS

\* One transaction writes at a time.
OneWriter ==
  \A p, q \in Processes : lock[p] = "reserved" /\ lock[q] = "reserved" => p = q

\* The statements p has executed have left their objects, and it still has its lock.
Executed(p) ==
  /\ next[p] > 1 => lock[p] # "none"
  /\ \A i \in 1 .. next[p] - 1 : Statements[i] \in Seen(p).objects

\* What p has found out about the version is still so.
VersionRead(p) ==
  /\ at[p] \in {"insert", "check", "commit"} => next[p] = Len(Statements) + 1
  /\ at[p] = "insert" => Seen(p).versions = <<>>
  /\ at[p] \in {"check", "commit"} => Seen(p).versions # <<>>
  /\ at[p] = "commit" => Seen(p).versions[1] = SchemaVersion

\* A transaction writes no version but the first.
VersionWritten(p) ==
  lock[p] = "reserved" =>
    \/ written[p].versions = file.versions
    \/ file.versions = <<>> /\ written[p].versions = <<SchemaVersion>>

\* A server past COMMIT finds the whole schema.
CurrentTo(p) == at[p] \in {"verify", "open"} => Current(file)

IInv ==
  /\ TypeOK
  /\ OneVersion(file)
  /\ OneWriter
  /\ \A p \in Processes :
       Executed(p) /\ VersionRead(p) /\ VersionWritten(p) /\ CurrentTo(p)

-----------------------------------------------------------------------------
LEMMA StatementFacts ==
  /\ Len(Statements) \in Nat \ {0}
  /\ DOMAIN Statements = 1 .. Len(Statements)
  /\ \A i \in DOMAIN Statements : Statements[i] \in Objects
BY MigrationAssumption

\* The invariant holds at first.
LEMMA InitHolds == Init => IInv
<1> SUFFICES ASSUME Init PROVE IInv
  OBVIOUS
<1>1. file \in Files /\ OneVersion(file)
  BY MigrationAssumption DEF Init
<1>2. Blank \in Files
  BY DEF Blank, Files
<1>3. TypeOK
  <2>1. 1 \in 1 .. Len(Statements) + 1
    BY StatementFacts
  <2> QED
    BY <1>1, <1>2, <2>1 DEF Init, TypeOK, Starting
<1> QED
  BY <1>1, <1>3 DEF IInv, Init, OneWriter, Executed, VersionRead, VersionWritten, CurrentTo

\* What a transaction that is over leaves of its process.
LEMMA Released ==
  ASSUME NEW p \in Processes, TypeOK, Release(p)
  PROVE  /\ lock' \in [Processes -> {"none", "shared", "reserved", "exclusive"}]
         /\ written' \in [Processes -> Files]
         /\ next' \in [Processes -> 1 .. Len(Statements) + 1]
         /\ lock'[p] = "none" /\ next'[p] = 1
         /\ \A q \in Processes \ {p} :
              lock'[q] = lock[q] /\ next'[q] = next[q] /\ written'[q] = written[q]
<1> Blank \in Files
  BY DEF Blank, Files
<1> QED
  BY StatementFacts DEF TypeOK, Release

\* A process that gives up or ends leaves the others and the file as they were.
LEMMA GivesUp ==
  ASSUME NEW p \in Processes, IInv, Release(p), UNCHANGED file, hot' \in BOOLEAN,
         NEW step \in {"down", "failed"}, Goto(p, step)
  PROVE  IInv'
<1> USE Released DEF IInv
<1>1. TypeOK'
  BY DEF TypeOK, Goto, Starting, Migrating
<1>2. OneVersion(file') /\ OneWriter'
  BY DEF OneWriter, OneVersion
<1>3. \A q \in Processes : Executed(q)' /\ VersionRead(q)' /\ VersionWritten(q)'
  <2> TAKE q \in Processes
  <2>1. CASE q = p
    BY <2>1, StatementFacts DEF Executed, VersionRead, VersionWritten, TypeOK, Goto
  <2>2. CASE q # p
    <3>1. at'[q] = at[q] /\ Seen(q)' = Seen(q) /\ lock'[q] = lock[q] /\ next'[q] = next[q]
      BY <2>2 DEF TypeOK, Goto, Seen
    <3> QED
      BY <2>2, <3>1 DEF Executed, VersionRead, VersionWritten
  <2> QED
    BY <2>1, <2>2
<1>4. \A q \in Processes : CurrentTo(q)'
  BY DEF TypeOK, Goto, CurrentTo, Current
<1> QED
  BY <1>1, <1>2, <1>3, <1>4 DEF OneVersion, Current

\* What a transaction sees is a file.
LEMMA SeenIsFile ==
  ASSUME NEW p \in Processes, TypeOK
  PROVE  Seen(p) \in Files
BY DEF TypeOK, Seen

LEMMA VersionSeen ==
  ASSUME NEW p \in Processes, IInv
  PROVE  \/ Seen(p).versions = file.versions
         \/ file.versions = <<>> /\ Seen(p).versions = <<SchemaVersion>>
BY DEF IInv, VersionWritten, Seen

\* A step of p that moves no lock and writes nothing leaves the others as they were.
LEMMA OthersStay ==
  ASSUME NEW p \in Processes, NEW q \in Processes \ {p}, IInv, TypeOK', UNCHANGED file,
         written'[q] = written[q], next'[q] = next[q], at'[q] = at[q], lock'[q] = lock[q]
  PROVE  Executed(q)' /\ VersionRead(q)' /\ VersionWritten(q)' /\ CurrentTo(q)'
BY DEF IInv, Executed, VersionRead, VersionWritten, Seen, CurrentTo, Current

\* A write of p, seen by nobody else.
LEMMA Writes ==
  ASSUME NEW p \in Processes, IInv, NEW f \in Files, Write(p, f),
         TypeOK',
         \/ f.versions = Seen(p).versions
         \/ Seen(p).versions = <<>> /\ f.versions = <<SchemaVersion>>
  PROVE  /\ lock'[p] = "reserved" /\ written'[p] = f /\ Seen(p)' = f
         /\ VersionWritten(p)' /\ OneWriter'
         /\ \A q \in Processes \ {p} : lock'[q] = lock[q] /\ written'[q] = written[q]
<1>1. lock'[p] = "reserved" /\ written'[p] = f
  BY DEF Write, IInv, TypeOK
<1>2. \A q \in Processes \ {p} : lock'[q] = lock[q] /\ written'[q] = written[q] /\ lock[q] # "reserved"
  BY DEF Write, IInv, TypeOK, MayWrite, Others
<1>3. OneWriter'
  BY <1>2 DEF OneWriter
<1>4. file' = file
  BY DEF Write
<1>5. VersionWritten(p)'
  BY <1>1, <1>4, VersionSeen DEF VersionWritten
<1> QED
  BY <1>1, <1>2, <1>3, <1>5 DEF Seen

LEMMA StartKeeps ==
  ASSUME NEW p \in Processes, IInv, Start(p)
  PROVE  IInv'
<1>1. TypeOK'
  BY DEF IInv, TypeOK, Start, Goto, Starting, Migrating
<1>2. at[p] \in {"down", "failed"} /\ at[p] \notin Migrating
  BY DEF Start, Migrating
<1>3. next[p] = 1 /\ lock[p] = "none"
  BY <1>2 DEF IInv, TypeOK
<1>4. OneWriter' /\ OneVersion(file')
  BY DEF IInv, OneWriter, OneVersion, Start
<1>5. \A q \in Processes : Executed(q)' /\ VersionRead(q)' /\ VersionWritten(q)' /\ CurrentTo(q)'
  <2>1. Executed(p)' /\ VersionRead(p)' /\ VersionWritten(p)' /\ CurrentTo(p)'
    BY <1>3 DEF IInv, TypeOK, Start, Goto, Executed, VersionRead, VersionWritten, CurrentTo
  <2>2. \A q \in Processes \ {p} : at'[q] = at[q]
    BY DEF IInv, TypeOK, Start, Goto
  <2> QED
    BY <1>1, <2>1, <2>2, OthersStay DEF Start
<1> QED
  BY <1>1, <1>4, <1>5 DEF IInv, OneVersion, CurrentTo, Current

\* A read of p, seen by nobody.
LEMMA Reads ==
  ASSUME NEW p \in Processes, IInv, Read(p)
  PROVE  /\ lock' \in [Processes -> {"none", "shared", "reserved", "exclusive"}]
         /\ lock'[p] # "none" /\ Seen(p)' = Seen(p)
         /\ VersionWritten(p)' /\ OneWriter' /\ OneVersion(file')
         /\ UNCHANGED <<file, written, hot>>
         /\ \A q \in Processes \ {p} : lock'[q] = lock[q]
<1>1. /\ lock'[p] # "none" /\ (lock'[p] = "reserved" <=> lock[p] = "reserved")
      /\ \A q \in Processes \ {p} : lock'[q] = lock[q]
  BY DEF IInv, TypeOK, Read
<1>2. UNCHANGED <<file, written, hot>>
  BY DEF Read
<1>3. OneWriter' /\ OneVersion(file') /\ VersionWritten(p)' /\ Seen(p)' = Seen(p)
  BY <1>1, <1>2 DEF IInv, OneWriter, OneVersion, VersionWritten, Seen
<1> QED
  BY <1>1, <1>2, <1>3 DEF IInv, TypeOK, Read

LEMMA SkipKeeps ==
  ASSUME NEW p \in Processes, IInv, Skip(p)
  PROVE  IInv'
<1>1. at[p] = "execute" /\ next[p] \in 1 .. Len(Statements) /\ Statements[next[p]] \in Seen(p).objects
  BY StatementFacts DEF Skip, AtStatement
<1>2. Read(p) /\ at' = at /\ next' = [next EXCEPT ![p] = @ + 1]
  BY DEF Skip
<1>3. TypeOK'
  BY <1>1, <1>2, Reads, StatementFacts DEF IInv, TypeOK, Starting, Migrating
<1>4. Executed(p)' /\ VersionRead(p)' /\ VersionWritten(p)' /\ CurrentTo(p)'
  <2>1. next'[p] = next[p] + 1 /\ next[p] \in Nat
    BY <1>1, <1>2 DEF IInv, TypeOK
  <2>2. Executed(p)'
    BY <1>1, <1>2, <2>1, Reads DEF IInv, Executed
  <2> QED
    BY <1>1, <1>2, <2>2, Reads DEF VersionRead, CurrentTo
<1>5. \A q \in Processes : Executed(q)' /\ VersionRead(q)' /\ VersionWritten(q)' /\ CurrentTo(q)'
  <2>1. \A q \in Processes \ {p} : next'[q] = next[q]
    BY <1>2 DEF IInv, TypeOK
  <2> QED
    BY <1>2, <1>3, <1>4, <2>1, Reads, OthersStay
<1> QED
  BY <1>3, <1>5, <1>2, Reads DEF IInv

LEMMA CreateKeeps ==
  ASSUME NEW p \in Processes, IInv, Create(p)
  PROVE  IInv'
<1> DEFINE f == [Seen(p) EXCEPT !.objects = @ \cup {Statements[next[p]]}]
<1>1. at[p] = "execute" /\ next[p] \in 1 .. Len(Statements) /\ Statements[next[p]] \in Objects
  BY StatementFacts DEF Create, AtStatement
<1>2. Seen(p) \in Files
  BY SeenIsFile DEF IInv
<1>3. /\ f \in Files /\ f.objects = Seen(p).objects \cup {Statements[next[p]]}
      /\ f.versions = Seen(p).versions
  BY <1>1, <1>2 DEF Files
<1>4. Write(p, f) /\ file' = file /\ at' = at /\ next' = [next EXCEPT ![p] = @ + 1]
  BY DEF Create, Write
<1>5. TypeOK'
  <2> HIDE DEF f
  <2>1. next' \in [Processes -> 1 .. Len(Statements) + 1]
    BY <1>1, <1>4, StatementFacts DEF IInv, TypeOK
  <2>2. /\ lock' \in [Processes -> {"none", "shared", "reserved", "exclusive"}]
        /\ written' \in [Processes -> Files]
    BY <1>3, <1>4 DEF IInv, TypeOK, Write
  <2> QED
    BY <1>1, <1>4, <2>1, <2>2 DEF IInv, TypeOK, Write, Starting, Migrating
<1>6. /\ lock'[p] = "reserved" /\ Seen(p)' = f /\ VersionWritten(p)' /\ OneWriter'
      /\ \A q \in Processes \ {p} : lock'[q] = lock[q] /\ written'[q] = written[q]
  <2> HIDE DEF f
  <2> QED
    BY <1>3, <1>4, <1>5, Writes
<1>7. at'[p] = "execute" /\ next'[p] = next[p] + 1 /\ \A q \in Processes \ {p} : next'[q] = next[q] /\ at'[q] = at[q]
  BY <1>1 DEF IInv, TypeOK, Create
<1>8. Executed(p)' /\ VersionRead(p)' /\ CurrentTo(p)'
  <2> HIDE DEF f
  <2>1. \A i \in 1 .. next[p] : Statements[i] \in f.objects
    BY <1>1, <1>3 DEF IInv, Executed
  <2> QED
    BY <1>1, <1>6, <1>7, <2>1 DEF Executed, VersionRead, CurrentTo
<1>9. \A q \in Processes : Executed(q)' /\ VersionRead(q)' /\ VersionWritten(q)' /\ CurrentTo(q)'
  BY <1>4, <1>5, <1>6, <1>7, <1>8, OthersStay
<1>10. OneVersion(file')
  BY <1>4 DEF IInv, OneVersion
<1> QED
  BY <1>5, <1>6, <1>9, <1>10 DEF IInv, OneVersion, CurrentTo, Current

LEMMA CountKeeps ==
  ASSUME NEW p \in Processes, IInv, Count(p)
  PROVE  IInv'
<1>1. TypeOK'
  BY DEF IInv, TypeOK, Count, Goto, Starting, Migrating
<1>2. OneWriter' /\ OneVersion(file')
  BY DEF IInv, OneWriter, OneVersion, Count
<1>3. Executed(p)' /\ VersionRead(p)' /\ VersionWritten(p)' /\ CurrentTo(p)'
  <2>1. Seen(p)' = Seen(p) /\ next'[p] = Len(Statements) + 1 /\ lock' = lock /\ file' = file /\ written' = written
    BY DEF Count, Seen
  <2>2. at'[p] = IF Seen(p).versions = <<>> THEN "insert" ELSE "check"
    BY DEF IInv, TypeOK, Count, Goto
  <2> QED
    BY <2>1, <2>2 DEF IInv, Executed, VersionRead, VersionWritten, CurrentTo, Count
<1>4. \A q \in Processes \ {p} : at'[q] = at[q]
  BY DEF IInv, TypeOK, Count, Goto
<1>5. \A q \in Processes : Executed(q)' /\ VersionRead(q)' /\ VersionWritten(q)' /\ CurrentTo(q)'
  BY <1>1, <1>3, <1>4, OthersStay DEF Count
<1> QED
  BY <1>1, <1>2, <1>5 DEF IInv, OneVersion, CurrentTo, Current

LEMMA InsertKeeps ==
  ASSUME NEW p \in Processes, IInv, Insert(p)
  PROVE  IInv'
<1> DEFINE f == [Seen(p) EXCEPT !.versions = Append(@, SchemaVersion)]
<1>1. at[p] = "insert" /\ Seen(p).versions = <<>> /\ next[p] = Len(Statements) + 1
  BY DEF Insert, IInv, VersionRead
<1>2. Seen(p) \in Files
  BY SeenIsFile DEF IInv
<1>3. f \in Files /\ f.objects = Seen(p).objects /\ f.versions = <<SchemaVersion>>
  <2>1. Append(<<>>, SchemaVersion) = <<SchemaVersion>> /\ <<SchemaVersion>> \in Seq(Nat)
    BY DEF SchemaVersion
  <2>2. f = [objects |-> Seen(p).objects, versions |-> <<SchemaVersion>>]
    BY <1>1, <1>2, <2>1 DEF Files
  <2> QED
    BY <1>2, <2>1, <2>2 DEF Files
<1>4. Write(p, f) /\ Goto(p, "check") /\ next' = next /\ file' = file
  BY DEF Insert, Write
<1> HIDE DEF f
<1>5. TypeOK'
  <2>1. /\ lock' \in [Processes -> {"none", "shared", "reserved", "exclusive"}]
        /\ written' \in [Processes -> Files]
    BY <1>3, <1>4 DEF IInv, TypeOK, Write
  <2> QED
    BY <1>4, <2>1 DEF IInv, TypeOK, Write, Goto, Starting, Migrating
<1>6. /\ lock'[p] = "reserved" /\ Seen(p)' = f /\ VersionWritten(p)' /\ OneWriter'
      /\ \A q \in Processes \ {p} : lock'[q] = lock[q] /\ written'[q] = written[q]
  BY <1>1, <1>3, <1>4, <1>5, Writes
<1>7. at'[p] = "check" /\ \A q \in Processes \ {p} : at'[q] = at[q]
  BY <1>4 DEF IInv, TypeOK, Goto
<1>8. Executed(p)' /\ VersionRead(p)' /\ CurrentTo(p)'
  <2>1. f.versions # <<>> /\ f.versions[1] = SchemaVersion
    BY <1>3 DEF SchemaVersion
  <2>2. \A i \in 1 .. next[p] - 1 : Statements[i] \in f.objects
    BY <1>3 DEF IInv, Executed
  <2> QED
    BY <1>1, <1>4, <1>6, <1>7, <2>1, <2>2 DEF Executed, VersionRead, CurrentTo
<1>9. \A q \in Processes : Executed(q)' /\ VersionRead(q)' /\ VersionWritten(q)' /\ CurrentTo(q)'
  BY <1>4, <1>5, <1>6, <1>7, <1>8, OthersStay
<1>10. OneVersion(file')
  BY <1>4 DEF IInv, OneVersion
<1> QED
  BY <1>5, <1>6, <1>9, <1>10 DEF IInv, OneVersion, CurrentTo, Current

LEMMA CheckKeeps ==
  ASSUME NEW p \in Processes, IInv, Check(p)
  PROVE  IInv'
<1>1. CASE Seen(p).versions[1] # SchemaVersion
  BY <1>1, GivesUp DEF Check, Fail, IInv, TypeOK
<1>2. CASE Seen(p).versions[1] = SchemaVersion
  <2>1. at[p] = "check" /\ Goto(p, "commit") /\ UNCHANGED <<file, next, lock, written, hot>>
    BY <1>2 DEF Check
  <2>2. TypeOK'
    BY <2>1 DEF IInv, TypeOK, Goto, Starting, Migrating
  <2>3. OneWriter' /\ OneVersion(file')
    BY <2>1 DEF IInv, OneWriter, OneVersion
  <2>4. at'[p] = "commit" /\ \A q \in Processes \ {p} : at'[q] = at[q]
    BY <2>1 DEF IInv, TypeOK, Goto
  <2>5. Executed(p)' /\ VersionRead(p)' /\ VersionWritten(p)' /\ CurrentTo(p)'
    <3>1. Seen(p)' = Seen(p)
      BY <2>1 DEF Seen
    <3> QED
      BY <1>2, <2>1, <2>4, <3>1 DEF IInv, Executed, VersionRead, VersionWritten, CurrentTo
  <2>6. \A q \in Processes : Executed(q)' /\ VersionRead(q)' /\ VersionWritten(q)' /\ CurrentTo(q)'
    BY <2>1, <2>2, <2>4, <2>5, OthersStay
  <2> QED
    BY <2>2, <2>3, <2>6 DEF IInv, OneVersion, CurrentTo, Current
<1> QED
  BY <1>1, <1>2

\* What a transaction that has come to COMMIT sees is the whole schema.
LEMMA CommitsSchema ==
  ASSUME NEW p \in Processes, IInv, at[p] = "commit"
  PROVE  Current(Seen(p)) /\ lock[p] # "none"
<1>1. next[p] = Len(Statements) + 1 /\ Len(Statements) \in Nat \ {0}
  BY StatementFacts DEF IInv, VersionRead
<1>2. Seen(p) \in Files /\ \A i \in 1 .. Len(Statements) : Statements[i] \in Seen(p).objects
  BY <1>1, SeenIsFile DEF IInv, Executed
<1>3. Seen(p).objects = Objects
  BY <1>2, StatementFacts, MigrationAssumption DEF Files
<1>4. Seen(p).versions = <<SchemaVersion>>
  BY VersionSeen DEF IInv, VersionRead, OneVersion
<1>5. lock[p] # "none"
  BY <1>1 DEF IInv, Executed
<1> QED
  BY <1>3, <1>4, <1>5 DEF Current

\* Nobody else has a lock when a transaction that has written commits.
LEMMA CommitKeeps ==
  ASSUME NEW p \in Processes, IInv, Commit(p)
  PROVE  IInv'
<1>1. at[p] = "commit" /\ MayCommit(p) /\ Goto(p, "verify") /\ Release(p) /\ file' = Seen(p)
  BY DEF Commit
<1>2. Current(file')
  BY <1>1, CommitsSchema DEF Current
<1>3. /\ lock' \in [Processes -> {"none", "shared", "reserved", "exclusive"}] /\ written' \in [Processes -> Files]
      /\ next' \in [Processes -> 1 .. Len(Statements) + 1] /\ lock'[p] = "none" /\ next'[p] = 1
      /\ \A q \in Processes \ {p} : lock'[q] = lock[q] /\ next'[q] = next[q] /\ written'[q] = written[q]
  BY <1>1, Released DEF IInv
<1>4. at'[p] = "verify" /\ \A q \in Processes \ {p} : at'[q] = at[q]
  BY <1>1 DEF IInv, TypeOK, Goto
<1>5. TypeOK'
  <2>1. file' \in Files
    BY <1>1, SeenIsFile DEF IInv
  <2>2. at' \in [Processes -> Starting \cup {"down", "open", "failed"}]
    BY <1>1 DEF IInv, TypeOK, Goto, Starting
  <2>3. ASSUME NEW q \in Processes
        PROVE  /\ at'[q] \in {"down", "failed"} => lock'[q] = "none"
               /\ at'[q] \notin Migrating => next'[q] = 1
    BY <1>3, <1>4, <2>3 DEF IInv, TypeOK
  <2>4. hot' \in BOOLEAN
    BY DEF Commit, IInv, TypeOK
  <2> QED
    BY <1>3, <2>1, <2>2, <2>3, <2>4 DEF TypeOK
<1>6. OneWriter'
  BY <1>3 DEF IInv, OneWriter
<1>7. OneVersion(file')
  BY <1>2 DEF OneVersion, Current
<1>8. \A q \in Processes : Executed(q)' /\ VersionRead(q)' /\ VersionWritten(q)'
  <2> TAKE q \in Processes
  <2>1. CASE q = p
    BY <1>3, <1>4, <2>1 DEF Executed, VersionRead, VersionWritten
  <2>2. CASE q # p /\ lock[p] = "reserved"
    <3>1. lock[q] = "none" /\ next[q] \in 1 .. Len(Statements) + 1
      BY <1>1, <2>2 DEF MayCommit, Others, IInv, TypeOK
    <3>2. next[q] = 1 /\ at[q] \notin {"insert", "check", "commit"}
      BY <3>1, StatementFacts DEF IInv, Executed, VersionRead
    <3> QED
      BY <1>3, <1>4, <2>2, <3>1, <3>2 DEF Executed, VersionRead, VersionWritten
  <2>3. CASE q # p /\ lock[p] # "reserved"
    <3>1. file' = file
      BY <1>1, <2>3 DEF Seen
    <3>2. Seen(q)' = Seen(q) /\ lock'[q] = lock[q] /\ next'[q] = next[q] /\ at'[q] = at[q] /\ written'[q] = written[q]
      BY <1>3, <1>4, <2>3, <3>1 DEF Seen
    <3> QED
      BY <3>1, <3>2 DEF IInv, Executed, VersionRead, VersionWritten
  <2> QED
    BY <2>1, <2>2, <2>3
<1> QED
  BY <1>2, <1>5, <1>6, <1>7, <1>8 DEF IInv, OneVersion, CurrentTo, Current

LEMMA RecoverKeeps ==
  ASSUME NEW p \in Processes, IInv, Recover(p)
  PROVE  IInv'
<1>1. /\ lock[p] = "none" /\ lock'[p] = "exclusive" /\ UNCHANGED <<file, at, next, written>>
      /\ at[p] \in {"execute", "verify", "open"} /\ hot' = FALSE
      /\ \A q \in Processes \ {p} : lock'[q] = lock[q]
  BY DEF Recover, IInv, TypeOK
<1>2. TypeOK'
  <2>1. lock' \in [Processes -> {"none", "shared", "reserved", "exclusive"}]
    BY DEF Recover, IInv, TypeOK
  <2> QED
    BY <1>1, <2>1 DEF IInv, TypeOK
<1>3. OneWriter' /\ OneVersion(file')
  BY <1>1 DEF IInv, OneWriter, OneVersion
<1>4. Executed(p)' /\ VersionRead(p)' /\ VersionWritten(p)' /\ CurrentTo(p)'
  BY <1>1 DEF IInv, Executed, VersionRead, VersionWritten, Seen, CurrentTo, Current
<1>5. \A q \in Processes : Executed(q)' /\ VersionRead(q)' /\ VersionWritten(q)' /\ CurrentTo(q)'
  BY <1>1, <1>2, <1>4, OthersStay
<1> QED
  BY <1>2, <1>3, <1>5 DEF IInv

\* A server that has migrated, or runs, only takes and leaves locks.
LEMMA LockKeeps ==
  ASSUME NEW p \in Processes, IInv, at[p] \in {"verify", "open"}, at'[p] \in {"verify", "open"},
         at' \in [Processes -> Starting \cup {"down", "open", "failed"}],
         lock' \in [Processes -> {"none", "shared", "reserved", "exclusive"}],
         written' \in [Processes -> Files], next' = next, file' = file, hot' \in BOOLEAN,
         VersionWritten(p)', OneWriter',
         \A q \in Processes \ {p} :
           lock'[q] = lock[q] /\ written'[q] = written[q] /\ at'[q] = at[q]
  PROVE  IInv'
<1>1. next[p] = 1
  BY DEF IInv, TypeOK, Migrating
<1>2. TypeOK'
  BY DEF IInv, TypeOK, Migrating
<1>3. Executed(p)' /\ VersionRead(p)' /\ VersionWritten(p)' /\ CurrentTo(p)'
  BY <1>1 DEF IInv, Executed, VersionRead, CurrentTo, Current
<1>4. \A q \in Processes : Executed(q)' /\ VersionRead(q)' /\ VersionWritten(q)' /\ CurrentTo(q)'
  BY <1>2, <1>3, OthersStay
<1> QED
  BY <1>2, <1>4 DEF IInv, OneVersion

\* A process without a transaction has written nothing.
LEMMA ReleaseWrites ==
  ASSUME NEW p \in Processes, IInv, Release(p), UNCHANGED file
  PROVE  VersionWritten(p)' /\ OneWriter'
BY Released DEF IInv, VersionWritten, OneWriter

LEMMA VerifyKeeps ==
  ASSUME NEW p \in Processes, IInv, Verify(p)
  PROVE  IInv'
<1>1. next[p] = 1 /\ at[p] = "verify"
  BY DEF Verify, IInv, TypeOK, Migrating
<1>2. CASE Read(p) /\ UNCHANGED <<at, next>>
  BY <1>1, <1>2, Reads, LockKeeps DEF IInv, TypeOK
<1>3. CASE Goto(p, "open") /\ Release(p) /\ UNCHANGED <<file, hot>>
  <2>1. next' = next
    BY <1>1, <1>3 DEF Release, IInv, TypeOK
  <2>2. at' \in [Processes -> Starting \cup {"down", "open", "failed"}] /\ at'[p] = "open"
        /\ \A q \in Processes \ {p} : at'[q] = at[q]
    BY <1>3 DEF Goto, IInv, TypeOK
  <2> QED
    BY <1>1, <1>3, <2>1, <2>2, Released, ReleaseWrites, LockKeeps DEF IInv, TypeOK
<1> QED
  BY <1>2, <1>3 DEF Verify

LEMMA CommandKeeps ==
  ASSUME NEW p \in Processes, IInv, Command(p)
  PROVE  IInv'
<1>1. next[p] = 1 /\ at[p] = "open" /\ UNCHANGED <<at, next>>
  BY DEF Command, IInv, TypeOK, Migrating
<1>2. CASE Read(p)
  BY <1>1, <1>2, Reads, LockKeeps DEF IInv, TypeOK
<1>3. CASE lock[p] = "shared" /\ Write(p, file)
  <2>1. lock' \in [Processes -> {"none", "shared", "reserved", "exclusive"}]
        /\ written' \in [Processes -> Files] /\ hot' = FALSE /\ file' = file
        /\ \A q \in Processes \ {p} : lock'[q] = lock[q]
    BY <1>3 DEF Write, IInv, TypeOK
  <2>2. TypeOK'
    BY <1>1, <2>1 DEF IInv, TypeOK
  <2>3. file \in Files /\ file.versions = Seen(p).versions
    BY <1>3 DEF IInv, TypeOK, Seen
  <2> QED
    BY <1>1, <1>3, <2>1, <2>2, <2>3, Writes, LockKeeps DEF IInv, TypeOK
<1>4. CASE lock[p] = "reserved" /\ lock' = [lock EXCEPT ![p] = "exclusive"] /\ UNCHANGED <<file, written, hot>>
  <2>1. /\ lock' \in [Processes -> {"none", "shared", "reserved", "exclusive"}]
        /\ lock'[p] = "exclusive" /\ \A q \in Processes \ {p} : lock'[q] = lock[q]
    BY <1>4 DEF IInv, TypeOK
  <2>2. VersionWritten(p)' /\ OneWriter'
    BY <2>1 DEF IInv, VersionWritten, OneWriter
  <2> QED
    BY <1>1, <1>4, <2>1, <2>2, LockKeeps DEF IInv, TypeOK
<1>5. CASE Release(p) /\ UNCHANGED <<file, hot>>
  BY <1>1, <1>5, Released, ReleaseWrites, LockKeeps DEF IInv, TypeOK
<1> QED
  BY <1>2, <1>3, <1>4, <1>5 DEF Command

LEMMA NextKeeps == IInv /\ [Next]_vars => IInv'
<1> SUFFICES ASSUME IInv, [Next]_vars PROVE IInv'
  OBVIOUS
<1>1. CASE UNCHANGED vars
  BY <1>1 DEF IInv, vars, TypeOK, OneVersion, OneWriter, Executed, VersionRead, VersionWritten, Seen,
              CurrentTo, Current
<1>2. ASSUME NEW p \in Processes, Start(p) \/ Step(p) \/ Command(p) \/ Crash(p) PROVE IInv'
  <2>1. CASE Busy(p)
    BY <2>1, GivesUp DEF Busy, Fail, IInv, TypeOK
  <2>2. CASE Crash(p)
    BY <2>2, GivesUp DEF Crash, IInv, TypeOK
  <2> QED
    BY <1>2, <2>1, <2>2, StartKeeps, RecoverKeeps, SkipKeeps, CreateKeeps, CountKeeps, InsertKeeps,
       CheckKeeps, CommitKeeps, VerifyKeeps, CommandKeeps
       DEF Step
<1> QED
  BY <1>1, <1>2 DEF Next

-----------------------------------------------------------------------------
LEMMA InductiveInvariant == Spec => []IInv
BY InitHolds, NextKeeps, PTL DEF Spec

\* The variables have their types, and no process that has failed or ended keeps a lock.
THEOREM MigrationTypes == Spec => []TypeOK
BY InductiveInvariant, PTL DEF IInv

\* Every server that has opened the database finds the whole schema and one version row,
\* whoever starts, fails or crashes beside it.
THEOREM SchemaIsWhole == Spec => []OpenOnWholeSchema
<1>1. IInv => OpenOnWholeSchema
  BY DEF IInv, OpenOnWholeSchema, CurrentTo, Current, Ready, SchemaVersion
<1> QED
  BY <1>1, InductiveInvariant, PTL

\* A file of another version is never changed.
THEOREM ForeignFilesStay == Spec => ForeignFilesAreKept
<1>1. IInv /\ [Next]_vars =>
        [file.versions # <<>> /\ file.versions # <<SchemaVersion>> => file' = file]_vars
  <2> SUFFICES ASSUME IInv, Next, file.versions # <<>>, file.versions # <<SchemaVersion>>
               PROVE  file' = file
    OBVIOUS
  <2>1. ASSUME NEW p \in Processes, Commit(p) PROVE FALSE
    <3>1. Seen(p).versions = <<SchemaVersion>>
      BY <2>1, CommitsSchema DEF Commit, Current
    <3> QED
      BY <3>1, VersionSeen
  <2> QED
    BY <2>1 DEF Next, Start, Crash, Command, Release, Step, Recover, Skip, Create, Count, Insert, Check,
                Verify, Busy, Fail, Read, Write
<1> QED
  BY <1>1, InductiveInvariant, PTL DEF Spec, ForeignFilesAreKept

\* A start fails only over a file of another version or beside another process, starting
\* or running, that has a lock on the file.
THEOREM FailuresHaveCauses == Spec => StartsFailForCause
<1> DEFINE Cause(p) == \/ file.versions # <<>> /\ ~Ready(file)
                       \/ \E q \in Others(p) : lock[q] # "none"
<1>1. IInv /\ [Next]_vars =>
        [\A p \in Processes : at[p] # "failed" /\ at'[p] = "failed" => Cause(p)]_vars
  <2> SUFFICES ASSUME IInv, Next, NEW p \in Processes, at[p] # "failed", at'[p] = "failed"
               PROVE  Cause(p)
    OBVIOUS
  <2>1. PICK q \in Processes : Start(q) \/ Step(q) \/ Command(q) \/ Crash(q)
    BY DEF Next
  <2>2. q = p /\ (Check(p) \/ Busy(p))
    BY <2>1 DEF IInv, TypeOK, Step, Start, Crash, Command, Recover, Skip, Create, Count, Insert, Check,
                Commit, Verify, Busy, Fail, Goto
  <2>3. CASE Check(p)
    <3>1. at[p] = "check" /\ Seen(p).versions[1] # SchemaVersion
      BY <2>3 DEF Check, IInv, TypeOK, Goto
    <3>2. Seen(p).versions # <<>>
      BY <3>1 DEF IInv, VersionRead
    <3>3. Seen(p).versions = file.versions
      BY <3>1, VersionSeen DEF SchemaVersion
    <3> QED
      BY <3>1, <3>2, <3>3 DEF Ready
  <2>4. CASE Busy(p)
    <3>1. Blocked(p)
      BY <2>4 DEF Busy
    <3>2. CASE KeptOut(p)
      BY <3>2 DEF KeptOut, Exclusive, Others
    <3>3. CASE ~MayWrite(p)
      BY <3>3 DEF MayWrite
    <3>4. CASE ~MayCommit(p)
      BY <3>4 DEF MayCommit
    <3> QED
      BY <3>1, <3>2, <3>3, <3>4 DEF Blocked
  <2> QED
    BY <2>2, <2>3, <2>4
<1> QED
  BY <1>1, InductiveInvariant, PTL DEF Spec, StartsFailForCause
=============================================================================
