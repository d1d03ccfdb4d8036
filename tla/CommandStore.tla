---------------------------- MODULE CommandStore ----------------------------
(***************************************************************************)
(* How a command becomes durable (internal/repository): Create and Mutate  *)
(* take the mutex of the batch, open a transaction on one of the pooled    *)
(* connections, look the request up in the table idempotency, apply the    *)
(* operation and commit.  Handlers run concurrently; clients send a        *)
(* command again as often as they like; a transaction may be cancelled     *)
(* or refused by a lock of the database.  Several processes may serve one  *)
(* database file, each with mutexes and a pool of its own; each may crash  *)
(* anywhere and start again.                                               *)
(*                                                                         *)
(* The mutex of a batch is the one KeyedLocks implements.  The operation   *)
(* on the aggregate, the subject of BatchLifecycle, is cut down here to    *)
(* whether it is accepted and whether it seals the batch.  Digests are     *)
(* taken to be collision free: a digest is the thing it is a digest of.    *)
(***************************************************************************)
EXTENDS Naturals, Sequences, FiniteSets

CONSTANTS
  Processes,       (* servers on one database file                            *)
  Handlers,        (* goroutines that serve requests                          *)
  ProcessOf,       (* the process a handler runs in                           *)
  Batches, Requests, ObservationIds,
  Commands,        (* what clients send                                       *)
  MaxOpenConns,    (* SetMaxOpenConns                                         *)
  None

Kinds == {"create", "change", "approve", "reject"}

\* fingerprint(command) covers all of a command, its request id included.
CommandType == [request : Requests, batch : Batches, kind : Kinds,
                expected : Nat, observation : ObservationIds \cup {None}]

Statuses == {"open", "approved_sealed", "rejected_sealed"}

\* The rows of the tables.  A digest covers an event and, through the digest before
\* it, the whole trail up to it; it stands for what it covers.
Digests       == Seq(Requests \X Nat)
BatchRows     == [revision : Nat \ {0}, status : Statuses]
EventRows     == [request : Requests, revision : Nat, previous : Digests]
Certificates  == [revision : Nat, root : Digests]
StoredAnswers == [command : Commands, response : Nat]

Tables ==
  [batches      : [Batches -> BatchRows \cup {None}],
   audit        : [Batches -> Seq(EventRows)],
   certificates : [Batches -> Certificates \cup {None}],
   observations : [ObservationIds -> Batches \cup {None}],
   idempotency  : [Requests -> StoredAnswers \cup {None}]]

\* The answers of errors.go.  The revision is that of an acceptance or, in a conflict,
\* the one the transaction found, which the client is not told.
Codes == {"accepted", "idempotency_conflict", "revision_conflict", "not_found",
          "refused", "internal_error"}

Answers == [code : Codes, revision : Nat]

ASSUME StoreAssumption ==
  /\ ProcessOf \in [Handlers -> Processes]
  /\ Commands \subseteq CommandType
  /\ None \notin Handlers \cup Batches \cup ObservationIds \cup Commands
  /\ None \notin BatchRows /\ None \notin Certificates /\ None \notin StoredAnswers
  /\ None \notin Tables /\ None \notin Answers
  /\ MaxOpenConns \in Nat \ {0}

VARIABLES
  db,       (* the committed tables                                           *)
  phase,    (* of a process: down, serving, draining (it listens no more) or  *)
            (* closed (its database handle is closed, its handlers still run) *)
  wanted, owner,   (* the mutexes of the batches, see KeyedMutex              *)
  pc,       (* where a handler stands                                         *)
  command,  (* the command it serves                                          *)
  written,  (* the tables as its transaction has written them                 *)
  reply,    (* what it will answer                                            *)
  heard     (* the acceptances that have reached their clients                *)

locals == <<pc, command, written, reply>>
vars == <<db, phase, wanted, owner, pc, command, written, reply, heard>>

\* The mutex table belongs to the repository of one process.
Mutex == INSTANCE KeyedMutex WITH Threads <- Handlers, Keys <- Processes \X Batches

MutexOf(h, c) == <<ProcessOf[h], c.batch>>

-----------------------------------------------------------------------------
(* The tables                                                                *)

EmptyTables ==
  [batches      |-> [b \in Batches |-> None],
   audit        |-> [b \in Batches |-> <<>>],
   certificates |-> [b \in Batches |-> None],
   observations |-> [o \in ObservationIds |-> None],
   idempotency  |-> [r \in Requests |-> None]]

Digest(event) == Append(event.previous, <<event.request, event.revision>>)

\* Mutant: ORDER BY sequence_no without DESC.
FirstDigest(events) == IF events = <<>> THEN <<>> ELSE Digest(events[1])

\* auditRootTx: the digest of the last event, empty if there is none.
AuditRoot(events) == IF events = <<>> THEN <<>> ELSE Digest(events[Len(events)])

\* Mutant: the digest is carried on before it is compared.
VerifyItself(events) ==
  \A i \in DOMAIN events : events[i].previous = Digest(events[i])

\* VerifyEvents: each event carries the digest of the one before it.
VerifyEvents(events) ==
  \A i \in DOMAIN events :
    events[i].previous = IF i = 1 THEN <<>> ELSE Digest(events[i - 1])

\* The revision of a batch, 0 if there is none.
Revision(b, tables) == IF tables.batches[b] = None THEN 0 ELSE tables.batches[b].revision

NextRevision(c, tables) == Revision(c.batch, tables) + 1

\* appendEventTx: the event of an accepted command.
Event(c, tables) == [request |-> c.request, revision |-> NextRevision(c, tables),
                     previous |-> AuditRoot(tables.audit[c.batch])]

\* The row of batches (insertBatchTx, saveBatchTx).
Row(c, tables) ==
  [revision |-> NextRevision(c, tables),
   status   |-> IF c.kind = "approve" THEN "approved_sealed"
                ELSE IF c.kind = "reject" THEN "rejected_sealed" ELSE "open"]

\* The certificate of an approval: its payload has the final revision, and Mutate adds
\* the root that appendEventTx returned.
Certificate(c, tables) ==
  [revision |-> NextRevision(c, tables), root |-> Digest(Event(c, tables))]

\* The tables after Create or Mutate has applied command c and execute has added its
\* idempotency row; syncChildrenTx inserts the observations that are not there yet.
Apply(c, tables) ==
  [batches      |-> [tables.batches EXCEPT ![c.batch] = Row(c, tables)],
   audit        |-> [tables.audit EXCEPT ![c.batch] = Append(@, Event(c, tables))],
   certificates |-> [tables.certificates EXCEPT ![c.batch] =
                       IF c.kind = "approve" THEN Certificate(c, tables) ELSE @],
   observations |-> [o \in ObservationIds |->
                       IF o = c.observation THEN c.batch ELSE tables.observations[o]],
   idempotency  |-> [tables.idempotency EXCEPT ![c.request] =
                       [command |-> c, response |-> NextRevision(c, tables)]]]

\* Mutant: the expected revision is not compared.
Exists(c, tables) == c.kind = "create" <=> Revision(c.batch, tables) = 0

\* Create and Mutate find the batch as the client expects it.
AsExpected(c, tables) ==
  /\ c.expected = Revision(c.batch, tables)
  /\ c.kind = "create" <=> Revision(c.batch, tables) = 0

\* Mutant: no ensureMutable.
NeverSealed(c, tables) == FALSE

\* The aggregate accepts nothing any more once the batch is sealed.
Sealed(c, tables) == c.kind # "create" /\ tables.batches[c.batch].status # "open"

\* Mutant: INSERT OR REPLACE into observations.
Replacing(c, tables) == TRUE

\* UNIQUE(observation_id), over all batches.
Unique(c, tables) == c.observation # None => tables.observations[c.observation] = None

-----------------------------------------------------------------------------
(* The answers                                                               *)

Answer(code, n) == [code |-> code, revision |-> n]

InternalError == Answer("internal_error", 0)

\* What execute answers to command c when row has its request id.
StoredAnswer(c, row) ==
  IF row.command = c THEN Answer("accepted", row.response) ELSE Answer("idempotency_conflict", 0)

\* What Create and Mutate answer to command c when the batch is not as expected.
Mismatch(c, tables) ==
  IF c.kind # "create" /\ Revision(c.batch, tables) = 0
  THEN Answer("not_found", 0)
  ELSE Answer("revision_conflict", Revision(c.batch, tables))

-----------------------------------------------------------------------------
(* The locks of SQLite with a rollback journal, one set for all processes:   *)
(* SHARED from the first read of a transaction to its end, RESERVED from its *)
(* first write, PENDING while its COMMIT waits for the other readers.        *)

Shared(h)   == pc[h] \in {"operate", "commit", "pending"}
Reserved(h) == pc[h] \in {"commit", "pending"}

\* Mutant: BeginTx before the mutex of the batch.
ConnectedFirst(p) == {h \in Handlers :
  ProcessOf[h] = p /\ pc[h] \in {"lock", "lookup", "operate", "commit", "pending"}}

\* The handlers of process p that have a connection of its pool.
Connected(p) == {h \in Handlers :
  ProcessOf[h] = p /\ pc[h] \in {"lookup", "operate", "commit", "pending"}}

MayRead      == \A g \in Handlers : pc[g] # "pending"
MayWrite(h)  == \A g \in Handlers \ {h} : ~Reserved(g)
MayCommit(h) == \A g \in Handlers \ {h} : ~Shared(g)

-----------------------------------------------------------------------------
\* An empty database, and every process in the same phase.
Empty(start) ==
  /\ db = EmptyTables /\ heard = {}
  /\ phase = [p \in Processes |-> start]
  /\ Mutex!Init
  /\ pc = [h \in Handlers |-> "idle"]
  /\ command = [h \in Handlers |-> None]
  /\ written = [h \in Handlers |-> None]
  /\ reply = [h \in Handlers |-> None]

Init == Empty("serving")

Goto(h, from, to) == pc[h] \in from /\ pc' = [pc EXCEPT ![h] = to]

\* The transaction is over, rolled back or committed; tx and connection are given
\* back, and answer is what the handler will say.
EndTransaction(h, answer) ==
  /\ pc' = [pc EXCEPT ![h] = "unlock"]
  /\ written' = [written EXCEPT ![h] = None]
  /\ reply' = [reply EXCEPT ![h] = answer]
  /\ UNCHANGED command

\* A client sends a command, for the first time or again; to a process that drains,
\* on a connection it had opened before.
Receive(h, c) ==
  /\ phase[ProcessOf[h]] \in {"serving", "draining"}
  /\ Goto(h, {"idle"}, "lock")
  /\ command' = [command EXCEPT ![h] = c]
  /\ Mutex!Request(h, MutexOf(h, c))
  /\ UNCHANGED <<db, phase, written, reply, heard>>

\* Mutant: no mutex.
LockNothing(h) ==
  /\ Goto(h, {"lock"}, "connect")
  /\ owner' = [owner EXCEPT ![MutexOf(h, command[h])] = h]
  /\ UNCHANGED <<db, phase, wanted, command, written, reply, heard>>

Lock(h) ==
  /\ Goto(h, {"lock"}, "connect")
  /\ Mutex!Grant(h, MutexOf(h, command[h]))
  /\ UNCHANGED <<db, phase, command, written, reply, heard>>

\* BeginTx waits for a connection; BEGIN itself takes no lock of the database.
Begin(h) ==
  /\ phase[ProcessOf[h]] # "closed"
  /\ Goto(h, {"connect"}, "lookup")
  /\ Cardinality(Connected(ProcessOf[h])) < MaxOpenConns
  /\ UNCHANGED <<db, phase, wanted, owner, command, written, reply, heard>>

\* Mutant: the table idempotency is searched by batch and request.
LookupInBatch(h) ==
  LET row == db.idempotency[command[h].request] IN
  /\ pc[h] = "lookup" /\ MayRead
  /\ IF row = None \/ (row # None /\ row.command.batch # command[h].batch)
     THEN Goto(h, {"lookup"}, "operate") /\ UNCHANGED <<command, written, reply>>
     ELSE EndTransaction(h, StoredAnswer(command[h], row))
  /\ UNCHANGED <<db, phase, wanted, owner, heard>>

\* Mutant: the fingerprints are not compared.
LookupById(h) ==
  LET row == db.idempotency[command[h].request] IN
  /\ pc[h] = "lookup" /\ MayRead
  /\ IF row = None
     THEN Goto(h, {"lookup"}, "operate") /\ UNCHANGED <<command, written, reply>>
     ELSE EndTransaction(h, Answer("accepted", row.response))
  /\ UNCHANGED <<db, phase, wanted, owner, heard>>

\* Mutant: the revision is compared before the request is looked up.
LookupLast(h) ==
  LET row == db.idempotency[command[h].request] IN
  /\ pc[h] = "lookup" /\ MayRead
  /\ IF ~AsExpected(command[h], db)
     THEN EndTransaction(h, Mismatch(command[h], db))
     ELSE IF row # None
     THEN EndTransaction(h, StoredAnswer(command[h], row))
     ELSE Goto(h, {"lookup"}, "operate") /\ UNCHANGED <<command, written, reply>>
  /\ UNCHANGED <<db, phase, wanted, owner, heard>>

\* execute looks the request up: a repeated one gets the stored response, one
\* that another command has used is refused.
Lookup(h) ==
  LET row == db.idempotency[command[h].request] IN
  /\ pc[h] = "lookup" /\ MayRead
  /\ \/ /\ row = None
        /\ Goto(h, {"lookup"}, "operate")
        /\ UNCHANGED <<command, written, reply>>
     \/ /\ row # None
        /\ EndTransaction(h, StoredAnswer(command[h], row))
  /\ UNCHANGED <<db, phase, wanted, owner, heard>>

\* The batch is not as expected, or the aggregate refuses, for a reason of its own
\* or because the batch is sealed.
Refuse(h) ==
  /\ pc[h] = "operate"
  /\ EndTransaction(h, IF AsExpected(command[h], db) THEN Answer("refused", 0)
                        ELSE Mismatch(command[h], db))
  /\ UNCHANGED <<db, phase, wanted, owner, heard>>

\* The operation is accepted and written; a second use of an observation id
\* breaks off the transaction after some of its writes.
Operate(h) ==
  /\ pc[h] = "operate" /\ MayWrite(h)
  /\ AsExpected(command[h], db) /\ ~Sealed(command[h], db)
  /\ \/ /\ Unique(command[h], db)
        /\ Goto(h, {"operate"}, "commit")
        /\ written' = [written EXCEPT ![h] = Apply(command[h], db)]
        /\ UNCHANGED <<command, reply>>
     \/ ~Unique(command[h], db) /\ EndTransaction(h, InternalError)
  /\ UNCHANGED <<db, phase, wanted, owner, heard>>

Commit(h) ==
  /\ pc[h] \in {"commit", "pending"} /\ MayCommit(h)
  /\ db' = written[h]
  /\ EndTransaction(h, StoredAnswer(command[h], written[h].idempotency[command[h].request]))
  /\ UNCHANGED <<phase, wanted, owner, heard>>

\* COMMIT finds other readers and keeps new ones out while it waits.
AwaitReaders(h) ==
  /\ Goto(h, {"commit"}, "pending") /\ ~MayCommit(h)
  /\ UNCHANGED <<db, phase, wanted, owner, command, written, reply, heard>>

\* Mutant: the error of tx.Commit is dropped.
BusyUnnoticed(h) ==
  /\ pc[h] = "pending" /\ ~MayCommit(h)
  /\ EndTransaction(h, StoredAnswer(command[h], written[h].idempotency[command[h].request]))
  /\ UNCHANGED <<db, phase, wanted, owner, heard>>

\* SQLITE_BUSY.  A first write meets another writer: SQLite does not wait, for a
\* reader that waited would keep that writer from committing.  A first read or a
\* COMMIT waits for as long as the busy_timeout of its connection, which is zero on
\* all but the one that ran the PRAGMA.
Busy(h) ==
  /\ \/ pc[h] = "lookup" /\ ~MayRead
     \/ pc[h] = "operate" /\ ~MayWrite(h)
     \/ pc[h] = "pending" /\ ~MayCommit(h)
  /\ EndTransaction(h, InternalError)
  /\ UNCHANGED <<db, phase, wanted, owner, heard>>

\* Mutant: no deferred Rollback.
CancelOnly(h) ==
  /\ pc[h] \in {"connect", "lookup", "operate", "commit"}
  /\ pc' = [pc EXCEPT ![h] = "unlock"] /\ reply' = [reply EXCEPT ![h] = InternalError]
  /\ UNCHANGED <<db, phase, wanted, owner, command, written, heard>>

\* The client goes away: its context ends the wait for a connection or rolls the
\* transaction back.  The wait for the mutex knows no context, nor does COMMIT.
Cancel(h) ==
  /\ pc[h] \in {"connect", "lookup", "operate", "commit"}
  /\ EndTransaction(h, InternalError)
  /\ UNCHANGED <<db, phase, wanted, owner, heard>>

\* The deferred unlock, then the answer, which may be lost on its way.
Respond(h) ==
  /\ Goto(h, {"unlock"}, "idle")
  /\ Mutex!Release(h, MutexOf(h, command[h]))
  /\ \/ /\ reply[h].code = "accepted"
        /\ heard' = heard \cup {<<command[h], reply[h].revision>>}
     \/ UNCHANGED heard
  /\ command' = [command EXCEPT ![h] = None]
  /\ reply' = [reply EXCEPT ![h] = None]
  /\ UNCHANGED <<db, phase, written>>

\* A process is gone with its handlers, mutexes and unfinished transactions; committed
\* tables stay.
Vanish(p) ==
  LET Emptied(f) == [h \in Handlers |-> IF ProcessOf[h] = p THEN None ELSE f[h]] IN
  /\ phase' = [phase EXCEPT ![p] = "down"]
  /\ pc' = [h \in Handlers |-> IF ProcessOf[h] = p THEN "idle" ELSE pc[h]]
  /\ wanted' = Emptied(wanted) /\ command' = Emptied(command)
  /\ written' = Emptied(written) /\ reply' = Emptied(reply)
  /\ owner' = [m \in Processes \X Batches |-> IF m[1] = p THEN None ELSE owner[m]]
  /\ UNCHANGED <<db, heard>>

Crash(p) == phase[p] # "down" /\ Vanish(p)

\* Open refuses to start on a broken audit chain (VerifyAllAuditChains).
Start(p) ==
  /\ phase[p] = "down" /\ phase' = [phase EXCEPT ![p] = "serving"]
  /\ \A b \in Batches : VerifyEvents(db.audit[b])
  /\ UNCHANGED <<db, wanted, owner, locals, heard>>

Step(h) ==
  \/ Lock(h) \/ Begin(h) \/ Lookup(h) \/ Refuse(h) \/ Operate(h)
  \/ Commit(h) \/ AwaitReaders(h) \/ Busy(h) \/ Respond(h)

Serve(h) == Step(h) \/ Cancel(h) \/ \E c \in Commands : Receive(h, c)

Next ==
  \/ \E h \in Handlers : Serve(h)
  \/ \E p \in Processes : Crash(p) \/ Start(p)

Spec == Init /\ [][Next]_vars

\* A handler that can go on does.  The mutex of a batch and the pool of connections
\* serve in order of arrival (the starvation mode of sync.Mutex, the request queue of
\* database/sql), so neither passes a waiter over for ever.  Nothing makes a client
\* send or go away, or a process crash; its supervisor starts it again.
HandlersRun == \A h \in Handlers : WF_vars(Step(h)) /\ SF_vars(Lock(h)) /\ SF_vars(Begin(h))

FairSpec == Spec /\ HandlersRun /\ \A p \in Processes : WF_vars(Start(p))

-----------------------------------------------------------------------------
(* What is expected of it                                                    *)

Steps == {"idle", "lock", "connect", "lookup", "operate", "commit", "pending", "unlock"}

TypeOK ==
  /\ db \in Tables
  /\ phase \in [Processes -> {"down", "serving", "draining", "closed"}]
  /\ wanted \in [Handlers -> (Processes \X Batches) \cup {None}]
  /\ owner \in [Processes \X Batches -> Handlers \cup {None}]
  /\ pc \in [Handlers -> Steps]
  /\ command \in [Handlers -> Commands \cup {None}]
  /\ written \in [Handlers -> Tables \cup {None}]
  /\ reply \in [Handlers -> Answers \cup {None}]
  /\ heard \subseteq Commands \X Nat
  /\ \A h \in Handlers :
       /\ command[h] = None <=> pc[h] = "idle"
       /\ written[h] = None <=> ~Reserved(h)
       /\ reply[h] = None <=> pc[h] # "unlock"

\* Where the audit trails name a request.
Traces(r) == UNION {{b} \X {i \in DOMAIN db.audit[b] : db.audit[b][i].request = r} : b \in Batches}

\* However often a command is sent, on however many batches its request id is tried
\* and wherever the processes crash, the request is in the audit trails at most once:
\* in the batch and at the revision its idempotency row promises (execute).
ExactlyOnce ==
  \A r \in Requests : LET row == db.idempotency[r] IN
    Traces(r) = IF row = None THEN {} ELSE {<<row.command.batch, row.response>>}

\* Every revision of a batch has its audit event, in the order of the revisions, and
\* the events form the chain Open insists on (appendEventTx, VerifyEvents).
TrailTellsRevisions ==
  \A b \in Batches : LET events == db.audit[b] IN
    /\ Len(events) = Revision(b, db)
    /\ \A i \in DOMAIN events : events[i].revision = i
    /\ VerifyEvents(events)

\* Whatever acceptance a client has ever heard of, replayed or not, is what the store
\* holds for that very command: no answer precedes its COMMIT, no crash takes an
\* answer back, and no command is given the answer of another (execute).
AnswersAreDurable ==
  \A answer \in heard :
    db.idempotency[answer[1].request] = [command |-> answer[1], response |-> answer[2]]

\* A change that was prepared on a revision its batch, at n, had not come to.
Premature(c, n) == c.kind # "create" /\ n < c.expected

\* A client that is told of a conflict knows that its command has not been applied, also
\* when it had sent it before and its revision is stale by then (execute looks the
\* request up before Mutate compares revisions).  Nor will it ever be, for another
\* command has its request id or the batch has gone past the revision it expects;
\* except for a change that was sent too early: that has the same answer, which does
\* not say which revision was found, and may be applied when it is sent again.
ConflictsAreFinal ==
  \A h \in {g \in Handlers : reply[g] # None} :
    LET c       == command[h]
        row     == db.idempotency[c.request]
        applied == row # None /\ row.command = c
    IN  /\ reply[h].code = "idempotency_conflict" => row # None /\ row.command # c
        /\ reply[h].code = "revision_conflict" =>
             IF Premature(c, reply[h].revision)
             THEN applied => row.response > reply[h].revision
             ELSE ~applied /\ ~AsExpected(c, db)

\* Of the commands that were prepared on the same revision of a batch one is accepted
\* at most, and it makes the next revision (Mutate, Create).  Between two processes,
\* which share no mutex, the locks of SQLite alone see to it.
OneWinnerPerRevision ==
  \A r, s \in {q \in Requests : db.idempotency[q] # None} :
    LET rowR == db.idempotency[r]  rowS == db.idempotency[s] IN
    /\ rowR.response = rowR.command.expected + 1
    /\ rowR.command.batch = rowS.command.batch
         /\ rowR.command.expected = rowS.command.expected => r = s

\* Two commands of one process on one batch are never between BeginTx and the end of
\* their transactions at once, so that they get in each other's way in the mutex, which
\* waits, and never in SQLite, which gives up (Create and Mutate defer the unlock
\* before execute begins).
OneTransactionPerBatch ==
  \A p \in Processes : \A g, h \in Connected(p) :
    command[g].batch = command[h].batch => g = h

\* A batch is approved exactly if it has its certificate, and the certificate seals
\* the last event of the audit trail for good (insertCertificateTx gets the root
\* that appendEventTx returned).
CertificateSealsTrail ==
  \A b \in Batches :
    /\ db.certificates[b] # None <=>
         db.batches[b] # None /\ db.batches[b].status = "approved_sealed"
    /\ db.certificates[b] # None =>
         db.certificates[b] = [revision |-> Len(db.audit[b]), root |-> AuditRoot(db.audit[b])]

\* Committed history is added to and never rewritten, by no crash, retry or second
\* use of an id: audit trails grow at their end, and idempotency rows, certificates
\* and the observations of a batch stay.
HistoryIsKept == [][
  /\ \A b \in Batches :
       /\ Len(db'.audit[b]) >= Len(db.audit[b])
       /\ \A i \in DOMAIN db.audit[b] : db'.audit[b][i] = db.audit[b][i]
       /\ db.certificates[b] # None => db'.certificates[b] = db.certificates[b]
  /\ \A r \in Requests : db.idempotency[r] # None => db'.idempotency[r] = db.idempotency[r]
  /\ \A o \in ObservationIds : db.observations[o] # None => db'.observations[o] = db.observations[o]
  ]_db

Books == INSTANCE Ledger WITH
  applied  <- db.idempotency,
  revision <- [b \in Batches |-> Revision(b, db)],
  sealed   <- {b \in Batches : Revision(b, db) # 0 /\ db.batches[b].status # "open"}

\* With all its handlers, transactions and processes the store is the ledger, in which
\* a command is applied at one moment or not at all.
ImplementsLedger == Books!Spec

\* Every command gets its answer, or goes down with the process: neither the mutex it
\* holds while it waits for a connection, nor the locks of SQLite, nor commands that
\* keep coming on its batch make it wait for ever.
EveryCommandReturns == \A h \in Handlers : pc[h] = "lock" ~> pc[h] = "idle"
=============================================================================
