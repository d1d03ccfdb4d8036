# timber-stage-qualifier: a TLA+ development

The service qualifies batches of waterlogged timber for the next stage of their
impregnation. A batch is created, its baseline is frozen, process observations are
submitted; an abnormal one pauses the batch and opens deviations, which are corrected;
a recovery is approved and must show an unbroken run of qualified observations; then an
independent reviewer approves (a certificate is sealed) or rejects the batch. Every
command carries a `request_id` and an `expected_revision`, and every accepted one
appends an event to a hash-chained audit trail in SQLite.

This directory models that behaviour in TLA+, checks it with TLC and proves parts of it
with TLAPS. `PROJECT.json` lists the components, the runs, the source lines each
definition stands for, the hazards, the findings and the theorems.

## The system

| Component | State | Operations | Talks to |
|---|---|---|---|
| `internal/domain`: the aggregate `TreatmentBatch` | status, revision, baseline, observations, deviations, review, participants | `NewTreatmentBatch`, `FreezeProtocol`, `AddObservation`, `RegisterCorrection`, `ApproveRecovery`, `DecideReview` | nobody: pure, called under the mutex of its batch |
| `internal/repository/locks.go`: `keyedLocks` | a table of reference-counted mutexes | `lock(key)` and the function it returns | goroutines that share it |
| `internal/repository`: `SQLiteRepository` | tables batches, observations, deviations, reviews, certificates, audit_events, idempotency; a pool of 8 connections | `Create`, `Mutate`, the queries, `Open`, `Close` | keyed locks, database/sql, SQLite; calls back into the service |
| `internal/application`: `Service` | none | one method per command and query | the repository, with a callback that runs the aggregate and the generator |
| `internal/evidence` | none | `Generate`, `Verify` | called by the service |
| `internal/repository/migrations.go` | the schema and the table schema_version | `migrate` and the rest of `Open`, `Ready` | SQLite, and other servers that start or run on the same file |
| `internal/httpapi` | none | ten handlers: decode, validate, answer | the service |
| `cmd/server` | the process | start, serve, drain, shut down, self-check | opens and closes the repository; gives the address up before it ends |

What is hard here: commands of many clients race for one batch while other batches
share the connections and SQLite's single writer lock; answers get lost and commands
are sent again, also with a request id that was used before or on another batch; the
client's context or the process may end at any point; several deviations of a batch
are credited, reset and closed in loops; a query reads at several moments.

What makes each component correct:

- aggregate: qualification means one unbroken run of exactly the frozen length, however
  many deviations are open; the record is only added to; the reviewer took no part;
- keyed locks: one mutex per key, no entry dropped in use, none leaked, no starvation;
- store: exactly once per request, truthful and durable answers, one winner per
  revision, an audit chain that tells the revisions, a certificate that seals its end;
- service and HTTP: response, event, certificate and the copies in the tables tell one story;
- verification and audit: an untouched certificate is found valid, and a trail shows all
  that anybody had been told;
- migration: whoever gets an open database has the whole schema, a foreign file is left alone,
  and a start fails only for a cause;
- server: answers stand whatever ends a process, a signal ends it, service comes back.

## Modules

```
StageQualification  <--implements--  BatchLifecycle -- EXTENDS --> TreatmentBatch
  ^                                      ^                              ^
  +--implements--  OneBatch --instance---+                              | EXTENDS
                      | EXTENDS                                         |
Ledger <--implements-- HttpApi -- EXTENDS --> QualificationService -----+
  ^
  +------implements------  CommandStore <-- EXTENDS -- CertificateVerification
                             |      ^-- EXTENDS ------ ServerLifecycle
                             | instance
KeyedMutex  <----------------+
  ^------implements------  KeyedLocks

SchemaMigration (on its own)
```

`OneBatch` too implements what it instantiates: a step of the service is a step of
`BatchLifecycle` on one batch, or creates it, or leaves it alone.

How the layers fit. `KeyedLocks` implements `KeyedMutex`; `CommandStore` is built on
`KeyedMutex` and implements `Ledger`, in which a command is applied at one moment or not at
all. That is what makes it right for `QualificationService` and `HttpApi` to run a command
in one step: their transactions implement the same `Ledger`, with the real aggregate and
all tables. What is not atomic, the queries that read more than once, is read by read in
`CertificateVerification`.

`TreatmentBatch` has no variables: it is the aggregate as a record, with a guard
(`CanFreezeProtocol`, `CanAddObservation`, ...) made of the early returns and a result
(`FreezeProtocol`, ...) made of the assignments of each operation. Deviations are a
function from their ids, pairs of observation id and rule code (the code hashes the
pair), since nothing depends on their order. Readings are integers, and the relative
mass change is compared as an exact product instead of a quotient in floating point.
Clock ticks, not microseconds, are the unit of time, so that `utc` can cut something off.

`BatchLifecycle` drives one aggregate with any sequence of accepted commands. Its
actions are the command handlers of `internal/application`, each with the audit event it
appends. A refused command rolls back and has no action. Clients may send any command
at any time; expected revisions are the business of the store.

`StageQualification` is what the service promises about a batch, without deviations and
people: a status, the window and one counter. The refinement mapping computes the
counter from the record alone, as the length of the run of qualified observations that
ends it.

`KeyedLocks` models every operation on shared memory of `locks.go` as a step; `pc` names
the place. Addresses of `lockRef`s are reused when nothing points to them any more.
`KeyedMutex` is the interface: request, grant, release. A key counts as released once the
entry's mutex is unlocked, whatever its thread still has to do in the table.

`CommandStore` models `Create`, `Mutate` and `execute` for several handlers in several
processes on one file: mutex of the batch, connection, lookup of the request, operation,
COMMIT, unlock, answer. Its mutexes are `KeyedMutex`, instantiated, one table of them per
process. The rows of a transaction become visible with its COMMIT; SQLite's SHARED,
RESERVED and PENDING locks follow from where the handlers stand, over all processes. The
aggregate is cut down to its revision and whether it is sealed, and `Refuse` lets it reject
any command for reasons of its own. A digest is the thing digested: hash functions are
taken to be free of collisions.

`Ledger` is the promise of the store: the requests applied with their responses, a revision
and a seal per batch, the answers that clients have heard; one action that applies a
command and one that tells its client, for the first time or again.

`ServerLifecycle` replaces the crash and restart of `CommandStore` by the life of a
process: `Open` or `OpenFails` (a lock of another process on the file, an error), `Listen`
or `AddressInUse`, `Signal`, `Drained` or `GiveUp` after ten seconds, `ServeFails`, `Exit`,
`Kill`. A process that drains has left the address already, so that two processes serve
one file.

`CertificateVerification` adds the queries that read more than once, `VerifyCertificate`
and `GetAudit`, read by read, to the store. `GetAudit` has three outcomes, told apart: a
trail, 'not found', and a batch that was created between its two reads, without events.

`QualificationService` has the tables as the database holds them: the aggregate, its
copies in observations, deviations and reviews with what each ON CONFLICT clause does, the
audit events with their payloads, the certificates and the stored responses. An operator
per command handler writes them all; `Verdict` is the order in which `execute`, `Create`,
`Mutate` and the aggregate find errors.

`HttpApi` adds the ten handlers: what decoding accepts, which ids are trimmed before they
are matched and which are not, the status and code of every error, the replay header.

`OneBatch` looks at one batch of the service, `Focus`: its aggregate, with the review cut
down to what decides, and the types and actors of its events. That closes the gap between
the two levels: what `BatchLifecycle` promises of an aggregate that gets any commands is
promised of what the database holds, whatever is sent for this and other batches.
`BatchLifecycle` asks for observation ids that are new; here the UNIQUE constraint of the
table sees to that.

`SchemaMigration` is `Open`: `migrate`, one deferred transaction per process, statement by
statement, with the locks it takes and keeps, then the reads of `VerifyAllAuditChains`, and
failures and crashes at any point. Beside the processes that start there are those that
run, whose commands take SHARED, RESERVED and EXCLUSIVE locks as they like. A writer that
crashes leaves a hot journal, which the next reader has to roll back alone.

`MC*` modules define constant values only. `*Proofs` modules hold the proofs. Operators
whose comment begins with "Mutant:" are plausible bugs of the definition after them; no
specification uses them. Each property is shown to be violated when the mutant that
`PROJECT.json` names for it replaces that definition.

## Runs

| Run | Bounds | Shows |
|---|---|---|
| `lifecycle` | 2 people, windows 0 (refused) and 2, 5 observations that may each be normal or off in concentration, some at one time, in one microsecond or with one sequence number | `RecoveryIsAllOrNothing`, `ReviewFollowsRecovery`, `ReviewerIndependence`, `EvidenceTimeline`, `EvidenceIsAppendOnly`, the refinement of `StageQualification` |
| `reviewer_took_no_part` | as `lifecycle`, window 1, an observation per sequence number | finding 1 |
| `reviewer_owns_no_correction` | and an owner string that is not trimmed | finding 2 |
| `keyed_locks` | 3 goroutines, 2 keys, 3 addresses | `MutualExclusion`, `EntriesCountUsers`, `HolderUnlocks`, `EveryCallReturns`, the refinement of `KeyedMutex` |
| `store` | 3 handlers in 2 processes, 2 connections each, 2 batches, 4 requests, 6 commands, one for a revision to come | `ExactlyOnce`, `AnswersAreDurable`, `ConflictsAreFinal`, `OneWinnerPerRevision`, `OneTransactionPerBatch`, `HistoryIsKept`, the refinement of `Ledger` |
| `verification` | 2 handlers, 2 processes, 1 batch from creation to seal and beyond, queries in either process | `TrailTellsRevisions`, `CertificateSealsTrail`, `OnlyStaleRowsRefute`, `AuditShowsWhatWasTold` |
| `issued_certificates` | as `verification` | finding 3 |
| `commands_return` | 3 handlers in 2 processes, 1 connection each, 2 batches | `EveryCommandReturns` |
| `server` | 2 processes with a handler each, 1 batch that is created and changed, both commands sent again and again | `AnswersAreDurable`, `SignalsEnd`, `ServiceComesBack` |
| `service` | 2 batches from creation to approval or rejection, requests of every route, among them malformed, out of order, stale, premature and with ids used before | `AnswersTellTheTrail`, `CopiesMirrorBatches`, `CertificateTellsTheRecord`, the refinement of `Ledger`; of the first batch `BatchLives` |
| `expected_revision` | as `service` | finding 4 |
| `migration` | 3 processes that start, run and crash, 3 of the 11 statements, a new, a current, an older and a foreign file | `OpenOnWholeSchema`, `ForeignFilesAreKept`, `StartsFailForCause`, `EveryStartEnds` |

Why the bounds are enough to see the interesting cases. Five observations allow a
deviation, a recovery broken by a second deviation (so that two are open at once, one of
them reset), another recovery and a full window of two. Two people are enough for a
reviewer and everybody else; they are interchangeable, so that the run uses symmetry, and
it checks no liveness. A tick is half a microsecond, so that 4 and 5 are two times when they
are compared and one when they are stored. Three goroutines on a key are a holder, a waiter and one
that finds the entry deleted; the second key makes them share the table; an address for
each goroutine is as many as can be in use. Two handlers of one process are a holder of a
batch's mutex and a waiter for it, or two batches on two connections; the third handler,
in the other process, shares nothing with them but the file. The six commands of `store`
contain a request id used on two batches, two commands for one revision, an observation id
used on two batches, and an approval sent for revision 2, which is answered with a conflict
when it comes too early and applied when it comes again; every command may be sent any
number of times and by several handlers. In `commands_return` the two handlers of one
process may send commands on two batches, so that their mutexes do not keep them apart and
one waits for the only connection with its mutex held. In `server` the batch is created and
then changed, so that a restart verifies a chain of two events; two processes are one that
drains and one that starts and serves beside it. In `service` a client numbers its requests by batch and revision; at
each revision of the first batch a good, a bad or a late reading may come, corrections and
a recovery, so that its window of two is met, broken and met again, and one reading is off in temperature
and in mass; the second batch may
use the observation ids and the review id of the first. In `migration` two statements are
enough for a process to stand between them, and the third tells a part of the schema from
its beginning; three processes are a writer, a reader and one that waits, each of which may
be starting or running; one transaction of a running process stands for all it may have,
since it may have any lock at any time. No counter needs
a bound: revisions are limited by the number of requests, since no request is applied
twice. TLC checks for deadlock in the runs of the locks, the store, the verification, the
server, the service and the migration, where something can always happen; a batch alone
stops when it is sealed or the ids run out.

Fairness. `KeyedLocks`: a goroutine keeps running (weak fairness of its step), and a
waiter of a `sync.Mutex` is not overtaken for ever, which its starvation mode ensures
(strong fairness of the acquisitions). Nobody is made to call `lock`. `CommandStore`:
the same for the mutex of a batch; connections are granted in order of arrival by
database/sql (strong fairness of `Begin`); a handler that can go on does; a crashed
process is started again. Clients, cancellations and crashes are under no fairness.
Where SQLite waits, a handler may also give up with SQLITE_BUSY, because only the
connection on which `Open` ran the PRAGMA has a busy timeout. `ServerLifecycle`: the same
for handlers, and a process goes on with its life; whoever runs the server starts it again
until it opens (weak fairness of `Open`: a start that fails is repeated, and is not unlucky
for ever while no lock keeps it out) and does not kill it each time between opening and listening (strong fairness of `Listen`).
Signals, failures and kills are under no fairness. `SchemaMigration`: a process that has
begun to open the database goes on, which includes giving up at SQLITE_BUSY.

## Findings

1. `ReviewerTookNoPart`. `TreatmentBatch.RegisterCorrection` (batch.go:164) remembers the
   owner of a correction and not the actor who registers it, so that actor can review
   the batch. BENZHI_README.md:13 asks for a reviewer who took part in no operation. The
   run: one person creates, freezes and observes; the other only registers the
   correction, naming the first as its owner; the first finishes the recovery; the
   other approves.
2. `ReviewerOwnsNoCorrection`. The deviation stores the trimmed owner (deviation.go:29)
   and the participants the string as sent (batch.go:164). With "rex " rex owns the
   correction on record and still passes the duty separation.
3. `IssuedCertificatesVerify`. `VerifyCertificate` reads the batch before the approval and
   the certificate after it, and reports a genuine certificate as inconsistent with its
   batch. `OnlyStaleRowsRefute` shows that this is the only way: a verification that
   begins after the approval finds the certificate valid, and the audit root is never
   found wrong.

4. `WritesNeedRevision`. `commandMeta` refuses a negative `expected_revision` only
   (codec.go:43); a body without the field is decoded to 0, which is what a create must
   send. README.md:5 asks for the field in every write.

A consequence of `ReviewFollowsRecovery` that no document mentions: only a recovery leads
to `pending_review` (batch.go:145), so a batch without any deviation is never reviewed.

## Proofs

TLAPS checks the following for all values of the constants, under the named assumptions
of the modules (`NamesAssumption`: actor ids are trimmed, trimming is idempotent;
`ClockAssumption`; `InputsAssumption`; `NilAssumption`; `ThreadsAssumption`;
`StoreAssumption`; `ServerAssumption`; `MigrationAssumption`: the list of statements makes
all objects, and a file this program made has one version row at most; `RowsAssumption`
and `FocusAssumption`: a nil pointer is no row; `HttpAssumption`: what `idPattern` matches is
trimmed and not blank, and bodies have fields of the types their decoders ask for).

`BatchLifecycleProofs`

- `TypeCorrectness`, `IndependentReviewer`: invariants. The second one rests on
  `batch.createdBy`, the participants and the audit trail growing together, operation by operation.
- `RecoverTogether`, `ReviewAfterRecovery`: neither is inductive by itself. In a recovery,
  two deviations might close at different observations unless they have the same
  credit. The invariant adds what ties every deviation to the record: while
  observations are counted, each is credited with exactly those since the last abnormal
  one, and these are fewer than the window. Then one more observation closes all of
  them or none.
- `ObservationsAreATimeline`: the code compares a time before it cuts it down and stores it
  after. The invariant adds that stored times are whole microseconds; a time later than
  one of these is not before it even when it is cut (`CutKeepsOrder`).
- `RecordOnlyGrows`: every operation but the review leaves closed deviations alone because
  there are none (`NoneClosed`): they close together, and the batch is under review then.
- `LifecycleQualifies`: the initial state maps to the initial state, and each handler to
  a step of `StageQualification` or a stuttering step (a normal observation while
  monitoring, a correction). The counter of the mapping is a `CHOOSE` over run lengths;
  a lemma shows that the run is unique, so the credit of any deviation is its length.

`KeyedLocksProofs`

- `EntriesAreExact` is the inductive core: an entry exists exactly while goroutines
  between `Register` and `Deregister` use its key, all of them point to it, and its count is their
  number. It needs the holder of the table to be unique, and that two keys never share
  an address, which follows from `Unreachable`. `LockTypes` and `HoldersUnlock` follow from it.
- `LocksExclude`: goroutines that hold a key point to the same entry, whose mutex has one
  holder.
- `LocksImplementMutexes`: the lock of an entry grants the key, its unlock releases it, all
  other steps stutter.

`CommandStoreProofs`

- The core is `Isolation`: a transaction that has read still finds its request unused; one
  that has written has applied its command to the tables as they are now; two cannot have
  written. It holds because COMMIT waits for all who have read. With it the tables change
  by `Effect(c)` and in no other way, and each property of the tables is proved against
  that one formula: `TrailsAreComplete`, `CertificatesAreFinal`, `RequestsApplyOnce`,
  `RevisionsHaveOneWinner` (the last two through `RowsAndEvents`, a bijection of
  idempotency rows and events), `StoreKeepsHistory`.
- `AnswersStand`, `ConflictsStand`: what a handler is about to answer, and what was ever
  heard, holds of the tables (`RepliesHold`), and an effect keeps it true. A conflict is final
  but for a change sent too early (`Premature`): command.go:56 answers it with a conflict
  too, and it may be applied once the batch has come to its revision.
- `TransactionsAreSerial`: who is between `BeginTx` and the unlock owns its mutex.
- `StoreIsLedger`: a COMMIT is `TakeEffect`, an answer that arrives is `Tell`, the rest stutters.

`ServerLifecycleProofs`

- Every step of a server is, for the store, a step of a handler, a vanishing process or
  nothing (`ServerSteps`), so `ServersApplyOnce`, `ServersKeepAnswers` and
  `ServersAreLedger` follow from the invariants of the store.
- `ServerTypes`: one process at most has the address, and serves.

`CertificateVerificationProofs`

- `OnlyStaleRows`: the row, the certificate and the trail of an approved batch do not change
  any more (`ApprovedStays`), so what a query has read of one is still so when it reads on.
- `TrailsShowAll`: what any client had been told of is on the trail when the query begins
  (`ToldIsOnTrail`), so an empty trail or no batch means that nobody had been told. That an
  answer is a beginning of the stored trail stays true because trails only grow.

`SchemaMigrationProofs`

- `SchemaIsWhole`, `ForeignFilesStay`, `FailuresHaveCauses`, `MigrationTypes`. A transaction
  keeps its lock from its first statement, so nothing is committed between two of its
  statements, and what it has seen is still so when it commits: the objects of the
  statements it has executed (`Executed`), the version (`VersionRead`), and that it has
  written no version but the first (`VersionWritten`). A start fails where the version is
  compared, with the version then being that of the file, or where it is blocked, which is
  by a lock of another process in each case.

`QualificationServiceProofs`, from the record up to the tables

- `AggregateInv`, of one record: types, sequence numbers that grow, deviations that are about
  observations of the batch and cite observations of it, and `Together`: while observations
  are counted, all deviations have the same credit, smaller than the window. One lemma per
  operation (`NewKeeps`, `FreezeKeeps`, ...) shows that it keeps `AggregateInv`.
- `TrailInv`: what an auditor works out from the events, `Retold`, is the status and the open
  deviations of the batch. `Together` is needed here: an event of an observation names no
  deviation that it closes, and yet the auditor knows when all do. `Retold` is a recursive
  function of the length of the trail; that it is defined at every length, and depends on
  no later event, is shown by the least length at which it fails.
- `ServiceInv`, of the tables: besides these, copies that agree with the aggregates
  (`CopiesMirrorBatches`), certificates that are what `Generate` makes of the batch as it
  still is (`CertificateInv`), and answers that the trail up to their revision tells
  (`AnswerInv`). The properties speak of fields of a certificate and of counted rows; the
  invariant says how they came to be, and is inductive.
- Every accepted command is `Proper`: it writes an aggregate that satisfies `AggregateInv`
  and to which observations and deviations were only added, with one event that tells it.
  `ProperKeeps` shows once, for all commands, that a `Commit` of such an aggregate keeps `ServiceInv`.
- The proof found `CopiesMirrorBatches` too weak: it did not say that a deviation of a batch has a
  row at all. It says so now.

`HttpApiProofs`

- `ServiceTypes`, `CopiesAgree`, `CertificatesTellTheRecord`, `AnswersAreTheTrail`: a handler leaves
  the tables alone or applies one command whose fields the decoding has checked
  (`StepApplies`, `CommandFits`), and such a command keeps `ServiceInv`.
- `ServiceIsLedger`: an accepted command is `TakeEffect`, everything else stutters.
- `BatchesLiveApart`: a command on another batch changes no row of this one; one on it does to
  what `BatchLifecycle` keeps of it what `BatchLifecycle` does (`FreezeLives`, ...). That the
  observation id is new for the batch follows from the row of each observation.
- `BatchesKeepTheirRules`, `ServiceQualifies`: `BatchLifecycleProofs` is instantiated with the
  projection, and its inductive invariant (`BatchInv`) and its refinement carry over; a
  batch that nobody has created yet maps to a draft. Its assumptions about
  people, baselines and observations hold of what can be sent (`LifeAssumptions`).

No run checks `ServerTypeOK`, `BatchKeepsItsRules` and `ServiceImplementsStageQualification`, which
only theorems state: the last two say of a batch in the database what `lifecycle`
checks of `BatchLifecycle`, and `BatchLives`, which `service` checks, carries over.

Only model-checked: liveness under fairness, which needs ENABLED and is out of the prover's
reach: `EveryCallReturns`, `EveryCommandReturns`, `SignalsEnd`, `ServiceComesBack`,
`EveryStartEnds`. The violated properties are counterexamples, not theorems.

## Not modelled, and assumptions

- Command line and self-check (config.go, selfcheck.go): a parser of flags and a scripted
  client, sequential input and output without state of their own.
- The bodies that queries return, the routing of net/http, the JSON of requests beyond
  whether it is accepted, logging.
- The canonical encodings and SHA-256: no collisions, and decoding inverts encoding. A
  tampered file is outside the model: `VerifyEvents` guards the start of a server, and
  what is checked is that it never refuses a file the program itself has made.
- A database in memory (`:memory:` with a shared cache): its locks are those of tables and
  not of a file; the models are of a file.
- database/sql rolls a transaction back if its COMMIT fails; SQLite is used with a
  rollback journal (no PRAGMA asks for another) and is atomic and durable. Were the driver
  to leave a transaction open after a failed COMMIT, the next user of the connection would
  meet it; the driver is not in the repository.
- net/http: a connection that is accepted in the moment of Shutdown is served or not; a
  draining process in the model still serves requests, which covers both.
- The server's clock: what is taken from it (created_at, frozen_at and the like) is only
  reported and compared with nothing that decides.
- Floating point: comparisons are exact here.
- In `CommandStore` no hot journal is modelled: where it would let the first read after a crash
  fail with SQLITE_BUSY, `Cancel` ends the command in the same way. In `SchemaMigration`
  errors of I/O are left out, which could fail any start.
- A query holds its SHARED lock for one step only, so it never makes a COMMIT wait in
  `CertificateVerification`; a COMMIT that gives up is `Cancel` or `Busy` in the store.
- How often SQLITE_BUSY happens: every wait for SQLite may fail, with or without the busy
  timeout of a connection, and no property depends on it.

## Plan

Done, in this order: the aggregate and its abstract specification; the locks and their
interface; the store on top of the interface, with several processes, and its ledger; the
queries beside it; the life of the servers; the migration; the service with all its tables
and the HTTP handlers on the real aggregate; one batch of the service as the lifecycle; the
proofs above.

Left: a second reader in `CertificateVerification` whose SHARED lock lasts several steps, so
that a COMMIT waits for a query, with the proofs about it; and the composition of
`CommandStore` with the aggregate of `QualificationService`, which now meet in the `Ledger`.
