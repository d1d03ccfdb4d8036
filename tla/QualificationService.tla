------------------------ MODULE QualificationService ------------------------
(***************************************************************************)
(* The commands of internal/application on the tables of the database: the *)
(* aggregate of TreatmentBatch as aggregate_json holds it, its copies in   *)
(* observations, deviations and reviews, the audit trail with the payloads *)
(* of its events, the certificates and the stored responses.               *)
(*                                                                         *)
(* A command is one transaction under the mutex of its batch.  That the    *)
(* handlers of CommandStore, interleaved, cancelled and crashed, amount to *)
(* such transactions is the theorem StoreIsLedger; that these transactions *)
(* are steps of the same Ledger is ServiceImplementsLedger in HttpApi.  A  *)
(* digest stands for what it covers, the root of a trail for the trail.    *)
(***************************************************************************)
EXTENDS TreatmentBatch, FiniteSets

CONSTANTS
  BatchIds,    (* batch_id strings                                            *)
  RequestIds,  (* request_id strings                                          *)
  ReviewIds    (* review_id strings                                           *)

VARIABLES
  batches,       (* batch_id -> the aggregate                                 *)
  observations,  (* rows [batch, sequenceNo, id, capturedAt]                  *)
  deviations,    (* deviation_id -> [batch, case]                             *)
  reviews,       (* batch_id -> the review                                    *)
  audit,         (* batch_id -> its events in the order of sequence_no        *)
  certificates,  (* batch_id -> [payload, auditRoot]                          *)
  idempotency    (* request_id -> [command, response]                         *)

-----------------------------------------------------------------------------
(* What rows and commands are made of.                                       *)

Protocols == [target : Int, tolerance : Int, temperatureMin : Int, temperatureMax : Int,
              massLimit : Int, interval : Int, window : Int]

Digests == Protocols \X SUBSET Actors

EventTypes == {"BATCH_CREATED", "BASELINE_FROZEN", "OBSERVATION_RECORDED",
               "DEVIATION_CORRECTED", "RECOVERY_APPROVED", "REVIEW_DECIDED"}

EventPayloads ==
  {Nil} \cup [baseline : Digests]
        \cup [observation : ObservationIds, codes : SUBSET RuleCodes]
        \cup [deviation : DeviationIds, owner : Owners]
        \cup [window : Int]
        \cup [review : ReviewIds, certificate : BatchIds \cup {Nil},
              decision : {"approve", "reject"}]

Events == [type : EventTypes, actor : Actors, revision : Nat \ {0}, payload : EventPayloads]

Reviews == [id : ReviewIds, reviewer : Actors, decision : {"approve", "reject"},
            checksPassed : BOOLEAN, evidenceRoot : Seq(Events)]

ASSUME RowsAssumption == Nil \notin BatchIds \cup Protocols \cup Digests \cup Reviews

\* What a body holds once its JSON is decoded; decisions and deviation ids are any strings.
InputTyped(op, input) ==
  /\ op = "freeze"  => input \in Protocols
  /\ op = "observe" => input \in [id : ObservationIds, sequenceNo : Int, capturedAt : Nat,
                                  concentration : Int, temperature : Int, mass : Int]
  /\ op = "correct" => /\ input = [deviation |-> input.deviation, owner |-> input.owner]
                       /\ input.owner \in Owners
  /\ op = "review"  => input.id \in ReviewIds /\ input.checksPassed \in BOOLEAN

-----------------------------------------------------------------------------
tables == <<batches, observations, deviations, reviews, audit, certificates, idempotency>>

NoRows == <<>>

\* A table with the row of one key inserted or replaced.
Put(table, key, row) ==
  [x \in DOMAIN table \cup {key} |-> IF x = key THEN row ELSE table[x]]

ServiceInit ==
  /\ batches = NoRows /\ observations = {} /\ deviations = NoRows /\ reviews = NoRows
  /\ audit = [b \in BatchIds |-> <<>>] /\ certificates = NoRows /\ idempotency = NoRows

-----------------------------------------------------------------------------
(* Whether a command is accepted.  A command is                              *)
(* [op, request, expected, actor, batch, input]; an error is named as        *)
(* errors.go names it, with one name for all rule errors.                    *)

Reviewed(c, b) ==
  [id |-> c.input.id, reviewer |-> c.actor, decision |-> c.input.decision,
   checksPassed |-> c.input.checksPassed, evidenceRoot |-> audit[c.batch]]

\* A client names an evidence root by the number of events of the trail it read.
EvidenceMatches(c) == c.input.evidence \in {Nil, Len(audit[c.batch])}

\* Mutant: UNIQUE(observation_id, sequence_no).
ObservationKeyUsed(o) == \E row \in observations : row.id = o.id /\ row.sequenceNo = o.sequenceNo

\* UNIQUE(observation_id) holds across batches.
ObservationIdUsed(o) == \E row \in observations : row.id = o.id

\* review_id is the primary key of reviews.
ReviewIdUsed(id) == \E b \in DOMAIN reviews : reviews[b].id = id

CreateVerdict(c) ==
  IF c.expected # 0 \/ c.batch \in DOMAIN batches THEN "revision_conflict"
  ELSE IF c.input.complete THEN "accepted" ELSE "rule_error"

FreezeVerdict(b, p) ==
  IF CanFreezeProtocol(b, p) THEN "accepted"
  ELSE IF Terminal(b.status) THEN "invalid_batch_state" ELSE "rule_error"

ObserveVerdict(b, o) ==
  IF CanAddObservation(b, o)
  THEN IF ObservationIdUsed(o) THEN "internal_error" ELSE "accepted"
  ELSE IF b.status # "draft" /\ b.status \notin {"monitoring", "recovering"}
  THEN "invalid_batch_state"
  ELSE IF b.protocol = Nil \/ ~ValidShape(o) THEN "rule_error"
  ELSE IF o.sequenceNo = LastObservation(b).sequenceNo
  THEN "duplicate_sequence" ELSE "observation_order_invalid"

CorrectVerdict(b, input) ==
  IF CanRegisterCorrection(b, input.deviation, input.owner) THEN "accepted"
  ELSE IF b.status # "paused" THEN "invalid_batch_state"
  ELSE IF input.deviation \notin DOMAIN b.deviations THEN "not_found" ELSE "rule_error"

RecoverVerdict(b) ==
  IF CanApproveRecovery(b) THEN "accepted"
  ELSE IF b.status # "paused" THEN "invalid_batch_state" ELSE "rule_error"

ReviewVerdict(b, c) ==
  LET r == Reviewed(c, b) IN
  IF ~EvidenceMatches(c) THEN "rule_error"
  ELSE IF CanDecideReview(b, r)
  THEN IF ReviewIdUsed(r.id) THEN "internal_error" ELSE "accepted"
  ELSE IF b.status # "pending_review" THEN "invalid_batch_state"
  ELSE IF /\ r.decision \in {"approve", "reject"}
          /\ r.decision = "approve" => r.checksPassed
          /\ r.reviewer \in Participants(b)
  THEN "duty_separation_failed" ELSE "rule_error"

MutateVerdict(b, c) ==
  CASE c.op = "freeze"  -> FreezeVerdict(b, c.input)
    [] c.op = "observe" -> ObserveVerdict(b, c.input)
    [] c.op = "correct" -> CorrectVerdict(b, c.input)
    [] c.op = "recover" -> RecoverVerdict(b)
    [] c.op = "review"  -> ReviewVerdict(b, c)

\* Mutant: the expected revision is not compared.
AnyRevision(c) ==
  IF c.op = "create" THEN CreateVerdict(c)
  ELSE IF c.batch \notin DOMAIN batches THEN "not_found"
  ELSE MutateVerdict(batches[c.batch], c)

\* What Create and Mutate make of a command whose request id is new.
OperationVerdict(c) ==
  IF c.op = "create" THEN CreateVerdict(c)
  ELSE IF c.batch \notin DOMAIN batches THEN "not_found"
  ELSE IF batches[c.batch].revision # c.expected THEN "revision_conflict"
  ELSE MutateVerdict(batches[c.batch], c)

\* execute: a stored response comes first; the fingerprint covers the whole command.
Verdict(c) ==
  IF c.request \notin DOMAIN idempotency THEN OperationVerdict(c)
  ELSE IF idempotency[c.request].command = c THEN "replayed" ELSE "idempotency_conflict"

-----------------------------------------------------------------------------
(* What an accepted command writes.                                          *)

\* Digest covers the baseline and who froze it.
BaselineDigest(b) == IF b.protocol = Nil THEN Nil ELSE <<b.protocol, b.baseline>>

OpenDeviations(b) == {x \in DOMAIN b.deviations : b.deviations[x].status # "closed"}

\* BatchResult.
Result(b) == [status |-> b.status, revision |-> b.revision, baseline |-> BaselineDigest(b)]

ObservationRow(id, o) ==
  [batch |-> id, sequenceNo |-> o.sequenceNo, id |-> o.id, capturedAt |-> o.capturedAt]

\* Mutant: ON CONFLICT(deviation_id) DO NOTHING.
SyncNewDeviations(id, b) ==
  deviations' = [x \in DOMAIN deviations \cup DOMAIN b.deviations |->
                   IF x \in DOMAIN deviations THEN deviations[x]
                   ELSE [batch |-> id, case |-> b.deviations[x]]]

\* ON CONFLICT(deviation_id) DO UPDATE leaves the batch_id of the row alone.
SyncDeviations(id, b) ==
  deviations' = [x \in DOMAIN deviations \cup DOMAIN b.deviations |->
                   IF x \notin DOMAIN b.deviations THEN deviations[x]
                   ELSE [batch |-> IF x \in DOMAIN deviations THEN deviations[x].batch ELSE id,
                         case  |-> b.deviations[x]]]

\* ON CONFLICT(batch_id,sequence_no) DO NOTHING.
SyncObservations(id, b) ==
  LET rows  == {ObservationRow(id, b.observations[i]) : i \in DOMAIN b.observations}
      known == {row \in rows : \E old \in observations :
                  old.batch = id /\ old.sequenceNo = row.sequenceNo}
  IN  observations' = observations \cup (rows \ known)

SyncReview(id, b) ==
  reviews' = IF b.review = Nil THEN reviews ELSE Put(reviews, id, b.review)

\* insertBatchTx or saveBatchTx, appendEventTx and the idempotency row of execute.
Commit(c, b, event, response) ==
  /\ batches' = Put(batches, c.batch, b)
  /\ SyncObservations(c.batch, b) /\ SyncDeviations(c.batch, b) /\ SyncReview(c.batch, b)
  /\ audit' = [audit EXCEPT ![c.batch] = Append(@,
                 [type |-> event[1], actor |-> c.actor, revision |-> b.revision,
                  payload |-> event[2]])]
  /\ idempotency' = Put(idempotency, c.request, [command |-> c, response |-> response])

CreateBatch(c) ==
  LET b == NewTreatmentBatch(c.actor) IN
  /\ c.op = "create"
  /\ Commit(c, b, <<"BATCH_CREATED", Nil>>, Result(b))
  /\ UNCHANGED certificates

FreezeBaseline(c) ==
  LET b == FreezeProtocol(batches[c.batch], c.input, c.actor) IN
  /\ c.op = "freeze"
  /\ Commit(c, b, <<"BASELINE_FROZEN", [baseline |-> BaselineDigest(b)]>>, Result(b))
  /\ UNCHANGED certificates

SubmitObservation(c) ==
  LET old   == batches[c.batch]
      b     == AddObservation(old, c.input, c.actor)
      codes == EvaluateObservation(old.protocol, LastObservation(old), c.input)
  IN  /\ c.op = "observe"
      /\ Commit(c, b, <<"OBSERVATION_RECORDED", [observation |-> c.input.id, codes |-> codes]>>,
                [status |-> b.status, revision |-> b.revision, baseline |-> BaselineDigest(b),
                 codes |-> codes, open |-> OpenDeviations(b)])
      /\ UNCHANGED certificates

CorrectDeviation(c) ==
  LET b == RegisterCorrection(batches[c.batch], c.input.deviation, c.input.owner) IN
  /\ c.op = "correct"
  /\ Commit(c, b, <<"DEVIATION_CORRECTED", c.input>>, Result(b))
  /\ UNCHANGED certificates

StartRecovering(c) ==
  LET b == ApproveRecovery(batches[c.batch], c.actor) IN
  /\ c.op = "recover"
  /\ Commit(c, b, <<"RECOVERY_APPROVED", [window |-> b.protocol.window]>>, Result(b))
  /\ UNCHANGED certificates

\* Generator.Generate: the record as it is sealed, and the evidence root that the
\* decision was based on.
Payload(id, b, evidenceRoot) ==
  [batch |-> id, finalStatus |-> b.status, finalRevision |-> b.revision,
   baseline |-> BaselineDigest(b), window |-> b.protocol.window,
   first |-> b.observations[1].sequenceNo, last |-> LastObservation(b).sequenceNo,
   count |-> Len(b.observations), closures |-> b.deviations,
   reviewer |-> b.review.reviewer, evidenceRoot |-> evidenceRoot]

\* Mutant: the root that the decision was based on is kept.
SealEvidence(id, payload, root, newRoot) ==
  certificates' = Put(certificates, id, [payload |-> payload, auditRoot |-> root])

\* Mutate puts the root after the decision's own event into the certificate.
Seal(id, payload, root, newRoot) ==
  certificates' = Put(certificates, id, [payload |-> payload, auditRoot |-> newRoot])

DecideOnReview(c) ==
  LET old == batches[c.batch]
      b   == DecideReview(old, Reviewed(c, old))
      id  == IF c.input.decision = "approve" THEN c.batch ELSE Nil
  IN  /\ c.op = "review"
      /\ Commit(c, b, <<"REVIEW_DECIDED", [review |-> c.input.id, certificate |-> id,
                                           decision |-> c.input.decision]>>,
                [status |-> b.status, revision |-> b.revision, baseline |-> BaselineDigest(b),
                 certificate |-> id])
      /\ IF id = Nil THEN UNCHANGED certificates
         ELSE Seal(c.batch, Payload(c.batch, b, audit[c.batch]),
                   audit[c.batch], audit'[c.batch])

Accept(c) ==
  \/ CreateBatch(c)       \/ FreezeBaseline(c)   \/ SubmitObservation(c)
  \/ CorrectDeviation(c)  \/ StartRecovering(c)  \/ DecideOnReview(c)

\* ValidateLoaded, the check of GetBatch.
ValidateLoaded(b) ==
  /\ b.revision >= 1
  /\ b.status # "draft" => b.protocol # Nil
  /\ Terminal(b.status) => b.review # Nil

\* Generator.Verify on a batch, its certificate and the root of its trail.
Verify(id, b, certificate, root) ==
  /\ b.status = "approved_sealed" /\ b.review # Nil /\ BaselineDigest(b) # Nil
  /\ certificate.payload.batch = id
  /\ certificate.payload.finalRevision = b.revision
  /\ certificate.payload.baseline = BaselineDigest(b)
  /\ certificate.payload.finalStatus = b.status
  /\ certificate.auditRoot = root

-----------------------------------------------------------------------------
(* What an auditor can work out from the events of a batch alone.            *)

Untold == [status |-> "none", open |-> {}, window |-> 0, run |-> 0]

\* The status of a batch and its open deviations after one more event.
Retell(s, e) ==
  CASE e.type = "BATCH_CREATED"       -> [s EXCEPT !.status = "draft"]
    [] e.type = "BASELINE_FROZEN"     -> [s EXCEPT !.status = "monitoring"]
    [] e.type = "DEVIATION_CORRECTED" -> s
    [] e.type = "RECOVERY_APPROVED"   ->
         [s EXCEPT !.status = "recovering", !.window = e.payload.window, !.run = 0]
    [] e.type = "REVIEW_DECIDED"      ->
         [s EXCEPT !.status = IF e.payload.decision = "approve"
                              THEN "approved_sealed" ELSE "rejected_sealed"]
    [] e.type = "OBSERVATION_RECORDED" ->
         IF e.payload.codes # {}
         THEN [s EXCEPT !.status = "paused",
                        !.open = @ \cup {e.payload.observation} \X e.payload.codes]
         ELSE IF s.status = "recovering" /\ s.run + 1 = s.window
         THEN [s EXCEPT !.status = "pending_review", !.open = {}]
         ELSE [s EXCEPT !.run = @ + 1]

Retold(events) ==
  LET tale[n \in 0 .. Len(events)] ==
        IF n = 0 THEN Untold ELSE Retell(tale[n - 1], events[n])
  IN  tale[Len(events)]

\* Every response that is stored for replays tells the batch as the audit trail up
\* to its revision tells it: the status, the deviations then open and the
\* certificate issued; the last response of a batch so tells what the batch is now
\* (the payloads and responses of create.go, observation.go, recovery.go and
\* review.go, composed next to the aggregate and never checked against it).
AnswersTellTheTrail ==
  \A r \in DOMAIN idempotency :
    LET answer == idempotency[r].response
        id     == idempotency[r].command.batch
        told   == Retold(SubSeq(audit[id], 1, answer.revision))
    IN  /\ answer.status = told.status
        /\ "open" \in DOMAIN answer => answer.open = told.open
        /\ "certificate" \in DOMAIN answer =>
             (answer.certificate # Nil <=>
                told.status = "approved_sealed" /\ id \in DOMAIN certificates)
        /\ answer.revision = Len(audit[id]) =>
             answer.status = batches[id].status /\ answer.revision = batches[id].revision

\* The rows that copy parts of an aggregate agree with it after every command: each
\* observation has its row and each deviation and review its row with the latest
\* state, and there is no other row; the aggregate passes the check of GetBatch
\* (the ON CONFLICT clauses of syncChildrenTx, sqlite.go:126).
CopiesMirrorBatches ==
  /\ observations = UNION {{ObservationRow(id, batches[id].observations[i]) :
                              i \in DOMAIN batches[id].observations} : id \in DOMAIN batches}
  /\ \A x \in DOMAIN deviations :
       /\ deviations[x].batch \in DOMAIN batches
       /\ x \in DOMAIN batches[deviations[x].batch].deviations
  /\ \A id \in DOMAIN batches :
       /\ \A x \in DOMAIN batches[id].deviations :
            /\ x \in DOMAIN deviations
            /\ deviations[x] = [batch |-> id, case |-> batches[id].deviations[x]]
       /\ batches[id].review = IF id \in DOMAIN reviews THEN reviews[id] ELSE Nil
       /\ ValidateLoaded(batches[id])

\* A batch is approved exactly when it has a certificate.  The certificate verifies
\* for ever; it seals the trail down to the decision and names as evidence the trail
\* before it, which is also what the review cites; what it says of the observations
\* and the deviations, all closed by as many observations as the frozen window, is
\* what the tables still hold (review.go:17-34 and Mutate, which puts the root after
\* the event into a certificate generated with the one before).
CertificateTellsTheRecord ==
  \A id \in BatchIds :
    /\ id \in DOMAIN certificates <=>
         id \in DOMAIN batches /\ batches[id].status = "approved_sealed"
    /\ id \in DOMAIN certificates =>
         LET b == batches[id]
             p == certificates[id].payload
         IN  /\ Verify(id, b, certificates[id], audit[id])
             /\ p.finalRevision = Len(audit[id])
             /\ p.evidenceRoot = SubSeq(audit[id], 1, p.finalRevision - 1)
             /\ p.evidenceRoot = b.review.evidenceRoot
             /\ p.count = Cardinality({row \in observations : row.batch = id})
             /\ \A row \in observations :
                  row.batch = id => row.sequenceNo \in p.first .. p.last
             /\ DOMAIN p.closures = {x \in DOMAIN deviations : deviations[x].batch = id}
             /\ \A x \in DOMAIN p.closures :
                  p.closures[x].status = "closed" /\ Len(p.closures[x].qualified) = p.window
=============================================================================
