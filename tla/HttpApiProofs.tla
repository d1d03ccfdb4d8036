----------------------------- MODULE HttpApiProofs -----------------------------
(***************************************************************************)
(* Proofs about HttpApi, for any requests that clients send.               *)
(*                                                                         *)
(* A handler leaves the tables alone, or applies one command whose fields  *)
(* the decoding has checked (Answered).  QualificationServiceProofs shows  *)
(* what such a command keeps; here that becomes an invariant of the        *)
(* specification, and the command a step of the Ledger.  For one batch,    *)
(* Focus, the command is a step of BatchLifecycle, whose theorems carry    *)
(* over.                                                                   *)
(***************************************************************************)
EXTENDS OneBatch, QualificationServiceProofs

-----------------------------------------------------------------------------
(* What a handler does                                                       *)

Codes422 == {"observation_order_invalid", "duty_separation_failed",
             "invalid_batch_state", "rule_error"}

Refusals == {"invalid_request", "not_found", "revision_conflict", "idempotency_conflict",
             "duplicate_sequence", "internal_error"} \cup Codes422

\* A status fits its code.
ReplyTyped ==
  /\ reply.status \in {0, 200, 201, 400, 404, 409, 422, 500}
  /\ reply.replay \in BOOLEAN /\ (reply.status \in {0, 200, 201} <=> reply.code = "ok")

Ops == {"create", "freeze", "observe", "correct", "recover", "review"}

\* Every command is accepted, replayed or refused for a reason that has a status.
LEMMA VerdictType ==
  ASSUME NEW c, c.op \in Ops
  PROVE  Verdict(c) \in {"accepted", "replayed"} \cup Refusals
<1>1. CreateVerdict(c) \in {"accepted"} \cup Refusals
  BY DEF CreateVerdict, Refusals, Codes422
<1>2. ASSUME NEW b, c.op # "create"
      PROVE  MutateVerdict(b, c) \in {"accepted"} \cup Refusals
  <2>1. \A x : FreezeVerdict(b, x) \in {"accepted"} \cup Refusals
    BY DEF FreezeVerdict, Refusals, Codes422
  <2>2. \A x : ObserveVerdict(b, x) \in {"accepted"} \cup Refusals
    BY DEF ObserveVerdict, Refusals, Codes422
  <2>3. \A x : CorrectVerdict(b, x) \in {"accepted"} \cup Refusals
    BY DEF CorrectVerdict, Refusals, Codes422
  <2>4. RecoverVerdict(b) \in {"accepted"} \cup Refusals
    BY DEF RecoverVerdict, Refusals, Codes422
  <2>5. ReviewVerdict(b, c) \in {"accepted"} \cup Refusals
    BY DEF ReviewVerdict, Refusals, Codes422
  <2> QED
    BY <1>2, <2>1, <2>2, <2>3, <2>4, <2>5 DEF MutateVerdict, Ops
<1>3. OperationVerdict(c) \in {"accepted"} \cup Refusals
  BY <1>1, <1>2 DEF OperationVerdict, Refusals
<1> QED
  BY <1>3 DEF Verdict, Refusals

LEMMA Refused ==
  ASSUME NEW code \in Refusals, Refuse(code)
  PROVE  UNCHANGED tables /\ ReplyTyped'
<1>1. /\ reply' = [status |-> StatusOf(code), code |-> code, replay |-> FALSE, body |-> Nil]
      /\ UNCHANGED tables
  BY DEF Refuse
<1>2. reply'.status = StatusOf(code) /\ reply'.code = code /\ reply'.replay = FALSE
  BY <1>1
<1>3. StatusOf(code) \in {400, 404, 409, 422, 500} /\ code # "ok"
  BY DEF StatusOf, Refusals, Codes422
<1> QED
  BY <1>1, <1>2, <1>3 DEF ReplyTyped

LEMMA Succeeded ==
  ASSUME NEW status \in {0, 200, 201}, NEW replay \in BOOLEAN, NEW body,
         reply' = Success(status, replay, body)
  PROVE  ReplyTyped'
<1>1. reply'.status = status /\ reply'.code = "ok" /\ reply'.replay = replay
  BY DEF Success
<1> QED
  BY <1>1 DEF ReplyTyped

\* The decoding lets in only commands with proper fields.
LEMMA CommandFits ==
  ASSUME NEW r \in HttpRequests, r.route \in DOMAIN Operations, Decoded(r), PathId(r) \in ValidIds,
         NEW c, c = Command(r, Operations[r.route], PathId(r))
  PROVE  CommandTyped(c) /\ c.op \in Ops
<1>1. /\ r.actor \in Owners /\ r.batch \in Owners
      /\ TrimSpace[r.actor] \in Actors /\ PathId(r) \in BatchIds /\ r.request \in RequestIds
      /\ InputTyped(Operations[r.route], r.input)
  BY HttpAssumption DEF Decoded
<1>2. /\ c.op = Operations[r.route] /\ c.request = r.request /\ c.actor = TrimSpace[r.actor]
      /\ c.batch = PathId(r) /\ c.input = r.input
  BY DEF Command, ActorId
<1>3. Operations[r.route] \in Ops
  BY DEF Operations, Ops
<1> QED
  BY <1>1, <1>2, <1>3 DEF CommandTyped

\* A request r is answered by applying its command.
Applied(r, c) ==
  /\ r.route \in DOMAIN Operations /\ Decoded(r) /\ PathId(r) \in ValidIds
  /\ c = Command(r, Operations[r.route], PathId(r))
  /\ Verdict(c) = "accepted" /\ Accept(c)

\* One answer leaves the tables alone or applies a command.
Answered(r) ==
  ReplyTyped' /\ (UNCHANGED tables \/ \E c : Applied(r, c))

LEMMA OutcomeAnswers ==
  ASSUME NEW r \in HttpRequests, r.route \in DOMAIN Operations, Decoded(r), PathId(r) \in ValidIds,
         NEW c, c = Command(r, Operations[r.route], PathId(r)), NEW status \in {200, 201},
         Outcome(c, status)
  PROVE  Answered(r)
<1>1. c.op \in Ops
  BY CommandFits
<1>2. Verdict(c) \in {"accepted", "replayed"} \cup Refusals
  BY <1>1, VerdictType
<1>3. CASE /\ Verdict(c) = "accepted" /\ Accept(c)
           /\ reply' = Success(status, FALSE, idempotency'[c.request].response)
  <2>1. PICK body : body = idempotency'[c.request].response
    OBVIOUS
  <2>2. PICK replay \in BOOLEAN : reply' = Success(status, replay, body)
    BY <1>3, <2>1
  <2>3. ReplyTyped'
    BY <2>2, Succeeded
  <2> QED
    BY <1>3, <2>3 DEF Answered, Applied
<1>4. CASE /\ Verdict(c) = "replayed" /\ UNCHANGED tables
           /\ reply' = Success(status, TRUE, idempotency[c.request].response)
  <2>1. PICK body : body = idempotency[c.request].response
    OBVIOUS
  <2>2. PICK replay \in BOOLEAN : reply' = Success(status, replay, body)
    BY <1>4, <2>1
  <2>3. ReplyTyped'
    BY <2>2, Succeeded
  <2> QED
    BY <1>4, <2>3 DEF Answered
<1>5. CASE Verdict(c) \notin {"accepted", "replayed"} /\ Refuse(Verdict(c))
  BY <1>2, <1>5, Refused DEF Answered
<1> QED
  BY <1>3, <1>4, <1>5 DEF Outcome

\* The id of a body is used as it is, and is trimmed because it is valid.
LEMMA CreateAnswers ==
  ASSUME NEW r \in HttpRequests, CreateBatchHandler(r) PROVE Answered(r)
<1>1. CASE Refuse("invalid_request")
  <2>1. "invalid_request" \in Refusals
    BY DEF Refusals
  <2> QED
    BY <1>1, <2>1, Refused DEF Answered
<1>2. CASE Decoded(r) /\ r.batch \in ValidIds /\ Outcome(Command(r, "create", r.batch), 201)
  <2>1. r.batch \in Owners /\ PathId(r) = r.batch
    BY <1>2, HttpAssumption DEF PathId
  <2>2. r.route \in DOMAIN Operations /\ Operations[r.route] = "create"
    BY DEF CreateBatchHandler, Operations
  <2> QED
    BY <1>2, <2>1, <2>2, OutcomeAnswers
<1> QED
  BY <1>1, <1>2 DEF CreateBatchHandler

LEMMA WriteAnswers ==
  ASSUME NEW r \in HttpRequests, r.route \in DOMAIN Operations, NEW status \in {200, 201},
         WriteHandler(r, status)
  PROVE  Answered(r)
<1>1. "invalid_request" \in Refusals
  BY DEF Refusals
<1> QED
  BY <1>1, Refused, OutcomeAnswers DEF WriteHandler, Answered

LEMMA ReadAnswers ==
  ASSUME NEW r, NEW verdict \in {"ok"} \cup Refusals, NEW body, ReadHandler(r, verdict, body)
  PROVE  Answered(r)
<1>1. "invalid_request" \in Refusals
  BY DEF Refusals
<1>2. CASE Refuse("invalid_request")
  BY <1>1, <1>2, Refused DEF Answered
<1>3. CASE verdict \in Refusals /\ Refuse(verdict)
  BY <1>3, Refused DEF Answered
<1>4. CASE Answer(200, body)
  BY <1>4, Succeeded DEF Answer, Answered
<1> QED
  BY <1>2, <1>3, <1>4 DEF ReadHandler

LEMMA StepAnswers ==
  ASSUME NEW r \in HttpRequests,
         \/ CreateBatchHandler(r)       \/ FreezeBaselineHandler(r)   \/ SubmitObservationHandler(r)
         \/ CorrectDeviationHandler(r)  \/ ApproveRecoveryHandler(r)  \/ DecideReviewHandler(r)
         \/ GetBatchHandler(r)          \/ GetAuditHandler(r)
         \/ GetCertificateHandler(r)    \/ VerifyCertificateHandler(r)
  PROVE  Answered(r)
<1>1. CASE CreateBatchHandler(r)
  BY <1>1, CreateAnswers
<1>2. CASE FreezeBaselineHandler(r)
  BY <1>2, WriteAnswers DEF FreezeBaselineHandler, Operations
<1>3. CASE SubmitObservationHandler(r)
  BY <1>3, WriteAnswers DEF SubmitObservationHandler, Operations
<1>4. CASE CorrectDeviationHandler(r)
  <2>1. "invalid_request" \in Refusals
    BY DEF Refusals
  <2>2. CASE Refuse("invalid_request")
    BY <2>1, <2>2, Refused DEF Answered
  <2>3. CASE WriteHandler(r, 200)
    BY <1>4, <2>3, WriteAnswers DEF CorrectDeviationHandler, Operations
  <2> QED
    BY <1>4, <2>2, <2>3 DEF CorrectDeviationHandler
<1>5. CASE ApproveRecoveryHandler(r)
  BY <1>5, WriteAnswers DEF ApproveRecoveryHandler, Operations
<1>6. CASE DecideReviewHandler(r)
  BY <1>6, WriteAnswers DEF DecideReviewHandler, Operations
<1>7. LoadVerdict(PathId(r)) \in {"ok"} \cup Refusals
  BY DEF LoadVerdict, Refusals
<1>8. CertificateVerdict(PathId(r)) \in {"ok"} \cup Refusals
  BY DEF CertificateVerdict, Refusals
<1>9. CASE GetBatchHandler(r)
  BY <1>7, <1>9, ReadAnswers DEF GetBatchHandler
<1>10. CASE GetAuditHandler(r)
  <2>1. PICK verdict \in {"ok", "not_found"} : ReadHandler(r, verdict, Nil)
    BY <1>10 DEF GetAuditHandler
  <2>2. verdict \in {"ok"} \cup Refusals
    BY DEF Refusals
  <2> QED
    BY <2>1, <2>2, ReadAnswers
<1>11. CASE GetCertificateHandler(r)
  BY <1>8, <1>11, ReadAnswers DEF GetCertificateHandler
<1>12. CASE VerifyCertificateHandler(r)
  <2>1. PICK verdict \in {LoadVerdict(PathId(r)), CertificateVerdict(PathId(r))} :
          \E body : ReadHandler(r, verdict, body)
    BY <1>12 DEF VerifyCertificateHandler
  <2> QED
    BY <1>7, <1>8, <2>1, ReadAnswers
<1> QED
  BY <1>1, <1>2, <1>3, <1>4, <1>5, <1>6, <1>9, <1>10, <1>11, <1>12

-----------------------------------------------------------------------------
(* The invariants                                                            *)

LEMMA TablesKept ==
  ASSUME ServiceInv, UNCHANGED tables PROVE ServiceInv'
<1>1. /\ batches' = batches /\ observations' = observations /\ deviations' = deviations
      /\ reviews' = reviews /\ audit' = audit /\ certificates' = certificates
      /\ idempotency' = idempotency
  BY DEF tables
<1>2. TablesTyped'
  BY <1>1 DEF ServiceInv, TablesTyped
<1>3. TrailInv'
  BY <1>1 DEF ServiceInv, TrailInv
<1>4. CopiesMirrorBatches'
  BY <1>1 DEF ServiceInv, CopiesMirrorBatches
<1>5. CertificateInv'
  BY <1>1 DEF ServiceInv, CertificateInv
<1>6. AnswerInv'
  BY <1>1 DEF ServiceInv, AnswerInv, AnswerTold
<1> QED
  BY <1>2, <1>3, <1>4, <1>5, <1>6 DEF ServiceInv

\* Init, the requests and the steps that send none keep both invariants.
LEMMA Starts == Init => ServiceInv /\ ReplyTyped
<1> SUFFICES ASSUME Init PROVE ServiceInv /\ ReplyTyped
  OBVIOUS
<1>1. reply.status = 0 /\ reply.code = "ok" /\ reply.replay = FALSE
  BY DEF Init, Success
<1>2. ReplyTyped
  BY <1>1 DEF ReplyTyped
<1> QED
  BY <1>2, ServiceStarts DEF Init

\* What one step does: nothing to the tables, or one proper command.
LEMMA StepApplies ==
  ASSUME [Next]_vars
  PROVE  \/ UNCHANGED vars
         \/ ReplyTyped' /\ (UNCHANGED tables \/ \E r \in HttpRequests : \E c : Applied(r, c))
<1>1. CASE Next
  <2>1. PICK r \in HttpRequests : Answered(r)
    BY <1>1, StepAnswers DEF Next
  <2> QED
    BY <2>1 DEF Answered
<1> QED
  BY <1>1

LEMMA StepKeeps == ServiceInv /\ ReplyTyped /\ [Next]_vars => ServiceInv' /\ ReplyTyped'
<1> SUFFICES ASSUME ServiceInv, ReplyTyped, [Next]_vars PROVE ServiceInv' /\ ReplyTyped'
  OBVIOUS
<1>1. CASE UNCHANGED vars
  <2>1. UNCHANGED tables /\ reply' = reply
    BY <1>1 DEF vars
  <2> QED
    BY <2>1, TablesKept DEF ReplyTyped
<1>2. CASE ReplyTyped' /\ UNCHANGED tables
  BY <1>2, TablesKept
<1>3. ASSUME NEW r \in HttpRequests, NEW c, Applied(r, c)
      PROVE  ServiceInv'
  BY <1>3, CommandFits, AcceptKeeps DEF Applied
<1> QED
  BY <1>1, <1>2, <1>3, StepApplies

LEMMA ServiceInvariant == Spec => [](ServiceInv /\ ReplyTyped)
BY Starts, StepKeeps, PTL DEF Spec

\* Whatever clients send, the tables hold what their columns are for, and an answer has
\* a status of its own kind (commandMeta and the handlers in front of the service).
THEOREM ServiceTypes == Spec => []TypeOK
<1>1. ServiceInv /\ ReplyTyped => TypeOK
  <2> SUFFICES ASSUME ServiceInv, ReplyTyped PROVE TypeOK
    OBVIOUS
  <2> USE DEF ServiceInv
  <2>1. /\ DOMAIN batches \subseteq BatchIds /\ DOMAIN reviews \subseteq DOMAIN batches
        /\ DOMAIN idempotency \subseteq RequestIds /\ audit \in [BatchIds -> Seq(Events)]
    BY DEF TablesTyped
  <2>2. DOMAIN certificates \subseteq DOMAIN batches
    BY DEF TablesTyped, CertificateInv
  <2>3. ASSUME NEW id \in DOMAIN batches
        PROVE  AggregateTyped(batches[id])
    BY <2>3 DEF TablesTyped, AggregateInv
  <2>4. ASSUME NEW id \in DOMAIN batches
        PROVE  /\ batches[id].status \in Statuses /\ batches[id].revision \in Nat \ {0}
               /\ Participants(batches[id]) \subseteq Owners
    BY <2>3, <2>4, NamesAssumption DEF AggregateTyped, Participants
  <2>5. ASSUME NEW id \in DOMAIN batches, NEW i \in DOMAIN batches[id].observations
        PROVE  ObservationRow(id, batches[id].observations[i]) \in
                 [batch : BatchIds, sequenceNo : Nat \ {0}, id : ObservationIds, capturedAt : Nat]
    <3>1. batches[id].observations[i] \in ObservationRecords
      BY <2>3, <2>5 DEF AggregateTyped
    <3> QED
      BY <2>1, <2>5, <3>1 DEF ObservationRow, ObservationRecords
  <2>6. observations \subseteq
          [batch : BatchIds, sequenceNo : Nat \ {0}, id : ObservationIds, capturedAt : Nat]
    BY <2>5 DEF CopiesMirrorBatches
  <2>7. DOMAIN deviations \subseteq DeviationIds
    <3>1. ASSUME NEW x \in DOMAIN deviations
          PROVE  x \in DeviationIds
      BY <2>3, <3>1 DEF CopiesMirrorBatches, AggregateTyped
    <3> QED
      BY <3>1
  <2> QED
    BY <2>1, <2>2, <2>4, <2>6, <2>7 DEF TypeOK, ReplyTyped
<1> QED
  BY <1>1, ServiceInvariant, PTL

\* The rows of observations, deviations and reviews agree with the aggregates after
\* every command (the ON CONFLICT clauses of syncChildrenTx, sqlite.go:126).
THEOREM CopiesAgree == Spec => []CopiesMirrorBatches
<1>1. ServiceInv => CopiesMirrorBatches
  BY DEF ServiceInv
<1> QED
  BY <1>1, ServiceInvariant, PTL

\* A batch is approved exactly when it has a certificate, and that certificate verifies
\* and tells the record for ever (review.go:17-34, Mutate).
THEOREM CertificatesTellTheRecord == Spec => []CertificateTellsTheRecord
BY CertificatesAreTrue, ServiceInvariant, PTL

\* What a stored response says of a batch is what the trail up to its revision says
\* (create.go, observation.go, recovery.go, review.go).
THEOREM AnswersAreTheTrail == Spec => []AnswersTellTheTrail
BY AnswersAreTold, ServiceInvariant, PTL

-----------------------------------------------------------------------------
(* The ledger                                                                *)

LEMMA InitIsLedger == Init => Books!Init
BY DEF Init, ServiceInit, NoRows, Books!Init

\* The revision a command was prepared for is that of the trail, and the kind that the
\* Ledger sees tells a creation and a decision.
LEMMA KindOfCommand ==
  ASSUME ServiceInv, NEW c, CommandTyped(c), c.op \in Ops, Verdict(c) = "accepted", Accept(c)
  PROVE  /\ c.request \notin DOMAIN idempotency
         /\ c.op = "create"  => c.expected = 0 /\ c.batch \notin DOMAIN batches
         /\ c.op # "create"  => /\ c.batch \in DOMAIN batches
                               /\ batches[c.batch].revision = c.expected
         /\ c.op = "review" => c.input.decision \in {"approve", "reject"}
<1>1. c.request \notin DOMAIN idempotency /\ OperationVerdict(c) = "accepted"
  BY DEF Verdict
<1>2. CASE c.op = "create"
  BY <1>1, <1>2 DEF OperationVerdict, CreateVerdict
<1>3. CASE c.op # "create"
  <2>1. /\ c.batch \in DOMAIN batches /\ batches[c.batch].revision = c.expected
        /\ MutateVerdict(batches[c.batch], c) = "accepted"
    BY <1>1, <1>3 DEF OperationVerdict
  <2>2. CASE c.op = "review"
    <3>1. ReviewVerdict(batches[c.batch], c) = "accepted"
      BY <2>1, <2>2 DEF MutateVerdict
    <3>2. CanDecideReview(batches[c.batch], Reviewed(c, batches[c.batch]))
      BY <3>1 DEF ReviewVerdict
    <3> QED
      BY <1>1, <1>3, <2>1, <3>2 DEF CanDecideReview, Reviewed
  <2> QED
    BY <1>1, <1>3, <2>1, <2>2
<1> QED
  BY <1>2, <1>3

\* The count of a batch is the length of its trail.
RevisionOf(id) == IF id \in DOMAIN batches THEN batches[id].revision ELSE 0

Applications ==
  [r \in RequestIds |->
     IF r \notin DOMAIN idempotency THEN Nil
     ELSE [command  |-> Entry(idempotency[r].command),
           response |-> idempotency[r].response.revision]]

SealedBatches == {id \in DOMAIN batches : Terminal(batches[id].status)}

\* The tables after a Commit, as the Ledger sees them.
LEMMA CommitInLedger ==
  ASSUME NEW c, NEW b, NEW event, NEW answer, Commit(c, b, event, answer),
         c.request \in RequestIds, c.batch \in BatchIds, Open(c.batch),
         answer.revision = b.revision
  PROVE  /\ \A id \in BatchIds : RevisionOf(id)' = IF id = c.batch THEN b.revision ELSE RevisionOf(id)
         /\ Applications' = [Applications EXCEPT ![c.request] =
                               [command |-> Entry(c), response |-> b.revision]]
         /\ SealedBatches' = IF Terminal(b.status) THEN SealedBatches \cup {c.batch}
                             ELSE SealedBatches
<1>1. batches' = Put(batches, c.batch, b)
      /\ idempotency' = Put(idempotency, c.request, [command |-> c, response |-> answer])
  BY DEF Commit
<1>2. /\ DOMAIN batches' = DOMAIN batches \cup {c.batch} /\ batches'[c.batch] = b
      /\ \A id \in DOMAIN batches : id # c.batch => batches'[id] = batches[id]
  BY <1>1 DEF Put
<1>3. /\ DOMAIN idempotency' = DOMAIN idempotency \cup {c.request}
      /\ idempotency'[c.request] = [command |-> c, response |-> answer]
      /\ \A r \in DOMAIN idempotency : r # c.request => idempotency'[r] = idempotency[r]
  BY <1>1 DEF Put
<1>4. \A id \in BatchIds : RevisionOf(id)' = IF id = c.batch THEN b.revision ELSE RevisionOf(id)
  BY <1>2 DEF RevisionOf
<1>5. Applications' = [Applications EXCEPT ![c.request] =
                         [command |-> Entry(c), response |-> b.revision]]
  <2>1. /\ idempotency'[c.request].command = c
        /\ idempotency'[c.request].response.revision = b.revision
    BY <1>3
  <2> QED
    BY <1>3, <2>1 DEF Applications
<1>6. SealedBatches' = IF Terminal(b.status) THEN SealedBatches \cup {c.batch} ELSE SealedBatches
  BY <1>2 DEF SealedBatches, Open
<1> QED
  BY <1>4, <1>5, <1>6

\* An accepted command takes effect in the Ledger.
LEMMA EffectInLedger ==
  ASSUME ServiceInv, NEW r \in HttpRequests, NEW c, Applied(r, c)
  PROVE  Entry(c) \in Entries /\ Books!TakeEffect(Entry(c))
<1>1. CommandTyped(c) /\ c.op \in Ops
  BY CommandFits DEF Applied
<1>2. PICK b, event, answer : Proper(c, b, event, answer)
  BY <1>1, AcceptProper DEF Applied
<1>3. c.request \in RequestIds /\ c.batch \in BatchIds
  BY <1>1 DEF CommandTyped
<1>4. /\ c.request \notin DOMAIN idempotency
      /\ c.op = "create"  => c.expected = 0 /\ c.batch \notin DOMAIN batches
      /\ c.op # "create"  => c.batch \in DOMAIN batches /\ batches[c.batch].revision = c.expected
      /\ c.op = "review" => c.input.decision \in {"approve", "reject"}
  BY <1>1, KindOfCommand DEF Applied
<1>5. RevisionOf(c.batch) = c.expected /\ (c.op = "create" <=> c.expected = 0)
  <2>1. c.op # "create" => c.expected \in Nat \ {0}
    BY <1>4 DEF ServiceInv, TablesTyped, AggregateInv, AggregateTyped
  <2> QED
    BY <1>4, <2>1 DEF RevisionOf
<1>6. b.revision = c.expected + 1
  <2>1. Len(audit[c.batch]) = RevisionOf(c.batch)
    BY <1>3 DEF ServiceInv, TrailInv, RevisionOf
  <2> QED
    BY <1>2, <1>5, <2>1 DEF Proper
<1>7. answer.revision = b.revision
  BY <1>2 DEF Proper, Answers
<1>8. PICK x : x = Entry(c)
  OBVIOUS
<1>9. /\ x.request = c.request /\ x.batch = c.batch /\ x.expected = c.expected
      /\ x.kind = IF c.op = "create" THEN "create"
                  ELSE IF c.op = "review" THEN c.input.decision ELSE "change"
  BY <1>8 DEF Entry
<1>10. /\ x.kind = "create" <=> c.op = "create"
       /\ x.kind \in {"approve", "reject"} <=> Terminal(b.status)
  BY <1>2, <1>4, <1>9 DEF Proper
<1>11. /\ \A id \in BatchIds : RevisionOf(id)' = IF id = c.batch THEN b.revision ELSE RevisionOf(id)
       /\ Applications' = [Applications EXCEPT ![c.request] = [command |-> x, response |-> b.revision]]
       /\ SealedBatches' = IF Terminal(b.status) THEN SealedBatches \cup {c.batch}
                           ELSE SealedBatches
  BY <1>2, <1>3, <1>7, <1>8, CommitInLedger DEF Proper
<1>12. c.batch \notin SealedBatches /\ Applications[c.request] = Nil
  BY <1>2, <1>3, <1>4 DEF Proper, Open, SealedBatches, Applications
<1>13. [id \in BatchIds |-> RevisionOf(id)]' =
         [[id \in BatchIds |-> RevisionOf(id)] EXCEPT ![c.batch] = c.expected + 1]
  BY <1>3, <1>6, <1>11
<1>14. Books!TakeEffect(x)
  BY <1>3, <1>5, <1>6, <1>9, <1>10, <1>11, <1>12, <1>13
     DEF Books!TakeEffect, RevisionOf, Applications, SealedBatches
<1>15. x \in Entries
  BY <1>3, <1>8 DEF Applied, Entries, Command
<1> QED
  BY <1>8, <1>14, <1>15

LEMMA StepInLedger == ServiceInv /\ [Next]_vars => [Books!Next]_(Books!vars)
<1> SUFFICES ASSUME ServiceInv, [Next]_vars PROVE [Books!Next]_(Books!vars)
  OBVIOUS
<1>1. CASE UNCHANGED tables
  BY <1>1 DEF tables, Books!vars
<1>2. ASSUME NEW r \in HttpRequests, NEW c, Applied(r, c)
      PROVE  Books!Next
  BY <1>2, EffectInLedger DEF Books!Next
<1> QED
  BY <1>1, <1>2, StepApplies DEF vars

\* Whatever clients send, the tables change as the Ledger does: a request id takes effect
\* once, at the revision it was meant for, and never on a sealed batch (execute, Create,
\* Mutate and ensureMutable).
THEOREM ServiceIsLedger == Spec => ServiceImplementsLedger
BY Starts, InitIsLedger, StepInLedger, ServiceInvariant, PTL
   DEF Spec, ServiceImplementsLedger, Books!Spec

-----------------------------------------------------------------------------
(* One batch: an operation does the same to an aggregate and to what          *)
(* BatchLifecycle keeps of it                                                *)

LivedReview(r) ==
  IF r = Nil THEN Nil
  ELSE [reviewer |-> r.reviewer, decision |-> r.decision, checksPassed |-> r.checksPassed]

\* An aggregate from its fields.
Aggregate(status, revision, createdBy, protocol, observed, deviated, review, baseline,
          observers, correctors) ==
  [status |-> status, revision |-> revision, createdBy |-> createdBy, protocol |-> protocol,
   observations |-> observed, deviations |-> deviated, review |-> review,
   baseline |-> baseline, observers |-> observers, correctors |-> correctors]

LEMMA LivedFields ==
  ASSUME NEW b, IsAggregate(b), NEW s, s = Lived(b)
  PROVE  /\ IsAggregate(s)
         /\ s.status = b.status /\ s.revision = b.revision /\ s.createdBy = b.createdBy
         /\ s.protocol = b.protocol /\ s.observations = b.observations
         /\ s.deviations = b.deviations /\ s.review = LivedReview(b.review)
         /\ s.baseline = b.baseline /\ s.observers = b.observers /\ s.correctors = b.correctors
<1>1. s = [status |-> b.status, revision |-> b.revision, createdBy |-> b.createdBy,
           protocol |-> b.protocol, observations |-> b.observations,
           deviations |-> b.deviations, review |-> LivedReview(b.review),
           baseline |-> b.baseline, observers |-> b.observers, correctors |-> b.correctors]
  BY DEF IsAggregate, Lived, LivedReview
<1> QED
  BY <1>1 DEF IsAggregate

LEMMA LivedAggregate ==
  ASSUME NEW c, NEW a1, NEW a2, NEW a3, NEW a4, NEW a5, NEW a6, NEW r, NEW a8, NEW a9, NEW a10,
         c = Aggregate(a1, a2, a3, a4, a5, a6, r, a8, a9, a10)
  PROVE  Lived(c) = Aggregate(a1, a2, a3, a4, a5, a6, LivedReview(r), a8, a9, a10)
  BY DEF Aggregate, Lived, LivedReview

\* The five operations do to a batch as BatchLifecycle keeps it what they do to the batch.
LEMMA FreezeLived ==
  ASSUME NEW b, IsAggregate(b), NEW p, NEW actor
  PROVE  Lived(FreezeProtocol(b, p, actor)) = Life!FreezeProtocol(Lived(b), p, actor)
<1>1. PICK s : s = Lived(b)
  OBVIOUS
<1>2. PICK c : c = FreezeProtocol(b, p, actor)
  OBVIOUS
<1>3. PICK d : d = FreezeProtocol(s, p, actor)
  OBVIOUS
<1>4. c = Aggregate("monitoring", b.revision + 1, b.createdBy, p, b.observations, b.deviations,
                    b.review, b.baseline \cup {actor}, b.observers, b.correctors)
  BY <1>2, FreezeFields DEF Aggregate
<1>5. d = Aggregate("monitoring", s.revision + 1, s.createdBy, p, s.observations, s.deviations,
                    s.review, s.baseline \cup {actor}, s.observers, s.correctors)
  BY <1>1, <1>3, LivedFields, FreezeFields DEF Aggregate
<1>7. /\ s.status = b.status /\ s.revision = b.revision /\ s.createdBy = b.createdBy
         /\ s.protocol = b.protocol /\ s.observations = b.observations
         /\ s.deviations = b.deviations /\ s.review = LivedReview(b.review)
         /\ s.baseline = b.baseline /\ s.observers = b.observers /\ s.correctors = b.correctors
  BY <1>1, LivedFields
<1>8. Lived(c) = Aggregate("monitoring", b.revision + 1, b.createdBy, p, b.observations, b.deviations,
                    LivedReview(b.review), b.baseline \cup {actor}, b.observers, b.correctors)
  BY <1>4, LivedAggregate
<1>6. Lived(c) = d
  BY <1>5, <1>7, <1>8
<1> QED
  BY <1>1, <1>2, <1>3, <1>6 DEF Life!FreezeProtocol, FreezeProtocol

LEMMA CorrectLived ==
  ASSUME NEW b, IsAggregate(b), NEW x, NEW owner
  PROVE  Lived(RegisterCorrection(b, x, owner)) = Life!RegisterCorrection(Lived(b), x, owner)
<1> DEFINE after(ds) == [ds EXCEPT ![x] = [@ EXCEPT !.status = "corrected", !.owner = TrimSpace[owner]]]
<1>1. PICK s : s = Lived(b)
  OBVIOUS
<1>2. PICK c : c = RegisterCorrection(b, x, owner)
  OBVIOUS
<1>3. PICK d : d = RegisterCorrection(s, x, owner)
  OBVIOUS
<1>4. c = Aggregate(b.status, b.revision + 1, b.createdBy, b.protocol, b.observations,
                    after(b.deviations), b.review, b.baseline, b.observers, b.correctors \cup {owner})
  BY <1>2 DEF IsAggregate, RegisterCorrection, Aggregate
<1>5. IsAggregate(s)
  BY <1>1, LivedFields
<1>6. d = Aggregate(s.status, s.revision + 1, s.createdBy, s.protocol, s.observations,
                    after(s.deviations), s.review, s.baseline, s.observers, s.correctors \cup {owner})
  BY <1>3, <1>5 DEF IsAggregate, RegisterCorrection, Aggregate
<1> HIDE DEF after
<1>7. /\ s.status = b.status /\ s.revision = b.revision /\ s.createdBy = b.createdBy
      /\ s.protocol = b.protocol /\ s.observations = b.observations
      /\ s.deviations = b.deviations /\ s.review = LivedReview(b.review)
      /\ s.baseline = b.baseline /\ s.observers = b.observers /\ s.correctors = b.correctors
  BY <1>1, LivedFields
<1>8. Lived(c) =
        Aggregate(b.status, b.revision + 1, b.createdBy, b.protocol, b.observations,
                  after(b.deviations), LivedReview(b.review), b.baseline, b.observers,
                  b.correctors \cup {owner})
  BY <1>4, LivedAggregate
<1>9. Lived(c) = d
  BY <1>6, <1>7, <1>8
<1> QED
  BY <1>1, <1>2, <1>3, <1>9 DEF Life!RegisterCorrection, RegisterCorrection

LEMMA RecoverLived ==
  ASSUME NEW b, IsAggregate(b), NEW actor
  PROVE  Lived(ApproveRecovery(b, actor)) = Life!ApproveRecovery(Lived(b), actor)
<1> DEFINE started(ds) == [x \in DOMAIN ds |-> StartRecovery(ds[x])]
<1>1. PICK s : s = Lived(b)
  OBVIOUS
<1>2. PICK c : c = ApproveRecovery(b, actor)
  OBVIOUS
<1>3. PICK d : d = ApproveRecovery(s, actor)
  OBVIOUS
<1>4. c = Aggregate("recovering", b.revision + 1, b.createdBy, b.protocol, b.observations,
                    started(b.deviations), b.review, b.baseline, b.observers,
                    b.correctors \cup {actor})
  BY <1>2, RecoverFields DEF Aggregate
<1>5. IsAggregate(s)
  BY <1>1, LivedFields
<1>6. d = Aggregate("recovering", s.revision + 1, s.createdBy, s.protocol, s.observations,
                    started(s.deviations), s.review, s.baseline, s.observers,
                    s.correctors \cup {actor})
  BY <1>3, <1>5, RecoverFields DEF Aggregate
<1> HIDE DEF started
<1>7. /\ s.revision = b.revision /\ s.createdBy = b.createdBy
      /\ s.protocol = b.protocol /\ s.observations = b.observations
      /\ s.deviations = b.deviations /\ s.review = LivedReview(b.review)
      /\ s.baseline = b.baseline /\ s.observers = b.observers /\ s.correctors = b.correctors
  BY <1>1, LivedFields
<1>8. Lived(c) =
        Aggregate("recovering", b.revision + 1, b.createdBy, b.protocol, b.observations,
                  started(b.deviations), LivedReview(b.review), b.baseline, b.observers,
                  b.correctors \cup {actor})
  BY <1>4, LivedAggregate
<1>9. Lived(c) = d
  BY <1>6, <1>7, <1>8
<1> QED
  BY <1>1, <1>2, <1>3, <1>9
     DEF Life!ApproveRecovery, ApproveRecovery, Life!StartRecovery, StartRecovery

LEMMA ReviewLived ==
  ASSUME NEW b, IsAggregate(b), NEW r, r # Nil
  PROVE  Lived(DecideReview(b, r)) = Life!DecideReview(Lived(b), LivedReview(r))
<1> DEFINE sealed == IF r.decision = "approve" THEN "approved_sealed" ELSE "rejected_sealed"
<1>1. PICK s : s = Lived(b)
  OBVIOUS
<1>2. PICK c : c = DecideReview(b, r)
  OBVIOUS
<1>3. PICK q : q = LivedReview(r)
  OBVIOUS
<1>4. PICK d : d = DecideReview(s, q)
  OBVIOUS
<1>5. c = Aggregate(sealed, b.revision + 1, b.createdBy, b.protocol, b.observations,
                    b.deviations, r, b.baseline, b.observers, b.correctors)
  BY <1>2, ReviewFields DEF Aggregate
<1>6. IsAggregate(s) /\ q.decision = r.decision
  BY <1>1, <1>3, LivedFields DEF LivedReview
<1>7. d = Aggregate(IF q.decision = "approve" THEN "approved_sealed" ELSE "rejected_sealed",
                    s.revision + 1, s.createdBy, s.protocol, s.observations,
                    s.deviations, q, s.baseline, s.observers, s.correctors)
  BY <1>4, <1>6, ReviewFields DEF Aggregate
<1> HIDE DEF sealed
<1>8. /\ s.revision = b.revision /\ s.createdBy = b.createdBy
      /\ s.protocol = b.protocol /\ s.observations = b.observations
      /\ s.deviations = b.deviations
      /\ s.baseline = b.baseline /\ s.observers = b.observers /\ s.correctors = b.correctors
  BY <1>1, LivedFields
<1>9. Lived(c) =
        Aggregate(sealed, b.revision + 1, b.createdBy, b.protocol, b.observations,
                  b.deviations, LivedReview(r), b.baseline, b.observers, b.correctors)
  BY <1>5, LivedAggregate
<1>10. Lived(c) = d
  BY <1>3, <1>6, <1>7, <1>8, <1>9 DEF sealed
<1> QED
  BY <1>1, <1>2, <1>3, <1>4, <1>10 DEF Life!DecideReview, DecideReview

LEMMA AddedAlike == \A b, o, a : Life!AddObservation(b, o, a) = AddObservation(b, o, a)
  BY DEF Life!AddObservation, AddObservation, Life!EvaluateObservation, EvaluateObservation,
         Life!Recorded, Recorded, Life!UTC, UTC, Life!Distance, Distance,
         Life!RuleCodes, RuleCodes, Life!LastObservation, LastObservation,
         Life!CountQualified, CountQualified, Life!AppendUnique, AppendUnique,
         Life!RaiseDeviations, RaiseDeviations, Life!ResetRecovery, ResetRecovery,
         Life!OpenDeviation, OpenDeviation

LEMMA ObserveLived ==
  ASSUME NEW b, IsAggregate(b), NEW o, NEW actor
  PROVE  Lived(AddObservation(b, o, actor)) = Life!AddObservation(Lived(b), o, actor)
<1> DEFINE longer(a) == Append(a.observations, Recorded(o, Codes(a, o)))
<1>1. PICK s : s = Lived(b)
  OBVIOUS
<1>2. PICK c : c = AddObservation(b, o, actor)
  OBVIOUS
<1>3. PICK d : d = AddObservation(s, o, actor)
  OBVIOUS
<1>4. c = Aggregate(ObservedStatus(b, o), b.revision + 1, b.createdBy, b.protocol, longer(b),
                    ObservedDeviations(b, o), b.review, b.baseline, b.observers \cup {actor},
                    b.correctors)
  BY <1>2, ObserveFields DEF Aggregate
<1>5. IsAggregate(s)
  BY <1>1, LivedFields
<1>6. d = Aggregate(ObservedStatus(s, o), s.revision + 1, s.createdBy, s.protocol, longer(s),
                    ObservedDeviations(s, o), s.review, s.baseline, s.observers \cup {actor},
                    s.correctors)
  BY <1>3, <1>5, ObserveFields DEF Aggregate
<1>7. /\ s.status = b.status /\ s.revision = b.revision /\ s.createdBy = b.createdBy
      /\ s.protocol = b.protocol /\ s.observations = b.observations
      /\ s.deviations = b.deviations /\ s.review = LivedReview(b.review)
      /\ s.baseline = b.baseline /\ s.observers = b.observers /\ s.correctors = b.correctors
  BY <1>1, LivedFields
<1>8. Codes(s, o) = Codes(b, o)
  BY <1>7 DEF Codes, LastObservation
<1>9. /\ Counted(s, o) = Counted(b, o)
      /\ RaiseDeviations(s, o, Codes(s, o)) = RaiseDeviations(b, o, Codes(b, o))
  BY <1>7, <1>8 DEF Counted, RaiseDeviations
<1>10. /\ ObservedStatus(s, o) = ObservedStatus(b, o) /\ longer(s) = longer(b)
       /\ ObservedDeviations(s, o) = ObservedDeviations(b, o)
  BY <1>7, <1>8, <1>9 DEF ObservedStatus, ObservedDeviations
<1>11. PICK status, os, ds :
         status = ObservedStatus(b, o) /\ os = longer(b) /\ ds = ObservedDeviations(b, o)
  OBVIOUS
<1>12. d = Aggregate(status, s.revision + 1, s.createdBy, s.protocol, os, ds, s.review,
                     s.baseline, s.observers \cup {actor}, s.correctors)
  BY <1>6, <1>10, <1>11
<1>13. Lived(c) =
         Aggregate(status, b.revision + 1, b.createdBy, b.protocol, os, ds,
                   LivedReview(b.review), b.baseline, b.observers \cup {actor}, b.correctors)
  BY <1>4, <1>11, LivedAggregate
<1>14. Lived(c) = d
  BY <1>7, <1>12, <1>13
<1> QED
  BY <1>1, <1>2, <1>3, <1>14, AddedAlike

-----------------------------------------------------------------------------
(* One batch: a command is a step of it, or has nothing to do with it        *)

\* The rows of other batches are other rows.
LEMMA FocusKept ==
  ASSUME ServiceInv, NEW c, NEW b, NEW event, NEW answer, Commit(c, b, event, answer),
         c.batch # Focus
  PROVE  /\ Created' <=> Created
         /\ Created => UNCHANGED Life!vars
<1>1. /\ batches' = Put(batches, c.batch, b)
      /\ audit' = [audit EXCEPT ![c.batch] = Append(@,
                     [type |-> event[1], actor |-> c.actor, revision |-> b.revision,
                      payload |-> event[2]])]
  BY DEF Commit
<1>2. audit'[Focus] = audit[Focus]
  BY <1>1, FocusAssumption DEF ServiceInv, TablesTyped
<1>3. (Created' <=> Created) /\ (Created => batches'[Focus] = batches[Focus])
  BY <1>1 DEF Created, Put
<1> QED
  BY <1>2, <1>3 DEF Life!vars, batch, trail

\* A command on the batch writes its aggregate and adds its event.
LEMMA FocusWritten ==
  ASSUME ServiceInv, NEW c, NEW b, NEW event, NEW answer, Commit(c, b, event, answer),
         c.batch = Focus
  PROVE  Created' /\ batch' = Lived(b) /\ trail' = trail \cup {<<event[1], c.actor>>}
<1>1. PICK e : e = [type |-> event[1], actor |-> c.actor, revision |-> b.revision,
                    payload |-> event[2]]
  OBVIOUS
<1>2. batches' = Put(batches, c.batch, b) /\ audit' = [audit EXCEPT ![c.batch] = Append(@, e)]
  BY <1>1 DEF Commit
<1>3. Created' /\ batch' = Lived(b)
  BY <1>2 DEF Created, batch, Put
<1>4. PICK es : es = audit[Focus]
  OBVIOUS
<1>5. es \in Seq(Events) /\ audit'[Focus] = Append(es, e)
  BY <1>2, <1>4, FocusAssumption DEF ServiceInv, TablesTyped
<1>6. /\ DOMAIN audit'[Focus] = DOMAIN es \cup {Len(es) + 1}
      /\ \A i \in DOMAIN es : audit'[Focus][i] = es[i]
      /\ audit'[Focus][Len(es) + 1] = e
  BY <1>5
<1>7. e.type = event[1] /\ e.actor = c.actor
  BY <1>1
<1>8. trail' = trail \cup {<<event[1], c.actor>>}
  BY <1>4, <1>6, <1>7 DEF trail
<1> QED
  BY <1>3, <1>8

LEMMA FocusFound ==
  ASSUME ServiceInv, Created
  PROVE  AggregateInv(batches[Focus]) /\ IsAggregate(batches[Focus])
  BY DEF ServiceInv, TablesTyped, Created, AggregateInv, AggregateTyped

LEMMA FreezeLives ==
  ASSUME ServiceInv, Created, NEW r \in HttpRequests, NEW c, Applied(r, c), c.batch = Focus,
         FreezeBaseline(c), MutateVerdict(batches[Focus], c) = "accepted", c.actor \in Actors
  PROVE  Created' /\ Life!Next
<1>1. PICK old : old = batches[Focus]
  OBVIOUS
<1>2. PICK b : b = FreezeProtocol(old, c.input, c.actor)
  OBVIOUS
<1>3. IsAggregate(old) /\ batch = Lived(old)
  BY <1>1, FocusFound DEF batch
<1>4. PICK event, answer : Commit(c, b, event, answer) /\ event[1] = "BASELINE_FROZEN"
  BY <1>1, <1>2 DEF FreezeBaseline
<1>5. Created' /\ batch' = Lived(b) /\ trail' = trail \cup {<<"BASELINE_FROZEN", c.actor>>}
  BY <1>4, FocusWritten
<1>6. CanFreezeProtocol(old, c.input)
  BY <1>1 DEF FreezeBaseline, MutateVerdict, FreezeVerdict
<1>7. Life!CanFreezeProtocol(batch, c.input)
  BY <1>3, <1>6, LivedFields
     DEF CanFreezeProtocol, Life!CanFreezeProtocol, ValidProtocol, Life!ValidProtocol,
         Terminal, Life!Terminal
<1>8. batch' = Life!FreezeProtocol(batch, c.input, c.actor)
  BY <1>2, <1>3, <1>5, FreezeLived
<1>9. c.input \in Sent("baseline")
  BY DEF Applied, Command, FreezeBaseline, Sent, Operations
<1> QED
  BY <1>5, <1>7, <1>8, <1>9 DEF Life!Next, Life!Freeze
LEMMA CorrectLives ==
  ASSUME ServiceInv, Created, NEW c, c.batch = Focus, CorrectDeviation(c), CommandTyped(c),
         MutateVerdict(batches[Focus], c) = "accepted"
  PROVE  Created' /\ Life!Next
<1>1. PICK old : old = batches[Focus]
  OBVIOUS
<1>2. PICK x, owner : x = c.input.deviation /\ owner = c.input.owner
  OBVIOUS
<1>3. PICK b : b = RegisterCorrection(old, x, owner)
  OBVIOUS
<1>4. IsAggregate(old) /\ batch = Lived(old)
  BY <1>1, FocusFound DEF batch
<1>5. PICK event, answer : Commit(c, b, event, answer) /\ event[1] = "DEVIATION_CORRECTED"
  BY <1>1, <1>2, <1>3 DEF CorrectDeviation
<1>6. Created' /\ batch' = Lived(b) /\ trail' = trail \cup {<<"DEVIATION_CORRECTED", c.actor>>}
  BY <1>5, FocusWritten
<1>7. CanRegisterCorrection(old, x, owner)
  BY <1>1, <1>2 DEF CorrectDeviation, MutateVerdict, CorrectVerdict
<1>8. Life!CanRegisterCorrection(batch, x, owner) /\ x \in DOMAIN batch.deviations
  BY <1>4, <1>7, LivedFields
     DEF CanRegisterCorrection, Life!CanRegisterCorrection, Terminal, Life!Terminal
<1>9. batch' = Life!RegisterCorrection(batch, x, owner)
  BY <1>3, <1>4, <1>6, CorrectLived
<1>10. c.actor \in Actors /\ owner \in Owners
  BY <1>2 DEF CorrectDeviation, CommandTyped, InputTyped
<1> QED
  BY <1>6, <1>8, <1>9, <1>10 DEF Life!Next, Life!CorrectDeviation

LEMMA RecoverLives ==
  ASSUME ServiceInv, Created, NEW c, c.batch = Focus, StartRecovering(c), c.actor \in Actors,
         MutateVerdict(batches[Focus], c) = "accepted"
  PROVE  Created' /\ Life!Next
<1>1. PICK old : old = batches[Focus]
  OBVIOUS
<1>2. PICK b : b = ApproveRecovery(old, c.actor)
  OBVIOUS
<1>3. IsAggregate(old) /\ batch = Lived(old)
  BY <1>1, FocusFound DEF batch
<1>4. PICK event, answer : Commit(c, b, event, answer) /\ event[1] = "RECOVERY_APPROVED"
  BY <1>1, <1>2 DEF StartRecovering
<1>5. Created' /\ batch' = Lived(b) /\ trail' = trail \cup {<<"RECOVERY_APPROVED", c.actor>>}
  BY <1>4, FocusWritten
<1>6. CanApproveRecovery(old)
  BY <1>1 DEF StartRecovering, MutateVerdict, RecoverVerdict
<1>7. Life!CanApproveRecovery(batch)
  BY <1>3, <1>6, LivedFields
     DEF CanApproveRecovery, Life!CanApproveRecovery, Terminal, Life!Terminal
<1>8. batch' = Life!ApproveRecovery(batch, c.actor)
  BY <1>2, <1>3, <1>5, RecoverLived
<1> QED
  BY <1>5, <1>7, <1>8 DEF Life!Next, Life!Recover

LEMMA ReviewLives ==
  ASSUME ServiceInv, Created, NEW c, c.batch = Focus, DecideOnReview(c), CommandTyped(c),
         MutateVerdict(batches[Focus], c) = "accepted"
  PROVE  Created' /\ Life!Next
<1>1. PICK old : old = batches[Focus]
  OBVIOUS
<1>2. PICK full : full = Reviewed(c, old)
  OBVIOUS
<1>3. PICK b : b = DecideReview(old, full)
  OBVIOUS
<1>4. IsAggregate(old) /\ batch = Lived(old) /\ audit[Focus] \in Seq(Events)
  BY <1>1, FocusFound, FocusAssumption DEF batch, ServiceInv, TablesTyped
<1>5. PICK event, answer : Commit(c, b, event, answer) /\ event[1] = "REVIEW_DECIDED"
  BY <1>1, <1>2, <1>3 DEF DecideOnReview
<1>6. Created' /\ batch' = Lived(b) /\ trail' = trail \cup {<<"REVIEW_DECIDED", c.actor>>}
  BY <1>5, FocusWritten
<1>7. CanDecideReview(old, full)
  BY <1>1, <1>2 DEF DecideOnReview, MutateVerdict, ReviewVerdict
<1>8. /\ full = [id |-> c.input.id, reviewer |-> c.actor, decision |-> c.input.decision,
                 checksPassed |-> c.input.checksPassed, evidenceRoot |-> audit[Focus]]
      /\ c.input.id \in ReviewIds /\ c.input.checksPassed \in BOOLEAN /\ c.actor \in Actors
  BY <1>2 DEF Reviewed, DecideOnReview, CommandTyped, InputTyped
<1>9. c.input.decision \in {"approve", "reject"}
  BY <1>7, <1>8 DEF CanDecideReview
<1>10. full # Nil
  BY <1>4, <1>8, <1>9, RowsAssumption DEF Reviews
<1>11. PICK seen : seen = [reviewer |-> c.actor, decision |-> c.input.decision,
                           checksPassed |-> c.input.checksPassed]
  OBVIOUS
<1>12. seen = LivedReview(full)
  BY <1>8, <1>10, <1>11 DEF LivedReview
<1>13. batch' = Life!DecideReview(batch, seen)
  BY <1>3, <1>4, <1>6, <1>10, <1>12, ReviewLived
<1>14. Life!CanDecideReview(batch, seen)
  <2>1. /\ seen.decision = full.decision /\ seen.reviewer = full.reviewer
        /\ seen.checksPassed = full.checksPassed
    BY <1>8, <1>11
  <2> QED
    BY <1>4, <1>7, <2>1, LivedFields
       DEF CanDecideReview, Life!CanDecideReview, Terminal, Life!Terminal,
           Participants, Life!Participants
<1> QED
  BY <1>6, <1>8, <1>9, <1>11, <1>13, <1>14 DEF Life!Next, Life!Review

LEMMA ObserveLives ==
  ASSUME ServiceInv, Created, NEW r \in HttpRequests, NEW c, Applied(r, c), c.batch = Focus,
         SubmitObservation(c), CommandTyped(c), MutateVerdict(batches[Focus], c) = "accepted"
  PROVE  Created' /\ Life!Next
<1>1. PICK old : old = batches[Focus]
  OBVIOUS
<1>2. PICK o : o = c.input
  OBVIOUS
<1>3. PICK b : b = AddObservation(old, o, c.actor)
  OBVIOUS
<1>4. IsAggregate(old) /\ batch = Lived(old)
  BY <1>1, FocusFound DEF batch
<1>5. PICK event, answer : Commit(c, b, event, answer) /\ event[1] = "OBSERVATION_RECORDED"
  BY <1>1, <1>2, <1>3 DEF SubmitObservation
<1>6. Created' /\ batch' = Lived(b) /\ trail' = trail \cup {<<"OBSERVATION_RECORDED", c.actor>>}
  BY <1>5, FocusWritten
<1>7. CanAddObservation(old, o) /\ ~ObservationIdUsed(o)
  BY <1>1, <1>2 DEF SubmitObservation, MutateVerdict, ObserveVerdict
<1>8. Life!CanAddObservation(batch, o)
  BY <1>4, <1>7, LivedFields
     DEF CanAddObservation, Life!CanAddObservation, Terminal, Life!Terminal,
         ValidShape, Life!ValidShape, LastObservation, Life!LastObservation
<1>9. batch' = Life!AddObservation(batch, o, c.actor)
  BY <1>3, <1>4, <1>6, ObserveLived
<1>10. o.id \notin Life!UsedIds
  <2>1. SUFFICES ASSUME NEW i \in DOMAIN old.observations, old.observations[i].id = o.id
                 PROVE  FALSE
    BY <1>4, LivedFields DEF Life!UsedIds
  <2>2. ObservationRow(Focus, old.observations[i]) \in observations
    BY <1>1 DEF ServiceInv, CopiesMirrorBatches, Created
  <2>3. ObservationRow(Focus, old.observations[i]).id = o.id
    BY <2>1 DEF ObservationRow
  <2> QED
    BY <1>7, <2>2, <2>3 DEF ObservationIdUsed
<1>11. PICK stamp, reading :
         /\ stamp = [id |-> o.id, sequenceNo |-> o.sequenceNo, capturedAt |-> o.capturedAt]
         /\ reading = [concentration |-> o.concentration, temperature |-> o.temperature,
                       mass |-> o.mass]
  OBVIOUS
<1>12. Life!ProcessObservation(stamp, reading) = o
  <2>1. o \in [id : ObservationIds, sequenceNo : Int, capturedAt : Nat,
               concentration : Int, temperature : Int, mass : Int]
    BY <1>2 DEF CommandTyped, SubmitObservation, InputTyped
  <2> QED
    BY <1>11, <2>1 DEF Life!ProcessObservation
<1>13. o \in Sent("observations")
  BY <1>2 DEF Applied, Command, SubmitObservation, Sent, Operations
<1>14. stamp \in Stamps /\ reading \in Readings
  BY <1>11, <1>13 DEF Stamps, Readings
<1>15. c.actor \in Actors
  BY DEF CommandTyped
<1>16. Life!SubmitObservation(c.actor, stamp, reading)
  BY <1>6, <1>8, <1>9, <1>10, <1>12 DEF Life!SubmitObservation
<1> QED
  BY <1>6, <1>14, <1>15, <1>16 DEF Life!Next

LEMMA CreateLives ==
  ASSUME ServiceInv, ~Created, NEW c, c.batch = Focus, CreateBatch(c), c.actor \in Actors
  PROVE  Life!Init'
<1>1. PICK b : b = NewTreatmentBatch(c.actor)
  OBVIOUS
<1>2. PICK event, answer : Commit(c, b, event, answer) /\ event[1] = "BATCH_CREATED"
  BY <1>1 DEF CreateBatch
<1>3. batch' = Lived(b) /\ trail' = trail \cup {<<"BATCH_CREATED", c.actor>>}
  BY <1>2, FocusWritten
<1>4. Lived(b) = Life!NewTreatmentBatch(c.actor)
  BY <1>1 DEF NewTreatmentBatch, Life!NewTreatmentBatch, Lived
<1>5. trail = {}
  <2>1. audit[Focus] = <<>>
    BY FocusAssumption DEF Created, ServiceInv, TrailInv
  <2> QED
    BY <2>1 DEF trail
<1> QED
  BY <1>3, <1>4, <1>5 DEF Life!Init

LEMMA StepLives ==
  ServiceInv /\ [Next]_vars =>
    IF Created THEN Created' /\ (UNCHANGED Life!vars \/ Life!Next) ELSE Created' => Life!Init'
<1> SUFFICES ASSUME ServiceInv, [Next]_vars
             PROVE  IF Created THEN Created' /\ (UNCHANGED Life!vars \/ Life!Next)
                    ELSE Created' => Life!Init'
  OBVIOUS
<1>1. CASE UNCHANGED tables
  BY <1>1 DEF tables, Created, Life!vars, batch, trail
<1>2. ASSUME NEW r \in HttpRequests, NEW c, Applied(r, c)
      PROVE  IF Created THEN Created' /\ (UNCHANGED Life!vars \/ Life!Next)
             ELSE Created' => Life!Init'
  <2>1. CommandTyped(c) /\ c.op \in Ops /\ Verdict(c) = "accepted" /\ Accept(c)
    BY <1>2, CommandFits DEF Applied
  <2>2. c.actor \in Actors /\ OperationVerdict(c) = "accepted"
    BY <2>1 DEF CommandTyped, Verdict
  <2>3. CASE c.batch # Focus
    <3>1. PICK b, event, answer : Commit(c, b, event, answer)
      BY <2>1, AcceptProper DEF Proper
    <3> QED
      BY <2>3, <3>1, FocusKept
  <2>4. CASE c.batch = Focus /\ c.op = "create"
    <3>1. ~Created /\ CreateBatch(c)
      BY <2>1, <2>2, <2>4
         DEF OperationVerdict, CreateVerdict, Created, Accept, FreezeBaseline,
             SubmitObservation, CorrectDeviation, StartRecovering, DecideOnReview
    <3> QED
      BY <2>2, <2>4, <3>1, CreateLives
  <2>5. CASE c.batch = Focus /\ c.op # "create"
    <3>1. Created /\ MutateVerdict(batches[Focus], c) = "accepted"
      BY <2>2, <2>5 DEF OperationVerdict, Created
    <3> QED
      BY <1>2, <2>1, <2>2, <2>5, <3>1, FreezeLives, ObserveLives, CorrectLives, RecoverLives,
         ReviewLives DEF Accept, CreateBatch
  <2> QED
    BY <2>3, <2>4, <2>5
<1> QED
  BY <1>1, <1>2, StepApplies DEF vars

\* Whatever is sent to the service, its tables treat each batch as BatchLifecycle does
\* (Create and Mutate, which load, change and save the one aggregate).
THEOREM BatchesLiveApart == Spec => BatchLives
BY StepLives, ServiceInvariant, PTL DEF Spec, BatchLives

-----------------------------------------------------------------------------
(* One batch: what is proved of BatchLifecycle holds of it                   *)

LifeProofs == INSTANCE BatchLifecycleProofs WITH Protocols <- Sent("baseline"), audit <- trail

\* The actions and the promises of the batch are those that BatchLifecycleProofs proves about.
LEMMA SameStart == Life!Init' => LifeProofs!Init'
  BY DEF Life!Init, LifeProofs!Init, Life!NewTreatmentBatch, LifeProofs!NewTreatmentBatch

LEMMA SameStep == Life!Next => LifeProofs!Next
<1>1. \A a, p : Life!Freeze(a, p) => LifeProofs!Freeze(a, p)
  BY DEF Life!Freeze, LifeProofs!Freeze, Life!CanFreezeProtocol, LifeProofs!CanFreezeProtocol,
         Life!Terminal, LifeProofs!Terminal, Life!ValidProtocol, LifeProofs!ValidProtocol,
         Life!FreezeProtocol, LifeProofs!FreezeProtocol
<1>2. \A a, s, r : Life!SubmitObservation(a, s, r) <=> LifeProofs!SubmitObservation(a, s, r)
  BY DEF Life!SubmitObservation, LifeProofs!SubmitObservation,
         Life!ProcessObservation, LifeProofs!ProcessObservation,
         Life!CanAddObservation, LifeProofs!CanAddObservation, Life!UsedIds, LifeProofs!UsedIds,
         Life!Terminal, LifeProofs!Terminal, Life!ValidShape, LifeProofs!ValidShape,
         Life!LastObservation, LifeProofs!LastObservation,
         Life!AddObservation, LifeProofs!AddObservation,
         Life!EvaluateObservation, LifeProofs!EvaluateObservation,
         Life!RuleCodes, LifeProofs!RuleCodes, Life!Distance, LifeProofs!Distance,
         Life!Recorded, LifeProofs!Recorded, Life!UTC, LifeProofs!UTC,
         Life!CountQualified, LifeProofs!CountQualified,
         Life!AppendUnique, LifeProofs!AppendUnique,
         Life!RaiseDeviations, LifeProofs!RaiseDeviations,
         Life!ResetRecovery, LifeProofs!ResetRecovery,
         Life!OpenDeviation, LifeProofs!OpenDeviation
<1>3. \A a, x, o : Life!CorrectDeviation(a, x, o) => LifeProofs!CorrectDeviation(a, x, o)
  BY DEF Life!CorrectDeviation, LifeProofs!CorrectDeviation,
         Life!CanRegisterCorrection, LifeProofs!CanRegisterCorrection,
         Life!RegisterCorrection, LifeProofs!RegisterCorrection,
         Life!Terminal, LifeProofs!Terminal
<1>4. \A a : Life!Recover(a) => LifeProofs!Recover(a)
  BY DEF Life!Recover, LifeProofs!Recover, Life!CanApproveRecovery, LifeProofs!CanApproveRecovery,
         Life!ApproveRecovery, LifeProofs!ApproveRecovery,
         Life!StartRecovery, LifeProofs!StartRecovery, Life!Terminal, LifeProofs!Terminal
<1>5. \A a, d, p : Life!Review(a, d, p) => LifeProofs!Review(a, d, p)
  BY DEF Life!Review, LifeProofs!Review, Life!CanDecideReview, LifeProofs!CanDecideReview,
         Life!DecideReview, LifeProofs!DecideReview, Life!Participants, LifeProofs!Participants,
         Life!Terminal, LifeProofs!Terminal
<1> QED
  BY <1>1, <1>2, <1>3, <1>4, <1>5 DEF Life!Next, LifeProofs!Next

LEMMA SamePromises ==
  /\ LifeProofs!RecoveryIsAllOrNothing => Life!RecoveryIsAllOrNothing
  /\ LifeProofs!ReviewFollowsRecovery  => Life!ReviewFollowsRecovery
  /\ LifeProofs!ReviewerIndependence   => Life!ReviewerIndependence
  /\ LifeProofs!EvidenceTimeline       => Life!EvidenceTimeline
BY DEF Life!RecoveryIsAllOrNothing, LifeProofs!RecoveryIsAllOrNothing,
       Life!ReviewFollowsRecovery, LifeProofs!ReviewFollowsRecovery,
       Life!ReviewerIndependence, LifeProofs!ReviewerIndependence,
       Life!EvidenceTimeline, LifeProofs!EvidenceTimeline,
       Life!SinceAbnormal, LifeProofs!SinceAbnormal, Life!Decided, LifeProofs!Decided

\* What clients send is what BatchLifecycle assumes of its inputs.
LEMMA SentTyped ==
  /\ Sent("baseline") \subseteq Protocols
  /\ Sent("observations") \subseteq
       [id : ObservationIds, sequenceNo : Int, capturedAt : Nat,
        concentration : Int, temperature : Int, mass : Int]
<1>1. /\ "baseline" \in DOMAIN Operations /\ Operations["baseline"] = "freeze"
      /\ "observations" \in DOMAIN Operations /\ Operations["observations"] = "observe"
  BY DEF Operations
<1> QED
  BY <1>1, HttpAssumption DEF Sent, InputTyped

LEMMA LifeAssumptions == LifeProofs!InputsAssumption /\ LifeProofs!NilAssumption
<1>1. Nil \notin Sent("baseline")
  BY SentTyped, RowsAssumption
<1>2. LifeProofs!InputsAssumption
  <2>1. Stamps \subseteq [id : ObservationIds, sequenceNo : Int, capturedAt : Nat]
    BY SentTyped DEF Stamps
  <2>2. Readings \subseteq [concentration : Int, temperature : Int, mass : Int]
    BY SentTyped DEF Readings
  <2> QED
    BY <1>1, <2>1, <2>2, SentTyped DEF LifeProofs!InputsAssumption, Protocols
<1>3. LifeProofs!NilAssumption
  BY FocusAssumption DEF LifeProofs!NilAssumption, LifeProofs!Observation, Life!Observation
<1> QED
  BY <1>2, <1>3

LEMMA LifeStarts == LifeProofs!Init => LifeProofs!BatchInv
BY NamesAssumption, ClockAssumption, LifeAssumptions, LifeProofs!BatchStarts

LEMMA LifeGoesOn ==
  LifeProofs!BatchInv /\ [LifeProofs!Next]_(LifeProofs!vars) => LifeProofs!BatchInv'
BY NamesAssumption, ClockAssumption, LifeAssumptions, LifeProofs!BatchStep

LEMMA LifePromises ==
  LifeProofs!BatchInv =>
    /\ LifeProofs!RecoveryIsAllOrNothing /\ LifeProofs!ReviewFollowsRecovery
    /\ LifeProofs!ReviewerIndependence /\ LifeProofs!EvidenceTimeline
BY NamesAssumption, ClockAssumption, LifeAssumptions, LifeProofs!BatchPromises

LEMMA LifeQualifies ==
  LifeProofs!BatchInv /\ [LifeProofs!Next]_(LifeProofs!vars) =>
    [LifeProofs!Qualification!Next]_(LifeProofs!Qualification!vars)
BY NamesAssumption, ClockAssumption, LifeAssumptions, LifeProofs!BatchQualifies

\* A step of the service is one of the batch, or creates it, or has nothing to do with it.
LEMMA StepIsLife ==
  ServiceInv /\ [Next]_vars =>
    /\ Created => Created' /\ [LifeProofs!Next]_(LifeProofs!vars)
    /\ ~Created /\ Created' => LifeProofs!Init'
BY StepLives, SameStart, SameStep DEF Life!vars, LifeProofs!vars

LEMMA FocusInvariant == Spec => [](Created => LifeProofs!BatchInv)
<1>1. Init => ~Created
  BY DEF Init, ServiceInit, NoRows, Created
<1> QED
  BY <1>1, LifeStarts, LifeGoesOn, StepIsLife, ServiceInvariant, PTL DEF Spec

\* Every batch of the service keeps the rules of internal/domain: recovery all together
\* or not at all, a review only after it, an independent reviewer and a timeline.
THEOREM BatchesKeepTheirRules == Spec => []BatchKeepsItsRules
<1>1. (Created => LifeProofs!BatchInv) => BatchKeepsItsRules
  BY LifePromises, SamePromises DEF BatchKeepsItsRules
<1> QED
  BY <1>1, FocusInvariant, PTL

\* A batch that exists qualifies as BatchLifecycle's does.
LEMMA SameQualification ==
  Created /\ Created' /\ [LifeProofs!Qualification!Next]_(LifeProofs!Qualification!vars) =>
    [Qualification!Next]_(Qualification!vars)
<1>1. LifeProofs!Credit = Life!Credit /\ LifeProofs!Credit' = Life!Credit'
  BY DEF LifeProofs!Credit, Life!Credit, LifeProofs!Decided, Life!Decided,
         LifeProofs!RunLength, Life!RunLength
<1>2. \A p : LifeProofs!ValidProtocol(p) <=> ValidProtocol(p)
  BY DEF LifeProofs!ValidProtocol, ValidProtocol
<1> QED
  BY <1>1, <1>2
     DEF Qualification!Next, LifeProofs!Qualification!Next,
         Qualification!vars, LifeProofs!Qualification!vars,
         Qualification!FreezeBaseline, LifeProofs!Qualification!FreezeBaseline,
         Qualification!Deviate, LifeProofs!Qualification!Deviate,
         Qualification!StartRecovery, LifeProofs!Qualification!StartRecovery,
         Qualification!Recover, LifeProofs!Qualification!Recover,
         Qualification!Seal, LifeProofs!Qualification!Seal

\* A batch that does not exist is a draft, and so is one that has just been created.
LEMMA CreatedAsDraft ==
  ~Created /\ (Created' => LifeProofs!Init') => UNCHANGED Qualification!vars
<1>1. ASSUME ~Created, ~Created' PROVE UNCHANGED Qualification!vars
  BY <1>1 DEF Qualification!vars
<1>2. ASSUME ~Created, Created', LifeProofs!Init' PROVE UNCHANGED Qualification!vars
  <2>1. batch'.status = "draft" /\ batch'.protocol = Nil
    <3>1. PICK actor : batch' = LifeProofs!NewTreatmentBatch(actor)
      BY <1>2 DEF LifeProofs!Init
    <3> QED
      BY <3>1 DEF LifeProofs!NewTreatmentBatch
  <2>2. Life!Credit' = 0
    BY <2>1 DEF Life!Credit, Life!Decided
  <2> QED
    BY <1>2, <2>1, <2>2 DEF Qualification!vars
<1> QED
  BY <1>1, <1>2

\* Behind the requests, the replays and the tables, a batch qualifies for the next stage
\* as StageQualification says (AddObservation, ApproveRecovery and DecideReview).
THEOREM ServiceQualifies == Spec => ServiceImplementsStageQualification
<1>1. Init => Qualification!Init
  BY DEF Init, ServiceInit, NoRows, Created, Qualification!Init
<1>2. /\ ServiceInv /\ (Created => LifeProofs!BatchInv) /\ [Next]_vars
      => [Qualification!Next]_(Qualification!vars)
  BY StepIsLife, LifeQualifies, SameQualification, CreatedAsDraft
<1> QED
  BY <1>1, <1>2, ServiceInvariant, FocusInvariant, PTL
     DEF Spec, ServiceImplementsStageQualification, Qualification!Spec
=============================================================================
