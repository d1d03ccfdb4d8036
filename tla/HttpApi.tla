------------------------------ MODULE HttpApi ------------------------------
(***************************************************************************)
(* The handlers of internal/httpapi over QualificationService: what they   *)
(* make of the header, the path and the body of a request, and the status  *)
(* and code they answer.  A request is                                     *)
(* [route, wellFormed, actor, request, expected, batch, input]: wellFormed *)
(* tells whether decodeJSON accepts the body; expected is Nil if the body  *)
(* has no expected_revision; actor, request and batch are raw strings.     *)
(* Owners holds every string that is trimmed.  GetBatch and the other      *)
(* queries change nothing; of what they answer only the status is kept,    *)
(* and whether a verification found the certificate valid.                 *)
(***************************************************************************)
EXTENDS QualificationService

CONSTANTS
  ValidIds,      (* strings that idPattern matches                            *)
  HttpRequests   (* what clients send                                         *)

VARIABLE reply  (* the last answer: [status, code, replay, body]              *)

vars == <<tables, reply>>

-----------------------------------------------------------------------------
(* codec.go, errors.go                                                       *)

\* A number that is absent from the JSON object is decoded as 0.
ExpectedRevision(r) == IF r.expected = Nil THEN 0 ELSE r.expected

\* Mutant: the header is matched after it is trimmed and used as it was sent.
UntrimmedActor(r) == r.actor

ActorId(r) == TrimSpace[r.actor]

\* decodeJSON and commandMeta.
Decoded(r) ==
  /\ r.wellFormed
  /\ TrimSpace[r.actor] \in ValidIds /\ r.request \in ValidIds
  /\ ExpectedRevision(r) >= 0

PathId(r) == TrimSpace[r.batch]

\* routes.go: the command a route stands for.
Operations == [create |-> "create", baseline |-> "freeze", observations |-> "observe",
               correction |-> "correct", recovery |-> "recover", reviews |-> "review"]

\* idPattern matches neither a blank nor a string with space around it; an id that it
\* matches may be that of anybody and anything.
ASSUME HttpAssumption ==
  /\ Nil \notin ValidIds
  /\ \A s \in ValidIds \cap Owners : TrimSpace[s] = s
  /\ \A r \in HttpRequests :
       /\ r.actor \in Owners /\ r.batch \in Owners /\ r.expected \in Int \cup {Nil}
       /\ TrimSpace[r.actor] \in ValidIds => TrimSpace[r.actor] \in Actors
       /\ PathId(r) \in ValidIds => PathId(r) \in BatchIds
       /\ r.request \in ValidIds => r.request \in RequestIds
       /\ r.route \in DOMAIN Operations => InputTyped(Operations[r.route], r.input)

Command(r, op, id) ==
  [op |-> op, request |-> r.request, expected |-> ExpectedRevision(r),
   actor |-> ActorId(r), batch |-> id, input |-> r.input]

StatusOf(code) ==
  CASE code = "invalid_request" -> 400
    [] code = "not_found" -> 404
    [] code \in {"revision_conflict", "idempotency_conflict", "duplicate_sequence"} -> 409
    [] code \in {"observation_order_invalid", "duty_separation_failed",
                 "invalid_batch_state", "rule_error"} -> 422
    [] code = "internal_error" -> 500

Success(status, replay, body) ==
  [status |-> status, code |-> "ok", replay |-> replay, body |-> body]

\* writeError.
Refuse(code) ==
  /\ reply' = [status |-> StatusOf(code), code |-> code, replay |-> FALSE, body |-> Nil]
  /\ UNCHANGED tables

\* writeOutcome: Idempotent-Replay marks a response taken from the table.
Outcome(c, status) ==
  LET verdict == Verdict(c) IN
  \/ /\ verdict = "accepted" /\ Accept(c)
     /\ reply' = Success(status, FALSE, idempotency'[c.request].response)
  \/ /\ verdict = "replayed"
     /\ reply' = Success(status, TRUE, idempotency[c.request].response)
     /\ UNCHANGED tables
  \/ verdict \notin {"accepted", "replayed"} /\ Refuse(verdict)

-----------------------------------------------------------------------------
(* The handlers of writes.                                                   *)

\* The batch_id of a body is matched as it is, that of a path is trimmed first.
CreateBatchHandler(r) ==
  /\ r.route = "create"
  /\ IF Decoded(r) /\ r.batch \in ValidIds
     THEN Outcome(Command(r, "create", r.batch), 201) ELSE Refuse("invalid_request")

WriteHandler(r, status) ==
  IF Decoded(r) /\ PathId(r) \in ValidIds
  THEN Outcome(Command(r, Operations[r.route], PathId(r)), status) ELSE Refuse("invalid_request")

FreezeBaselineHandler(r) == r.route = "baseline" /\ WriteHandler(r, 200)

SubmitObservationHandler(r) == r.route = "observations" /\ WriteHandler(r, 201)

\* The deviation_id of the path is Nil if it is not an id.
CorrectDeviationHandler(r) ==
  /\ r.route = "correction"
  /\ IF r.input.deviation = Nil THEN Refuse("invalid_request") ELSE WriteHandler(r, 200)

ApproveRecoveryHandler(r) == r.route = "recovery" /\ WriteHandler(r, 200)

DecideReviewHandler(r) == r.route = "reviews" /\ WriteHandler(r, 201)

-----------------------------------------------------------------------------
(* The handlers of reads.                                                    *)

Answer(status, body) == reply' = Success(status, FALSE, body) /\ UNCHANGED tables

\* The error of GetBatch, "ok" if there is none.
LoadVerdict(id) ==
  IF id \notin DOMAIN batches THEN "not_found"
  ELSE IF ValidateLoaded(batches[id]) THEN "ok" ELSE "internal_error"

ReadHandler(r, verdict, body) ==
  IF PathId(r) \notin ValidIds THEN Refuse("invalid_request")
  ELSE IF verdict = "ok" THEN Answer(200, body) ELSE Refuse(verdict)

GetBatchHandler(r) == r.route = "batch" /\ ReadHandler(r, LoadVerdict(PathId(r)), Nil)

\* AuditTimeline asks whether the batch exists only if it has no events.
GetAuditHandler(r) ==
  LET id == PathId(r) IN
  /\ r.route = "audit"
  /\ ReadHandler(r, IF id \in BatchIds /\ (audit[id] # <<>> \/ id \in DOMAIN batches)
                    THEN "ok" ELSE "not_found", Nil)

CertificateVerdict(id) == IF id \in DOMAIN certificates THEN "ok" ELSE "not_found"

GetCertificateHandler(r) ==
  r.route = "certificate" /\ ReadHandler(r, CertificateVerdict(PathId(r)), Nil)

VerifyCertificateHandler(r) ==
  LET id == PathId(r)
      verdict == IF LoadVerdict(id) # "ok" THEN LoadVerdict(id) ELSE CertificateVerdict(id)
  IN  /\ r.route = "verify"
      /\ ReadHandler(r, verdict,
           IF verdict = "ok" THEN Verify(id, batches[id], certificates[id], audit[id]) ELSE Nil)

-----------------------------------------------------------------------------
Init == ServiceInit /\ reply = Success(0, FALSE, Nil)

Next == \E r \in HttpRequests :
  \/ CreateBatchHandler(r)       \/ FreezeBaselineHandler(r)   \/ SubmitObservationHandler(r)
  \/ CorrectDeviationHandler(r)  \/ ApproveRecoveryHandler(r)  \/ DecideReviewHandler(r)
  \/ GetBatchHandler(r)          \/ GetAuditHandler(r)
  \/ GetCertificateHandler(r)    \/ VerifyCertificateHandler(r)

Spec == Init /\ [][Next]_vars

-----------------------------------------------------------------------------
\* Type invariant: whatever clients send, only trimmed actors and valid ids get into the
\* tables, and every answer has a status of its own kind.
TypeOK ==
  /\ DOMAIN batches \subseteq BatchIds /\ DOMAIN reviews \subseteq DOMAIN batches
  /\ DOMAIN certificates \subseteq DOMAIN batches
  /\ \A id \in DOMAIN batches :
       /\ batches[id].status \in Statuses /\ batches[id].revision \in Nat \ {0}
       /\ Participants(batches[id]) \subseteq Owners
  /\ observations \subseteq [batch : BatchIds, sequenceNo : Nat \ {0}, id : ObservationIds,
                             capturedAt : Nat]
  /\ DOMAIN deviations \subseteq DeviationIds
  /\ audit \in [BatchIds -> Seq(Events)]
  /\ DOMAIN idempotency \subseteq RequestIds
  /\ reply.status \in {0, 200, 201, 400, 404, 409, 422, 500}
  /\ reply.replay \in BOOLEAN /\ (reply.status \in {0, 200, 201} <=> reply.code = "ok")

\* A command as the Ledger counts it.
Entry(c) ==
  [request |-> c.request, batch |-> c.batch, expected |-> c.expected,
   kind |-> IF c.op = "create" THEN "create"
            ELSE IF c.op = "review" THEN c.input.decision ELSE "change"]

Entries == {Entry(Command(r, Operations[r.route], PathId(r))) :
              r \in {q \in HttpRequests : q.route \in DOMAIN Operations /\ PathId(q) \in BatchIds}}

Books == INSTANCE Ledger WITH
  Batches  <- BatchIds,
  Requests <- RequestIds,
  Commands <- Entries,
  None     <- Nil,
  applied  <- [r \in RequestIds |->
                IF r \notin DOMAIN idempotency THEN Nil
                ELSE [command  |-> Entry(idempotency[r].command),
                      response |-> idempotency[r].response.revision]],
  revision <- [id \in BatchIds |-> IF id \in DOMAIN batches THEN batches[id].revision ELSE 0],
  sealed   <- {id \in DOMAIN batches : Terminal(batches[id].status)},
  heard    <- {}

\* Whatever requests arrive, the tables change as the Ledger does: a request id takes
\* effect once, on the batch and the revision it was meant for, with the one response
\* that tells that revision, and never on a sealed batch (README.md: "终态批次只读";
\* the ensureMutable of the aggregate behind execute and Mutate).
ServiceImplementsLedger == Books!Spec

\* README.md:5 "所有写请求必须在请求体中提供 `request_id` 与 `expected_revision`": a write
\* without an expected_revision is not accepted.
WritesNeedRevision ==
  [][\A r \in HttpRequests :
       r.expected = Nil /\ CreateBatchHandler(r) => reply'.code # "ok"]_vars
=============================================================================
