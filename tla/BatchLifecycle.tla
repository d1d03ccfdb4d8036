--------------------------- MODULE BatchLifecycle ---------------------------
(***************************************************************************)
(* The life of one treatment batch under any sequence of accepted          *)
(* commands.  An action is a command handler of internal/application: the  *)
(* aggregate operation followed by the audit event it appends.  A rejected *)
(* command rolls its transaction back and changes nothing, so it has no    *)
(* action.                                                                 *)
(***************************************************************************)
EXTENDS TreatmentBatch

CONSTANTS
  Protocols,     (* baselines clients ask to freeze                            *)
  Stamps,        (* [id, sequenceNo, capturedAt] of the observations sent     *)
  Readings       (* [concentration, temperature, mass] readings sent          *)

ASSUME InputsAssumption ==
  /\ Protocols \subseteq [target : Int, tolerance : Int, temperatureMin : Int,
                          temperatureMax : Int, massLimit : Int, interval : Int, window : Int]
  /\ Nil \notin Protocols
  /\ Stamps \subseteq [id : ObservationIds, sequenceNo : Int, capturedAt : Nat]
  /\ Readings \subseteq [concentration : Int, temperature : Int, mass : Int]

VARIABLES
  batch,   (* the aggregate, as aggregate_json stores it                      *)
  audit    (* <<event_type, actor_id>> of the batch's rows in audit_events    *)

vars == <<batch, audit>>

ProcessObservation(stamp, reading) ==
  [id |-> stamp.id, sequenceNo |-> stamp.sequenceNo, capturedAt |-> stamp.capturedAt,
   concentration |-> reading.concentration, temperature |-> reading.temperature,
   mass |-> reading.mass]

EventTypes == {"BATCH_CREATED", "BASELINE_FROZEN", "OBSERVATION_RECORDED",
               "DEVIATION_CORRECTED", "RECOVERY_APPROVED", "REVIEW_DECIDED"}

\* The observation ids that the table observations already holds for the batch:
\* its UNIQUE(observation_id) makes the transaction of a second use fail.
UsedIds == {batch.observations[i].id : i \in DOMAIN batch.observations}

-----------------------------------------------------------------------------
Init == \E actor \in Actors :
  /\ batch = NewTreatmentBatch(actor)
  /\ audit = {<<"BATCH_CREATED", actor>>}

Freeze(actor, p) ==
  /\ CanFreezeProtocol(batch, p)
  /\ batch' = FreezeProtocol(batch, p, actor)
  /\ audit' = audit \cup {<<"BASELINE_FROZEN", actor>>}

SubmitObservation(actor, stamp, reading) ==
  LET o == ProcessObservation(stamp, reading) IN
  /\ CanAddObservation(batch, o)
  /\ o.id \notin UsedIds
  /\ batch' = AddObservation(batch, o, actor)
  /\ audit' = audit \cup {<<"OBSERVATION_RECORDED", actor>>}

CorrectDeviation(actor, deviationId, owner) ==
  /\ CanRegisterCorrection(batch, deviationId, owner)
  /\ batch' = RegisterCorrection(batch, deviationId, owner)
  /\ audit' = audit \cup {<<"DEVIATION_CORRECTED", actor>>}

Recover(actor) ==
  /\ CanApproveRecovery(batch)
  /\ batch' = ApproveRecovery(batch, actor)
  /\ audit' = audit \cup {<<"RECOVERY_APPROVED", actor>>}

Review(actor, decision, checksPassed) ==
  LET r == [reviewer |-> actor, decision |-> decision, checksPassed |-> checksPassed] IN
  /\ CanDecideReview(batch, r)
  /\ batch' = DecideReview(batch, r)
  /\ audit' = audit \cup {<<"REVIEW_DECIDED", actor>>}

Next == \E actor \in Actors :
  \/ \E p \in Protocols : Freeze(actor, p)
  \/ \E stamp \in Stamps, reading \in Readings : SubmitObservation(actor, stamp, reading)
  \/ \E x \in DOMAIN batch.deviations, owner \in Owners : CorrectDeviation(actor, x, owner)
  \/ Recover(actor)
  \/ \E decision \in {"approve", "reject"}, passed \in BOOLEAN :
       Review(actor, decision, passed)

Spec == Init /\ [][Next]_vars

-----------------------------------------------------------------------------
Observation == [id : ObservationIds, sequenceNo : Int, capturedAt : Int, mass : Int,
                qualified : BOOLEAN]

ASSUME NilAssumption == Nil \notin Observation

Deviation == [status : {"open", "corrected", "closed"}, owner : Owners \cup {Nil},
              qualified : Seq(ObservationIds)]

\* Type invariant: the shape of the aggregate and of its audit trail.
TypeOK ==
  /\ batch = [status |-> batch.status, revision |-> batch.revision,
              createdBy |-> batch.createdBy, protocol |-> batch.protocol,
              observations |-> batch.observations, deviations |-> batch.deviations,
              review |-> batch.review, baseline |-> batch.baseline,
              observers |-> batch.observers, correctors |-> batch.correctors]
  /\ batch.status \in Statuses
  /\ batch.revision \in Nat \ {0}
  /\ batch.createdBy \in Actors
  /\ batch.protocol \in Protocols \cup {Nil}
  /\ batch.observations \in Seq(Observation)
  /\ batch.deviations = [x \in DOMAIN batch.deviations |-> batch.deviations[x]]
  /\ DOMAIN batch.deviations \subseteq DeviationIds
  /\ \A x \in DOMAIN batch.deviations : batch.deviations[x] \in Deviation
  /\ batch.review \in [reviewer : Actors, decision : {"approve", "reject"},
                       checksPassed : BOOLEAN] \cup {Nil}
  /\ batch.baseline \subseteq Actors
  /\ batch.observers \subseteq Actors
  /\ batch.correctors \subseteq Owners
  /\ audit \subseteq EventTypes \X Actors

-----------------------------------------------------------------------------
Decided == {"pending_review", "approved_sealed", "rejected_sealed"}

\* ids are the observations since the last abnormal one, all of them qualified.
SinceAbnormal(observations, ids) ==
  LET n == Len(observations)
      k == Len(ids)
  IN  /\ k < n
      /\ ~observations[n - k].qualified
      /\ \A i \in 1 .. k : /\ observations[n - k + i].id = ids[i]
                           /\ observations[n - k + i].qualified

\* The deviations of a batch recover together or not at all: while observations
\* are counted every deviation is corrected and is credited with the same run of
\* qualified observations, shorter than the window; a batch under or after
\* review has no deviation left open; a paused one has none closed (the loops
\* over b.Deviations in batch.go AddObservation and ApproveRecovery).
RecoveryIsAllOrNothing ==
  /\ batch.status \in {"draft", "monitoring"} => DOMAIN batch.deviations = {}
  /\ batch.status \notin {"draft", "monitoring"} => DOMAIN batch.deviations # {}
  /\ \A x \in DOMAIN batch.deviations :
       LET d == batch.deviations[x] IN
       /\ batch.status = "paused" => d.status # "closed"
       /\ batch.status = "recovering" =>
            /\ d.status = "corrected" /\ Len(d.qualified) < batch.protocol.window
            /\ SinceAbnormal(batch.observations, d.qualified)
       /\ batch.status \in Decided => d.status = "closed"

\* No batch is put up for review, approved or rejected unless its record ends in
\* an abnormal observation followed by exactly the frozen number of qualified
\* ones, and every deviation cites exactly those (AddObservation, the only
\* assignment of StatusReview).  So a batch that never deviated is never reviewed.
ReviewFollowsRecovery ==
  batch.status \in Decided =>
    \A x \in DOMAIN batch.deviations :
      LET ids == batch.deviations[x].qualified IN
      Len(ids) = batch.protocol.window /\ SinceAbnormal(batch.observations, ids)

\* The reviewer neither created the batch, froze its baseline, recorded one of its
\* observations nor approved a recovery of it, as the audit trail tells it
\* (the duty separation of DecideReview, which reads Participants instead).
ReviewerIndependence ==
  batch.review # Nil =>
    \A type \in {"BATCH_CREATED", "BASELINE_FROZEN", "OBSERVATION_RECORDED",
                 "RECOVERY_APPROVED"} : <<type, batch.review.reviewer>> \notin audit

\* The stored record is a timeline: sequence numbers strictly grow and times never
\* go back even after they are cut down to microseconds, and no two neighbours
\* are further apart than the frozen interval if the later one is qualified
\* (the order checks of AddObservation, which compare the time before the cut).
EvidenceTimeline ==
  \A i \in 1 .. Len(batch.observations) - 1 :
    LET earlier == batch.observations[i]
        later   == batch.observations[i + 1]
    IN  /\ earlier.sequenceNo < later.sequenceNo
        /\ earlier.capturedAt <= later.capturedAt
        /\ later.qualified =>
             later.capturedAt - earlier.capturedAt <= batch.protocol.interval * Hour

\* A command may add to the record of a batch and never rewrite it: observations
\* are kept in place, no deviation disappears and a closed one stays as it is, the
\* frozen baseline stays, nobody stops being a participant, the revision grows by
\* one; a sealed batch does not change at all.
EvidenceIsAppendOnly ==
  [][/\ ~Terminal(batch.status)
     /\ batch'.revision = batch.revision + 1
     /\ Len(batch.observations) <= Len(batch'.observations)
     /\ \A i \in DOMAIN batch.observations : batch'.observations[i] = batch.observations[i]
     /\ \A x \in DOMAIN batch.deviations :
          /\ x \in DOMAIN batch'.deviations
          /\ batch.deviations[x].status = "closed" =>
               batch'.deviations[x] = batch.deviations[x]
     /\ batch.protocol # Nil => batch'.protocol = batch.protocol
     /\ Participants(batch) \subseteq Participants(batch')]_vars

\* The length of the run of qualified observations that ends the record.
RunLength(observations) ==
  CHOOSE k \in 0 .. Len(observations) - 1 :
    /\ ~observations[Len(observations) - k].qualified
    /\ \A i \in 1 .. k : observations[Len(observations) - k + i].qualified

Credit == IF batch.status = "recovering" \/ batch.status \in Decided
          THEN RunLength(batch.observations) ELSE 0

Qualification == INSTANCE StageQualification WITH
  Windows <- {p.window : p \in {q \in Protocols : ValidProtocol(q)}},
  phase   <- batch.status,
  window  <- IF batch.protocol = Nil THEN 0 ELSE batch.protocol.window,
  credit  <- Credit

\* However many deviations are open at once, whoever corrects them and whatever is
\* submitted, a batch is the single counter of StageQualification: one abnormal
\* observation takes all the credit away, and the last one of the window, neither
\* an earlier nor a later one, puts the batch up for review.
ImplementsStageQualification == Qualification!Spec

-----------------------------------------------------------------------------
\* BENZHI_README.md:13 "随后由未参与操作的复核员独立裁定": whoever reviews the batch
\* has carried out no operation on it (the audit trail holds every operation).
ReviewerTookNoPart ==
  batch.review # Nil =>
    \A event \in audit : event[2] = batch.review.reviewer => event[1] = "REVIEW_DECIDED"

\* errors.go:13 "复核员参与过批次操作，不满足职责分离": nobody that a deviation names as
\* the owner of its correction reviews the batch.
ReviewerOwnsNoCorrection ==
  batch.review # Nil =>
    \A x \in DOMAIN batch.deviations : batch.deviations[x].owner # batch.review.reviewer
=============================================================================
