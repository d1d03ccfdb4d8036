--------------------------- MODULE TreatmentBatch ---------------------------
(***************************************************************************)
(* The aggregate of internal/domain: the record a treatment batch is and   *)
(* the five operations of TreatmentBatch, each as a guard (the code's      *)
(* early returns) and a result (its assignments).  The module has no       *)
(* variables: BatchLifecycle drives one aggregate with it.                 *)
(*                                                                         *)
(* Left out of the record, because no decision of the code reads it:       *)
(* labels (specimen, species, stages), free text (cause, action,           *)
(* rationale), evidence digests, the timestamps that are only reported     *)
(* (created, frozen, detected, recovery started, closed, sealed), and the  *)
(* frozen_by and recorded_by copies of what Participants holds.            *)
(***************************************************************************)
EXTENDS Integers, Sequences

CONSTANTS
  Actors,          (* identities of X-Actor-ID, trimmed by commandMeta        *)
  Owners,          (* owner_id strings a correction may carry, not trimmed    *)
  TrimSpace,       (* strings.TrimSpace on Owners                             *)
  ObservationIds,  (* observation_id strings                                  *)
  Nil,             (* a nil pointer or a blank string                         *)
  Microsecond,     (* clock ticks per microsecond                             *)
  Hour             (* clock ticks per hour                                    *)

\* An actor id is an owner string that is already trimmed; trimming twice is
\* trimming once; a blank owner trims to Nil.
ASSUME NamesAssumption ==
  /\ Actors \subseteq Owners
  /\ TrimSpace \in [Owners -> Owners \cup {Nil}]
  /\ \A a \in Actors : TrimSpace[a] = a
  /\ \A s \in Owners : TrimSpace[s] # Nil => TrimSpace[TrimSpace[s]] = TrimSpace[s]
  /\ Nil \notin Owners \cup ObservationIds

ASSUME ClockAssumption == Microsecond \in Nat \ {0} /\ Hour \in Nat \ {0}

-----------------------------------------------------------------------------
(* types.go, protocol.go                                                     *)

Statuses == {"draft", "monitoring", "paused", "recovering", "pending_review",
             "approved_sealed", "rejected_sealed"}

Terminal(status) == status \in {"approved_sealed", "rejected_sealed"}

RuleCodes == {"CONCENTRATION_OUT_OF_RANGE", "TEMPERATURE_OUT_OF_RANGE",
              "MASS_CHANGE_EXCEEDED", "OBSERVATION_MISSED"}

\* utc: the stored time of a captured_at, cut down to whole microseconds.
UTC(t) == t - (t % Microsecond)

\* FrozenProtocol.Validate, on the fields that the rules read.
ValidProtocol(p) ==
  /\ p.target \in 0 .. 100 /\ p.tolerance \in 0 .. 100
  /\ -20 <= p.temperatureMin /\ p.temperatureMax <= 100
  /\ p.temperatureMin < p.temperatureMax
  /\ p.massLimit \in 1 .. 100
  /\ p.interval \in 1 .. 720
  /\ p.window \in 1 .. 100

-----------------------------------------------------------------------------
(* observation.go                                                            *)

\* ProcessObservation.ValidateShape.
ValidShape(o) ==
  /\ o.sequenceNo >= 1
  /\ o.concentration \in 0 .. 100
  /\ o.temperature \in -20 .. 100
  /\ o.mass > 0

Distance(x, y) == IF x < y THEN y - x ELSE x - y

\* EvaluateObservation: the rule codes that observation o raises after the
\* observation previous (Nil for the first one).  The mass change, a quotient in
\* floating point in the code, is compared here as an exact product.
EvaluateObservation(p, previous, o) ==
  {code \in RuleCodes :
     \/ /\ code = "CONCENTRATION_OUT_OF_RANGE"
        /\ Distance(o.concentration, p.target) > p.tolerance
     \/ /\ code = "TEMPERATURE_OUT_OF_RANGE"
        /\ o.temperature \notin p.temperatureMin .. p.temperatureMax
     \/ /\ code = "MASS_CHANGE_EXCEEDED"
        /\ previous # Nil
        /\ Distance(o.mass, previous.mass) * 100 > p.massLimit * previous.mass
     \/ /\ code = "OBSERVATION_MISSED"
        /\ previous # Nil
        /\ o.capturedAt - previous.capturedAt > p.interval * Hour}

\* What the aggregate keeps of observation o once it is evaluated.
Recorded(o, codes) ==
  [id |-> o.id, sequenceNo |-> o.sequenceNo, capturedAt |-> UTC(o.capturedAt),
   mass |-> o.mass, qualified |-> codes = {}]

-----------------------------------------------------------------------------
(* deviation.go                                                              *)

\* deviationID hashes the observation id with the rule code; the hash is taken
\* to be collision free, so the pair itself is the identifier.
DeviationIds == ObservationIds \X RuleCodes

OpenDeviation == [status |-> "open", owner |-> Nil, qualified |-> <<>>]

ResetRecovery(d) ==
  IF d.status # "closed" THEN [d EXCEPT !.status = "open", !.qualified = <<>>] ELSE d

StartRecovery(d) ==
  IF d.status = "corrected" THEN [d EXCEPT !.qualified = <<>>] ELSE d

AppendUnique(ids, id) ==
  IF \E i \in DOMAIN ids : ids[i] = id THEN ids ELSE Append(ids, id)

\* Mutant: the window ends one observation early.
CountQualifiedEarly(d, id, window) ==
  LET ids == AppendUnique(d.qualified, id) IN
  IF d.status = "corrected"
  THEN [d EXCEPT !.qualified = ids,
                 !.status    = IF Len(ids) + 1 >= window THEN "closed" ELSE "corrected"]
  ELSE d

\* AddQualified and Close, as the loop of AddObservation applies them.
CountQualified(d, id, window) ==
  LET ids == AppendUnique(d.qualified, id) IN
  IF d.status = "corrected"
  THEN [d EXCEPT !.qualified = ids,
                 !.status    = IF Len(ids) >= window THEN "closed" ELSE "corrected"]
  ELSE d

-----------------------------------------------------------------------------
(* batch.go                                                                  *)

\* Mutant: the first revision is 0.
NewTreatmentBatchAtZero(actor) ==
  [status |-> "draft", revision |-> 0, createdBy |-> actor, protocol |-> Nil,
   observations |-> <<>>, deviations |-> <<>>, review |-> Nil,
   baseline |-> {}, observers |-> {}, correctors |-> {}]

NewTreatmentBatch(actor) ==
  [status |-> "draft", revision |-> 1, createdBy |-> actor, protocol |-> Nil,
   observations |-> <<>>, deviations |-> <<>>, review |-> Nil,
   baseline |-> {}, observers |-> {}, correctors |-> {}]

CanFreezeProtocol(b, p) ==
  /\ ~Terminal(b.status)
  /\ b.status = "draft" /\ b.protocol = Nil
  /\ ValidProtocol(p)

FreezeProtocol(b, p, actor) ==
  [b EXCEPT !.protocol = p, !.status = "monitoring",
            !.baseline = @ \cup {actor}, !.revision = @ + 1]

LastObservation(b) ==
  IF b.observations = <<>> THEN Nil ELSE b.observations[Len(b.observations)]

\* Mutant: neither the order of the sequence numbers nor of the times is strict.
CanAddSameOrder(b, o) ==
  /\ b.status \in {"monitoring", "recovering"} /\ ValidShape(o)
  /\ b.observations # <<>> =>
       /\ o.sequenceNo >= LastObservation(b).sequenceNo
       /\ o.capturedAt >= LastObservation(b).capturedAt

\* The sequence number and the time must both be later than the last stored
\* ones; the new time is compared before it is cut down to microseconds.
CanAddObservation(b, o) ==
  /\ ~Terminal(b.status)
  /\ b.protocol # Nil
  /\ b.status \in {"monitoring", "recovering"}
  /\ ValidShape(o)
  /\ b.observations # <<>> =>
       /\ o.sequenceNo > LastObservation(b).sequenceNo
       /\ o.capturedAt > LastObservation(b).capturedAt

\* Every rule code raises a deviation of its own; an abnormal observation of a
\* recovery throws the whole recovery away.
RaiseDeviations(b, o, codes) ==
  LET raised == {o.id} \X codes
      all    == [x \in DOMAIN b.deviations \cup raised |->
                   IF x \in raised THEN OpenDeviation ELSE b.deviations[x]]
  IN  IF b.status = "recovering" THEN [x \in DOMAIN all |-> ResetRecovery(all[x])] ELSE all

AddObservation(b, o, actor) ==
  LET codes   == EvaluateObservation(b.protocol, LastObservation(b), o)
      counted == [x \in DOMAIN b.deviations |->
                    CountQualified(b.deviations[x], o.id, b.protocol.window)]
      noted   == [b EXCEPT !.observations = Append(@, Recorded(o, codes)),
                           !.observers = @ \cup {actor}, !.revision = @ + 1]
  IN  IF codes # {}
      THEN [noted EXCEPT !.deviations = RaiseDeviations(b, o, codes), !.status = "paused"]
      ELSE IF b.status = "recovering"
      THEN [noted EXCEPT !.deviations = counted,
              !.status = IF \A x \in DOMAIN counted : counted[x].status = "closed"
                         THEN "pending_review" ELSE "recovering"]
      ELSE noted

CanRegisterCorrection(b, deviationId, owner) ==
  /\ ~Terminal(b.status)
  /\ b.status = "paused"
  /\ deviationId \in DOMAIN b.deviations
  /\ b.deviations[deviationId].status = "open"
  /\ TrimSpace[owner] # Nil

\* Mutant: the owner takes the place of earlier correctors.
RegisterOnlyCorrection(b, deviationId, owner) ==
  [b EXCEPT !.deviations[deviationId] =
              [@ EXCEPT !.status = "corrected", !.owner = TrimSpace[owner]],
            !.correctors = {owner}, !.revision = @ + 1]

\* The deviation keeps the trimmed owner, the participants the string as sent.
RegisterCorrection(b, deviationId, owner) ==
  [b EXCEPT !.deviations[deviationId] =
              [@ EXCEPT !.status = "corrected", !.owner = TrimSpace[owner]],
            !.correctors = @ \cup {owner}, !.revision = @ + 1]

\* Mutant: a deviation left open does not stop the recovery.
CanApproveAnyRecovery(b) ==
  /\ b.status = "paused"
  /\ \E x \in DOMAIN b.deviations : b.deviations[x].status = "corrected"

CanApproveRecovery(b) ==
  /\ ~Terminal(b.status)
  /\ b.status = "paused"
  /\ \A x \in DOMAIN b.deviations : b.deviations[x].status # "open"
  /\ \E x \in DOMAIN b.deviations : b.deviations[x].status = "corrected"

ApproveRecovery(b, actor) ==
  [b EXCEPT !.deviations = [x \in DOMAIN @ |-> StartRecovery(@[x])],
            !.correctors = @ \cup {actor}, !.status = "recovering", !.revision = @ + 1]

\* Mutant: the observers are not consulted.
ParticipantsButObservers(b) == {b.createdBy} \cup b.baseline \cup b.correctors

Participants(b) == {b.createdBy} \cup b.baseline \cup b.observers \cup b.correctors

\* A review is its reviewer, its decision and whether its whole checklist passed.
CanDecideReview(b, r) ==
  /\ ~Terminal(b.status)
  /\ b.status = "pending_review"
  /\ r.decision \in {"approve", "reject"}
  /\ r.decision = "approve" => r.checksPassed
  /\ r.reviewer \notin Participants(b)
  /\ b.observations # <<>>
  /\ \A x \in DOMAIN b.deviations : b.deviations[x].status = "closed"

DecideReview(b, r) ==
  [b EXCEPT !.review = r, !.revision = @ + 1,
            !.status = IF r.decision = "approve" THEN "approved_sealed" ELSE "rejected_sealed"]

=============================================================================
