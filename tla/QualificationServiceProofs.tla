---------------------- MODULE QualificationServiceProofs ----------------------
(***************************************************************************)
(* What the commands of QualificationService keep, for any constants: any  *)
(* number of batches, people, observations and requests.                   *)
(*                                                                         *)
(* First the aggregate: each operation keeps AggregateInv of the record it *)
(* is applied to.  Then the trail: an event tells an auditor what the      *)
(* operation did.  Then the tables: a Commit by which an aggregate only    *)
(* grows keeps copies, certificates and answers true.                      *)
(***************************************************************************)
EXTENDS QualificationService, FiniteSetTheorems, WellFoundedInduction, TLAPS

-----------------------------------------------------------------------------
(* The invariant                                                             *)

ObservationRecords == [id : ObservationIds, sequenceNo : Nat \ {0}, capturedAt : Nat,
                       mass : Int, qualified : BOOLEAN]

DeviationCases == [status : {"open", "corrected", "closed"}, owner : Owners \cup {Nil},
                   qualified : Seq(ObservationIds)]

Decided == {"pending_review", "approved_sealed", "rejected_sealed"}

IsAggregate(b) ==
  b = [status |-> b.status, revision |-> b.revision, createdBy |-> b.createdBy,
       protocol |-> b.protocol, observations |-> b.observations,
       deviations |-> b.deviations, review |-> b.review, baseline |-> b.baseline,
       observers |-> b.observers, correctors |-> b.correctors]

\* The fields of an aggregate and their types.
AggregateTyped(b) ==
  /\ IsAggregate(b)
  /\ b.status \in Statuses /\ b.revision \in Nat \ {0}
  /\ b.createdBy \in Actors /\ b.protocol \in Protocols \cup {Nil}
  /\ b.observations \in Seq(ObservationRecords)
  /\ DOMAIN b.deviations \subseteq DeviationIds
  /\ \A x \in DOMAIN b.deviations : b.deviations[x] \in DeviationCases
  /\ b.review \in Reviews \cup {Nil}
  /\ b.baseline \subseteq Actors /\ b.observers \subseteq Actors /\ b.correctors \subseteq Owners

\* A baseline is frozen outside draft, its window is positive, and a sealed batch
\* has a review.
Frozen(b) ==
  /\ b.status # "draft" => b.protocol # Nil /\ b.protocol.window \in Nat \ {0}
  /\ Terminal(b.status) => b.review # Nil

\* Sequence numbers grow.
Ordered(b) ==
  \A i, j \in DOMAIN b.observations :
    i < j => b.observations[i].sequenceNo < b.observations[j].sequenceNo

RecordedIds(b) == {b.observations[i].id : i \in DOMAIN b.observations}

\* A deviation is about an observation of its batch and cites observations of its batch.
Cited(b) ==
  \A x \in DOMAIN b.deviations :
    /\ x[1] \in RecordedIds(b)
    /\ \A i \in DOMAIN b.deviations[x].qualified :
         b.deviations[x].qualified[i] \in RecordedIds(b)

\* The deviations recover together: the same credit for all while observations are
\* counted, and a full window for each when the batch is under review.
Together(b) ==
  /\ b.status \in {"draft", "monitoring"} => DOMAIN b.deviations = {}
  /\ b.status = "recovering" =>
       /\ DOMAIN b.deviations # {}
       /\ \A x, y \in DOMAIN b.deviations :
            Len(b.deviations[x].qualified) = Len(b.deviations[y].qualified)
  /\ \A x \in DOMAIN b.deviations :
       /\ b.status = "paused" => b.deviations[x].status # "closed"
       /\ b.status = "recovering" =>
            /\ b.deviations[x].status = "corrected"
            /\ Len(b.deviations[x].qualified) < b.protocol.window
       /\ b.status \in Decided =>
            /\ b.deviations[x].status = "closed"
            /\ Len(b.deviations[x].qualified) = b.protocol.window

AggregateInv(b) ==
  AggregateTyped(b) /\ Frozen(b) /\ Ordered(b) /\ Cited(b) /\ Together(b)

Tales == [status : Statuses \cup {"none"}, open : SUBSET DeviationIds, window : Int, run : Nat]

\* What is told of a batch is what it is.
Tells(s, b) ==
  /\ s \in Tales /\ s.status = b.status /\ s.open = OpenDeviations(b)
  /\ b.status = "recovering" =>
       /\ s.window = b.protocol.window
       /\ \A x \in DOMAIN b.deviations : Len(b.deviations[x].qualified) = s.run

TablesTyped ==
  /\ DOMAIN batches \subseteq BatchIds /\ DOMAIN reviews \subseteq DOMAIN batches
  /\ DOMAIN certificates \subseteq BatchIds
  /\ audit \in [BatchIds -> Seq(Events)]
  /\ DOMAIN idempotency \subseteq RequestIds
  /\ \A id \in DOMAIN batches : AggregateInv(batches[id])

\* Revisions count the events, and the events tell the batch.
TrailInv ==
  /\ \A id \in BatchIds \ DOMAIN batches : audit[id] = <<>>
  /\ \A id \in DOMAIN batches :
       Len(audit[id]) = batches[id].revision /\ Tells(Retold(audit[id]), batches[id])

\* A certificate is the one that was generated for the batch as it still is.
CertificateInv ==
  /\ \A id \in BatchIds : id \in DOMAIN certificates <=>
       id \in DOMAIN batches /\ batches[id].status = "approved_sealed"
  /\ \A id \in DOMAIN certificates :
       LET before == SubSeq(audit[id], 1, Len(audit[id]) - 1)
       IN  /\ certificates[id] = [payload   |-> Payload(id, batches[id], before),
                                  auditRoot |-> audit[id]]
           /\ batches[id].review.evidenceRoot = before
           /\ batches[id].observations # <<>>

\* A stored response tells the batch as the trail up to its revision does.
AnswerTold(answer, id) ==
  LET told == Retold(SubSeq(audit[id], 1, answer.revision)) IN
  /\ id \in DOMAIN batches /\ answer.revision \in 1 .. Len(audit[id])
  /\ answer.status = told.status
  /\ "open" \in DOMAIN answer => answer.open = told.open
  /\ "certificate" \in DOMAIN answer =>
       /\ answer.certificate # Nil <=> told.status = "approved_sealed"
       /\ answer.certificate # Nil => id \in DOMAIN certificates

AnswerInv ==
  \A r \in DOMAIN idempotency :
    AnswerTold(idempotency[r].response, idempotency[r].command.batch)

\* The invariants of the service, made inductive.
ServiceInv ==
  TablesTyped /\ TrailInv /\ CopiesMirrorBatches /\ CertificateInv /\ AnswerInv

-----------------------------------------------------------------------------
(* The fields that an operation changes                                      *)

LEMMA FreezeFields ==
  ASSUME NEW b, IsAggregate(b), NEW p, NEW actor,
         NEW c, c = FreezeProtocol(b, p, actor)
  PROVE  c =
           [status |-> "monitoring", revision |-> b.revision + 1, createdBy |-> b.createdBy,
            protocol |-> p, observations |-> b.observations, deviations |-> b.deviations,
            review |-> b.review, baseline |-> b.baseline \cup {actor},
            observers |-> b.observers, correctors |-> b.correctors]
  BY DEF IsAggregate, FreezeProtocol

\* The deviations with one of them corrected.
Corrected(b, x, owner) ==
  [y \in DOMAIN b.deviations |->
     IF y = x THEN [status |-> "corrected", owner |-> TrimSpace[owner],
                    qualified |-> b.deviations[x].qualified]
     ELSE b.deviations[y]]

LEMMA CorrectFields ==
  ASSUME NEW b, AggregateTyped(b), NEW x \in DOMAIN b.deviations, NEW owner \in Owners,
         NEW c, c = RegisterCorrection(b, x, owner)
  PROVE  /\ c = [status |-> b.status, revision |-> b.revision + 1, createdBy |-> b.createdBy,
                 protocol |-> b.protocol, observations |-> b.observations,
                 deviations |-> c.deviations, review |-> b.review, baseline |-> b.baseline,
                 observers |-> b.observers, correctors |-> b.correctors \cup {owner}]
         /\ DOMAIN c.deviations = DOMAIN b.deviations
         /\ \A y \in DOMAIN b.deviations : c.deviations[y] = Corrected(b, x, owner)[y]
<1>1. b.deviations[x] \in DeviationCases
  BY DEF AggregateTyped
<1>2. PICK d : d = [b.deviations[x] EXCEPT !.status = "corrected", !.owner = TrimSpace[owner]]
  OBVIOUS
<1>3. d = [status |-> "corrected", owner |-> TrimSpace[owner],
           qualified |-> b.deviations[x].qualified]
  BY <1>1, <1>2 DEF DeviationCases
<1>4. c = [status |-> b.status, revision |-> b.revision + 1, createdBy |-> b.createdBy,
           protocol |-> b.protocol, observations |-> b.observations,
           deviations |-> [b.deviations EXCEPT ![x] = d], review |-> b.review,
           baseline |-> b.baseline, observers |-> b.observers,
           correctors |-> b.correctors \cup {owner}]
  BY <1>2 DEF AggregateTyped, IsAggregate, RegisterCorrection
<1>5. /\ DOMAIN c.deviations = DOMAIN b.deviations
      /\ \A y \in DOMAIN b.deviations : c.deviations[y] = IF y = x THEN d ELSE b.deviations[y]
  BY <1>4
<1> QED
  BY <1>3, <1>4, <1>5 DEF Corrected

LEMMA RecoverFields ==
  ASSUME NEW b, IsAggregate(b), NEW actor, NEW c, c = ApproveRecovery(b, actor)
  PROVE  c =
           [status |-> "recovering", revision |-> b.revision + 1, createdBy |-> b.createdBy,
            protocol |-> b.protocol, observations |-> b.observations,
            deviations |-> [x \in DOMAIN b.deviations |-> StartRecovery(b.deviations[x])],
            review |-> b.review, baseline |-> b.baseline,
            observers |-> b.observers, correctors |-> b.correctors \cup {actor}]
  BY DEF IsAggregate, ApproveRecovery

LEMMA ReviewFields ==
  ASSUME NEW b, IsAggregate(b), NEW r, NEW c, c = DecideReview(b, r)
  PROVE  c =
           [status |-> IF r.decision = "approve" THEN "approved_sealed" ELSE "rejected_sealed",
            revision |-> b.revision + 1, createdBy |-> b.createdBy,
            protocol |-> b.protocol, observations |-> b.observations,
            deviations |-> b.deviations, review |-> r, baseline |-> b.baseline,
            observers |-> b.observers, correctors |-> b.correctors]
  BY DEF IsAggregate, DecideReview

Codes(b, o) == EvaluateObservation(b.protocol, LastObservation(b), o)

Counted(b, o) ==
  [x \in DOMAIN b.deviations |-> CountQualified(b.deviations[x], o.id, b.protocol.window)]

\* The status and the deviations after an observation.
ObservedStatus(b, o) ==
  IF Codes(b, o) # {} THEN "paused"
  ELSE IF b.status # "recovering" THEN b.status
  ELSE IF \A x \in DOMAIN Counted(b, o) : Counted(b, o)[x].status = "closed"
  THEN "pending_review" ELSE "recovering"

ObservedDeviations(b, o) ==
  IF Codes(b, o) # {} THEN RaiseDeviations(b, o, Codes(b, o))
  ELSE IF b.status # "recovering" THEN b.deviations ELSE Counted(b, o)

LEMMA ObserveFields ==
  ASSUME NEW b, IsAggregate(b), NEW o, NEW actor, NEW c, c = AddObservation(b, o, actor)
  PROVE  c =
           [status |-> ObservedStatus(b, o), revision |-> b.revision + 1,
            createdBy |-> b.createdBy, protocol |-> b.protocol,
            observations |-> Append(b.observations, Recorded(o, Codes(b, o))),
            deviations |-> ObservedDeviations(b, o), review |-> b.review,
            baseline |-> b.baseline, observers |-> b.observers \cup {actor},
            correctors |-> b.correctors]
<1>1. PICK noted : noted = [b EXCEPT !.observations = Append(@, Recorded(o, Codes(b, o))),
                                     !.observers = @ \cup {actor}, !.revision = @ + 1]
  OBVIOUS
<1>2. noted = [status |-> b.status, revision |-> b.revision + 1, createdBy |-> b.createdBy,
               protocol |-> b.protocol,
               observations |-> Append(b.observations, Recorded(o, Codes(b, o))),
               deviations |-> b.deviations, review |-> b.review, baseline |-> b.baseline,
               observers |-> b.observers \cup {actor}, correctors |-> b.correctors]
  BY <1>1 DEF IsAggregate
<1>3. c = IF Codes(b, o) # {}
          THEN [noted EXCEPT !.deviations = RaiseDeviations(b, o, Codes(b, o)),
                             !.status = "paused"]
          ELSE IF b.status = "recovering"
          THEN [noted EXCEPT !.deviations = Counted(b, o),
                  !.status = IF \A x \in DOMAIN Counted(b, o) :
                                  Counted(b, o)[x].status = "closed"
                             THEN "pending_review" ELSE "recovering"]
          ELSE noted
  BY <1>1 DEF AddObservation, Codes, Counted
<1>4. CASE Codes(b, o) # {}
  BY <1>2, <1>3, <1>4 DEF ObservedStatus, ObservedDeviations
<1>5. CASE Codes(b, o) = {} /\ b.status = "recovering"
  BY <1>2, <1>3, <1>5 DEF ObservedStatus, ObservedDeviations
<1>6. CASE Codes(b, o) = {} /\ b.status # "recovering"
  BY <1>2, <1>3, <1>6 DEF ObservedStatus, ObservedDeviations
<1> QED
  BY <1>4, <1>5, <1>6

-----------------------------------------------------------------------------
(* One deviation                                                             *)

LEMMA CountQualifiedFacts ==
  ASSUME NEW d \in DeviationCases, NEW id \in ObservationIds, NEW window \in Nat,
         d.status = "corrected", \A i \in DOMAIN d.qualified : d.qualified[i] # id
  PROVE  /\ CountQualified(d, id, window) \in DeviationCases
         /\ CountQualified(d, id, window).qualified = Append(d.qualified, id)
         /\ Len(Append(d.qualified, id)) = Len(d.qualified) + 1 /\ Len(d.qualified) \in Nat
         /\ CountQualified(d, id, window).status =
              IF Len(d.qualified) + 1 >= window THEN "closed" ELSE "corrected"
<1>1. AppendUnique(d.qualified, id) = Append(d.qualified, id)
  BY DEF AppendUnique
<1>2. /\ Append(d.qualified, id) \in Seq(ObservationIds)
      /\ Len(Append(d.qualified, id)) = Len(d.qualified) + 1 /\ Len(d.qualified) \in Nat
  BY DEF DeviationCases
<1>3. CountQualified(d, id, window) =
        [status |-> IF Len(d.qualified) + 1 >= window THEN "closed" ELSE "corrected",
         owner |-> d.owner, qualified |-> Append(d.qualified, id)]
  BY <1>1, <1>2 DEF CountQualified, DeviationCases
<1> QED
  BY <1>2, <1>3 DEF DeviationCases

LEMMA ResetRecoveryFacts ==
  ASSUME NEW d \in DeviationCases
  PROVE  /\ ResetRecovery(d) \in DeviationCases
         /\ d.status # "closed" => /\ ResetRecovery(d).status = "open"
                                   /\ ResetRecovery(d).qualified = <<>>
         /\ d.status = "closed" => ResetRecovery(d) = d
<1>1. <<>> \in Seq(ObservationIds)
  OBVIOUS
<1>2. CASE d.status = "closed"
  BY <1>2 DEF ResetRecovery
<1>3. CASE d.status # "closed"
  <2>1. ResetRecovery(d) = [status |-> "open", owner |-> d.owner, qualified |-> <<>>]
    BY <1>3 DEF ResetRecovery, DeviationCases
  <2> QED
    BY <1>1, <1>3, <2>1 DEF DeviationCases
<1> QED
  BY <1>2, <1>3

LEMMA StartRecoveryFacts ==
  ASSUME NEW d \in DeviationCases, d.status = "corrected"
  PROVE  /\ StartRecovery(d) \in DeviationCases
         /\ StartRecovery(d).status = "corrected" /\ StartRecovery(d).qualified = <<>>
<1>1. <<>> \in Seq(ObservationIds)
  OBVIOUS
<1>2. StartRecovery(d) = [status |-> "corrected", owner |-> d.owner, qualified |-> <<>>]
  BY DEF StartRecovery, DeviationCases
<1> QED
  BY <1>1, <1>2 DEF DeviationCases

LEMMA OpenDeviationType == OpenDeviation \in DeviationCases
  BY DEF OpenDeviation, DeviationCases

-----------------------------------------------------------------------------
(* Each operation keeps AggregateInv                                         *)

LEMMA NewKeeps ==
  ASSUME NEW actor \in Actors, NEW c, c = NewTreatmentBatch(actor)
  PROVE  AggregateInv(c)
<1>1. /\ c.status = "draft" /\ c.revision = 1 /\ c.createdBy = actor /\ c.protocol = Nil
      /\ c.observations = <<>> /\ c.deviations = <<>> /\ c.review = Nil
      /\ c.baseline = {} /\ c.observers = {} /\ c.correctors = {}
  BY DEF NewTreatmentBatch
<1>2. IsAggregate(c)
  BY DEF IsAggregate, NewTreatmentBatch
<1>3. AggregateTyped(c)
  BY <1>1, <1>2 DEF AggregateTyped, Statuses
<1> QED
  BY <1>1, <1>3 DEF AggregateInv, Frozen, Ordered, Cited, Together, Terminal, Decided

LEMMA FreezeKeeps ==
  ASSUME NEW b, AggregateInv(b), NEW p \in Protocols, NEW actor \in Actors,
         CanFreezeProtocol(b, p), NEW c, c = FreezeProtocol(b, p, actor)
  PROVE  AggregateInv(c)
<1>1. c = [status |-> "monitoring", revision |-> b.revision + 1, createdBy |-> b.createdBy,
           protocol |-> p, observations |-> b.observations, deviations |-> b.deviations,
           review |-> b.review, baseline |-> b.baseline \cup {actor},
           observers |-> b.observers, correctors |-> b.correctors]
  BY FreezeFields DEF AggregateInv, AggregateTyped
<1>2. /\ c.status = "monitoring" /\ c.revision = b.revision + 1 /\ c.createdBy = b.createdBy
      /\ c.protocol = p /\ c.observations = b.observations /\ c.deviations = b.deviations
      /\ c.review = b.review /\ c.baseline = b.baseline \cup {actor}
      /\ c.observers = b.observers /\ c.correctors = b.correctors
  BY <1>1
<1>3. IsAggregate(c)
  BY <1>1 DEF IsAggregate
<1>4. AggregateTyped(c)
  BY <1>2, <1>3 DEF AggregateInv, AggregateTyped, Statuses
<1>5. b.status = "draft" /\ p.window \in Nat \ {0} /\ p # Nil
  BY RowsAssumption DEF CanFreezeProtocol, ValidProtocol
<1> QED
  BY <1>2, <1>4, <1>5
  DEF AggregateInv, Frozen, Ordered, Cited, RecordedIds, Together, Terminal, Decided

LEMMA CorrectKeeps ==
  ASSUME NEW b, AggregateInv(b), NEW x, NEW owner \in Owners,
         CanRegisterCorrection(b, x, owner), NEW c, c = RegisterCorrection(b, x, owner)
  PROVE  AggregateInv(c)
<1>1. x \in DOMAIN b.deviations /\ b.status = "paused"
  BY DEF CanRegisterCorrection
<1>2. /\ c = [status |-> b.status, revision |-> b.revision + 1, createdBy |-> b.createdBy,
              protocol |-> b.protocol, observations |-> b.observations,
              deviations |-> c.deviations, review |-> b.review, baseline |-> b.baseline,
              observers |-> b.observers, correctors |-> b.correctors \cup {owner}]
      /\ DOMAIN c.deviations = DOMAIN b.deviations
      /\ \A y \in DOMAIN b.deviations : c.deviations[y] = Corrected(b, x, owner)[y]
  BY <1>1, CorrectFields DEF AggregateInv
<1>3. /\ c.status = b.status /\ c.revision = b.revision + 1 /\ c.createdBy = b.createdBy
      /\ c.protocol = b.protocol /\ c.observations = b.observations
      /\ c.review = b.review /\ c.baseline = b.baseline
      /\ c.observers = b.observers /\ c.correctors = b.correctors \cup {owner}
  BY <1>2
<1>4. IsAggregate(c)
  BY <1>2, <1>3 DEF IsAggregate
<1>5. \A y \in DOMAIN b.deviations :
        /\ c.deviations[y] \in DeviationCases
        /\ c.deviations[y].qualified = b.deviations[y].qualified
        /\ c.deviations[y].status # "closed"
  <2> SUFFICES ASSUME NEW y \in DOMAIN b.deviations
               PROVE  /\ c.deviations[y] \in DeviationCases
                      /\ c.deviations[y].qualified = b.deviations[y].qualified
                      /\ c.deviations[y].status # "closed"
    OBVIOUS
  <2>1. b.deviations[y] \in DeviationCases /\ b.deviations[y].status # "closed"
    BY <1>1 DEF AggregateInv, AggregateTyped, Together
  <2>2. CASE y = x
    <3>1. c.deviations[y] = [status |-> "corrected", owner |-> TrimSpace[owner],
                             qualified |-> b.deviations[y].qualified]
      BY <1>1, <1>2, <2>2 DEF Corrected
    <3>2. TrimSpace[owner] \in Owners \cup {Nil}
      BY NamesAssumption
    <3> QED
      BY <2>1, <3>1, <3>2 DEF DeviationCases
  <2>3. CASE y # x
    BY <1>2, <2>1, <2>3 DEF Corrected
  <2> QED
    BY <2>2, <2>3
<1>6. AggregateTyped(c)
  BY <1>2, <1>3, <1>4, <1>5 DEF AggregateInv, AggregateTyped
<1>7. Cited(c)
  BY <1>2, <1>3, <1>5 DEF AggregateInv, Cited, RecordedIds
<1>8. Together(c)
  BY <1>1, <1>2, <1>3, <1>5 DEF Together, Decided
<1> QED
  BY <1>1, <1>3, <1>6, <1>7, <1>8 DEF AggregateInv, Frozen, Ordered, Terminal

LEMMA RecoverKeeps ==
  ASSUME NEW b, AggregateInv(b), NEW actor \in Actors, CanApproveRecovery(b),
         NEW c, c = ApproveRecovery(b, actor)
  PROVE  /\ AggregateInv(c) /\ DOMAIN c.deviations = DOMAIN b.deviations
         /\ \A x \in DOMAIN b.deviations : c.deviations[x].qualified = <<>>
<1>1. c = [status |-> "recovering", revision |-> b.revision + 1, createdBy |-> b.createdBy,
           protocol |-> b.protocol, observations |-> b.observations,
           deviations |-> [x \in DOMAIN b.deviations |-> StartRecovery(b.deviations[x])],
           review |-> b.review, baseline |-> b.baseline,
           observers |-> b.observers, correctors |-> b.correctors \cup {actor}]
  BY RecoverFields DEF AggregateInv, AggregateTyped
<1>2. /\ c.status = "recovering" /\ c.revision = b.revision + 1 /\ c.createdBy = b.createdBy
      /\ c.protocol = b.protocol /\ c.observations = b.observations
      /\ c.deviations = [x \in DOMAIN b.deviations |-> StartRecovery(b.deviations[x])]
      /\ c.review = b.review /\ c.baseline = b.baseline
      /\ c.observers = b.observers /\ c.correctors = b.correctors \cup {actor}
  BY <1>1
<1>3. IsAggregate(c)
  BY <1>1 DEF IsAggregate
<1>4. b.status = "paused" /\ DOMAIN b.deviations # {}
  BY DEF CanApproveRecovery
<1>5. \A x \in DOMAIN b.deviations :
        b.deviations[x] \in DeviationCases /\ b.deviations[x].status = "corrected"
  BY <1>4 DEF CanApproveRecovery, AggregateInv, AggregateTyped, Together, DeviationCases
<1>6. /\ DOMAIN c.deviations = DOMAIN b.deviations
      /\ \A x \in DOMAIN b.deviations :
           /\ c.deviations[x] \in DeviationCases
           /\ c.deviations[x].status = "corrected" /\ c.deviations[x].qualified = <<>>
  BY <1>2, <1>5, StartRecoveryFacts
<1>7. c.correctors \subseteq Owners
  BY <1>2, NamesAssumption DEF AggregateInv, AggregateTyped
<1>8. AggregateTyped(c)
  <2>1. /\ b.revision \in Nat \ {0} /\ b.createdBy \in Actors /\ b.protocol \in Protocols \cup {Nil}
        /\ b.observations \in Seq(ObservationRecords) /\ b.review \in Reviews \cup {Nil}
        /\ b.baseline \subseteq Actors /\ b.observers \subseteq Actors
        /\ DOMAIN b.deviations \subseteq DeviationIds
    BY DEF AggregateInv, AggregateTyped
  <2>2. c.revision \in Nat \ {0} /\ c.status \in Statuses
    BY <1>2, <2>1 DEF Statuses
  <2>3. /\ DOMAIN c.deviations \subseteq DeviationIds
        /\ \A x \in DOMAIN c.deviations : c.deviations[x] \in DeviationCases
    BY <1>6, <2>1
  <2>4. /\ c.createdBy = b.createdBy /\ c.protocol = b.protocol
        /\ c.observations = b.observations /\ c.review = b.review
        /\ c.baseline = b.baseline /\ c.observers = b.observers
    BY <1>2
  <2> QED
    BY <1>3, <1>7, <2>1, <2>2, <2>3, <2>4 DEF AggregateTyped
<1>9. Frozen(c) /\ c.protocol.window \in Nat \ {0}
  BY <1>2, <1>4 DEF AggregateInv, Frozen, Terminal
<1>10. Cited(c)
  <2>1. RecordedIds(c) = RecordedIds(b) /\ DOMAIN <<>> = {}
    BY <1>2 DEF RecordedIds
  <2> QED
    BY <1>6, <2>1 DEF AggregateInv, Cited
<1>11. Together(c)
  <2>1. c.status = "recovering" /\ Len(<<>>) = 0
    BY <1>2
  <2>2. /\ DOMAIN c.deviations # {}
        /\ \A x \in DOMAIN c.deviations :
             c.deviations[x].status = "corrected" /\ Len(c.deviations[x].qualified) = 0
    BY <1>4, <1>6, <2>1
  <2> QED
    BY <1>9, <2>1, <2>2 DEF Together, Decided
<1> QED
  BY <1>2, <1>6, <1>8, <1>9, <1>10, <1>11 DEF AggregateInv, Ordered

LEMMA ReviewKeeps ==
  ASSUME NEW b, AggregateInv(b), NEW r \in Reviews, CanDecideReview(b, r),
         NEW c, c = DecideReview(b, r)
  PROVE  AggregateInv(c)
<1>1. c = [status |-> IF r.decision = "approve" THEN "approved_sealed" ELSE "rejected_sealed",
           revision |-> b.revision + 1, createdBy |-> b.createdBy,
           protocol |-> b.protocol, observations |-> b.observations,
           deviations |-> b.deviations, review |-> r, baseline |-> b.baseline,
           observers |-> b.observers, correctors |-> b.correctors]
  BY ReviewFields DEF AggregateInv, AggregateTyped
<1>2. /\ c.status \in {"approved_sealed", "rejected_sealed"}
      /\ c.revision = b.revision + 1 /\ c.createdBy = b.createdBy
      /\ c.protocol = b.protocol /\ c.observations = b.observations
      /\ c.deviations = b.deviations /\ c.review = r /\ c.baseline = b.baseline
      /\ c.observers = b.observers /\ c.correctors = b.correctors
  BY <1>1
<1>3. IsAggregate(c)
  BY <1>1 DEF IsAggregate
<1>4. b.status = "pending_review"
  BY DEF CanDecideReview
<1>5. AggregateTyped(c)
  BY <1>2, <1>3 DEF AggregateInv, AggregateTyped, Statuses
<1>6. Frozen(c)
  BY <1>2, <1>4, RowsAssumption DEF AggregateInv, Frozen
<1>7. Together(c)
  BY <1>2, <1>4 DEF AggregateInv, Together, Decided
<1> QED
  BY <1>2, <1>5, <1>6, <1>7 DEF AggregateInv, Ordered, Cited, RecordedIds

Inputs == [id : ObservationIds, sequenceNo : Int, capturedAt : Nat,
           concentration : Int, temperature : Int, mass : Int]

\* Cutting a time down to whole microseconds leaves a time.
LEMMA UTCType == ASSUME NEW t \in Nat PROVE UTC(t) \in Nat
<1>1. Microsecond \in Nat \ {0}
  BY ClockAssumption
<1>2. t % Microsecond \in Nat /\ t % Microsecond <= t
  BY <1>1
<1> QED
  BY <1>2 DEF UTC

\* The deviations after an abnormal observation: all of them are open.
LEMMA RaisedFacts ==
  ASSUME NEW b, AggregateInv(b), b.status \in {"monitoring", "recovering"},
         NEW e, e = OpenDeviation \/ \E x \in DOMAIN b.deviations : e = b.deviations[x],
         NEW d, d = IF b.status = "recovering" THEN ResetRecovery(e) ELSE e
  PROVE  d \in DeviationCases /\ d.status = "open" /\ d.qualified = <<>>
<1>1. /\ OpenDeviation \in DeviationCases
      /\ OpenDeviation.status = "open" /\ OpenDeviation.qualified = <<>>
  BY OpenDeviationType DEF OpenDeviation
<1>2. CASE b.status = "monitoring"
  <2>1. DOMAIN b.deviations = {}
    BY <1>2 DEF AggregateInv, Together
  <2> QED
    BY <1>1, <1>2, <2>1
<1>3. CASE b.status = "recovering"
  <2>1. e \in DeviationCases /\ e.status # "closed"
    BY <1>1, <1>3 DEF AggregateInv, AggregateTyped, Together
  <2> QED
    BY <1>3, <2>1, ResetRecoveryFacts
<1> QED
  BY <1>2, <1>3

\* The deviations after an observation that counts: each has one credit more, and they
\* close together.
LEMMA CountedFacts ==
  ASSUME NEW b, AggregateInv(b), b.status = "recovering",
         NEW o \in Inputs, o.id \notin RecordedIds(b), NEW d, d = Counted(b, o)
  PROVE  /\ DOMAIN d = DOMAIN b.deviations /\ DOMAIN d # {}
         /\ b.protocol.window \in Nat
         /\ \E n \in Nat :
              /\ n < b.protocol.window
              /\ \A x \in DOMAIN d :
                   /\ Len(b.deviations[x].qualified) = n
                   /\ d[x] \in DeviationCases
                   /\ d[x].qualified = Append(b.deviations[x].qualified, o.id)
                   /\ Len(d[x].qualified) = n + 1
                   /\ d[x].status = IF n + 1 = b.protocol.window THEN "closed" ELSE "corrected"
<1>1. /\ DOMAIN b.deviations # {} /\ b.protocol.window \in Nat
      /\ \A x, y \in DOMAIN b.deviations :
           Len(b.deviations[x].qualified) = Len(b.deviations[y].qualified)
  BY DEF AggregateInv, Together, Frozen
<1>2. \A x \in DOMAIN b.deviations :
        /\ b.deviations[x] \in DeviationCases /\ b.deviations[x].status = "corrected"
        /\ Len(b.deviations[x].qualified) < b.protocol.window
        /\ \A i \in DOMAIN b.deviations[x].qualified : b.deviations[x].qualified[i] # o.id
  BY DEF AggregateInv, AggregateTyped, Together, Cited
<1>3. DOMAIN d = DOMAIN b.deviations
  BY DEF Counted
<1>4. \A x \in DOMAIN d : d[x] = CountQualified(b.deviations[x], o.id, b.protocol.window)
  BY DEF Counted
<1>5. o.id \in ObservationIds
  BY DEF Inputs
<1>6. PICK z \in DOMAIN b.deviations : TRUE
  BY <1>1
<1> DEFINE n == Len(b.deviations[z].qualified)
<1>7. n \in Nat /\ n < b.protocol.window
  BY <1>2 DEF DeviationCases
<1>8. ASSUME NEW x \in DOMAIN d
      PROVE  /\ Len(b.deviations[x].qualified) = n
             /\ d[x] \in DeviationCases
             /\ d[x].qualified = Append(b.deviations[x].qualified, o.id)
             /\ Len(d[x].qualified) = n + 1
             /\ d[x].status = IF n + 1 = b.protocol.window THEN "closed" ELSE "corrected"
  <2>1. Len(b.deviations[x].qualified) = n
    BY <1>1, <1>3
  <2>2. PICK e \in DeviationCases : e = b.deviations[x]
    BY <1>2, <1>3
  <2>3. /\ CountQualified(e, o.id, b.protocol.window) \in DeviationCases
        /\ CountQualified(e, o.id, b.protocol.window).qualified = Append(e.qualified, o.id)
        /\ Len(Append(e.qualified, o.id)) = Len(e.qualified) + 1
        /\ CountQualified(e, o.id, b.protocol.window).status =
             IF Len(e.qualified) + 1 >= b.protocol.window THEN "closed" ELSE "corrected"
    <3>1. e.status = "corrected" /\ \A i \in DOMAIN e.qualified : e.qualified[i] # o.id
      BY <1>2, <1>3, <2>2
    <3> HIDE DEF n
    <3> QED
      BY <1>1, <1>5, <3>1, CountQualifiedFacts
  <2>4. n + 1 >= b.protocol.window <=> n + 1 = b.protocol.window
    BY <1>1, <1>7
  <2> QED
    BY <1>4, <2>1, <2>2, <2>3, <2>4
<1> QED
  BY <1>1, <1>3, <1>7, <1>8

\* What CanAddObservation lets in as a record.
LEMMA RecordedFacts ==
  ASSUME NEW b, AggregateInv(b), NEW o \in Inputs, CanAddObservation(b, o), NEW codes
  PROVE  /\ Recorded(o, codes) \in ObservationRecords /\ Recorded(o, codes).id = o.id
         /\ Recorded(o, codes).sequenceNo = o.sequenceNo
         /\ \A i \in DOMAIN b.observations : b.observations[i].sequenceNo < o.sequenceNo
<1>1. o.id \in ObservationIds /\ o.sequenceNo \in Nat \ {0} /\ o.capturedAt \in Nat /\ o.mass \in Int
  BY DEF Inputs, CanAddObservation, ValidShape
<1>2. UTC(o.capturedAt) \in Nat
  BY <1>1, UTCType
<1>3. Recorded(o, codes) \in ObservationRecords
  BY <1>1, <1>2 DEF Recorded, ObservationRecords
<1>4. ASSUME NEW i \in DOMAIN b.observations
      PROVE  b.observations[i].sequenceNo < o.sequenceNo
  <2>1. b.observations \in Seq(ObservationRecords) /\ Ordered(b)
    BY DEF AggregateInv, AggregateTyped
  <2> DEFINE n == Len(b.observations)
  <2>2. n \in Nat /\ DOMAIN b.observations = 1 .. n /\ i \in 1 .. n /\ b.observations # <<>>
    BY <2>1
  <2>3. b.observations[i] \in ObservationRecords /\ b.observations[n] \in ObservationRecords
    BY <2>1, <2>2
  <2>4. LastObservation(b) = b.observations[n]
    BY <2>2 DEF LastObservation
  <2>5. b.observations[n].sequenceNo < o.sequenceNo
    BY <1>1, <2>2, <2>3, <2>4 DEF CanAddObservation, ObservationRecords
  <2>6. CASE i = n
    BY <2>5, <2>6
  <2>7. CASE i # n
    <3>1. i < n /\ n \in DOMAIN b.observations
      BY <2>2, <2>7
    <3>2. b.observations[i].sequenceNo < b.observations[n].sequenceNo
      BY <2>1, <3>1 DEF Ordered
    <3>3. b.observations[i].sequenceNo \in Nat /\ b.observations[n].sequenceNo \in Nat
      BY <2>3 DEF ObservationRecords
    <3> QED
      BY <1>1, <2>5, <3>2, <3>3
  <2> QED
    BY <2>6, <2>7
<1> QED
  BY <1>3, <1>4 DEF Recorded

LEMMA CodesType == ASSUME NEW b, NEW o PROVE Codes(b, o) \in SUBSET RuleCodes
  BY DEF Codes, EvaluateObservation

\* What is in a sequence after one more element.
LEMMA Appended ==
  ASSUME NEW S, NEW s \in Seq(S), NEW e \in S
  PROVE  /\ Append(s, e) \in Seq(S) /\ Len(Append(s, e)) = Len(s) + 1 /\ Len(s) \in Nat
         /\ DOMAIN Append(s, e) = DOMAIN s \cup {Len(s) + 1} /\ Len(s) + 1 \notin DOMAIN s
         /\ DOMAIN s = 1 .. Len(s)
         /\ \A i \in DOMAIN s : Append(s, e)[i] = s[i]
         /\ Append(s, e)[Len(s) + 1] = e
  OBVIOUS

\* An observation after all others keeps the order, and what the deviations cite.
LEMMA ObservedRecords ==
  ASSUME NEW b, AggregateInv(b), NEW o \in Inputs, CanAddObservation(b, o), NEW codes,
         NEW c, c.observations = Append(b.observations, Recorded(o, codes))
  PROVE  /\ c.observations \in Seq(ObservationRecords) /\ Ordered(c)
         /\ RecordedIds(c) = RecordedIds(b) \cup {o.id}
<1> DEFINE r == Recorded(o, codes)
           n == Len(b.observations)
<1>1. b.observations \in Seq(ObservationRecords) /\ Ordered(b)
  BY DEF AggregateInv, AggregateTyped
<1>2. /\ r \in ObservationRecords /\ r.id = o.id /\ r.sequenceNo = o.sequenceNo
      /\ \A i \in DOMAIN b.observations : b.observations[i].sequenceNo < o.sequenceNo
  BY RecordedFacts
<1> HIDE DEF r
<1>3. /\ c.observations \in Seq(ObservationRecords) /\ n \in Nat /\ DOMAIN b.observations = 1 .. n
      /\ DOMAIN c.observations = DOMAIN b.observations \cup {n + 1}
      /\ n + 1 \notin DOMAIN b.observations
      /\ \A i \in DOMAIN b.observations : c.observations[i] = b.observations[i]
      /\ c.observations[n + 1] = r
  BY <1>1, <1>2, Appended DEF r
<1>4. ASSUME NEW i \in DOMAIN c.observations, NEW j \in DOMAIN c.observations, i < j
      PROVE  c.observations[i].sequenceNo < c.observations[j].sequenceNo
  <2>1. i \in DOMAIN b.observations
    BY <1>3, <1>4
  <2>2. CASE j \in DOMAIN b.observations
    BY <1>1, <1>3, <1>4, <2>1, <2>2 DEF Ordered
  <2>3. CASE j = n + 1
    BY <1>2, <1>3, <2>1, <2>3
  <2> QED
    BY <1>3, <2>2, <2>3
<1>5. RecordedIds(c) = RecordedIds(b) \cup {r.id}
  BY <1>3 DEF RecordedIds
<1> QED
  BY <1>2, <1>3, <1>4, <1>5 DEF Ordered

\* The three things an observation does: it pauses the batch, it is one more of the
\* monitoring, or it counts for the recovery, as number n + 1, and may end it.
Raising(b, o, c) ==
  /\ Codes(b, o) # {} /\ c.status = "paused"
  /\ DOMAIN c.deviations = DOMAIN b.deviations \cup ({o.id} \X Codes(b, o))
  /\ \A x \in DOMAIN c.deviations :
       /\ c.deviations[x] \in DeviationCases
       /\ c.deviations[x].status = "open" /\ c.deviations[x].qualified = <<>>

Monitoring(b, o, c) ==
  /\ Codes(b, o) = {} /\ b.status = "monitoring" /\ c.status = "monitoring"
  /\ c.deviations = b.deviations

Counting(b, o, c, n) ==
  /\ Codes(b, o) = {} /\ b.status = "recovering"
  /\ DOMAIN c.deviations = DOMAIN b.deviations /\ DOMAIN c.deviations # {}
  /\ n \in Nat /\ n < b.protocol.window
  /\ c.status = IF n + 1 = b.protocol.window THEN "pending_review" ELSE "recovering"
  /\ \A x \in DOMAIN c.deviations :
       /\ Len(b.deviations[x].qualified) = n
       /\ c.deviations[x] \in DeviationCases
       /\ c.deviations[x].qualified = Append(b.deviations[x].qualified, o.id)
       /\ Len(c.deviations[x].qualified) = n + 1
       /\ c.deviations[x].status = IF n + 1 = b.protocol.window THEN "closed" ELSE "corrected"

LEMMA ObservedCases ==
  ASSUME NEW b, AggregateInv(b), NEW o \in Inputs, NEW actor, CanAddObservation(b, o),
         o.id \notin RecordedIds(b), NEW c, c = AddObservation(b, o, actor)
  PROVE  Raising(b, o, c) \/ Monitoring(b, o, c) \/ \E n \in Nat : Counting(b, o, c, n)
<1>1. c.status = ObservedStatus(b, o) /\ c.deviations = ObservedDeviations(b, o)
  BY ObserveFields DEF AggregateInv, AggregateTyped
<1>2. b.status \in {"monitoring", "recovering"}
  BY DEF CanAddObservation
<1>3. CASE Codes(b, o) # {}
  <2>1. c.status = "paused" /\ c.deviations = RaiseDeviations(b, o, Codes(b, o))
    BY <1>1, <1>3 DEF ObservedStatus, ObservedDeviations
  <2> DEFINE raised == {o.id} \X Codes(b, o)
             all    == [x \in DOMAIN b.deviations \cup raised |->
                          IF x \in raised THEN OpenDeviation ELSE b.deviations[x]]
  <2>2. /\ DOMAIN all = DOMAIN b.deviations \cup raised
        /\ \A x \in DOMAIN all :
             all[x] = IF x \in raised THEN OpenDeviation ELSE b.deviations[x]
    OBVIOUS
  <2>3. c.deviations = IF b.status = "recovering"
                       THEN [x \in DOMAIN all |-> ResetRecovery(all[x])] ELSE all
    BY <2>1 DEF RaiseDeviations
  <2>4. DOMAIN c.deviations = DOMAIN b.deviations \cup raised
    BY <2>2, <2>3
  <2>5. ASSUME NEW x \in DOMAIN c.deviations
        PROVE  /\ c.deviations[x] \in DeviationCases
               /\ c.deviations[x].status = "open" /\ c.deviations[x].qualified = <<>>
    <3>1. /\ all[x] = IF x \in raised THEN OpenDeviation ELSE b.deviations[x]
          /\ c.deviations[x] = IF b.status = "recovering" THEN ResetRecovery(all[x]) ELSE all[x]
      BY <2>2, <2>3, <2>4
    <3> HIDE DEF all, raised
    <3>2. all[x] = OpenDeviation \/ \E y \in DOMAIN b.deviations : all[x] = b.deviations[y]
      BY <2>4, <3>1
    <3> QED
      BY <1>2, <3>1, <3>2, RaisedFacts
  <2> QED
    BY <1>3, <2>1, <2>4, <2>5 DEF Raising
<1>4. CASE Codes(b, o) = {} /\ b.status = "monitoring"
  BY <1>1, <1>4 DEF ObservedStatus, ObservedDeviations, Monitoring
<1>5. CASE Codes(b, o) = {} /\ b.status = "recovering"
  <2>1. c.deviations = Counted(b, o)
    BY <1>1, <1>5 DEF ObservedDeviations
  <2>2. /\ DOMAIN c.deviations = DOMAIN b.deviations /\ DOMAIN c.deviations # {}
        /\ b.protocol.window \in Nat
        /\ \E n \in Nat :
             /\ n < b.protocol.window
             /\ \A x \in DOMAIN c.deviations :
                  /\ Len(b.deviations[x].qualified) = n
                  /\ c.deviations[x] \in DeviationCases
                  /\ c.deviations[x].qualified = Append(b.deviations[x].qualified, o.id)
                  /\ Len(c.deviations[x].qualified) = n + 1
                  /\ c.deviations[x].status = IF n + 1 = b.protocol.window
                                              THEN "closed" ELSE "corrected"
    BY <1>5, <2>1, CountedFacts
  <2>3. c.status = IF \A x \in DOMAIN c.deviations : c.deviations[x].status = "closed"
                   THEN "pending_review" ELSE "recovering"
    BY <1>1, <1>5, <2>1 DEF ObservedStatus
  <2> QED
    BY <1>5, <2>2, <2>3 DEF Counting
<1> QED
  BY <1>2, <1>3, <1>4, <1>5

LEMMA ObserveKeeps ==
  ASSUME NEW b, AggregateInv(b), NEW o \in Inputs, NEW actor \in Actors,
         CanAddObservation(b, o), o.id \notin RecordedIds(b),
         NEW c, c = AddObservation(b, o, actor)
  PROVE  AggregateInv(c)
<1>1. c = [status |-> ObservedStatus(b, o), revision |-> b.revision + 1,
           createdBy |-> b.createdBy, protocol |-> b.protocol,
           observations |-> Append(b.observations, Recorded(o, Codes(b, o))),
           deviations |-> ObservedDeviations(b, o), review |-> b.review,
           baseline |-> b.baseline, observers |-> b.observers \cup {actor},
           correctors |-> b.correctors]
  BY ObserveFields DEF AggregateInv, AggregateTyped
<1>2. /\ c.revision = b.revision + 1 /\ c.createdBy = b.createdBy /\ c.protocol = b.protocol
      /\ c.observations = Append(b.observations, Recorded(o, Codes(b, o)))
      /\ c.review = b.review /\ c.baseline = b.baseline
      /\ c.observers = b.observers \cup {actor} /\ c.correctors = b.correctors
  BY <1>1
<1>3. IsAggregate(c)
  BY <1>1 DEF IsAggregate
<1>4. /\ c.observations \in Seq(ObservationRecords) /\ Ordered(c)
      /\ RecordedIds(c) = RecordedIds(b) \cup {o.id}
  <2>1. ASSUME NEW codes, c.observations = Append(b.observations, Recorded(o, codes))
        PROVE  /\ c.observations \in Seq(ObservationRecords) /\ Ordered(c)
               /\ RecordedIds(c) = RecordedIds(b) \cup {o.id}
    BY <2>1, ObservedRecords
  <2> QED
    BY <1>2, <2>1
<1>5. /\ b.status \in {"monitoring", "recovering"}
      /\ b.protocol # Nil /\ b.protocol.window \in Nat \ {0}
      /\ o.id \in ObservationIds /\ Codes(b, o) \in SUBSET RuleCodes
  BY CodesType DEF CanAddObservation, AggregateInv, Frozen, Inputs
<1>6. /\ c.status \in {"paused", "monitoring", "pending_review", "recovering"}
      /\ DOMAIN c.deviations \subseteq DeviationIds
      /\ \A x \in DOMAIN c.deviations : c.deviations[x] \in DeviationCases
      /\ Cited(c) /\ Together(c)
  <2>1. CASE Raising(b, o, c)
    <3>1. DOMAIN c.deviations \subseteq DeviationIds
      BY <1>5, <2>1 DEF Raising, AggregateInv, AggregateTyped, DeviationIds
    <3>2. ASSUME NEW x \in DOMAIN c.deviations
          PROVE  x[1] \in RecordedIds(c)
      BY <1>4, <2>1 DEF Raising, AggregateInv, Cited
    <3>3. Cited(c)
      <4>1. DOMAIN <<>> = {}
        OBVIOUS
      <4> QED
        BY <2>1, <3>2, <4>1 DEF Raising, Cited
    <3>4. Together(c)
      BY <2>1 DEF Raising, Together, Decided
    <3> QED
      BY <2>1, <3>1, <3>3, <3>4 DEF Raising
  <2>2. CASE Monitoring(b, o, c)
    <3>1. DOMAIN c.deviations = {}
      BY <2>2 DEF Monitoring, AggregateInv, Together
    <3> QED
      BY <2>2, <3>1 DEF Monitoring, Cited, Together, Decided
  <2>3. ASSUME NEW n \in Nat, Counting(b, o, c, n)
        PROVE  /\ c.status \in {"paused", "monitoring", "pending_review", "recovering"}
               /\ DOMAIN c.deviations \subseteq DeviationIds
               /\ \A x \in DOMAIN c.deviations : c.deviations[x] \in DeviationCases
               /\ Cited(c) /\ Together(c)
    <3>1. /\ c.status = IF n + 1 = b.protocol.window THEN "pending_review" ELSE "recovering"
          /\ n < b.protocol.window
          /\ DOMAIN c.deviations = DOMAIN b.deviations /\ DOMAIN c.deviations # {}
          /\ \A x \in DOMAIN c.deviations :
               /\ c.deviations[x] \in DeviationCases
               /\ c.deviations[x].qualified = Append(b.deviations[x].qualified, o.id)
               /\ Len(c.deviations[x].qualified) = n + 1
               /\ c.deviations[x].status = IF n + 1 = b.protocol.window
                                           THEN "closed" ELSE "corrected"
      BY <2>3 DEF Counting
    <3>2. DOMAIN c.deviations \subseteq DeviationIds
      BY <3>1 DEF AggregateInv, AggregateTyped
    <3>3. ASSUME NEW x \in DOMAIN c.deviations
          PROVE  /\ x[1] \in RecordedIds(c)
                 /\ \A i \in DOMAIN c.deviations[x].qualified :
                      c.deviations[x].qualified[i] \in RecordedIds(c)
      <4>1. PICK q \in Seq(ObservationIds) : q = b.deviations[x].qualified
        BY <3>1 DEF AggregateInv, AggregateTyped, DeviationCases
      <4>2. x[1] \in RecordedIds(b) /\ \A i \in DOMAIN q : q[i] \in RecordedIds(b)
        BY <3>1, <4>1 DEF AggregateInv, Cited
      <4>3. c.deviations[x].qualified = Append(q, o.id)
        BY <3>1, <4>1
      <4>4. /\ DOMAIN Append(q, o.id) = DOMAIN q \cup {Len(q) + 1}
            /\ \A i \in DOMAIN q : Append(q, o.id)[i] = q[i]
            /\ Append(q, o.id)[Len(q) + 1] = o.id
        BY <1>5, Appended
      <4> QED
        BY <1>4, <4>2, <4>3, <4>4
    <3>4. Together(c)
      <4>1. CASE n + 1 = b.protocol.window
        BY <1>2, <3>1, <4>1 DEF Together, Decided
      <4>2. CASE n + 1 # b.protocol.window
        <5>1. c.status = "recovering" /\ n + 1 < b.protocol.window
          BY <1>5, <3>1, <4>2
        <5>2. \A x \in DOMAIN c.deviations :
                Len(c.deviations[x].qualified) = n + 1 /\ c.deviations[x].status = "corrected"
          BY <3>1, <4>2
        <5> QED
          BY <1>2, <3>1, <5>1, <5>2 DEF Together, Decided
      <4> QED
        BY <4>1, <4>2
    <3> QED
      BY <3>1, <3>2, <3>3, <3>4 DEF Cited
  <2> QED
    BY <2>1, <2>2, <2>3, ObservedCases
<1>7. AggregateTyped(c)
  <2>1. b.revision \in Nat \ {0} /\ actor \in Actors
    BY DEF AggregateInv, AggregateTyped
  <2>2. c.revision \in Nat \ {0} /\ c.status \in Statuses
    BY <1>2, <1>6, <2>1 DEF Statuses
  <2> QED
    BY <1>2, <1>3, <1>4, <1>6, <2>2 DEF AggregateInv, AggregateTyped
<1>8. Frozen(c)
  BY <1>2, <1>5, <1>6 DEF Frozen, Terminal
<1> QED
  BY <1>4, <1>6, <1>7, <1>8 DEF AggregateInv

-----------------------------------------------------------------------------
(* The trail                                                                 *)

\* A set of numbers has a least element: induction, as a least counterexample.
LEMMA LeastElement ==
  ASSUME NEW T \in SUBSET Nat, T # {}
  PROVE  \E x \in T : \A y \in T : x <= y
<1> DEFINE R == {p \in Nat \X Nat : p[1] < p[2]}
<1>1. IsWellFoundedOn(R, Nat)
  BY NatLessThanWellFounded DEF OpToRel
<1>2. PICK x \in T : \A y \in T : ~(<<y, x>> \in R)
  <2> HIDE DEF R
  <2> QED
    BY <1>1, WFMin
<1>3. ASSUME NEW y \in T
      PROVE  x <= y
  <2>1. x \in Nat /\ y \in Nat /\ <<y, x>> \in Nat \X Nat
    OBVIOUS
  <2>2. ~(<<y, x>>[1] < <<y, x>>[2])
    BY <1>2, <2>1
  <2> QED
    BY <2>1, <2>2
<1> QED
  BY <1>3

\* The tale of each beginning of a trail.
IsTale(tale, s) ==
  tale = [n \in 0 .. Len(s) |-> IF n = 0 THEN Untold ELSE Retell(tale[n - 1], s[n])]

LEMMA TaleExists ==
  ASSUME NEW s \in Seq(Events)
  PROVE  \E tale : IsTale(tale, s)
<1> DEFINE Upto(tale, m) ==
             tale = [n \in 0 .. m |-> IF n = 0 THEN Untold ELSE Retell(tale[n - 1], s[n])]
           Bad == {m \in Nat : ~\E tale : Upto(tale, m)}
<1>1. Bad = {}
  <2>1. SUFFICES ASSUME Bad # {}
                 PROVE  FALSE
    OBVIOUS
  <2>2. PICK m \in Bad : \A k \in Bad : m <= k
    BY <2>1, LeastElement
  <2>3. m # 0
    <3>1. Upto([n \in 0 .. 0 |-> Untold], 0)
      OBVIOUS
    <3> QED
      BY <3>1
  <2>4. m \in Nat /\ m - 1 \in Nat /\ m - 1 \notin Bad
    <3>1. m \in Nat /\ m - 1 \in Nat /\ ~(m <= m - 1)
      BY <2>2, <2>3
    <3> HIDE DEF Bad
    <3> QED
      BY <2>2, <3>1
  <2>5. PICK tale : Upto(tale, m - 1)
    BY <2>4
  <2> DEFINE next == [n \in 0 .. m |-> IF n < m THEN tale[n] ELSE Retell(tale[m - 1], s[m])]
  <2>6. \A n \in 0 .. m - 1 : tale[n] = IF n = 0 THEN Untold ELSE Retell(tale[n - 1], s[n])
    BY <2>5
  <2>7. ASSUME NEW n \in 0 .. m
        PROVE  next[n] = IF n = 0 THEN Untold ELSE Retell(next[n - 1], s[n])
    <3>1. CASE n = m
      <4>1. next[m] = Retell(tale[m - 1], s[m]) /\ next[m - 1] = tale[m - 1]
        BY <2>4
      <4> QED
        BY <2>3, <3>1, <4>1
    <3>2. CASE n # m
      <4>1. n \in 0 .. m - 1 /\ next[n] = tale[n]
        BY <2>4, <3>2
      <4>2. n # 0 => next[n - 1] = tale[n - 1]
        BY <2>4, <3>2
      <4> HIDE DEF next
      <4> QED
        BY <2>6, <4>1, <4>2
    <3> QED
      BY <3>1, <3>2
  <2>8. next = [n \in 0 .. m |-> next[n]]
    OBVIOUS
  <2>9. Upto(next, m)
    <3> HIDE DEF next
    <3> QED
      BY <2>7, <2>8
  <2> QED
    BY <2>2, <2>9
<1>2. Len(s) \in Nat
  OBVIOUS
<1> QED
  BY <1>1, <1>2 DEF IsTale

\* Trails that begin alike tell alike.
LEMMA TalesAgree ==
  ASSUME NEW s \in Seq(Events), NEW r \in Seq(Events), NEW t, NEW u, IsTale(t, s), IsTale(u, r),
         NEW k \in Nat, k <= Len(s), k <= Len(r), \A i \in 1 .. k : s[i] = r[i]
  PROVE  t[k] = u[k]
<1> DEFINE Bad == {m \in 0 .. k : t[m] # u[m]}
<1>1. Len(s) \in Nat /\ Len(r) \in Nat
  OBVIOUS
<1>2. /\ \A n \in 0 .. k : t[n] = IF n = 0 THEN Untold ELSE Retell(t[n - 1], s[n])
      /\ \A n \in 0 .. k : u[n] = IF n = 0 THEN Untold ELSE Retell(u[n - 1], r[n])
  <2>1. 0 .. k \subseteq 0 .. Len(s) /\ 0 .. k \subseteq 0 .. Len(r)
    BY <1>1
  <2>2. \A n \in 0 .. Len(s) : t[n] = IF n = 0 THEN Untold ELSE Retell(t[n - 1], s[n])
    BY DEF IsTale
  <2>3. \A n \in 0 .. Len(r) : u[n] = IF n = 0 THEN Untold ELSE Retell(u[n - 1], r[n])
    BY DEF IsTale
  <2> QED
    BY <2>1, <2>2, <2>3
<1>3. ASSUME Bad # {}
      PROVE  FALSE
  <2>1. PICK m \in Bad : \A j \in Bad : m <= j
    <3>1. Bad \in SUBSET Nat
      OBVIOUS
    <3> HIDE DEF Bad
    <3> QED
      BY <1>3, <3>1, LeastElement
  <2>2. m # 0
    BY <1>2, <2>1
  <2>3. m - 1 \in 0 .. k /\ m \in 1 .. k
    BY <2>1, <2>2
  <2>4. t[m - 1] = u[m - 1]
    BY <2>1, <2>3
  <2>5. t[m] = Retell(t[m - 1], s[m]) /\ u[m] = Retell(u[m - 1], r[m]) /\ s[m] = r[m]
    BY <1>2, <2>3
  <2> QED
    BY <2>1, <2>4, <2>5
<1> QED
  BY <1>3

LEMMA RetoldIsTale ==
  ASSUME NEW s \in Seq(Events)
  PROVE  \E tale : IsTale(tale, s) /\ Retold(s) = tale[Len(s)]
<1>1. \E tale : IsTale(tale, s)
  BY TaleExists
<1> DEFINE told == CHOOSE tale : IsTale(tale, s)
<1>2. IsTale(told, s)
  BY <1>1
<1>3. Retold(s) = told[Len(s)]
  BY DEF Retold, IsTale
<1> QED
  BY <1>2, <1>3

\* What is told of a trail, event by event.
LEMMA RetoldStep ==
  ASSUME NEW s \in Seq(Events), NEW e \in Events
  PROVE  Retold(Append(s, e)) = Retell(Retold(s), e)
<1> DEFINE n == Len(s)
<1>1. /\ Append(s, e) \in Seq(Events) /\ Len(Append(s, e)) = n + 1 /\ n \in Nat
      /\ Append(s, e)[n + 1] = e /\ \A i \in 1 .. n : s[i] = Append(s, e)[i]
  OBVIOUS
<1>2. PICK t : IsTale(t, s) /\ Retold(s) = t[n]
  BY RetoldIsTale
<1>3. PICK r \in Seq(Events) : r = Append(s, e)
  BY <1>1
<1>4. PICK u : IsTale(u, r) /\ Retold(r) = u[n + 1]
  BY <1>1, <1>3, RetoldIsTale
<1>5. t[n] = u[n]
  <2>1. n <= Len(s) /\ n <= Len(r) /\ \A i \in 1 .. n : s[i] = r[i]
    BY <1>1, <1>3
  <2> HIDE DEF n
  <2> QED
    BY <1>1, <1>2, <1>4, <2>1, TalesAgree
<1>6. u[n + 1] = Retell(u[n], r[n + 1])
  BY <1>1, <1>3, <1>4 DEF IsTale
<1> QED
  BY <1>1, <1>2, <1>3, <1>4, <1>5, <1>6

LEMMA RetoldEmpty == Retold(<<>>) = Untold
<1>1. <<>> \in Seq(Events) /\ Len(<<>>) = 0
  OBVIOUS
<1>2. PICK t : IsTale(t, <<>>) /\ Retold(<<>>) = t[0]
  BY <1>1, RetoldIsTale
<1> QED
  BY <1>1, <1>2 DEF IsTale

\* One event tells what its operation did.
LEMMA NewTells ==
  ASSUME NEW actor \in Actors, NEW c, c = NewTreatmentBatch(actor),
         NEW e, e.type = "BATCH_CREATED"
  PROVE  Tells(Retell(Untold, e), c)
<1>1. c.status = "draft" /\ c.deviations = <<>> /\ DOMAIN c.deviations = {}
  BY DEF NewTreatmentBatch
<1>2. Retell(Untold, e) = [status |-> "draft", open |-> {}, window |-> 0, run |-> 0]
  BY DEF Retell, Untold
<1>3. OpenDeviations(c) = {}
  BY <1>1 DEF OpenDeviations
<1> QED
  BY <1>1, <1>2, <1>3 DEF Tells, Tales, Statuses

LEMMA FreezeTells ==
  ASSUME NEW b, AggregateInv(b), NEW s, Tells(s, b), NEW p, CanFreezeProtocol(b, p),
         NEW actor, NEW c, c = FreezeProtocol(b, p, actor), NEW e, e.type = "BASELINE_FROZEN"
  PROVE  Tells(Retell(s, e), c)
<1>1. c.status = "monitoring" /\ c.deviations = b.deviations
  BY FreezeFields DEF AggregateInv, AggregateTyped
<1>2. s \in Tales /\ s.open = OpenDeviations(b)
  BY DEF Tells
<1>3. Retell(s, e) = [status |-> "monitoring", open |-> s.open, window |-> s.window, run |-> s.run]
  BY <1>2 DEF Retell, Tales
<1>4. OpenDeviations(c) = OpenDeviations(b)
  BY <1>1 DEF OpenDeviations
<1> QED
  BY <1>1, <1>2, <1>3, <1>4 DEF Tells, Tales, Statuses

LEMMA CorrectTells ==
  ASSUME NEW b, AggregateInv(b), NEW s, Tells(s, b), NEW x, NEW owner \in Owners,
         CanRegisterCorrection(b, x, owner), NEW c, c = RegisterCorrection(b, x, owner),
         NEW e, e.type = "DEVIATION_CORRECTED"
  PROVE  Tells(Retell(s, e), c)
<1>1. x \in DOMAIN b.deviations /\ b.status = "paused"
  BY DEF CanRegisterCorrection
<1>2. /\ c.status = b.status /\ DOMAIN c.deviations = DOMAIN b.deviations
      /\ \A y \in DOMAIN b.deviations : c.deviations[y] = Corrected(b, x, owner)[y]
  BY <1>1, CorrectFields DEF AggregateInv
<1>3. \A y \in DOMAIN b.deviations : b.deviations[y].status # "closed"
  BY <1>1 DEF AggregateInv, Together
<1>4. ASSUME NEW y \in DOMAIN c.deviations
      PROVE  c.deviations[y].status # "closed"
  <2>1. c.deviations[y] = IF y = x THEN [status |-> "corrected", owner |-> TrimSpace[owner],
                                         qualified |-> b.deviations[x].qualified]
                          ELSE b.deviations[y]
    BY <1>2 DEF Corrected
  <2>2. CASE y = x
    BY <2>1, <2>2
  <2>3. CASE y # x
    BY <1>2, <1>3, <2>1, <2>3
  <2> QED
    BY <2>2, <2>3
<1>5. OpenDeviations(c) = OpenDeviations(b)
  BY <1>2, <1>3, <1>4 DEF OpenDeviations
<1>6. Retell(s, e) = s
  BY DEF Retell
<1> QED
  BY <1>1, <1>2, <1>5, <1>6 DEF Tells

LEMMA RecoverTells ==
  ASSUME NEW b, AggregateInv(b), NEW s, Tells(s, b), NEW actor \in Actors, CanApproveRecovery(b),
         NEW c, c = ApproveRecovery(b, actor),
         NEW e, e.type = "RECOVERY_APPROVED", e.payload = [window |-> b.protocol.window]
  PROVE  Tells(Retell(s, e), c)
<1>1. /\ AggregateInv(c) /\ DOMAIN c.deviations = DOMAIN b.deviations
      /\ \A x \in DOMAIN b.deviations : c.deviations[x].qualified = <<>>
  BY RecoverKeeps
<1>2. c.status = "recovering" /\ c.protocol = b.protocol
  BY RecoverFields DEF AggregateInv, AggregateTyped
<1>3. b.status = "paused"
  BY DEF CanApproveRecovery
<1>4. \A x \in DOMAIN b.deviations : b.deviations[x].status # "closed"
  BY <1>3 DEF AggregateInv, Together
<1>5. \A x \in DOMAIN c.deviations : c.deviations[x].status # "closed"
  BY <1>1, <1>2 DEF AggregateInv, Together
<1>6. OpenDeviations(c) = OpenDeviations(b)
  BY <1>1, <1>4, <1>5 DEF OpenDeviations
<1>7. s \in Tales /\ s.open = OpenDeviations(b)
  BY DEF Tells
<1>8. Retell(s, e) = [status |-> "recovering", open |-> s.open,
                      window |-> b.protocol.window, run |-> 0]
  <2>1. e.payload.window = b.protocol.window
    OBVIOUS
  <2>2. s = [status |-> s.status, open |-> s.open, window |-> s.window, run |-> s.run]
    BY <1>7 DEF Tales
  <2> QED
    BY <2>1, <2>2 DEF Retell
<1>9. b.protocol.window \in Nat
  BY <1>3 DEF AggregateInv, Frozen
<1>10. \A x \in DOMAIN c.deviations : Len(c.deviations[x].qualified) = 0
  BY <1>1
<1> QED
  BY <1>2, <1>6, <1>7, <1>8, <1>9, <1>10 DEF Tells, Tales, Statuses

LEMMA ReviewTells ==
  ASSUME NEW b, AggregateInv(b), NEW s, Tells(s, b), NEW r, NEW c, c = DecideReview(b, r),
         NEW e, e.type = "REVIEW_DECIDED", e.payload.decision = r.decision
  PROVE  Tells(Retell(s, e), c)
<1>1. /\ c.status = IF r.decision = "approve" THEN "approved_sealed" ELSE "rejected_sealed"
      /\ c.deviations = b.deviations
  BY ReviewFields DEF AggregateInv, AggregateTyped
<1>2. s \in Tales /\ s.open = OpenDeviations(b)
  BY DEF Tells
<1>3. Retell(s, e) = [status |-> c.status, open |-> s.open, window |-> s.window, run |-> s.run]
  BY <1>1, <1>2 DEF Retell, Tales
<1>4. OpenDeviations(c) = OpenDeviations(b)
  BY <1>1 DEF OpenDeviations
<1> QED
  BY <1>1, <1>2, <1>3, <1>4 DEF Tells, Tales, Statuses

LEMMA ObserveTells ==
  ASSUME NEW b, AggregateInv(b), NEW s, Tells(s, b), NEW o \in Inputs, NEW actor \in Actors,
         CanAddObservation(b, o), o.id \notin RecordedIds(b),
         NEW c, c = AddObservation(b, o, actor), NEW e, e.type = "OBSERVATION_RECORDED",
         e.payload = [observation |-> o.id, codes |-> Codes(b, o)]
  PROVE  Tells(Retell(s, e), c)
<1>1. /\ s \in Tales /\ s.status = b.status /\ s.open = OpenDeviations(b)
      /\ s = [status |-> s.status, open |-> s.open, window |-> s.window, run |-> s.run]
      /\ s.run \in Nat /\ s.window \in Int
  BY DEF Tells, Tales
<1>2. e.payload.observation = o.id /\ e.payload.codes = Codes(b, o)
  OBVIOUS
<1>3. c.protocol = b.protocol
  BY ObserveFields DEF AggregateInv, AggregateTyped
<1>4. /\ b.status \in {"monitoring", "recovering"}
      /\ o.id \in ObservationIds /\ Codes(b, o) \in SUBSET RuleCodes
  BY CodesType DEF CanAddObservation, Inputs
<1>5. OpenDeviations(b) = DOMAIN b.deviations
  BY <1>4 DEF AggregateInv, Together, OpenDeviations
<1>6. CASE Raising(b, o, c)
  <2>1. Retell(s, e) = [status |-> "paused", open |-> s.open \cup ({o.id} \X Codes(b, o)),
                        window |-> s.window, run |-> s.run]
    BY <1>1, <1>2, <1>6 DEF Raising, Retell
  <2>2. OpenDeviations(c) = DOMAIN c.deviations
    BY <1>6 DEF Raising, OpenDeviations
  <2>3. s.open \subseteq DeviationIds /\ {o.id} \X Codes(b, o) \subseteq DeviationIds
    BY <1>1, <1>4 DEF Tales, DeviationIds
  <2> QED
    BY <1>1, <1>5, <1>6, <2>1, <2>2, <2>3 DEF Raising, Tells, Tales, Statuses
<1>7. CASE Monitoring(b, o, c)
  <2>1. Retell(s, e) = [status |-> s.status, open |-> s.open, window |-> s.window, run |-> s.run + 1]
    BY <1>1, <1>2, <1>7 DEF Monitoring, Retell
  <2>2. OpenDeviations(c) = OpenDeviations(b) /\ c.status = s.status /\ c.status = "monitoring"
    BY <1>1, <1>7 DEF Monitoring, OpenDeviations
  <2> QED
    BY <1>1, <2>1, <2>2 DEF Tells, Tales
<1>8. ASSUME NEW n \in Nat, Counting(b, o, c, n)
      PROVE  Tells(Retell(s, e), c)
  <2>1. /\ Codes(b, o) = {} /\ b.status = "recovering" /\ DOMAIN c.deviations # {}
        /\ DOMAIN c.deviations = DOMAIN b.deviations
        /\ c.status = IF n + 1 = b.protocol.window THEN "pending_review" ELSE "recovering"
        /\ \A x \in DOMAIN c.deviations :
             /\ Len(b.deviations[x].qualified) = n /\ Len(c.deviations[x].qualified) = n + 1
             /\ c.deviations[x].status = IF n + 1 = b.protocol.window
                                         THEN "closed" ELSE "corrected"
    BY <1>8 DEF Counting
  <2>2. s.window = b.protocol.window /\ s.run = n
    BY <2>1 DEF Tells
  <2>3. CASE n + 1 = b.protocol.window
    <3>1. Retell(s, e) = [status |-> "pending_review", open |-> {}, window |-> s.window, run |-> s.run]
      BY <1>1, <1>2, <2>1, <2>2, <2>3 DEF Retell
    <3>2. OpenDeviations(c) = {} /\ c.status = "pending_review"
      BY <2>1, <2>3 DEF OpenDeviations
    <3> QED
      BY <1>1, <3>1, <3>2 DEF Tells, Tales, Statuses
  <2>4. CASE n + 1 # b.protocol.window
    <3>1. Retell(s, e) = [status |-> "recovering", open |-> s.open, window |-> s.window,
                          run |-> s.run + 1]
      BY <1>1, <1>2, <2>1, <2>2, <2>4 DEF Retell
    <3>2. /\ OpenDeviations(c) = DOMAIN b.deviations /\ c.status = "recovering"
          /\ \A x \in DOMAIN c.deviations : Len(c.deviations[x].qualified) = s.run + 1
      BY <2>1, <2>2, <2>4 DEF OpenDeviations
    <3> QED
      BY <1>1, <1>3, <1>5, <2>2, <3>1, <3>2 DEF Tells, Tales, Statuses
  <2> QED
    BY <2>3, <2>4
<1> QED
  BY <1>6, <1>7, <1>8, ObservedCases

\* The beginnings of a trail stay what they are when an event is appended.
LEMMA Beginnings ==
  ASSUME NEW s \in Seq(Events), NEW e \in Events
  PROVE  /\ \A k \in 0 .. Len(s) : SubSeq(Append(s, e), 1, k) = SubSeq(s, 1, k)
         /\ SubSeq(s, 1, Len(s)) = s
         /\ SubSeq(Append(s, e), 1, Len(s)) = s
         /\ SubSeq(Append(s, e), 1, Len(s) + 1) = Append(s, e)
<1>1. /\ Append(s, e) \in Seq(Events) /\ Len(Append(s, e)) = Len(s) + 1 /\ Len(s) \in Nat
      /\ \A i \in 1 .. Len(s) : Append(s, e)[i] = s[i]
  BY Appended
<1>2. ASSUME NEW k \in 0 .. Len(s)
      PROVE  SubSeq(Append(s, e), 1, k) = SubSeq(s, 1, k)
  BY <1>1
<1>3. SubSeq(s, 1, Len(s)) = s
  OBVIOUS
<1>4. SubSeq(Append(s, e), 1, Len(s) + 1) = Append(s, e)
  BY <1>1
<1> QED
  BY <1>1, <1>2, <1>3, <1>4

-----------------------------------------------------------------------------
(* The tables                                                                *)

\* An observation has its row, and a row its observation.
RowOf(id, b, row) == \E i \in DOMAIN b.observations : row = ObservationRow(id, b.observations[i])

\* What a batch becomes, compared with what the tables hold of it.
Grown(id, b) ==
  /\ \A row \in observations : row.batch = id => RowOf(id, b, row)
  /\ \A x \in DOMAIN deviations : deviations[x].batch = id => x \in DOMAIN b.deviations
  /\ \A x \in DOMAIN b.deviations : x \in DOMAIN deviations => deviations[x].batch = id
  /\ b.review = Nil /\ id \in DOMAIN reviews => reviews[id] = Nil

\* Sequence numbers identify the rows of a batch, so that only new observations are inserted.
LEMMA ObservationsStep ==
  ASSUME CopiesMirrorBatches, NEW id, NEW b, AggregateInv(b), Grown(id, b),
         SyncObservations(id, b), batches' = Put(batches, id, b)
  PROVE  observations' = UNION {{ObservationRow(x, batches'[x].observations[i]) :
                                   i \in DOMAIN batches'[x].observations} : x \in DOMAIN batches'}
<1> DEFINE rows  == {ObservationRow(id, b.observations[i]) : i \in DOMAIN b.observations}
           known == {row \in rows : \E old \in observations :
                       old.batch = id /\ old.sequenceNo = row.sequenceNo}
<1>1. observations' = observations \cup (rows \ known)
  BY DEF SyncObservations
<1>2. \A row : row \in observations <=> \E x \in DOMAIN batches : RowOf(x, batches[x], row)
  BY DEF CopiesMirrorBatches, RowOf
<1>3. \A row : row \in rows <=> RowOf(id, b, row)
  BY DEF RowOf
<1>4. known \subseteq observations
  <2>1. SUFFICES ASSUME NEW row \in known
                 PROVE  row \in observations
    OBVIOUS
  <2>2. PICK i \in DOMAIN b.observations : row = ObservationRow(id, b.observations[i])
    BY <1>3 DEF RowOf
  <2>3. PICK old \in observations : old.batch = id /\ old.sequenceNo = row.sequenceNo
    BY <2>1
  <2>4. PICK j \in DOMAIN b.observations : old = ObservationRow(id, b.observations[j])
    BY <2>3 DEF Grown, RowOf
  <2>5. b.observations[i].sequenceNo = b.observations[j].sequenceNo
    BY <2>2, <2>3, <2>4 DEF ObservationRow
  <2>6. i \in Nat /\ j \in Nat /\ b.observations[i].sequenceNo \in Nat
    <3>1. b.observations \in Seq(ObservationRecords)
      BY DEF AggregateInv, AggregateTyped
    <3>2. i \in Nat /\ j \in Nat /\ b.observations[i] \in ObservationRecords
      BY <3>1
    <3> QED
      BY <3>2 DEF ObservationRecords
  <2>7. i = j
    <3>1. ~(i < j) /\ ~(j < i)
      BY <2>5, <2>6 DEF AggregateInv, Ordered
    <3> QED
      BY <2>6, <3>1
  <2> QED
    BY <2>2, <2>3, <2>4, <2>7
<1>5. \A row : row \in observations' <=> row \in observations \/ RowOf(id, b, row)
  BY <1>1, <1>3, <1>4
<1>6. /\ DOMAIN batches' = DOMAIN batches \cup {id} /\ batches'[id] = b
      /\ \A x \in DOMAIN batches : x # id => batches'[x] = batches[x]
  BY DEF Put
<1>7. \A x, y, row : RowOf(x, y, row) => row.batch = x
  BY DEF RowOf, ObservationRow
<1>8. ASSUME NEW row
      PROVE  row \in observations' <=> \E x \in DOMAIN batches' : RowOf(x, batches'[x], row)
  <2>1. ASSUME row \in observations'
        PROVE  \E x \in DOMAIN batches' : RowOf(x, batches'[x], row)
    <3>1. CASE RowOf(id, b, row)
      BY <1>6, <3>1
    <3>2. CASE row \in observations /\ ~RowOf(id, b, row)
      <4>1. PICK x \in DOMAIN batches : RowOf(x, batches[x], row)
        BY <1>2, <3>2
      <4>2. x # id
        BY <1>7, <3>2, <4>1 DEF Grown
      <4> QED
        BY <1>6, <4>1, <4>2
    <3> QED
      BY <1>5, <2>1, <3>1, <3>2
  <2>2. ASSUME NEW x \in DOMAIN batches', RowOf(x, batches'[x], row)
        PROVE  row \in observations'
    <3>1. CASE x = id
      BY <1>5, <1>6, <2>2, <3>1
    <3>2. CASE x # id
      BY <1>2, <1>5, <1>6, <2>2, <3>2
    <3> QED
      BY <3>1, <3>2
  <2> QED
    BY <2>1, <2>2
<1> QED
  BY <1>8 DEF RowOf

\* A deviation row is looked up by its own id only, whatever batch it belongs to.
LEMMA DeviationsStep ==
  ASSUME CopiesMirrorBatches, NEW id, NEW b, Grown(id, b),
         SyncDeviations(id, b), batches' = Put(batches, id, b)
  PROVE  /\ \A x \in DOMAIN deviations' :
              /\ deviations'[x].batch \in DOMAIN batches'
              /\ x \in DOMAIN batches'[deviations'[x].batch].deviations
         /\ \A y \in DOMAIN batches' : \A x \in DOMAIN batches'[y].deviations :
              /\ x \in DOMAIN deviations'
              /\ deviations'[x] = [batch |-> y, case |-> batches'[y].deviations[x]]
<1>1. /\ DOMAIN batches' = DOMAIN batches \cup {id} /\ batches'[id] = b
      /\ \A y \in DOMAIN batches : y # id => batches'[y] = batches[y]
  BY DEF Put
<1>2. /\ DOMAIN deviations' = DOMAIN deviations \cup DOMAIN b.deviations
      /\ \A x \in DOMAIN b.deviations :
           deviations'[x] = [batch |-> id, case |-> b.deviations[x]]
      /\ \A x \in DOMAIN deviations \ DOMAIN b.deviations : deviations'[x] = deviations[x]
  BY DEF SyncDeviations, Grown
<1>3. ASSUME NEW x \in DOMAIN deviations'
      PROVE  /\ deviations'[x].batch \in DOMAIN batches'
             /\ x \in DOMAIN batches'[deviations'[x].batch].deviations
  <2>1. CASE x \in DOMAIN b.deviations
    <3>1. deviations'[x] = [batch |-> id, case |-> b.deviations[x]]
      BY <1>2, <2>1
    <3>2. deviations'[x].batch = id
      BY <3>1
    <3> QED
      BY <1>1, <2>1, <3>2
  <2>2. CASE x \notin DOMAIN b.deviations
    <3>1. x \in DOMAIN deviations /\ deviations'[x] = deviations[x] /\ deviations[x].batch # id
      BY <1>2, <2>2 DEF Grown
    <3> QED
      BY <1>1, <3>1 DEF CopiesMirrorBatches
  <2> QED
    BY <2>1, <2>2
<1>4. ASSUME NEW y \in DOMAIN batches', NEW x \in DOMAIN batches'[y].deviations
      PROVE  /\ x \in DOMAIN deviations'
             /\ deviations'[x] = [batch |-> y, case |-> batches'[y].deviations[x]]
  <2>1. CASE y = id
    BY <1>1, <1>2, <2>1
  <2>2. CASE y # id
    <3>1. /\ y \in DOMAIN batches /\ batches'[y] = batches[y]
          /\ deviations[x] = [batch |-> y, case |-> batches[y].deviations[x]]
      BY <1>1, <2>2 DEF CopiesMirrorBatches
    <3>2. x \in DOMAIN deviations
      BY <3>1 DEF CopiesMirrorBatches
    <3>3. x \notin DOMAIN b.deviations
      BY <2>2, <3>1, <3>2 DEF Grown
    <3> QED
      BY <1>2, <3>1, <3>2, <3>3
  <2> QED
    BY <2>1, <2>2
<1> QED
  BY <1>3, <1>4

\* An aggregate that keeps its invariant passes the check of GetBatch.
LEMMA LoadedValid ==
  ASSUME NEW b, AggregateInv(b) PROVE ValidateLoaded(b)
  BY DEF AggregateInv, AggregateTyped, Frozen, ValidateLoaded

LEMMA ReviewsStep ==
  ASSUME TablesTyped, CopiesMirrorBatches, NEW id, NEW b, Grown(id, b),
         SyncReview(id, b), batches' = Put(batches, id, b)
  PROVE  /\ DOMAIN reviews' \subseteq DOMAIN batches'
         /\ \A y \in DOMAIN batches' :
              batches'[y].review = IF y \in DOMAIN reviews' THEN reviews'[y] ELSE Nil
<1>1. /\ DOMAIN batches' = DOMAIN batches \cup {id} /\ batches'[id] = b
      /\ \A y \in DOMAIN batches : y # id => batches'[y] = batches[y]
  BY DEF Put
<1>2. /\ DOMAIN reviews \subseteq DOMAIN batches
      /\ \A y \in DOMAIN batches :
           batches[y].review = IF y \in DOMAIN reviews THEN reviews[y] ELSE Nil
  BY DEF TablesTyped, CopiesMirrorBatches
<1>3. CASE b.review = Nil
  <2>1. reviews' = reviews /\ (id \in DOMAIN reviews => reviews[id] = Nil)
    BY <1>3 DEF SyncReview, Grown
  <2> QED
    BY <1>1, <1>2, <1>3, <2>1
<1>4. CASE b.review # Nil
  <2>1. /\ DOMAIN reviews' = DOMAIN reviews \cup {id} /\ reviews'[id] = b.review
        /\ \A y \in DOMAIN reviews : y # id => reviews'[y] = reviews[y]
    BY <1>4 DEF SyncReview, Put
  <2> QED
    BY <1>1, <1>2, <2>1
<1> QED
  BY <1>3, <1>4

LEMMA CopiesStep ==
  ASSUME TablesTyped, CopiesMirrorBatches, NEW id, NEW b, AggregateInv(b), Grown(id, b),
         SyncObservations(id, b), SyncDeviations(id, b), SyncReview(id, b),
         batches' = Put(batches, id, b)
  PROVE  CopiesMirrorBatches'
<1>1. \A y \in DOMAIN batches' : ValidateLoaded(batches'[y])
  <2>1. /\ DOMAIN batches' = DOMAIN batches \cup {id} /\ batches'[id] = b
        /\ \A y \in DOMAIN batches : y # id => batches'[y] = batches[y]
    BY DEF Put
  <2> QED
    BY <2>1, LoadedValid DEF TablesTyped
<1> QED
  BY <1>1, ObservationsStep, DeviationsStep, ReviewsStep DEF CopiesMirrorBatches

\* One more event on the trail of a batch, which tells what the batch becomes.
Told(id, b, e) ==
  /\ e \in Events /\ b.revision = Len(audit[id]) + 1
  /\ Tells(Retell(Retold(audit[id]), e), b)
  /\ batches' = Put(batches, id, b)
  /\ audit' = [audit EXCEPT ![id] = Append(@, e)]

LEMMA TrailStep ==
  ASSUME TablesTyped, TrailInv, NEW id \in BatchIds, NEW b, NEW e, Told(id, b, e)
  PROVE  /\ audit' \in [BatchIds -> Seq(Events)] /\ TrailInv'
         /\ audit'[id] = Append(audit[id], e) /\ Len(audit'[id]) = b.revision
         /\ Retold(audit'[id]) = Retell(Retold(audit[id]), e)
         /\ \A x \in BatchIds : x # id => audit'[x] = audit[x]
<1>1. audit \in [BatchIds -> Seq(Events)] /\ audit[id] \in Seq(Events) /\ e \in Events
  BY DEF TablesTyped, Told
<1>2. /\ Append(audit[id], e) \in Seq(Events)
      /\ Len(Append(audit[id], e)) = Len(audit[id]) + 1
  BY <1>1, Appended
<1>3. /\ audit'[id] = Append(audit[id], e) /\ audit' \in [BatchIds -> Seq(Events)]
      /\ \A x \in BatchIds : x # id => audit'[x] = audit[x]
  BY <1>1, <1>2 DEF Told
<1>4. Len(audit'[id]) = b.revision
  BY <1>2, <1>3 DEF Told
<1>5. Retold(audit'[id]) = Retell(Retold(audit[id]), e)
  BY <1>1, <1>3, RetoldStep
<1>6. Tells(Retold(audit'[id]), b)
  BY <1>5 DEF Told
<1>7. /\ DOMAIN batches' = DOMAIN batches \cup {id} /\ batches'[id] = b
      /\ \A y \in DOMAIN batches : y # id => batches'[y] = batches[y]
  BY DEF Told, Put
<1>8. ASSUME NEW y \in DOMAIN batches'
      PROVE  Len(audit'[y]) = batches'[y].revision /\ Tells(Retold(audit'[y]), batches'[y])
  <2>1. CASE y = id
    BY <1>4, <1>6, <1>7, <2>1
  <2>2. CASE y # id
    <3>1. y \in DOMAIN batches /\ y \in BatchIds /\ batches'[y] = batches[y] /\ audit'[y] = audit[y]
      BY <1>3, <1>7, <2>2 DEF TablesTyped
    <3> QED
      BY <3>1 DEF TrailInv
  <2> QED
    BY <2>1, <2>2
<1>9. \A y \in BatchIds \ DOMAIN batches' : audit'[y] = <<>>
  BY <1>3, <1>7 DEF TrailInv
<1> QED
  BY <1>3, <1>4, <1>5, <1>8, <1>9 DEF TrailInv

\* What a response says of the batch that it answers for.
Answers(answer, id, b) ==
  /\ answer.revision = b.revision /\ answer.status = b.status
  /\ "open" \in DOMAIN answer => answer.open = OpenDeviations(b)
  /\ "certificate" \in DOMAIN answer =>
       /\ answer.certificate # Nil <=> b.status = "approved_sealed"
       /\ answer.certificate # Nil => id \in DOMAIN certificates'

\* Answers are about beginnings of trails, and those stay.
LEMMA AnswerStep ==
  ASSUME TablesTyped, TrailInv, AnswerInv, NEW id \in BatchIds, NEW b, NEW e, Told(id, b, e),
         NEW c, c.batch = id, NEW answer, Answers(answer, id, b),
         idempotency' = Put(idempotency, c.request, [command |-> c, response |-> answer]),
         DOMAIN certificates \subseteq DOMAIN certificates'
  PROVE  AnswerInv'
<1>1. /\ DOMAIN batches' = DOMAIN batches \cup {id}
      /\ audit[id] \in Seq(Events) /\ e \in Events
  BY DEF Told, Put, TablesTyped
<1>2. /\ audit'[id] = Append(audit[id], e) /\ Len(audit'[id]) = b.revision
      /\ Retold(audit'[id]) = Retell(Retold(audit[id]), e)
      /\ \A x \in BatchIds : x # id => audit'[x] = audit[x]
  BY TrailStep
<1>3. /\ \A k \in 0 .. Len(audit[id]) : SubSeq(audit'[id], 1, k) = SubSeq(audit[id], 1, k)
      /\ SubSeq(audit'[id], 1, Len(audit'[id])) = audit'[id]
      /\ Len(audit'[id]) = Len(audit[id]) + 1 /\ Len(audit[id]) \in Nat
  BY <1>1, <1>2, Beginnings, Appended
<1>4. AnswerTold(answer, id)'
  <2>1. Retold(SubSeq(audit'[id], 1, answer.revision)) = Retell(Retold(audit[id]), e)
    BY <1>2, <1>3 DEF Answers
  <2>2. /\ Retell(Retold(audit[id]), e).status = b.status
        /\ Retell(Retold(audit[id]), e).open = OpenDeviations(b)
    BY DEF Told, Tells
  <2>3. answer.revision \in 1 .. Len(audit'[id])
    BY <1>2, <1>3 DEF Answers
  <2> QED
    BY <1>1, <2>1, <2>2, <2>3 DEF AnswerTold, Answers
<1>5. ASSUME NEW old, NEW x \in BatchIds, AnswerTold(old, x)
      PROVE  AnswerTold(old, x)'
  <2>1. x \in DOMAIN batches'
    BY <1>1, <1>5 DEF AnswerTold
  <2>2. old.revision \in 1 .. Len(audit[x]) /\ old.revision \in 1 .. Len(audit'[x])
    BY <1>2, <1>3, <1>5 DEF AnswerTold
  <2>3. SubSeq(audit'[x], 1, old.revision) = SubSeq(audit[x], 1, old.revision)
    <3>1. CASE x = id
      BY <1>3, <2>2, <3>1
    <3>2. CASE x # id
      BY <1>2, <3>2
    <3> QED
      BY <3>1, <3>2
  <2> QED
    BY <1>5, <2>1, <2>2, <2>3 DEF AnswerTold
<1>6. ASSUME NEW r \in DOMAIN idempotency'
      PROVE  AnswerTold(idempotency[r].response, idempotency[r].command.batch)'
  <2>1. CASE r = c.request
    <3>1. idempotency'[r] = [command |-> c, response |-> answer]
      BY <2>1 DEF Put
    <3>2. idempotency'[r].response = answer /\ idempotency'[r].command.batch = id
      BY <3>1
    <3> QED
      BY <1>4, <3>2
  <2>2. CASE r # c.request
    <3>1. r \in DOMAIN idempotency /\ idempotency'[r] = idempotency[r]
      BY <2>2 DEF Put
    <3>2. AnswerTold(idempotency[r].response, idempotency[r].command.batch)
      BY <3>1 DEF AnswerInv
    <3>3. idempotency[r].command.batch \in BatchIds
      BY <3>2 DEF AnswerTold, TablesTyped
    <3> QED
      BY <1>5, <3>1, <3>2, <3>3
  <2> QED
    BY <2>1, <2>2
<1> QED
  BY <1>6 DEF AnswerInv

\* What becomes of the certificates: a decision to approve seals the trail with its own
\* event and the batch as it then is; nothing else touches a certificate.
Certified(id, b) ==
  \/ b.status # "approved_sealed" /\ certificates' = certificates
  \/ /\ b.status = "approved_sealed" /\ b.observations # <<>>
     /\ b.review.evidenceRoot = audit[id]
     /\ certificates' = Put(certificates, id, [payload   |-> Payload(id, b, audit[id]),
                                               auditRoot |-> audit'[id]])

LEMMA CertificateStep ==
  ASSUME TablesTyped, TrailInv, CertificateInv, NEW id \in BatchIds, NEW b, NEW e, Told(id, b, e),
         id \notin DOMAIN batches \/ ~Terminal(batches[id].status), Certified(id, b)
  PROVE  /\ CertificateInv' /\ DOMAIN certificates' \subseteq BatchIds
         /\ DOMAIN certificates \subseteq DOMAIN certificates'
<1>1. /\ DOMAIN batches' = DOMAIN batches \cup {id} /\ batches'[id] = b
      /\ \A y \in DOMAIN batches : y # id => batches'[y] = batches[y]
  BY DEF Told, Put
<1>2. id \notin DOMAIN certificates
  BY DEF CertificateInv, Terminal
<1>3. /\ audit'[id] = Append(audit[id], e) /\ \A x \in BatchIds : x # id => audit'[x] = audit[x]
      /\ audit[id] \in Seq(Events) /\ e \in Events
  BY TrailStep DEF TablesTyped, Told
<1>4. /\ DOMAIN certificates' = IF b.status = "approved_sealed"
                                THEN DOMAIN certificates \cup {id} ELSE DOMAIN certificates
      /\ \A x \in DOMAIN certificates : certificates'[x] = certificates[x]
  BY <1>2 DEF Certified, Put
<1>5. DOMAIN certificates' \subseteq BatchIds /\ DOMAIN certificates \subseteq DOMAIN certificates'
  BY <1>4 DEF TablesTyped
<1>6. ASSUME NEW y \in BatchIds
      PROVE  y \in DOMAIN certificates' <=>
               y \in DOMAIN batches' /\ batches'[y].status = "approved_sealed"
  <2>1. CASE y = id
    BY <1>1, <1>2, <1>4, <2>1
  <2>2. CASE y # id
    <3>1. y \in DOMAIN certificates' <=> y \in DOMAIN certificates
      BY <1>4, <2>2
    <3>2. y \in DOMAIN batches' <=> y \in DOMAIN batches
      BY <1>1, <2>2
    <3> QED
      BY <1>1, <2>2, <3>1, <3>2 DEF CertificateInv
  <2> QED
    BY <2>1, <2>2
<1>7. ASSUME NEW y \in DOMAIN certificates'
      PROVE  LET before == SubSeq(audit'[y], 1, Len(audit'[y]) - 1)
             IN  /\ certificates'[y] = [payload   |-> Payload(y, batches'[y], before),
                                        auditRoot |-> audit'[y]]
                 /\ batches'[y].review.evidenceRoot = before
                 /\ batches'[y].observations # <<>>
  <2>1. CASE y = id
    <3>1. b.status = "approved_sealed"
      BY <1>2, <1>4, <2>1
    <3>2. /\ b.observations # <<>> /\ b.review.evidenceRoot = audit[id]
          /\ certificates' = Put(certificates, id, [payload   |-> Payload(id, b, audit[id]),
                                                    auditRoot |-> audit'[id]])
      BY <3>1 DEF Certified
    <3>3. certificates'[id] = [payload |-> Payload(id, b, audit[id]), auditRoot |-> audit'[id]]
      BY <3>2 DEF Put
    <3>4. Len(audit'[id]) - 1 = Len(audit[id])
      BY <1>3, Appended
    <3>5. SubSeq(audit'[id], 1, Len(audit'[id]) - 1) = audit[id]
      BY <1>3, <3>4, Beginnings
    <3> QED
      BY <1>1, <2>1, <3>2, <3>3, <3>5
  <2>2. CASE y # id
    <3>1. y \in DOMAIN certificates /\ certificates'[y] = certificates[y] /\ y \in BatchIds
      BY <1>4, <1>5, <2>2
    <3>2. y \in DOMAIN batches /\ batches'[y] = batches[y] /\ audit'[y] = audit[y]
      BY <1>1, <1>3, <2>2, <3>1 DEF CertificateInv
    <3> QED
      BY <3>1, <3>2 DEF CertificateInv
  <2> QED
    BY <2>1, <2>2
<1> QED
  BY <1>5, <1>6, <1>7 DEF CertificateInv

-----------------------------------------------------------------------------
(* Commands                                                                  *)

CommandTyped(c) ==
  /\ c.actor \in Actors /\ c.batch \in BatchIds /\ c.request \in RequestIds
  /\ InputTyped(c.op, c.input)

\* An event that tells what a batch becomes.
Telling(id, b, event) ==
  /\ event[1] \in EventTypes /\ event[2] \in EventPayloads
  /\ \A e : e.type = event[1] /\ e.payload = event[2] => Tells(Retell(Retold(audit[id]), e), b)

\* A batch that no terminal status protects from the next command.
Open(id) == id \notin DOMAIN batches \/ ~Terminal(batches[id].status)

\* What an accepted command does: it takes an open batch to a proper one of the next
\* revision, its event and its answer tell so, and only a review seals.
Proper(c, b, event, answer) ==
  /\ Open(c.batch) /\ AggregateInv(b) /\ Grown(c.batch, b)
  /\ b.revision = Len(audit[c.batch]) + 1
  /\ Telling(c.batch, b, event) /\ Commit(c, b, event, answer)
  /\ Certified(c.batch, b) /\ Answers(answer, c.batch, b)
  /\ Terminal(b.status) <=> c.op = "review"

LEMMA ProperKeeps ==
  ASSUME ServiceInv, NEW c, CommandTyped(c), NEW b, NEW event, NEW answer,
         Proper(c, b, event, answer)
  PROVE  ServiceInv'
<1> USE DEF Proper
<1> DEFINE id == c.batch
           e  == [type |-> event[1], actor |-> c.actor, revision |-> b.revision,
                  payload |-> event[2]]
<1>1. id \in BatchIds /\ e \in Events /\ e.type = event[1] /\ e.payload = event[2]
  <2>1. b.revision \in Nat \ {0} /\ c.actor \in Actors /\ id \in BatchIds
    BY DEF AggregateInv, AggregateTyped, CommandTyped
  <2> QED
    BY <2>1 DEF Telling, Events
<1>2. Told(id, b, e)
  <2>1. batches' = Put(batches, id, b) /\ audit' = [audit EXCEPT ![id] = Append(@, e)]
    BY DEF Commit
  <2>2. Tells(Retell(Retold(audit[id]), e), b)
    <3> HIDE DEF e
    <3> QED
      BY <1>1 DEF Telling
  <2> HIDE DEF e
  <2> QED
    BY <1>1, <2>1, <2>2 DEF Told
<1> HIDE DEF e
<1>3. TablesTyped /\ TrailInv /\ CopiesMirrorBatches /\ CertificateInv /\ AnswerInv
  BY DEF ServiceInv
<1>4. audit' \in [BatchIds -> Seq(Events)] /\ TrailInv'
  BY <1>1, <1>2, <1>3, TrailStep
<1>5. /\ batches' = Put(batches, id, b) /\ SyncObservations(id, b)
      /\ SyncDeviations(id, b) /\ SyncReview(id, b)
      /\ idempotency' = Put(idempotency, c.request, [command |-> c, response |-> answer])
  BY DEF Commit
<1>6. CopiesMirrorBatches' /\ DOMAIN reviews' \subseteq DOMAIN batches'
  BY <1>3, <1>5, CopiesStep, ReviewsStep
<1>7. /\ CertificateInv' /\ DOMAIN certificates' \subseteq BatchIds
      /\ DOMAIN certificates \subseteq DOMAIN certificates'
  BY <1>1, <1>2, <1>3, CertificateStep DEF Open
<1>8. AnswerInv'
  BY <1>1, <1>2, <1>3, <1>5, <1>7, AnswerStep
<1>9. TablesTyped'
  <2>1. /\ DOMAIN batches' = DOMAIN batches \cup {id} /\ batches'[id] = b
        /\ \A y \in DOMAIN batches : y # id => batches'[y] = batches[y]
    BY <1>5 DEF Put
  <2>2. DOMAIN idempotency' \subseteq RequestIds
    BY <1>3, <1>5 DEF Put, TablesTyped, CommandTyped
  <2>3. \A y \in DOMAIN batches' : AggregateInv(batches'[y])
    BY <1>3, <2>1 DEF TablesTyped
  <2> QED
    BY <1>1, <1>3, <1>4, <1>6, <1>7, <2>1, <2>2, <2>3 DEF TablesTyped
<1> QED
  BY <1>4, <1>6, <1>7, <1>8, <1>9 DEF ServiceInv

LEMMA CreateProper ==
  ASSUME ServiceInv, NEW c, CommandTyped(c), CreateVerdict(c) = "accepted", CreateBatch(c)
  PROVE  \E b, event, answer : Proper(c, b, event, answer)
<1> DEFINE id == c.batch
<1>1. PICK b : b = NewTreatmentBatch(c.actor)
  OBVIOUS
<1>2. /\ b.status = "draft" /\ b.revision = 1 /\ b.protocol = Nil /\ b.observations = <<>>
      /\ b.deviations = <<>> /\ b.review = Nil
      /\ DOMAIN b.observations = {} /\ DOMAIN b.deviations = {}
  BY <1>1 DEF NewTreatmentBatch
<1>3. AggregateInv(b)
  BY <1>1, NewKeeps DEF CommandTyped
<1>4. id \notin DOMAIN batches /\ id \in BatchIds
  BY DEF CreateVerdict, CommandTyped
<1>5. audit[id] = <<>> /\ Len(<<>>) = 0
  BY <1>4 DEF ServiceInv, TrailInv
<1>6. Grown(id, b)
  <2>1. id \notin DOMAIN reviews
    BY <1>4 DEF ServiceInv, TablesTyped
  <2>2. \A row \in observations : row.batch # id
    BY <1>4 DEF ServiceInv, CopiesMirrorBatches, ObservationRow
  <2>3. \A x \in DOMAIN deviations : deviations[x].batch # id
    BY <1>4 DEF ServiceInv, CopiesMirrorBatches
  <2> QED
    BY <1>2, <2>1, <2>2, <2>3 DEF Grown
<1> DEFINE event == <<"BATCH_CREATED", Nil>>
<1>7. Telling(id, b, event)
  <2>1. event[1] = "BATCH_CREATED" /\ event[2] = Nil
    OBVIOUS
  <2> HIDE DEF event
  <2>2. \A e : e.type = "BATCH_CREATED" => Tells(Retell(Untold, e), b)
    BY <1>1, NewTells DEF CommandTyped
  <2> QED
    BY <1>5, <2>1, <2>2, RetoldEmpty DEF Telling, EventTypes, EventPayloads
<1>8. Answers(Result(b), id, b) /\ Certified(id, b)
  BY <1>2 DEF Answers, Result, Certified, CreateBatch
<1>9. Commit(c, b, event, Result(b))
  BY <1>1 DEF CreateBatch
<1>10. Terminal(b.status) <=> c.op = "review"
  BY <1>2 DEF Terminal, CreateBatch
<1> HIDE DEF event
<1>11. Proper(c, b, event, Result(b))
  BY <1>2, <1>3, <1>4, <1>5, <1>6, <1>7, <1>8, <1>9, <1>10 DEF Proper, Open
<1> QED
  BY <1>11

\* Every recorded observation has its row, under its id.
LEMMA RecordedRow ==
  ASSUME CopiesMirrorBatches, NEW id \in DOMAIN batches, NEW o \in RecordedIds(batches[id])
  PROVE  \E row \in observations : row.id = o
<1>1. PICK i \in DOMAIN batches[id].observations : o = batches[id].observations[i].id
  BY DEF RecordedIds
<1>2. ObservationRow(id, batches[id].observations[i]) \in observations
  BY DEF CopiesMirrorBatches
<1>3. ObservationRow(id, batches[id].observations[i]).id = o
  BY <1>1 DEF ObservationRow
<1> QED
  BY <1>2, <1>3

\* An operation only adds observations, and deviations of observations it adds.
LEMMA GrownFrom ==
  ASSUME ServiceInv, NEW id \in DOMAIN batches, NEW b,
         \A i \in DOMAIN batches[id].observations :
           /\ i \in DOMAIN b.observations
           /\ b.observations[i] = batches[id].observations[i],
         \A x \in DOMAIN batches[id].deviations : x \in DOMAIN b.deviations,
         \A x \in DOMAIN b.deviations :
           x \in DOMAIN batches[id].deviations \/ \A row \in observations : row.id # x[1],
         b.review = Nil => batches[id].review = Nil
  PROVE  Grown(id, b)
<1>1. CopiesMirrorBatches /\ TablesTyped
  BY DEF ServiceInv
<1>2. ASSUME NEW row \in observations, row.batch = id
      PROVE  RowOf(id, b, row)
  <2>1. PICK y \in DOMAIN batches : RowOf(y, batches[y], row)
    BY <1>1 DEF CopiesMirrorBatches, RowOf
  <2>2. y = id
    BY <1>2, <2>1 DEF RowOf, ObservationRow
  <2> QED
    BY <2>1, <2>2 DEF RowOf
<1>3. \A x \in DOMAIN deviations : deviations[x].batch = id => x \in DOMAIN b.deviations
  BY <1>1 DEF CopiesMirrorBatches
<1>4. ASSUME NEW x \in DOMAIN b.deviations, x \in DOMAIN deviations
      PROVE  deviations[x].batch = id
  <2>1. CASE x \in DOMAIN batches[id].deviations
    <3>1. deviations[x] = [batch |-> id, case |-> batches[id].deviations[x]]
      BY <1>1, <2>1 DEF CopiesMirrorBatches
    <3> QED
      BY <3>1
  <2>2. CASE \A row \in observations : row.id # x[1]
    <3>1. PICK y \in DOMAIN batches : x \in DOMAIN batches[y].deviations
      BY <1>1, <1>4 DEF CopiesMirrorBatches
    <3>2. x[1] \in RecordedIds(batches[y])
      BY <1>1, <3>1 DEF TablesTyped, AggregateInv, Cited
    <3> QED
      BY <1>1, <2>2, <3>2, RecordedRow
  <2> QED
    BY <2>1, <2>2
<1>5. b.review = Nil /\ id \in DOMAIN reviews => reviews[id] = Nil
  BY <1>1 DEF CopiesMirrorBatches
<1> QED
  BY <1>2, <1>3, <1>4, <1>5 DEF Grown

\* What a command that is not Create finds.
LEMMA Found ==
  ASSUME ServiceInv, NEW id \in DOMAIN batches, NEW b, b = batches[id]
  PROVE  /\ AggregateInv(b) /\ id \in BatchIds /\ b.revision = Len(audit[id])
         /\ Tells(Retold(audit[id]), b) /\ audit[id] \in Seq(Events)
  BY DEF ServiceInv, TablesTyped, TrailInv

LEMMA FreezeProper ==
  ASSUME ServiceInv, NEW c, CommandTyped(c), c.batch \in DOMAIN batches,
         MutateVerdict(batches[c.batch], c) = "accepted", FreezeBaseline(c)
  PROVE  \E b, event, answer : Proper(c, b, event, answer)
<1> DEFINE id == c.batch
<1>1. PICK old : old = batches[id]
  OBVIOUS
<1>2. PICK b : b = FreezeProtocol(old, c.input, c.actor)
  OBVIOUS
<1>3. /\ AggregateInv(old) /\ id \in BatchIds /\ old.revision = Len(audit[id])
      /\ Tells(Retold(audit[id]), old)
  BY <1>1, Found
<1>4. /\ c.op = "freeze" /\ c.input \in Protocols /\ c.actor \in Actors
      /\ CanFreezeProtocol(old, c.input)
  BY <1>1 DEF FreezeBaseline, MutateVerdict, FreezeVerdict, CommandTyped, InputTyped
<1>5. AggregateInv(b)
  BY <1>2, <1>3, <1>4, FreezeKeeps
<1>6. /\ b.status = "monitoring" /\ b.revision = old.revision + 1 /\ b.protocol = c.input
      /\ b.observations = old.observations /\ b.deviations = old.deviations
      /\ b.review = old.review /\ b.baseline = old.baseline \cup {c.actor}
  BY <1>2, <1>3, FreezeFields DEF AggregateInv, AggregateTyped
<1>7. Grown(id, b)
  BY <1>1, <1>6, GrownFrom
<1> DEFINE event == <<"BASELINE_FROZEN", [baseline |-> BaselineDigest(b)]>>
<1>8. Telling(id, b, event)
  <2>1. event[1] = "BASELINE_FROZEN" /\ event[2] = [baseline |-> BaselineDigest(b)]
    OBVIOUS
  <2>2. BaselineDigest(b) \in Digests
    BY <1>3, <1>4, <1>6, RowsAssumption
    DEF BaselineDigest, Digests, AggregateInv, AggregateTyped
  <2>3. event[2] \in EventPayloads
    BY <2>1, <2>2 DEF EventPayloads
  <2> HIDE DEF event
  <2>4. \A e : e.type = "BASELINE_FROZEN" => Tells(Retell(Retold(audit[id]), e), b)
    BY <1>2, <1>3, <1>4, FreezeTells
  <2> QED
    BY <2>1, <2>3, <2>4 DEF Telling, EventTypes
<1>9. Answers(Result(b), id, b) /\ Certified(id, b)
  BY <1>6 DEF Answers, Result, Certified, FreezeBaseline
<1>10. Commit(c, b, event, Result(b))
  BY <1>1, <1>2 DEF FreezeBaseline
<1>11. Open(id)
  BY <1>1, <1>4 DEF Open, CanFreezeProtocol
<1>12. Terminal(b.status) <=> c.op = "review"
  BY <1>4, <1>6 DEF Terminal
<1> HIDE DEF event
<1>13. Proper(c, b, event, Result(b))
  BY <1>3, <1>5, <1>6, <1>7, <1>8, <1>9, <1>10, <1>11, <1>12 DEF Proper
<1> QED
  BY <1>13

LEMMA CorrectProper ==
  ASSUME ServiceInv, NEW c, CommandTyped(c), c.batch \in DOMAIN batches,
         MutateVerdict(batches[c.batch], c) = "accepted", CorrectDeviation(c)
  PROVE  \E b, event, answer : Proper(c, b, event, answer)
<1> DEFINE id == c.batch
           x  == c.input.deviation
           owner == c.input.owner
<1>1. PICK old : old = batches[id]
  OBVIOUS
<1>2. PICK b : b = RegisterCorrection(old, x, owner)
  OBVIOUS
<1>3. /\ AggregateInv(old) /\ id \in BatchIds /\ old.revision = Len(audit[id])
      /\ Tells(Retold(audit[id]), old)
  BY <1>1, Found
<1>4. /\ c.op = "correct" /\ c.input = [deviation |-> x, owner |-> owner]
      /\ owner \in Owners /\ CanRegisterCorrection(old, x, owner)
  BY <1>1 DEF CorrectDeviation, MutateVerdict, CorrectVerdict, CommandTyped, InputTyped
<1>5. x \in DOMAIN old.deviations /\ x \in DeviationIds /\ old.status = "paused"
  BY <1>3, <1>4 DEF CanRegisterCorrection, AggregateInv, AggregateTyped
<1>6. AggregateInv(b)
  BY <1>2, <1>3, <1>4, CorrectKeeps
<1>7. /\ b = [status |-> old.status, revision |-> old.revision + 1, createdBy |-> old.createdBy,
              protocol |-> old.protocol, observations |-> old.observations,
              deviations |-> b.deviations, review |-> old.review, baseline |-> old.baseline,
              observers |-> old.observers, correctors |-> old.correctors \cup {owner}]
      /\ DOMAIN b.deviations = DOMAIN old.deviations
  <2> HIDE DEF x, owner
  <2>1. AggregateTyped(old)
    BY <1>3 DEF AggregateInv
  <2>2. PICK p : p = owner
    OBVIOUS
  <2>3. p \in Owners /\ b = RegisterCorrection(old, x, p)
    BY <1>2, <1>4, <2>2
  <2>4. /\ b = [status |-> old.status, revision |-> old.revision + 1,
                createdBy |-> old.createdBy, protocol |-> old.protocol,
                observations |-> old.observations, deviations |-> b.deviations,
                review |-> old.review, baseline |-> old.baseline,
                observers |-> old.observers, correctors |-> old.correctors \cup {p}]
        /\ DOMAIN b.deviations = DOMAIN old.deviations
    BY <1>5, <2>1, <2>3, CorrectFields
  <2> QED
    BY <2>2, <2>4
<1>8. /\ b.status = "paused" /\ b.revision = old.revision + 1
      /\ b.observations = old.observations /\ b.review = old.review
  BY <1>5, <1>7
<1>9. Grown(id, b)
  BY <1>1, <1>7, <1>8, GrownFrom
<1> DEFINE event == <<"DEVIATION_CORRECTED", c.input>>
<1>10. Telling(id, b, event)
  <2>1. event[1] = "DEVIATION_CORRECTED" /\ event[2] = c.input
    OBVIOUS
  <2>2. event[2] \in EventPayloads
    BY <1>4, <1>5, <2>1 DEF EventPayloads
  <2> HIDE DEF event
  <2>3. \A e : e.type = "DEVIATION_CORRECTED" => Tells(Retell(Retold(audit[id]), e), b)
    BY <1>2, <1>3, <1>4, CorrectTells
  <2> QED
    BY <2>1, <2>2, <2>3 DEF Telling, EventTypes
<1>11. Answers(Result(b), id, b) /\ Certified(id, b)
  BY <1>8 DEF Answers, Result, Certified, CorrectDeviation
<1>12. Commit(c, b, event, Result(b))
  BY <1>1, <1>2 DEF CorrectDeviation
<1>13. Open(id)
  BY <1>1, <1>5 DEF Open, Terminal
<1>14. Terminal(b.status) <=> c.op = "review"
  BY <1>4, <1>8 DEF Terminal
<1> HIDE DEF event
<1>15. Proper(c, b, event, Result(b))
  BY <1>3, <1>6, <1>8, <1>9, <1>10, <1>11, <1>12, <1>13, <1>14 DEF Proper
<1> QED
  BY <1>15

LEMMA RecoverProper ==
  ASSUME ServiceInv, NEW c, CommandTyped(c), c.batch \in DOMAIN batches,
         MutateVerdict(batches[c.batch], c) = "accepted", StartRecovering(c)
  PROVE  \E b, event, answer : Proper(c, b, event, answer)
<1> DEFINE id == c.batch
<1>1. PICK old : old = batches[id]
  OBVIOUS
<1>2. PICK b : b = ApproveRecovery(old, c.actor)
  OBVIOUS
<1>3. /\ AggregateInv(old) /\ id \in BatchIds /\ old.revision = Len(audit[id])
      /\ Tells(Retold(audit[id]), old)
  BY <1>1, Found
<1>4. c.op = "recover" /\ c.actor \in Actors /\ CanApproveRecovery(old)
  BY <1>1 DEF StartRecovering, MutateVerdict, RecoverVerdict, CommandTyped
<1>5. AggregateInv(b) /\ DOMAIN b.deviations = DOMAIN old.deviations
  BY <1>2, <1>3, <1>4, RecoverKeeps
<1>6. /\ b.status = "recovering" /\ b.revision = old.revision + 1 /\ b.protocol = old.protocol
      /\ b.observations = old.observations /\ b.review = old.review
  BY <1>2, <1>3, RecoverFields DEF AggregateInv, AggregateTyped
<1>7. Grown(id, b)
  BY <1>1, <1>5, <1>6, GrownFrom
<1> DEFINE event == <<"RECOVERY_APPROVED", [window |-> b.protocol.window]>>
<1>8. Telling(id, b, event)
  <2>1. event[1] = "RECOVERY_APPROVED" /\ event[2] = [window |-> old.protocol.window]
    BY <1>6
  <2>2. old.protocol.window \in Int
    BY <1>5, <1>6 DEF AggregateInv, Frozen
  <2>3. event[2] \in EventPayloads
    BY <2>1, <2>2 DEF EventPayloads
  <2> HIDE DEF event
  <2>4. ASSUME NEW e, e.type = "RECOVERY_APPROVED", e.payload = event[2]
        PROVE  Tells(Retell(Retold(audit[id]), e), b)
    BY <1>2, <1>3, <1>4, <2>1, <2>4, RecoverTells
  <2> QED
    BY <2>1, <2>3, <2>4 DEF Telling, EventTypes
<1>9. Answers(Result(b), id, b) /\ Certified(id, b)
  BY <1>6 DEF Answers, Result, Certified, StartRecovering
<1>10. Commit(c, b, event, Result(b))
  BY <1>1, <1>2 DEF StartRecovering
<1>11. Open(id)
  BY <1>1, <1>4 DEF Open, CanApproveRecovery
<1>12. Terminal(b.status) <=> c.op = "review"
  BY <1>4, <1>6 DEF Terminal
<1> HIDE DEF event
<1>13. Proper(c, b, event, Result(b))
  BY <1>3, <1>5, <1>6, <1>7, <1>8, <1>9, <1>10, <1>11, <1>12 DEF Proper
<1> QED
  BY <1>13

LEMMA ObserveProper ==
  ASSUME ServiceInv, NEW c, CommandTyped(c), c.batch \in DOMAIN batches,
         MutateVerdict(batches[c.batch], c) = "accepted", SubmitObservation(c)
  PROVE  \E b, event, answer : Proper(c, b, event, answer)
<1> DEFINE id == c.batch
<1>1. PICK old : old = batches[id]
  OBVIOUS
<1>2. PICK o : o = c.input
  OBVIOUS
<1>3. PICK b : b = AddObservation(old, o, c.actor)
  OBVIOUS
<1>4. /\ AggregateInv(old) /\ id \in BatchIds /\ old.revision = Len(audit[id])
      /\ Tells(Retold(audit[id]), old)
  BY <1>1, Found
<1>5. /\ c.op = "observe" /\ o \in Inputs /\ c.actor \in Actors
      /\ CanAddObservation(old, o) /\ ~ObservationIdUsed(o)
  BY <1>1, <1>2
  DEF SubmitObservation, MutateVerdict, ObserveVerdict, CommandTyped, InputTyped, Inputs
<1>6. \A row \in observations : row.id # o.id
  BY <1>5 DEF ObservationIdUsed
<1>7. o.id \notin RecordedIds(old)
  BY <1>1, <1>6, RecordedRow DEF ServiceInv
<1>8. AggregateInv(b)
  BY <1>3, <1>4, <1>5, <1>7, ObserveKeeps
<1>9. /\ b.revision = old.revision + 1 /\ b.review = old.review /\ b.protocol = old.protocol
      /\ b.observations = Append(old.observations, Recorded(o, Codes(old, o)))
  BY <1>3, <1>4, ObserveFields DEF AggregateInv, AggregateTyped
<1>10. /\ b.status \in {"paused", "monitoring", "pending_review", "recovering"}
       /\ DOMAIN old.deviations \subseteq DOMAIN b.deviations
       /\ \A x \in DOMAIN b.deviations : x \in DOMAIN old.deviations \/ x[1] = o.id
  <2>1. CASE Raising(old, o, b)
    BY <2>1 DEF Raising
  <2>2. CASE Monitoring(old, o, b)
    BY <2>2 DEF Monitoring
  <2>3. ASSUME NEW n \in Nat, Counting(old, o, b, n)
        PROVE  /\ b.status \in {"paused", "monitoring", "pending_review", "recovering"}
               /\ DOMAIN b.deviations = DOMAIN old.deviations
    BY <2>3 DEF Counting
  <2> QED
    BY <1>3, <1>4, <1>5, <1>7, <2>1, <2>2, <2>3, ObservedCases
<1>11. \A i \in DOMAIN old.observations :
         i \in DOMAIN b.observations /\ b.observations[i] = old.observations[i]
  <2>1. PICK codes : codes = Codes(old, o)
    OBVIOUS
  <2>2. /\ old.observations \in Seq(ObservationRecords)
        /\ Recorded(o, codes) \in ObservationRecords
    BY <1>4, <1>5, RecordedFacts DEF AggregateInv, AggregateTyped
  <2> QED
    BY <1>9, <2>1, <2>2, Appended
<1>12. Grown(id, b)
  BY <1>1, <1>6, <1>9, <1>10, <1>11, GrownFrom
<1> DEFINE event  == <<"OBSERVATION_RECORDED", [observation |-> o.id, codes |-> Codes(old, o)]>>
           answer == [status |-> b.status, revision |-> b.revision,
                      baseline |-> BaselineDigest(b), codes |-> Codes(old, o),
                      open |-> OpenDeviations(b)]
<1>13. Telling(id, b, event)
  <2>1. /\ event[1] = "OBSERVATION_RECORDED"
        /\ event[2] = [observation |-> o.id, codes |-> Codes(old, o)]
    OBVIOUS
  <2>2. o.id \in ObservationIds /\ Codes(old, o) \in SUBSET RuleCodes
    BY <1>5, CodesType DEF Inputs
  <2>3. event[2] \in EventPayloads
    BY <2>1, <2>2 DEF EventPayloads
  <2> HIDE DEF event
  <2>4. ASSUME NEW e, e.type = "OBSERVATION_RECORDED", e.payload = event[2]
        PROVE  Tells(Retell(Retold(audit[id]), e), b)
    BY <1>3, <1>4, <1>5, <1>7, <2>1, <2>4, ObserveTells
  <2> QED
    BY <2>1, <2>3, <2>4 DEF Telling, EventTypes
<1>14. Answers(answer, id, b) /\ Certified(id, b)
  BY <1>10 DEF Answers, Certified, SubmitObservation
<1>15. Commit(c, b, event, answer)
  BY <1>1, <1>2, <1>3 DEF SubmitObservation, Codes
<1>16. Open(id)
  BY <1>1, <1>5 DEF Open, CanAddObservation
<1>17. Terminal(b.status) <=> c.op = "review"
  BY <1>5, <1>10 DEF Terminal
<1> HIDE DEF event, answer
<1>18. Proper(c, b, event, answer)
  BY <1>4, <1>8, <1>9, <1>12, <1>13, <1>14, <1>15, <1>16, <1>17 DEF Proper
<1> QED
  BY <1>18

LEMMA ReviewProper ==
  ASSUME ServiceInv, NEW c, CommandTyped(c), c.batch \in DOMAIN batches,
         MutateVerdict(batches[c.batch], c) = "accepted", DecideOnReview(c)
  PROVE  \E b, event, answer : Proper(c, b, event, answer)
<1> DEFINE id == c.batch
           certificate == IF c.input.decision = "approve" THEN id ELSE Nil
<1>1. PICK old : old = batches[id]
  OBVIOUS
<1>2. PICK r : r = Reviewed(c, old)
  OBVIOUS
<1>3. PICK b : b = DecideReview(old, r)
  OBVIOUS
<1>4. /\ AggregateInv(old) /\ id \in BatchIds /\ old.revision = Len(audit[id])
      /\ Tells(Retold(audit[id]), old) /\ audit[id] \in Seq(Events)
  BY <1>1, Found
<1>5. /\ c.op = "review" /\ c.input.id \in ReviewIds /\ c.input.checksPassed \in BOOLEAN
      /\ c.actor \in Actors /\ CanDecideReview(old, r)
  BY <1>1, <1>2 DEF DecideOnReview, MutateVerdict, ReviewVerdict, CommandTyped, InputTyped
<1>6. /\ r = [id |-> c.input.id, reviewer |-> c.actor, decision |-> c.input.decision,
              checksPassed |-> c.input.checksPassed, evidenceRoot |-> audit[id]]
  BY <1>2 DEF Reviewed
<1>7. /\ c.input.decision \in {"approve", "reject"} /\ r.decision = c.input.decision
      /\ r.evidenceRoot = audit[id] /\ old.observations # <<>> /\ old.status = "pending_review"
  BY <1>5, <1>6 DEF CanDecideReview
<1>8. r \in Reviews
  BY <1>4, <1>5, <1>6, <1>7 DEF Reviews
<1>9. AggregateInv(b)
  BY <1>3, <1>4, <1>5, <1>8, ReviewKeeps
<1>10. /\ b.status = IF c.input.decision = "approve" THEN "approved_sealed" ELSE "rejected_sealed"
       /\ b.revision = old.revision + 1 /\ b.observations = old.observations
       /\ b.deviations = old.deviations /\ b.review = r
  BY <1>3, <1>4, <1>7, ReviewFields DEF AggregateInv, AggregateTyped
<1>11. Grown(id, b)
  <2>1. b.review # Nil
    BY <1>8, <1>10, RowsAssumption
  <2> QED
    BY <1>1, <1>10, <2>1, GrownFrom
<1>12. certificate \in BatchIds \cup {Nil} /\ id # Nil
  BY <1>4, RowsAssumption
<1> DEFINE event  == <<"REVIEW_DECIDED", [review |-> c.input.id, certificate |-> certificate,
                                          decision |-> c.input.decision]>>
           answer == [status |-> b.status, revision |-> b.revision,
                      baseline |-> BaselineDigest(b), certificate |-> certificate]
<1>13. Telling(id, b, event)
  <2>1. /\ event[1] = "REVIEW_DECIDED"
        /\ event[2] = [review |-> c.input.id, certificate |-> certificate,
                       decision |-> c.input.decision]
        /\ event[2].decision = r.decision
    BY <1>7
  <2>2. event[2] \in EventPayloads
    <3> HIDE DEF certificate
    <3> QED
      BY <1>5, <1>7, <1>12, <2>1 DEF EventPayloads
  <2> HIDE DEF event
  <2>3. ASSUME NEW e, e.type = "REVIEW_DECIDED", e.payload = event[2]
        PROVE  Tells(Retell(Retold(audit[id]), e), b)
    BY <1>3, <1>4, <2>1, <2>3, ReviewTells
  <2> QED
    BY <2>1, <2>2, <2>3 DEF Telling, EventTypes
<1>14. Commit(c, b, event, answer)
  BY <1>1, <1>2, <1>3 DEF DecideOnReview
<1>15. Certified(id, b) /\ (b.status = "approved_sealed" => id \in DOMAIN certificates')
  <2>1. CASE c.input.decision = "approve"
    <3>1. certificates' = Put(certificates, id, [payload   |-> Payload(id, b, audit[id]),
                                                 auditRoot |-> audit'[id]])
      BY <1>1, <1>2, <1>3, <1>12, <2>1 DEF DecideOnReview, Seal
    <3> QED
      BY <1>7, <1>10, <2>1, <3>1 DEF Certified, Put
  <2>2. CASE c.input.decision # "approve"
    <3>1. certificates' = certificates
      BY <2>2 DEF DecideOnReview
    <3> QED
      BY <1>10, <2>2, <3>1 DEF Certified
  <2> QED
    BY <2>1, <2>2
<1>16. Answers(answer, id, b)
  BY <1>10, <1>12, <1>15 DEF Answers
<1>17. Open(id)
  BY <1>1, <1>7 DEF Open, Terminal
<1>18. Terminal(b.status) <=> c.op = "review"
  BY <1>5, <1>10 DEF Terminal
<1> HIDE DEF event, answer
<1>19. Proper(c, b, event, answer)
  BY <1>4, <1>9, <1>10, <1>11, <1>13, <1>14, <1>15, <1>16, <1>17, <1>18 DEF Proper
<1> QED
  BY <1>19

LEMMA AcceptProper ==
  ASSUME ServiceInv, NEW c, CommandTyped(c), Verdict(c) = "accepted", Accept(c)
  PROVE  \E b, event, answer : Proper(c, b, event, answer)
<1>1. OperationVerdict(c) = "accepted"
  BY DEF Verdict
<1>2. CASE CreateBatch(c)
  <2>1. CreateVerdict(c) = "accepted"
    BY <1>1, <1>2 DEF CreateBatch, OperationVerdict
  <2> QED
    BY <1>2, <2>1, CreateProper
<1>3. CASE c.op # "create"
  <2>1. c.batch \in DOMAIN batches /\ MutateVerdict(batches[c.batch], c) = "accepted"
    BY <1>1, <1>3 DEF OperationVerdict
  <2> QED
    BY <1>3, <2>1, FreezeProper, ObserveProper, CorrectProper, RecoverProper, ReviewProper
    DEF Accept, CreateBatch
<1> QED
  BY <1>2, <1>3 DEF Accept, FreezeBaseline, SubmitObservation, CorrectDeviation,
                    StartRecovering, DecideOnReview

\* Every command that is accepted keeps the invariant.
LEMMA AcceptKeeps ==
  ASSUME ServiceInv, NEW c, CommandTyped(c), Verdict(c) = "accepted", Accept(c)
  PROVE  ServiceInv'
  BY AcceptProper, ProperKeeps

LEMMA ServiceStarts == ServiceInit => ServiceInv
<1> SUFFICES ASSUME ServiceInit
             PROVE  ServiceInv
  OBVIOUS
<1>1. /\ DOMAIN batches = {} /\ observations = {} /\ DOMAIN deviations = {}
      /\ DOMAIN reviews = {} /\ audit = [b \in BatchIds |-> <<>>]
      /\ DOMAIN certificates = {} /\ DOMAIN idempotency = {}
  BY DEF ServiceInit, NoRows
<1>2. audit \in [BatchIds -> Seq(Events)]
  <2>1. <<>> \in Seq(Events)
    OBVIOUS
  <2> QED
    BY <1>1, <2>1
<1>3. TablesTyped
  BY <1>1, <1>2 DEF TablesTyped
<1>4. TrailInv /\ CertificateInv /\ AnswerInv
  BY <1>1 DEF TrailInv, CertificateInv, AnswerInv
<1>5. CopiesMirrorBatches
  BY <1>1 DEF CopiesMirrorBatches
<1> QED
  BY <1>3, <1>4, <1>5 DEF ServiceInv

-----------------------------------------------------------------------------
(* What the invariant says of answers and certificates                       *)

LEMMA AnswersAreTold == ServiceInv => AnswersTellTheTrail
<1> SUFFICES ASSUME ServiceInv, NEW r \in DOMAIN idempotency,
                    NEW answer, answer = idempotency[r].response,
                    NEW id, id = idempotency[r].command.batch,
                    NEW told, told = Retold(SubSeq(audit[id], 1, answer.revision))
             PROVE  /\ answer.status = told.status
                    /\ "open" \in DOMAIN answer => answer.open = told.open
                    /\ "certificate" \in DOMAIN answer =>
                         (answer.certificate # Nil <=>
                            told.status = "approved_sealed" /\ id \in DOMAIN certificates)
                    /\ answer.revision = Len(audit[id]) =>
                         answer.status = batches[id].status /\ answer.revision = batches[id].revision
  BY DEF AnswersTellTheTrail
<1>1. AnswerTold(answer, id)
  BY DEF ServiceInv, AnswerInv
<1>2. id \in DOMAIN batches
  BY <1>1 DEF AnswerTold
<1>3. ASSUME answer.revision = Len(audit[id])
      PROVE  answer.status = batches[id].status /\ answer.revision = batches[id].revision
  <2>1. /\ audit[id] \in Seq(Events) /\ batches[id].revision = Len(audit[id])
        /\ Tells(Retold(audit[id]), batches[id])
    BY <1>2, Found
  <2>2. SubSeq(audit[id], 1, answer.revision) = audit[id]
    BY <1>3, <2>1
  <2> QED
    BY <1>1, <1>3, <2>1, <2>2 DEF AnswerTold, Tells
<1> QED
  BY <1>1, <1>3 DEF AnswerTold

\* A batch has as many rows as observations.
LEMMA RowsCounted ==
  ASSUME ServiceInv, NEW id \in DOMAIN batches,
         NEW rows, rows = {row \in observations : row.batch = id}
  PROVE  Cardinality(rows) = Len(batches[id].observations)
<1> DEFINE os == batches[id].observations
           n  == Len(os)
           f  == [i \in 1 .. n |-> ObservationRow(id, os[i])]
<1>1. os \in Seq(ObservationRecords) /\ n \in Nat /\ DOMAIN os = 1 .. n
  BY DEF ServiceInv, TablesTyped, AggregateInv, AggregateTyped
<1>2. \A row \in rows : \E i \in 1 .. n : f[i] = row
  <2>1. SUFFICES ASSUME NEW row \in observations, row.batch = id
                 PROVE  \E i \in 1 .. n : f[i] = row
    OBVIOUS
  <2>2. PICK x \in DOMAIN batches : RowOf(x, batches[x], row)
    BY DEF ServiceInv, CopiesMirrorBatches, RowOf
  <2>3. x = id
    BY <2>1, <2>2 DEF RowOf, ObservationRow
  <2> QED
    BY <1>1, <2>2, <2>3 DEF RowOf
<1>3. \A i \in 1 .. n : f[i] \in rows
  <2>1. ASSUME NEW i \in 1 .. n
        PROVE  f[i] \in observations /\ f[i].batch = id
    <3>1. f[i] = ObservationRow(id, os[i])
      OBVIOUS
    <3>2. ObservationRow(id, os[i]) \in observations
      BY <1>1 DEF ServiceInv, CopiesMirrorBatches
    <3>3. ObservationRow(id, os[i]).batch = id
      BY DEF ObservationRow
    <3> QED
      BY <3>1, <3>2, <3>3
  <2> QED
    BY <2>1
<1>4. ASSUME NEW i \in 1 .. n, NEW j \in 1 .. n, f[i] = f[j]
      PROVE  i = j
  <2>1. os[i].sequenceNo = os[j].sequenceNo
    BY <1>4 DEF ObservationRow
  <2>2. os[i].sequenceNo \in Nat
    <3>1. os[i] \in ObservationRecords
      BY <1>1
    <3> QED
      BY <3>1 DEF ObservationRecords
  <2>3. ~(i < j) /\ ~(j < i)
    BY <1>1, <2>1, <2>2 DEF ServiceInv, TablesTyped, AggregateInv, Ordered
  <2> QED
    BY <1>1, <2>3
<1>5. ExistsBijection(1 .. n, rows)
  <2>1. f \in [1 .. n -> rows]
    BY <1>3
  <2> HIDE DEF f
  <2>2. f \in Bijection(1 .. n, rows)
    BY <1>2, <1>4, <2>1 DEF Bijection, Injection, Surjection, IsInjective
  <2> QED
    BY <2>2 DEF ExistsBijection
<1> HIDE DEF n
<1> QED
  BY <1>1, <1>5, FS_CountingElements DEF n

LEMMA CertificatesAreTrue == ServiceInv => CertificateTellsTheRecord
<1> SUFFICES ASSUME ServiceInv, NEW id \in BatchIds
             PROVE  /\ id \in DOMAIN certificates <=>
                         id \in DOMAIN batches /\ batches[id].status = "approved_sealed"
                    /\ id \in DOMAIN certificates =>
                         LET b == batches[id]
                             p == certificates[id].payload
                         IN  /\ Verify(id, b, certificates[id], audit[id])
                             /\ p.finalRevision = Len(audit[id])
                             /\ p.evidenceRoot = SubSeq(audit[id], 1, p.finalRevision - 1)
                             /\ p.evidenceRoot = b.review.evidenceRoot
                             /\ p.count = Cardinality({row \in observations : row.batch = id})
                             /\ \A row \in observations :
                                  row.batch = id => row.sequenceNo \in p.first .. p.last
                             /\ DOMAIN p.closures = {x \in DOMAIN deviations : deviations[x].batch = id}
                             /\ \A x \in DOMAIN p.closures :
                                  /\ p.closures[x].status = "closed"
                                  /\ Len(p.closures[x].qualified) = p.window
  BY DEF CertificateTellsTheRecord
<1>1. id \in DOMAIN certificates <=> id \in DOMAIN batches /\ batches[id].status = "approved_sealed"
  BY DEF ServiceInv, CertificateInv
<1> SUFFICES ASSUME id \in DOMAIN certificates, NEW b, b = batches[id],
                    NEW p, p = certificates[id].payload
             PROVE  /\ Verify(id, b, certificates[id], audit[id])
                    /\ p.finalRevision = Len(audit[id])
                    /\ p.evidenceRoot = SubSeq(audit[id], 1, p.finalRevision - 1)
                    /\ p.evidenceRoot = b.review.evidenceRoot
                    /\ p.count = Cardinality({row \in observations : row.batch = id})
                    /\ \A row \in observations :
                         row.batch = id => row.sequenceNo \in p.first .. p.last
                    /\ DOMAIN p.closures = {x \in DOMAIN deviations : deviations[x].batch = id}
                    /\ \A x \in DOMAIN p.closures :
                         p.closures[x].status = "closed" /\ Len(p.closures[x].qualified) = p.window
  BY <1>1
<1> DEFINE before == SubSeq(audit[id], 1, Len(audit[id]) - 1)
<1>2. /\ id \in DOMAIN batches /\ b.status = "approved_sealed"
      /\ AggregateInv(b) /\ b.revision = Len(audit[id])
  BY <1>1, Found
<1>3. /\ certificates[id] = [payload |-> Payload(id, b, before), auditRoot |-> audit[id]]
      /\ b.review.evidenceRoot = before /\ b.observations # <<>>
  BY DEF ServiceInv, CertificateInv
<1>4. certificates[id].auditRoot = audit[id] /\ p = Payload(id, b, before)
  BY <1>3
<1>5. /\ p.batch = id /\ p.finalStatus = b.status /\ p.finalRevision = b.revision
      /\ p.baseline = BaselineDigest(b) /\ p.window = b.protocol.window
      /\ p.first = b.observations[1].sequenceNo /\ p.last = LastObservation(b).sequenceNo
      /\ p.count = Len(b.observations) /\ p.closures = b.deviations /\ p.evidenceRoot = before
  BY <1>4 DEF Payload
<1>6. Verify(id, b, certificates[id], audit[id])
  <2>1. b.protocol # Nil /\ b.review # Nil /\ b.protocol \in Protocols /\ b.baseline \subseteq Actors
    BY <1>2 DEF AggregateInv, AggregateTyped, Frozen, Terminal
  <2>2. BaselineDigest(b) \in Digests
    BY <2>1 DEF BaselineDigest, Digests
  <2>3. BaselineDigest(b) # Nil
    BY <2>2, RowsAssumption
  <2> QED
    BY <1>2, <1>4, <1>5, <2>1, <2>3 DEF Verify
<1>7. p.count = Cardinality({row \in observations : row.batch = id})
  BY <1>2, <1>5, RowsCounted
<1>8. ASSUME NEW row \in observations, row.batch = id
      PROVE  row.sequenceNo \in p.first .. p.last
  <2> DEFINE n == Len(b.observations)
  <2>1. b.observations \in Seq(ObservationRecords) /\ Ordered(b)
    BY <1>2 DEF AggregateInv, AggregateTyped
  <2>2. n \in Nat \ {0} /\ DOMAIN b.observations = 1 .. n
    BY <1>3, <2>1
  <2>3. PICK x \in DOMAIN batches : RowOf(x, batches[x], row)
    BY DEF ServiceInv, CopiesMirrorBatches, RowOf
  <2>4. x = id
    BY <1>8, <2>3 DEF RowOf, ObservationRow
  <2>5. PICK i \in 1 .. n : row.sequenceNo = b.observations[i].sequenceNo
    BY <2>2, <2>3, <2>4 DEF RowOf, ObservationRow
  <2>6. /\ b.observations[1].sequenceNo \in Nat /\ b.observations[n].sequenceNo \in Nat
        /\ b.observations[i].sequenceNo \in Nat
    <3>1. \A j \in 1 .. n : b.observations[j] \in ObservationRecords
      BY <2>1, <2>2
    <3> QED
      BY <2>2, <3>1 DEF ObservationRecords
  <2>7. b.observations[1].sequenceNo <= b.observations[i].sequenceNo
    <3>1. i = 1 \/ 1 < i
      BY <2>2
    <3> QED
      BY <2>1, <2>2, <2>6, <3>1 DEF Ordered
  <2>8. b.observations[i].sequenceNo <= b.observations[n].sequenceNo
    <3>1. i = n \/ i < n
      BY <2>2
    <3> QED
      BY <2>1, <2>2, <2>6, <3>1 DEF Ordered
  <2>9. LastObservation(b) = b.observations[n]
    BY <1>3 DEF LastObservation
  <2> QED
    BY <1>5, <2>5, <2>6, <2>7, <2>8, <2>9
<1>9. DOMAIN p.closures = {x \in DOMAIN deviations : deviations[x].batch = id}
  <2>1. ASSUME NEW x \in DOMAIN b.deviations
        PROVE  x \in DOMAIN deviations /\ deviations[x].batch = id
    <3>1. /\ x \in DOMAIN deviations
          /\ deviations[x] = [batch |-> id, case |-> batches[id].deviations[x]]
      BY <1>2 DEF ServiceInv, CopiesMirrorBatches
    <3> QED
      BY <3>1
  <2>2. \A x \in DOMAIN deviations : deviations[x].batch = id => x \in DOMAIN b.deviations
    BY <1>2 DEF ServiceInv, CopiesMirrorBatches
  <2> QED
    BY <1>5, <2>1, <2>2
<1>10. \A x \in DOMAIN p.closures :
         p.closures[x].status = "closed" /\ Len(p.closures[x].qualified) = p.window
  BY <1>2, <1>5 DEF AggregateInv, Together, Decided
<1> QED
  BY <1>2, <1>3, <1>5, <1>6, <1>7, <1>8, <1>9, <1>10
===============================================================================
