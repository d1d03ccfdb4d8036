------------------------ MODULE BatchLifecycleProofs ------------------------
(***************************************************************************)
(* The safety invariants of BatchLifecycle for any constants: any number   *)
(* of people, observations, baselines and any window.                      *)
(***************************************************************************)
EXTENDS BatchLifecycle, TLAPS

-----------------------------------------------------------------------------
(* Runs of qualified observations                                            *)

\* Two runs of qualified observations that both go back to the last abnormal one
\* have the same length.
LEMMA SinceAbnormalUnique ==
  ASSUME NEW obs \in Seq(Observation),
         NEW p \in Seq(ObservationIds), NEW q \in Seq(ObservationIds),
         SinceAbnormal(obs, p), SinceAbnormal(obs, q)
  PROVE  Len(p) = Len(q)
<1>1. ASSUME NEW r \in Seq(ObservationIds), NEW s \in Seq(ObservationIds),
             SinceAbnormal(obs, r), SinceAbnormal(obs, s), Len(r) < Len(s)
      PROVE  FALSE
  <2>1. Len(r) \in Nat /\ Len(s) \in Nat /\ Len(obs) \in Nat
    OBVIOUS
  <2> DEFINE i == Len(s) - Len(r)
  <2>2. i \in 1 .. Len(s)
    BY <1>1, <2>1
  <2>3. Len(obs) - Len(s) + i = Len(obs) - Len(r)
    BY <2>1
  <2> HIDE DEF i
  <2>4. obs[Len(obs) - Len(s) + i].qualified
    BY <1>1, <2>2 DEF SinceAbnormal
  <2> QED
    BY <1>1, <2>3, <2>4 DEF SinceAbnormal
<1> QED
  BY <1>1

\* A qualified observation makes the run one longer.
LEMMA SinceAbnormalGrows ==
  ASSUME NEW obs \in Seq(Observation), NEW p \in Seq(ObservationIds),
         SinceAbnormal(obs, p), NEW o \in Observation, o.qualified
  PROVE  SinceAbnormal(Append(obs, o), Append(p, o.id))
<1> DEFINE obs2 == Append(obs, o)
           p2   == Append(p, o.id)
           n    == Len(obs)
           k    == Len(p)
<1>1. /\ n \in Nat /\ k \in Nat /\ o.id \in ObservationIds
      /\ Len(obs2) = n + 1 /\ Len(p2) = k + 1
      /\ \A i \in 1 .. n : obs2[i] = obs[i]
      /\ \A i \in 1 .. k : p2[i] = p[i]
      /\ obs2[n + 1] = o /\ p2[k + 1] = o.id
  BY DEF Observation
<1>2. k < n /\ ~obs[n - k].qualified
  BY DEF SinceAbnormal
<1>3. \A i \in 1 .. k : obs[n - k + i].id = p[i] /\ obs[n - k + i].qualified
  BY DEF SinceAbnormal
<1> HIDE DEF obs2, p2, n, k
<1>4. n + 1 - (k + 1) = n - k /\ n - k \in 1 .. n
  BY <1>1, <1>2
<1>5. ~obs2[n + 1 - (k + 1)].qualified
  BY <1>1, <1>2, <1>4
<1>6. ASSUME NEW i \in 1 .. k + 1
      PROVE  obs2[n + 1 - (k + 1) + i].id = p2[i] /\ obs2[n + 1 - (k + 1) + i].qualified
  <2>1. CASE i = k + 1
    <3>1. n + 1 - (k + 1) + i = n + 1
      BY <1>1, <2>1
    <3> QED
      BY <1>1, <2>1, <3>1
  <2>2. CASE i \in 1 .. k
    <3>1. n + 1 - (k + 1) + i = n - k + i /\ n - k + i \in 1 .. n
      BY <1>1, <1>2, <2>2
    <3>2. p2[i] = p[i] /\ obs2[n - k + i] = obs[n - k + i]
      BY <1>1, <2>2, <3>1
    <3>3. obs[n - k + i].id = p[i] /\ obs[n - k + i].qualified
      BY <1>3, <2>2
    <3> QED
      BY <3>1, <3>2, <3>3
  <2> QED
    BY <1>1, <2>1, <2>2
<1>7. k + 1 < n + 1
  BY <1>1, <1>2
<1>8. SinceAbnormal(obs2, p2)
  BY <1>1, <1>5, <1>6, <1>7 DEF SinceAbnormal
<1> QED
  BY <1>8 DEF obs2, p2

\* An abnormal observation starts a new, empty run.
LEMMA SinceAbnormalStarts ==
  ASSUME NEW obs \in Seq(Observation), NEW o \in Observation, ~o.qualified
  PROVE  SinceAbnormal(Append(obs, o), <<>>)
  BY DEF SinceAbnormal

-----------------------------------------------------------------------------
(* One deviation                                                             *)

LEMMA AppendUniqueType ==
  ASSUME NEW ids \in Seq(ObservationIds), NEW id \in ObservationIds
  PROVE  AppendUnique(ids, id) \in Seq(ObservationIds)
  BY DEF AppendUnique

LEMMA CountQualifiedType ==
  ASSUME NEW d \in Deviation, NEW id \in ObservationIds, NEW window
  PROVE  CountQualified(d, id, window) \in Deviation
<1>1. AppendUnique(d.qualified, id) \in Seq(ObservationIds)
  BY AppendUniqueType DEF Deviation
<1> QED
  BY <1>1 DEF CountQualified, Deviation

\* An observation that is new to a corrected deviation is credited to it, and
\* closes it when the window is full.
LEMMA CountQualifiedFresh ==
  ASSUME NEW d \in Deviation, NEW id \in ObservationIds, NEW window \in Nat,
         d.status = "corrected", \A i \in DOMAIN d.qualified : d.qualified[i] # id
  PROVE  /\ CountQualified(d, id, window).qualified = Append(d.qualified, id)
         /\ CountQualified(d, id, window).status =
              IF Len(d.qualified) + 1 >= window THEN "closed" ELSE "corrected"
<1>1. AppendUnique(d.qualified, id) = Append(d.qualified, id)
  BY DEF AppendUnique
<1>2. Len(Append(d.qualified, id)) = Len(d.qualified) + 1
  BY DEF Deviation
<1> QED
  BY <1>1, <1>2 DEF CountQualified, Deviation

LEMMA ResetRecoveryFacts ==
  ASSUME NEW d \in Deviation
  PROVE  /\ ResetRecovery(d) \in Deviation
         /\ d.status # "closed" => ResetRecovery(d).status = "open"
         /\ d.status = "closed" => ResetRecovery(d) = d
<1>1. <<>> \in Seq(ObservationIds)
  OBVIOUS
<1>2. CASE d.status = "closed"
  BY <1>2 DEF ResetRecovery
<1>3. CASE d.status # "closed"
  <2>1. ResetRecovery(d) = [status |-> "open", owner |-> d.owner, qualified |-> <<>>]
    BY <1>3 DEF ResetRecovery, Deviation
  <2> QED
    BY <1>1, <1>3, <2>1 DEF Deviation
<1> QED
  BY <1>2, <1>3

LEMMA StartRecoveryFacts ==
  ASSUME NEW d \in Deviation
  PROVE  /\ StartRecovery(d) \in Deviation
         /\ StartRecovery(d).status = d.status
         /\ d.status = "corrected" => StartRecovery(d).qualified = <<>>
<1>1. <<>> \in Seq(ObservationIds)
  OBVIOUS
<1>2. CASE d.status # "corrected"
  BY <1>2 DEF StartRecovery
<1>3. CASE d.status = "corrected"
  <2>1. StartRecovery(d) = [status |-> "corrected", owner |-> d.owner, qualified |-> <<>>]
    BY <1>3 DEF StartRecovery, Deviation
  <2> QED
    BY <1>1, <1>3, <2>1 DEF Deviation
<1> QED
  BY <1>2, <1>3

LEMMA OpenDeviationType == OpenDeviation \in Deviation
  BY DEF OpenDeviation, Deviation
-----------------------------------------------------------------------------
(* What an operation does to each field of the aggregate                     *)

Fields(b, status, protocol, observations, deviations, review, baseline, observers, correctors) ==
  b = [status |-> status, revision |-> batch.revision + 1, createdBy |-> batch.createdBy,
       protocol |-> protocol, observations |-> observations, deviations |-> deviations,
       review |-> review, baseline |-> baseline, observers |-> observers,
       correctors |-> correctors]

LEMMA FreezeFields ==
  ASSUME TypeOK, NEW actor, NEW p, Freeze(actor, p)
  PROVE  Fields(batch', "monitoring", p, batch.observations, batch.deviations, batch.review,
                batch.baseline \cup {actor}, batch.observers, batch.correctors)
  BY DEF TypeOK, Freeze, FreezeProtocol, Fields

Corrected(deviations, x, owner) ==
  [deviations EXCEPT ![x] = [@ EXCEPT !.status = "corrected", !.owner = TrimSpace[owner]]]

LEMMA CorrectFields ==
  ASSUME TypeOK, NEW actor, NEW x, NEW owner, CorrectDeviation(actor, x, owner)
  PROVE  Fields(batch', batch.status, batch.protocol, batch.observations,
                Corrected(batch.deviations, x, owner), batch.review, batch.baseline,
                batch.observers, batch.correctors \cup {owner})
  BY DEF TypeOK, CorrectDeviation, RegisterCorrection, Fields, Corrected

LEMMA RecoverFields ==
  ASSUME TypeOK, NEW actor, Recover(actor)
  PROVE  Fields(batch', "recovering", batch.protocol, batch.observations,
                [x \in DOMAIN batch.deviations |-> StartRecovery(batch.deviations[x])],
                batch.review, batch.baseline, batch.observers, batch.correctors \cup {actor})
  BY DEF TypeOK, Recover, ApproveRecovery, Fields

LEMMA ReviewFields ==
  ASSUME TypeOK, NEW actor, NEW decision, NEW passed, Review(actor, decision, passed)
  PROVE  Fields(batch', IF decision = "approve" THEN "approved_sealed" ELSE "rejected_sealed",
                batch.protocol, batch.observations, batch.deviations,
                [reviewer |-> actor, decision |-> decision, checksPassed |-> passed],
                batch.baseline, batch.observers, batch.correctors)
  BY DEF TypeOK, Review, DecideReview, Fields

Codes(stamp, reading) ==
  EvaluateObservation(batch.protocol, LastObservation(batch), ProcessObservation(stamp, reading))

Counted(stamp) ==
  [x \in DOMAIN batch.deviations |->
     CountQualified(batch.deviations[x], stamp.id, batch.protocol.window)]

Longer(stamp, reading) ==
  Append(batch.observations, Recorded(ProcessObservation(stamp, reading), Codes(stamp, reading)))

LEMMA AbnormalFields ==
  ASSUME TypeOK, NEW actor, NEW stamp, NEW reading, SubmitObservation(actor, stamp, reading),
         Codes(stamp, reading) # {}
  PROVE  Fields(batch', "paused", batch.protocol, Longer(stamp, reading),
                RaiseDeviations(batch, ProcessObservation(stamp, reading), Codes(stamp, reading)),
                batch.review, batch.baseline, batch.observers \cup {actor}, batch.correctors)
  BY DEF TypeOK, SubmitObservation, AddObservation, Fields, Codes, Longer

LEMMA QualifiedFields ==
  ASSUME TypeOK, NEW actor, NEW stamp, NEW reading, SubmitObservation(actor, stamp, reading),
         Codes(stamp, reading) = {}, batch.status # "recovering"
  PROVE  Fields(batch', batch.status, batch.protocol, Longer(stamp, reading), batch.deviations,
                batch.review, batch.baseline, batch.observers \cup {actor}, batch.correctors)
  BY DEF TypeOK, SubmitObservation, AddObservation, Fields, Codes, Longer

LEMMA CountedFields ==
  ASSUME TypeOK, NEW actor, NEW stamp, NEW reading, SubmitObservation(actor, stamp, reading),
         Codes(stamp, reading) = {}, batch.status = "recovering"
  PROVE  Fields(batch',
                IF \A x \in DOMAIN Counted(stamp) : Counted(stamp)[x].status = "closed"
                THEN "pending_review" ELSE "recovering",
                batch.protocol, Longer(stamp, reading), Counted(stamp), batch.review,
                batch.baseline, batch.observers \cup {actor}, batch.correctors)
<1>1. ProcessObservation(stamp, reading).id = stamp.id
  BY DEF ProcessObservation
<1> QED
  BY <1>1 DEF TypeOK, SubmitObservation, AddObservation, Fields, Codes, Longer, Counted
-----------------------------------------------------------------------------
(* Type correctness                                                          *)

Reviews == [reviewer : Actors, decision : {"approve", "reject"}, checksPassed : BOOLEAN]

DeviationsOK(deviations) ==
  /\ deviations = [x \in DOMAIN deviations |-> deviations[x]]
  /\ DOMAIN deviations \subseteq DeviationIds
  /\ \A x \in DOMAIN deviations : deviations[x] \in Deviation

LEMMA FieldsType ==
  ASSUME TypeOK,
         NEW status \in Statuses, NEW protocol \in Protocols \cup {Nil},
         NEW observations \in Seq(Observation), NEW deviations, DeviationsOK(deviations),
         NEW review \in Reviews \cup {Nil}, NEW baseline \in SUBSET Actors,
         NEW observers \in SUBSET Actors, NEW correctors \in SUBSET Owners,
         Fields(batch', status, protocol, observations, deviations, review, baseline,
                observers, correctors),
         audit' \subseteq EventTypes \X Actors
  PROVE  TypeOK'
<1>1. /\ batch'.status = status /\ batch'.revision = batch.revision + 1
      /\ batch'.createdBy = batch.createdBy /\ batch'.protocol = protocol
      /\ batch'.observations = observations /\ batch'.deviations = deviations
      /\ batch'.review = review /\ batch'.baseline = baseline
      /\ batch'.observers = observers /\ batch'.correctors = correctors
  BY DEF Fields
<1>2. batch' = [status |-> batch'.status, revision |-> batch'.revision,
              createdBy |-> batch'.createdBy, protocol |-> batch'.protocol,
              observations |-> batch'.observations, deviations |-> batch'.deviations,
              review |-> batch'.review, baseline |-> batch'.baseline,
              observers |-> batch'.observers, correctors |-> batch'.correctors]
  BY <1>1 DEF Fields
<1>3. batch'.revision \in Nat \ {0} /\ batch'.createdBy \in Actors
  BY <1>1 DEF TypeOK
<1> QED
  BY <1>1, <1>2, <1>3 DEF TypeOK, DeviationsOK, Reviews

LEMMA AuditType ==
  ASSUME TypeOK, NEW actor \in Actors, NEW type \in EventTypes,
         audit' = audit \cup {<<type, actor>>}
  PROVE  audit' \subseteq EventTypes \X Actors
  BY DEF TypeOK

LEMMA ParticipantsType ==
  ASSUME TypeOK, NEW actor \in Actors
  PROVE  /\ batch.baseline \cup {actor} \in SUBSET Actors
         /\ batch.observers \cup {actor} \in SUBSET Actors
         /\ batch.correctors \cup {actor} \in SUBSET Owners
  BY NamesAssumption DEF TypeOK

\* The fields that an operation leaves alone keep their types.
LEMMA KeptType ==
  ASSUME TypeOK
  PROVE  /\ batch.status \in Statuses /\ batch.protocol \in Protocols \cup {Nil}
         /\ batch.observations \in Seq(Observation) /\ DeviationsOK(batch.deviations)
         /\ batch.review \in Reviews \cup {Nil} /\ batch.baseline \in SUBSET Actors
         /\ batch.observers \in SUBSET Actors /\ batch.correctors \in SUBSET Owners
  BY DEF TypeOK, DeviationsOK, Reviews

LEMMA LongerType ==
  ASSUME TypeOK, NEW stamp \in Stamps, NEW reading \in Readings
  PROVE  /\ Recorded(ProcessObservation(stamp, reading), Codes(stamp, reading)) \in Observation
         /\ Longer(stamp, reading) \in Seq(Observation)
<1>1. UTC(stamp.capturedAt) \in Int
  BY InputsAssumption, ClockAssumption DEF UTC
<1>2. Recorded(ProcessObservation(stamp, reading), Codes(stamp, reading)) \in Observation
  BY <1>1, InputsAssumption DEF Recorded, ProcessObservation, Observation
<1> QED
  BY <1>2 DEF Longer, TypeOK

LEMMA CountedType ==
  ASSUME TypeOK, NEW stamp \in Stamps
  PROVE  DeviationsOK(Counted(stamp))
<1>1. stamp.id \in ObservationIds
  BY InputsAssumption
<1> QED
  BY <1>1, CountQualifiedType DEF TypeOK, DeviationsOK, Counted

LEMMA CodesType == \A stamp, reading : Codes(stamp, reading) \subseteq RuleCodes
  BY DEF Codes, EvaluateObservation

LEMMA RaisedType ==
  ASSUME TypeOK, NEW stamp \in Stamps, NEW codes \in SUBSET RuleCodes, NEW reading
  PROVE  /\ DeviationsOK(RaiseDeviations(batch, ProcessObservation(stamp, reading), codes))
         /\ DOMAIN RaiseDeviations(batch, ProcessObservation(stamp, reading), codes)
              = DOMAIN batch.deviations \cup ({stamp.id} \X codes)
<1> DEFINE raised == {stamp.id} \X codes
           all    == [x \in DOMAIN batch.deviations \cup raised |->
                        IF x \in raised THEN OpenDeviation ELSE batch.deviations[x]]
<1>1. raised \subseteq DeviationIds
  BY InputsAssumption DEF DeviationIds
<1>2. DeviationsOK(all) /\ DOMAIN all = DOMAIN batch.deviations \cup raised
  BY <1>1, OpenDeviationType DEF DeviationsOK, TypeOK
<1>3. RaiseDeviations(batch, ProcessObservation(stamp, reading), codes) =
        IF batch.status = "recovering" THEN [x \in DOMAIN all |-> ResetRecovery(all[x])] ELSE all
  BY DEF RaiseDeviations, ProcessObservation
<1> HIDE DEF all
<1>4. DeviationsOK([x \in DOMAIN all |-> ResetRecovery(all[x])])
  BY <1>2, ResetRecoveryFacts DEF DeviationsOK
<1> QED
  BY <1>2, <1>3, <1>4

LEMMA CorrectOneType ==
  ASSUME NEW e \in Deviation, NEW owner \in Owners \cup {Nil}, NEW d,
         d = [e EXCEPT !.status = "corrected", !.owner = owner]
  PROVE  d \in Deviation /\ d.status = "corrected"
<1>1. e = [status |-> e.status, owner |-> e.owner, qualified |-> e.qualified]
  BY DEF Deviation
<1>2. d = [status |-> "corrected", owner |-> owner, qualified |-> e.qualified]
  BY <1>1
<1> QED
  BY <1>2 DEF Deviation

LEMMA CorrectedType ==
  ASSUME TypeOK, NEW x \in DOMAIN batch.deviations, NEW owner \in Owners
  PROVE  /\ DeviationsOK(Corrected(batch.deviations, x, owner))
         /\ DOMAIN Corrected(batch.deviations, x, owner) = DOMAIN batch.deviations
         /\ Corrected(batch.deviations, x, owner)[x].status = "corrected"
         /\ \A y \in DOMAIN batch.deviations :
              y # x => Corrected(batch.deviations, x, owner)[y] = batch.deviations[y]
<1> DEFINE d == [batch.deviations[x] EXCEPT !.status = "corrected", !.owner = TrimSpace[owner]]
<1>1. batch.deviations[x] \in Deviation
  BY DEF TypeOK
<1>2. TrimSpace[owner] \in Owners \cup {Nil}
  BY NamesAssumption
<1>3. d \in Deviation /\ d.status = "corrected"
  BY <1>1, <1>2, CorrectOneType
<1>4. Corrected(batch.deviations, x, owner) = [batch.deviations EXCEPT ![x] = d]
  BY DEF Corrected
<1> HIDE DEF d
<1>5. Corrected(batch.deviations, x, owner) =
        [y \in DOMAIN batch.deviations |-> IF y = x THEN d ELSE batch.deviations[y]]
  BY <1>4 DEF TypeOK
<1> QED
  BY <1>3, <1>5 DEF DeviationsOK, TypeOK
LEMMA InitType == Init => TypeOK
<1> SUFFICES ASSUME NEW actor \in Actors, batch = NewTreatmentBatch(actor),
                    audit = {<<"BATCH_CREATED", actor>>}
             PROVE  TypeOK
  BY DEF Init
<1>1. /\ batch.status = "draft" /\ batch.revision = 1 /\ batch.createdBy = actor
      /\ batch.protocol = Nil /\ batch.observations = <<>> /\ batch.deviations = <<>>
      /\ batch.review = Nil /\ batch.baseline = {} /\ batch.observers = {}
      /\ batch.correctors = {}
  BY DEF NewTreatmentBatch
<1>2. DeviationsOK(<<>>)
  BY DEF DeviationsOK
<1>3. audit \subseteq EventTypes \X Actors
  BY DEF EventTypes
<1>4. batch = [status |-> batch.status, revision |-> batch.revision,
              createdBy |-> batch.createdBy, protocol |-> batch.protocol,
              observations |-> batch.observations, deviations |-> batch.deviations,
              review |-> batch.review, baseline |-> batch.baseline,
              observers |-> batch.observers, correctors |-> batch.correctors]
  BY DEF NewTreatmentBatch
<1>5. <<>> \in Seq(Observation) /\ "draft" \in Statuses
  BY DEF Statuses
<1> QED
  BY <1>1, <1>2, <1>3, <1>4, <1>5 DEF TypeOK, DeviationsOK

LEMMA TypeStep == TypeOK /\ [Next]_vars => TypeOK'
<1> SUFFICES ASSUME TypeOK, [Next]_vars PROVE TypeOK'
  OBVIOUS
<1> USE KeptType
<1>1. ASSUME NEW actor \in Actors, NEW p \in Protocols, Freeze(actor, p) PROVE TypeOK'
  <2>1. audit' \subseteq EventTypes \X Actors
    <3>1. audit' = audit \cup {<<"BASELINE_FROZEN", actor>>}
      BY <1>1 DEF Freeze
    <3> QED
      BY <3>1, AuditType DEF EventTypes
  <2>2. batch.baseline \cup {actor} \in SUBSET Actors /\ "monitoring" \in Statuses
    BY ParticipantsType DEF Statuses
  <2>3. p \in Protocols \cup {Nil}
    OBVIOUS
  <2>4. Fields(batch', "monitoring", p, batch.observations, batch.deviations, batch.review,
               batch.baseline \cup {actor}, batch.observers, batch.correctors)
    BY <1>1, FreezeFields
  <2> QED
    BY <2>1, <2>2, <2>3, <2>4, KeptType, FieldsType
<1>2. ASSUME NEW actor \in Actors, NEW stamp \in Stamps, NEW reading \in Readings,
             SubmitObservation(actor, stamp, reading)
      PROVE  TypeOK'
  <2> DEFINE o     == ProcessObservation(stamp, reading)
             codes == Codes(stamp, reading)
  <2>1. audit' \subseteq EventTypes \X Actors
    <3>1. audit' = audit \cup {<<"OBSERVATION_RECORDED", actor>>}
      BY <1>2 DEF SubmitObservation
    <3> QED
      BY <3>1, AuditType DEF EventTypes
  <2>2. DeviationsOK(Counted(stamp)) /\ DeviationsOK(RaiseDeviations(batch, o, codes))
    BY CountedType, RaisedType, CodesType
  <2>3. /\ Longer(stamp, reading) \in Seq(Observation)
        /\ batch.observers \cup {actor} \in SUBSET Actors
    BY LongerType, ParticipantsType
  <2>4. {"paused", "pending_review", "recovering"} \subseteq Statuses
    BY DEF Statuses
  <2>5. CASE codes # {}
    BY <1>2, <2>1, <2>2, <2>3, <2>4, <2>5, AbnormalFields, FieldsType
  <2>6. CASE codes = {} /\ batch.status # "recovering"
    <3>1. Fields(batch', batch.status, batch.protocol, Longer(stamp, reading),
                 batch.deviations, batch.review, batch.baseline,
                 batch.observers \cup {actor}, batch.correctors)
      BY <1>2, <2>6, QualifiedFields
    <3> QED
      BY <2>1, <2>3, <3>1, KeptType, FieldsType
  <2>7. CASE codes = {} /\ batch.status = "recovering"
    <3> DEFINE status == IF \A x \in DOMAIN Counted(stamp) :
                                 Counted(stamp)[x].status = "closed"
                         THEN "pending_review" ELSE "recovering"
    <3>1. status \in Statuses
      BY <2>4
    <3>2. Fields(batch', status, batch.protocol, Longer(stamp, reading), Counted(stamp),
                 batch.review, batch.baseline, batch.observers \cup {actor},
                 batch.correctors)
      BY <1>2, <2>7, CountedFields
    <3> HIDE DEF status
    <3> QED
      BY <2>1, <2>2, <2>3, <3>1, <3>2, FieldsType
  <2> QED
    BY <2>5, <2>6, <2>7
<1>3. ASSUME NEW actor \in Actors, NEW x \in DOMAIN batch.deviations, NEW owner \in Owners,
             CorrectDeviation(actor, x, owner)
      PROVE  TypeOK'
  <2>1. audit' \subseteq EventTypes \X Actors
    <3>1. audit' = audit \cup {<<"DEVIATION_CORRECTED", actor>>}
      BY <1>3 DEF CorrectDeviation
    <3> QED
      BY <3>1, AuditType DEF EventTypes
  <2>2. DeviationsOK(Corrected(batch.deviations, x, owner))
    BY CorrectedType
  <2>3. batch.correctors \cup {owner} \in SUBSET Owners
    OBVIOUS
  <2> QED
    BY <1>3, <2>1, <2>2, <2>3, CorrectFields, FieldsType
<1>4. ASSUME NEW actor \in Actors, Recover(actor) PROVE TypeOK'
  <2>1. audit' \subseteq EventTypes \X Actors
    <3>1. audit' = audit \cup {<<"RECOVERY_APPROVED", actor>>}
      BY <1>4 DEF Recover
    <3> QED
      BY <3>1, AuditType DEF EventTypes
  <2>2. DeviationsOK([x \in DOMAIN batch.deviations |-> StartRecovery(batch.deviations[x])])
    BY StartRecoveryFacts DEF DeviationsOK
  <2>3. batch.correctors \cup {actor} \in SUBSET Owners /\ "recovering" \in Statuses
    BY ParticipantsType DEF Statuses
  <2> QED
    BY <1>4, <2>1, <2>2, <2>3, RecoverFields, FieldsType
<1>5. ASSUME NEW actor \in Actors, NEW decision \in {"approve", "reject"},
             NEW passed \in BOOLEAN, Review(actor, decision, passed)
      PROVE  TypeOK'
  <2> DEFINE review == [reviewer |-> actor, decision |-> decision, checksPassed |-> passed]
             status == IF decision = "approve" THEN "approved_sealed" ELSE "rejected_sealed"
  <2>1. audit' \subseteq EventTypes \X Actors
    <3>1. audit' = audit \cup {<<"REVIEW_DECIDED", actor>>}
      BY <1>5 DEF Review
    <3> QED
      BY <3>1, AuditType DEF EventTypes
  <2>2. review \in Reviews \cup {Nil} /\ status \in Statuses
    BY DEF Reviews, Statuses
  <2>3. Fields(batch', status, batch.protocol, batch.observations, batch.deviations, review,
               batch.baseline, batch.observers, batch.correctors)
    BY <1>5, ReviewFields
  <2> HIDE DEF review, status
  <2> QED
    BY <2>1, <2>2, <2>3, FieldsType
<1>6. CASE UNCHANGED vars
  BY <1>6 DEF vars, TypeOK
<1> QED
  BY <1>1, <1>2, <1>3, <1>4, <1>5, <1>6 DEF Next

\* Every reachable state has the declared shape.
THEOREM TypeCorrectness == Spec => []TypeOK
BY InitType, TypeStep, PTL DEF Spec
-----------------------------------------------------------------------------
(* Recovery and review                                                       *)

\* A baseline is frozen exactly outside draft, and its window is positive.
ProtocolFrozen ==
  /\ batch.status = "draft" <=> batch.protocol = Nil
  /\ batch.protocol # Nil => batch.protocol.window \in Nat \ {0}

\* A paused batch ends in the abnormal observation that paused it.
PausedByAbnormal == batch.status = "paused" => SinceAbnormal(batch.observations, <<>>)

\* The invariants of recovery, made inductive.
LifecycleInv ==
  /\ ProtocolFrozen
  /\ PausedByAbnormal
  /\ RecoveryIsAllOrNothing
  /\ ReviewFollowsRecovery

LEMMA FreshForRun ==
  ASSUME NEW obs \in Seq(Observation), NEW p \in Seq(ObservationIds), SinceAbnormal(obs, p),
         NEW id, \A i \in DOMAIN obs : obs[i].id # id
  PROVE  \A i \in DOMAIN p : p[i] # id
<1> SUFFICES ASSUME NEW i \in DOMAIN p PROVE p[i] # id
  OBVIOUS
<1>1. Len(obs) \in Nat /\ Len(p) \in Nat /\ i \in 1 .. Len(p)
  OBVIOUS
<1>2. Len(p) < Len(obs) /\ obs[Len(obs) - Len(p) + i].id = p[i]
  BY <1>1 DEF SinceAbnormal
<1> DEFINE j == Len(obs) - Len(p) + i
<1>3. j \in DOMAIN obs
  BY <1>1, <1>2
<1> HIDE DEF j
<1>4. obs[j].id # id
  BY <1>3
<1> QED
  BY <1>2, <1>4 DEF j

LEMMA LifecycleInit == Init => LifecycleInv
<1> SUFFICES ASSUME NEW actor \in Actors, batch = NewTreatmentBatch(actor)
             PROVE  LifecycleInv
  BY DEF Init
<1>1. batch.status = "draft" /\ batch.protocol = Nil /\ batch.deviations = <<>>
  BY DEF NewTreatmentBatch
<1> QED
  BY <1>1 DEF LifecycleInv, ProtocolFrozen, PausedByAbnormal, RecoveryIsAllOrNothing,
              ReviewFollowsRecovery, Decided

LEMMA LifecycleFreeze ==
  ASSUME TypeOK, LifecycleInv, NEW actor \in Actors, NEW p \in Protocols, Freeze(actor, p)
  PROVE  LifecycleInv'
<1>1. /\ batch'.status = "monitoring" /\ batch'.protocol = p
      /\ batch'.observations = batch.observations /\ batch'.deviations = batch.deviations
  BY FreezeFields DEF Fields
<1>2. batch.status = "draft" /\ p.window \in Nat \ {0}
  BY InputsAssumption DEF Freeze, CanFreezeProtocol, ValidProtocol
<1>3. p # Nil
  BY InputsAssumption
<1> QED
  BY <1>1, <1>2, <1>3 DEF LifecycleInv, ProtocolFrozen, PausedByAbnormal,
    RecoveryIsAllOrNothing, ReviewFollowsRecovery, Decided

LEMMA LifecycleAbnormal ==
  ASSUME TypeOK, LifecycleInv, NEW actor \in Actors, NEW stamp \in Stamps,
         NEW reading \in Readings, SubmitObservation(actor, stamp, reading),
         Codes(stamp, reading) # {}
  PROVE  LifecycleInv'
<1> DEFINE o      == ProcessObservation(stamp, reading)
           codes  == Codes(stamp, reading)
           raised == {stamp.id} \X codes
           all    == [x \in DOMAIN batch.deviations \cup raised |->
                        IF x \in raised THEN OpenDeviation ELSE batch.deviations[x]]
<1>1. /\ batch'.status = "paused" /\ batch'.protocol = batch.protocol
      /\ batch'.observations = Longer(stamp, reading)
      /\ batch'.deviations = RaiseDeviations(batch, o, codes)
  BY AbnormalFields DEF Fields
<1>2. batch.status \in {"monitoring", "recovering"} /\ batch.protocol # Nil
  BY DEF SubmitObservation, CanAddObservation
<1>3. SinceAbnormal(Longer(stamp, reading), <<>>)
  <2>1. ~Recorded(o, codes).qualified
    BY DEF Recorded
  <2> QED
    BY <2>1, LongerType, SinceAbnormalStarts DEF Longer, TypeOK
<1>4. DOMAIN batch'.deviations # {}
  <2>1. codes \in SUBSET RuleCodes
    BY CodesType
  <2> HIDE DEF codes
  <2>2. DOMAIN RaiseDeviations(batch, o, codes) =
          DOMAIN batch.deviations \cup ({stamp.id} \X codes)
    BY <2>1, RaisedType
  <2>3. PICK c : c \in codes
    BY DEF codes
  <2>4. <<stamp.id, c>> \in DOMAIN batch'.deviations
    BY <1>1, <2>2, <2>3
  <2> QED
    BY <2>4
<1>5. \A x \in DOMAIN batch'.deviations : batch'.deviations[x].status # "closed"
  <2>1. \A x \in DOMAIN all : all[x] \in Deviation /\ all[x].status # "closed"
    BY <1>2, OpenDeviationType
    DEF LifecycleInv, RecoveryIsAllOrNothing, TypeOK, OpenDeviation
  <2>2. batch'.deviations =
          IF batch.status = "recovering" THEN [x \in DOMAIN all |-> ResetRecovery(all[x])]
          ELSE all
    BY <1>1 DEF RaiseDeviations, ProcessObservation
  <2> HIDE DEF all
  <2> QED
    BY <2>1, <2>2, ResetRecoveryFacts
<1> QED
  BY <1>1, <1>2, <1>3, <1>4, <1>5 DEF LifecycleInv, ProtocolFrozen, PausedByAbnormal,
    RecoveryIsAllOrNothing, ReviewFollowsRecovery, Decided

LEMMA LifecycleQualified ==
  ASSUME TypeOK, LifecycleInv, NEW actor \in Actors, NEW stamp \in Stamps,
         NEW reading \in Readings, SubmitObservation(actor, stamp, reading),
         Codes(stamp, reading) = {}, batch.status # "recovering"
  PROVE  LifecycleInv'
<1>1. /\ batch'.status = batch.status /\ batch'.protocol = batch.protocol
      /\ batch'.observations = Longer(stamp, reading) /\ batch'.deviations = batch.deviations
  BY QualifiedFields DEF Fields
<1>2. batch.status = "monitoring"
  BY DEF SubmitObservation, CanAddObservation
<1> QED
  BY <1>1, <1>2 DEF LifecycleInv, ProtocolFrozen, PausedByAbnormal, RecoveryIsAllOrNothing,
    ReviewFollowsRecovery, Decided

LEMMA LifecycleCounted ==
  ASSUME TypeOK, LifecycleInv, NEW actor \in Actors, NEW stamp \in Stamps,
         NEW reading \in Readings, SubmitObservation(actor, stamp, reading),
         Codes(stamp, reading) = {}, batch.status = "recovering"
  PROVE  LifecycleInv'
<1> DEFINE o      == ProcessObservation(stamp, reading)
           window == batch.protocol.window
           run(x) == batch.deviations[x].qualified
           D      == DOMAIN batch.deviations
<1>1. /\ batch'.status = IF \A x \in DOMAIN Counted(stamp) : Counted(stamp)[x].status = "closed"
                         THEN "pending_review" ELSE "recovering"
      /\ batch'.protocol = batch.protocol
      /\ batch'.observations = Longer(stamp, reading) /\ batch'.deviations = Counted(stamp)
  BY CountedFields DEF Fields
<1>2. /\ window \in Nat \ {0} /\ batch.protocol # Nil /\ D # {}
      /\ \A x \in D : /\ batch.deviations[x] \in Deviation
                      /\ batch.deviations[x].status = "corrected"
                      /\ Len(run(x)) < window /\ SinceAbnormal(batch.observations, run(x))
  BY DEF SubmitObservation, CanAddObservation, LifecycleInv, ProtocolFrozen,
         RecoveryIsAllOrNothing, TypeOK
<1>3. DOMAIN Counted(stamp) = D
  BY DEF Counted
<1>4. \A x \in D : /\ Counted(stamp)[x].qualified = Append(run(x), stamp.id)
                   /\ Counted(stamp)[x].status =
                        IF Len(run(x)) + 1 >= window THEN "closed" ELSE "corrected"
  <2> SUFFICES ASSUME NEW x \in D
               PROVE  /\ Counted(stamp)[x].qualified = Append(run(x), stamp.id)
                      /\ Counted(stamp)[x].status =
                           IF Len(run(x)) + 1 >= window THEN "closed" ELSE "corrected"
    OBVIOUS
  <2>1. \A i \in DOMAIN batch.observations : batch.observations[i].id # stamp.id
    BY DEF SubmitObservation, UsedIds, ProcessObservation
  <2>2. run(x) \in Seq(ObservationIds) /\ stamp.id \in ObservationIds
    BY <1>2, InputsAssumption DEF Deviation
  <2>3. SinceAbnormal(batch.observations, run(x)) /\ batch.observations \in Seq(Observation)
    BY <1>2 DEF TypeOK
  <2>4. Counted(stamp)[x] = CountQualified(batch.deviations[x], stamp.id, window)
    BY DEF Counted
  <2>5. batch.deviations[x] \in Deviation /\ batch.deviations[x].status = "corrected"
    BY <1>2
  <2>6. window \in Nat
    BY <1>2
  <2>7. run(x) = batch.deviations[x].qualified
    OBVIOUS
  <2> HIDE DEF run, window, D
  <2>8. \A i \in DOMAIN run(x) : run(x)[i] # stamp.id
    BY <2>1, <2>2, <2>3, FreshForRun
  <2> QED
    BY <2>2, <2>4, <2>5, <2>6, <2>7, <2>8, CountQualifiedFresh
<1>5. \A x \in D : SinceAbnormal(Longer(stamp, reading), Append(run(x), stamp.id))
  <2>1. Recorded(o, Codes(stamp, reading)) \in Observation
    BY LongerType
  <2>2. Recorded(o, Codes(stamp, reading)).qualified /\
        Recorded(o, Codes(stamp, reading)).id = stamp.id
    BY DEF Recorded, ProcessObservation
  <2>3. \A x \in D : run(x) \in Seq(ObservationIds)
    BY <1>2 DEF Deviation
  <2> QED
    BY <1>2, <2>1, <2>2, <2>3, SinceAbnormalGrows DEF Longer, TypeOK
<1>6. \A x, y \in D : Len(run(x)) = Len(run(y))
  BY <1>2, SinceAbnormalUnique DEF Deviation, TypeOK
<1>7. \A x \in D : Len(Append(run(x), stamp.id)) = Len(run(x)) + 1 /\ Len(run(x)) \in Nat
  BY <1>2 DEF Deviation
<1> HIDE DEF run, window, D
<1>8. DOMAIN batch'.deviations = D /\ batch'.protocol.window = window /\ batch'.protocol # Nil
  BY <1>1, <1>2, <1>3 DEF window
<1>9. \A x \in D : SinceAbnormal(batch'.observations, batch'.deviations[x].qualified)
  BY <1>1, <1>4, <1>5
<1>10. CASE \A x \in D : Counted(stamp)[x].status = "closed"
  <2>1. \A x \in D : Len(run(x)) + 1 = window
    BY <1>2, <1>4, <1>7, <1>10
  <2>2. batch'.status = "pending_review"
    BY <1>1, <1>3, <1>10
  <2>3. \A x \in D : /\ batch'.deviations[x].status = "closed"
                     /\ Len(batch'.deviations[x].qualified) = batch'.protocol.window
    BY <1>1, <1>4, <1>7, <1>8, <1>10, <2>1
  <2> QED
    BY <1>2, <1>8, <1>9, <2>2, <2>3
    DEF LifecycleInv, ProtocolFrozen, PausedByAbnormal, RecoveryIsAllOrNothing,
        ReviewFollowsRecovery, Decided
<1>11. CASE \E x \in D : Counted(stamp)[x].status # "closed"
  <2>1. \A x \in D : Len(run(x)) + 1 < window
    BY <1>2, <1>4, <1>6, <1>7, <1>11
  <2>2. batch'.status = "recovering"
    BY <1>1, <1>3, <1>11
  <2>3. \A x \in D : /\ batch'.deviations[x].status = "corrected"
                     /\ Len(batch'.deviations[x].qualified) < batch'.protocol.window
    BY <1>1, <1>2, <1>4, <1>7, <1>8, <2>1
  <2> QED
    BY <1>2, <1>8, <1>9, <2>2, <2>3
    DEF LifecycleInv, ProtocolFrozen, PausedByAbnormal, RecoveryIsAllOrNothing,
        ReviewFollowsRecovery, Decided
<1> QED
  BY <1>10, <1>11

LEMMA LifecycleCorrect ==
  ASSUME TypeOK, LifecycleInv, NEW actor \in Actors, NEW x \in DOMAIN batch.deviations,
         NEW owner \in Owners, CorrectDeviation(actor, x, owner)
  PROVE  LifecycleInv'
<1>1. /\ batch'.status = batch.status /\ batch'.protocol = batch.protocol
      /\ batch'.observations = batch.observations
      /\ batch'.deviations = Corrected(batch.deviations, x, owner)
  BY CorrectFields DEF Fields
<1>2. batch.status = "paused"
  BY DEF CorrectDeviation, CanRegisterCorrection
<1>3. /\ DOMAIN batch'.deviations = DOMAIN batch.deviations
      /\ \A y \in DOMAIN batch'.deviations : batch'.deviations[y].status # "closed"
  BY <1>1, <1>2, CorrectedType DEF LifecycleInv, RecoveryIsAllOrNothing
<1> QED
  BY <1>1, <1>2, <1>3 DEF LifecycleInv, ProtocolFrozen, PausedByAbnormal,
    RecoveryIsAllOrNothing, ReviewFollowsRecovery, Decided

LEMMA LifecycleRecover ==
  ASSUME TypeOK, LifecycleInv, NEW actor \in Actors, Recover(actor)
  PROVE  LifecycleInv'
<1>1. /\ batch'.status = "recovering" /\ batch'.protocol = batch.protocol
      /\ batch'.observations = batch.observations
      /\ batch'.deviations =
           [x \in DOMAIN batch.deviations |-> StartRecovery(batch.deviations[x])]
  BY RecoverFields DEF Fields
<1>2. /\ batch.status = "paused"
      /\ \A x \in DOMAIN batch.deviations : batch.deviations[x].status # "open"
  BY DEF Recover, CanApproveRecovery
<1>3. \A x \in DOMAIN batch.deviations :
        batch.deviations[x] \in Deviation /\ batch.deviations[x].status = "corrected"
  BY <1>2 DEF LifecycleInv, RecoveryIsAllOrNothing, TypeOK, Deviation
<1>4. /\ DOMAIN batch'.deviations = DOMAIN batch.deviations
      /\ \A x \in DOMAIN batch'.deviations : /\ batch'.deviations[x].status = "corrected"
                                             /\ batch'.deviations[x].qualified = <<>>
  BY <1>1, <1>3, StartRecoveryFacts
<1>5. /\ batch'.protocol # Nil /\ batch'.protocol.window \in Nat \ {0}
      /\ SinceAbnormal(batch'.observations, <<>>) /\ DOMAIN batch.deviations # {}
  BY <1>1, <1>2 DEF LifecycleInv, ProtocolFrozen, PausedByAbnormal, RecoveryIsAllOrNothing
<1>6. \A x \in DOMAIN batch'.deviations :
        /\ Len(batch'.deviations[x].qualified) < batch'.protocol.window
        /\ SinceAbnormal(batch'.observations, batch'.deviations[x].qualified)
  <2>1. Len(<<>>) = 0
    OBVIOUS
  <2> QED
    BY <1>4, <1>5, <2>1
<1> QED
  BY <1>1, <1>4, <1>5, <1>6 DEF LifecycleInv, ProtocolFrozen, PausedByAbnormal,
    RecoveryIsAllOrNothing, ReviewFollowsRecovery, Decided

LEMMA LifecycleReview ==
  ASSUME TypeOK, LifecycleInv, NEW actor \in Actors, NEW decision \in {"approve", "reject"},
         NEW passed \in BOOLEAN, Review(actor, decision, passed)
  PROVE  LifecycleInv'
<1>1. /\ batch'.status = IF decision = "approve" THEN "approved_sealed" ELSE "rejected_sealed"
      /\ batch'.protocol = batch.protocol
      /\ batch'.observations = batch.observations /\ batch'.deviations = batch.deviations
  BY ReviewFields DEF Fields
<1>2. batch.status = "pending_review"
  BY DEF Review, CanDecideReview
<1>3. batch'.status \in Decided \ {"pending_review"}
  BY <1>1 DEF Decided
<1> QED
  BY <1>1, <1>2, <1>3 DEF LifecycleInv, ProtocolFrozen, PausedByAbnormal,
    RecoveryIsAllOrNothing, ReviewFollowsRecovery, Decided

LEMMA LifecycleStep == TypeOK /\ LifecycleInv /\ [Next]_vars => LifecycleInv'
<1> SUFFICES ASSUME TypeOK, LifecycleInv, [Next]_vars PROVE LifecycleInv'
  OBVIOUS
<1>1. ASSUME NEW actor \in Actors, NEW stamp \in Stamps, NEW reading \in Readings,
             SubmitObservation(actor, stamp, reading)
      PROVE  LifecycleInv'
  BY <1>1, LifecycleAbnormal, LifecycleQualified, LifecycleCounted
<1>2. CASE UNCHANGED vars
  BY <1>2 DEF vars, LifecycleInv, ProtocolFrozen, PausedByAbnormal, RecoveryIsAllOrNothing,
              ReviewFollowsRecovery
<1> QED
  BY <1>1, <1>2, LifecycleFreeze, LifecycleCorrect, LifecycleRecover, LifecycleReview DEF Next

LEMMA LifecycleInductive == Spec => [](TypeOK /\ LifecycleInv)
BY LifecycleStep, LifecycleInit, TypeCorrectness, PTL DEF Spec

\* The deviations of a batch recover together or not at all.
THEOREM RecoverTogether == Spec => []RecoveryIsAllOrNothing
  BY LifecycleInductive, PTL DEF LifecycleInv

\* A batch under review, approved or rejected has just recovered.
THEOREM ReviewAfterRecovery == Spec => []ReviewFollowsRecovery
  BY LifecycleInductive, PTL DEF LifecycleInv
-----------------------------------------------------------------------------
(* Duty separation                                                           *)

\* Whoever an audit event names, other than for a correction or the review, is a
\* participant of the batch.
AuditNamesParticipants ==
  \A a \in Actors :
    /\ <<"BATCH_CREATED", a>> \in audit => a = batch.createdBy
    /\ <<"BASELINE_FROZEN", a>> \in audit => a \in batch.baseline
    /\ <<"OBSERVATION_RECORDED", a>> \in audit => a \in batch.observers
    /\ <<"RECOVERY_APPROVED", a>> \in audit => a \in batch.correctors

\* A review comes last, and from outside.
ReviewSeals ==
  batch.review # Nil =>
    Terminal(batch.status) /\ batch.review.reviewer \notin Participants(batch)

IndependenceInv == AuditNamesParticipants /\ ReviewSeals

\* An operation on a batch that has no review yet adds its actor to the
\* participants that its event stands for, and takes nobody away.
LEMMA ParticipantsGrow ==
  ASSUME TypeOK, IndependenceInv, NEW actor \in Actors, NEW type \in EventTypes,
         audit' = audit \cup {<<type, actor>>}, type # "BATCH_CREATED",
         batch'.createdBy = batch.createdBy, batch.baseline \subseteq batch'.baseline,
         batch.observers \subseteq batch'.observers,
         batch.correctors \subseteq batch'.correctors,
         type = "BASELINE_FROZEN" => actor \in batch'.baseline,
         type = "OBSERVATION_RECORDED" => actor \in batch'.observers,
         type = "RECOVERY_APPROVED" => actor \in batch'.correctors
  PROVE  AuditNamesParticipants'
<1> SUFFICES ASSUME NEW a \in Actors
             PROVE  /\ <<"BATCH_CREATED", a>> \in audit' => a = batch'.createdBy
                    /\ <<"BASELINE_FROZEN", a>> \in audit' => a \in batch'.baseline
                    /\ <<"OBSERVATION_RECORDED", a>> \in audit' => a \in batch'.observers
                    /\ <<"RECOVERY_APPROVED", a>> \in audit' => a \in batch'.correctors
  BY DEF AuditNamesParticipants
<1>1. \A t : <<t, a>> \in audit' => <<t, a>> \in audit \/ (t = type /\ a = actor)
  OBVIOUS
<1>2. /\ <<"BATCH_CREATED", a>> \in audit => a = batch.createdBy
      /\ <<"BASELINE_FROZEN", a>> \in audit => a \in batch.baseline
      /\ <<"OBSERVATION_RECORDED", a>> \in audit => a \in batch.observers
      /\ <<"RECOVERY_APPROVED", a>> \in audit => a \in batch.correctors
  BY DEF IndependenceInv, AuditNamesParticipants
<1> QED
  BY <1>1, <1>2

\* A batch that still accepts commands has no review.
LEMMA NoReviewYet ==
  ASSUME IndependenceInv, ~Terminal(batch.status)
  PROVE  batch.review = Nil
  BY DEF IndependenceInv, ReviewSeals

LEMMA IndependenceInit == Init => IndependenceInv
<1> SUFFICES ASSUME NEW actor \in Actors, batch = NewTreatmentBatch(actor),
                    audit = {<<"BATCH_CREATED", actor>>}
             PROVE  IndependenceInv
  BY DEF Init
<1>1. batch.createdBy = actor /\ batch.review = Nil
  BY DEF NewTreatmentBatch
<1> QED
  BY <1>1 DEF IndependenceInv, AuditNamesParticipants, ReviewSeals

LEMMA IndependenceStep == TypeOK /\ IndependenceInv /\ [Next]_vars => IndependenceInv'
<1> SUFFICES ASSUME TypeOK, IndependenceInv, [Next]_vars PROVE IndependenceInv'
  OBVIOUS
<1>1. ASSUME NEW actor \in Actors, NEW p \in Protocols, Freeze(actor, p) PROVE IndependenceInv'
  <2>1. batch.review = Nil
    BY <1>1, NoReviewYet DEF Freeze, CanFreezeProtocol
  <2>2. /\ batch'.review = batch.review /\ batch'.createdBy = batch.createdBy
        /\ batch'.baseline = batch.baseline \cup {actor}
        /\ batch'.observers = batch.observers /\ batch'.correctors = batch.correctors
    BY <1>1, FreezeFields DEF Fields
  <2>3. audit' = audit \cup {<<"BASELINE_FROZEN", actor>>}
    BY <1>1 DEF Freeze
  <2>4. AuditNamesParticipants'
    BY <2>2, <2>3, ParticipantsGrow DEF EventTypes
  <2> QED
    BY <2>1, <2>2, <2>4 DEF IndependenceInv, ReviewSeals
<1>2. ASSUME NEW actor \in Actors, NEW stamp \in Stamps, NEW reading \in Readings,
             SubmitObservation(actor, stamp, reading)
      PROVE  IndependenceInv'
  <2>1. batch.review = Nil
    BY <1>2, NoReviewYet DEF SubmitObservation, CanAddObservation
  <2>2. /\ batch'.review = batch.review /\ batch'.createdBy = batch.createdBy
        /\ batch'.baseline = batch.baseline
        /\ batch'.observers = batch.observers \cup {actor}
        /\ batch'.correctors = batch.correctors
    <3>1. CASE Codes(stamp, reading) # {}
      BY <1>2, <3>1, AbnormalFields DEF Fields
    <3>2. CASE Codes(stamp, reading) = {} /\ batch.status # "recovering"
      BY <1>2, <3>2, QualifiedFields DEF Fields
    <3>3. CASE Codes(stamp, reading) = {} /\ batch.status = "recovering"
      BY <1>2, <3>3, CountedFields DEF Fields
    <3> QED
      BY <3>1, <3>2, <3>3
  <2>3. audit' = audit \cup {<<"OBSERVATION_RECORDED", actor>>}
    BY <1>2 DEF SubmitObservation
  <2>4. AuditNamesParticipants'
    BY <2>2, <2>3, ParticipantsGrow DEF EventTypes
  <2> QED
    BY <2>1, <2>2, <2>4 DEF IndependenceInv, ReviewSeals
<1>3. ASSUME NEW actor \in Actors, NEW x \in DOMAIN batch.deviations, NEW owner \in Owners,
             CorrectDeviation(actor, x, owner)
      PROVE  IndependenceInv'
  <2>1. batch.review = Nil
    BY <1>3, NoReviewYet DEF CorrectDeviation, CanRegisterCorrection
  <2>2. /\ batch'.review = batch.review /\ batch'.createdBy = batch.createdBy
        /\ batch'.baseline = batch.baseline /\ batch'.observers = batch.observers
        /\ batch'.correctors = batch.correctors \cup {owner}
    BY <1>3, CorrectFields DEF Fields
  <2>3. audit' = audit \cup {<<"DEVIATION_CORRECTED", actor>>}
    BY <1>3 DEF CorrectDeviation
  <2>4. AuditNamesParticipants'
    BY <2>2, <2>3, ParticipantsGrow DEF EventTypes
  <2> QED
    BY <2>1, <2>2, <2>4 DEF IndependenceInv, ReviewSeals
<1>4. ASSUME NEW actor \in Actors, Recover(actor) PROVE IndependenceInv'
  <2>1. batch.review = Nil
    BY <1>4, NoReviewYet DEF Recover, CanApproveRecovery
  <2>2. /\ batch'.review = batch.review /\ batch'.createdBy = batch.createdBy
        /\ batch'.baseline = batch.baseline /\ batch'.observers = batch.observers
        /\ batch'.correctors = batch.correctors \cup {actor}
    BY <1>4, RecoverFields DEF Fields
  <2>3. audit' = audit \cup {<<"RECOVERY_APPROVED", actor>>}
    BY <1>4 DEF Recover
  <2>4. AuditNamesParticipants'
    BY <2>2, <2>3, ParticipantsGrow DEF EventTypes
  <2> QED
    BY <2>1, <2>2, <2>4 DEF IndependenceInv, ReviewSeals
<1>5. ASSUME NEW actor \in Actors, NEW decision \in {"approve", "reject"},
             NEW passed \in BOOLEAN, Review(actor, decision, passed)
      PROVE  IndependenceInv'
  <2>1. /\ batch'.review = [reviewer |-> actor, decision |-> decision, checksPassed |-> passed]
        /\ batch'.status = IF decision = "approve" THEN "approved_sealed" ELSE "rejected_sealed"
        /\ batch'.createdBy = batch.createdBy /\ batch'.baseline = batch.baseline
        /\ batch'.observers = batch.observers /\ batch'.correctors = batch.correctors
    BY <1>5, ReviewFields DEF Fields
  <2>2. audit' = audit \cup {<<"REVIEW_DECIDED", actor>>}
    BY <1>5 DEF Review
  <2>3. AuditNamesParticipants'
    BY <2>1, <2>2, ParticipantsGrow DEF EventTypes
  <2>4. actor \notin Participants(batch)
    BY <1>5 DEF Review, CanDecideReview
  <2>5. batch'.review.reviewer = actor /\ Terminal(batch'.status)
    BY <2>1 DEF Terminal
  <2>6. Participants(batch') = Participants(batch)
    BY <2>1 DEF Participants
  <2> QED
    BY <2>3, <2>4, <2>5, <2>6 DEF IndependenceInv, ReviewSeals
<1>6. CASE UNCHANGED vars
  BY <1>6 DEF vars, IndependenceInv, AuditNamesParticipants, ReviewSeals
<1> QED
  BY <1>1, <1>2, <1>3, <1>4, <1>5, <1>6 DEF Next

LEMMA ReviewersAreStrangers == TypeOK /\ IndependenceInv => ReviewerIndependence
<1> SUFFICES ASSUME TypeOK, IndependenceInv, batch.review # Nil
             PROVE  \A type \in {"BATCH_CREATED", "BASELINE_FROZEN", "OBSERVATION_RECORDED",
                                 "RECOVERY_APPROVED"} :
                      <<type, batch.review.reviewer>> \notin audit
  BY DEF ReviewerIndependence
<1>1. batch.review.reviewer \in Actors
  BY DEF TypeOK
<1>2. batch.review.reviewer \notin Participants(batch)
  BY DEF IndependenceInv, ReviewSeals
<1> QED
  BY <1>1, <1>2 DEF IndependenceInv, AuditNamesParticipants, Participants

\* No reviewer created the batch, froze its baseline, recorded an observation of
\* it or approved its recovery.
THEOREM IndependentReviewer == Spec => []ReviewerIndependence
BY ReviewersAreStrangers, IndependenceInit, IndependenceStep, TypeCorrectness, PTL DEF Spec
-----------------------------------------------------------------------------
(* The refinement of StageQualification                                      *)

\* A run that goes back to the last abnormal observation has the length of the
\* run that ends the record.
LEMMA RunLengthIs ==
  ASSUME NEW obs \in Seq(Observation), NEW p \in Seq(ObservationIds), SinceAbnormal(obs, p)
  PROVE  RunLength(obs) = Len(p) /\ Len(p) \in Nat
<1> DEFINE n == Len(obs)
           Ends(k) == /\ ~obs[n - k].qualified
                      /\ \A i \in 1 .. k : obs[n - k + i].qualified
<1>1. n \in Nat /\ Len(p) \in Nat /\ Len(p) < n /\ Ends(Len(p))
  BY DEF SinceAbnormal
<1>2. ASSUME NEW j \in 0 .. n - 1, NEW k \in 0 .. n - 1, Ends(j), Ends(k), j < k
      PROVE  FALSE
  <2> DEFINE i == k - j
  <2>1. i \in 1 .. k /\ n - k + i = n - j
    BY <1>1, <1>2
  <2> HIDE DEF i
  <2>2. obs[n - k + i].qualified
    BY <1>2, <2>1
  <2> QED
    BY <1>2, <2>1, <2>2
<1>3. Len(p) \in 0 .. n - 1
  BY <1>1
<1>4. RunLength(obs) = CHOOSE k \in 0 .. n - 1 : Ends(k)
  BY DEF RunLength
<1> HIDE DEF n, Ends
<1>5. \A k \in 0 .. n - 1 : Ends(k) => k = Len(p)
  BY <1>1, <1>2, <1>3
<1> QED
  BY <1>1, <1>3, <1>4, <1>5

LEMMA RefineFreeze ==
  ASSUME TypeOK, LifecycleInv, NEW actor \in Actors, NEW p \in Protocols, Freeze(actor, p)
  PROVE  Qualification!Next
<1>1. /\ batch'.status = "monitoring" /\ batch'.protocol = p
      /\ batch.status = "draft" /\ batch.protocol = Nil /\ ValidProtocol(p) /\ p # Nil
  BY FreezeFields, InputsAssumption DEF Fields, Freeze, CanFreezeProtocol
<1>2. Credit = 0 /\ Credit' = 0
  BY <1>1 DEF Credit, Decided
<1>3. Qualification!FreezeBaseline(p.window)
  BY <1>1, <1>2 DEF Qualification!FreezeBaseline
<1>4. p.window \in {r.window : r \in {q \in Protocols : ValidProtocol(q)}}
  BY <1>1
<1> QED
  BY <1>3, <1>4 DEF Qualification!Next

LEMMA RefineAbnormal ==
  ASSUME TypeOK, NEW actor \in Actors, NEW stamp \in Stamps, NEW reading \in Readings,
         SubmitObservation(actor, stamp, reading), Codes(stamp, reading) # {}
  PROVE  Qualification!Next
<1>1. batch'.status = "paused" /\ batch'.protocol = batch.protocol
  BY AbnormalFields DEF Fields
<1>2. batch.status \in {"monitoring", "recovering"}
  BY DEF SubmitObservation, CanAddObservation
<1>3. Credit' = 0
  BY <1>1 DEF Credit, Decided
<1> QED
  BY <1>1, <1>2, <1>3 DEF Qualification!Next, Qualification!Deviate

LEMMA RefineQualified ==
  ASSUME TypeOK, NEW actor \in Actors, NEW stamp \in Stamps, NEW reading \in Readings,
         SubmitObservation(actor, stamp, reading), Codes(stamp, reading) = {},
         batch.status # "recovering"
  PROVE  UNCHANGED Qualification!vars
<1>1. batch'.status = batch.status /\ batch'.protocol = batch.protocol
  BY QualifiedFields DEF Fields
<1>2. batch.status = "monitoring"
  BY DEF SubmitObservation, CanAddObservation
<1>3. Credit = 0 /\ Credit' = 0
  BY <1>1, <1>2 DEF Credit, Decided
<1> QED
  BY <1>1, <1>3 DEF Qualification!vars

LEMMA RefineCounted ==
  ASSUME TypeOK, LifecycleInv, TypeOK', LifecycleInv', NEW actor \in Actors,
         NEW stamp \in Stamps, NEW reading \in Readings,
         SubmitObservation(actor, stamp, reading), Codes(stamp, reading) = {},
         batch.status = "recovering"
  PROVE  Qualification!Next
<1> DEFINE o == Recorded(ProcessObservation(stamp, reading), Codes(stamp, reading))
<1>1. /\ batch'.status \in {"recovering", "pending_review"}
      /\ batch'.protocol = batch.protocol /\ batch.protocol # Nil
      /\ batch'.observations = Longer(stamp, reading) /\ batch'.deviations = Counted(stamp)
  BY CountedFields DEF Fields, SubmitObservation, CanAddObservation
<1>2. PICK x \in DOMAIN batch.deviations : x \in DOMAIN batch'.deviations
  BY <1>1 DEF LifecycleInv, RecoveryIsAllOrNothing, Counted
<1> DEFINE p == batch.deviations[x].qualified
           q == batch'.deviations[x].qualified
<1>3. p \in Seq(ObservationIds) /\ SinceAbnormal(batch.observations, p)
  BY DEF TypeOK, Deviation, LifecycleInv, RecoveryIsAllOrNothing
<1>4. q \in Seq(ObservationIds) /\ SinceAbnormal(batch'.observations, q)
  BY <1>1, <1>2
  DEF TypeOK, Deviation, LifecycleInv, RecoveryIsAllOrNothing, ReviewFollowsRecovery, Decided
<1>5. batch'.status = IF Len(q) = batch'.protocol.window THEN "pending_review" ELSE "recovering"
  <2>1. CASE batch'.status = "recovering"
    <3>1. Len(q) < batch'.protocol.window /\ Len(q) \in Nat /\ batch'.protocol.window \in Nat
      BY <1>1, <1>2, <1>4, <2>1 DEF LifecycleInv, RecoveryIsAllOrNothing, ProtocolFrozen
    <3> QED
      BY <2>1, <3>1
  <2>2. CASE batch'.status = "pending_review"
    BY <1>2, <2>2 DEF LifecycleInv, ReviewFollowsRecovery, Decided
  <2> QED
    BY <1>1, <2>1, <2>2
<1>6. o \in Observation /\ o.qualified /\ batch'.observations = Append(batch.observations, o)
      /\ batch.observations \in Seq(Observation)
  BY <1>1, LongerType DEF Recorded, Longer, TypeOK
<1> HIDE DEF o, p, q
<1>7. SinceAbnormal(batch'.observations, Append(p, o.id))
  BY <1>3, <1>6, SinceAbnormalGrows
<1>8. Append(p, o.id) \in Seq(ObservationIds) /\ Len(Append(p, o.id)) = Len(p) + 1
  BY <1>3, <1>6 DEF Observation
<1>9. RunLength(batch.observations) = Len(p)
  BY <1>3, <1>6, RunLengthIs
<1>10. batch'.observations \in Seq(Observation)
  BY <1>6
<1>11. RunLength(batch'.observations) = Len(p) + 1 /\ RunLength(batch'.observations) = Len(q)
  BY <1>4, <1>7, <1>8, <1>10, RunLengthIs
<1>12. Credit = Len(p)
  BY <1>9 DEF Credit
<1>13. Credit' = Credit + 1 /\ Credit' = Len(q)
  BY <1>1, <1>11, <1>12 DEF Credit, Decided
<1>14. Qualification!Recover
  BY <1>1, <1>5, <1>13 DEF Qualification!Recover
<1> QED
  BY <1>14 DEF Qualification!Next

LEMMA RefineCorrect ==
  ASSUME TypeOK, NEW actor \in Actors, NEW x \in DOMAIN batch.deviations, NEW owner \in Owners,
         CorrectDeviation(actor, x, owner)
  PROVE  UNCHANGED Qualification!vars
<1>1. batch'.status = batch.status /\ batch'.protocol = batch.protocol
      /\ batch'.observations = batch.observations
  BY CorrectFields DEF Fields
<1> QED
  BY <1>1 DEF Qualification!vars, Credit

LEMMA RefineRecover ==
  ASSUME TypeOK, LifecycleInv, NEW actor \in Actors, Recover(actor)
  PROVE  Qualification!Next
<1>1. /\ batch'.status = "recovering" /\ batch'.protocol = batch.protocol
      /\ batch'.observations = batch.observations /\ batch.status = "paused"
  BY RecoverFields DEF Fields, Recover, CanApproveRecovery
<1>2. SinceAbnormal(batch.observations, <<>>) /\ batch.observations \in Seq(Observation)
  BY <1>1 DEF LifecycleInv, PausedByAbnormal, TypeOK
<1>3. <<>> \in Seq(ObservationIds) /\ Len(<<>>) = 0
  OBVIOUS
<1>4. RunLength(batch.observations) = 0
  BY <1>2, <1>3, RunLengthIs
<1>5. Credit = 0 /\ Credit' = 0
  BY <1>1, <1>4 DEF Credit, Decided
<1> QED
  BY <1>1, <1>5 DEF Qualification!Next, Qualification!StartRecovery

LEMMA RefineReview ==
  ASSUME TypeOK, NEW actor \in Actors, NEW decision \in {"approve", "reject"},
         NEW passed \in BOOLEAN, Review(actor, decision, passed)
  PROVE  Qualification!Next
<1>1. /\ batch'.status \in {"approved_sealed", "rejected_sealed"}
      /\ batch'.protocol = batch.protocol /\ batch'.observations = batch.observations
  BY ReviewFields DEF Fields
<1>2. batch.status = "pending_review"
  BY DEF Review, CanDecideReview
<1>3. Credit' = Credit
  BY <1>1, <1>2 DEF Credit, Decided
<1> QED
  BY <1>1, <1>2, <1>3 DEF Qualification!Next, Qualification!Seal

LEMMA RefineInit == Init => Qualification!Init
<1> SUFFICES ASSUME NEW actor \in Actors, batch = NewTreatmentBatch(actor)
             PROVE  Qualification!Init
  BY DEF Init
<1>1. batch.status = "draft" /\ batch.protocol = Nil
  BY DEF NewTreatmentBatch
<1> QED
  BY <1>1 DEF Qualification!Init, Credit, Decided

LEMMA RefineStep ==
  TypeOK /\ LifecycleInv /\ (TypeOK /\ LifecycleInv)' /\ [Next]_vars
    => [Qualification!Next]_Qualification!vars
<1> SUFFICES ASSUME TypeOK, LifecycleInv, TypeOK', LifecycleInv', [Next]_vars
             PROVE  [Qualification!Next]_Qualification!vars
  OBVIOUS
<1>1. ASSUME NEW actor \in Actors, NEW stamp \in Stamps, NEW reading \in Readings,
             SubmitObservation(actor, stamp, reading)
      PROVE  [Qualification!Next]_Qualification!vars
  BY <1>1, RefineAbnormal, RefineQualified, RefineCounted
<1>2. CASE UNCHANGED vars
  BY <1>2 DEF vars, Qualification!vars, Credit
<1> QED
  BY <1>1, <1>2, RefineFreeze, RefineCorrect, RefineRecover, RefineReview DEF Next

\* A batch with all its deviations, people and observations is the single counter
\* of StageQualification.
THEOREM LifecycleQualifies == Spec => ImplementsStageQualification
BY RefineInit, RefineStep, LifecycleInductive, PTL
  DEF Spec, ImplementsStageQualification, Qualification!Spec
-----------------------------------------------------------------------------
(* The record as a timeline                                                  *)

LEMMA DivMod ==
  ASSUME NEW m \in Nat \ {0}, NEW t \in Int
  PROVE  t = m * (t \div m) + (t % m) /\ t % m \in 0 .. m - 1 /\ t \div m \in Int
  OBVIOUS

LEMMA MultiplesApart ==
  ASSUME NEW m \in Nat \ {0}, NEW q \in Int, NEW k \in Int, m * k < m * q + m
  PROVE  m * k <= m * q
<1>1. CASE q >= k
  <2>1. PICK j \in Nat : q = k + j
    BY <1>1
  <2>2. m * j >= 0 /\ m * q = m * k + m * j
    BY <2>1
  <2> QED
    BY <2>2
<1>2. CASE q < k
  <2>1. k - q - 1 \in Nat /\ k = q + 1 + (k - q - 1)
    BY <1>2
  <2>2. PICK j \in Nat : k = q + 1 + j
    BY <2>1
  <2>3. m * j >= 0 /\ m * k = m * q + m + m * j
    BY <2>2
  <2> QED
    BY <2>3
<1> QED
  BY <1>1, <1>2

\* Cut down to microseconds, a time is not before any earlier whole microsecond.
LEMMA CutKeepsOrder ==
  ASSUME NEW t \in Nat, NEW k \in Int, Microsecond * k < t
  PROVE  /\ UTC(t) = Microsecond * (t \div Microsecond) /\ t \div Microsecond \in Int
         /\ Microsecond * k <= UTC(t) /\ UTC(t) <= t
<1> DEFINE q == t \div Microsecond
<1>1. Microsecond \in Nat \ {0}
  BY ClockAssumption
<1>2. t = Microsecond * q + (t % Microsecond) /\ t % Microsecond \in 0 .. Microsecond - 1 /\ q \in Int
  BY <1>1, DivMod
<1> HIDE DEF q
<1>3. Microsecond * k < Microsecond * q + Microsecond
  BY <1>1, <1>2
<1>4. Microsecond * k <= Microsecond * q
  BY <1>1, <1>2, <1>3, MultiplesApart
<1>5. UTC(t) = Microsecond * q
  BY <1>1, <1>2 DEF UTC
<1> QED
  BY <1>1, <1>2, <1>4, <1>5 DEF q

WholeMicroseconds(t) == \E k \in Int : t = Microsecond * k

\* What keeps the record a timeline: stored times are whole microseconds, and
\* nothing is observed before the baseline is frozen.
TimelineInv ==
  /\ EvidenceTimeline
  /\ \A i \in DOMAIN batch.observations : WholeMicroseconds(batch.observations[i].capturedAt)
  /\ batch.protocol = Nil => batch.observations = <<>>

LEMMA CutIsWhole ==
  ASSUME NEW t \in Nat
  PROVE  WholeMicroseconds(UTC(t))
<1>1. Microsecond \in Nat \ {0}
  BY ClockAssumption
<1>2. t = Microsecond * (t \div Microsecond) + (t % Microsecond) /\ t \div Microsecond \in Int
      /\ t % Microsecond \in Int
  BY <1>1, DivMod
<1>3. UTC(t) = Microsecond * (t \div Microsecond)
  BY <1>1, <1>2 DEF UTC
<1> QED
  BY <1>2, <1>3 DEF WholeMicroseconds

\* An accepted observation continues the timeline.
LEMMA TimelineObserve ==
  ASSUME TypeOK, TimelineInv, NEW actor \in Actors, NEW stamp \in Stamps,
         NEW reading \in Readings, SubmitObservation(actor, stamp, reading)
  PROVE  TimelineInv'
<1> DEFINE o   == ProcessObservation(stamp, reading)
           r   == Recorded(o, Codes(stamp, reading))
           obs == batch.observations
           n   == Len(obs)
<1>1. batch'.observations = Longer(stamp, reading) /\ batch'.protocol = batch.protocol
  BY AbnormalFields, QualifiedFields, CountedFields DEF Fields
<1>2. batch.protocol # Nil /\ batch.protocol \in Protocols
  BY DEF SubmitObservation, CanAddObservation, TypeOK
<1>3. /\ n \in Nat /\ Len(batch'.observations) = n + 1
      /\ \A i \in 1 .. n : batch'.observations[i] = obs[i] /\ obs[i] \in Observation
      /\ batch'.observations[n + 1] = r /\ DOMAIN batch'.observations = 1 .. n + 1
      /\ DOMAIN obs = 1 .. n
  BY <1>1, LongerType DEF Longer, TypeOK
<1>4. /\ r.sequenceNo = o.sequenceNo /\ r.capturedAt = UTC(o.capturedAt)
      /\ r.qualified <=> Codes(stamp, reading) = {}
  BY DEF Recorded
<1>5. o.capturedAt \in Nat /\ o.sequenceNo \in Int
  BY InputsAssumption DEF ProcessObservation
<1>6. WholeMicroseconds(r.capturedAt)
  BY <1>4, <1>5, CutIsWhole
<1>7. ASSUME n > 0
      PROVE  /\ obs[n].sequenceNo < r.sequenceNo
             /\ obs[n].capturedAt <= r.capturedAt
             /\ r.qualified => r.capturedAt - obs[n].capturedAt <= batch.protocol.interval * Hour
  <2>1. LastObservation(batch) = obs[n] /\ obs # <<>>
    BY <1>3, <1>7 DEF LastObservation
  <2>2. o.sequenceNo > obs[n].sequenceNo /\ o.capturedAt > obs[n].capturedAt
    BY <2>1 DEF SubmitObservation, CanAddObservation
  <2>3. obs[n] \in Observation /\ obs[n].capturedAt \in Int /\ obs[n].sequenceNo \in Int
    BY <1>3, <1>7 DEF Observation
  <2>4. PICK k \in Int : obs[n].capturedAt = Microsecond * k
    BY <1>3, <1>7 DEF TimelineInv, WholeMicroseconds
  <2>5. obs[n].capturedAt <= UTC(o.capturedAt) /\ UTC(o.capturedAt) <= o.capturedAt
    BY <1>5, <2>2, <2>4, CutKeepsOrder
  <2>6. UTC(o.capturedAt) \in Int
    BY <1>5, ClockAssumption DEF UTC
  <2>7. batch.protocol.interval * Hour \in Int
    BY <1>2, InputsAssumption, ClockAssumption
  <2>8. Codes(stamp, reading) = {} =>
          ~(o.capturedAt - obs[n].capturedAt > batch.protocol.interval * Hour)
    <3>1. obs[n] # Nil
      BY <2>3, NilAssumption
    <3> QED
      BY <2>1, <3>1 DEF Codes, EvaluateObservation, RuleCodes
  <2> QED
    BY <1>4, <1>5, <2>2, <2>3, <2>5, <2>6, <2>7, <2>8
<1> HIDE DEF o, r, obs, n
<1>8. EvidenceTimeline'
  <2> SUFFICES ASSUME NEW i \in 1 .. n
               PROVE  LET earlier == batch'.observations[i]
                          later   == batch'.observations[i + 1]
                      IN  /\ earlier.sequenceNo < later.sequenceNo
                          /\ earlier.capturedAt <= later.capturedAt
                          /\ later.qualified =>
                               later.capturedAt - earlier.capturedAt
                                 <= batch'.protocol.interval * Hour
    BY <1>3 DEF EvidenceTimeline
  <2>1. CASE i = n
    BY <1>1, <1>3, <1>7, <2>1
  <2>2. CASE i # n
    <3>1. i \in 1 .. n - 1 /\ i \in 1 .. n /\ i + 1 \in 1 .. n
      BY <1>3, <2>2
    <3> QED
      BY <1>1, <1>3, <3>1 DEF TimelineInv, EvidenceTimeline, obs, n
  <2> QED
    BY <2>1, <2>2
<1>9. \A i \in DOMAIN batch'.observations : WholeMicroseconds(batch'.observations[i].capturedAt)
  <2> SUFFICES ASSUME NEW i \in 1 .. n + 1
               PROVE  WholeMicroseconds(batch'.observations[i].capturedAt)
    BY <1>3
  <2>1. CASE i = n + 1
    BY <1>3, <1>6, <2>1
  <2>2. CASE i # n + 1
    <3>1. i \in 1 .. n
      BY <1>3, <2>2
    <3>2. WholeMicroseconds(obs[i].capturedAt)
      BY <1>3, <3>1 DEF TimelineInv, obs
    <3> QED
      BY <1>3, <3>1, <3>2
  <2> QED
    BY <2>1, <2>2
<1> QED
  BY <1>1, <1>2, <1>8, <1>9 DEF TimelineInv, WholeMicroseconds

\* A step that keeps observations and baseline keeps the timeline.
LEMMA TimelineKept ==
  ASSUME TimelineInv, batch'.observations = batch.observations,
         \/ batch'.protocol = batch.protocol
         \/ batch.protocol = Nil /\ batch'.protocol # Nil
  PROVE  TimelineInv'
<1>1. CASE batch'.protocol = batch.protocol
  BY <1>1 DEF TimelineInv, EvidenceTimeline, WholeMicroseconds
<1>2. CASE batch.protocol = Nil /\ batch'.protocol # Nil
  <2>1. batch'.observations = <<>>
    BY <1>2 DEF TimelineInv
  <2> QED
    BY <1>2, <2>1 DEF TimelineInv, EvidenceTimeline
<1> QED
  BY <1>1, <1>2

LEMMA TimelineInit == Init => TimelineInv
<1> SUFFICES ASSUME NEW actor \in Actors, batch = NewTreatmentBatch(actor) PROVE TimelineInv
  BY DEF Init
<1>1. batch.observations = <<>> /\ Len(batch.observations) = 0
  BY DEF NewTreatmentBatch
<1> QED
  BY <1>1 DEF TimelineInv, EvidenceTimeline

LEMMA TimelineStep == TypeOK /\ TimelineInv /\ [Next]_vars => TimelineInv'
<1> SUFFICES ASSUME TypeOK, TimelineInv, [Next]_vars PROVE TimelineInv'
  OBVIOUS
<1>1. ASSUME NEW actor \in Actors, NEW p \in Protocols, Freeze(actor, p) PROVE TimelineInv'
  <2>1. batch'.observations = batch.observations /\ batch'.protocol = p /\ batch.protocol = Nil
    BY <1>1, FreezeFields DEF Fields, Freeze, CanFreezeProtocol
  <2>2. p # Nil
    BY InputsAssumption
  <2> QED
    BY <2>1, <2>2, TimelineKept
<1>2. ASSUME NEW actor \in Actors, NEW x, NEW owner, CorrectDeviation(actor, x, owner)
      PROVE  TimelineInv'
  BY <1>2, CorrectFields, TimelineKept DEF Fields
<1>3. ASSUME NEW actor \in Actors, Recover(actor) PROVE TimelineInv'
  BY <1>3, RecoverFields, TimelineKept DEF Fields
<1>4. ASSUME NEW actor \in Actors, NEW decision, NEW passed, Review(actor, decision, passed)
      PROVE  TimelineInv'
  BY <1>4, ReviewFields, TimelineKept DEF Fields
<1>5. CASE UNCHANGED vars
  BY <1>5, TimelineKept DEF vars
<1> QED
  BY <1>1, <1>2, <1>3, <1>4, <1>5, TimelineObserve DEF Next

\* For all clocks and intervals the stored observations are a timeline.
THEOREM ObservationsAreATimeline == Spec => []EvidenceTimeline
<1>1. TimelineInv => EvidenceTimeline
  BY DEF TimelineInv
<1> QED
  BY <1>1, TimelineInit, TimelineStep, LifecycleInductive, PTL DEF Spec

-----------------------------------------------------------------------------
(* Nothing on record is rewritten                                            *)

\* What EvidenceIsAppendOnly says of a step.
Appends ==
  /\ ~Terminal(batch.status)
  /\ batch'.revision = batch.revision + 1
  /\ Len(batch.observations) <= Len(batch'.observations)
  /\ \A i \in DOMAIN batch.observations : batch'.observations[i] = batch.observations[i]
  /\ \A x \in DOMAIN batch.deviations :
       /\ x \in DOMAIN batch'.deviations
       /\ batch.deviations[x].status = "closed" => batch'.deviations[x] = batch.deviations[x]
  /\ batch.protocol # Nil => batch'.protocol = batch.protocol
  /\ Participants(batch) \subseteq Participants(batch')

\* Before the review no deviation is closed: they close together, and that is
\* when the batch is put up for review.
LEMMA NoneClosed ==
  ASSUME TypeOK, LifecycleInv, batch.status \notin Decided
  PROVE  \A x \in DOMAIN batch.deviations : batch.deviations[x].status # "closed"
<1>1. batch.status \in {"draft", "monitoring", "paused", "recovering"}
  BY DEF TypeOK, Statuses, Decided
<1> QED
  BY <1>1 DEF LifecycleInv, RecoveryIsAllOrNothing

LEMMA FieldsAppend ==
  ASSUME TypeOK, LifecycleInv, ~Terminal(batch.status),
         NEW status, NEW protocol, NEW observations, NEW deviations, NEW review,
         NEW baseline, NEW observers, NEW correctors,
         Fields(batch', status, protocol, observations, deviations, review, baseline,
                observers, correctors),
         \/ observations = batch.observations
         \/ \E o \in Observation : observations = Append(batch.observations, o),
         DOMAIN batch.deviations \subseteq DOMAIN deviations,
         batch.status \notin Decided \/ deviations = batch.deviations,
         protocol = batch.protocol \/ batch.protocol = Nil,
         batch.baseline \subseteq baseline, batch.observers \subseteq observers,
         batch.correctors \subseteq correctors
  PROVE  Appends
<1>1. /\ batch'.revision = batch.revision + 1 /\ batch'.createdBy = batch.createdBy
      /\ batch'.protocol = protocol /\ batch'.observations = observations
      /\ batch'.deviations = deviations /\ batch'.baseline = baseline
      /\ batch'.observers = observers /\ batch'.correctors = correctors
  BY DEF Fields
<1>2. /\ Len(batch.observations) <= Len(batch'.observations)
      /\ \A i \in DOMAIN batch.observations : batch'.observations[i] = batch.observations[i]
  <2>1. batch.observations \in Seq(Observation)
    BY DEF TypeOK
  <2>2. CASE observations = batch.observations
    BY <1>1, <2>1, <2>2
  <2>3. ASSUME NEW o \in Observation, observations = Append(batch.observations, o)
        PROVE  /\ Len(batch.observations) <= Len(observations)
               /\ \A i \in DOMAIN batch.observations : observations[i] = batch.observations[i]
    BY <2>1, <2>3
  <2> QED
    BY <1>1, <2>2, <2>3
<1>3. \A x \in DOMAIN batch.deviations :
        /\ x \in DOMAIN batch'.deviations
        /\ batch.deviations[x].status = "closed" => batch'.deviations[x] = batch.deviations[x]
  BY <1>1, NoneClosed
<1>4. Participants(batch) \subseteq Participants(batch')
  BY <1>1 DEF Participants
<1> QED
  BY <1>1, <1>2, <1>3, <1>4 DEF Appends

LEMMA ObserveAppends ==
  ASSUME TypeOK, LifecycleInv, NEW actor \in Actors, NEW stamp \in Stamps,
         NEW reading \in Readings, SubmitObservation(actor, stamp, reading)
  PROVE  Appends
<1>1. ~Terminal(batch.status) /\ batch.status \notin Decided
  BY DEF SubmitObservation, CanAddObservation, Decided
<1>2. \E o \in Observation : Longer(stamp, reading) = Append(batch.observations, o)
  BY LongerType DEF Longer
<1>3. batch.observers \subseteq batch.observers \cup {actor}
  OBVIOUS
<1>4. CASE Codes(stamp, reading) # {}
  <2> DEFINE raised == RaiseDeviations(batch, ProcessObservation(stamp, reading), Codes(stamp, reading))
  <2>1. DOMAIN batch.deviations \subseteq DOMAIN raised
    <3> DEFINE codes == Codes(stamp, reading)
    <3>1. codes \in SUBSET RuleCodes
      BY CodesType
    <3> HIDE DEF codes
    <3>2. DOMAIN RaiseDeviations(batch, ProcessObservation(stamp, reading), codes) =
            DOMAIN batch.deviations \cup ({stamp.id} \X codes)
      BY <3>1, RaisedType
    <3> QED
      BY <3>2 DEF codes
  <2>2. Fields(batch', "paused", batch.protocol, Longer(stamp, reading), raised,
               batch.review, batch.baseline, batch.observers \cup {actor}, batch.correctors)
    BY <1>4, AbnormalFields
  <2> HIDE DEF raised
  <2> QED
    BY <1>1, <1>2, <1>3, <2>1, <2>2, FieldsAppend
<1>5. CASE Codes(stamp, reading) = {} /\ batch.status # "recovering"
  <2>1. Fields(batch', batch.status, batch.protocol, Longer(stamp, reading), batch.deviations,
               batch.review, batch.baseline, batch.observers \cup {actor}, batch.correctors)
    BY <1>5, QualifiedFields
  <2> QED
    BY <1>1, <1>2, <1>3, <2>1, FieldsAppend
<1>6. CASE Codes(stamp, reading) = {} /\ batch.status = "recovering"
  <2>1. DOMAIN Counted(stamp) = DOMAIN batch.deviations
    BY DEF Counted
  <2>2. PICK status :
          Fields(batch', status, batch.protocol, Longer(stamp, reading), Counted(stamp),
                 batch.review, batch.baseline, batch.observers \cup {actor}, batch.correctors)
    BY <1>6, CountedFields
  <2> QED
    BY <1>1, <1>2, <1>3, <2>1, <2>2, FieldsAppend
<1> QED
  BY <1>4, <1>5, <1>6

\* Whatever is done to a batch, its record is only added to.
THEOREM RecordOnlyGrows == Spec => EvidenceIsAppendOnly
<1>1. TypeOK /\ LifecycleInv /\ [Next]_vars => [Appends]_vars
  <2> SUFFICES ASSUME TypeOK, LifecycleInv, Next PROVE Appends
    OBVIOUS
  <2>1. ASSUME NEW actor \in Actors, NEW p \in Protocols, Freeze(actor, p) PROVE Appends
    <3>1. ~Terminal(batch.status) /\ batch.status \notin Decided /\ batch.protocol = Nil
      BY <2>1 DEF Freeze, CanFreezeProtocol, Decided
    <3>2. batch.baseline \subseteq batch.baseline \cup {actor}
      OBVIOUS
    <3>3. Fields(batch', "monitoring", p, batch.observations, batch.deviations, batch.review,
                 batch.baseline \cup {actor}, batch.observers, batch.correctors)
      BY <2>1, FreezeFields
    <3> QED
      BY <3>1, <3>2, <3>3, FieldsAppend
  <2>2. ASSUME NEW actor \in Actors, NEW x \in DOMAIN batch.deviations, NEW owner \in Owners,
               CorrectDeviation(actor, x, owner)
        PROVE  Appends
    <3>1. ~Terminal(batch.status) /\ batch.status \notin Decided
      BY <2>2 DEF CorrectDeviation, CanRegisterCorrection, Decided
    <3>2. DOMAIN Corrected(batch.deviations, x, owner) = DOMAIN batch.deviations
      BY CorrectedType
    <3>3. batch.correctors \subseteq batch.correctors \cup {owner}
      OBVIOUS
    <3> QED
      BY <2>2, <3>1, <3>2, <3>3, CorrectFields, FieldsAppend
  <2>3. ASSUME NEW actor \in Actors, Recover(actor) PROVE Appends
    <3> DEFINE started == [x \in DOMAIN batch.deviations |-> StartRecovery(batch.deviations[x])]
    <3>1. ~Terminal(batch.status) /\ batch.status \notin Decided
      BY <2>3 DEF Recover, CanApproveRecovery, Decided
    <3>2. DOMAIN started = DOMAIN batch.deviations
      OBVIOUS
    <3>3. batch.correctors \subseteq batch.correctors \cup {actor}
      OBVIOUS
    <3>4. Fields(batch', "recovering", batch.protocol, batch.observations, started,
                 batch.review, batch.baseline, batch.observers, batch.correctors \cup {actor})
      BY <2>3, RecoverFields
    <3> HIDE DEF started
    <3> QED
      BY <3>1, <3>2, <3>3, <3>4, FieldsAppend
  <2>4. ASSUME NEW actor \in Actors, NEW decision, NEW passed, Review(actor, decision, passed)
        PROVE  Appends
    <3>1. ~Terminal(batch.status)
      BY <2>4 DEF Review, CanDecideReview
    <3> QED
      BY <2>4, <3>1, ReviewFields, FieldsAppend
  <2> QED
    BY <2>1, <2>2, <2>3, <2>4, ObserveAppends DEF Next
<1> QED
  BY <1>1, LifecycleInductive, PTL DEF Spec, EvidenceIsAppendOnly, Appends

-----------------------------------------------------------------------------
(* All of it for one step, for a module in which a batch is a part of more   *)

BatchInv == TypeOK /\ LifecycleInv /\ IndependenceInv /\ TimelineInv

LEMMA BatchStarts == Init => BatchInv
BY InitType, LifecycleInit, IndependenceInit, TimelineInit DEF BatchInv

LEMMA BatchStep == BatchInv /\ [Next]_vars => BatchInv'
BY TypeStep, LifecycleStep, IndependenceStep, TimelineStep DEF BatchInv

LEMMA BatchPromises ==
  BatchInv => /\ RecoveryIsAllOrNothing /\ ReviewFollowsRecovery
              /\ ReviewerIndependence /\ EvidenceTimeline
BY ReviewersAreStrangers DEF BatchInv, LifecycleInv, TimelineInv

LEMMA BatchQualifies == BatchInv /\ [Next]_vars => [Qualification!Next]_Qualification!vars
BY BatchStep, RefineStep DEF BatchInv
=============================================================================
