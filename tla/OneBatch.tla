------------------------------ MODULE OneBatch ------------------------------
(***************************************************************************)
(* One batch of the service, Focus, as the modules about a single batch    *)
(* have it.  All the other batches, whatever their clients send, are what  *)
(* happens around it.  The properties say that the tables treat the batch  *)
(* as BatchLifecycle does and so keep what that module promises.           *)
(***************************************************************************)
EXTENDS HttpApi

CONSTANT Focus   (* the batch_id of the batch                                *)

Created == Focus \in DOMAIN batches

\* BatchLifecycle keeps the reviewer of a review, its decision and whether the whole
\* checklist passed.
Lived(b) ==
  [b EXCEPT !.review = IF @ = Nil THEN Nil
                       ELSE [reviewer |-> @.reviewer, decision |-> @.decision,
                             checksPassed |-> @.checksPassed]]

batch == Lived(batches[Focus])

trail == {<<audit[Focus][i].type, audit[Focus][i].actor>> : i \in DOMAIN audit[Focus]}

Sent(route) == {r.input : r \in {q \in HttpRequests : q.route = route}}

Stamps == {[id |-> o.id, sequenceNo |-> o.sequenceNo, capturedAt |-> o.capturedAt] :
             o \in Sent("observations")}

Readings == {[concentration |-> o.concentration, temperature |-> o.temperature,
              mass |-> o.mass] : o \in Sent("observations")}

Life == INSTANCE BatchLifecycle WITH Protocols <- Sent("baseline"), audit <- trail

ASSUME FocusAssumption == Focus \in BatchIds /\ Nil \notin Life!Observation

\* A batch that nobody has created yet is a draft.
Qualification == INSTANCE StageQualification WITH
  Windows <- {p.window : p \in {q \in Sent("baseline") : ValidProtocol(q)}},
  phase   <- IF Created THEN batch.status ELSE "draft",
  window  <- IF Created /\ batch.protocol # Nil THEN batch.protocol.window ELSE 0,
  credit  <- IF Created THEN Life!Credit ELSE 0

-----------------------------------------------------------------------------
\* Whatever is sent for this or other batches, the row of the batch and the types and
\* actors of its events start as BatchLifecycle starts, go on as it goes on, and are
\* never lost: what a command does to one batch depends on no other batch, except that
\* the ids of observations and reviews may be taken (Create and Mutate, which load,
\* change and save the one aggregate).
BatchLives ==
  [][IF Created
     THEN Created' /\ (UNCHANGED Life!vars \/ Life!Next)
     ELSE Created' => Life!Init']_vars

\* So the database holds what BatchLifecycle promises of one batch: its deviations
\* recover together, nobody reviews it before it has recovered or after taking part in
\* it, and its observations are a timeline (the rules of internal/domain, seen through
\* the requests, the replays and the tables).
BatchKeepsItsRules ==
  Created => /\ Life!RecoveryIsAllOrNothing /\ Life!ReviewFollowsRecovery
             /\ Life!ReviewerIndependence /\ Life!EvidenceTimeline

\* From the first request on, a batch qualifies for the next stage as StageQualification
\* says: by one unbroken run of qualified observations (BENZHI_README.md:13).
ServiceImplementsStageQualification == Qualification!Spec
=============================================================================
