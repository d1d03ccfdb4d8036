\* One batch: two people, a window of two, up to five observations.
CONSTANTS
  ann = ann  rex = rex  rexPadded = rexPadded
  o1 = o1  o2 = o2  o3 = o3  o4 = o4  o5 = o5
  Nil = Nil
  Actors = {ann, rex}
  Owners = {ann, rex}
  TrimSpace <- MCTrimSpace
  ObservationIds = {o1, o2, o3, o4, o5}
  Microsecond = 2
  Hour = 4
  Protocols <- MCProtocols
  Stamps <- MCFreeStamps
  Readings <- MCReadings
SPECIFICATION Spec
SYMMETRY Symmetric
INVARIANTS TypeOK RecoveryIsAllOrNothing ReviewFollowsRecovery ReviewerIndependence EvidenceTimeline
PROPERTIES EvidenceIsAppendOnly ImplementsStageQualification
\* A sealed batch accepts nothing any more.
CHECK_DEADLOCK FALSE
