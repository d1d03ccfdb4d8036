\* Who corrects a deviation is not remembered as a participant.
CONSTANTS
  ann = ann  rex = rex  rexPadded = rexPadded
  o1 = o1  o2 = o2  o3 = o3  o4 = o4  o5 = o5
  Nil = Nil
  Actors = {ann, rex}
  Owners = {ann, rex}
  TrimSpace <- MCTrimSpace
  ObservationIds = {o1, o2, o3, o4, o5}
  Microsecond = 2
  Hour = 4
  Protocols <- MCSmallProtocols
  Stamps <- MCStamps
  Readings <- MCReadings
SPECIFICATION Spec
INVARIANTS ReviewerTookNoPart
\* The clients run out of observation ids.
CHECK_DEADLOCK FALSE
