\* As MCHttpApi, for the requests without a revision.
CONSTANTS
  ann = ann  rex = rex  rexPadded = rexPadded  bad = bad
  b1 = b1  b2 = b2  b2Padded = b2Padded
  o2 = o2  o3 = o3  o4 = o4  o5 = o5  o6 = o6  o7 = o7  o8 = o8  o9 = o9  o10 = o10  o11 = o11  o13 = o13  o14 = o14
  v1 = v1  v2 = v2
  Nil = Nil
  Actors = {ann, rex}
  Owners = {ann, rex, rexPadded, b1, b2, b2Padded, bad}
  TrimSpace <- MCTrimSpace
  ObservationIds = {o2, o3, o4, o5, o6, o7, o8, o9, o10, o11, o13, o14}
  Microsecond = 2
  Hour = 4
  BatchIds = {b1, b2}
  RequestIds <- MCRequestIds
  ReviewIds = {v1, v2}
  ValidIds <- MCValidIds
  HttpRequests <- MCHttpRequests
  Focus = b1
SPECIFICATION Spec
PROPERTIES WritesNeedRevision
