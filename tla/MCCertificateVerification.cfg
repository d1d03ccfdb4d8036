\* A verification beside two handlers, over the whole life of a batch.
CONSTANTS
  p1 = p1  p2 = p2  h1 = h1  h2 = h2  b1 = b1  r1 = r1  r2 = r2  r3 = r3  r4 = r4  o1 = o1
  None = None
  Processes = {p1, p2}
  ProcessOf <- Places
  Handlers = {h1, h2}
  Batches = {b1}
  Requests = {r1, r2, r3, r4}
  ObservationIds = {o1}
  Commands <- Life
  MaxOpenConns = 2
SYMMETRY Symmetric
SPECIFICATION VerificationSpec
INVARIANTS TrailTellsRevisions CertificateSealsTrail OnlyStaleRowsRefute AuditShowsWhatWasTold
