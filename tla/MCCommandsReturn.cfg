\* Two processes on one database, one with two handlers, two batches and a single connection: whoever
\* waits for the connection holds the mutex of its batch.
CONSTANTS
  p1 = p1  p2 = p2  h1 = h1  h2 = h2  h3 = h3  b1 = b1  b2 = b2
  r1 = r1  r2 = r2  r3 = r3  r4 = r4  o1 = o1
  None = None
  Processes = {p1, p2}
  Handlers = {h1, h2, h3}
  ProcessOf <- Places
  Batches = {b1, b2}
  Requests = {r1, r2}
  ObservationIds = {}
  Commands <- TwoBatches
  MaxOpenConns = 1
SPECIFICATION FairSpec
PROPERTY EveryCommandReturns
