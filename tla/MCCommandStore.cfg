\* Two processes on one database, one with two handlers and two connections, on two batches: racing
\* revisions, a request id and an observation id used twice, resent commands, cancellations and crashes.
CONSTANTS
  p1 = p1  p2 = p2  h1 = h1  h2 = h2  h3 = h3  b1 = b1  b2 = b2
  r1 = r1  r2 = r2  r3 = r3  r4 = r4  o1 = o1
  None = None
  Processes = {p1, p2}
  Handlers = {h1, h2, h3}
  ProcessOf <- Places
  Batches = {b1, b2}
  Requests = {r1, r2, r3, r4}
  ObservationIds = {o1}
  Commands <- Race
  MaxOpenConns = 2
SYMMETRY Symmetric
SPECIFICATION Spec
INVARIANTS TypeOK ExactlyOnce AnswersAreDurable ConflictsAreFinal OneWinnerPerRevision OneTransactionPerBatch
PROPERTIES HistoryIsKept ImplementsLedger
