\* Two processes take turns at one address and serve one batch.
CONSTANTS
  p1 = p1  p2 = p2  h1 = h1  h2 = h2  b1 = b1  r1 = r1  r2 = r2
  None = None
  Processes = {p1, p2}
  Handlers = {h1, h2}
  ProcessOf <- Places
  Batches = {b1}
  Requests = {r1, r2}
  ObservationIds = {}
  Commands <- Resent
  MaxOpenConns = 1
SPECIFICATION FairServerSpec
INVARIANT AnswersAreDurable
PROPERTIES SignalsEnd ServiceComesBack
