----------------------------- MODULE MCHttpApi -----------------------------
(* Constant values for the runs of HttpApi. *)
EXTENDS OneBatch

CONSTANTS ann, rex, rexPadded, b1, b2, b2Padded, bad, o2, o3, o4, o5, o6, o7, o8, o9, o10, o11, o13, o14, v1, v2

MCIds == <<o2, o2, o3, o4, o5, o6, o7, o8, o9, o10, o11>>

MCTrimSpace == [s \in Owners |-> IF s = rexPadded THEN rex ELSE IF s = b2Padded THEN b2 ELSE s]

\* A client numbers its requests by batch and revision.
MCRequestIds == {b1, b2} \X (0 .. 12)

MCValidIds == {ann, rex, b1, b2} \cup MCRequestIds

Send(route, actor, b, n, input) ==
  [route |-> route, wellFormed |-> TRUE, actor |-> actor, request |-> <<b, n>>,
   expected |-> n, batch |-> b, input |-> input]

Baseline(window) ==
  [target |-> 30, tolerance |-> 1, temperatureMin |-> 18, temperatureMax |-> 24,
   massLimit |-> 3, interval |-> 4, window |-> window]

Observation(id, n, concentration) ==
  [id |-> id, sequenceNo |-> n, capturedAt |-> 4 * n,
   concentration |-> concentration, temperature |-> 20, mass |-> 1000]

Review(id, decision, passed, evidence) ==
  [id |-> id, decision |-> decision, checksPassed |-> passed, evidence |-> evidence]

\* Off in temperature and, after another reading, in mass; and out of any scale.
WarmAndSoaked(o, n) == [Observation(o, n, 30) EXCEPT !.temperature = 30, !.mass = 1100]
OutOfScale(o, n)    == Observation(o, n, 101)

OffConcentration(o) == [deviation |-> <<o, "CONCENTRATION_OUT_OF_RANGE">>, owner |-> ann]

\* b1: a window of two; at every revision a good, a bad or a late reading, corrections
\* and a recovery; the id of an observation is that of its revision, or the first one.
FirstBatch ==
  {Send("create", ann, b1, 0, [complete |-> c]) : c \in BOOLEAN} \cup
  {Send("baseline", ann, b1, 1, Baseline(w)) : w \in {0, 2}} \cup
  {Send("observations", ann, b1, n, Observation(MCIds[n], n, c)) :
     n \in 2 .. 6, c \in {30, 35}} \cup
  {Send("observations", ann, b1, n, Observation(MCIds[n], n, 30)) : n \in 7 .. 11} \cup
  {Send("observations", ann, b1, 3, o) : o \in {WarmAndSoaked(o3, 3), OutOfScale(o3, 3)}} \cup
  {Send("correction", ann, b1, n, [deviation |-> <<o3, code>>, owner |-> ann]) :
     n \in {4, 5}, code \in {"TEMPERATURE_OUT_OF_RANGE", "MASS_CHANGE_EXCEEDED"}} \cup
  {Send("observations", ann, b1, 5, Observation(MCIds[2], n, 30)) : n \in {1, 2, 5}} \cup
  {Send("correction", ann, b1, n, OffConcentration(MCIds[m])) :
     n \in {3, 4, 7, 8}, m \in {2, 3, 6}} \cup
  {Send("recovery", ann, b1, n, Nil) : n \in {3, 4, 5, 6, 8, 9}} \cup
  {Send("reviews", rexPadded, b1, n, Review(v1, d, TRUE, Nil)) :
     n \in {7, 12}, d \in {"approve", "reject"}} \cup
  {Send("reviews", rexPadded, b1, 7, Review(v1, "approve", passed, evidence)) :
     passed \in BOOLEAN, evidence \in {6, 7}} \cup
  {Send("reviews", ann, b1, 7, Review(v1, "approve", TRUE, Nil))}

\* b2: a window of one; the ids of an observation and of the review may be those of b1.
SecondBatch ==
  {Send("create", ann, b2, 0, [complete |-> TRUE]),
   [Send("baseline", ann, b2, 1, Baseline(1)) EXCEPT !.batch = b2Padded],
   Send("correction", ann, b2, 3, OffConcentration(o13)),
   Send("recovery", ann, b2, 4, Nil),
   Send("observations", ann, b2, 5, Observation(o14, 5, 30))} \cup
  {Send("observations", ann, b2, 2, Observation(o, 2, 35)) : o \in {MCIds[2], o13}} \cup
  {Send("reviews", rex, b2, 6, Review(v, "approve", TRUE, 6)) : v \in {v1, v2}}

\* Requests that are refused for what they are or that come too late, and one without a
\* revision.
OddRequests ==
  {[Send("create", ann, b1, 0, [complete |-> TRUE]) EXCEPT !.wellFormed = FALSE],
   Send("create", bad, b1, 0, [complete |-> TRUE]),
   [Send("create", ann, b1, 0, [complete |-> TRUE]) EXCEPT !.expected = -1],
   [Send("create", ann, b2, 0, [complete |-> TRUE]) EXCEPT !.batch = b2Padded],
   [Send("create", ann, b2, 12, [complete |-> TRUE]) EXCEPT !.expected = Nil],
   [Send("recovery", ann, b1, 4, Nil) EXCEPT !.batch = bad],
   [Send("recovery", ann, b1, 1, Nil) EXCEPT !.request = <<b2, 11>>],
   Send("correction", ann, b1, 3, [deviation |-> Nil, owner |-> ann])}

Queries == {Send(route, ann, b, 0, Nil) :
              route \in {"batch", "audit", "certificate", "verify"}, b \in {b1, b2Padded, bad}}

MCHttpRequests == FirstBatch \cup SecondBatch \cup OddRequests \cup Queries
=============================================================================
