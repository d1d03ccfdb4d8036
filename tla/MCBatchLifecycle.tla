-------------------------- MODULE MCBatchLifecycle --------------------------
(* Constant values for the runs of BatchLifecycle. *)
EXTENDS BatchLifecycle, TLC

CONSTANTS ann, rex, rexPadded, o1, o2, o3, o4, o5

\* rexPadded is the string "rex " of a client that did not trim its owner_id.
MCTrimSpace == [s \in Owners |-> IF s = rexPadded THEN rex ELSE s]

Baseline(window) ==
  [target |-> 30, tolerance |-> 1, temperatureMin |-> 18, temperatureMax |-> 24,
   massLimit |-> 3, interval |-> 1, window |-> window]

\* A window of zero is refused.
MCProtocols == {Baseline(0), Baseline(2)}

MCSmallProtocols == {Baseline(1)}

Stamp(o, n, time) == [id |-> o, sequenceNo |-> n, capturedAt |-> time]

\* One observation id for every sequence number, an hour apart.
MCStamps == {Stamp(<<o1, o2, o3, o4, o5>>[n], n, 4 * n) : n \in 1 .. 5}

\* And a number below the first, a second observation at the time of the first and one
\* in the same microsecond, and a third with the number of the second.
MCFreeStamps == MCStamps \cup
  {Stamp(o1, 0, 4), Stamp(o2, 2, 4), Stamp(o2, 2, 5), Stamp(o3, 2, 13)}

\* Within the baseline, and off in concentration.
MCReadings == {[concentration |-> c, temperature |-> 20, mass |-> 1000] : c \in {30, 35}}

\* The two people are interchangeable.
Symmetric == Permutations({ann, rex})
=============================================================================
