--------------------------- MODULE MCCommandStore ---------------------------
(* Constant values for the runs of CommandStore. *)
EXTENDS CommandStore, TLC

CONSTANTS p1, p2, h1, h2, h3, b1, b2, r1, r2, r3, r4, o1

\* h1 and h2 serve in one process, h3 in the other.
Places == [h \in Handlers |-> IF h = h3 THEN p2 ELSE p1]

Create(r, b) ==
  [request |-> r, batch |-> b, kind |-> "create", expected |-> 0, observation |-> None]

Change(r, b, revision, o) ==
  [request |-> r, batch |-> b, kind |-> "change", expected |-> revision, observation |-> o]

Approve(r, b, revision) ==
  [request |-> r, batch |-> b, kind |-> "approve", expected |-> revision, observation |-> None]

\* Both batches are created; r3 is used on both; r4 uses the observation id of r3 on the
\* other batch, and races r3 there for revision 1, or it approves what r3 has made of b1,
\* for which it may come too early.
Race == {Create(r1, b1), Create(r2, b2), Change(r3, b1, 1, o1), Change(r3, b2, 1, None),
         Approve(r4, b1, 2), Change(r4, b2, 1, o1)}

\* Handlers of one process that do not meet at a mutex may meet at its connections.
TwoBatches == {Create(r1, b1), Create(r2, b2)}

\* The handlers of one process are interchangeable.
Symmetric == Permutations({h1, h2})
=============================================================================
