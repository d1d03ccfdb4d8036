-------------------------- MODULE MCServerLifecycle --------------------------
(* Constant values for the run of ServerLifecycle. *)
EXTENDS ServerLifecycle

CONSTANTS p1, p2, h1, h2, b1, r1, r2

\* A handler in each process.
Places == [h \in Handlers |-> IF h = h2 THEN p2 ELSE p1]

Command(r, kind, revision) ==
  [request |-> r, batch |-> b1, kind |-> kind, expected |-> revision, observation |-> None]

\* A batch is created and changed, by commands that are sent to both processes as often
\* as clients like.
Resent == {Command(r1, "create", 0), Command(r2, "change", 1)}
=============================================================================
