---------------------- MODULE MCCertificateVerification ----------------------
(* Constant values for the runs of CertificateVerification. *)
EXTENDS CertificateVerification, TLC

CONSTANTS p1, p2, h1, h2, b1, r1, r2, r3, r4, o1

\* A process that serves commands, and one that queries may run in as well.
Places == [h \in Handlers |-> p1]

\* A batch is created, changed and approved; r4 races the approval or comes after it.
Life ==
  {[request |-> r1, batch |-> b1, kind |-> "create",  expected |-> 0, observation |-> None],
   [request |-> r2, batch |-> b1, kind |-> "change",  expected |-> 1, observation |-> o1],
   [request |-> r3, batch |-> b1, kind |-> "approve", expected |-> 2, observation |-> None],
   [request |-> r4, batch |-> b1, kind |-> "change",  expected |-> 2, observation |-> o1],
   [request |-> r4, batch |-> b1, kind |-> "reject",  expected |-> 2, observation |-> None],
   [request |-> r4, batch |-> b1, kind |-> "change",  expected |-> 3, observation |-> None]}

\* The handlers of one process are interchangeable.
Symmetric == Permutations(Handlers)
=============================================================================
