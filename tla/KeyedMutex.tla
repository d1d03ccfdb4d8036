----------------------------- MODULE KeyedMutex -----------------------------
(***************************************************************************)
(* What the repository expects of keyedLocks (internal/repository/         *)
(* locks.go): one mutex per key.  Create and Mutate hold the mutex of the  *)
(* batch they work on; KeyedLocks implements this with one table.          *)
(***************************************************************************)
CONSTANTS Threads, Keys, None

VARIABLES
  wanted,   (* the key a thread waits for or holds, None outside              *)
  owner     (* the thread that holds a key's mutex, None if it is free        *)

vars == <<wanted, owner>>

Init ==
  /\ wanted = [t \in Threads |-> None]
  /\ owner = [k \in Keys |-> None]

\* The call of lock(k).
Request(t, k) ==
  /\ wanted[t] = None
  /\ wanted' = [wanted EXCEPT ![t] = k]
  /\ UNCHANGED owner

\* lock(k) returns.
Grant(t, k) ==
  /\ wanted[t] = k /\ owner[k] = None
  /\ owner' = [owner EXCEPT ![k] = t]
  /\ UNCHANGED wanted

\* The function that lock(k) returned is called.
Release(t, k) ==
  /\ owner[k] = t
  /\ owner' = [owner EXCEPT ![k] = None]
  /\ wanted' = [wanted EXCEPT ![t] = None]

Next == \E t \in Threads, k \in Keys : Request(t, k) \/ Grant(t, k) \/ Release(t, k)

Spec == Init /\ [][Next]_vars
=============================================================================
