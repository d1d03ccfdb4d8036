----------------------------- MODULE KeyedLocks -----------------------------
(***************************************************************************)
(* internal/repository/locks.go: a table of reference-counted mutexes,     *)
(* one per key in use.  A thread is a goroutine inside Create or Mutate;   *)
(* it may be interrupted between any two operations on shared memory.      *)
(* The table (k.mu, k.locks) guards the counts and not the mutexes of its  *)
(* entries: a thread waits for an entry's mutex outside the table.         *)
(***************************************************************************)
EXTENDS Naturals, FiniteSets

CONSTANTS
  Threads,  (* goroutines                                                     *)
  Keys,     (* batch ids                                                      *)
  Refs,     (* addresses of lockRefs; one is free for reuse once unreachable  *)
  None      (* no thread, no key, nil                                         *)

ASSUME ThreadsAssumption ==
  /\ IsFiniteSet(Threads)
  /\ None \notin Threads \cup Keys \cup Refs

VARIABLES
  tableMu,  (* the holder of k.mu                                             *)
  locks,    (* k.locks: key -> lockRef, None if the key has no entry          *)
  refs,     (* lockRef.refs                                                   *)
  mu,       (* the holder of lockRef.mu                                       *)
  pc,       (* where a thread stands in lock or in the function it returns    *)
  key,      (* its key                                                        *)
  ref       (* its variable ref                                               *)

vars == <<tableMu, locks, refs, mu, pc, key, ref>>

Labels == {"idle", "enterTable", "register", "leaveTable", "lockRef", "holding",
           "reenterTable", "deregister", "leaveTableAgain"}

TypeOK ==
  /\ tableMu \in Threads \cup {None}
  /\ locks \in [Keys -> Refs \cup {None}]
  /\ refs \in [Refs -> Nat]
  /\ mu \in [Refs -> Threads \cup {None}]
  /\ pc \in [Threads -> Labels]
  /\ key \in [Threads -> Keys \cup {None}]
  /\ ref \in [Threads -> Refs \cup {None}]

Init ==
  /\ tableMu = None
  /\ locks = [k \in Keys |-> None]
  /\ refs = [r \in Refs |-> 0]
  /\ mu = [r \in Refs |-> None]
  /\ pc = [t \in Threads |-> "idle"]
  /\ key = [t \in Threads |-> None]
  /\ ref = [t \in Threads |-> None]

-----------------------------------------------------------------------------
Goto(t, from, to) == pc[t] = from /\ pc' = [pc EXCEPT ![t] = to]

\* A lockRef that neither the table nor a thread points to any more.
Unreachable(r) == (\A k \in Keys : locks[k] # r) /\ (\A t \in Threads : ref[t] # r)

Call(t, k) ==
  /\ Goto(t, "idle", "enterTable")
  /\ key' = [key EXCEPT ![t] = k]
  /\ UNCHANGED <<tableMu, locks, refs, mu, ref>>

\* Mutant: no k.mu.Lock().
PassTable(t, from, to) ==
  /\ Goto(t, from, to)
  /\ tableMu' = t
  /\ UNCHANGED <<locks, refs, mu, key, ref>>

LockTable(t, from, to) ==
  /\ Goto(t, from, to)
  /\ tableMu = None /\ tableMu' = t
  /\ UNCHANGED <<locks, refs, mu, key, ref>>

UnlockTable(t, from, to) ==
  /\ Goto(t, from, to)
  /\ tableMu' = None
  /\ UNCHANGED <<locks, refs, mu>>

EnterTable(t) == LockTable(t, "enterTable", "register")

\* Mutant: only a new entry counts.
RegisterFirstOnly(t) ==
  /\ Goto(t, "register", "leaveTable")
  /\ \/ /\ locks[key[t]] # None
        /\ ref' = [ref EXCEPT ![t] = locks[key[t]]]
        /\ UNCHANGED <<locks, refs, mu>>
     \/ /\ locks[key[t]] = None
        /\ \E r \in Refs :
             /\ Unreachable(r)
             /\ ref' = [ref EXCEPT ![t] = r]
             /\ locks' = [locks EXCEPT ![key[t]] = r]
             /\ refs' = [refs EXCEPT ![r] = 1]
             /\ mu' = [mu EXCEPT ![r] = None]
  /\ UNCHANGED <<tableMu, key>>

\* The entry of the key, or a new one, counts one more thread.
Register(t) ==
  /\ Goto(t, "register", "leaveTable")
  /\ \/ /\ locks[key[t]] # None
        /\ ref' = [ref EXCEPT ![t] = locks[key[t]]]
        /\ refs' = [refs EXCEPT ![locks[key[t]]] = @ + 1]
        /\ UNCHANGED <<locks, mu>>
     \/ /\ locks[key[t]] = None
        /\ \E r \in Refs :
             /\ Unreachable(r)
             /\ ref' = [ref EXCEPT ![t] = r]
             /\ locks' = [locks EXCEPT ![key[t]] = r]
             /\ refs' = [refs EXCEPT ![r] = 1]
             /\ mu' = [mu EXCEPT ![r] = None]
  /\ UNCHANGED <<tableMu, key>>

LeaveTable(t) == UnlockTable(t, "leaveTable", "lockRef") /\ UNCHANGED <<key, ref>>

\* Mutant: TryLock, and give up.
TryLockRef(t) ==
  /\ Goto(t, "lockRef", IF mu[ref[t]] = None THEN "holding" ELSE "reenterTable")
  /\ mu' = IF mu[ref[t]] = None THEN [mu EXCEPT ![ref[t]] = t] ELSE mu
  /\ UNCHANGED <<tableMu, locks, refs, key, ref>>

LockRef(t) ==
  /\ Goto(t, "lockRef", "holding")
  /\ mu[ref[t]] = None
  /\ mu' = [mu EXCEPT ![ref[t]] = t]
  /\ UNCHANGED <<tableMu, locks, refs, key, ref>>

UnlockRef(t) ==
  /\ Goto(t, "holding", "reenterTable")
  /\ mu' = [mu EXCEPT ![ref[t]] = None]
  /\ UNCHANGED <<tableMu, locks, refs, key, ref>>

ReenterTable(t) == LockTable(t, "reenterTable", "deregister")

\* Mutant: the entry is deleted whoever else uses it.
DeregisterAll(t) ==
  /\ Goto(t, "deregister", "leaveTableAgain")
  /\ refs' = [refs EXCEPT ![ref[t]] = @ - 1]
  /\ locks' = [locks EXCEPT ![key[t]] = None]
  /\ UNCHANGED <<tableMu, mu, key, ref>>

\* Mutant: the entry is never deleted.
DeregisterNone(t) ==
  /\ Goto(t, "deregister", "leaveTableAgain")
  /\ refs' = [refs EXCEPT ![ref[t]] = @ - 1]
  /\ UNCHANGED <<tableMu, locks, mu, key, ref>>

Deregister(t) ==
  /\ Goto(t, "deregister", "leaveTableAgain")
  /\ refs' = [refs EXCEPT ![ref[t]] = @ - 1]
  /\ locks' = IF refs[ref[t]] - 1 = 0 THEN [locks EXCEPT ![key[t]] = None] ELSE locks
  /\ UNCHANGED <<tableMu, mu, key, ref>>

Return(t) ==
  /\ UnlockTable(t, "leaveTableAgain", "idle")
  /\ key' = [key EXCEPT ![t] = None]
  /\ ref' = [ref EXCEPT ![t] = None]

Step(t) ==
  \/ EnterTable(t) \/ Register(t) \/ LeaveTable(t) \/ LockRef(t)
  \/ UnlockRef(t) \/ ReenterTable(t) \/ Deregister(t) \/ Return(t)

Next == \E t \in Threads : Step(t) \/ \E k \in Keys : Call(t, k)

Spec == Init /\ [][Next]_vars

\* A goroutine inside lock or its returned function keeps running; the callers
\* defer that function, so a holder always leaves.  A waiter of a sync.Mutex is not
\* overtaken for ever: after a millisecond the mutex is handed to the longest
\* waiter, which is strong fairness of the two acquisitions.
Fairness == \A t \in Threads :
  /\ WF_vars(Step(t))
  /\ SF_vars(EnterTable(t)) /\ SF_vars(LockRef(t)) /\ SF_vars(ReenterTable(t))

FairSpec == Spec /\ Fairness

-----------------------------------------------------------------------------
\* Between Register and Deregister a thread is counted in its entry.
Counted(t) == pc[t] \in {"leaveTable", "lockRef", "holding", "reenterTable", "deregister"}

Users(k) == {t \in Threads : key[t] = k /\ Counted(t)}

\* Two commands on one batch never run at once, although an entry is deleted and
\* created anew between them (lock waits for ref.mu after it has left the table).
MutualExclusion ==
  \A s, t \in Threads :
    pc[s] = "holding" /\ pc[t] = "holding" /\ key[s] = key[t] => s = t

\* A key has an entry exactly while a thread uses it, and the entry counts its
\* users, who all point to it: no entry is dropped under a waiter or leaks, and no
\* two keys share one.
EntriesCountUsers ==
  \A k \in Keys :
    /\ locks[k] = None <=> Users(k) = {}
    /\ locks[k] # None => refs[locks[k]] = Cardinality(Users(k))
    /\ \A t \in Users(k) : ref[t] = locks[k]

\* Only the thread that locked a mutex unlocks it (sync.Mutex panics when it is
\* not locked at all).
HolderUnlocks == \A t \in Threads :
  /\ pc[t] = "holding" => mu[ref[t]] = t
  /\ pc[t] \in {"register", "leaveTable", "deregister", "leaveTableAgain"} => tableMu = t

\* Every call of lock returns, and so does every call of the function it returned:
\* no command waits for ever, not even while others take the same key again and
\* again.
EveryCallReturns == \A t \in Threads :
  /\ pc[t] = "enterTable" ~> pc[t] = "holding"
  /\ pc[t] = "holding" ~> pc[t] = "idle"

\* The key that a thread wants or holds, and the thread that holds a key.
Wanted(t) ==
  IF pc[t] \in {"enterTable", "register", "leaveTable", "lockRef", "holding"}
  THEN key[t] ELSE None

Holds(t, k) == pc[t] = "holding" /\ key[t] = k

Owner(k) ==
  IF \E t \in Threads : Holds(t, k) THEN CHOOSE t \in Threads : Holds(t, k) ELSE None

\* The table of reference-counted mutexes is one mutex per key: a thread that has
\* unlocked its entry's mutex has released the key, whatever it still has to do in
\* the table.
Mutexes == INSTANCE KeyedMutex WITH
  wanted <- [t \in Threads |-> Wanted(t)], owner <- [k \in Keys |-> Owner(k)]

ImplementsKeyedMutex == Mutexes!Spec
=============================================================================
