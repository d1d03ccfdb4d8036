-------------------------- MODULE KeyedLocksProofs --------------------------
(***************************************************************************)
(* The safety invariants of KeyedLocks for any set of keys and addresses   *)
(* and any finite set of threads.                                          *)
(***************************************************************************)
EXTENDS KeyedLocks, FiniteSetTheorems, TLAPS

InTable(t) == pc[t] \in {"register", "leaveTable", "deregister", "leaveTableAgain"}

\* The table is locked by the one thread that is inside it.
TableInv == \A t \in Threads : InTable(t) <=> tableMu = t

\* A thread that is not idle has a key.
KeyInv == \A t \in Threads : pc[t] # "idle" => key[t] \in Keys

\* No two keys share an entry.
EntriesDiffer == \A j, k \in Keys : locks[j] = locks[k] /\ locks[j] # None => j = k

\* A mutex is locked by the one thread that holds it.
MutexInv == \A t \in Threads, r \in Refs : mu[r] = t <=> pc[t] = "holding" /\ ref[t] = r

IInv == TypeOK /\ TableInv /\ KeyInv /\ EntriesDiffer /\ MutexInv /\ EntriesCountUsers

LEMMA UsersFinite == \A k : IsFiniteSet(Users(k))
  BY ThreadsAssumption, FS_Subset DEF Users

\* A step that neither counts a thread in nor out leaves the entries right.
LEMMA UsersKept ==
  ASSUME EntriesCountUsers, EntriesDiffer, locks' = locks, refs' = refs,
         \A s \in Threads : Counted(s)' <=> Counted(s),
         \A s \in Threads : Counted(s) => key'[s] = key[s] /\ ref'[s] = ref[s]
  PROVE  EntriesCountUsers' /\ EntriesDiffer'
<1>1. \A k \in Keys : Users(k)' = Users(k)
  BY DEF Users
<1> QED
  BY <1>1 DEF EntriesCountUsers, EntriesDiffer, Users

LEMMA CallInv ==
  ASSUME IInv, NEW t \in Threads, NEW k \in Keys, Call(t, k)
  PROVE  IInv'
<1>1. TypeOK'
  BY DEF IInv, TypeOK, Call, Goto, Labels
<1>2. TableInv' /\ KeyInv' /\ MutexInv'
  BY DEF IInv, TypeOK, TableInv, KeyInv, MutexInv, InTable, Call, Goto
<1>3. \A s \in Threads : Counted(s)' <=> Counted(s)
  BY DEF IInv, TypeOK, Counted, Call, Goto
<1>4. \A s \in Threads : Counted(s) => key'[s] = key[s] /\ ref'[s] = ref[s]
  BY DEF IInv, TypeOK, Counted, Call, Goto
<1> QED
  BY <1>1, <1>2, <1>3, <1>4, UsersKept DEF IInv, Call

LEMMA LockTableInv ==
  ASSUME IInv, NEW t \in Threads, EnterTable(t) \/ ReenterTable(t)
  PROVE  IInv'
<1> USE DEF EnterTable, ReenterTable, LockTable, Goto
<1>1. TypeOK'
  BY DEF IInv, TypeOK, Labels
<1>2. TableInv' /\ KeyInv' /\ MutexInv'
  BY ThreadsAssumption DEF IInv, TypeOK, TableInv, KeyInv, MutexInv, InTable
<1>3. \A s \in Threads : Counted(s)' <=> Counted(s)
  BY DEF IInv, TypeOK, Counted
<1> QED
  BY <1>1, <1>2, <1>3, UsersKept DEF IInv

LEMMA RegisterInv ==
  ASSUME IInv, NEW t \in Threads, Register(t)
  PROVE  IInv'
<1> DEFINE k == key[t]
<1>0. /\ k \in Keys /\ pc[t] = "register" /\ pc' = [pc EXCEPT ![t] = "leaveTable"]
      /\ UNCHANGED <<tableMu, key>>
  BY DEF IInv, KeyInv, Register, Goto
<1>1. \A s \in Threads : Counted(s)' <=> Counted(s) \/ s = t
  BY <1>0 DEF IInv, TypeOK, Counted
<1>2. ~Counted(t)
  BY <1>0 DEF Counted
<1>3. \A j \in Keys : Users(j)' = IF j = k THEN Users(k) \cup {t} ELSE Users(j)
  BY <1>0, <1>1 DEF Users
<1>4. t \notin Users(k)
  BY <1>2 DEF Users
<1>5. TableInv' /\ KeyInv'
  BY <1>0 DEF IInv, TypeOK, TableInv, KeyInv, InTable
<1>6. CASE locks[k] # None
  <2>1. /\ ref' = [ref EXCEPT ![t] = locks[k]]
        /\ refs' = [refs EXCEPT ![locks[k]] = @ + 1]
        /\ UNCHANGED <<locks, mu>>
    BY <1>6 DEF Register
  <2>2. locks[k] \in Refs
    BY <1>0, <1>6 DEF IInv, TypeOK
  <2>3. TypeOK'
    BY <1>0, <2>1, <2>2 DEF IInv, TypeOK, Labels
  <2>4. EntriesDiffer' /\ MutexInv'
    BY <1>0, <2>1, <2>2 DEF IInv, TypeOK, EntriesDiffer, MutexInv
  <2>5. Cardinality(Users(k) \cup {t}) = Cardinality(Users(k)) + 1
    BY <1>4, UsersFinite, FS_AddElement
  <2>6. EntriesCountUsers'
    <3> SUFFICES ASSUME NEW j \in Keys
                 PROVE  /\ (locks[j] = None <=> Users(j) = {})'
                        /\ (locks[j] # None => refs[locks[j]] = Cardinality(Users(j)))'
                        /\ \A s \in Users(j)' : ref'[s] = locks'[j]
      BY DEF EntriesCountUsers
    <3>1. CASE j = k
      <4>1. Users(j)' = Users(k) \cup {t} /\ locks'[j] = locks[k]
        BY <1>3, <2>1, <3>1
      <4>2. refs'[locks[k]] = refs[locks[k]] + 1 /\ refs[locks[k]] = Cardinality(Users(k))
        BY <1>0, <1>6, <2>1, <2>2 DEF IInv, TypeOK, EntriesCountUsers
      <4>3. \A s \in Users(k) \cup {t} : ref'[s] = locks[k]
        BY <1>0, <2>1 DEF IInv, TypeOK, EntriesCountUsers, Users
      <4> QED
        BY <1>6, <2>5, <4>1, <4>2, <4>3
    <3>2. CASE j # k
      <4>1. Users(j)' = Users(j) /\ locks'[j] = locks[j]
        BY <1>3, <2>1, <3>2
      <4>2. locks[j] # None => refs'[locks[j]] = refs[locks[j]]
        BY <1>0, <2>1, <2>2, <3>2 DEF IInv, TypeOK, EntriesDiffer
      <4>3. \A s \in Users(j) : ref'[s] = ref[s]
        BY <1>0, <2>1, <3>2 DEF IInv, TypeOK, Users
      <4> QED
        BY <4>1, <4>2, <4>3 DEF IInv, EntriesCountUsers
    <3> QED
      BY <3>1, <3>2
  <2> QED
    BY <1>5, <2>3, <2>4, <2>6 DEF IInv
<1>7. CASE locks[k] = None
  <2>1. PICK r \in Refs :
          /\ Unreachable(r)
          /\ ref' = [ref EXCEPT ![t] = r]
          /\ locks' = [locks EXCEPT ![k] = r]
          /\ refs' = [refs EXCEPT ![r] = 1]
          /\ mu' = [mu EXCEPT ![r] = None]
    BY <1>7 DEF Register
  <2>2. TypeOK'
    BY <1>0, <2>1 DEF IInv, TypeOK, Labels
  <2>3. EntriesDiffer'
    BY <1>0, <2>1, ThreadsAssumption DEF IInv, TypeOK, EntriesDiffer, Unreachable
  <2>4. MutexInv'
    BY <1>0, <2>1, ThreadsAssumption DEF IInv, TypeOK, MutexInv, Unreachable
  <2>5. Users(k) = {}
    BY <1>0, <1>7 DEF IInv, EntriesCountUsers
  <2>6. EntriesCountUsers'
    <3> SUFFICES ASSUME NEW j \in Keys
                 PROVE  /\ (locks[j] = None <=> Users(j) = {})'
                        /\ (locks[j] # None => refs[locks[j]] = Cardinality(Users(j)))'
                        /\ \A s \in Users(j)' : ref'[s] = locks'[j]
      BY DEF EntriesCountUsers
    <3>1. CASE j = k
      <4>1. Users(j)' = {t} /\ locks'[j] = r /\ r # None
        BY <1>0, <1>3, <2>1, <2>5, <3>1, ThreadsAssumption DEF IInv, TypeOK
      <4>2. refs'[r] = 1 /\ Cardinality({t}) = 1 /\ ref'[t] = r
        BY <2>1, FS_Singleton DEF IInv, TypeOK
      <4> QED
        BY <4>1, <4>2
    <3>2. CASE j # k
      <4>1. Users(j)' = Users(j) /\ locks'[j] = locks[j]
        BY <1>3, <2>1, <3>2 DEF IInv, TypeOK
      <4>2. locks[j] # None => refs'[locks[j]] = refs[locks[j]]
        BY <1>0, <2>1, <3>2 DEF IInv, TypeOK, Unreachable
      <4>3. \A s \in Users(j) : ref'[s] = ref[s]
        BY <1>0, <2>1, <3>2 DEF IInv, TypeOK, Users
      <4> QED
        BY <4>1, <4>2, <4>3 DEF IInv, EntriesCountUsers
    <3> QED
      BY <3>1, <3>2
  <2> QED
    BY <1>5, <2>2, <2>3, <2>4, <2>6 DEF IInv
<1> QED
  BY <1>6, <1>7

LEMMA LeaveTableInv ==
  ASSUME IInv, NEW t \in Threads, LeaveTable(t)
  PROVE  IInv'
<1> USE DEF LeaveTable, UnlockTable, Goto
<1>1. TypeOK'
  BY DEF IInv, TypeOK, Labels
<1>2. TableInv' /\ KeyInv' /\ MutexInv'
  BY ThreadsAssumption DEF IInv, TypeOK, TableInv, KeyInv, MutexInv, InTable
<1>3. \A s \in Threads : Counted(s)' <=> Counted(s)
  BY DEF IInv, TypeOK, Counted
<1> QED
  BY <1>1, <1>2, <1>3, UsersKept DEF IInv

LEMMA LockRefInv ==
  ASSUME IInv, NEW t \in Threads, LockRef(t) \/ UnlockRef(t)
  PROVE  IInv'
<1> USE DEF LockRef, UnlockRef, Goto
<1>1. ref[t] \in Refs
  <2>1. t \in Users(key[t]) /\ key[t] \in Keys
    BY DEF IInv, KeyInv, Users, Counted
  <2> QED
    BY <2>1 DEF IInv, TypeOK, EntriesCountUsers
<1>2. TypeOK'
  BY <1>1 DEF IInv, TypeOK, Labels
<1>3. TableInv' /\ KeyInv' /\ MutexInv'
  BY <1>1, ThreadsAssumption DEF IInv, TypeOK, TableInv, KeyInv, MutexInv, InTable
<1>4. \A s \in Threads : Counted(s)' <=> Counted(s)
  BY DEF IInv, TypeOK, Counted
<1> QED
  BY <1>2, <1>3, <1>4, UsersKept DEF IInv

LEMMA DeregisterInv ==
  ASSUME IInv, NEW t \in Threads, Deregister(t)
  PROVE  IInv'
<1> DEFINE k == key[t]
           r == ref[t]
<1>0. /\ pc[t] = "deregister" /\ pc' = [pc EXCEPT ![t] = "leaveTableAgain"]
      /\ refs' = [refs EXCEPT ![r] = @ - 1]
      /\ locks' = IF refs[r] - 1 = 0 THEN [locks EXCEPT ![k] = None] ELSE locks
      /\ UNCHANGED <<tableMu, mu, key, ref>>
  BY DEF Deregister, Goto
<1>1. k \in Keys /\ t \in Users(k)
  BY <1>0 DEF IInv, KeyInv, Users, Counted
<1>2. locks[k] = r /\ r \in Refs /\ locks[k] # None /\ refs[r] = Cardinality(Users(k))
  BY <1>1 DEF IInv, TypeOK, EntriesCountUsers
<1>3. Cardinality(Users(k) \ {t}) = Cardinality(Users(k)) - 1 /\ IsFiniteSet(Users(k) \ {t})
  BY <1>1, UsersFinite, FS_RemoveElement
<1>4. Cardinality(Users(k) \ {t}) \in Nat /\
      (Cardinality(Users(k) \ {t}) = 0 <=> Users(k) \ {t} = {})
  BY <1>3, FS_CardinalityType, FS_EmptySet
<1>5. \A s \in Threads : Counted(s)' <=> Counted(s) /\ s # t
  BY <1>0 DEF IInv, TypeOK, Counted
<1>6. \A j \in Keys : Users(j)' = IF j = k THEN Users(k) \ {t} ELSE Users(j)
  BY <1>0, <1>5 DEF Users
<1>7. TypeOK'
  BY <1>0, <1>1, <1>2, <1>3, <1>4 DEF IInv, TypeOK, Labels
<1>8. TableInv' /\ KeyInv' /\ MutexInv'
  BY <1>0 DEF IInv, TypeOK, TableInv, KeyInv, MutexInv, InTable
<1>9. EntriesDiffer'
  BY <1>0, <1>1 DEF IInv, TypeOK, EntriesDiffer
<1>10. EntriesCountUsers'
  <2> SUFFICES ASSUME NEW j \in Keys
               PROVE  /\ (locks[j] = None <=> Users(j) = {})'
                      /\ (locks[j] # None => refs[locks[j]] = Cardinality(Users(j)))'
                      /\ \A s \in Users(j)' : ref'[s] = locks'[j]
    BY DEF EntriesCountUsers
  <2>1. CASE j = k
    <3>1. Users(j)' = Users(k) \ {t} /\ refs'[r] = Cardinality(Users(k) \ {t})
      BY <1>0, <1>2, <1>3, <1>6, <2>1 DEF IInv, TypeOK
    <3>2. locks'[j] = IF Users(k) \ {t} = {} THEN None ELSE r
      BY <1>0, <1>1, <1>2, <1>3, <1>4, <2>1 DEF IInv, TypeOK
    <3>3. \A s \in Users(k) : ref'[s] = r
      BY <1>0, <1>1, <1>2 DEF IInv, EntriesCountUsers
    <3> QED
      BY <1>2, <3>1, <3>2, <3>3
  <2>2. CASE j # k
    <3>1. Users(j)' = Users(j) /\ locks'[j] = locks[j]
      BY <1>0, <1>6, <2>2 DEF IInv, TypeOK
    <3>2. locks[j] # None => refs'[locks[j]] = refs[locks[j]]
      BY <1>0, <1>1, <1>2, <2>2 DEF IInv, TypeOK, EntriesDiffer
    <3> QED
      BY <1>0, <3>1, <3>2 DEF IInv, EntriesCountUsers
  <2> QED
    BY <2>1, <2>2
<1> QED
  BY <1>7, <1>8, <1>9, <1>10 DEF IInv

LEMMA ReturnInv ==
  ASSUME IInv, NEW t \in Threads, Return(t)
  PROVE  IInv'
<1> USE DEF Return, UnlockTable, Goto
<1>1. TypeOK'
  BY DEF IInv, TypeOK, Labels
<1>2. TableInv' /\ KeyInv' /\ MutexInv'
  BY ThreadsAssumption DEF IInv, TypeOK, TableInv, KeyInv, MutexInv, InTable
<1>3. \A s \in Threads : Counted(s)' <=> Counted(s)
  BY DEF IInv, TypeOK, Counted
<1>4. \A s \in Threads : Counted(s) => key'[s] = key[s] /\ ref'[s] = ref[s]
  BY DEF IInv, TypeOK, Counted
<1> QED
  BY <1>1, <1>2, <1>3, <1>4, UsersKept DEF IInv

LEMMA Inductive == Spec => []IInv
<1>1. Init => IInv
  <2> SUFFICES ASSUME Init PROVE IInv
    OBVIOUS
  <2>1. \A k \in Keys : Users(k) = {}
    BY DEF Init, Users, Counted
  <2>2. TypeOK /\ TableInv /\ KeyInv /\ EntriesDiffer /\ MutexInv
    BY ThreadsAssumption
    DEF Init, TypeOK, Labels, TableInv, InTable, KeyInv, EntriesDiffer, MutexInv
  <2> QED
    BY <2>1, <2>2 DEF IInv, EntriesCountUsers, Init
<1>2. IInv /\ [Next]_vars => IInv'
  <2> SUFFICES ASSUME IInv, [Next]_vars PROVE IInv'
    OBVIOUS
  <2>1. CASE UNCHANGED vars
    <3>1. TypeOK' /\ TableInv' /\ KeyInv' /\ MutexInv'
      BY <2>1 DEF vars, IInv, TypeOK, TableInv, InTable, KeyInv, MutexInv
    <3>2. \A s \in Threads : Counted(s)' <=> Counted(s)
      BY <2>1 DEF vars, Counted
    <3> QED
      BY <2>1, <3>1, <3>2, UsersKept DEF vars, IInv
  <2> QED
    BY <2>1, CallInv, LockTableInv, RegisterInv, LeaveTableInv, LockRefInv, DeregisterInv,
       ReturnInv DEF Next, Step
<1> QED
  BY <1>1, <1>2, PTL DEF Spec

\* Two commands on one batch never run at once.
THEOREM LocksExclude == Spec => []MutualExclusion
<1>1. IInv => MutualExclusion
  <2> SUFFICES ASSUME IInv, NEW s \in Threads, NEW t \in Threads,
                      pc[s] = "holding", pc[t] = "holding", key[s] = key[t]
               PROVE  s = t
    BY DEF MutualExclusion
  <2>1. s \in Users(key[t]) /\ t \in Users(key[t]) /\ key[t] \in Keys
    BY DEF IInv, KeyInv, Users, Counted
  <2>2. ref[s] = ref[t] /\ ref[t] \in Refs
    BY <2>1 DEF IInv, TypeOK, EntriesCountUsers
  <2> QED
    BY <2>2 DEF IInv, MutexInv
<1> QED
  BY <1>1, Inductive, PTL

\* An entry lives exactly as long as it has users, and counts them.
THEOREM EntriesAreExact == Spec => []EntriesCountUsers
  BY Inductive, PTL DEF IInv

\* The table keeps its shape.
THEOREM LockTypes == Spec => []TypeOK
  BY Inductive, PTL DEF IInv

\* Whoever unlocks a mutex of the table, or the table, has locked it.
THEOREM HoldersUnlock == Spec => []HolderUnlocks
<1>1. IInv => HolderUnlocks
  <2> SUFFICES ASSUME IInv, NEW t \in Threads
               PROVE  /\ pc[t] = "holding" => mu[ref[t]] = t
                      /\ InTable(t) => tableMu = t
    BY DEF HolderUnlocks, InTable
  <2>1. ASSUME pc[t] = "holding" PROVE ref[t] \in Refs
    <3>1. t \in Users(key[t]) /\ key[t] \in Keys
      BY <2>1 DEF IInv, KeyInv, Users, Counted
    <3> QED
      BY <3>1 DEF IInv, TypeOK, EntriesCountUsers
  <2> QED
    BY <2>1 DEF IInv, MutexInv, TableInv
<1> QED
  BY <1>1, Inductive, PTL

-----------------------------------------------------------------------------
(* The refinement of KeyedMutex                                              *)

\* At most one thread holds a key, and it is the key's owner.
LEMMA OwnerHolds ==
  ASSUME IInv, NEW k \in Keys
  PROVE  /\ \A t \in Threads : Holds(t, k) => Owner(k) = t
         /\ (\A t \in Threads : ~Holds(t, k)) => Owner(k) = None
<1>1. ASSUME NEW s \in Threads, NEW t \in Threads, Holds(s, k), Holds(t, k)
      PROVE  s = t
  <2>1. s \in Users(k) /\ t \in Users(k)
    BY <1>1 DEF Holds, Users, Counted
  <2>2. ref[s] = ref[t] /\ ref[t] \in Refs
    BY <2>1 DEF IInv, TypeOK, EntriesCountUsers
  <2> QED
    BY <1>1, <2>2 DEF IInv, MutexInv, Holds
<1> QED
  BY <1>1 DEF Owner

\* A step that changes neither who wants nor who holds a key is a stutter.
LEMMA Stutter ==
  ASSUME IInv, IInv', \A t \in Threads : Wanted(t)' = Wanted(t),
         \A t \in Threads, k \in Keys : Holds(t, k)' <=> Holds(t, k)
  PROVE  UNCHANGED Mutexes!vars
<1>1. \A k \in Keys : Owner(k)' = Owner(k)
  BY DEF Owner
<1> QED
  BY <1>1 DEF Mutexes!vars

LEMMA RefinementStep == IInv /\ IInv' /\ [Next]_vars => [Mutexes!Next]_Mutexes!vars
<1> SUFFICES ASSUME IInv, IInv', [Next]_vars PROVE [Mutexes!Next]_Mutexes!vars
  OBVIOUS
<1> USE DEF Goto
<1>1. ASSUME NEW t \in Threads, NEW k \in Keys, Call(t, k) PROVE Mutexes!Next
  <2>1. Wanted(t) = None
    BY <1>1 DEF Call, Wanted
  <2>2. \A s \in Threads : Wanted(s)' = IF s = t THEN k ELSE Wanted(s)
    BY <1>1 DEF Call, Wanted, IInv, TypeOK
  <2>3. \A s \in Threads, j \in Keys : Holds(s, j)' <=> Holds(s, j)
    BY <1>1 DEF Call, Holds, IInv, TypeOK
  <2>4. \A j \in Keys : Owner(j)' = Owner(j)
    BY <2>3 DEF Owner
  <2>5. Mutexes!Request(t, k)
    BY <2>1, <2>2, <2>4 DEF Mutexes!Request
  <2> QED
    BY <2>5 DEF Mutexes!Next
<1>2. ASSUME NEW t \in Threads, LockRef(t) PROVE Mutexes!Next
  <2>0. PICK k \in Keys : k = key[t]
    BY <1>2 DEF LockRef, IInv, KeyInv
  <2>1. t \in Users(k) /\ ref[t] = locks[k] /\ ref[t] \in Refs
    <3>1. t \in Users(k)
      BY <1>2, <2>0 DEF LockRef, Users, Counted
    <3> QED
      BY <3>1 DEF IInv, TypeOK, EntriesCountUsers
  <2>2. Wanted(t) = k /\ \A s \in Threads : Wanted(s)' = Wanted(s)
    BY <1>2, <2>0 DEF LockRef, Wanted, IInv, TypeOK
  <2>3. \A s \in Threads : ~Holds(s, k)
    <3> SUFFICES ASSUME NEW s \in Threads, Holds(s, k) PROVE FALSE
      OBVIOUS
    <3>1. s \in Users(k)
      BY DEF Holds, Users, Counted
    <3>2. ref[s] = ref[t]
      BY <2>1, <3>1 DEF IInv, EntriesCountUsers
    <3>3. mu[ref[t]] = s
      BY <2>1, <3>2 DEF IInv, MutexInv, Holds
    <3> QED
      BY <1>2, <3>3, ThreadsAssumption DEF LockRef
  <2>4. \A s \in Threads, j \in Keys :
          Holds(s, j)' <=> Holds(s, j) \/ (s = t /\ j = k)
    BY <1>2, <2>0 DEF LockRef, Holds, IInv, TypeOK
  <2>5. Owner(k) = None
    BY <2>1, <2>3, OwnerHolds
  <2>6. Owner(k)' = t
    <3>1. Holds(t, k)'
      BY <2>1, <2>4
    <3>2. \A s \in Threads : Holds(s, k)' => s = t
      BY <2>1, <2>3, <2>4
    <3> QED
      BY <3>1, <3>2 DEF Owner
  <2>7. \A j \in Keys : j # k => Owner(j)' = Owner(j)
    BY <2>4 DEF Owner
  <2>8. Mutexes!Grant(t, k)
    BY <2>1, <2>2, <2>5, <2>6, <2>7 DEF Mutexes!Grant
  <2> QED
    BY <2>1, <2>8 DEF Mutexes!Next
<1>3. ASSUME NEW t \in Threads, UnlockRef(t) PROVE Mutexes!Next
  <2>0. PICK k \in Keys : k = key[t]
    BY <1>3 DEF UnlockRef, IInv, KeyInv
  <2>1. Holds(t, k)
    BY <1>3, <2>0 DEF UnlockRef, Holds
  <2>2. Owner(k) = t
    BY <2>1, OwnerHolds
  <2>3. \A s \in Threads : Wanted(s)' = IF s = t THEN None ELSE Wanted(s)
    BY <1>3 DEF UnlockRef, Wanted, IInv, TypeOK
  <2>4. \A s \in Threads, j \in Keys : Holds(s, j)' <=> Holds(s, j) /\ s # t
    BY <1>3 DEF UnlockRef, Holds, IInv, TypeOK
  <2>5. \A s \in Threads : ~Holds(s, k)'
    BY <2>1, <2>2, <2>4, OwnerHolds
  <2>6. Owner(k)' = None
    BY <2>5 DEF Owner
  <2>7. \A j \in Keys : j # k => Owner(j)' = Owner(j)
    <3>1. \A j \in Keys : j # k => ~Holds(t, j)
      BY <2>0 DEF Holds
    <3> QED
      BY <2>4, <3>1 DEF Owner
  <2>8. Mutexes!Release(t, k)
    BY <2>1, <2>2, <2>3, <2>6, <2>7 DEF Mutexes!Release
  <2> QED
    BY <2>1, <2>8 DEF Mutexes!Next
<1>4. ASSUME NEW t \in Threads, EnterTable(t) \/ Register(t) \/ LeaveTable(t)
                                \/ ReenterTable(t) \/ Deregister(t) \/ Return(t)
      PROVE  UNCHANGED Mutexes!vars
  <2>1. \A s \in Threads : Wanted(s)' = Wanted(s)
    BY <1>4 DEF EnterTable, Register, LeaveTable, ReenterTable, Deregister, Return, LockTable,
                UnlockTable, Wanted, IInv, TypeOK
  <2>2. \A s \in Threads, j \in Keys : Holds(s, j)' <=> Holds(s, j)
    BY <1>4 DEF EnterTable, Register, LeaveTable, ReenterTable, Deregister, Return, LockTable,
                UnlockTable, Holds, IInv, TypeOK
  <2> QED
    BY <2>1, <2>2, Stutter
<1>5. CASE UNCHANGED vars
  BY <1>5, Stutter DEF vars, Wanted, Holds
<1> QED
  BY <1>1, <1>2, <1>3, <1>4, <1>5 DEF Next, Step

\* The table of reference-counted mutexes implements one mutex per key.
THEOREM LocksImplementMutexes == Spec => ImplementsKeyedMutex
<1>1. Init => Mutexes!Init
  BY DEF Init, Mutexes!Init, Wanted, Owner, Holds
<1> QED
  BY <1>1, Inductive, RefinementStep, PTL DEF Spec, ImplementsKeyedMutex, Mutexes!Spec

=============================================================================
