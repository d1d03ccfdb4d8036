\* Three goroutines on two keys, again and again; a lockRef for every thread is as many
\* as it takes.
CONSTANTS
  t1 = t1  t2 = t2  t3 = t3  k1 = k1  k2 = k2  r1 = r1  r2 = r2  r3 = r3
  None = None
  Threads = {t1, t2, t3}
  Keys = {k1, k2}
  Refs = {r1, r2, r3}
SPECIFICATION FairSpec
INVARIANTS TypeOK MutualExclusion EntriesCountUsers HolderUnlocks
PROPERTIES ImplementsKeyedMutex EveryCallReturns
