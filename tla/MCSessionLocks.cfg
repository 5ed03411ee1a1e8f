SPECIFICATION FairSpec
CONSTANTS
  Task = {t1, t2, t3}
  s1 = s1
  alice = alice
  SessionKey = {s1}
  UserKey = {alice}
  AppKey = AppKey
  Calls <- MCCalls
  UserOf <- MCUserOf
  Lock = {l1, l2, l3, l4}
  NoTask = NoTask
  NoLock = NoLock
INVARIANTS MutualExclusion RegistryExact
PROPERTIES EveryCallReturns ImplementsMutex
