\* Three threads competing for the lock; liveness.
SPECIFICATION FairSpec
CONSTANTS
  Threads = {t1, t2, t3}
  NoThread = NoThread
  Calls <- CrowdCalls
  Hi <- CrowdHi
  Lo <- CrowdLo
  Boot <- CrowdBoot
INVARIANT OwnerNeverWaits
PROPERTY EveryCallReturns
