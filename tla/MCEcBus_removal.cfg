\* The remove callback against a LED mode.
SPECIFICATION Spec
CONSTANTS
  Threads = {t1, t2}
  NoThread = NoThread
  Calls <- RemovalCalls
  Hi <- RemovalHi
  Lo <- RemovalLo
  Boot <- RemovalBoot
INVARIANTS AccessReachesItsRegister
