\* A short and a longer timeout, one that is refused; every call may be
\* interrupted.  From the default of 1800 s down to a few steps of time.
SPECIFICATION FairSpec
CONSTANTS
  Requests = {20, 30, 90}
  Lapses = {15, 600}
  DEFAULT_TIMEOUT = 1800
INVARIANTS TypeOK TimerCoversPromise NoEarlyReset CoreKnowsTheTimer StoppedInTheEnd
PROPERTIES HungMachineIsReset
