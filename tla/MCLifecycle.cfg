\* Two processes and the worker; one registration of the watchdog may fail.
SPECIFICATION FairSpec
CONSTANTS
  Clients = {c1, c2}
  Worker = kworker
  Binder = insmod
  NoOne = NoOne
  Words = {"on"}
  FirmwareWord = 6
  MaxLost = 1
INVARIANTS TypeOK ProbeIsAlone CallbacksFindWhatTheyUse LockIsExclusive NothingBehind PortsAreGivenBack PowerModeIsKept OwnerCanGoOn
PROPERTIES RemovalEnds
