\* A disk's LED.
SPECIFICATION FairDaemonSpec
CONSTANTS
  Daemon = daemon
  Users = {daemon}
  Worker = kworker
  NoOne = NoOne
  Lights = {}
  Colours = {4}
  Triggers = {}
  Delays <- None
  IntLimit = 16384
  LongLimit = 1073741824
  FirstState = 0
  BootMode = 1
  Primed = 0
  Colour0 = 4
  Modes <- CliModes
INVARIANTS TwoRequestsHeal
PROPERTIES DaemonComesBack
