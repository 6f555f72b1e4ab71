\* The standard timer trigger, alone.
SPECIFICATION Spec
CONSTANTS
  Users = {u1}
  Worker = kworker
  NoOne = NoOne
  Lights = {}
  Colours = {}
  Triggers = {"timer"}
  Delays <- HalfSecond
  IntLimit = 16384
  LongLimit = 1073741824
  FirstState = 0
  BootMode = 0
INVARIANTS TimerDoesNothing
CHECK_DEADLOCK FALSE
