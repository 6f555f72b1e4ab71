\* One process and the worker, with light levels and the timer trigger.
SPECIFICATION FairSpec
CONSTANTS
  Users = {u1}
  Worker = kworker
  NoOne = NoOne
  Lights = {40}
  Colours = {}
  Triggers = {"timer"}
  Delays <- HalfSecond
  IntLimit = 16384
  LongLimit = 1073741824
  FirstState = 1
  BootMode = 0
PROPERTIES LastRequestIsShown
CHECK_DEADLOCK FALSE
