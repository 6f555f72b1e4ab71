\* Two processes, the worker, two triggers; every step of probe and remove.
SPECIFICATION Spec
CONSTANTS
  Users = {u1, u2}
  Worker = kworker
  NoOne = NoOne
  Lights = {}
  Colours = {2, 4}
  Triggers = {"breath", "normal"}
  Delays <- Long
  IntLimit = 16384
  LongLimit = 1073741824
  FirstState = 0
  BootMode = 1
INVARIANTS TypeOK CacheIsReal
PROPERTIES LeftAloneAfterRemoval
SYMMETRY SymmetricUsers
CHECK_DEADLOCK FALSE
