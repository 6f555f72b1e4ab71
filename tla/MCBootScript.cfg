\* An update, a rollback, and a kernel whose name is part of another's.
SPECIFICATION Spec
CONSTANTS
  k6612 = k6612
  k66123 = k66123
  k618 = k618
  Kernels = {k6612, k66123, k618}
  Confusable <- Prefixes
INVARIANTS TypeOK EndsLoaded UnitIsRestored
PROPERTIES UsableModuleIsKept
