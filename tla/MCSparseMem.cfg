CONSTANTS
  None = None
  Space = 4
  HostSpace = 6
  Accesses = {{}, {"read"}}
  MaxAllocations = 2
SPECIFICATION Spec
INVARIANTS ResolveExact InUseExact
PROPERTIES ImplementsMap SplitsBounded
