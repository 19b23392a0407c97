CONSTANTS
  Capacity = 4
  HeadroomDivisor = 2
  MaxPublished = 6
  MaxFailed = 2
SPECIFICATION FairSpec
INVARIANTS FreeListExact EngineAgrees CeilingBlocks
PROPERTIES ImplementsPool ReleaseAllEmpties
