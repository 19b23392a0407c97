CONSTANTS
  a = a
  b = b
  c = c
  h1 = h1
  h2 = h2
  h3 = h3
  None = None
  Addrs = {a, b, c}
  Succ <- MCSucc
  Boundary = {c}
  Hosts = {h1, h2, h3}
  CacheBlocks = 2
  Capacity = 7
  FrontOf <- MCFront
  MaxSteps = 3
  Word = 8
  Backend = "native"
SPECIFICATION FairSpec
INVARIANTS EngineSound RunsItsBlock EveryEntryAsked BudgetHolds StepsExact
PROPERTIES RunEnds
