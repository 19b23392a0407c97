CONSTANTS
  a = a
  b = b
  c = c
  h1 = h1
  h2 = h2
  h3 = h3
  None = None
  Addrs = {a, b, c}
  Succ <- MCSucc
  Boundary = {c}
  Hosts = {h1, h2}
  CacheBlocks = 2
  Capacity = 5
  FrontOf <- MCFront
  MaxSteps = 3
  Word = 8
  Backend = "wasm"
SPECIFICATION Spec
INVARIANTS BudgetHolds
