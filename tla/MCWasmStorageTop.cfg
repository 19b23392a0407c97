CONSTANTS
  e1 = e1
  e2 = e2
  e3 = e3
  e4 = e4
  c1 = c1
  c2 = c2
  c3 = c3
  None = None
  Capacity = 2
  HeadroomDivisor = 2
  Guests = {1, 3}
  GuestLen <- MCLen
  TopAddress <- MCTop
  Codes = {c1, c3}
  Loaded <- MCLoaded
  Rewritten = {1}
  Shape <- MCShape
  Entries = {e1, e2, e3, e4}
  Batch = 2
  ByteBudget = 2
  MinModule = 1
  BlockBytes = {2}
  SharedBytes = {3}
  CanAdopt = TRUE
SPECIFICATION Spec
INVARIANTS CacheEntersItsBlock
