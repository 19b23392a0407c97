CONSTANTS
  e1 = e1
  e2 = e2
  e3 = e3
  e4 = e4
  c1 = c1
  c2 = c2
  c3 = c3
  None = None
  Capacity = 2
  HeadroomDivisor = 2
  Guests = {0, 1, 2}
  GuestLen <- MCLen
  TopAddress <- MCTop
  Codes = {c3}
  Loaded <- MCLoaded
  Rewritten = {}
  Shape <- MCShape
  Entries = {e1, e2, e3}
  Batch = 2
  ByteBudget = 4
  MinModule = 1
  BlockBytes = {2}
  SharedBytes = {3}
  CanAdopt = TRUE
SPECIFICATION FairSpec
PROPERTIES TranslationEnds
