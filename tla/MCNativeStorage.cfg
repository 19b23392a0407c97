CONSTANTS
  g1 = g1
  g2 = g2
  None = None
  Guests = {g1, g2}
  CodeCapacity = 13
  MinBlock = 3
  ChunkMax = 8
  ChunksPerCapacity = 2
  SlackMax = 4
  SlackDivisor = 3
  Sizes = {1, 3, 4}
SPECIFICATION NativeFairSpec
INVARIANTS BlocksBehind BlocksDisjoint RoomIsReal
PROPERTIES MissAnswered
