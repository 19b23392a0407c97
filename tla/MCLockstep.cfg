SPECIFICATION Spec
CONSTANTS
  ByteBits = 4
  Lo = 16
  Size = 8
  MaxInsns = 3
  Cases <- MCCases
INVARIANTS
  X64Agrees Arm64Agrees WasmAgrees
CHECK_DEADLOCK FALSE
