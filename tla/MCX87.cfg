SPECIFICATION Spec
CONSTANTS
  Regs = 4
  X87Cases <- MCCases
INVARIANTS
  X87X64Agrees X87Arm64Agrees X87WasmAgrees
CHECK_DEADLOCK FALSE
