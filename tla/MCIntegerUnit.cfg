CONSTANTS
  ByteBits = 8
  Start <- MCStart
  Operands <- MCOperands
  Counts = {0, 1, 8, 9, 12, 31}
  Widths = {1, 2}
  MaxOps = 2
SPECIFICATION Spec
INVARIANTS CarriesExact ConditionsOrder ShiftsStepwise DivisionExact DecimalExact
CHECK_DEADLOCK FALSE
