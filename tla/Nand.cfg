SPECIFICATION Spec
CONSTANTS
  b0 = b0
  b1 = b1
  Blocks = {b0, b1}
  PPB = 2
  MaxSequence = 3
  MaxErase = 2
  Settings <- MCSettings
SYMMETRY BlockSymmetry
INVARIANTS
  Recoverable
PROPERTIES
  Contract
CHECK_DEADLOCK FALSE
