SPECIFICATION Spec
CONSTANTS
  BYTE_BITS = 2
  Data = {1, 2}
  MAX_LEN = 2
INVARIANT InStep
PROPERTY ImplementsArray
