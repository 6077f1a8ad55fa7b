\* Every sequence of operations on a value of at most four bytes.
SPECIFICATION BufferSpec
CONSTANTS
  Byte = {1, 2}
  MaxLen = 4
  Uninit = Uninit
INVARIANTS InitializedToLen SliceIsValue
\* A panicked value has no next step.
CHECK_DEADLOCK FALSE
