\* Every application of at most seven attributes, some with the UUID 0, and every
\* order of the heap.
SPECIFICATION Spec
CONSTANTS
  ServId = {0, 1}
  ChrcId = {0, 1}
  DescId = {0, 1}
  MaxAttr = 7
  None = None
INVARIANTS TreeInv AppWorkerReaches
\* A panicked or returned application has no next step.
CHECK_DEADLOCK FALSE
