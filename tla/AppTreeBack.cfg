\* The Application that comes back from unregister.
SPECIFICATION Spec
CONSTANTS
  ServId = {1, 2}
  ChrcId = {1, 2}
  DescId = {1, 2}
  MaxAttr = 5
  None = None
INVARIANTS OriginalBack
\* A panicked or returned application has no next step.
CHECK_DEADLOCK FALSE
