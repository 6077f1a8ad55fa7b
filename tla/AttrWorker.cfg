\* A service and a descriptor: messages against D-Bus calls of Bluez and of
\* strangers, questions that are abandoned, a connection that fails.
SPECIFICATION Spec
CONSTANTS
  Byte = {1}
  MaxLen = 1
  Value <- MCValue
  Offsets = {0, 2}
  Flags = {"read", "write"}
  Filter = TRUE
  Handles = {0, 1}
  Calls <- MCCalls
  MsgCap = 1
  CallCap = 1
INVARIANTS IInv MessageNotStarved IncludesKnown
PROPERTIES OnlyAdmitted Settles
\* A worker that ended has no next step.
CHECK_DEADLOCK FALSE
