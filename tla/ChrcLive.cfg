\* Progress and writes: the sockets of AcquireWrite and AcquireNotify, a notify
\* socket that may fill up, an Unregister behind everything else.
SPECIFICATION Spec
CONSTANTS
  Byte = {1}
  MaxLen = 1
  Value <- MCValue
  Offsets = {0}
  Flags = {"write", "write_wo_response", "notify"}
  Filter = FALSE
  MsgKinds = {"Unregister", "Notify"}
  Methods = {"WriteValue", "AcquireNotify", "AcquireWrite"}
  MsgCap = 1
  CallCap = 1
  SockCap = 1
  NoCall = NoCall
PROPERTIES NoWriteLost UnregisterEnds CallsAnswered
\* A worker that ended has no next step.
CHECK_DEADLOCK FALSE
