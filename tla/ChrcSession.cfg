\* Notification sessions: AcquireNotify, StartNotify, StopNotify and hang-ups
\* against messages that notify, callbacks that are always ready, strangers,
\* writes at offsets that fit or do not, handles and unknown interfaces.
SPECIFICATION Spec
CONSTANTS
  Byte = {1}
  MaxLen = 1
  Value <- MCValue
  Offsets = {0, 2}
  Flags = {"read", "write", "notify"}
  Filter = TRUE
  MsgKinds = {"Unregister", "Update", "Notify", "ObjMgr", "Notifying", "NotifyAcquired", "NotifyingSignal", "GetHandle"}
  Methods = {"ReadValue", "WriteValue", "AcquireNotify", "StartNotify", "StopNotify", "Set", "Get", "Other"}
  MsgCap = 1
  CallCap = 1
  SockCap = 2
  NoCall = NoCall
INVARIANTS IInv OutIsTrue
PROPERTIES ImplementsSession
\* A worker that ended has no next step.
CHECK_DEADLOCK FALSE
