\* unregister against one GetManagedObjects.
CONSTANTS
  Attr = {"c"}
  User = {}
  ZeroHandle = {}
  MayFail = {}
  AttrCap = 2
  MaxCalls = 1
  Kind <- MCKind
SPECIFICATION Spec
PROPERTIES UnregisterShutsDown
\* An application whose workers ended has no next step.
CHECK_DEADLOCK FALSE
