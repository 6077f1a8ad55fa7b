\* Four small applications, one restart of BlueZ, one task that fails.
SPECIFICATION Spec
CONSTANTS
  Apps <- MCApps
  MaxName = 2
  MaxFail = 1
  CallCap = 1
INVARIANTS Agreed RegisteredWhole
PROPERTIES FailNeedsCause RegisterEnds NoTaskLeaks
\* A registration that has failed has no next step once its tasks have ended.
CHECK_DEADLOCK FALSE
