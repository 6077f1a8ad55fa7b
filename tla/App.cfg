\* A characteristic and a descriptor without a handle whose I/O may fail:
\* a user's futures and their cancellation, GetManagedObjects, unregister and
\* drop, in every order; the environment falls silent in the end.
CONSTANTS
  Attr = {"c", "d"}
  User = {"u"}
  ZeroHandle = {"d"}
  MayFail = {"d"}
  AttrCap = 2
  MaxCalls = 2
  Kind <- MCKind
SPECIFICATION QuietSpec
INVARIANTS IInv TellsApplied ChrcSurvives JoinedIsComplete AppNeedsCause
PROPERTIES RequestsEnd ChrcAnswers
\* An application whose workers ended has no next step.
CHECK_DEADLOCK FALSE
