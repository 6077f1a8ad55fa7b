\* An adapter and remote devices with their objects coming and going.
SPECIFICATION Spec
CONSTANTS
  Object <- MCObject
  Root = "bluez"
  None = "none"
  Parent <- MCParent
  Kind <- MCKind
  Id <- MCId
  Included <- MCIncluded
  Tells <- MCTells
  Garbled = {"s1"}
  Wanted = {1, 2}
  NoId = 0
  SockCap = 2
INVARIANTS IInv
PROPERTIES SearchIsExact FailNeedsCause SearchEnds NoNotificationLost
