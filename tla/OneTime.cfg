\* One channel, two possible values: every interleaving of the two halves.
SPECIFICATION Spec
CONSTANTS
  Value = {v1, v2}
  None = None
INVARIANTS IInv NoMissedStore
PROPERTIES HalvesEnd ImplementsOneShot
\* A channel has no next step once both halves are gone.
CHECK_DEADLOCK FALSE
