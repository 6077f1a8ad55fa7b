\* Two advertisements, the second registered at the path of the first once
\* that is known to have ended; a call ahead of the one that matters.
SPECIFICATION Spec
CONSTANTS
  Ads = {a1, a2}
  NoAd = NoAd
  CallCap = 2
INVARIANTS IInv NoOrphan
PROPERTIES LossNeedsCause ReleasesEnd
\* Once the advertisements have ended there is no next step.
CHECK_DEADLOCK FALSE
