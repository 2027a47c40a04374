\* Track A, from E6 to A1, every switch straight.
SPECIFICATION FairSpec
CONSTANTS
  TRACK_MAX = 144
  reverse <- ReverseA
  type <- TypeA
  num <- NumA
  edge <- EdgeA
  Far = 1073741824
  Questions <- MCFromE6ToA1
INVARIANTS StopsIfNotReachable
CHECK_DEADLOCK FALSE
