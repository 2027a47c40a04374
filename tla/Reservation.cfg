\* Two trains on three pieces of track, a print buffer that can fill up.
SPECIFICATION FairSpec
CONSTANTS
  TRACK_MAX = 5
  reverse <- MCReverse
  Trains = {1, 2}
  Arcs <- MCArcs
  PRINT_BUFFER = 2
INVARIANT ReverseTogether
PROPERTIES ImplementsTrackOwnership OnlyOwnerGivesUp RequestAnswered PrintsDelivered
CHECK_DEADLOCK FALSE
