\* Track B, four trains and six goals, two sets of reservations and switches.
SPECIFICATION FairSpec
CONSTANTS
  TRACK_MAX = 144
  reverse <- ReverseB
  type <- TypeB
  num <- NumB
  edge <- EdgeB
  Far = 1073741824
  Questions <- MCQuestions
INVARIANTS IndexHonest NeverWild PathIsReal
PROPERTIES ClosestFirst SearchEnds
CHECK_DEADLOCK FALSE
