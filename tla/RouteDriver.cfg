\* Two trains on a line with a passing loop, each with two places it may be sent to.
SPECIFICATION FairSpec
CONSTANTS
  t1 = t1
  t2 = t2
  Trains <- MCTrains
  Nodes <- MCNodes
  reverse <- MCReverse
  type <- MCType
  edge <- MCEdge
  Switches <- MCSwitches
  Start <- MCStart
  Goals <- MCGoals
  Paths <- MCPaths
  STOP_DIST = 2
  LOOKBEHIND = 3
  MARGIN = 5
  MAX_TRIES = 1
INVARIANTS BeliefIsTrue OnOwnTrack DoneKeepsArc
PROPERTIES SwitchesOwned DriverEnds
CHECK_DEADLOCK FALSE
