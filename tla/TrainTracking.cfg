SPECIFICATION FairSpec
CONSTANTS
  t1 = t1
  t2 = t2
  Trains = {t1, t2}
  Nodes <- MCNodes
  reverse <- MCReverse
  type <- MCType
  edge <- MCEdge
  Module <- MCModule
  Start <- MCStart
  TOLERANCE = 0
  MAX_TURNS = 2
PROPERTIES OneHitOneTrain OwnSensors FoundAgain
