\* Three clients, two cells, words of 3 bits: delays that fit, that wrap around
\* and that meet the mark of an empty cell.  The timer stops at MaxTicks, and
\* then so may everybody.
SPECIFICATION FairSpec
CONSTANTS
  Clients = {"a", "b", "c"}
  WAIT_QUEUE_SIZE = 2
  WORD = 8
  MaxTicks = 3
  Delays = {0, 1, 2, 7}
INVARIANT HeadIsEarliest
PROPERTIES ImplementsAlarmClock SleeperWakes
CHECK_DEADLOCK FALSE
