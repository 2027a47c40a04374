\* The modem interrupt of UART 1, which the output notifiers wait for.
SPECIFICATION FairSpec
CONSTANTS
  TASK_POOL_SIZE = 2
  TASK_NPRIORITIES = 2
  PQCAPACITY = 2
  GENERATIONS = 2
  FirstPriority = 1
  Events = {"COM1_MODEM_IRQ"}
  SoleNotifier = TRUE
INVARIANTS ModemIrqAwaited
CHECK_DEADLOCK FALSE
