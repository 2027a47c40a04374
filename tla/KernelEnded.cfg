\* Two tasks, no events: one exits, the other sends to it.
SPECIFICATION FairSpec
CONSTANTS
  TASK_POOL_SIZE = 2
  TASK_NPRIORITIES = 2
  PQCAPACITY = 2
  GENERATIONS = 2
  FirstPriority = 1
  Events = {"TIMER_IRQ"}
  SoleNotifier = TRUE
PROPERTIES EndedTaskRefusesSend
CHECK_DEADLOCK FALSE
