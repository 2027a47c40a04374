\* Three tasks, two priorities, one plain event and one that the device
\* switches on and off.  main() may return, so the system may stop.
SPECIFICATION FairSpec
CONSTANTS
  TASK_POOL_SIZE = 3
  TASK_NPRIORITIES = 2
  PQCAPACITY = 3
  GENERATIONS = 2
  FirstPriority = 1
  Events = {"KERNEL_STATS", "COM1_SEND_IRQ"}
  SoleNotifier = TRUE
INVARIANTS ReadyQueues SenderQueues FreeList NoTaskLost TransmitIrqAwaited
PROPERTIES StrictPriority UrgentTaskRuns
CHECK_DEADLOCK FALSE
