\* Two trains, and three slots: Create fails when both trains have a driver and
\* one that was answered has not exited.
SPECIFICATION FairSpec
CONSTANTS
  Trains = {"t58", "t63"}
  Dests = {"A1", "B2"}
  Plans <- MCPlans
  Slots = {"s1", "s2", "s3"}
INVARIANTS OneDriver ScheduleHasStatus
PROPERTIES ImplementsItinerary NewOrderTakenUp
