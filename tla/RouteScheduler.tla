--------------------------- MODULE RouteScheduler ---------------------------
(***************************************************************************)
(* The route scheduler of user/train_route_scheduler_server.c, the command *)
(* worker that sends it the operator's orders and the drivers it creates.  *)
(* What a driver does on its way is left out: here it is a task in a slot  *)
(* of the kernel's pool that reports once, when its route has ended.       *)
(***************************************************************************)
EXTENDS Integers, Sequences

CONSTANTS
  Trains,  \* the trains of the schedule
  Dests,   \* the nodes of the track
  Plans,   \* the lists of destinations that are ordered
  Slots    \* the slots of the task pool that other tasks leave to drivers

ASSUME RouteSchedulerAssumption == Plans \subseteq Seq(Dests) /\ <<>> \in Plans

Worker == "command worker"
NoOrder == [train |-> "none", node |-> "none"]

ASSUME RouteSchedulerNames ==
  Worker \notin Slots /\ NoOrder.train \notin Trains /\ {"home", "stranded"} \cap Dests = {}

Requests ==
  [sender : {Worker}, opcode : {"MOVE_TRAIN"}, train : Trains, plan : Plans, loop : BOOLEAN] \cup
  [sender : Slots, opcode : {"TRAIN_MOVED"}, train : Trains, plan : {<<>>}, loop : {FALSE}]

Phases == {"free", "driving", "asking", "ending"}

VARIABLES
  dest,       \* train -> the destinations dest[0 .. dest_len - 1]
  curr_dest,  \* train -> how many of these have been given to a driver
  loop,       \* train -> start over after the last
  status,     \* train -> 0, 1 or 2
  mailbox,    \* the requests sent to the server and not yet received
  worker,     \* the command worker: "running" or "blocked" in Send
  phase,      \* slot -> "free", or the driver in it: "driving", "asking" (it is
              \* blocked in driver_completed), "ending" (its last lines)
  order       \* slot -> the instruction, train and node, that the driver in it
              \* got and whose end it has not reported

scheduleVars == <<dest, curr_dest, loop, status>>
vars == <<dest, curr_dest, loop, status, mailbox, worker, phase, order>>

Init ==
  /\ dest = [t \in Trains |-> <<>>]
  /\ curr_dest = [t \in Trains |-> 0]
  /\ loop = [t \in Trains |-> FALSE]
  /\ status = [t \in Trains |-> 0]
  /\ mailbox = <<>>
  /\ worker = "running"
  /\ phase = [s \in Slots |-> "free"]
  /\ order = [s \in Slots |-> NoOrder]

Ask(m) == mailbox' = Append(mailbox, m)
-----------------------------------------------------------------------------
(***************************************************************************)
(* The clients.                                                            *)
(***************************************************************************)
MoveTrainAsked ==
  /\ worker = "running"
  /\ worker' = "blocked"
  /\ \E t \in Trains, p \in Plans, l \in BOOLEAN :
       Ask([sender |-> Worker, opcode |-> "MOVE_TRAIN", train |-> t, plan |-> p, loop |-> l])
  /\ UNCHANGED <<scheduleVars, phase, order>>

\* The driver's route has ended, or it did not find its train or a path.
\* Mutant: it returns without a report.
DriverReturns(s) ==
  /\ phase[s] = "driving"
  /\ phase' = [phase EXCEPT ![s] = "ending"]
  /\ UNCHANGED <<scheduleVars, mailbox, worker, order>>
DriverCompleted(s) ==
  /\ phase[s] = "driving"
  /\ phase' = [phase EXCEPT ![s] = "asking"]
  /\ Ask([sender |-> s, opcode |-> "TRAIN_MOVED", train |-> order[s].train,
          plan |-> <<>>, loop |-> FALSE])
  /\ UNCHANGED <<scheduleVars, worker, order>>

DriverExits(s) ==
  /\ phase[s] = "ending"
  /\ phase' = [phase EXCEPT ![s] = "free"]
  /\ UNCHANGED <<scheduleVars, mailbox, worker, order>>
-----------------------------------------------------------------------------
(***************************************************************************)
(* The server.                                                             *)
(***************************************************************************)
\* Create, and Send of the instruction.  If the pool has no slot both fail, and
\* the server does not look.  Which slot it gets does not matter.
Created(ph, or, t, node) ==
  LET free == {s \in Slots : ph[s] = "free"}
      slot == CHOOSE s \in free : TRUE
  IN  IF free = {}
        THEN phase' = ph /\ order' = or
        ELSE /\ phase' = [ph EXCEPT ![slot] = "driving"]
             /\ order' = [or EXCEPT ![slot] = [train |-> t, node |-> node]]

\* Schedule t as given, with curr_dest at c.
Scheduled(t, ds, l, c) ==
  /\ dest' = [dest EXCEPT ![t] = ds]
  /\ loop' = [loop EXCEPT ![t] = l]
  /\ curr_dest' = [curr_dest EXCEPT ![t] = c]

\* Mutant: a list that is driven in a circle is cleared like any other.
CreateDriverOnce(t, ds, l, c, ph, or) ==
  /\ ds # <<>>
  /\ Created(ph, or, t, ds[c + 1])
  /\ IF c + 1 = Len(ds) THEN Scheduled(t, <<>>, l, 0)
                        ELSE Scheduled(t, ds, l, c + 1)
  /\ status' = [status EXCEPT ![t] = 1]

CreateDriver(t, ds, l, c, ph, or) ==
  /\ ds # <<>>
  /\ Created(ph, or, t, ds[c + 1])
  /\ IF c + 1 = Len(ds) THEN Scheduled(t, IF l THEN ds ELSE <<>>, l, 0)
                        ELSE Scheduled(t, ds, l, c + 1)
  /\ status' = [status EXCEPT ![t] = 1]

Received(opcode) ==
  /\ mailbox # <<>>
  /\ Head(mailbox).opcode = opcode
  /\ mailbox' = Tail(mailbox)

\* Mutant: a driver is created for every order.
MoveTrainAtOnce ==
  /\ Received("MOVE_TRAIN")
  /\ worker' = "running"
  /\ LET m == Head(mailbox)
     IN  \/ CreateDriver(m.train, m.plan, m.loop, 0, phase, order)
         \/ /\ m.plan = <<>>
            /\ Scheduled(m.train, m.plan, m.loop, 0)
            /\ UNCHANGED <<status, phase, order>>
MoveTrain ==
  /\ Received("MOVE_TRAIN")
  /\ worker' = "running"
  /\ LET m == Head(mailbox)
     IN  \/ /\ status[m.train] = 0
            /\ CreateDriver(m.train, m.plan, m.loop, 0, phase, order)
         \/ /\ status[m.train] = 0 /\ m.plan = <<>>
            /\ Scheduled(m.train, m.plan, m.loop, 0)
            /\ UNCHANGED <<status, phase, order>>
         \/ /\ status[m.train] # 0
            /\ Scheduled(m.train, m.plan, m.loop, 0)
            /\ status' = [status EXCEPT ![m.train] = 2]
            /\ UNCHANGED <<phase, order>>

\* Mutant: the schedule is not looked at.
TrainMovedOnce ==
  /\ Received("TRAIN_MOVED")
  /\ phase' = [phase EXCEPT ![Head(mailbox).sender] = "ending"]
  /\ order' = [order EXCEPT ![Head(mailbox).sender] = NoOrder]
  /\ status' = [status EXCEPT ![Head(mailbox).train] = 0]
  /\ UNCHANGED <<dest, curr_dest, loop, worker>>
TrainMoved ==
  /\ Received("TRAIN_MOVED")
  /\ LET t  == Head(mailbox).train
         ph == [phase EXCEPT ![Head(mailbox).sender] = "ending"]
         or == [order EXCEPT ![Head(mailbox).sender] = NoOrder]
     IN  \/ CreateDriver(t, dest[t], loop[t], curr_dest[t], ph, or)
         \/ /\ dest[t] = <<>>
            /\ status' = [status EXCEPT ![t] = 0]
            /\ phase' = ph /\ order' = or
            /\ UNCHANGED <<dest, curr_dest, loop>>
  /\ UNCHANGED worker

Server == MoveTrain \/ TrainMoved

Next ==
  \/ MoveTrainAsked
  \/ \E s \in Slots : DriverCompleted(s) \/ DriverExits(s)
  \/ Server

Spec == Init /\ [][Next]_vars

\* The kernel runs the server and the drivers, and every route ends.
FairSpec ==
  /\ Spec
  /\ WF_vars(Server)
  /\ \A s \in Slots : WF_vars(DriverCompleted(s)) /\ WF_vars(DriverExits(s))
-----------------------------------------------------------------------------
\* Every variable has its type, and curr_dest is an index of the list.
TypeOK ==
  /\ dest \in [Trains -> Seq(Dests)]
  /\ curr_dest \in [Trains -> Nat]
  /\ \A t \in Trains : (dest[t] = <<>> /\ curr_dest[t] = 0) \/ curr_dest[t] < Len(dest[t])
  /\ loop \in [Trains -> BOOLEAN]
  /\ status \in [Trains -> 0 .. 2]
  /\ mailbox \in Seq(Requests)
  /\ worker \in {"running", "blocked"}
  /\ phase \in [Slots -> Phases]
  /\ order \in [Slots -> [train : Trains, node : Dests] \cup {NoOrder}]

\* The drivers of t whose report the server has not taken.
Drivers(t) == {s \in Slots : order[s].train = t}

\* A train never has two drivers, and status 0 means none: two would command the
\* train and give back each other's track.
OneDriver ==
  \A t \in Trains :
    /\ \A s, r \in Drivers(t) : s = r
    /\ status[t] = 0 => Drivers(t) = {}

\* A schedule that is not empty is never left to a train without a status, whose
\* driver's report would be the only thing that starts the next one.
ScheduleHasStatus == \A t \in Trains : dest[t] # <<>> => status[t] # 0

Rest(t) ==
  SubSeq(dest[t], curr_dest[t] + 1, Len(dest[t])) \o
  (IF loop[t] THEN SubSeq(dest[t], 1, curr_dest[t]) ELSE <<>>)

Trip(t) ==
  IF Drivers(t) # {} THEN order[CHOOSE s \in Slots : s \in Drivers(t)].node
  ELSE IF status[t] = 0 THEN "home" ELSE "stranded"

Trips == INSTANCE Itinerary
  WITH rest <- [t \in Trains |-> Rest(t)], again <- loop, trip <- [t \in Trains |-> Trip(t)]

\* Orders and reports, in whatever order they come, drive every train through
\* the destinations of its last order as module Itinerary says, and a train is
\* stranded only when its driver could not be created.
ImplementsItinerary == Trips!Spec

\* An order given to a train on its way is taken up when its driver reports.
NewOrderTakenUp ==
  \A t \in Trains : status[t] = 2 ~> (status[t] # 2 \/ Drivers(t) = {})
=============================================================================
