# RealTimeTrains in TLA+

RealTimeTrains is a micro-kernel for the ARM920T (`kernel/`) and the user
programs that run on it (`user/`, `util/`): name, clock and I/O servers, and the
programs that drive model trains on a track they reserve piece by piece. This
directory holds TLA+ models of these programs, TLC configurations that check
them on small instances, and proofs of the main results for all values of the
constants. Paths below are relative to `src/`.

To check a model: `tlc -workers 2 -config Kernel.cfg Kernel.tla`. To check
proofs: `tlapm KernelProofs.tla`. `PROJECT.json` maps every definition to the
lines it models and lists the runs, mutants, hazards and theorems.

## 1. The system

The kernel is one thread and so is every task. Tasks share no memory worth
naming (cached tids and the track array, written once, aside): they interact by
`Send`, `Receive` and `Reply`, and with devices by `AwaitEvent`. `ASSERT` is
compiled out of the build (`Makefile`, `-D_NASSERT`), so what the code asserts
is only checked here.

A lower number is a more urgent priority; equal ones take turns.

| part | code | state | operations | talks to |
|---|---|---|---|---|
| kernel | `kernel/kern.c`, `task.c`, `k_syscall.c`, `util/pqueue.c` | task pool, 32 ready queues and a bitmap, free list, send queues, event table | Create, Tid, Pid, Pass, Exit, Halt, Send, Receive, Reply, AwaitEvent, six interrupts, dispatch | all tasks, the devices |
| name server (2) | `user/nameserver.c` | dictionary of 100 names | RegisterAs, WhoIs | every task at its start |
| clock server (1), notifier (0) | `user/clockserver.c` | ticks, wait queue of 40 cells with the head of the earliest | Time, Delay, DelayUntil, tick | notifier, any task |
| train output server (2), two notifiers (1) | `user/train_io_server.c` | ring of 100 bytes, CTS flag, waiting notifier | Putc, PutStr, transmit and modem interrupts | UART 1, tasks that command trains |
| train input server (2), notifier (1) | `user/train_io_server.c` | ring of 32 bytes, queue of 10 readers | Getc, receive interrupt | UART 1, sensor task |
| terminal servers (2), notifiers (1) | `user/terminal_io_server.c` | as above for UART 2, with lines | Putc, PutStr, Getc, GetLine | UART 2, terminal tasks |
| reservation server (10), courier (14) | `user/train_route_reservation_server.c`, `courier_warehouse_task.c` | owner of each node, print buffer of 40 | reserve, release, release all, print | drivers, view server |
| route scheduler (10) | `user/train_route_scheduler_server.c` | per train: destinations, position in them, loop, status | MOVE_TRAIN, TRAIN_MOVED | command worker, drivers |
| route driver (10) | `user/train_route_worker.c` | its route, the nodes it reserved | path, lookahead, lookbehind, stop, report | scheduler, reservation, location, clock |
| path finding | `util/dijkstra.c` | indexed heap, distances | search | called by the driver |
| track data | `util/track_data.c` | 144 nodes and their edges, of track A or B | written once at the start | location server, drivers |
| location server (9), secretary (10), ticker (7), sensor task (8), couriers | `user/train_location_server_task.c`, `train.c` | per train: position, speed, stop; per sensor module: waiter | sensor, speed, reverse, switch, tick, where is, wait | almost everyone above the I/O servers |
| command server (16), worker (29), reverse task | `user/train_logic_task.c` | buffer of 20 commands, speeds | commands of the operator | location server, scheduler, train output |
| view server (11), worker, input listener (17) | `user/terminal_mvc_server.c` | draw buffer of 20 | draw, parse a command | terminal servers, command server |

### What is hard, and what correctness means

* **Kernel.** Any task can make any call in any order, and interrupts come in
  between. A task must be in exactly one place: running, in one ready queue, in
  one send queue, blocked, registered for one event, or free. The most urgent
  task runs; equals take turns; no wake-up is lost.
* **Clock.** `head` alone decides that nobody is due. It is kept by two pieces
  of code and may be left on an empty cell. Unsigned times wrap. A sleeper must
  be woken by the first tick that reaches its time, exactly once.
* **Train output.** Four independent reports (falling edge, rising edge,
  transmitter empty, request to write) decide when the next byte may leave. A
  byte sent too early is lost by the controller; a lost report stops all output.
* **Reservation.** Two entries per piece of track must change together, and
  drivers of several trains compete. No piece may have two owners.
* **Scheduler.** Orders and drivers' reports cross in a mailbox. A train must not
  get two drivers and must not be forgotten.
* **Path finding.** The heap keeps an index per node by hand, and one of its
  operations forgets to. What is extracted must still be the closest node, and
  what is answered a path of the track that avoids what is reserved.
* **Driver.** Nodes are reserved ahead and released behind while the train
  moves, with retries. It must not enter track it does not own, nor keep track
  it left, nor throw a switch under another train. It must end.
* **Location server.** Requests pass through a secretary with a bounded buffer
  that drops silently and a courier that asks for work; commands take two steps
  (model first, hardware second), of several tasks; waiters are kept by hand.
* **Tracking.** The server works out ahead which sensor a train comes to. Switches
  thrown since, several trains in one report, and trains that were lost must not
  make it believe for ever that a train is where it is not.
* **Command and view servers.** Buffers that drop, workers that ask for work.

The hazards, each with its line and the properties that would catch it, or the reason why none
does, are in `PROJECT.json`.

## 2. Modules

| module | models | role |
|---|---|---|
| `Kernel` | kernel | detailed model |
| `KernelProofs` | | lemmas on queues; proofs |
| `AlarmClock` | what the clock server promises | abstract |
| `ClockServer`, `ClockProofs` | clock server, notifier, clients | detailed; proofs |
| `TrainLine` | the byte stream the output server promises | abstract |
| `TrainOutput`, `MCTrainOutput`, `TrainOutputProofs` | output server, its notifiers, writers, UART 1, controller | detailed; instance; proofs |
| `TrackOwnership` | what the reservation server promises | abstract |
| `Reservation`, `MCReservation`, `ReservationProofs` | reservation server, courier, trains | detailed; instance; proofs |
| `Itinerary` | what the scheduler promises | abstract |
| `RouteScheduler`, `MCRouteScheduler`, `RouteSchedulerProofs` | scheduler, command worker, drivers as tasks | detailed; instance; proofs |
| `TrackA`, `TrackB` | the two tracks, node by node | data |
| `PathFinding`, `MCPathFinding`, `PathFindingProofs` | heap and search of `dijkstra.c` | detailed; instances on both tracks; proofs |
| `RouteDriver`, `MCRouteDriver`, `RouteDriverProofs` | drivers, with the trains, the markers and timed stops of the location server, and ownership of track | composition; instance; proofs |
| `LocationBoard` | what tasks rely on when they talk to the location server | abstract |
| `LocationServer`, `MCLocationServer`, `LocationProofs` | secretary, courier, server, waiters, two-step commands | detailed; instance; proofs |
| `TrainTracking`, `MCTrainTracking` | train models of the location server and the trains themselves | detailed; instance; proofs in `LocationProofs` |

How they compose: `RouteDriver` uses the reservation server as `TrackOwnership`,
which `Reservation` implements and whose steps the requests of the drivers are
(`DriversFollowOwnership`), path finding as a path of the track or none, which
`PathIsReal` says of `PathFinding`, and the location server as a board that is
up to date, which `LocationServer` implements (`LocationBoard`). `RouteScheduler` has the
driver as a task that ends, which is `DriverEnds`.

### How the models correspond to the code

**One action, one handler.** A server is a loop of `Receive`, a `switch`, and
what follows it. Each `case` with what follows is one action (`Reserve` with the
flush of the print buffer, `Put` with the release of a byte). Between its
`Receive` and its next one, nothing another task does can change what a server
reads, because it owns its state; so one action is enough. Where a handler calls
another server (`debugf` uses the clock and the terminal) the call changes
nothing in the model and is left out.

**Messages.** `mailbox` is the server's send queue plus the message of a task
that is being received: first in, first out, which `Kernel` justifies
(`SenderQueues`: a blocked sender is queued once, at the task it sends to). A
client in `Send` is `"blocked"` until the server's `Reply`. A notifier's request
and the reply to it are modelled the same way.

**Kernel.** `Dispatch` is `scheduler_next`; the system calls and `Irq` are the
cases of `handle_swi` and `handle_irq`, including the push of the active task at
the back of its queue. Arguments are arbitrary: any tid, including those of
slots that were reused, freed or never used. A tid is an index and a generation
that wraps. The state of a slot survives `Exit` as it does in the code (the
slot stays ACTIVE, with its send queue and its tid). Messages and return values
are left out; no scheduling decision reads them. The `default` case of `handle_swi`
(`kernel/k_syscall.c:135`), after which the caller is in no queue, is left out: a trap with
an unknown number is none that `util/syscall.c` makes.

**ClockServer.** `UpdateTime` contains `reply_expired_tasks` as a whole: the test
of `head`, the pass over the cells, the replies and the next head, ties and
emptied cells included. Times are words of `WORD` values; `WORD - 1` marks an
empty cell, as `0xFFFFFFFF` does.

**Reservation.** `reserved` is the table. Nodes without a reverse (the dead ends
of the array) have `NoNode`. `ReleaseAll` takes the arc a train stands on, or
none, and writes both ends whoever owns them. An id outside the track leaves the
handler before any `Reply` (`ReserveInvalid`), as the `break` at line 70 does.

**TrainOutput.** The devices are external and modelled from what the code
assumes of them: the controller drops CTS when it has a byte and raises it when
it is ready; UART 1 interrupts on either edge, and when its transmitter is
empty while that interrupt is on. `ModemIrq` clears the interrupt and then reads
the line, and the line may rise in between. A pending interrupt is taken before
any task goes on (`TasksRun`); without that the first property below fails, so
it is a real dependency of the code on the processor.

**RouteScheduler.** A driver is a slot of the task pool with the instruction it
got. `CreateDriver` includes `Create`, which fails when the pool has no slot,
the `Send` of the instruction, the step of `curr_dest` and the status, in all
cases set to 1. What a driver does between its instruction and its report is
in `RouteDriver`.

**TrackA, TrackB.** One row per node with the destinations and lengths of its edges,
in the order of the array; `TrackB` is `TrackA` with the rows that differ. Ids, types,
reverses and switch numbers follow from the position, as in the array. Every row, type,
reverse and number was compared with the assignments of `init_tracka` and `init_trackb`.

**PathFinding.** One step per swap of the heap, per extraction, per edge considered
and per node of the answer. `place` is `heap.nodes`, `index` the field `index` of the
nodes, which `ExtractMin` leaves alone for the moved node, as the code does. A write
through `nodes[-1]` is the label `"wild"`. The bitmap of reserved nodes and the word of
switches are sets.

**RouteDriver.** The steps of a driver are the calls after which others may act:
a request, a Delay. A node of `lookahead_node` takes two: its reservation (`Reserve`, or
`Refused`), and then its action (`Act`) with the sends of `track_set_switch`, or of the two of
`set_merge_reversible`. In between another train may start over and take the node by force;
`robbed` collects the trains to which that happened in just this gap. That the sends of one
action are one step hides nothing that is checked here: the piece may be taken between them
as it may before them (`robbed`), and how the location server and the hardware follow one
another is in `LocationServer`. `position` is the copy that the last
`where_is` filled, so every later decision of the driver is made on a stale position.
Distances are whole units; a train at speed 8 needs `STOP_DIST` units to stop. A train
goes at most a unit between two polls of a driver that polls (every 5 ticks), also while
its driver looks ahead. A driver that waits 25 ticks for a refused piece has told its train to
stop, which rolls out meanwhile, all of it (`moved` and `Polling`). `disturbed` collects the trains that lost a piece to
one that started over (`release_all_track` takes the ends of an arc from anyone), or
whose switch another driver threw: nothing is promised of them until they start over.

**LocationServer.** A request is recorded until it was followed up: the second half of
a two-step command is an action of its own (`Command`). The secretary's loop body is
`Receive`, with the pop for a courier that is ready. The board is one value per device
(the speed of a train, the direction of a switch); what the server does with its train
models is in `TrainTracking`. `Accepted` are the ranges that the server checks
(`user/train_location_server_task.c:132` and 183) and nobody else: a speed out of range, of a
train or a switch it does not know too, is ignored by the server (`Set`) and still told to the
device (`Command`). Only what the server has a model of is asked for. `forgotten` and `muddled` name the victims of behaviour
the code has: dropped requests, a waiter who was overwritten, two commands at once, a report that was
ignored.

**TrainTracking.** Belief (`model`) and truth (`place`, `pressed`) side by side. A tick moves
the belief of every train that is not at speed 0 by a unit; the trains move at their own
pace, so they may be ahead or behind, and slow ones are lost (`left` below
`- TOLERANCE`). `Report` is the loop over the active trains in their order, sensor by
sensor consumed, then the lost train. Commands are one step here (the two steps are in
`LocationServer`).

## 3. What the runs check

| run | question | bounds | states |
|---|---|---|---|
| `kernel` | are the kernel's structures consistent, is nobody lost, does the most urgent task run | 3 slots, 2 priorities, 2 generations, a transmit interrupt and the statistics event | 553,430 |
| `kernel_ended` | does a Send to a task that ended fail, as `k_send` says | 2 slots | violated |
| `kernel_modem` | is the modem interrupt off once handled, as `handle_irq` says | 2 slots, that event | violated |
| `clock` | is every sleeper woken by its tick, once, with wraps and too few cells | 3 clients, 2 cells, 3-bit words, 3 ticks, delays 0, 1, 2, 7 | 360,822 |
| `train_output` | is a byte ever sent too early, lost or out of order; does output stop | 2 writers, commands of 1 and 2 bytes, buffer of 3 | 73,367 |
| `reservation` | can two trains own one piece; are answers and prints held back | 2 trains, 3 pieces, one without a reverse, print buffer of 2 | 286,192 |
| `route_scheduler` | can a train get two drivers or be forgotten | 2 trains, orders of 2 or no destinations, 3 slots | 242,784 |
| `path_finding` | are the heap's indices honest, is the closest node next, is the answer a free path, does the search end | track B whole, 4 trains, 6 goals, 2 sets of reserved track, 2 settings of the switches | 36,072 |
| `path_unreachable` | is a goal unreachable when the search stops without it, as `dijkstra.c:109` says | track A whole, from E6 to A1 | violated |
| `route_driver` | is what a driver believes reserved its own, does a train stay on its track, is a switch thrown its own, do drivers end | 2 trains, a line with a passing loop (16 nodes), 2 goals each, any way | 508,814 |
| `location` | does the model follow the device, is a client ever forgotten, is the server a board, also with reports out of range | driver, calibration and sensor task, 1 train, 3 speeds, one out of range, 2 sensors that differ in nothing (symmetry), buffer of 2 | 2,282,154 |
| `tracking` | does a sensor move its own train and no other, is a lost train found again | 2 trains, a ring with a siding, 2 reversals or thrown switches, tolerance 0 | 466,404 |

**Why the bounds are enough.**

* `kernel`: three tasks are the least in which one sends while a second is
  queued at the same receiver and a third preempts them; two generations make a
  tid become stale and wrap back; the ready queues hold all three tasks, so they
  are filled to capacity. The statistics event has no interrupt to switch, the
  transmit event has.
* `clock`: with three clients and two cells the queue is full and one client is
  stuck; delays 0 and 7 give a time already past and the mark of an empty cell
  (7 is 8 - 1), 7 also wraps; three ticks let a cell be filled, emptied and
  filled again under a stale head.
* `train_output`: three bytes of buffer and commands of two bytes give every
  length of a cut; two writers make a request wait behind another while the
  line is up, down or between.
* `reservation`: the two trains contest all pieces; arcs start and end on
  different pieces, so starting over takes a piece from the other train; the
  buffer of two overflows.
* `route_scheduler`: both trains can have a driver while an answered one still
  holds the third slot, so `Create` both succeeds and fails.
* `path_finding`: the real track, since stale indices show only in a large heap; the
  goals lie near, far, behind, and where only a long way round leads; with the
  reserved pieces some have no way.
* `route_driver`: the trains follow or meet each other; most lengths are 3 to 6 units against a
  stopping distance of 2 and a margin of 5, the least that `MarginAssumption` admits: the
  lookahead ends two to four nodes ahead and a train stops before, on and after a node. A
  train refused at M rolls past the switch W while its driver still works with the arc before
  it, so that its next route, by S, is one it is not on (`PollLost`); from E to X it is 8, so
  that the driver ahead still looks behind it when it has passed M;
  `Paths` offers every way and none, so routes that turn round, retry around the refused node
  and give up all occur; `MAX_TRIES` of 1 allows one retry. The train from M starts on an arc
  longer than `LOOKBEHIND`, so it gives that piece back behind it.
  `BeliefIsTrue` is about places that the route passes once (`PassesOnce`) and `OnOwnTrack` about
  routes that pass none twice (`NoLoop`): the line has no loop that turns a train, and the real
  tracks do (section 5).
* `location`: three tasks and two places make the buffer overflow while the courier is
  away, two tasks wait for one sensor, and command one train at once. A speed out of range can be
  in every place of the queue, before and behind those in range; a train or switch that the
  server does not know is no different, since none of its values is in range.
* `tracking`: the ring lets a train come back to its sensors without end, the siding
  leads off the track, and one module holds the sensors of both directions of the
  ring, so that one report has those of both trains. With tolerance 0 a train is lost at
  once when it is late. Two turns let a train reverse and come back, or a switch change
  before and under it.

Deadlock is checked in `train_output`, `route_scheduler`, `location` and `tracking`. It is
not in the others because those systems may stop: `main` returns when `Halt` is called,
the timer stops at `MaxTicks`, a sender of an invalid node id stays blocked, a
search and a driver end.

The type invariants and the invariants that only support others (`TypeOK`,
`NoneQueuedAtReceiver`, `Waiters`, `FreeCells`, `OneRequestEach`,
`CourierReadyIsFresh`) are parts of the inductive invariants proved in section 4.

**Fairness.** `Kernel`: weak fairness of the next-state relation only: the
processor does not stop and the timer preempts a task that computes. Nothing is
assumed of the tasks. `ClockServer`: the timer, the notifier and the server;
these are the two most urgent tasks of the system (0 and 1), which `UrgentTaskRuns`
and `StrictPriority` let run. `TrainOutput`: the devices, the interrupts, the notifiers
(1) and the server (2); writers need none. `Reservation`: the server and its
courier, with a view server that replies at once as it does in
`terminal_mvc_server.c`. `RouteScheduler`: the server and the drivers' last lines,
and that every route ends, which `DriverEnds` shows under the fairness of
`RouteDriver`. `PathFinding`: the search is a loop of one task. `RouteDriver`: each driver (a
task the kernel lets run), and each train with its ticks and timed stops together: a
train that is told to go goes. This is an assumption about the trains and not a fact:
`execute_route` has no timeout (line 186 of `user/train_route_worker.c`; hazard at line 307).
`TrainTracking`: only the ticker, which never stops; that trains pass sensors and that
these are read is a hypothesis of `FoundAgain` and not assumed of every behaviour.

**Mutants.** For every property of a passing run `PROJECT.json` names a change of
one definition, the way a plausible slip would change the code, that makes the
run fail: they show what each property is able to find. Their definitions are
next to those they change, marked "Mutant".

## 4. What is proved

Proofs hold for all values of the constants that satisfy the assumptions in the
modules (`KernelAssumption`, `ClockAssumption`, ...): a pool of any size with
queues no smaller, any number of clients, cells, trains and nodes, any strings.

* **`KernelProofs`.** `IInv` is the conjunction of `TypeOK`, `ReadyQueues`,
  `SenderQueues`, `NoneQueuedAtReceiver`, `FreeList` and `Waiters`. None of them is
  inductive alone: a push keeps the ready queues free of duplicates only because
  the pushed task is known to be in no queue, which the other conjuncts say of
  blocked, registered and free tasks. Theorems: `ReadyQueuesCorrect`,
  `SenderQueuesCorrect`, `FreeListCorrect`, `StrictPriorityHolds`, `NoTaskIsLost`
  (with one notifier per event), `TransmitIrqsAwaited`. It starts with lemmas on what
  appending and taking do to the members of a queue without duplicates.
* **`ClockProofs`.** `IInv` joins `HeadIsEarliest`, `FreeCells`, `OneRequestEach` and the
  bound of the ticks. The bound is needed because no tick may reach the mark of an
  empty cell: the model stops before the word wraps (at 10 ms a tick, after 497
  days). `AlarmClockImplemented` is the refinement, step by step; counting the
  sleepers against the cells takes most of it.
* **`TrainOutputProofs`.** The permission to send is a token: `cts_on`, the byte the
  notifier writes, the transmitter, the controller, the pending rising edge, the
  woken notifier and its request hold it in turn, and `OneToken` says that no two
  hold it. A dropped modem interrupt loses it, nothing doubles it. From this follow
  `ControllerNeverOverrun`, `NotifierWaits` and `TrainLineImplemented` (one byte
  at most is on its way, so the stream is that byte followed by the buffer).
* **`ReservationProofs`.** `IInv` joins `ReverseTogether`, `CourierReadyIsFresh` and that
  the courier has one request in the mailbox at most, and only while it is blocked
  and `courier_ready` is not set. Theorems: `ReservationSafe`, `OnlyOwnersGiveUp`,
  `OwnershipImplemented`: each request that writes the table is one step of `TrackOwnership`,
  a grant, a piece given back by its owner, or a train that starts over. The track is any involution without fixed points on part
  of the nodes; both tracks of `util/track_data.c` are.
* **`RouteSchedulerProofs`.** `IInv` joins `OneDriver`, `ScheduleHasStatus` and `Reports`:
  each report in the mailbox is that of a driver blocked in `Send`, for the train it
  drives, and its only one. So when the server takes a report no other slot has an
  instruction for that train, and it may create a driver or reset the status.
  Theorems: `OneDriverHolds`, `ScheduleKeepsStatus`, `RouteSchedulerTyped`, and
  `ItineraryImplemented`: the rest of a schedule, from `curr_dest` on, loses its first
  destination when a driver is sent there, or moves it to the end when the train loops.
  Assumed: "home" and "stranded" are no destinations.
* **`PathFindingProofs`.** Two invariants. `IInv` joins the types, `IndexHonest`, what holds of a
  node's labels at any time (`prev` is a node with an edge to it, which is not reserved), what
  an end of the arc has instead, and that the path collected so far is one. `Sorted` joins
  `Placed` (no node is in two places of the heap, none that was extracted in one),
  `Heaped` (a parent is no farther than its children, but where a node bubbles, and there
  the parent is no farther than the children of that place), `Rounds` (what was extracted is no
  farther than `np`, what is left no closer) and `Descends` (`prev` leads to nodes that
  were extracted and are closer). That the root of such a heap is its least element is
  an induction over the tree; it is done by taking the first place, in the order of
  the array, that is closer than the root: its parent comes before it and is no farther. A
  stale index leaves all this intact: where the wish to lower a distance is dropped, the
  node keeps its old one, which is larger.
  Theorems, for every track whose edges lead to nodes and have a length, and every question:
  `SearchInvariant`, `SearchSorted`, `HeapIndexHonest`, `NeverOutsideHeap`, `ExtractsClosest`,
  and `PathFoundIsReal`, in which `Descends` gives that no node comes twice, so that a path
  fits the array of `TRACK_MAX` nodes. That the path is a shortest one is false (finding 3).
* **`RouteDriverProofs`.** `IInv` is one conjunct per train, so that a step of one driver
  leaves those of the others to the owners of track: `Located` (a train is on an arc), `Routed`
  (the marks of the route: what is reserved had its action carried out, nothing is before the
  lookahead begins, only the last node is a destination), `Quiet` (the train stands
  between two routes, and after the last one the driver knows where), and for a train
  that is not disturbed `Believes` and `KeepsArc`, which are `BeliefIsTrue` and `DoneKeepsArc`.
  `Routed` is needed because the looking behind clears marks by index and frees pieces by
  place; `Quiet` because a train that rolled on after `release_all_track` would keep the wrong
  arc. Theorems: `DriversInvariant`, `DriversOwnWhatTheyMark`, `DriversKeepTheirArc`,
  `SwitchesThrownByOwner` and `DriversFollowOwnership`, the refinement of `TrackOwnership`.
  `SwitchesThrownByOwner` needs an invariant of its own (`HeldInv`) over the gap between a
  reservation and the action: `Holds` says that the driver still owns the node then, unless it
  was robbed. `Reserve` makes it so (a node skipped as marked had its action carried out), and
  `TakenIsRobbed` shows that no step of another driver takes a piece from it without robbing it.

  `DriversStayOnTheirTrack` proves `OnOwnTrack` from a second invariant, `WayInv`. Some
  distances d (`Miles`) say how far each node of the route lies from the first; they exist for
  every route, and no node lies before an earlier one. A train that `Follows` its route
  is on the arc of a node j, and has a frontier h beyond j: every piece from j to h is its
  own and every switch between is thrown as the route leads (`Reach`), so that the train
  goes from arc to arc of the route. What keeps it before h is `Margin`: told to stop, it
  would come to rest at `Rest`, which is d[j] and what it has travelled and will roll on. A unit
  that it moves adds two to `Rest` at most, one of them because it may still get faster.
  `lookahead_node` moves the frontier to a node that lies more than `MARGIN` beyond where
  the driver has `Seen` the train, and by the next time it does so the driver has polled once
  more and the train has moved two units at most, or has been told to stop. So `Margin` says for each step of `execute_route` how much
  of `MARGIN` is left, before the train has moved and after. `Looks` ties the countdown in
  `lookahead` to these distances, and `Marked` says that a node that is skipped because it is marked
  really is reserved and thrown; it needs that `lookbehind_node` frees only what lies
  behind, and that no piece comes twice. `Sound` carries where the train starts and that its
  route is laid out from there, which `PathIsLaidOut` shows of `path_to_route`. A train whose route
  is reserved to its end only `Stays` the owner of what lies ahead of where it was last seen.

  Assumed of the track (`RouteDriverAssumption`): the reverse of a reverse is the node, and not
  the node itself, every arc has a reverse of the same length, every node but an exit has an
  edge, branches have two and no others have. TLC found all of this of both tracks of
  `util/track_data.c`. Of what path finding answers
  (`PathAssumption`): it starts at an end of the arc and leads from node to node over arcs, as
  `PathFoundIsReal` says. Of the margin (`MarginAssumption`): it is 5 units at least, a unit being
  what a train goes between two polls. Nothing is assumed of goals, of the number of
  trains, of how long a path is, of the stopping distance or `LOOKBEHIND`, and of lengths
  only that they are not 0.
* **`LocationProofs`.** The argument is about one queue: the load of the courier and then
  the buffer, all that the server has yet to see. The secretary appends to it or passes
  its head on, and the server takes its head, so what the server will know after a given
  request (`Then`) is settled when the secretary takes it in. `IInv` joins the types,
  `Carried` (one request or none is with the courier), `OnePlace` and `Stuck` (where each
  blocked client is; a forgotten one stays blocked), `OneCommander` and `Follows` (a device
  that is not muddled is commanded by one task, whose value is that of the last report on it
  that the server accepts),
  `WaitNumHonest`, and `HasLast`: that the reports on a device in a part of the queue have
  a last one. That is an induction over data in disguise; carried along in the invariant,
  it is kept by an append and by a removal of the head. Reports that the server does not accept
  count for nothing in `Then`, and `Deliver` leaves it as it is with them too. Theorems: `ModelFollows`,
  `NoClientForgotten`, `WaitNumCounts`, and `BoardImplemented`, the refinement of
  `LocationBoard`, on which nothing is written but what is accepted. Assumed: finitely many sensors, and that the words for nobody and
  nothing are no client and no value.
  The module ends with `TrainTracking`, as an instance. Its invariant `Tracked` is that the
  active trains are in an order without repetition and that every train that is known,
  moves or has just passed a sensor is among them, which is why the loop over them
  reaches everyone whom a report concerns, once. Theorems: `SensorsTakenOnce` and
  `ReportsMoveTheirOwn`, on every track that satisfies `TrackIsWhole` (the assumption of
  `TrainTracking`).

The invariants were model-checked on the instances of section 3 first.

Only model-checked:

* The liveness properties (`UrgentTaskRuns`, `SleeperWakes`, `OutputGoesOn`,
  `RequestAnswered`, `PrintsDelivered`, `NewOrderTakenUp`, `SearchEnds`, `DriverEnds`,
  `FoundAgain`), which are out of the reach of TLAPS. Every other property of a passing run is
  proved.
* The violations, which are single behaviours.

## 5. Findings

1. **A task that ended is never ZOMBIE.** `k_send` answers -2 for a receiver that
   is ZOMBIE with the comment "task ended" (`kernel/k_syscall.c:257`), but
   `k_exit` leaves the slot ACTIVE with its tid (line 212). A `Send` to an ended
   task blocks until a new task in the slot receives it, or for ever.
   Run `kernel_ended`.
2. **The modem interrupt is not disabled.** The handler says "disable the
   interrupt" and writes to UART 2 (`kernel/k_syscall.c:78`) where `AwaitEvent` used
   UART 1 (line 335). An edge that comes before the notifier's next `AwaitEvent` is
   dropped. Run `kernel_modem`. `TrainOutput` shows the consequence: output stops
   only if that happens with the line up (`OutputGoesOn`).
3. **A goal that can be reached is not found.** `dijkstra_find` stops at a node whose
   distance was never set and says "if not reachable" (`util/dijkstra.c:109`). But
   `min_heap_extract_min` moves the last node to the root without its index (line 69);
   if the node stays there its index points past the heap, and the next
   `min_heap_decrease_key` for it is dropped (line 55). On track A, from E6 to A1 with
   the switches straight, BR12 is dropped this way and the driver gets no path.
   Run `path_unreachable`. On track B, which the location server uses, none of the
   questions of `path_finding` shows it. The same staleness does no worse:
   `IndexHonest`, `NeverWild` and `ClosestFirst` hold, on every track.

Behaviour that is kept in the models and is no disagreement with the code's own
words: a failed `Create` leaves a train with the status of one that has a driver
(`user/train_route_scheduler_server.c:114`), and every later order waits;
a request that finds the secretary's buffer full is dropped, and its sender, if it
waits for an answer, is never answered; a known train that stands still takes the sensor
it waits for when another train passes it (`user/train_location_server_task.c:214` does not
look at its speed), which is why `FoundAgain` and `OwnSensors` speak of trains for which this
cannot happen; after a reversal the first arc a driver starts over on need not be
the one its train stands on, which is why `OnOwnTrack` is about the first route, and
`route_get_first_arc` answers the straight arc of a branch whatever the train stands on
(`StartsOnItsArc`); once a route is reserved to its end its driver no longer follows the train,
and a timed stop that is set while the train still gets faster lets it roll past its
goal, which is why `OnOwnTrack` then speaks of what lies ahead on the route only;
`set_merge_reversible` throws a switch behind the destination that is not reserved
(`SwitchesOwned` admits it); a train that starts over between the reservation of a node by
another driver and its action (`user/train_route_worker.c:307` and 330) takes the node, and
that driver throws its switch all the same (`SwitchesOwned` leaves out the trains that were
robbed there); a speed or a switch out of range is ignored by the location server and told to
the hardware, so that model and device differ until the next command in range
(`user/train.c:461`; `muddled`); a Delay with all 40 cells taken is never answered (`NoRoom` in `AlarmClock`);
a string that does not fit the output buffer is cut at its end, also in the middle
of a two-byte command (`Accept` in `TrainLine`); a reservation with an invalid node
is not answered; starting over takes the ends of an arc from their owners; on a route
that turns the train in a loop and so passes a piece of track twice, looking behind gives the
piece back after the first time, although its second node is still marked as reserved
(`user/train_route_worker.c:378`; `PassesOnce` and `NoLoop` leave such places out).

## 6. What could come next

1. `OnOwnTrack` on a later route, for a train that starts over on the arc it stands on, and
   how far a train can roll past its goal.
2. The train input server: its byte ring and queue of readers, with one reader.

## 7. Not modelled

* Context switch and cache assembly: their effect, one task between two traps, is
  the shape of `Kernel`.
* `user/user_task.c`: creates the tasks once, in a fixed order. The models start when
  their tasks have reached their loops.
* Velocities, accelerations and the calibration of velocities and edge weights
  (`user/train.c`, `calibration.c`): floating point from measurement. `RouteDriver` and
  `TrainTracking` have whole units instead, and trains that are ahead of or behind what
  is believed.
* The train input server and both terminal servers: the first has one reader, the sensor
  task, which asks again only when it was answered; the others carry the display.
* The command server's buffer and worker, and the reverse task: their commands are the
  set requests of `LocationServer`, in any order, and the orders of `RouteScheduler`.
* The name server: it answers from a table that is complete before the models begin.
* The view server: a buffer that drops and a worker; only the display depends on it.
* `where_is` for a train that was lost or left the track answers the last position, with
  a null `next_sensor` in the second case: `TrainTracking` forgets that position, since no
  handler of the server reads it.
* `util/bwio.c`, `util/io.c`, `terminal_gui.c` (formatting and drawing), `user/legacy/`
  (earlier assignments, not built).
* Out of bounds accesses (a node id equal to `TRACK_MAX`, a train id outside 58 to
  72) are undefined behaviour and outside the inputs of the models; they are listed
  as hazards.
