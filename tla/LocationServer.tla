---------------------------- MODULE LocationServer ----------------------------
(***************************************************************************)
(* How requests reach the location server of                               *)
(* user/train_location_server_task.c: the secretary receives them, answers *)
(* those that only report at once, and hands them on in a queue through a  *)
(* courier (user/courier_warehouse_task.c).  The server answers the others *)
(* itself.                                                                 *)
(*                                                                         *)
(* The board is kept to one value for every device: the speed of a train,  *)
(* the direction of a switch.  Nobody checks a value before it is reported, *)
(* and the device is told it all the same: the server alone ignores what is *)
(* out of range.  stop_train_at is not among the requests: it is a report  *)
(* that no command to a device follows.  What the server does              *)
(* with its train models is in module TrainTracking.  The messages to the  *)
(* view server are left out.                                               *)
(***************************************************************************)
EXTENDS Integers, Sequences, FiniteSets

CONSTANTS
  Clients,    \* the tasks that use the server
  Uses,       \* client -> what it asks: "set", "get", "wait", "hit"
  Devices,
  Values,
  Accepted,   \* device -> the values that the server takes for it; none for a
              \* device that it has no model of
  Initial,    \* the value of every device at first
  Sensors,
  Module,     \* sensor -> its sensor module
  BUFFER      \* the places of request_msg_buffer, 40 in the code

ASSUME LocationServerAssumption ==
  /\ Initial \in Values
  /\ Accepted \in [Devices -> SUBSET Values]
  /\ BUFFER \in Nat \ {0}
  /\ IsFiniteSet(Sensors)

Nobody == "nobody"
Nothing == "nothing"
NoRequest == [op |-> "none"]
Modules == {Module[s] : s \in Sensors}

ASSUME LocationServerNames == Nobody \notin Clients /\ Nothing \notin Values

VARIABLES
  client,         \* client -> "running", "sending" to the secretary, "commanding"
                  \* the device, "asking" or "waiting" for an answer of the server
  request,        \* client -> the request it is about to make, or to follow up
  buffer,         \* request_msg_buffer
  courier_ready,
  courier,        \* "asking" the secretary, "blocked" there, or "carrying"
  load,           \* the request that the courier carries, if any
  model,          \* device -> what the server knows of it
  hardware,       \* device -> what it was told last
  sensor_tid,     \* sensor -> the client that waits for it
  wait_num,       \* sensor module -> how many wait
  answer,         \* client -> the answer it has in hand
  forgotten,      \* the clients whose request was dropped, or whose place was
                  \* taken by another that waits for the same sensor
  muddled         \* the devices that two tasks commanded at once, or whose last
                  \* report was dropped, or is of no value that the server takes

front == <<buffer, courier_ready, courier, load>>
board == <<model, sensor_tid, wait_num, answer>>
vars == <<client, request, front, board, hardware, forgotten, muddled>>

Init ==
  /\ client = [c \in Clients |-> "running"]
  /\ request = [c \in Clients |-> NoRequest]
  /\ buffer = <<>>
  /\ courier_ready = FALSE
  /\ courier = "asking"
  /\ load = <<>>
  /\ model = [d \in Devices |-> Initial]
  /\ hardware = [d \in Devices |-> Initial]
  /\ sensor_tid = [s \in Sensors |-> Nobody]
  /\ wait_num = [m \in Modules |-> 0]
  /\ answer = [c \in Clients |-> Nothing]
  /\ forgotten = {}
  /\ muddled = {}
-----------------------------------------------------------------------------
(***************************************************************************)
(* The tasks: train_set_speed, train_reverse, track_set_switch, where_is,  *)
(* location_query, wait_sensor, train_sensor_task.  Only what the server   *)
(* has a model of is asked for; anything at all is set.                    *)
(***************************************************************************)
Known == {d \in Devices : Accepted[d] # {}}

Requests(c) ==
  {r \in [op : {"set"}, from : {c}, device : Devices, value : Values]
           \cup [op : {"get"}, from : {c}, device : Known]
           \cup [op : {"wait"}, from : {c}, sensor : Sensors]
           \cup [op : {"hit"}, from : {c}, module : Modules, bits : (SUBSET Sensors) \ {{}}] :
     r.op \in Uses[c]}

Ask(c, r) ==
  /\ client[c] = "running"
  /\ r.op = "hit" => \A s \in r.bits : Module[s] = r.module
  /\ client' = [client EXCEPT ![c] = "sending"]
  /\ request' = [request EXCEPT ![c] = r]
  /\ answer' = [answer EXCEPT ![c] = Nothing]
  /\ UNCHANGED <<front, model, sensor_tid, wait_num, hardware, forgotten, muddled>>

\* The second half of train_set_speed and track_set_switch.
Command(c) ==
  /\ client[c] = "commanding"
  /\ client' = [client EXCEPT ![c] = "running"]
  /\ hardware' = [hardware EXCEPT ![request[c].device] = request[c].value]
  /\ request' = [request EXCEPT ![c] = NoRequest]
  /\ UNCHANGED <<front, board, forgotten, muddled>>
-----------------------------------------------------------------------------
(***************************************************************************)
(* train_location_server_secretary_task and its courier.                   *)
(***************************************************************************)
\* Mutant: the newest request goes first.
Forward_newest(b, ready) ==
  IF ready /\ b # <<>>
  THEN /\ load' = <<b[Len(b)]>>
       /\ buffer' = SubSeq(b, 1, Len(b) - 1)
       /\ courier' = "carrying"
       /\ courier_ready' = FALSE
  ELSE /\ buffer' = b
       /\ courier_ready' = ready
       /\ courier' = IF ready THEN "blocked" ELSE courier
       /\ UNCHANGED load

\* The end of the secretary's loop: a courier that is ready takes the oldest
\* request.
Forward(b, ready) ==
  IF ready /\ b # <<>>
  THEN /\ load' = <<Head(b)>>
       /\ buffer' = Tail(b)
       /\ courier' = "carrying"
       /\ courier_ready' = FALSE
  ELSE /\ buffer' = b
       /\ courier_ready' = ready
       /\ courier' = IF ready THEN "blocked" ELSE courier
       /\ UNCHANGED load

\* Who is answered by the secretary, and who stays blocked.
After(r) ==
  CASE r.op = "set" -> "commanding"
    [] r.op = "hit" -> "running"
    [] r.op = "get" -> "asking"
    [] r.op = "wait" -> "waiting"

\* The ranges that train_location_server_task checks.
Accepts(r) == r.value \in Accepted[r.device]

Commanding(d) == {c \in Clients : client[c] = "commanding" /\ request[c].device = d}

\* rq_push_back: a request that finds the buffer full is dropped.
Receive(c) ==
  LET r == request[c]
      fits == Len(buffer) < BUFFER
  IN  /\ client[c] = "sending"
      /\ client' = [client EXCEPT ![c] = After(r)]
      /\ request' = IF After(r) = "commanding" THEN request ELSE [request EXCEPT ![c] = NoRequest]
      /\ Forward(IF fits THEN Append(buffer, r) ELSE buffer, courier_ready)
      /\ forgotten' = IF ~fits /\ r.op \in {"get", "wait"} THEN forgotten \cup {c} ELSE forgotten
      /\ muddled' = IF r.op # "set" THEN muddled
                    ELSE IF fits /\ Accepts(r) /\ Commanding(r.device) = {} THEN muddled \ {r.device}
                    ELSE muddled \cup {r.device}
      /\ UNCHANGED <<board, hardware>>

ReceiveCourier ==
  /\ courier = "asking"
  /\ Forward(buffer, TRUE)
  /\ UNCHANGED <<client, request, board, hardware, forgotten, muddled>>
-----------------------------------------------------------------------------
(***************************************************************************)
(* train_location_server_task.                                             *)
(***************************************************************************)
\* Mutant: nothing is out of range.
Set_unchecked(r) ==
  /\ model' = [model EXCEPT ![r.device] = r.value]
  /\ UNCHANGED <<client, sensor_tid, wait_num, answer, forgotten>>

Set(r) ==
  /\ model' = IF Accepts(r) THEN [model EXCEPT ![r.device] = r.value] ELSE model
  /\ UNCHANGED <<client, sensor_tid, wait_num, answer, forgotten>>

Get(r) ==
  /\ answer' = [answer EXCEPT ![r.from] = model[r.device]]
  /\ client' = [client EXCEPT ![r.from] = "running"]
  /\ UNCHANGED <<model, sensor_tid, wait_num, forgotten>>

\* Mutant: every wait is counted.
Wait_counted_twice(r) ==
  /\ wait_num' = [wait_num EXCEPT ![Module[r.sensor]] = @ + 1]
  /\ sensor_tid' = [sensor_tid EXCEPT ![r.sensor] = r.from]
  /\ forgotten' = forgotten \cup ({sensor_tid[r.sensor]} \ {Nobody})
  /\ UNCHANGED <<client, model, answer>>

\* wait_module_add: whoever waits for the sensor already is kicked out.
Wait(r) ==
  /\ wait_num' = [wait_num EXCEPT ![Module[r.sensor]] =
                    IF sensor_tid[r.sensor] = Nobody THEN @ + 1 ELSE @]
  /\ sensor_tid' = [sensor_tid EXCEPT ![r.sensor] = r.from]
  /\ forgotten' = forgotten \cup ({sensor_tid[r.sensor]} \ {Nobody})
  /\ UNCHANGED <<client, model, answer>>

\* Mutant: a task that was woken is still noted.
Hit_noted(r) ==
  LET hit == {s \in r.bits : wait_num[r.module] # 0 /\ sensor_tid[s] # Nobody}
      woken == {sensor_tid[s] : s \in hit}
  IN  /\ client' = [c \in Clients |-> IF c \in woken THEN "running" ELSE client[c]]
      /\ UNCHANGED <<model, answer, forgotten, sensor_tid, wait_num>>

\* wait_module_update
Hit(r) ==
  LET hit == {s \in r.bits : wait_num[r.module] # 0 /\ sensor_tid[s] # Nobody}
      woken == {sensor_tid[s] : s \in hit}
  IN  /\ sensor_tid' = [s \in Sensors |-> IF s \in hit THEN Nobody ELSE sensor_tid[s]]
      /\ wait_num' = [wait_num EXCEPT ![r.module] = @ - Cardinality(hit)]
      /\ client' = [c \in Clients |-> IF c \in woken THEN "running" ELSE client[c]]
      /\ UNCHANGED <<model, answer, forgotten>>

Deliver ==
  /\ courier = "carrying"
  /\ courier' = "asking"
  /\ load' = <<>>
  /\ LET r == Head(load)
     IN  \/ r.op = "set" /\ Set(r)
         \/ r.op = "get" /\ Get(r)
         \/ r.op = "wait" /\ Wait(r)
         \/ r.op = "hit" /\ Hit(r)
  /\ UNCHANGED <<request, buffer, courier_ready, hardware, muddled>>
-----------------------------------------------------------------------------
Next ==
  \/ \E c \in Clients : (\E r \in Requests(c) : Ask(c, r)) \/ Command(c) \/ Receive(c)
  \/ ReceiveCourier
  \/ Deliver

Spec == Init /\ [][Next]_vars
-----------------------------------------------------------------------------
(***************************************************************************)
(* Correctness.                                                            *)
(***************************************************************************)
\* What the server has yet to see.
Queue == load \o buffer

\* What the server will know of device d when it has seen the first n of them.
Then(d, n) ==
  LET sets == {k \in 1 .. n : Queue[k].op = "set" /\ Queue[k].device = d /\ Accepts(Queue[k])}
  IN  IF sets = {} THEN model[d] ELSE Queue[CHOOSE k \in sets : \A l \in sets : l <= k].value

\* The requests of client c that are on their way.
Sent(c) == {k \in DOMAIN Queue : Queue[k].from = c /\ Queue[k].op \in {"get", "wait"}}

\* The secretary, the courier and the server together are a board: a report
\* that the server ignores never shows on it.
Board ==
  INSTANCE LocationBoard WITH
    value <- [d \in Devices |-> Then(d, Len(Queue))],
    due <- [c \in Clients |->
              IF \E k \in Sent(c) : Queue[k].op = "get"
              THEN LET k == CHOOSE k \in Sent(c) : Queue[k].op = "get"
                   IN  Then(Queue[k].device, k)
              ELSE Nothing]

ImplementsBoard == Board!Spec

\* A device that is not commanded by two tasks at once, and whose last command is
\* within the range of the server, does in the end what the server believes: both
\* follow the last command that the secretary took in.
ModelFollowsDevice ==
  \A d \in Devices \ muddled :
    Then(d, Len(Queue)) = IF Commanding(d) = {} THEN hardware[d]
                          ELSE request[CHOOSE c \in Commanding(d) : TRUE].value

\* A blocked client is in one place where its answer can come from.
NobodyForgotten ==
  \A c \in Clients \ forgotten :
    Cardinality(Sent(c)) + Cardinality({s \in Sensors : sensor_tid[s] = c})
      = IF client[c] \in {"asking", "waiting"} THEN 1 ELSE 0

\* The count that decides alone whether a report of sensors wakes anyone.
WaitNumHonest ==
  \A m \in Modules :
    wait_num[m] = Cardinality({s \in Sensors : Module[s] = m /\ sensor_tid[s] # Nobody})
=============================================================================
