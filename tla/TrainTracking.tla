---------------------------- MODULE TrainTracking ----------------------------
(***************************************************************************)
(* The train models of the location server (user/train.c and the server of *)
(* user/train_location_server_task.c): where it believes the trains to be, *)
(* and how a report of sensors is attributed to one of them.               *)
(*                                                                         *)
(* The trains themselves are part of the model, so that belief and truth   *)
(* can be compared.  They move at their own pace; the server believes that *)
(* a train which is not at speed 0 goes one unit of distance in every      *)
(* tick.  How velocities and weights are calibrated, and the markers at    *)
(* which the server stops a train (module RouteDriver), are left out.  A   *)
(* command reaches the server and the device in one step (module           *)
(* LocationServer has the two).                                            *)
(***************************************************************************)
EXTENDS Integers, Sequences, FiniteSets, FiniteSetsExt, SequencesExt

CONSTANTS
  Trains,
  Nodes,
  reverse,     \* node -> the other direction of the same place
  type,        \* node -> its node_type
  edge,        \* node -> its edges, each with its dest and dist
  Module,      \* sensor -> its sensor module
  Start,       \* train -> the arc that it stands on at first
  TOLERANCE,   \* - TRAIN_SENSOR_HIT_TOLERANCE
  MAX_TURNS    \* how often in all a train is reversed or a switch thrown

NoNode == -1
Arcs == {a \in Nodes \X {1, 2} : a[2] \in DOMAIN edge[a[1]]}
NoArc == <<NoNode, 1>>
Dest(a) == edge[a[1]][a[2]].dest
Dist(a) == edge[a[1]][a[2]].dist
Sensors == {n \in Nodes : type[n] = "NODE_SENSOR"}
Branches == {n \in Nodes : type[n] = "NODE_BRANCH"}
Modules == {Module[s] : s \in Sensors}

\* edge->reverse
ReverseArc(a) ==
  CHOOSE b \in Arcs : b[1] = reverse[Dest(a)] /\ Dest(b) = reverse[a[1]]

TrackIsWhole ==
  /\ NoNode \notin Nodes
  /\ Nodes \subseteq Nat
  /\ reverse \in [Nodes -> Nodes]
  /\ Start \in [Trains -> Arcs]
  /\ {TOLERANCE, MAX_TURNS} \subseteq Nat
  /\ \A a \in Arcs : Dist(a) \in Nat \ {0}

ASSUME TrainTrackingAssumption == TrackIsWhole

VARIABLES
  switches,   \* branch -> 0 straight, 1 curved
  active,     \* active_train_models
  model,      \* train -> what the server keeps of it: speed, known, and if it is
              \* known its arc, travelled, next_sensor and how far that is left
  place,      \* train -> the arc that it is on
  turns,      \* how often that was so far
  pressed     \* train -> the sensor that it has passed and that is not read yet

vars == <<switches, active, model, place, pressed, turns>>

\* Once POSITION_KNOWN is off the handlers of this module look at no part of the
\* old position.
Unknown(speed) ==
  [speed |-> speed, known |-> FALSE, arc |-> NoArc, travelled |-> 0, next_sensor |-> NoNode, left |-> 0]

Init ==
  /\ switches = [b \in Branches |-> 0]
  /\ active = <<>>
  /\ model = [t \in Trains |-> Unknown(0)]
  /\ place = Start
  /\ pressed = [t \in Trains |-> NoNode]
  /\ turns = 0
-----------------------------------------------------------------------------
(***************************************************************************)
(* The track as the switches stand.                                        *)
(***************************************************************************)
\* The arc that leads on from node n.
ArcFrom(n) == <<n, IF type[n] = "NODE_BRANCH" THEN switches[n] + 1 ELSE 1>>

\* track_next_sensor_node: the sensor that follows arc a, and how far it is from
\* the beginning of the arc.
NextSensor(a) ==
  LET walk[n \in Nodes, d \in Nat] ==
        IF type[n] = "NODE_SENSOR" THEN [node |-> n, dist |-> d]
        ELSE IF type[n] = "NODE_EXIT" THEN [node |-> NoNode, dist |-> d]
        ELSE walk[Dest(ArcFrom(n)), d + Dist(ArcFrom(n))]
  IN  walk[Dest(a), Dist(a)]

\* track_next_arc: where one is d units after the beginning of arc a.
NextArc(a, d) ==
  LET walk[b \in Arcs, left \in Nat] ==
        IF left <= Dist(b) THEN [arc |-> b, travelled |-> left]
        ELSE IF type[Dest(b)] = "NODE_EXIT" THEN [arc |-> NoArc, travelled |-> left - Dist(b)]
        ELSE walk[ArcFrom(Dest(b)), left - Dist(b)]
  IN  walk[a, d]
-----------------------------------------------------------------------------
(***************************************************************************)
(* The model of one train.                                                 *)
(***************************************************************************)
\* train_model_init_location
Located(m, sensor) ==
  LET ahead == NextSensor(<<sensor, 1>>)
  IN  IF ahead.node = NoNode THEN Unknown(m.speed)
      ELSE [m EXCEPT !.known = TRUE, !.travelled = 0, !.arc = <<sensor, 1>>,
                     !.next_sensor = ahead.node, !.left = ahead.dist]

\* Mutant: a train is lost only at the end of its track; the estimate is not
\* counted any further.
Updated_to_the_end(m) ==
  LET at == NextArc(m.arc, m.travelled + 1)
  IN  IF ~m.known \/ m.speed = 0 THEN m
      ELSE IF at.arc = NoArc THEN Unknown(m.speed)
      ELSE [m EXCEPT !.travelled = at.travelled, !.left = IF @ = - TOLERANCE THEN @ ELSE @ - 1, !.arc = at.arc]

\* train_model_update_location after one tick: a train that has not reached its
\* sensor long after it should have is lost.
Updated(m) ==
  LET at == NextArc(m.arc, m.travelled + 1)
  IN  IF ~m.known \/ m.speed = 0 THEN m
      ELSE IF m.left - 1 < - TOLERANCE \/ at.arc = NoArc THEN Unknown(m.speed)
      ELSE [m EXCEPT !.travelled = at.travelled, !.left = @ - 1, !.arc = at.arc]

\* train_model_reverse_direction
TurnedRound(m) ==
  LET back == ReverseArc(m.arc)
      ahead == NextSensor(back)
      travelled == Dist(m.arc) - m.travelled
  IN  IF ~m.known THEN m
      ELSE IF ahead.node = NoNode THEN Unknown(m.speed)
      ELSE [m EXCEPT !.travelled = travelled, !.arc = back,
                     !.next_sensor = ahead.node, !.left = ahead.dist - travelled]
-----------------------------------------------------------------------------
(***************************************************************************)
(* The handlers of the server, and the commands that come with them.       *)
(***************************************************************************)
\* LOC_TRAIN_SPEED_UPDATE: the first speed makes a train active.
SetSpeed(t, speed) ==
  /\ active' = IF speed > 0 /\ ~Contains(active, t) THEN Append(active, t) ELSE active
  /\ model' = [model EXCEPT ![t].speed = speed]
  /\ UNCHANGED <<switches, place, pressed, turns>>

\* LOC_TRAIN_SPEED_REVERSE_UPDATE: those who reverse a train stop it first and
\* wait.
TrainReverse(t) ==
  /\ turns < MAX_TURNS
  /\ model[t].speed = 0
  /\ turns' = turns + 1
  /\ model' = [model EXCEPT ![t] = TurnedRound(@)]
  /\ place' = [place EXCEPT ![t] = ReverseArc(@)]
  /\ UNCHANGED <<switches, active, pressed>>

\* LOC_SWITCH_UPDATE: what the server has worked out for the trains stays.
SetSwitch(b) ==
  /\ turns < MAX_TURNS
  /\ turns' = turns + 1
  /\ switches' = [switches EXCEPT ![b] = 1 - @]
  /\ UNCHANGED <<active, model, place, pressed>>

\* LOC_TIMER_UPDATE
Tick ==
  /\ model' = [t \in Trains |-> Updated(model[t])]
  /\ UNCHANGED <<switches, active, place, pressed, turns>>

\* active_train_models is in the order in which the trains became active.
Before(u, t) == \E i, j \in DOMAIN active : i < j /\ active[i] = u /\ active[j] = t

\* The sensors of module m that the sensor task finds triggered.
Triggered(m) == {pressed[t] : t \in {u \in Trains : pressed[u] # NoNode /\ Module[pressed[u]] = m}}

Expects(t, m) == model[t].known /\ model[t].next_sensor \in Triggered(m)

\* Mutant: a sensor is there for every train that waits for it.
Takes_unconsumed(t, m) == Expects(t, m)

\* Mutant: any sensor of the module will do.
Takes_in_module(t, m) ==
  /\ model[t].known
  /\ Triggered(m) # {}
  /\ Module[model[t].next_sensor] = m

\* A known train takes the sensor that it waits for, if none before it did.
Takes(t, m) ==
  /\ Expects(t, m)
  /\ \A u \in Trains : Before(u, t) /\ Expects(u, m) => model[u].next_sensor # model[t].next_sensor

Untaken(m) == Triggered(m) \ {model[t].next_sensor : t \in {u \in Trains : Takes(u, m)}}

\* The last lost train gets the first sensor that is left.
Lost(t) == ~model[t].known /\ model[t].speed > 0

Gets(t, m) ==
  /\ Lost(t)
  /\ Untaken(m) # {}
  /\ \A u \in Trains : Before(t, u) => ~Lost(u)

\* LOC_SENSOR_MODULE_UPDATE
Report(m) ==
  /\ Triggered(m) # {}
  /\ model' = [t \in Trains |->
                 IF Takes(t, m) THEN Located(model[t], model[t].next_sensor)
                 ELSE IF Gets(t, m) THEN Located(model[t], Min(Untaken(m)))
                 ELSE model[t]]
  /\ pressed' = [t \in Trains |-> IF pressed[t] \in Triggered(m) THEN NoNode ELSE pressed[t]]
  /\ UNCHANGED <<switches, active, place, turns>>
-----------------------------------------------------------------------------
(***************************************************************************)
(* The trains: none runs into another, and the sensors are read before a   *)
(* train comes to the next one.                                            *)
(***************************************************************************)
Occupied(a) == \E t \in Trains : place[t] \in {a, ReverseArc(a)}

Move(t) ==
  LET n == Dest(place[t])
  IN  /\ model[t].speed > 0
      /\ type[n] # "NODE_EXIT"
      /\ ~Occupied(ArcFrom(n))
      /\ n \in Sensors => pressed[t] = NoNode
      /\ place' = [place EXCEPT ![t] = ArcFrom(n)]
      /\ pressed' = IF n \in Sensors THEN [pressed EXCEPT ![t] = n] ELSE pressed
      /\ UNCHANGED <<switches, active, model, turns>>
-----------------------------------------------------------------------------
Command ==
  \/ \E t \in Trains, speed \in {0, 1} : SetSpeed(t, speed)
  \/ \E t \in Trains : TrainReverse(t)
  \/ \E b \in Branches : SetSwitch(b)

Next ==
  \/ Command
  \/ Tick
  \/ \E m \in Modules : Report(m)
  \/ \E t \in Trains : Move(t)

Spec == Init /\ [][Next]_vars

\* The ticker never stops.
FairSpec == Spec /\ WF_vars(Tick)
-----------------------------------------------------------------------------
(***************************************************************************)
(* Correctness.                                                            *)
(***************************************************************************)
\* The server waits for the sensor that train t has passed or comes to next.
Rightly(t) ==
  /\ model[t].known
  /\ model[t].next_sensor = IF pressed[t] # NoNode THEN pressed[t] ELSE NextSensor(place[t]).node

Reading == pressed' # pressed /\ place' = place

\* Whatever is believed, a sensor is taken for a sign of one train only.
OneHitOneTrain ==
  [][Reading => \A s \in Sensors :
       Cardinality({t \in Trains : model'[t] # model[t] /\ model'[t].arc = <<s, 1>>}) <= 1]_vars

\* While the server waits for every train rightly, and for no two at the same
\* sensor, a report moves the trains that passed the sensors and no other.
OwnSensors ==
  [][Reading
     /\ (\A t \in ToSet(active) : Rightly(t))
     /\ (\A t, u \in ToSet(active) : model[t].next_sensor = model[u].next_sensor => t = u)
     => \A t \in Trains : model'[t] = IF pressed'[t] # pressed[t] THEN Located(model[t], pressed[t])
                                      ELSE model[t]]_vars

\* Train t moves, and nobody else is known or moves.
Alone(t) ==
  /\ model[t].speed > 0
  /\ \A u \in Trains \ {t} : model[u].speed = 0 /\ ~model[u].known

\* Whatever went wrong before, a train that alone keeps passing sensors, which are
\* read, is found again.
FoundAgain ==
  \A t \in Trains :
    <>[]Alone(t) /\ []<>(pressed[t] # NoNode) /\ []<>(pressed[t] = NoNode) => []<>Rightly(t)
=============================================================================
