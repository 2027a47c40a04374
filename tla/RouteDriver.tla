----------------------------- MODULE RouteDriver -----------------------------
(***************************************************************************)
(* The drivers of user/train_route_worker.c: each takes one train along    *)
(* its route, reserving track ahead of it, throwing the switches and       *)
(* releasing the track behind.                                             *)
(*                                                                         *)
(* What a driver works with is kept to what it sees of it.  A request to   *)
(* the reservation server is one step on who owns a piece of track (module *)
(* Reservation implements TrackOwnership).  The path that dijkstra_find    *)
(* answers is a path of the track (module PathFinding, PathIsReal) or      *)
(* none.  The location server knows where the trains are and when to stop  *)
(* one at its marker.  Distances are whole units.                          *)
(***************************************************************************)
EXTENDS Integers, Sequences, FiniteSets

CONSTANTS
  Trains,
  Nodes,
  reverse,     \* node -> the other direction of the same place
  type,        \* node -> its node_type
  edge,        \* node -> its edges, each with its dest and dist
  Switches,    \* branch -> how it stands at first
  Start,       \* train -> the <<node, edge>> it stands on at first
  Goals,       \* train -> the nodes it may be sent to
  Paths,       \* <<node, edge>>, goal, node to avoid -> what dijkstra_find may
               \* answer, from the train to the goal, each node with the edge
               \* that leads to the next
  STOP_DIST,   \* how far a train at speed 8 rolls on after it was told to stop
  LOOKBEHIND,
  MARGIN,      \* what lookahead adds to the stopping distance
  MAX_TRIES

NoNode == -1
Nobody == "nobody"
NoArc == <<NoNode, 1>>

Arcs == {a \in Nodes \X {1, 2} : a[2] \in DOMAIN edge[a[1]]}
Dest(a) == edge[a[1]][a[2]].dest
Dist(a) == edge[a[1]][a[2]].dist

\* The two directions of a place are reserved together.
Piece(n) == {n, reverse[n]}
Pieces == {Piece(n) : n \in Nodes}
Branches == {n \in Nodes : type[n] = "NODE_BRANCH"}

\* edge->reverse
ReverseArc(a) ==
  CHOOSE b \in Arcs : b[1] = reverse[Dest(a)] /\ Dest(b) = reverse[a[1]]

\* Every node but an exit has a next one on the way it is set, only branches have a
\* second, and every edge has its reverse.
ASSUME RouteDriverAssumption ==
  /\ NoNode \notin Nodes
  /\ Nobody \notin Trains
  /\ reverse \in [Nodes -> Nodes]
  /\ \A n \in Nodes : reverse[reverse[n]] = n /\ reverse[n] # n
  /\ edge \in [Nodes -> Seq([dest : Nodes, dist : Nat \ {0}])]
  /\ \A n \in Nodes : type[n] # "NODE_EXIT" => 1 \in DOMAIN edge[n]
  /\ \A n \in Nodes \ Branches : 2 \notin DOMAIN edge[n]
  /\ \A n \in Branches : DOMAIN edge[n] = {1, 2}
  /\ \A a \in Arcs : \E b \in Arcs : b[1] = reverse[Dest(a)] /\ Dest(b) = reverse[a[1]]
  /\ \A a \in Arcs : Dist(ReverseArc(a)) = Dist(a)
  /\ Switches \in [Branches -> {0, 1}]
  /\ Start \in [Trains -> Arcs]
  /\ Goals \in [Trains -> SUBSET Nodes]
  /\ {STOP_DIST, LOOKBEHIND, MARGIN, MAX_TRIES} \subseteq Nat

\* A path leads from node to node, from an end of the arc it starts at.
ASSUME PathAssumption ==
  \A a \in Arcs, g \in UNION {Goals[t] : t \in Trains}, n \in Nodes \cup {NoNode} :
    \A path \in Paths[<<a, g, n>>] :
      /\ path \in Seq([node : Nodes, edge : 0 .. 2])
      /\ path # <<>> => path[1].node \in {reverse[a[1]], Dest(a)}
      /\ \A k \in 1 .. Len(path) - 1 :
           LET b == <<path[k].node, path[k].edge>>
           IN  b \in Arcs /\ Dest(b) = path[k + 1].node

\* A unit is what a train goes in the 5 ticks between two polls, 25 mm at most, and
\* the margin is 200 mm.
ASSUME MarginAssumption == MARGIN >= 5

VARIABLES
  goal,       \* train -> dest_idx
  owner,      \* piece -> the train that has reserved it
  switches,   \* branch -> 0 straight, 1 curved
  train,      \* train -> where it is and how it moves, as the location server
              \* knows it: arc, travelled, speed, stop_dist, the stop_node of
              \* its marker, and how far it goes until a timed stop task stops
              \* it, -1 without one
  moved,      \* train -> it has moved a unit since its driver last asked, or
              \* last waited for a refused piece
  pc,         \* train -> where its driver is
  route,      \* train -> Route.nodes
  current,    \* train -> the node of the route that the train has passed last
  ahead,      \* train -> lookahead_node's current, lookahead, reached_zero, tries
  position,   \* train -> what the last where_is answered
  status,     \* train -> RouteStatus
  stop_pos,   \* train -> execute_route's stop_pos
  tries,      \* train -> train_route_worker's tries
  disturbed,  \* the trains that lost a piece to a train that started over, or
              \* whose switch another driver threw
  robbed      \* the trains that lost a piece to a train that started over while
              \* their driver was between reserving a node and its action

world == <<goal, owner, switches, train, moved>>
driving == <<route, current, ahead, position, stop_pos>>
vars == <<goal, owner, switches, train, moved, pc, route, current, ahead, position, status,
          stop_pos, tries, disturbed, robbed>>

Init ==
  /\ goal \in {g \in [Trains -> UNION {Goals[t] : t \in Trains}] : \A t \in Trains : g[t] \in Goals[t]}
  /\ owner = [s \in Pieces |-> Nobody]
  /\ switches = Switches
  /\ train = [t \in Trains |-> [arc |-> Start[t], travelled |-> 0, speed |-> 0,
                                stop_dist |-> 0, stop_node |-> NoNode, timed |-> -1]]
  /\ moved = [t \in Trains |-> FALSE]
  /\ pc = [t \in Trains |-> "where"]
  /\ route = [t \in Trains |-> <<>>]
  /\ current = [t \in Trains |-> 1]
  /\ ahead = [t \in Trains |-> [at |-> 1, left |-> 0, reached_zero |-> FALSE, tries |-> 0]]
  /\ position = train
  /\ status = [t \in Trains |-> [code |-> 0, completed |-> FALSE, info |-> NoNode]]
  /\ stop_pos = [t \in Trains |-> 1]
  /\ tries = [t \in Trains |-> 0]
  /\ disturbed = {}
  /\ robbed = {}

Goto(t, label) == pc' = [pc EXCEPT ![t] = label]

\* set_route_status
RouteStatus(t, code, completed, info) ==
  status' = [status EXCEPT ![t] = [code |-> code, completed |-> completed, info |-> info]]

\* A timed stop task that is still waiting has no effect on a train at speed 0.
TrainSetSpeed(t, speed) ==
  train' = [train EXCEPT ![t].speed = speed, ![t].timed = IF speed = 0 THEN -1 ELSE @]

\* where_is: the driver has its own copy of the train's position.
WhereIs(t) ==
  /\ position' = [position EXCEPT ![t] = train[t]]
  /\ moved' = [moved EXCEPT ![t] = FALSE]
-----------------------------------------------------------------------------
(***************************************************************************)
(* The trains, the location server and its timed stop tasks.               *)
(***************************************************************************)
\* The arc that leads on from node n, as the switches stand.
ArcFrom(n) == <<n, IF type[n] = "NODE_BRANCH" THEN switches[n] + 1 ELSE 1>>

\* track_next_arc
NextArc(a) == IF type[Dest(a)] = "NODE_EXIT" THEN NoArc ELSE ArcFrom(Dest(a))

\* track_ahead_contain_node: how far it is from one node to another the way the
\* switches stand, -1 if that is more than dist.
DistToNode(from, node, dist) ==
  LET Look[n \in Nodes, left \in 0 .. dist] ==
        IF n = node THEN dist - left
        ELSE IF type[n] = "NODE_EXIT" \/ Dist(ArcFrom(n)) > left THEN -1
        ELSE Look[Dest(ArcFrom(n)), left - Dist(ArcFrom(n))]
  IN  Look[from, dist]

\* How far the train is from its marker, -1 if that is not in sight.
MarkerIn(t) == DistToNode(train[t].arc[1], train[t].stop_node,
                          train[t].travelled + train[t].stop_dist + MARGIN)

\* LOC_TIMER_UPDATE starts a timed stop task when the marker comes in sight.
StopDue(t) ==
  /\ train[t].stop_node # NoNode
  /\ train[t].speed > 0
  /\ MarkerIn(t) >= 0

Tick(t) ==
  /\ StopDue(t)
  /\ LET left == MarkerIn(t) - train[t].travelled - train[t].stop_dist
     IN  train' = [train EXCEPT ![t].stop_node = NoNode,
                                ![t].timed = IF left > 0 THEN left ELSE 0]
  /\ UNCHANGED <<goal, owner, switches, moved, pc, driving, status, tries, disturbed, robbed>>

\* train_timed_stop_task
TimedStop(t) ==
  /\ train[t].timed = 0
  /\ TrainSetSpeed(t, 0)
  /\ UNCHANGED <<goal, owner, switches, moved, pc, driving, status, tries, disturbed, robbed>>

AtRest(t) == train[t].speed = 0 /\ train[t].stop_dist = 0

\* The driver polls every 5 ticks, unless it waits for a refused piece.
Polling(t) ==
  \/ pc[t] \in {"poll", "behind", "act", "mark"}
  \/ pc[t] = "ahead" /\ ahead[t].tries = 0

\* A train goes one unit, at most one between two polls of its driver, and
\* neither the tick nor a timed stop is late by a unit.  Told to stop, it rolls out.
Move(t) ==
  /\ ~AtRest(t)
  /\ Polling(t) => ~moved[t]
  /\ train[t].speed > 0 => ~StopDue(t) /\ train[t].timed # 0
  /\ LET stays == train[t].travelled < Dist(train[t].arc)
         arc == IF stays THEN train[t].arc ELSE NextArc(train[t].arc)
     IN  /\ arc # NoArc
         /\ train' = [train EXCEPT
              ![t].arc = arc,
              ![t].travelled = IF stays THEN @ + 1 ELSE 1,
              ![t].timed = IF @ > 0 THEN @ - 1 ELSE @,
              ![t].stop_dist = IF train[t].speed = 0 THEN @ - 1
                               ELSE IF @ < STOP_DIST THEN @ + 1 ELSE @]
  /\ moved' = [moved EXCEPT ![t] = TRUE]
  /\ UNCHANGED <<goal, owner, switches, pc, driving, status, tries, disturbed, robbed>>
-----------------------------------------------------------------------------
(***************************************************************************)
(* train_route_worker.                                                     *)
(***************************************************************************)
Where(t) ==
  /\ pc[t] = "where"
  /\ WhereIs(t)
  /\ Goto(t, "path")
  /\ UNCHANGED <<goal, owner, switches, train, route, current, ahead, stop_pos, status, tries, disturbed, robbed>>

\* A train that the location server has not found on the track has no route.
NotTracked(t) ==
  /\ pc[t] = "where"
  /\ Goto(t, "no train")
  /\ UNCHANGED <<world, driving, status, tries, disturbed, robbed>>

RouteNode(node, action, arc_dist) ==
  [node |-> node, action |-> action, arc_dist |-> arc_dist, reserved |-> FALSE, acted |-> FALSE]

\* path_to_route: the arc of the train, driven back on if the path starts at its
\* other end, and then the path.
PathToRoute(path, arc) ==
  LET first == IF path[1].node = reverse[arc[1]]
               THEN <<RouteNode(arc[1], 3, 0), RouteNode(reverse[Dest(arc)], 0, Dist(arc))>>
               ELSE <<RouteNode(arc[1], 0, Dist(arc))>>
      way == [k \in 1 .. Len(path) - 1 |->
                RouteNode(path[k].node,
                          IF type[path[k].node] = "NODE_BRANCH" THEN path[k].edge ELSE 0,
                          Dist(<<path[k].node, path[k].edge>>))]
  IN  first \o way \o <<RouteNode(path[Len(path)].node, 4, 0)>>

\* The node whose reservation failed is reserved in the bitmap for this search.
FindPath(t) ==
  /\ pc[t] = "path"
  /\ \E path \in Paths[<<position[t].arc, goal[t],
                         IF status[t].code = 1 THEN status[t].info ELSE NoNode>>] :
       IF path = <<>>
       THEN Goto(t, "end") /\ UNCHANGED route
       ELSE /\ Goto(t, "start")
            /\ route' = [route EXCEPT ![t] = PathToRoute(path, position[t].arc)]
  /\ UNCHANGED <<world, current, ahead, position, stop_pos, status, tries, disturbed, robbed>>

\* After execute_route: the train is stopped, and 250 ticks are enough for that.
Stop(t) ==
  /\ pc[t] = "stop"
  /\ TrainSetSpeed(t, 0)
  /\ Goto(t, "rest")
  /\ UNCHANGED <<goal, owner, switches, moved, driving, status, tries, disturbed, robbed>>

Retry(t) ==
  /\ pc[t] = "rest"
  /\ AtRest(t)
  /\ tries' = [tries EXCEPT ![t] = @ + 1]
  /\ Goto(t, IF tries[t] + 1 > MAX_TRIES \/ status[t].completed THEN "end" ELSE "path")
  /\ UNCHANGED <<world, driving, status, disturbed, robbed>>

\* The other trains that own one of these pieces.
Losers(t, pieces) == {owner[s] : s \in pieces} \ {t, Nobody}

\* Mutant: what the train owns already is not freed.
ReleaseAll_keeping(t, arc) ==
  LET standing == {Piece(arc[1]), Piece(Dest(arc))}
  IN  /\ owner' = [s \in Pieces |-> IF s \in standing THEN t ELSE owner[s]]
      /\ disturbed' = (disturbed \ {t}) \cup Losers(t, standing)
      /\ robbed' = robbed \cup {u \in Losers(t, standing) : pc[u] = "act"}

\* The server frees what the train owns and gives it the ends of the arc, by force.
ReleaseAll(t, arc) ==
  LET standing == {Piece(arc[1]), Piece(Dest(arc))}
  IN  /\ owner' = [s \in Pieces |-> IF s \in standing THEN t
                                    ELSE IF owner[s] = t THEN Nobody ELSE owner[s]]
      /\ disturbed' = (disturbed \ {t}) \cup Losers(t, standing)
      /\ robbed' = robbed \cup {u \in Losers(t, standing) : pc[u] = "act"}

AskWhere(t) ==
  /\ pc[t] = "end"
  /\ WhereIs(t)
  /\ Goto(t, "release")
  /\ UNCHANGED <<goal, owner, switches, train, route, current, ahead, stop_pos, status, tries, disturbed, robbed>>

\* The arc is all that a train keeps without a driver.
Complete(t) ==
  /\ pc[t] = "release"
  /\ ReleaseAll(t, position[t].arc)
  /\ Goto(t, "done")
  /\ UNCHANGED <<goal, switches, train, moved, driving, status, tries>>
-----------------------------------------------------------------------------
(***************************************************************************)
(* execute_route.                                                          *)
(***************************************************************************)
\* route_get_first_arc: the edge of the first node that is not reversed at.
FirstArc(r) ==
  LET i == CHOOSE k \in 1 .. Len(r) - 1 :
             r[k].action < 3 /\ \A j \in 1 .. k - 1 : r[j].action >= 3
  IN  <<r[i].node, IF r[i].action = 2 THEN 2 ELSE 1>>

Begin(t) ==
  /\ pc[t] = "start"
  /\ ReleaseAll(t, FirstArc(route[t]))
  /\ LET halts == route[t][1].action = 3 /\ position[t].stop_dist > 0
     IN  train' = [train EXCEPT
           ![t].stop_node = IF position[t].stop_node # NoNode THEN NoNode ELSE @,
           ![t].speed = IF halts THEN 0 ELSE @,
           ![t].timed = IF halts THEN -1 ELSE @]
  /\ current' = [current EXCEPT ![t] = 1]
  /\ stop_pos' = [stop_pos EXCEPT ![t] = 1]
  /\ Goto(t, IF route[t][1].action = 3 THEN "reverse" ELSE "poll")
  /\ UNCHANGED <<goal, switches, moved, route, ahead, position, status, tries>>

\* The train has come to rest before it is reversed.
Reverse(t) ==
  /\ pc[t] = "reverse"
  /\ AtRest(t)
  /\ train' = [train EXCEPT ![t].arc = ReverseArc(@),
                            ![t].travelled = Dist(train[t].arc) - @]
  /\ Goto(t, "poll")
  /\ UNCHANGED <<goal, owner, switches, moved, driving, status, tries, disturbed, robbed>>

\* The place of the train on the route, searched from a little behind the last.
Found(t) ==
  {k \in 1 .. Len(route[t]) : k >= current[t] - 10 /\ route[t][k].node = train[t].arc[1]}
FirstFound(t) == CHOOSE k \in Found(t) : \A l \in Found(t) : k <= l

PollLost(t) ==
  /\ pc[t] = "poll"
  /\ Found(t) = {}
  /\ WhereIs(t)
  /\ RouteStatus(t, 2, FALSE, NoNode)
  /\ Goto(t, "stop")
  /\ UNCHANGED <<goal, owner, switches, train, route, current, ahead, stop_pos, tries, disturbed, robbed>>

\* A train that stands on the last node has arrived.
Poll(t) ==
  /\ pc[t] = "poll"
  /\ Found(t) # {}
  /\ WhereIs(t)
  /\ current' = [current EXCEPT ![t] = FirstFound(t)]
  /\ IF FirstFound(t) = Len(route[t]) /\ train[t].speed = 0
     THEN RouteStatus(t, 0, TRUE, NoNode) /\ Goto(t, "stop")
     ELSE UNCHANGED status /\ Goto(t, "behind")
  /\ UNCHANGED <<goal, owner, switches, train, route, ahead, stop_pos, tries, disturbed, robbed>>

\* lookbehind_node: from the first node that lies more than LOOKBEHIND behind,
\* back to one that is not reserved.
Freed(r, now) ==
  LET Back[k \in 1 .. now] == IF k = now THEN 0 ELSE r[k].arc_dist + Back[k + 1]
      far == {k \in 1 .. now - 1 : Back[k] > LOOKBEHIND}
  IN  {k \in far : \A j \in far : j >= k => r[j].reserved}

\* Mutant: released nodes keep their mark.
Forget_nothing(r, freed) == r

Forget(r, freed) ==
  [k \in 1 .. Len(r) |-> IF k \in freed THEN [r[k] EXCEPT !.reserved = FALSE] ELSE r[k]]

\* Mutant: what the train has travelled on its arc is left out.
Lookahead_from_node(p) == p.stop_dist + MARGIN

Lookahead(p) == p.stop_dist + MARGIN + p.travelled

Behind(t) ==
  LET freed == Freed(route[t], current[t])
      pieces == {Piece(route[t][k].node) : k \in freed}
  IN  /\ pc[t] = "behind"
      /\ owner' = [s \in Pieces |-> IF s \in pieces /\ owner[s] = t THEN Nobody ELSE owner[s]]
      /\ route' = [route EXCEPT ![t] = Forget(@, freed)]
      /\ ahead' = [ahead EXCEPT ![t] = [at |-> current[t], left |-> Lookahead(position[t]),
                                        reached_zero |-> FALSE, tries |-> 0]]
      /\ Goto(t, "ahead")
      /\ UNCHANGED <<goal, switches, train, moved, current, position, stop_pos, status, tries, disturbed, robbed>>

\* Mutant: the route is never given up.
Refused_waiting(t) ==
  /\ pc[t] = "ahead"
  /\ LET node == route[t][ahead[t].at]
     IN  /\ ~node.reserved
         /\ owner[Piece(node.node)] \notin {Nobody, t}
         /\ TrainSetSpeed(t, 0)
         /\ ahead' = [ahead EXCEPT ![t].tries = 1]
  /\ UNCHANGED <<goal, owner, switches, moved, pc, route, current, position, status, stop_pos, tries,
                 disturbed, robbed>>

\* reserve_track fails: the first time the train is stopped and the driver waits
\* 25 ticks, the second time the route is given up.
Refused(t) ==
  /\ pc[t] = "ahead"
  /\ LET node == route[t][ahead[t].at]
     IN  /\ ~node.reserved
         /\ owner[Piece(node.node)] \notin {Nobody, t}
         /\ IF ahead[t].tries = 0
            THEN /\ TrainSetSpeed(t, 0)
                 /\ ahead' = [ahead EXCEPT ![t].tries = 1]
                 /\ UNCHANGED <<pc, status>>
            ELSE /\ RouteStatus(t, 1, FALSE, node.node)
                 /\ Goto(t, "stop")
                 /\ UNCHANGED <<train, ahead>>
  /\ UNCHANGED <<goal, owner, switches, moved, route, current, position, stop_pos, tries, disturbed, robbed>>

\* set_merge_reversible: the switch that a train would pass on its way back from
\* a merge is set to where it came from.
MergeReversible(curr, before, sw) ==
  LET branch == reverse[curr]
      back == {e \in DOMAIN edge[branch] : edge[branch][e].dest = reverse[before]}
  IN  IF type[curr] = "NODE_MERGE" /\ back # {}
      THEN [sw EXCEPT ![branch] = (CHOOSE e \in back : \A f \in back : e <= f) - 1]
      ELSE sw

\* The switches after the action of node k of route r.
Acted(r, k) ==
  CASE r[k].action \in {1, 2} -> [switches EXCEPT ![r[k].node] = r[k].action - 1]
    [] r[k].action = 4 /\ k > 1 ->
         LET here == MergeReversible(r[k].node, r[k - 1].node, switches)
         IN  IF type[r[k].node] = "NODE_EXIT" THEN here
             ELSE MergeReversible(edge[r[k].node][1].dest, r[k].node, here)
    [] OTHER -> switches

\* Mutant: the answer of reserve_track is not looked at.
Reserve_unchecked(t) ==
  LET k == ahead[t].at
      piece == Piece(route[t][k].node)
  IN  /\ pc[t] = "ahead"
      /\ owner' = IF owner[piece] = Nobody THEN [owner EXCEPT ![piece] = t] ELSE owner
      /\ route' = [route EXCEPT ![t][k].reserved = TRUE]
      /\ ahead' = [ahead EXCEPT ![t].tries = 0]
      /\ moved' = [moved EXCEPT ![t] = @ /\ ahead[t].tries = 0]
      /\ Goto(t, "act")
      /\ UNCHANGED <<goal, switches, train, current, position, stop_pos, status, tries, disturbed, robbed>>

\* The next node of lookahead_node is reserved, unless it is already.
Reserve(t) ==
  LET k == ahead[t].at
      node == route[t][k]
  IN  /\ pc[t] = "ahead"
      /\ node.reserved \/ owner[Piece(node.node)] \in {Nobody, t}
      /\ owner' = IF node.reserved THEN owner ELSE [owner EXCEPT ![Piece(node.node)] = t]
      /\ route' = [route EXCEPT ![t][k].reserved = TRUE]
      /\ ahead' = [ahead EXCEPT ![t].tries = 0]
      /\ moved' = [moved EXCEPT ![t] = @ /\ ahead[t].tries = 0]
      /\ Goto(t, "act")
      /\ UNCHANGED <<goal, switches, train, current, position, stop_pos, status, tries, disturbed, robbed>>

\* Its action is carried out, unless it was: what track_set_switch sends to the
\* location server and to the track goes out after the reservation was answered, so
\* another train may have taken the node by then.  The driver goes on to the next
\* node until the train can stop before it.
Act(t) ==
  LET r == route[t]
      k == ahead[t].at
      left == ahead[t].left - r[k].arc_dist
  IN  /\ pc[t] = "act"
      /\ switches' = IF r[k].acted THEN switches ELSE Acted(r, k)
      /\ route' = [route EXCEPT ![t][k].acted = @ \/ r[k].action > 0]
      /\ IF k = Len(r)
         THEN /\ RouteStatus(t, 0, TRUE, NoNode)
              /\ Goto(t, "wait")
              /\ UNCHANGED ahead
         ELSE IF left < 0 /\ ahead[t].reached_zero
         THEN /\ RouteStatus(t, 0, FALSE, NoNode)
              /\ Goto(t, "mark")
              /\ UNCHANGED ahead
         ELSE /\ ahead' = [ahead EXCEPT ![t] = [at |-> k + 1, left |-> left,
                              reached_zero |-> ahead[t].reached_zero \/ left < 0, tries |-> 0]]
              /\ Goto(t, "ahead")
              /\ UNCHANGED status
      /\ disturbed' = disturbed \cup
           Losers(t, {Piece(b) : b \in {c \in Branches : switches'[c] # switches[c]}})
      /\ robbed' = robbed \ {t}
      /\ UNCHANGED <<goal, owner, train, moved, current, position, stop_pos, tries>>

\* The route is reserved to its end: the driver waits for the timed stop.
Wait(t) ==
  /\ pc[t] = "wait"
  /\ WhereIs(t)
  /\ Goto(t, IF train[t].stop_node = NoNode THEN "stop" ELSE "wait")
  /\ UNCHANGED <<goal, owner, switches, train, route, current, ahead, stop_pos, status, tries, disturbed, robbed>>

\* 1000 ticks are too short only for a train that stands before its marker.
WaitExpires(t) ==
  /\ pc[t] = "wait"
  /\ AtRest(t) /\ train[t].stop_node # NoNode
  /\ WhereIs(t)
  /\ RouteStatus(t, 255, FALSE, NoNode)
  /\ Goto(t, "stop")
  /\ UNCHANGED <<goal, owner, switches, train, route, current, ahead, stop_pos, tries, disturbed, robbed>>

\* route_get_stop_node
StopNodes(t) == {k \in stop_pos[t] .. Len(route[t]) : route[t][k].action = 4}

\* The marker is set, once, and a train that stands is started.
Mark(t) ==
  /\ pc[t] = "mark"
  /\ LET sets == position[t].stop_node = NoNode /\ StopNodes(t) # {}
         k == CHOOSE i \in StopNodes(t) : \A j \in StopNodes(t) : i <= j
     IN  /\ train' = [train EXCEPT
              ![t].stop_node = IF sets THEN route[t][k].node ELSE @,
              ![t].speed = IF position[t].stop_dist = 0 THEN 8 ELSE @]
         /\ stop_pos' = [stop_pos EXCEPT ![t] =
              IF sets THEN k + 1
              ELSE IF position[t].stop_node = NoNode THEN Len(route[t]) + 2 ELSE @]
  /\ Goto(t, "poll")
  /\ UNCHANGED <<goal, owner, switches, moved, route, current, ahead, position, status, tries, disturbed, robbed>>
-----------------------------------------------------------------------------
Driver(t) ==
  \/ Where(t) \/ NotTracked(t) \/ FindPath(t) \/ Stop(t) \/ Retry(t) \/ AskWhere(t) \/ Complete(t)
  \/ Begin(t) \/ Reverse(t) \/ PollLost(t) \/ Poll(t)
  \/ Behind(t) \/ Refused(t) \/ Reserve(t) \/ Act(t) \/ Wait(t) \/ WaitExpires(t) \/ Mark(t)

World(t) == Move(t) \/ Tick(t) \/ TimedStop(t)

Next == \E t \in Trains : Driver(t) \/ World(t)

Spec == Init /\ [][Next]_vars

\* The kernel runs a driver that is ready, the location server's ticks and its
\* stop tasks, and a train that is told to go goes.
FairSpec ==
  Spec /\ \A t \in Trains : WF_vars(Driver(t)) /\ WF_vars(World(t))
-----------------------------------------------------------------------------
(***************************************************************************)
(* Correctness.                                                            *)
(***************************************************************************)
Executing(t) == pc[t] \in {"poll", "behind", "ahead", "act", "mark", "wait"}

\* No two of the nodes of the route that the driver may have reserved, those
\* without an action and those whose action was carried out, are the place of n.
\* A way that turns the train in a loop passes a place twice, and looking behind
\* then gives it back the first time.
PassesOnce(t, n) ==
  LET Met == {k \in DOMAIN route[t] : /\ Piece(route[t][k].node) = Piece(n)
                                      /\ route[t][k].action > 0 => route[t][k].acted}
  IN  \A j, k \in Met : j = k

\* What a driver believes to have reserved is reserved for its train, unless
\* another train started over on it.
BeliefIsTrue ==
  \A t \in Trains \ disturbed : Executing(t) =>
    \A k \in DOMAIN route[t] :
      route[t][k].reserved /\ PassesOnce(t, route[t][k].node)
      => owner[Piece(route[t][k].node)] = t

\* The first node of route r that the train is not turned at.
First(r) == IF r[1].action = 3 THEN 2 ELSE 1

\* The arc at the start of the first route, as the train goes on it.
StartArc(t) == IF First(route[t]) = 2 THEN ReverseArc(Start[t]) ELSE Start[t]

\* The arc that the train starts over on before its first route is the one it
\* stands on: route_get_first_arc takes the straight one of a branch.
StartsOnItsArc(t) == tries[t] = 0 /\ StartArc(t)[2] = 1

\* Route r passes no place twice.
NoLoop(r) ==
  \A j, k \in First(r) .. Len(r) : Piece(r[j].node) = Piece(r[k].node) => j = k

\* On its first route a train has both ends of the arc it is on, until all of the
\* route is reserved.  From then on, to where the train stops, what lies ahead of
\* where it was last seen is its own.
OnOwnTrack ==
  \A t \in Trains \ disturbed : Executing(t) /\ StartsOnItsArc(t) /\ NoLoop(route[t]) =>
    IF pc[t] = "wait"
    THEN \A k \in current[t] .. Len(route[t]) : owner[Piece(route[t][k].node)] = t
    ELSE \A n \in {train[t].arc[1], Dest(train[t].arc)} : owner[Piece(n)] = t

\* A train that is done keeps its arc and nothing else.
DoneKeepsArc ==
  \A t \in Trains \ disturbed : pc[t] = "done" =>
    {s \in Pieces : owner[s] = t} = {Piece(train[t].arc[1]), Piece(Dest(train[t].arc))}

\* A switch that a driver throws (the step by which it leaves "act") is still its
\* train's when it throws it, unless another train took it by force since it was
\* reserved, or it is the one that lies behind the end of the route.
SwitchesOwned ==
  [][\A b \in Branches : switches'[b] # switches[b] =>
       \E t \in Trains :
         /\ pc[t] = "act" /\ pc'[t] # "act"
         /\ \/ owner[Piece(b)] = t
            \/ t \in robbed
            \/ LET last == Len(route[t])
               IN  ahead[t].at = last /\ edge[route[t][last].node][1].dest = reverse[b]]_vars

\* Every driver ends, whatever the other trains do.
DriverEnds == \A t \in Trains : <>(pc[t] \in {"done", "no train"})
=============================================================================
