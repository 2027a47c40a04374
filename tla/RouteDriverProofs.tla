-------------------------- MODULE RouteDriverProofs --------------------------
(***************************************************************************)
(* The drivers of user/train_route_worker.c on any track, with any number  *)
(* of trains: what a driver believes to own it owns, a train that is done  *)
(* keeps its arc, a switch is thrown by a train that has its piece unless  *)
(* it was robbed of it, track is asked for as TrackOwnership allows, and a *)
(* train on its first route stays on track of its own.                     *)
(***************************************************************************)
EXTENDS RouteDriver, SequenceTheorems, WellFoundedInduction, TLAPS

RouteNodes ==
  [node : Nodes, action : 0 .. 4, arc_dist : Nat, reserved : BOOLEAN, acted : BOOLEAN]

GoalNodes == UNION {Goals[t] : t \in Trains}

Typed ==
  /\ goal \in [Trains -> GoalNodes]
  /\ owner \in [Pieces -> Trains \cup {Nobody}]
  /\ switches \in [Branches -> {0, 1}]
  /\ Trains = DOMAIN pc /\ Trains = DOMAIN train /\ Trains = DOMAIN position
  /\ Trains = DOMAIN route /\ Trains = DOMAIN current /\ Trains = DOMAIN ahead
  /\ Trains = DOMAIN status

Located(t) ==
  /\ DOMAIN train[t] = {"arc", "travelled", "speed", "stop_dist", "stop_node", "timed"}
  /\ train[t].arc \in Arcs
  /\ position[t].arc \in Arcs

\* The marks of the lookahead.  What is reserved had its action carried out, but for
\* the node that is about to have, and only the end of a route is a destination.
Routed(t) ==
  /\ route[t] \in Seq(RouteNodes)
  /\ \A k \in DOMAIN route[t] :
       /\ route[t][k].action = 4 => k = Len(route[t])
       /\ route[t][k].reserved =>
            \/ route[t][k].action = 0 \/ route[t][k].acted
            \/ pc[t] = "act" /\ k = ahead[t].at
       /\ pc[t] \in {"start", "reverse"} => ~route[t][k].reserved
  /\ pc[t] = "behind" => current[t] \in DOMAIN route[t]
  /\ pc[t] \in {"ahead", "act"} => ahead[t].at \in DOMAIN route[t]
  /\ pc[t] = "act" => route[t][ahead[t].at].reserved
  /\ DOMAIN ahead[t] = {"at", "left", "reached_zero", "tries"}
  /\ status[t].info \in Nodes \cup {NoNode}

\* Between two routes, and before and after all, the train stands where its
\* driver believes it to stand.
Quiet(t) ==
  /\ pc[t] \in {"where", "path", "start", "end", "release", "done", "no train"} => AtRest(t)
  /\ pc[t] = "release" => position[t].arc = train[t].arc

Believes(t) ==
  Executing(t) =>
    \A k \in DOMAIN route[t] :
      route[t][k].reserved /\ PassesOnce(t, route[t][k].node)
      => owner[Piece(route[t][k].node)] = t

KeepsArc(t) ==
  pc[t] = "done" =>
    {s \in Pieces : owner[s] = t} = {Piece(train[t].arc[1]), Piece(Dest(train[t].arc))}

Fine(t) ==
  /\ Located(t) /\ Routed(t) /\ Quiet(t)
  /\ t \notin disturbed => Believes(t) /\ KeepsArc(t)

IInv == Typed /\ \A t \in Trains : Fine(t)
-----------------------------------------------------------------------------
(***************************************************************************)
(* The track.                                                              *)
(***************************************************************************)
\* A set of numbers that is not empty has a least one.
LEMMA LeastOne ==
  ASSUME NEW B \in SUBSET Nat, B # {}
  PROVE  \E p \in B : \A q \in B : p <= q
<1>1. PICK p \in B : \A q \in B : ~(<<q, p>> \in OpToRel(<, Nat))
  BY WFMin, NatLessThanWellFounded
<1>2. \A q \in B : ~(q < p)
  BY <1>1 DEF OpToRel
<1>3. \A q \in B : q \in Nat
  OBVIOUS
<1> QED BY <1>2, <1>3

LEMMA Elements ==
  ASSUME NEW X, NEW s \in Seq(X), NEW k \in DOMAIN s
  PROVE  s[k] \in X
OBVIOUS

\* An arc leads from a node to a node, and back on its reverse.
LEMMA ArcEnds ==
  ASSUME NEW a \in Arcs
  PROVE  /\ a[1] \in Nodes /\ Dest(a) \in Nodes /\ Dist(a) \in Nat
         /\ ReverseArc(a) \in Arcs
<1> DEFINE X == [dest : Nodes, dist : Nat \ {0}]
<1>1. a[1] \in Nodes /\ a[2] \in DOMAIN edge[a[1]]
  BY DEF Arcs
<1>2. edge[a[1]] \in Seq(X)
  BY <1>1, RouteDriverAssumption
<1>3. \A s \in Seq(X) : \A k \in DOMAIN s : s[k] \in X
  BY Elements
<1>4. edge[a[1]][a[2]] \in X
  BY <1>1, <1>2, <1>3
<1>5. Dest(a) \in Nodes /\ Dist(a) \in Nat
  BY <1>4 DEF Dest, Dist
<1>6. \E b \in Arcs : b[1] = reverse[Dest(a)] /\ Dest(b) = reverse[a[1]]
  BY RouteDriverAssumption
<1>7. ReverseArc(a) \in Arcs
  BY <1>6 DEF ReverseArc
<1> QED BY <1>1, <1>5, <1>7

\* The way on from an arc, as the switches stand, is an arc or none.
LEMMA NextArcIsArc ==
  ASSUME switches \in [Branches -> {0, 1}], NEW a \in Arcs, NextArc(a) # NoArc
  PROVE  NextArc(a) \in Arcs
<1>1. PICK n \in Nodes : n = Dest(a)
  BY ArcEnds
<1>2. type[n] # "NODE_EXIT" /\ NextArc(a) = ArcFrom(n)
  BY <1>1 DEF NextArc
<1>3. CASE type[n] = "NODE_BRANCH"
  <2>1. n \in Branches /\ DOMAIN edge[n] = {1, 2}
    BY <1>3, RouteDriverAssumption DEF Branches
  <2>2. switches[n] + 1 \in {1, 2}
    BY <2>1
  <2> QED BY <1>2, <1>3, <2>1, <2>2 DEF ArcFrom, Arcs
<1>4. CASE type[n] # "NODE_BRANCH"
  <2>1. 1 \in DOMAIN edge[n]
    BY <1>2, RouteDriverAssumption
  <2>2. <<n, 1>> \in Arcs
    BY <2>1 DEF Arcs
  <2> QED BY <1>2, <1>4, <2>2 DEF ArcFrom
<1> QED BY <1>3, <1>4

LEMMA PieceOf ==
  ASSUME NEW n \in Nodes
  PROVE  Piece(n) \in Pieces /\ reverse[n] \in Nodes /\ Piece(reverse[n]) = Piece(n)
<1>1. reverse[n] \in Nodes /\ reverse[reverse[n]] = n
  BY RouteDriverAssumption
<1> QED BY <1>1 DEF Piece, Pieces

\* Preparing a merge sets its switch straight or curved.
LEMMA MergeReversibleTyped ==
  ASSUME NEW curr, NEW before, NEW sw \in [Branches -> {0, 1}]
  PROVE  /\ MergeReversible(curr, before, sw) \in [Branches -> {0, 1}]
         /\ \A b \in Branches : b # reverse[curr] => MergeReversible(curr, before, sw)[b] = sw[b]
<1> DEFINE branch == reverse[curr]
           back == {e \in DOMAIN edge[branch] : edge[branch][e].dest = reverse[before]}
           least == CHOOSE e \in back : \A f \in back : e <= f
<1>1. CASE type[curr] = "NODE_MERGE" /\ back # {}
  <2>1. MergeReversible(curr, before, sw) = [sw EXCEPT ![branch] = least - 1]
    BY <1>1 DEF MergeReversible
  <2>2. branch \in Branches => least - 1 \in {0, 1}
    <3> SUFFICES ASSUME branch \in Branches PROVE least - 1 \in {0, 1}
      OBVIOUS
    <3>1. DOMAIN edge[branch] = {1, 2}
      BY RouteDriverAssumption
    <3>2. back \in SUBSET {1, 2}
      BY <3>1
    <3> HIDE DEF back
    <3>3. \E e \in back : \A f \in back : e <= f
      <4>1. back # {} /\ \A f \in back : f \in {1, 2}
        BY <1>1, <3>2
      <4>2. CASE 1 \in back
        BY <4>1, <4>2
      <4>3. CASE 1 \notin back
        BY <4>1, <4>3
      <4> QED BY <4>2, <4>3
    <3>4. least \in {1, 2}
      BY <3>2, <3>3
    <3> QED BY <3>4
  <2> QED BY <2>1, <2>2
<1>2. CASE ~(type[curr] = "NODE_MERGE" /\ back # {})
  BY <1>2 DEF MergeReversible
<1> QED BY <1>1, <1>2

LEMMA ActedTyped ==
  ASSUME switches \in [Branches -> {0, 1}], NEW r, NEW k
  PROVE  Acted(r, k) \in [Branches -> {0, 1}]
<1>1. CASE r[k].action \in {1, 2}
  <2>1. PICK v \in {0, 1} : v = r[k].action - 1
    BY <1>1
  <2>2. Acted(r, k) = [switches EXCEPT ![r[k].node] = v]
    BY <1>1, <2>1 DEF Acted
  <2> QED BY <2>2
<1>2. CASE r[k].action = 4 /\ k > 1
  <2>1. PICK here : here = MergeReversible(r[k].node, r[k - 1].node, switches)
    OBVIOUS
  <2>2. here \in [Branches -> {0, 1}]
    BY <2>1, MergeReversibleTyped
  <2>3. MergeReversible(edge[r[k].node][1].dest, r[k].node, here) \in [Branches -> {0, 1}]
    BY <2>2, MergeReversibleTyped
  <2>4. Acted(r, k) \in {here, MergeReversible(edge[r[k].node][1].dest, r[k].node, here)}
    BY <1>2, <2>1 DEF Acted
  <2> QED BY <2>2, <2>3, <2>4
<1>3. CASE r[k].action \notin {1, 2} /\ ~(r[k].action = 4 /\ k > 1)
  BY <1>3 DEF Acted
<1> QED BY <1>1, <1>2, <1>3
-----------------------------------------------------------------------------
(***************************************************************************)
(* The other trains.                                                       *)
(***************************************************************************)
\* A driver that starts over takes its arc from anyone and frees the rest.
LEMMA StartsOver ==
  ASSUME Typed, NEW t \in Trains, NEW arc, ReleaseAll(t, arc)
  PROVE  /\ owner' \in [Pieces -> Trains \cup {Nobody}]
         /\ t \notin disturbed'
         /\ \A u \in Trains \ {t} : u \notin disturbed' =>
              u \notin disturbed /\ \A s \in Pieces : owner'[s] = u <=> owner[s] = u
<1> DEFINE standing == {Piece(arc[1]), Piece(Dest(arc))}
<1>1. /\ owner' = [s \in Pieces |-> IF s \in standing THEN t
                                    ELSE IF owner[s] = t THEN Nobody ELSE owner[s]]
      /\ disturbed' = (disturbed \ {t}) \cup ({owner[s] : s \in standing} \ {t, Nobody})
  BY DEF ReleaseAll, Losers
<1> HIDE DEF standing
<1>2. owner' \in [Pieces -> Trains \cup {Nobody}]
  BY <1>1 DEF Typed
<1>3. ASSUME NEW u \in Trains \ {t}, u \notin disturbed'
      PROVE  u \notin disturbed /\ \A s \in Pieces : owner'[s] = u <=> owner[s] = u
  <2>1. u # Nobody /\ u # t
    BY RouteDriverAssumption
  <2>2. \A s \in standing : owner[s] # u
    BY <1>1, <1>3, <2>1
  <2> QED BY <1>1, <1>3, <2>1, <2>2
<1> QED BY <1>1, <1>2, <1>3

\* Nobody but its driver changes what a train has, but for one that starts over.
LEMMA OthersKeep ==
  ASSUME Typed, NEW t \in Trains, NEW u \in Trains \ {t}, Driver(t) \/ World(t)
  PROVE  /\ UNCHANGED <<pc[u], train[u], position[u], route[u], current[u], ahead[u], status[u]>>
         /\ u \notin disturbed' =>
              u \notin disturbed /\ \A s \in Pieces : owner'[s] = u <=> owner[s] = u
<1> USE DEF Typed
<1>0. u # Nobody /\ u # t
  BY RouteDriverAssumption
<1>1. CASE Where(t) \/ NotTracked(t) \/ FindPath(t) \/ AskWhere(t)
  BY <1>0, <1>1 DEF Where, NotTracked, FindPath, AskWhere, WhereIs, Goto, world, driving
<1>2. CASE Stop(t) \/ Retry(t) \/ Reverse(t) \/ Mark(t)
  BY <1>0, <1>2 DEF Stop, Retry, Reverse, Mark, TrainSetSpeed, Goto, world, driving
<1>3. CASE World(t)
  <2>1. CASE Move(t)
    BY <1>0, <2>1 DEF Move, driving
  <2>2. CASE Tick(t) \/ TimedStop(t)
    BY <1>0, <2>2 DEF Tick, TimedStop, TrainSetSpeed, driving
  <2> QED BY <1>3, <2>1, <2>2 DEF World
<1>4. CASE PollLost(t) \/ Poll(t) \/ Wait(t) \/ WaitExpires(t)
  BY <1>0, <1>4, ZenonT(40) DEF PollLost, Poll, Wait, WaitExpires, WhereIs, RouteStatus, Goto
<1>5. CASE Refused(t)
  BY <1>0, <1>5 DEF Refused, TrainSetSpeed, RouteStatus, Goto
<1>6. CASE Complete(t)
  <2>1. ReleaseAll(t, position[t].arc) /\ UNCHANGED <<train, driving, status>> /\ Goto(t, "done")
    BY <1>6 DEF Complete
  <2>2. UNCHANGED <<pc[u], train[u], position[u], route[u], current[u], ahead[u], status[u]>>
    BY <1>0, <2>1 DEF Goto, driving
  <2> QED BY <2>1, <2>2, StartsOver
<1>7. CASE Begin(t)
  <2>1. ReleaseAll(t, FirstArc(route[t]))
    BY <1>7 DEF Begin
  <2>2. UNCHANGED <<pc[u], train[u], position[u], route[u], current[u], ahead[u], status[u]>>
    BY <1>0, <1>7 DEF Begin, Goto
  <2> QED BY <2>1, <2>2, StartsOver
<1>8. CASE Behind(t)
  <2>1. UNCHANGED <<pc[u], train[u], position[u], route[u], current[u], ahead[u], status[u]>>
    BY <1>0, <1>8 DEF Behind, Goto
  <2>2. \A s \in Pieces : owner'[s] = u <=> owner[s] = u
    BY <1>0, <1>8 DEF Behind
  <2>3. UNCHANGED disturbed
    BY <1>8 DEF Behind
  <2> QED BY <2>1, <2>2, <2>3
<1>9. CASE Reserve(t)
  <2>1. UNCHANGED <<pc[u], train[u], position[u], route[u], current[u], ahead[u], status[u]>>
    BY <1>0, <1>9 DEF Reserve, Goto
  <2>2. \A s \in Pieces : owner'[s] = u <=> owner[s] = u
    BY <1>0, <1>9 DEF Reserve
  <2>3. UNCHANGED disturbed
    BY <1>9 DEF Reserve
  <2> QED BY <2>1, <2>2, <2>3
<1>10. CASE Act(t)
  <2>1. UNCHANGED <<pc[u], train[u], position[u], route[u], current[u], ahead[u], status[u]>>
    BY <1>0, <1>10 DEF Act, Goto, RouteStatus
  <2>2. UNCHANGED owner /\ (u \notin disturbed' => u \notin disturbed)
    BY <1>10 DEF Act
  <2> QED BY <2>1, <2>2
<1> QED BY <1>1, <1>2, <1>3, <1>4, <1>5, <1>6, <1>7, <1>8, <1>9, <1>10 DEF Driver

\* So what is said of a train stays true while another one is driven.
LEMMA OthersStay ==
  ASSUME IInv, NEW t \in Trains, NEW u \in Trains \ {t}, Driver(t) \/ World(t)
  PROVE  Fine(u)'
<1>1. /\ UNCHANGED <<pc[u], train[u], position[u], route[u], current[u], ahead[u], status[u]>>
      /\ u \notin disturbed' =>
           u \notin disturbed /\ \A s \in Pieces : owner'[s] = u <=> owner[s] = u
  BY OthersKeep DEF IInv
<1>2. Located(u) /\ Routed(u) /\ Quiet(u)
  BY DEF IInv, Fine
<1>3. Located(u)'
  BY <1>1, <1>2 DEF Located
<1>4. Routed(u)'
  BY <1>1, <1>2 DEF Routed
<1>5. Quiet(u)'
  BY <1>1, <1>2 DEF Quiet, AtRest
<1>6. ASSUME u \notin disturbed' PROVE (Believes(u) /\ KeepsArc(u))'
  <2>1. Believes(u) /\ KeepsArc(u)
    BY <1>1, <1>6 DEF IInv, Fine
  <2>2. \A k \in DOMAIN route[u] : Piece(route[u][k].node) \in Pieces
    <3>1. \A k \in DOMAIN route[u] : route[u][k] \in RouteNodes
      BY <1>2, Elements DEF Routed
    <3> QED BY <3>1, PieceOf DEF RouteNodes
  <2>3. \A n : PassesOnce(u, n)' = PassesOnce(u, n)
    BY <1>1 DEF PassesOnce, Piece
  <2>4. Believes(u)'
    BY <1>1, <1>6, <2>1, <2>2, <2>3 DEF Believes, Executing, Piece
  <2>5. KeepsArc(u)'
    BY <1>1, <1>6, <2>1 DEF KeepsArc, Piece, Dest
  <2> QED BY <2>4, <2>5
<1> QED BY <1>3, <1>4, <1>5, <1>6 DEF Fine

LEMMA TypedKept ==
  ASSUME IInv, NEW t \in Trains, Driver(t) \/ World(t)
  PROVE  Typed'
<1>0. Typed /\ Fine(t)
  BY DEF IInv
<1> USE DEF Typed
<1>1. CASE Where(t) \/ NotTracked(t) \/ FindPath(t) \/ AskWhere(t)
  BY <1>0, <1>1 DEF Where, NotTracked, FindPath, AskWhere, WhereIs, Goto, world, driving
<1>2. CASE Stop(t) \/ Retry(t) \/ Reverse(t) \/ Mark(t)
  BY <1>0, <1>2 DEF Stop, Retry, Reverse, Mark, TrainSetSpeed, Goto, world, driving
<1>3. CASE World(t)
  <2>1. CASE Move(t)
    BY <1>0, <2>1 DEF Move, driving
  <2>2. CASE Tick(t) \/ TimedStop(t)
    BY <1>0, <2>2 DEF Tick, TimedStop, TrainSetSpeed, driving
  <2> QED BY <1>3, <2>1, <2>2 DEF World
<1>4. CASE PollLost(t) \/ Poll(t) \/ Wait(t) \/ WaitExpires(t)
  BY <1>0, <1>4, ZenonT(40) DEF PollLost, Poll, Wait, WaitExpires, WhereIs, RouteStatus, Goto
<1>5. CASE Refused(t)
  BY <1>0, <1>5 DEF Refused, TrainSetSpeed, RouteStatus, Goto
<1>6. CASE Complete(t)
  <2>1. owner' \in [Pieces -> Trains \cup {Nobody}]
    BY <1>0, <1>6, StartsOver DEF Complete
  <2> QED BY <1>0, <1>6, <2>1 DEF Complete, Goto, driving
<1>7. CASE Begin(t)
  <2>1. owner' \in [Pieces -> Trains \cup {Nobody}]
    BY <1>0, <1>7, StartsOver DEF Begin
  <2> QED BY <1>0, <1>7, <2>1 DEF Begin, Goto
<1>8. CASE Behind(t)
  BY <1>0, <1>8 DEF Behind, Goto
<1>9. CASE Reserve(t)
  <2>1. owner' \in [Pieces -> Trains \cup {Nobody}]
    BY <1>0, <1>9 DEF Reserve
  <2> QED BY <1>0, <1>9, <2>1 DEF Reserve, Goto
<1>10. CASE Act(t)
  <2>1. switches' = switches \/ switches' = Acted(route[t], ahead[t].at)
    BY <1>10 DEF Act
  <2>2. switches' \in [Branches -> {0, 1}]
    BY <1>0, <2>1, ActedTyped
  <2> QED BY <1>0, <1>10, <2>2 DEF Act, Goto, RouteStatus
<1> QED BY <1>1, <1>2, <1>3, <1>4, <1>5, <1>6, <1>7, <1>8, <1>9, <1>10 DEF Driver
-----------------------------------------------------------------------------
(***************************************************************************)
(* The driven train.                                                       *)
(***************************************************************************)
\* A route is one node after the other of the arc and the path, none of them
\* marked, and only its end is a destination.
LEMMA RouteIsFresh ==
  ASSUME NEW arc \in Arcs, NEW path \in Seq([node : Nodes, edge : 0 .. 2]), path # <<>>,
         \A k \in 1 .. Len(path) - 1 : <<path[k].node, path[k].edge>> \in Arcs
  PROVE  LET r == PathToRoute(path, arc)
         IN  /\ r \in Seq(RouteNodes)
             /\ \A k \in DOMAIN r : /\ r[k].action = 4 => k = Len(r)
                                    /\ ~r[k].reserved /\ ~r[k].acted
<1> DEFINE Fresh == {n \in RouteNodes : n.action # 4 /\ ~n.reserved /\ ~n.acted}
           first == IF path[1].node = reverse[arc[1]]
                    THEN <<RouteNode(arc[1], 3, 0), RouteNode(reverse[Dest(arc)], 0, Dist(arc))>>
                    ELSE <<RouteNode(arc[1], 0, Dist(arc))>>
           way == [k \in 1 .. Len(path) - 1 |->
                     RouteNode(path[k].node,
                               IF type[path[k].node] = "NODE_BRANCH" THEN path[k].edge ELSE 0,
                               Dist(<<path[k].node, path[k].edge>>))]
           last == RouteNode(path[Len(path)].node, 4, 0)
<1>1. /\ arc[1] \in Nodes /\ Dist(arc) \in Nat /\ reverse[Dest(arc)] \in Nodes
  BY ArcEnds, RouteDriverAssumption
<1>2. \A n \in Nodes, a \in 0 .. 3, d \in Nat : RouteNode(n, a, d) \in Fresh
  BY DEF RouteNode, RouteNodes
<1>3. first \in Seq(Fresh)
  <2>1. RouteNode(arc[1], 3, 0) \in Fresh /\ RouteNode(reverse[Dest(arc)], 0, Dist(arc)) \in Fresh
    BY <1>1, <1>2
  <2>2. RouteNode(arc[1], 0, Dist(arc)) \in Fresh
    BY <1>1, <1>2
  <2> HIDE DEF Fresh
  <2> QED BY <2>1, <2>2
<1>4. \A k \in 1 .. Len(path) : path[k].node \in Nodes /\ path[k].edge \in 0 .. 2
  <2> DEFINE X == [node : Nodes, edge : 0 .. 2]
  <2>1. \A s \in Seq(X) : \A k \in DOMAIN s : s[k] \in X
    BY Elements
  <2>2. \A x \in X : x.node \in Nodes /\ x.edge \in 0 .. 2
    OBVIOUS
  <2> HIDE DEF X
  <2>3. path \in Seq(X)
    BY DEF X
  <2>4. DOMAIN path = 1 .. Len(path)
    BY <2>3
  <2> QED BY <2>1, <2>2, <2>3, <2>4
<1>5. Len(path) \in Nat /\ Len(path) >= 1
  BY SMT
<1>6. way \in Seq(Fresh)
  <2>1. ASSUME NEW k \in 1 .. Len(path) - 1 PROVE way[k] \in Fresh
    <3>1. path[k].node \in Nodes /\ path[k].edge \in 0 .. 2
      BY <1>4, <1>5
    <3>2. Dist(<<path[k].node, path[k].edge>>) \in Nat
      BY ArcEnds
    <3> QED BY <1>2, <3>1, <3>2
  <2> HIDE DEF Fresh
  <2>2. way \in [1 .. Len(path) - 1 -> Fresh]
    BY <2>1
  <2> QED BY <1>5, <2>2
<1>7. last \in RouteNodes /\ ~last.reserved /\ ~last.acted
  <2>1. path[Len(path)].node \in Nodes
    BY <1>4, <1>5
  <2> QED BY <2>1 DEF RouteNode, RouteNodes
<1>8. PathToRoute(path, arc) = first \o way \o <<last>>
  BY DEF PathToRoute
<1> HIDE DEF first, way, last, Fresh
<1>9. PICK w \in Seq(Fresh) : w = first \o way
  BY <1>3, <1>6, ConcatProperties
<1>10. PathToRoute(path, arc) = Append(w, last)
  BY <1>7, <1>8, <1>9
<1>11. \A x \in Fresh : x \in RouteNodes /\ x.action # 4 /\ ~x.reserved /\ ~x.acted
  BY DEF Fresh
<1>12. /\ Len(Append(w, last)) = Len(w) + 1 /\ Append(w, last)[Len(w) + 1] = last
       /\ \A k \in 1 .. Len(w) : Append(w, last)[k] = w[k] /\ w[k] \in Fresh
       /\ DOMAIN Append(w, last) = 1 .. Len(w) + 1 /\ Len(w) \in Nat
  BY <1>9
<1>13. w \in Seq(RouteNodes)
  BY <1>9, <1>11, <1>12
<1>14. Append(w, last) \in Seq(RouteNodes)
  BY <1>7, <1>13
<1> QED BY <1>7, <1>10, <1>11, <1>12, <1>14

\* What dijkstra_find answers leads from an end of the arc to the next node and on.
LEMMA PathLeadsOn ==
  ASSUME NEW a \in Arcs, NEW g \in GoalNodes, NEW n \in Nodes \cup {NoNode},
         NEW path \in Paths[<<a, g, n>>]
  PROVE  /\ path \in Seq([node : Nodes, edge : 0 .. 2])
         /\ path # <<>> => path[1].node \in {reverse[a[1]], Dest(a)}
         /\ \A k \in 1 .. Len(path) - 1 :
              LET b == <<path[k].node, path[k].edge>>
              IN  b \in Arcs /\ Dest(b) = path[k + 1].node
BY PathAssumption DEF GoalNodes

\* While a driver changes neither the marks of its route nor owners, it may only
\* go from one step of the route to the next.
LEMMA BeliefStays ==
  ASSUME NEW t \in Trains, t \notin disturbed' => Believes(t),
         UNCHANGED <<owner, route[t]>>, Executing(t)' => Executing(t), pc'[t] # "done"
  PROVE  t \notin disturbed' => (Believes(t) /\ KeepsArc(t))'
<1>1. \A n : PassesOnce(t, n)' = PassesOnce(t, n)
  BY DEF PassesOnce, Piece
<1> QED BY <1>1 DEF Believes, KeepsArc, Piece

\* train_route_worker, but for its two requests to start over.
LEMMA WorkerKeeps ==
  ASSUME IInv, NEW t \in Trains,
         \/ Where(t) \/ NotTracked(t) \/ FindPath(t)
         \/ Stop(t) \/ Retry(t) \/ AskWhere(t)
  PROVE  Fine(t)'
<1>0. Typed /\ Fine(t) /\ Located(t) /\ Routed(t) /\ Quiet(t)
  BY DEF IInv, Fine
<1> USE <1>0 DEF Typed
<1>1. CASE Where(t)
  <2>1. /\ UNCHANGED <<train, owner, route, current, ahead, status, disturbed>>
        /\ pc[t] = "where" /\ pc'[t] = "path" /\ position'[t] = train[t]
    BY <1>1 DEF Where, WhereIs, Goto
  <2>2. (Located(t) /\ Routed(t) /\ Quiet(t))'
    BY <2>1 DEF Located, Routed, Quiet, AtRest
  <2> QED BY <2>1, <2>2 DEF Fine, Believes, KeepsArc, Executing
<1>2. CASE NotTracked(t)
  <2>1. /\ UNCHANGED <<train, position, owner, route, current, ahead, status, disturbed>>
        /\ pc[t] = "where" /\ pc'[t] = "no train"
    BY <1>2 DEF NotTracked, Goto, world, driving
  <2>2. (Located(t) /\ Routed(t) /\ Quiet(t))'
    BY <2>1 DEF Located, Routed, Quiet, AtRest
  <2> QED BY <2>1, <2>2 DEF Fine, Believes, KeepsArc, Executing
<1>3. CASE FindPath(t)
  <2>1. /\ UNCHANGED <<train, position, owner, current, ahead, status, disturbed>>
        /\ pc[t] = "path" /\ pc'[t] \in {"start", "end"}
    BY <1>3 DEF FindPath, Goto, world
  <2>2. (Located(t) /\ Quiet(t))'
    BY <2>1 DEF Located, Quiet, AtRest
  <2>i. status[t].info \in Nodes \cup {NoNode}
    BY DEF Routed
  <2>3. PICK n \in Nodes \cup {NoNode} : \E path \in Paths[<<position[t].arc, goal[t], n>>] :
             \/ path = <<>> /\ pc'[t] = "end" /\ UNCHANGED route
             \/ /\ path # <<>> /\ pc'[t] = "start"
                /\ route'[t] = PathToRoute(path, position[t].arc)
    BY <1>3, <2>i, ZenonT(40) DEF FindPath, Goto
  <2>p. PICK path \in Paths[<<position[t].arc, goal[t], n>>] :
             \/ path = <<>> /\ pc'[t] = "end" /\ UNCHANGED route
             \/ /\ path # <<>> /\ pc'[t] = "start"
                /\ route'[t] = PathToRoute(path, position[t].arc)
    BY <2>3
  <2>4. position[t].arc \in Arcs /\ goal[t] \in GoalNodes
    BY DEF Located
  <2>5. /\ path \in Seq([node : Nodes, edge : 0 .. 2])
        /\ \A k \in 1 .. Len(path) - 1 : <<path[k].node, path[k].edge>> \in Arcs
    BY <2>p, <2>4, PathLeadsOn
  <2>6. Routed(t)'
    <3>1. CASE path = <<>>
      BY <2>1, <2>p, <3>1 DEF Routed
    <3>2. CASE path # <<>>
      <4>1. PICK r : r = PathToRoute(path, position[t].arc)
        OBVIOUS
      <4>2. /\ r \in Seq(RouteNodes)
            /\ \A k \in DOMAIN r : /\ r[k].action = 4 => k = Len(r)
                                   /\ ~r[k].reserved
        BY <2>4, <2>5, <3>2, <4>1, RouteIsFresh
      <4>3. route'[t] = r
        BY <2>p, <3>2, <4>1
      <4> QED BY <2>1, <2>p, <3>2, <4>2, <4>3 DEF Routed
    <3> QED BY <3>1, <3>2
  <2> QED BY <2>1, <2>2, <2>6 DEF Fine, Believes, KeepsArc, Executing
<1>4. CASE Stop(t)
  <2>1. /\ UNCHANGED <<position, owner, route, current, ahead, status, disturbed>>
        /\ pc[t] = "stop" /\ pc'[t] = "rest"
        /\ train'[t] = [train[t] EXCEPT !.speed = 0, !.timed = -1]
    BY <1>4 DEF Stop, TrainSetSpeed, Goto, driving
  <2>2. (Located(t) /\ Routed(t) /\ Quiet(t))'
    BY <2>1 DEF Located, Routed, Quiet
  <2> QED BY <2>1, <2>2 DEF Fine, Believes, KeepsArc, Executing
<1>5. CASE Retry(t)
  <2>1. /\ UNCHANGED <<train, position, owner, route, current, ahead, status, disturbed>>
        /\ AtRest(t) /\ pc[t] = "rest" /\ pc'[t] \in {"end", "path"}
    BY <1>5 DEF Retry, Goto, world, driving
  <2>2. (Located(t) /\ Routed(t) /\ Quiet(t))'
    BY <2>1 DEF Located, Routed, Quiet, AtRest
  <2> QED BY <2>1, <2>2 DEF Fine, Believes, KeepsArc, Executing
<1>6. CASE AskWhere(t)
  <2>1. /\ UNCHANGED <<train, owner, route, current, ahead, status, disturbed>>
        /\ pc[t] = "end" /\ pc'[t] = "release" /\ position'[t] = train[t]
    BY <1>6 DEF AskWhere, WhereIs, Goto
  <2>2. (Located(t) /\ Routed(t) /\ Quiet(t))'
    BY <2>1 DEF Located, Routed, Quiet, AtRest
  <2> QED BY <2>1, <2>2 DEF Fine, Believes, KeepsArc, Executing
<1> QED BY <1>1, <1>2, <1>3, <1>4, <1>5, <1>6

\* The two requests to start over, and the reversal between them.
LEMMA StartOverKeeps ==
  ASSUME IInv, NEW t \in Trains, Complete(t) \/ Begin(t) \/ Reverse(t)
  PROVE  Fine(t)'
<1>0. Typed /\ Fine(t) /\ Located(t) /\ Routed(t) /\ Quiet(t)
  BY DEF IInv, Fine
<1> USE <1>0 DEF Typed
<1>1. CASE Complete(t)
  <2>1. /\ UNCHANGED <<train, position, route, current, ahead, status>>
        /\ pc[t] = "release" /\ pc'[t] = "done"
        /\ position[t].arc = train[t].arc
        /\ ReleaseAll(t, train[t].arc)
    BY <1>1 DEF Complete, Goto, driving, Quiet
  <2>2. (Located(t) /\ Routed(t) /\ Quiet(t))'
    BY <2>1 DEF Located, Routed, Quiet, AtRest
  <2>3. {Piece(train[t].arc[1]), Piece(Dest(train[t].arc))} \subseteq Pieces
    BY ArcEnds, PieceOf DEF Located
  <2>4. t # Nobody
    BY RouteDriverAssumption
  <2>5. {s \in Pieces : owner'[s] = t} = {Piece(train[t].arc[1]), Piece(Dest(train[t].arc))}
    BY <2>1, <2>3, <2>4 DEF ReleaseAll
  <2>6. KeepsArc(t)'
    BY <2>1, <2>5 DEF KeepsArc, Piece, Dest
  <2> QED BY <2>1, <2>2, <2>6 DEF Fine, Believes, Executing
<1>2. CASE Begin(t)
  <2>1. /\ UNCHANGED <<position, route, ahead, status>>
        /\ pc[t] = "start" /\ pc'[t] \in {"reverse", "poll"}
        /\ DOMAIN train'[t] = DOMAIN train[t] /\ train'[t].arc = train[t].arc
    BY <1>2 DEF Begin, Goto, Located
  <2>2. (Located(t) /\ Routed(t) /\ Quiet(t))'
    BY <2>1 DEF Located, Routed, Quiet
  <2>3. \A k \in DOMAIN route'[t] : ~route'[t][k].reserved
    BY <2>1 DEF Routed
  <2> QED BY <2>1, <2>2, <2>3 DEF Fine, Believes, KeepsArc, Executing
<1>3. CASE Reverse(t)
  <2>1. /\ UNCHANGED <<position, route, current, ahead, status, owner, disturbed>>
        /\ pc[t] = "reverse" /\ pc'[t] = "poll"
        /\ DOMAIN train'[t] = DOMAIN train[t] /\ train'[t].arc = ReverseArc(train[t].arc)
    BY <1>3 DEF Reverse, Goto, Located, driving
  <2>2. train'[t].arc \in Arcs
    BY <2>1, ArcEnds DEF Located
  <2>3. (Located(t) /\ Routed(t) /\ Quiet(t))'
    BY <2>1, <2>2 DEF Located, Routed, Quiet
  <2>4. \A k \in DOMAIN route'[t] : ~route'[t][k].reserved
    BY <2>1 DEF Routed
  <2> QED BY <2>1, <2>3, <2>4 DEF Fine, Believes, KeepsArc, Executing
<1> QED BY <1>1, <1>2, <1>3

\* The train moves, its marker comes in sight, or its stop task stops it: none of
\* these happens to one that is at rest but the last, which leaves it so.
LEMMA WorldKeeps ==
  ASSUME IInv, NEW t \in Trains, World(t)
  PROVE  Fine(t)'
<1>0. Typed /\ Fine(t) /\ Located(t) /\ Routed(t) /\ Quiet(t)
  BY DEF IInv, Fine
<1> USE <1>0 DEF Typed
<1>1. UNCHANGED <<pc, position, route, current, ahead, status, owner, disturbed>>
  BY DEF World, Move, Tick, TimedStop, driving
<1>2. /\ DOMAIN train'[t] = DOMAIN train[t]
      /\ train'[t].arc \in Arcs
      /\ AtRest(t) => AtRest(t)' /\ train'[t].arc = train[t].arc
  <2>1. CASE Move(t)
    <3>1. PICK arc : /\ arc # NoArc
                     /\ arc = IF train[t].travelled < Dist(train[t].arc) THEN train[t].arc
                              ELSE NextArc(train[t].arc)
                     /\ DOMAIN train'[t] = DOMAIN train[t] /\ train'[t].arc = arc
      <4> DEFINE stays == train[t].travelled < Dist(train[t].arc)
                 arc == IF stays THEN train[t].arc ELSE NextArc(train[t].arc)
      <4>1. /\ arc # NoArc
            /\ train' = [train EXCEPT
                 ![t].arc = arc,
                 ![t].travelled = IF stays THEN @ + 1 ELSE 1,
                 ![t].timed = IF @ > 0 THEN @ - 1 ELSE @,
                 ![t].stop_dist = IF train[t].speed = 0 THEN @ - 1
                                  ELSE IF @ < STOP_DIST THEN @ + 1 ELSE @]
        BY <2>1 DEF Move
      <4> HIDE DEF arc
      <4>2. DOMAIN train'[t] = DOMAIN train[t] /\ train'[t].arc = arc
        BY <4>1 DEF Located
      <4> QED BY <4>1, <4>2 DEF arc
    <3>2. arc \in Arcs
      BY <3>1, NextArcIsArc DEF Located
    <3>3. ~AtRest(t)
      BY <2>1 DEF Move
    <3> QED BY <3>1, <3>2, <3>3
  <2>2. CASE Tick(t)
    <3>1. DOMAIN train'[t] = DOMAIN train[t] /\ train'[t].arc = train[t].arc
      BY <2>2 DEF Tick, Located
    <3>2. ~AtRest(t)
      BY <2>2 DEF Tick, StopDue, AtRest
    <3> QED BY <3>1, <3>2 DEF Located
  <2>3. CASE TimedStop(t)
    BY <2>3 DEF TimedStop, TrainSetSpeed, Located, AtRest
  <2> QED BY <2>1, <2>2, <2>3 DEF World
<1>3. (Located(t) /\ Routed(t) /\ Quiet(t))'
  BY <1>1, <1>2 DEF Located, Routed, Quiet
<1>4. Executing(t)' => Executing(t)
  BY <1>1 DEF Executing
<1>5. \A n : PassesOnce(t, n)' = PassesOnce(t, n)
  BY <1>1 DEF PassesOnce, Piece
<1>6. Believes(t)' = Believes(t)
  BY <1>1, <1>5 DEF Believes, Executing, Piece
<1>7. KeepsArc(t) => KeepsArc(t)'
  BY <1>1, <1>2 DEF KeepsArc, Quiet, Piece, Dest
<1> QED BY <1>1, <1>3, <1>6, <1>7 DEF Fine

\* Where the train was found is a node of its route.
LEMMA FoundOnRoute ==
  ASSUME NEW t \in Trains, route[t] \in Seq(RouteNodes), Found(t) # {}
  PROVE  FirstFound(t) \in DOMAIN route[t]
<1>1. Found(t) \in SUBSET (1 .. Len(route[t])) /\ Found(t) \in SUBSET Nat
  BY DEF Found
<1>2. \E k \in Found(t) : \A l \in Found(t) : k <= l
  BY <1>1, LeastOne
<1>3. FirstFound(t) \in Found(t)
  BY <1>2 DEF FirstFound
<1> QED BY <1>1, <1>3

\* The steps of execute_route that change neither owners nor marks.
LEMMA ExecuteKeeps ==
  ASSUME IInv, NEW t \in Trains,
         \/ PollLost(t) \/ Poll(t) \/ Wait(t) \/ WaitExpires(t) \/ Mark(t) \/ Refused(t)
  PROVE  Fine(t)'
<1>0. Typed /\ Fine(t) /\ Located(t) /\ Routed(t) /\ Quiet(t)
  BY DEF IInv, Fine
<1> USE <1>0 DEF Typed
<1>1. CASE PollLost(t) \/ Poll(t)
  <2>1. /\ UNCHANGED <<train, route, ahead, owner, disturbed>>
        /\ pc[t] = "poll" /\ pc'[t] \in {"behind", "stop"}
        /\ position'[t] = train[t] /\ status'[t].info \in {status[t].info, NoNode}
    <3>1. CASE PollLost(t)
      BY <3>1 DEF PollLost, WhereIs, RouteStatus, Goto
    <3>2. CASE Poll(t)
      <4>1. /\ UNCHANGED <<train, route, ahead, owner, disturbed>>
            /\ pc[t] = "poll" /\ position'[t] = train[t]
        BY <3>2 DEF Poll, WhereIs
      <4>2. \/ RouteStatus(t, 0, TRUE, NoNode) /\ Goto(t, "stop")
            \/ UNCHANGED status /\ Goto(t, "behind")
        BY <3>2 DEF Poll
      <4>3. pc'[t] \in {"behind", "stop"} /\ status'[t].info \in {status[t].info, NoNode}
        <5>1. CASE RouteStatus(t, 0, TRUE, NoNode) /\ Goto(t, "stop")
          BY <5>1 DEF RouteStatus, Goto
        <5>2. CASE UNCHANGED status /\ Goto(t, "behind")
          BY <5>2 DEF Goto
        <5> QED BY <4>2, <5>1, <5>2
      <4> QED BY <4>1, <4>3
    <3> QED BY <1>1, <3>1, <3>2
  <2>2. pc'[t] = "behind" => current'[t] = FirstFound(t) /\ Found(t) # {}
    BY <1>1 DEF PollLost, Poll, Goto
  <2>3. pc'[t] = "behind" => current'[t] \in DOMAIN route[t]
    BY <2>2, FoundOnRoute DEF Routed
  <2>4. (Located(t) /\ Routed(t) /\ Quiet(t))'
    BY <2>1, <2>3 DEF Located, Routed, Quiet
  <2> QED BY <2>1, <2>4, BeliefStays DEF Fine, Executing
<1>2. CASE Wait(t) \/ WaitExpires(t)
  <2>1. /\ UNCHANGED <<train, route, current, ahead, owner, disturbed>>
        /\ pc[t] = "wait" /\ pc'[t] \in {"wait", "stop"}
        /\ position'[t] = train[t] /\ status'[t].info \in {status[t].info, NoNode}
    <3>1. CASE Wait(t)
      BY <3>1 DEF Wait, WhereIs, Goto
    <3>2. CASE WaitExpires(t)
      BY <3>2 DEF WaitExpires, WhereIs, RouteStatus, Goto
    <3> QED BY <1>2, <3>1, <3>2
  <2>2. (Located(t) /\ Routed(t) /\ Quiet(t))'
    BY <2>1 DEF Located, Routed, Quiet
  <2> QED BY <2>1, <2>2, BeliefStays DEF Fine, Executing
<1>3. CASE Mark(t)
  <2>1. /\ UNCHANGED <<position, route, current, ahead, owner, disturbed, status>>
        /\ pc[t] = "mark" /\ pc'[t] = "poll"
        /\ DOMAIN train'[t] = DOMAIN train[t] /\ train'[t].arc = train[t].arc
    BY <1>3 DEF Mark, Goto, Located
  <2>2. (Located(t) /\ Routed(t) /\ Quiet(t))'
    BY <2>1 DEF Located, Routed, Quiet
  <2> QED BY <2>1, <2>2, BeliefStays DEF Fine, Executing
<1>4. CASE Refused(t)
  <2>1. /\ UNCHANGED <<position, route, current, owner, disturbed>>
        /\ pc[t] = "ahead" /\ pc'[t] \in {"ahead", "stop"}
        /\ DOMAIN train'[t] = DOMAIN train[t] /\ train'[t].arc = train[t].arc
        /\ DOMAIN ahead'[t] = DOMAIN ahead[t] /\ ahead'[t].at = ahead[t].at
        /\ status'[t].info \in {status[t].info, route[t][ahead[t].at].node}
    <3>1. UNCHANGED <<position, route, current, owner, disturbed>> /\ pc[t] = "ahead"
      BY <1>4 DEF Refused
    <3>2. CASE ahead[t].tries = 0
      <4>1. /\ UNCHANGED <<pc, status>> /\ TrainSetSpeed(t, 0)
            /\ ahead' = [ahead EXCEPT ![t].tries = 1]
        BY <1>4, <3>2 DEF Refused
      <4>2. DOMAIN train'[t] = DOMAIN train[t] /\ train'[t].arc = train[t].arc
        BY <4>1 DEF TrainSetSpeed, Located
      <4>3. DOMAIN ahead'[t] = DOMAIN ahead[t] /\ ahead'[t].at = ahead[t].at
        BY <4>1 DEF Routed
      <4> QED BY <3>1, <4>1, <4>2, <4>3
    <3>3. CASE ahead[t].tries # 0
      <4>1. /\ RouteStatus(t, 1, FALSE, route[t][ahead[t].at].node) /\ Goto(t, "stop")
            /\ UNCHANGED <<train, ahead>>
        BY <1>4, <3>3 DEF Refused
      <4>2. /\ pc'[t] = "stop"
            /\ status'[t].info = route[t][ahead[t].at].node
        BY <4>1 DEF RouteStatus, Goto
      <4> QED BY <3>1, <4>1, <4>2
    <3> QED BY <3>2, <3>3
  <2>2. route[t][ahead[t].at].node \in Nodes
    <3>1. route[t][ahead[t].at] \in RouteNodes
      BY <2>1, Elements DEF Routed
    <3> QED BY <3>1 DEF RouteNodes
  <2>3. (Located(t) /\ Routed(t) /\ Quiet(t))'
    BY <2>1, <2>2 DEF Located, Routed, Quiet
  <2> QED BY <2>1, <2>3, BeliefStays DEF Fine, Executing
<1> QED BY <1>1, <1>2, <1>3, <1>4
-----------------------------------------------------------------------------
(***************************************************************************)
(* The marks of the route.                                                 *)
(***************************************************************************)
\* lookbehind_node frees nodes that were reserved.
LEMMA FreedWasReserved ==
  ASSUME NEW r \in Seq(RouteNodes), NEW now \in DOMAIN r, NEW j \in Freed(r, now)
  PROVE  j \in DOMAIN r /\ r[j].reserved
<1>1. j \in 1 .. now - 1 /\ now \in 1 .. Len(r) /\ Len(r) \in Nat
  BY DEF Freed
<1>2. r[j].reserved
  BY <1>1 DEF Freed
<1> QED BY <1>1, <1>2

LEMMA Forgotten ==
  ASSUME NEW r \in Seq(RouteNodes), NEW freed
  PROVE  /\ Forget(r, freed) \in Seq(RouteNodes)
         /\ Len(Forget(r, freed)) = Len(r) /\ DOMAIN Forget(r, freed) = DOMAIN r
         /\ \A k \in DOMAIN r :
              /\ Forget(r, freed)[k].node = r[k].node
              /\ Forget(r, freed)[k].action = r[k].action
              /\ Forget(r, freed)[k].arc_dist = r[k].arc_dist
              /\ Forget(r, freed)[k].acted = r[k].acted
              /\ Forget(r, freed)[k].reserved <=> r[k].reserved /\ k \notin freed
<1> DEFINE f == Forget(r, freed)
<1>1. \A k \in DOMAIN r : r[k] \in RouteNodes
  BY Elements
<1>2. Len(r) \in Nat /\ DOMAIN r = 1 .. Len(r)
  OBVIOUS
<1>3. \A k \in DOMAIN r : f[k] = IF k \in freed THEN [r[k] EXCEPT !.reserved = FALSE] ELSE r[k]
  BY <1>2 DEF Forget
<1>4. \A k \in DOMAIN r :
        /\ f[k] \in RouteNodes /\ f[k].node = r[k].node
        /\ f[k].action = r[k].action /\ f[k].arc_dist = r[k].arc_dist /\ f[k].acted = r[k].acted
        /\ f[k].reserved <=> r[k].reserved /\ k \notin freed
  BY <1>1, <1>3 DEF RouteNodes
<1>5. f \in [1 .. Len(r) -> RouteNodes]
  BY <1>2, <1>4 DEF Forget
<1>6. f \in Seq(RouteNodes) /\ Len(f) = Len(r) /\ DOMAIN f = DOMAIN r
  BY <1>2, <1>5
<1> QED BY <1>4, <1>6

\* PassesOnce of a route r.
Once(r, n) ==
  \A j, k \in DOMAIN r :
    /\ Piece(r[j].node) = Piece(n) /\ (r[j].action > 0 => r[j].acted)
    /\ Piece(r[k].node) = Piece(n) /\ (r[k].action > 0 => r[k].acted)
    => j = k

\* What a driver believes after a step that leaves it with the route r.
LEMMA BelievesNext ==
  ASSUME NEW t \in Trains, NEW r, route'[t] = r,
         \A k \in DOMAIN r : r[k].reserved /\ Once(r, r[k].node) => owner'[Piece(r[k].node)] = t
  PROVE  Believes(t)'
<1>1. \A n : PassesOnce(t, n)' => Once(r, n)
  BY DEF PassesOnce, Once, Piece
<1>2. ASSUME NEW k \in DOMAIN r, r[k].reserved, NEW n, n = r[k].node, PassesOnce(t, n)'
      PROVE  owner'[Piece(n)] = t
  BY <1>1, <1>2
<1> QED BY <1>2 DEF Believes, Piece

\* Looking behind gives back a piece with the last mark that the train has on it,
\* if its route passes the piece once.
LEMMA BehindKeeps ==
  ASSUME IInv, NEW t \in Trains, Behind(t)
  PROVE  Fine(t)'
<1>0. Typed /\ Fine(t) /\ Located(t) /\ Routed(t) /\ Quiet(t)
  BY DEF IInv, Fine
<1> DEFINE r == route[t]
           freed == Freed(r, current[t])
           left == Forget(r, freed)
<1>1. /\ UNCHANGED <<train, position, current, status, disturbed>>
      /\ pc[t] = "behind" /\ pc'[t] = "ahead" /\ route'[t] = left
      /\ ahead'[t] = [at |-> current[t], left |-> Lookahead(position[t]),
                      reached_zero |-> FALSE, tries |-> 0]
  BY <1>0 DEF Behind, Goto, Typed
<1>2. \A s \in Pieces : owner'[s] = IF s \in {Piece(r[k].node) : k \in freed} /\ owner[s] = t
                                    THEN Nobody ELSE owner[s]
  BY DEF Behind
<1>3. r \in Seq(RouteNodes) /\ current[t] \in DOMAIN r
  BY <1>0, <1>1 DEF Routed
<1>4. \A k \in freed : k \in DOMAIN r /\ r[k].reserved
  BY <1>3, FreedWasReserved
<1>5. /\ left \in Seq(RouteNodes) /\ Len(left) = Len(r) /\ DOMAIN left = DOMAIN r
      /\ \A k \in DOMAIN r :
           /\ left[k].node = r[k].node /\ left[k].action = r[k].action
           /\ left[k].acted = r[k].acted
           /\ left[k].reserved <=> r[k].reserved /\ k \notin freed
  BY <1>3, Forgotten
<1>6. \A k \in DOMAIN r : /\ r[k].action = 4 => k = Len(r)
                          /\ r[k].reserved => r[k].action = 0 \/ r[k].acted
  BY <1>0, <1>1 DEF Routed
<1> HIDE DEF left, freed
<1>7. Located(t)' /\ Quiet(t)'
  BY <1>0, <1>1 DEF Located, Quiet
<1>8. Routed(t)'
  BY <1>0, <1>1, <1>3, <1>5, <1>6 DEF Routed
<1>9. ASSUME t \notin disturbed, NEW k \in DOMAIN left, left[k].reserved,
             Once(left, left[k].node)
      PROVE  owner'[Piece(left[k].node)] = t
  <2>1. k \in DOMAIN r /\ r[k].reserved /\ left[k].node = r[k].node /\ k \notin freed
    BY <1>5, <1>9
  <2>2. \A j, l \in DOMAIN r :
          /\ Piece(r[j].node) = Piece(r[k].node) /\ (r[j].action > 0 => r[j].acted)
          /\ Piece(r[l].node) = Piece(r[k].node) /\ (r[l].action > 0 => r[l].acted)
          => j = l
    BY <1>5, <1>9, <2>1 DEF Once
  <2>3. PassesOnce(t, r[k].node)
    BY <2>2 DEF PassesOnce
  <2>4. owner[Piece(r[k].node)] = t
    BY <1>0, <1>1, <1>9, <2>1, <2>3 DEF Fine, Believes, Executing
  <2>5. \A j \in DOMAIN r : r[j].reserved => (r[j].action > 0 => r[j].acted)
    BY <1>6
  <2>6. \A j \in freed : Piece(r[j].node) # Piece(r[k].node)
    BY <1>4, <2>1, <2>2, <2>5
  <2>7. Piece(r[k].node) \in Pieces
    <3>1. r[k] \in RouteNodes
      BY <1>3, <2>1, Elements
    <3> QED BY <3>1, PieceOf DEF RouteNodes
  <2> QED BY <1>2, <2>1, <2>4, <2>6, <2>7
<1>10. t \notin disturbed' => Believes(t)'
  BY <1>1, <1>9, BelievesNext
<1> QED BY <1>1, <1>7, <1>8, <1>10 DEF Fine, KeepsArc

\* lookahead_node marks the node it comes to as reserved, and then its action as
\* carried out.
LEMMA AheadMarks ==
  ASSUME IInv, NEW t \in Trains, Reserve(t) \/ Act(t)
  PROVE  LET r == route[t]
             k == ahead[t].at
             s == route'[t]
         IN  /\ r \in Seq(RouteNodes) /\ k \in DOMAIN r
             /\ s \in Seq(RouteNodes) /\ Len(s) = Len(r) /\ DOMAIN s = DOMAIN r
             /\ s[k].node = r[k].node /\ s[k].action = r[k].action
             /\ s[k].arc_dist = r[k].arc_dist
             /\ s[k].reserved
             /\ s[k].acted <=> r[k].acted \/ (Act(t) /\ r[k].action > 0)
             /\ \A i \in DOMAIN r : i # k => s[i] = r[i]
<1> DEFINE r == route[t]
           k == ahead[t].at
           node == IF Act(t) THEN [r[k] EXCEPT !.acted = @ \/ r[k].action > 0]
                   ELSE [r[k] EXCEPT !.reserved = TRUE]
           marked == [r EXCEPT ![k] = node]
<1>0. Typed /\ Routed(t)
  BY DEF IInv, Fine
<1>1. pc[t] \in {"ahead", "act"} /\ (Act(t) => pc[t] = "act")
  BY DEF Reserve, Act
<1>2. r \in Seq(RouteNodes) /\ k \in DOMAIN r /\ DOMAIN r = 1 .. Len(r) /\ Len(r) \in Nat
  BY <1>0, <1>1 DEF Routed
<1>3. r[k] \in RouteNodes /\ (Act(t) => r[k].reserved)
  <2>1. r[k] \in RouteNodes
    BY <1>2, Elements, Zenon
  <2> QED BY <1>0, <1>1, <2>1 DEF Routed
<1>4. route'[t] = marked
  <2>1. CASE Act(t)
    BY <1>0, <1>2, <1>3, <2>1 DEF Act, Typed, RouteNodes
  <2>2. CASE ~Act(t)
    BY <1>0, <1>2, <1>3, <2>2 DEF Reserve, Typed, RouteNodes
  <2> QED BY <2>1, <2>2
<1>5. /\ node \in RouteNodes /\ node.node = r[k].node /\ node.action = r[k].action
      /\ node.arc_dist = r[k].arc_dist
      /\ node.reserved /\ (node.acted <=> r[k].acted \/ (Act(t) /\ r[k].action > 0))
  <2>1. CASE Act(t)
    BY <1>3, <2>1 DEF RouteNodes
  <2>2. CASE ~Act(t)
    BY <1>3, <2>2 DEF RouteNodes
  <2> QED BY <2>1, <2>2
<1> HIDE DEF node
<1>6. marked \in Seq(RouteNodes) /\ Len(marked) = Len(r) /\ DOMAIN marked = DOMAIN r
  BY <1>2, <1>5
<1>7. marked[k] = node /\ \A i \in DOMAIN r : i # k => marked[i] = r[i]
  BY <1>2
<1> QED BY <1>2, <1>4, <1>5, <1>6, <1>7

\* lookahead_node reserves a node before it marks it.
LEMMA ReserveKeeps ==
  ASSUME IInv, NEW t \in Trains, Reserve(t)
  PROVE  Fine(t)'
<1>0. Typed /\ Fine(t) /\ Located(t) /\ Routed(t) /\ Quiet(t)
  BY DEF IInv, Fine
<1> DEFINE r == route[t]
           k == ahead[t].at
           marked == route'[t]
<1>1. /\ UNCHANGED <<train, position, current, status, disturbed>>
      /\ pc[t] = "ahead" /\ pc'[t] = "act"
      /\ owner' = IF r[k].reserved THEN owner ELSE [owner EXCEPT ![Piece(r[k].node)] = t]
      /\ r[k].reserved \/ owner[Piece(r[k].node)] \in {Nobody, t}
      /\ DOMAIN ahead'[t] = DOMAIN ahead[t] /\ ahead'[t].at = k
  <2>1. /\ UNCHANGED <<train, position, current, status, disturbed>> /\ pc[t] = "ahead"
        /\ owner' = IF r[k].reserved THEN owner ELSE [owner EXCEPT ![Piece(r[k].node)] = t]
        /\ r[k].reserved \/ owner[Piece(r[k].node)] \in {Nobody, t}
        /\ ahead' = [ahead EXCEPT ![t].tries = 0] /\ Goto(t, "act")
    BY DEF Reserve
  <2>2. DOMAIN ahead'[t] = DOMAIN ahead[t] /\ ahead'[t].at = k
    BY <1>0, <2>1 DEF Typed, Routed
  <2> QED BY <1>0, <2>1, <2>2 DEF Goto, Typed
<1>2. /\ r \in Seq(RouteNodes) /\ k \in DOMAIN r
      /\ marked \in Seq(RouteNodes) /\ Len(marked) = Len(r) /\ DOMAIN marked = DOMAIN r
      /\ marked[k].reserved
  BY AheadMarks
<1>3. \A i \in DOMAIN r : r[i] \in RouteNodes
  BY <1>2, Elements
<1>4. route'[t] = marked
  OBVIOUS
<1>5. \A i \in DOMAIN r :
        /\ marked[i].node = r[i].node /\ marked[i].action = r[i].action
        /\ marked[i].acted <=> r[i].acted
        /\ i # k => (marked[i].reserved <=> r[i].reserved)
  <2>1. ~Act(t)
    BY <1>1 DEF Act
  <2> QED BY <2>1, AheadMarks
<1> HIDE DEF marked
<1>6. Located(t)' /\ Quiet(t)'
  BY <1>0, <1>1 DEF Located, Quiet
<1>7. \A i \in DOMAIN marked :
        /\ marked[i].action = 4 => i = Len(marked)
        /\ marked[i].reserved => marked[i].action = 0 \/ marked[i].acted \/ i = k
  BY <1>0, <1>1, <1>2, <1>5 DEF Routed
<1>8. Routed(t)'
  BY <1>0, <1>1, <1>2, <1>4, <1>7 DEF Routed
<1>9. ASSUME t \notin disturbed, NEW i \in DOMAIN marked, marked[i].reserved,
             Once(marked, marked[i].node)
      PROVE  owner'[Piece(marked[i].node)] = t
  <2>1. i \in DOMAIN r /\ marked[i].node = r[i].node
    BY <1>2, <1>5
  <2>2. Piece(r[i].node) \in Pieces /\ Piece(r[k].node) \in Pieces
    BY <1>2, <1>3, <2>1, PieceOf DEF RouteNodes
  <2>3. CASE i = k /\ ~r[k].reserved
    BY <1>0, <1>1, <2>1, <2>2, <2>3 DEF Typed
  <2>4. CASE i # k \/ r[k].reserved
    <3>1. r[i].reserved
      BY <1>5, <1>9, <2>1, <2>4
    <3>2. PassesOnce(t, r[i].node)
      BY <1>2, <1>5, <1>9, <2>1 DEF PassesOnce, Once
    <3>3. owner[Piece(r[i].node)] = t
      BY <1>0, <1>1, <1>9, <2>1, <3>1, <3>2 DEF Fine, Believes, Executing
    <3> QED BY <1>0, <1>1, <2>1, <2>2, <3>3 DEF Typed
  <2> QED BY <2>3, <2>4
<1>10. t \notin disturbed' => Believes(t)'
  BY <1>1, <1>4, <1>9, BelievesNext
<1> QED BY <1>1, <1>6, <1>8, <1>10 DEF Fine, KeepsArc

\* An action that is carried out can only have more nodes meet.
LEMMA ActKeeps ==
  ASSUME IInv, NEW t \in Trains, Act(t)
  PROVE  Fine(t)'
<1>0. Typed /\ Fine(t) /\ Located(t) /\ Routed(t) /\ Quiet(t)
  BY DEF IInv, Fine
<1> DEFINE r == route[t]
           k == ahead[t].at
           marked == route'[t]
<1>1. /\ UNCHANGED <<train, position, current, owner>>
      /\ pc[t] = "act" /\ disturbed \subseteq disturbed'
  BY DEF Act
<1>2. /\ r \in Seq(RouteNodes) /\ k \in DOMAIN r
      /\ marked \in Seq(RouteNodes) /\ Len(marked) = Len(r) /\ DOMAIN marked = DOMAIN r
      /\ marked[k].action = r[k].action
      /\ marked[k].acted <=> r[k].acted \/ r[k].action > 0
  BY AheadMarks
<1>3. \A i \in DOMAIN r :
        /\ marked[i].node = r[i].node /\ marked[i].action = r[i].action
        /\ r[i].acted => marked[i].acted
        /\ marked[i].reserved <=> r[i].reserved
  <2>1. r[k].reserved
    BY <1>0, <1>1 DEF Routed
  <2> QED BY <2>1, AheadMarks
<1>4. route'[t] = marked /\ Len(r) \in Nat /\ DOMAIN r = 1 .. Len(r)
  BY <1>2
<1> HIDE DEF marked
<1>5. /\ pc'[t] \in {"ahead", "wait", "mark"}
      /\ DOMAIN ahead'[t] = {"at", "left", "reached_zero", "tries"}
      /\ pc'[t] = "ahead" => ahead'[t].at \in DOMAIN r
      /\ status'[t].info \in {status[t].info, NoNode}
  <2>1. \/ RouteStatus(t, 0, TRUE, NoNode) /\ Goto(t, "wait") /\ UNCHANGED ahead
        \/ RouteStatus(t, 0, FALSE, NoNode) /\ Goto(t, "mark") /\ UNCHANGED ahead
        \/ /\ k # Len(r) /\ Goto(t, "ahead") /\ UNCHANGED status
           /\ \E left, zero :
                ahead' = [ahead EXCEPT ![t] = [at |-> k + 1, left |-> left,
                                               reached_zero |-> zero, tries |-> 0]]
    BY DEF Act
  <2>2. CASE UNCHANGED ahead /\ pc'[t] \in {"wait", "mark"} /\ status'[t].info = NoNode
    BY <1>0, <2>2 DEF Routed
  <2>3. CASE RouteStatus(t, 0, TRUE, NoNode) /\ Goto(t, "wait") /\ UNCHANGED ahead
    BY <1>0, <2>2, <2>3 DEF RouteStatus, Goto, Typed
  <2>4. CASE RouteStatus(t, 0, FALSE, NoNode) /\ Goto(t, "mark") /\ UNCHANGED ahead
    BY <1>0, <2>2, <2>4 DEF RouteStatus, Goto, Typed
  <2>5. CASE /\ k # Len(r) /\ Goto(t, "ahead") /\ UNCHANGED status
             /\ \E left, zero :
                  ahead' = [ahead EXCEPT ![t] = [at |-> k + 1, left |-> left,
                                                 reached_zero |-> zero, tries |-> 0]]
    <3>1. PICK left, zero : ahead'[t] = [at |-> k + 1, left |-> left,
                                         reached_zero |-> zero, tries |-> 0]
      BY <1>0, <2>5 DEF Typed
    <3>2. k + 1 \in DOMAIN r
      BY <1>2, <1>4, <2>5
    <3>3. pc'[t] = "ahead"
      BY <1>0, <2>5 DEF Goto, Typed
    <3> QED BY <2>5, <3>1, <3>2, <3>3
  <2> QED BY <2>1, <2>3, <2>4, <2>5
<1>6. Located(t)' /\ Quiet(t)'
  BY <1>0, <1>1, <1>5 DEF Located, Quiet
<1>7. \A i \in DOMAIN r :
        /\ marked[i].action = 4 => i = Len(marked)
        /\ marked[i].reserved => marked[i].action = 0 \/ marked[i].acted
  <2> TAKE i \in DOMAIN r
  <2>1. CASE i = k
    <3>1. r[k].action = 0 \/ r[k].action > 0
      <4>1. r[k] \in RouteNodes
        BY <1>2, Elements
      <4>2. PICK a \in 0 .. 4 : a = r[k].action
        BY <4>1 DEF RouteNodes
      <4> QED BY <4>2
    <3> QED BY <1>0, <1>2, <2>1, <3>1 DEF Routed
  <2>2. CASE i # k
    BY <1>0, <1>2, <1>3, <2>2 DEF Routed
  <2> QED BY <2>1, <2>2
<1>8. Routed(t)'
  <2>1. status'[t].info \in Nodes \cup {NoNode}
    BY <1>0, <1>5 DEF Routed
  <2> QED BY <1>2, <1>4, <1>5, <1>7, <2>1 DEF Routed
<1>9. ASSUME t \notin disturbed, NEW i \in DOMAIN marked, marked[i].reserved,
             Once(marked, marked[i].node)
      PROVE  owner'[Piece(marked[i].node)] = t
  <2>1. i \in DOMAIN r /\ marked[i].node = r[i].node /\ r[i].reserved
    BY <1>2, <1>3, <1>9
  <2>2. PassesOnce(t, r[i].node)
    BY <1>2, <1>3, <1>9, <2>1 DEF PassesOnce, Once
  <2>3. owner[Piece(r[i].node)] = t
    BY <1>0, <1>1, <1>9, <2>1, <2>2 DEF Fine, Believes, Executing
  <2> QED BY <1>1, <2>1, <2>3
<1>10. t \notin disturbed' => Believes(t)'
  BY <1>1, <1>4, <1>9, BelievesNext
<1> QED BY <1>5, <1>6, <1>8, <1>10 DEF Fine, KeepsArc
-----------------------------------------------------------------------------
(***************************************************************************)
(* The invariant, and what it says.                                        *)
(***************************************************************************)
LEMMA InitIInv == Init => IInv
<1> SUFFICES ASSUME Init PROVE IInv
  OBVIOUS
<1> USE DEF Init
<1>1. Typed
  <2>1. goal \in [Trains -> GoalNodes]
    BY DEF GoalNodes
  <2>2. switches \in [Branches -> {0, 1}]
    BY RouteDriverAssumption
  <2>3. owner \in [Pieces -> Trains \cup {Nobody}]
    OBVIOUS
  <2> QED BY <2>1, <2>2, <2>3 DEF Typed
<1>2. ASSUME NEW t \in Trains PROVE Fine(t)
  <2>1. pc[t] = "where" /\ route[t] = <<>>
    OBVIOUS
  <2>2. Located(t)
    BY RouteDriverAssumption DEF Located
  <2>3. Routed(t)
    BY <2>1 DEF Routed
  <2>4. Quiet(t)
    BY <2>1 DEF Quiet, AtRest
  <2> QED BY <2>1, <2>2, <2>3, <2>4 DEF Fine, Believes, KeepsArc, Executing
<1> QED BY <1>1, <1>2 DEF IInv

LEMMA NextIInv == IInv /\ [Next]_vars => IInv'
<1> SUFFICES ASSUME IInv, [Next]_vars PROVE IInv'
  OBVIOUS
<1>1. ASSUME NEW t \in Trains, Driver(t) \/ World(t) PROVE IInv'
  <2>1. Typed'
    BY <1>1, TypedKept
  <2>2. Fine(t)'
    BY <1>1, WorkerKeeps, StartOverKeeps, WorldKeeps, ExecuteKeeps, BehindKeeps, ReserveKeeps,
       ActKeeps
    DEF Driver
  <2>3. \A u \in Trains \ {t} : Fine(u)'
    BY <1>1, OthersStay
  <2> QED BY <2>1, <2>2, <2>3 DEF IInv
<1>2. CASE UNCHANGED vars
  <2>1. UNCHANGED <<goal, owner, switches, train, pc, route, current, ahead, position, status,
                    disturbed>>
    BY <1>2 DEF vars
  <2>2. Typed'
    BY <2>1 DEF IInv, Typed
  <2>3. ASSUME NEW t \in Trains PROVE Fine(t)'
    <3>1. \A n : PassesOnce(t, n)' = PassesOnce(t, n)
      BY <2>1 DEF PassesOnce, Piece
    <3>2. (Located(t) /\ Routed(t) /\ Quiet(t))'
      BY <2>1 DEF IInv, Fine, Located, Routed, Quiet, AtRest
    <3>3. t \notin disturbed => Believes(t) /\ KeepsArc(t)
      BY DEF IInv, Fine
    <3>4. (t \notin disturbed => Believes(t) /\ KeepsArc(t))'
      BY <2>1, <3>1, <3>3 DEF Believes, KeepsArc, Executing, Piece, Dest
    <3> QED BY <3>2, <3>4 DEF Fine
  <2> QED BY <2>2, <2>3 DEF IInv
<1> QED BY <1>1, <1>2 DEF Next

\* The marks, the owners and the positions that the drivers keep, always.
THEOREM DriversInvariant == Spec => []IInv
BY InitIInv, NextIInv, PTL DEF Spec

\* What a driver has marked as reserved on its route is reserved for its train.
THEOREM DriversOwnWhatTheyMark == Spec => []BeliefIsTrue
<1>1. IInv => BeliefIsTrue
  BY DEF IInv, Fine, Believes, BeliefIsTrue
<1> QED BY <1>1, DriversInvariant, PTL

\* When a driver is done its train keeps the arc it stands on, and nothing else.
THEOREM DriversKeepTheirArc == Spec => []DoneKeepsArc
<1>1. IInv => DoneKeepsArc
  BY DEF IInv, Fine, KeepsArc, DoneKeepsArc
<1> QED BY <1>1, DriversInvariant, PTL

\* Preparing a merge for the way back changes the switch of its branch, if the
\* branch leads back, and no other.
LEMMA MergeReversed ==
  ASSUME NEW curr, NEW before, NEW sw \in [Branches -> {0, 1}], NEW b \in Branches,
         MergeReversible(curr, before, sw)[b] # sw[b]
  PROVE  b = reverse[curr]
BY MergeReversibleTyped

\* The action of a node of a route throws the switch at the node, or prepares the
\* merge that the node is or that comes next.
LEMMA ActedSwitches ==
  ASSUME switches \in [Branches -> {0, 1}], NEW r, NEW k, NEW b \in Branches,
         Acted(r, k)[b] # switches[b]
  PROVE  \/ r[k].action \in {1, 2} /\ b = r[k].node
         \/ r[k].action = 4 /\ b = reverse[r[k].node]
         \/ /\ r[k].action = 4 /\ type[r[k].node] # "NODE_EXIT"
            /\ b = reverse[edge[r[k].node][1].dest]
<1>1. CASE r[k].action \in {1, 2}
  <2>1. Acted(r, k) = [switches EXCEPT ![r[k].node] = r[k].action - 1]
    BY <1>1 DEF Acted
  <2> QED BY <1>1, <2>1
<1>2. CASE r[k].action = 4 /\ k > 1
  <2>1. PICK here : here = MergeReversible(r[k].node, r[k - 1].node, switches)
    OBVIOUS
  <2>2. here \in [Branches -> {0, 1}]
    BY <2>1, MergeReversibleTyped
  <2>3. Acted(r, k) = IF type[r[k].node] = "NODE_EXIT" THEN here
                      ELSE MergeReversible(edge[r[k].node][1].dest, r[k].node, here)
    BY <1>2, <2>1 DEF Acted
  <2>4. here[b] # switches[b] => b = reverse[r[k].node]
    BY <2>1, MergeReversed
  <2>5. MergeReversible(edge[r[k].node][1].dest, r[k].node, here)[b] # here[b]
          => b = reverse[edge[r[k].node][1].dest]
    BY <2>2, MergeReversed
  <2> QED BY <1>2, <2>3, <2>4, <2>5
<1>3. CASE r[k].action \notin {1, 2} /\ ~(r[k].action = 4 /\ k > 1)
  BY <1>3 DEF Acted
<1> QED BY <1>1, <1>2, <1>3

\* A driver between the reservation of a node and its action still has the node,
\* unless it was robbed since.
Holds(t) ==
  pc[t] = "act" /\ t \notin robbed =>
    LET node == route[t][ahead[t].at]
    IN  node.action = 0 \/ node.acted \/ owner[Piece(node.node)] = t

HeldInv == IInv /\ \A t \in Trains : Holds(t)

\* Whoever takes a piece of a driver at that point robs it.
LEMMA TakenIsRobbed ==
  ASSUME Typed, NEW t \in Trains, NEW u \in Trains \ {t}, Driver(t) \/ World(t),
         pc[u] = "act", u \notin robbed'
  PROVE  u \notin robbed /\ \A s \in Pieces : owner[s] = u => owner'[s] = u
<1>0. u # Nobody /\ u # t
  BY RouteDriverAssumption
<1>1. CASE Complete(t) \/ Begin(t)
  <2>1. PICK arc : ReleaseAll(t, arc)
    BY <1>1 DEF Complete, Begin
  <2> DEFINE standing == {Piece(arc[1]), Piece(Dest(arc))}
  <2>2. /\ owner' = [s \in Pieces |-> IF s \in standing THEN t
                                      ELSE IF owner[s] = t THEN Nobody ELSE owner[s]]
        /\ robbed' = robbed \cup {v \in {owner[s] : s \in standing} \ {t, Nobody} : pc[v] = "act"}
    BY <2>1 DEF ReleaseAll, Losers
  <2> HIDE DEF standing
  <2>3. u \notin robbed /\ \A s \in standing : owner[s] # u
    BY <1>0, <2>2
  <2> QED BY <1>0, <2>2, <2>3
<1>2. CASE Behind(t)
  BY <1>0, <1>2 DEF Behind
<1>3. CASE Reserve(t)
  BY <1>0, <1>3 DEF Reserve, Typed
<1>4. CASE Act(t)
  BY <1>0, <1>4 DEF Act
<1>5. CASE World(t)
  BY <1>5 DEF World, Move, Tick, TimedStop
<1>6. CASE \/ Where(t) \/ NotTracked(t) \/ FindPath(t) \/ Stop(t) \/ Retry(t) \/ AskWhere(t)
           \/ Reverse(t) \/ PollLost(t) \/ Poll(t) \/ Refused(t) \/ Wait(t) \/ WaitExpires(t)
           \/ Mark(t)
  <2>1. UNCHANGED <<owner, robbed>>
    BY <1>6, Zenon DEF Where, NotTracked, FindPath, Stop, Retry, AskWhere, Reverse, PollLost, Poll,
                       Refused, Wait, WaitExpires, Mark, world
  <2> QED BY <2>1
<1> QED BY <1>1, <1>2, <1>3, <1>4, <1>5, <1>6 DEF Driver

\* A node is reserved before its action is carried out.
LEMMA HoldsFrom ==
  ASSUME IInv, NEW t \in Trains, Driver(t) \/ World(t), Holds(t)
  PROVE  Holds(t)'
<1>0. Typed /\ Routed(t)
  BY DEF IInv, Fine
<1>1. CASE Reserve(t)
  <2> DEFINE k == ahead[t].at
             node == route[t][k]
             next == route'[t][k]
  <2>1. /\ pc[t] = "ahead" /\ ahead'[t].at = k
        /\ owner' = IF node.reserved THEN owner ELSE [owner EXCEPT ![Piece(node.node)] = t]
    BY <1>0, <1>1 DEF Reserve, Typed, Routed
  <2>2. /\ k \in DOMAIN route[t] /\ route[t] \in Seq(RouteNodes)
        /\ next.node = node.node /\ next.action = node.action /\ (next.acted <=> node.acted)
    <3>1. ~Act(t)
      BY <2>1 DEF Act
    <3> QED BY <1>1, <3>1, AheadMarks
  <2>3. node.reserved => node.action = 0 \/ node.acted
    BY <1>0, <2>1, <2>2 DEF Routed
  <2>4. ~node.reserved => owner'[Piece(node.node)] = t
    <3>1. node \in RouteNodes
      BY <2>2, Elements
    <3>2. Piece(node.node) \in Pieces
      BY <3>1, PieceOf DEF RouteNodes
    <3> QED BY <1>0, <2>1, <3>2 DEF Typed
  <2> HIDE DEF k, node, next
  <2>5. next.action = 0 \/ next.acted \/ owner'[Piece(next.node)] = t
    BY <2>2, <2>3, <2>4
  <2> QED BY <2>1, <2>5 DEF Holds, Piece, k, next
<1>2. CASE World(t)
  <2>1. UNCHANGED <<pc, route, ahead, owner, robbed>>
    BY <1>2, Zenon DEF World, Move, Tick, TimedStop, driving
  <2> QED BY <2>1 DEF Holds, Piece
<1>3. CASE Driver(t) /\ ~Reserve(t)
  <2>1. pc'[t] # "act"
    <3>1. CASE Where(t) \/ NotTracked(t) \/ Stop(t) \/ AskWhere(t) \/ Complete(t)
      BY <1>0, <3>1 DEF Where, NotTracked, Stop, AskWhere, Complete, Goto, Typed
    <3>2. CASE FindPath(t)
      <4>1. Goto(t, "end") \/ Goto(t, "start")
        BY <3>2 DEF FindPath
      <4> QED BY <1>0, <4>1 DEF Goto, Typed
    <3>3. CASE Retry(t) \/ Begin(t) \/ Reverse(t) \/ PollLost(t) \/ Wait(t) \/ WaitExpires(t) \/ Mark(t)
               \/ Behind(t)
      BY <1>0, <3>3 DEF Retry, Begin, Reverse, PollLost, Wait, WaitExpires, Mark, Behind, Goto, Typed
    <3>4. CASE Poll(t)
      <4>1. Goto(t, "stop") \/ Goto(t, "behind")
        BY <3>4 DEF Poll
      <4> QED BY <1>0, <4>1 DEF Goto, Typed
    <3>5. CASE Refused(t)
      <4>1. pc[t] = "ahead" /\ (UNCHANGED pc \/ Goto(t, "stop"))
        BY <3>5 DEF Refused
      <4> QED BY <1>0, <4>1 DEF Goto, Typed
    <3>6. CASE Act(t)
      <4>1. Goto(t, "wait") \/ Goto(t, "mark") \/ Goto(t, "ahead")
        BY <3>6 DEF Act
      <4> QED BY <1>0, <4>1 DEF Goto, Typed
    <3> QED BY <1>3, <3>1, <3>2, <3>3, <3>4, <3>5, <3>6 DEF Driver
  <2> QED BY <2>1 DEF Holds
<1> QED BY <1>1, <1>2, <1>3

LEMMA NextHeldInv == HeldInv /\ [Next]_vars => HeldInv'
<1> SUFFICES ASSUME HeldInv, [Next]_vars PROVE HeldInv'
  OBVIOUS
<1>1. IInv /\ IInv' /\ Typed
  BY NextIInv DEF HeldInv, IInv
<1>2. CASE UNCHANGED vars
  BY <1>1, <1>2 DEF HeldInv, Holds, Piece, vars
<1>3. ASSUME NEW t \in Trains, Driver(t) \/ World(t), NEW u \in Trains PROVE Holds(u)'
  <2>1. Holds(u) /\ Routed(u)
    BY DEF HeldInv, IInv, Fine
  <2>2. CASE u = t
    BY <1>1, <1>3, <2>1, <2>2, HoldsFrom
  <2>3. CASE u # t
    <3>1. UNCHANGED <<pc[u], route[u], ahead[u]>>
      BY <1>1, <1>3, <2>3, OthersKeep
    <3>2. ASSUME pc[u] = "act", u \notin robbed'
          PROVE  /\ u \notin robbed
                 /\ LET node == route[u][ahead[u].at]
                    IN  owner[Piece(node.node)] = u => owner'[Piece(node.node)] = u
      <4>1. route[u][ahead[u].at] \in RouteNodes
        BY <2>1, <3>2, Elements DEF Routed
      <4>2. Piece(route[u][ahead[u].at].node) \in Pieces
        BY <4>1, PieceOf DEF RouteNodes
      <4> QED BY <1>1, <1>3, <2>3, <3>2, <4>2, TakenIsRobbed
    <3> QED BY <2>1, <3>1, <3>2 DEF Holds, Piece
  <2> QED BY <2>2, <2>3
<1> QED BY <1>1, <1>2, <1>3 DEF Next, HeldInv

\* A switch is thrown some time after its node was reserved.  Its piece is then still
\* the train's, unless another train took it by force in between, or the switch is
\* the one that lies behind the end of the route.
THEOREM SwitchesThrownByOwner == Spec => SwitchesOwned
<1> DEFINE Owned(b) ==
      \E t \in Trains :
        /\ pc[t] = "act" /\ pc'[t] # "act"
        /\ \/ owner[Piece(b)] = t
           \/ t \in robbed
           \/ LET last == Len(route[t])
              IN  ahead[t].at = last /\ edge[route[t][last].node][1].dest = reverse[b]
<1>1. ASSUME HeldInv, [Next]_vars, NEW b \in Branches, switches'[b] # switches[b]
      PROVE  Owned(b)
  <2>1. PICK t \in Trains : Act(t)
    <3>1. UNCHANGED vars => UNCHANGED switches
      BY DEF vars
    <3>2. PICK t \in Trains : Driver(t) \/ World(t)
      BY <1>1, <3>1 DEF Next
    <3>3. ~World(t)
      BY <1>1 DEF World, Move, Tick, TimedStop
    <3> QED BY <1>1, <3>2, <3>3
            DEF Driver, Where, NotTracked, FindPath, Stop, Retry, AskWhere, Complete, Begin,
                Reverse, PollLost, Poll, Behind, Refused, Reserve, Wait, WaitExpires, Mark, world
  <2> DEFINE r == route[t]
             k == ahead[t].at
             n == r[k].node
  <2>2. Typed /\ Routed(t) /\ Holds(t)
    BY <1>1 DEF HeldInv, IInv, Fine
  <2>a. pc'[t] # "act"
    BY <2>1, <2>2 DEF Act, Goto, Typed
  <2>3. pc[t] = "act" /\ pc'[t] # "act" /\ ~r[k].acted /\ switches' = Acted(r, k)
    BY <1>1, <2>1, <2>a DEF Act
  <2>4. /\ r \in Seq(RouteNodes) /\ k \in DOMAIN r
        /\ r[k].action = 4 => k = Len(r)
    BY <2>2, <2>3 DEF Routed
  <2>5. n \in Nodes
    <3>1. r[k] \in RouteNodes
      BY <2>4, Elements
    <3> QED BY <3>1 DEF RouteNodes
  <2>6. \/ r[k].action \in {1, 2} /\ b = n
        \/ r[k].action = 4 /\ b = reverse[n]
        \/ r[k].action = 4 /\ type[n] # "NODE_EXIT" /\ b = reverse[edge[n][1].dest]
    BY <1>1, <2>2, <2>3, ActedSwitches DEF Typed
  <2>7. t \in robbed \/ owner[Piece(n)] = t
    BY <2>2, <2>3, <2>6 DEF Holds
  <2>8. CASE b \in {n, reverse[n]}
    <3>1. Piece(b) = Piece(n)
      BY <2>5, <2>8, PieceOf
    <3> QED BY <2>3, <2>7, <3>1
  <2>9. CASE r[k].action = 4 /\ type[n] # "NODE_EXIT" /\ b = reverse[edge[n][1].dest]
    <3>1. k = Len(r)
      BY <2>4, <2>9
    <3>2. <<n, 1>> \in Arcs
      BY <2>5, <2>9, RouteDriverAssumption DEF Arcs
    <3>3. edge[n][1].dest \in Nodes
      BY <3>2, ArcEnds DEF Dest
    <3>4. edge[n][1].dest = reverse[b]
      BY <2>9, <3>3, RouteDriverAssumption
    <3> QED BY <2>3, <3>1, <3>4
  <2> QED BY <2>6, <2>8, <2>9
<1>2. HeldInv /\ [Next]_vars => [\A b \in Branches : switches'[b] # switches[b] => Owned(b)]_vars
  BY <1>1
<1>3. Init => HeldInv
  BY InitIInv DEF HeldInv, Holds, Init
<1> QED BY <1>2, <1>3, NextHeldInv, PTL DEF Spec, SwitchesOwned
-----------------------------------------------------------------------------
(***************************************************************************)
(* What the drivers do to the owners is what the reservation server of     *)
(* module Reservation promises, which implements TrackOwnership too.       *)
(***************************************************************************)
Ownership == INSTANCE TrackOwnership

\* A train that starts over takes one piece or two, if the arc it names is on the
\* track, and otherwise gives back all it has.
LEMMA StartsOverAllowed ==
  ASSUME Typed, NEW t \in Trains, NEW arc, ReleaseAll(t, arc)
  PROVE  Ownership!Next
<1> DEFINE standing == {Piece(arc[1]), Piece(Dest(arc))}
           mine == {s \in Pieces : owner[s] = t}
<1>1. owner' = [s \in Pieces |-> IF s \in standing THEN t
                                 ELSE IF owner[s] = t THEN Nobody ELSE owner[s]]
  BY DEF ReleaseAll
<1>2. CASE \A s \in standing : s \notin Pieces
  <2>1. owner' = [s \in Pieces |-> IF s \in mine THEN Nobody ELSE owner[s]]
    BY <1>1, <1>2
  <2>2. Ownership!GiveBack(t, mine)
    BY <2>1 DEF Ownership!GiveBack
  <2> QED BY <2>2 DEF Ownership!Next
<1>3. CASE \E s \in standing : s \in Pieces
  <2>1. PICK s, r \in Pieces : \A p \in Pieces : p \in standing <=> p \in {s, r}
    BY <1>3
  <2>2. Ownership!StartOver(t, {s, r})
    BY <1>1, <2>1 DEF Ownership!StartOver
  <2> QED BY <2>2 DEF Ownership!Next
<1> QED BY <1>2, <1>3

\* Every driver, on every track, asks for track as TrackOwnership allows: it takes
\* a piece of another train only where it starts over, and frees only its own.
THEOREM DriversFollowOwnership == Spec => Ownership!Spec
<1>1. Init => Ownership!Init
  BY DEF Init, Ownership!Init
<1>2. ASSUME IInv, [Next]_vars, owner' # owner PROVE Ownership!Next
  <2>1. PICK t \in Trains : Complete(t) \/ Begin(t) \/ Behind(t) \/ Reserve(t)
    <3>1. ~UNCHANGED vars
      BY <1>2 DEF vars
    <3>2. PICK t \in Trains : Driver(t) \/ World(t)
      BY <1>2, <3>1 DEF Next
    <3>3. ~World(t)
      BY <1>2 DEF World, Move, Tick, TimedStop
    <3> QED BY <1>2, <3>2, <3>3
            DEF Driver, Where, NotTracked, FindPath, Stop, Retry, AskWhere, Reverse, PollLost,
                Poll, Refused, Act, Wait, WaitExpires, Mark, world
  <2>2. Typed /\ Routed(t)
    BY <1>2 DEF IInv, Fine
  <2>3. CASE Complete(t) \/ Begin(t)
    <3>1. PICK arc : ReleaseAll(t, arc)
      BY <2>3 DEF Complete, Begin
    <3> QED BY <2>2, <3>1, StartsOverAllowed
  <2>4. CASE Behind(t)
    <3>1. PICK pieces : owner' = [s \in Pieces |-> IF s \in pieces /\ owner[s] = t
                                                  THEN Nobody ELSE owner[s]]
      BY <2>4 DEF Behind
    <3> DEFINE given == {s \in Pieces : s \in pieces /\ owner[s] = t}
    <3>2. owner' = [s \in Pieces |-> IF s \in given THEN Nobody ELSE owner[s]]
      BY <3>1
    <3>3. Ownership!GiveBack(t, given)
      BY <3>2 DEF Ownership!GiveBack
    <3>4. given \in SUBSET {s \in Pieces : owner[s] = t}
      OBVIOUS
    <3> QED BY <3>3, <3>4 DEF Ownership!Next
  <2>5. CASE Reserve(t)
    <3> DEFINE node == route[t][ahead[t].at].node
    <3>1. /\ owner[Piece(node)] \in {Nobody, t}
          /\ owner' = [owner EXCEPT ![Piece(node)] = t]
      BY <1>2, <2>5 DEF Reserve
    <3>2. Piece(node) \in Pieces
      <4>1. pc[t] = "ahead"
        BY <2>5 DEF Reserve
      <4>2. route[t][ahead[t].at] \in RouteNodes
        BY <2>2, <4>1, Elements DEF Routed
      <4> QED BY <4>2, PieceOf DEF RouteNodes
    <3> QED BY <3>1, <3>2 DEF Ownership!Next, Ownership!Grant
  <2> QED BY <2>1, <2>3, <2>4, <2>5
<1>3. IInv /\ [Next]_vars => [Ownership!Next]_owner
  BY <1>2
<1> QED BY <1>1, <1>3, DriversInvariant, PTL DEF Spec, Ownership!Spec
-----------------------------------------------------------------------------
(***************************************************************************)
(* The way of a train: how a route is laid out, how far its nodes lie from *)
(* its first, and that marking it leaves it as it is.                      *)
(***************************************************************************)
\* The arc of the track that node k of route r leads on over.
Way(r, k) == <<r[k].node, IF r[k].action = 2 THEN 2 ELSE 1>>

\* A route that is laid out from arc a leads over a and on from node to node.
LaidOut(r, a) ==
  LET f == First(r)
  IN  /\ f < Len(r)
      /\ r[f].node = a[1] /\ r[f].action = 0 /\ r[f].arc_dist = Dist(a)
      /\ Dest(a) = r[f + 1].node
      /\ f = 2 => r[3].node = reverse[r[1].node]
      /\ r[Len(r)].action = 4
      /\ \A k \in f + 1 .. Len(r) - 1 :
           /\ IF type[r[k].node] = "NODE_BRANCH" THEN r[k].action \in {1, 2} ELSE r[k].action = 0
           /\ Way(r, k) \in Arcs /\ Dest(Way(r, k)) = r[k + 1].node
           /\ Dist(Way(r, k)) = r[k].arc_dist

LEMMA ReverseEnds ==
  ASSUME NEW a \in Arcs
  PROVE  /\ ReverseArc(a) \in Arcs
         /\ ReverseArc(a)[1] = reverse[Dest(a)] /\ Dest(ReverseArc(a)) = reverse[a[1]]
         /\ Dist(ReverseArc(a)) = Dist(a)
<1>1. \E b \in Arcs : b[1] = reverse[Dest(a)] /\ Dest(b) = reverse[a[1]]
  BY RouteDriverAssumption
<1>2. Dist(ReverseArc(a)) = Dist(a)
  BY RouteDriverAssumption
<1>3. PICK b \in Arcs : b[1] = reverse[Dest(a)] /\ Dest(b) = reverse[a[1]] /\ b = ReverseArc(a)
  BY <1>1 DEF ReverseArc
<1> QED BY <1>2, <1>3

\* No arc has length 0.
LEMMA ArcLength ==
  ASSUME NEW a \in Arcs
  PROVE  Dist(a) \in Nat /\ Dist(a) >= 1
<1> DEFINE X == [dest : Nodes, dist : Nat \ {0}]
<1>1. a[1] \in Nodes /\ a[2] \in DOMAIN edge[a[1]]
  BY DEF Arcs
<1>2. edge[a[1]] \in Seq(X)
  BY <1>1, RouteDriverAssumption
<1>3. edge[a[1]][a[2]] \in X
  BY <1>1, <1>2, Elements
<1> QED BY <1>3 DEF Dist

\* The elements of a sequence that is put together from two and an end.
LEMMA ThreeParts ==
  ASSUME NEW X, NEW s \in Seq(X), NEW w \in Seq(X), NEW l \in X
  PROVE  LET r == s \o w \o <<l>>
         IN  /\ Len(r) = Len(s) + Len(w) + 1 /\ Len(s) \in Nat /\ Len(w) \in Nat
             /\ \A k \in 1 .. Len(s) : r[k] = s[k]
             /\ \A k \in 1 .. Len(w) : r[Len(s) + k] = w[k]
             /\ r[Len(s) + Len(w) + 1] = l
<1>1. PICK v \in Seq(X) : v = s \o w
  BY ConcatProperties
<1>2. /\ Len(v) = Len(s) + Len(w) /\ Len(s) \in Nat /\ Len(w) \in Nat
      /\ \A k \in 1 .. Len(s) : v[k] = s[k]
      /\ \A k \in 1 .. Len(w) : v[Len(s) + k] = w[k]
  BY <1>1
<1>3. v \o <<l>> = Append(v, l)
  BY <1>1
<1>4. Len(Append(v, l)) = Len(v) + 1 /\ Append(v, l)[Len(v) + 1] = l
  BY <1>1
<1>5. \A k \in 1 .. Len(v) : Append(v, l)[k] = v[k]
  BY <1>1
<1>6. (s \o w) \o <<l>> = Append(v, l)
  BY <1>1, <1>3
<1> QED BY <1>2, <1>4, <1>5, <1>6

\* path_to_route lays a route out from the arc of the train, or from its reverse.
LEMMA PathIsLaidOut ==
  ASSUME NEW arc \in Arcs, NEW path \in Seq([node : Nodes, edge : 0 .. 2]), path # <<>>,
         path[1].node \in {reverse[arc[1]], Dest(arc)},
         \A k \in 1 .. Len(path) - 1 :
           LET b == <<path[k].node, path[k].edge>> IN b \in Arcs /\ Dest(b) = path[k + 1].node
  PROVE  LET r == PathToRoute(path, arc)
         IN  /\ LaidOut(r, IF First(r) = 2 THEN ReverseArc(arc) ELSE arc)
             /\ First(r) = 2 => r[1].node = arc[1] /\ r[1].action = 3
<1> DEFINE n == Len(path)
           turned == path[1].node = reverse[arc[1]]
           first == IF turned
                    THEN <<RouteNode(arc[1], 3, 0), RouteNode(reverse[Dest(arc)], 0, Dist(arc))>>
                    ELSE <<RouteNode(arc[1], 0, Dist(arc))>>
           way == [k \in 1 .. Len(path) - 1 |->
                     RouteNode(path[k].node,
                               IF type[path[k].node] = "NODE_BRANCH" THEN path[k].edge ELSE 0,
                               Dist(<<path[k].node, path[k].edge>>))]
           last == RouteNode(path[Len(path)].node, 4, 0)
           X == [node : Nodes, action : 0 .. 4, arc_dist : Nat, reserved : BOOLEAN, acted : BOOLEAN]
           r == first \o way \o <<last>>
           f == IF turned THEN 2 ELSE 1
           a == IF turned THEN ReverseArc(arc) ELSE arc
<1>1. n \in Nat /\ n >= 1
  BY SMT
<1>2. \A k \in 1 .. n : path[k].node \in Nodes /\ path[k].edge \in 0 .. 2
  <2> DEFINE P == [node : Nodes, edge : 0 .. 2]
  <2>1. \A x \in P : x.node \in Nodes /\ x.edge \in 0 .. 2
    OBVIOUS
  <2> HIDE DEF P
  <2>2. path \in Seq(P) /\ DOMAIN path = 1 .. n
    BY DEF P
  <2>3. \A k \in 1 .. n : path[k] \in P
    BY <2>2, Elements
  <2> QED BY <2>1, <2>3
<1>3. \A m, c, d : /\ RouteNode(m, c, d).node = m /\ RouteNode(m, c, d).action = c
                   /\ RouteNode(m, c, d).arc_dist = d
  BY DEF RouteNode
<1>4. \A m \in Nodes, c \in 0 .. 4, d \in Nat : RouteNode(m, c, d) \in X
  BY DEF RouteNode
<1> HIDE DEF X
<1>5. /\ arc[1] \in Nodes /\ Dist(arc) \in Nat /\ reverse[Dest(arc)] \in Nodes
  BY ArcEnds, RouteDriverAssumption
<1>6. /\ first \in Seq(X) /\ Len(first) = f /\ f \in {1, 2}
      /\ first[f].node = a[1] /\ first[f].action = 0 /\ first[f].arc_dist = Dist(a)
      /\ Dest(a) = path[1].node
      /\ turned => first[1].action = 3 /\ first[1].node = arc[1]
      /\ ~turned => first[1].action = 0
  <2>1. CASE turned
    <3>1. RouteNode(arc[1], 3, 0) \in X /\ RouteNode(reverse[Dest(arc)], 0, Dist(arc)) \in X
      BY <1>4, <1>5
    <3>2. first = <<RouteNode(arc[1], 3, 0), RouteNode(reverse[Dest(arc)], 0, Dist(arc))>>
      BY <2>1
    <3>3. a[1] = reverse[Dest(arc)] /\ Dest(a) = reverse[arc[1]] /\ Dist(a) = Dist(arc) /\ f = 2
      BY <2>1, ReverseEnds
    <3> HIDE DEF first, a
    <3>4. /\ first \in Seq(X) /\ Len(first) = 2 /\ first[1] = RouteNode(arc[1], 3, 0)
          /\ first[2] = RouteNode(reverse[Dest(arc)], 0, Dist(arc))
      BY <3>1, <3>2
    <3> QED BY <1>3, <2>1, <3>3, <3>4
  <2>2. CASE ~turned
    <3>1. RouteNode(arc[1], 0, Dist(arc)) \in X
      BY <1>4, <1>5
    <3>2. first = <<RouteNode(arc[1], 0, Dist(arc))>> /\ a = arc /\ f = 1 /\ Dest(arc) = path[1].node
      BY <2>2
    <3> HIDE DEF first, a
    <3>4. first \in Seq(X) /\ Len(first) = 1 /\ first[1] = RouteNode(arc[1], 0, Dist(arc))
      BY <3>1, <3>2
    <3> QED BY <1>3, <2>2, <3>2, <3>4
  <2> QED BY <2>1, <2>2
<1>7. way \in Seq(X) /\ Len(way) = n - 1
  <2>1. ASSUME NEW k \in 1 .. n - 1 PROVE way[k] \in X
    <3>1. path[k].node \in Nodes /\ path[k].edge \in 0 .. 4
      BY <1>1, <1>2
    <3>2. Dist(<<path[k].node, path[k].edge>>) \in Nat
      BY ArcEnds
    <3> QED BY <1>4, <3>1, <3>2
  <2>2. way \in [1 .. n - 1 -> X]
    BY <2>1
  <2> QED BY <1>1, <2>2
<1>8. ASSUME NEW k \in 1 .. n - 1
      PROVE  /\ way[k].node = path[k].node
             /\ IF type[way[k].node] = "NODE_BRANCH" THEN way[k].action \in {1, 2}
                ELSE way[k].action = 0
             /\ Way(way, k) \in Arcs /\ Dest(Way(way, k)) = path[k + 1].node
             /\ Dist(Way(way, k)) = way[k].arc_dist
  <2> DEFINE b == <<path[k].node, path[k].edge>>
  <2>1. b \in Arcs /\ Dest(b) = path[k + 1].node
    OBVIOUS
  <2>2. path[k].node \in Nodes /\ path[k].edge \in {1, 2} /\ path[k].edge \in DOMAIN edge[path[k].node]
    BY <2>1 DEF Arcs
  <2>3. way[k] = RouteNode(path[k].node,
                           IF type[path[k].node] = "NODE_BRANCH" THEN path[k].edge ELSE 0, Dist(b))
    OBVIOUS
  <2>4. /\ way[k].node = path[k].node /\ way[k].arc_dist = Dist(b)
        /\ way[k].action = IF type[path[k].node] = "NODE_BRANCH" THEN path[k].edge ELSE 0
    BY <1>3, <2>3
  <2>5. type[path[k].node] # "NODE_BRANCH" => path[k].edge = 1
    BY <2>2, RouteDriverAssumption DEF Branches
  <2>6. Way(way, k) = b
    BY <2>2, <2>4, <2>5 DEF Way
  <2> QED BY <2>1, <2>2, <2>4, <2>6
<1>9. last \in X /\ last.node = path[n].node /\ last.action = 4
  <2>1. path[n].node \in Nodes
    BY <1>1, <1>2
  <2> QED BY <1>3, <1>4, <2>1
<1>10. PathToRoute(path, arc) = r
  BY DEF PathToRoute
<1> HIDE DEF first, way, last, a, turned
<1>11. /\ Len(r) = f + n
       /\ \A k \in 1 .. f : r[k] = first[k]
       /\ \A k \in 1 .. n - 1 : r[f + k] = way[k]
       /\ r[f + n] = last
  <2>1. /\ Len(r) = Len(first) + Len(way) + 1
        /\ \A k \in 1 .. Len(first) : r[k] = first[k]
        /\ \A k \in 1 .. Len(way) : r[Len(first) + k] = way[k]
        /\ r[Len(first) + Len(way) + 1] = last
    BY <1>6, <1>7, <1>9, ThreeParts, SMTT(30)
  <2> QED BY <1>1, <1>6, <1>7, <2>1
<1> HIDE DEF r
<1>12. First(r) = f /\ (turned => r[1].action = 3 /\ r[1].node = arc[1])
  BY <1>6, <1>11 DEF First
<1>13. \A k \in 1 .. n : r[f + k].node = path[k].node
  BY <1>1, <1>8, <1>9, <1>11
<1>14. r[f].node = a[1] /\ r[f].action = 0 /\ r[f].arc_dist = Dist(a) /\ Dest(a) = r[f + 1].node
  <2>1. 1 \in 1 .. n /\ f \in 1 .. f
    BY <1>1, <1>6
  <2>2. r[f] = first[f] /\ r[f + 1].node = path[1].node
    BY <1>11, <1>13, <2>1
  <2> QED BY <1>6, <2>2
<1>15. f = 2 => r[3].node = reverse[r[1].node]
  BY <1>1, <1>12, <1>13 DEF turned
<1>16. ASSUME NEW k \in f + 1 .. Len(r) - 1
       PROVE  /\ IF type[r[k].node] = "NODE_BRANCH" THEN r[k].action \in {1, 2}
                 ELSE r[k].action = 0
              /\ Way(r, k) \in Arcs /\ Dest(Way(r, k)) = r[k + 1].node
              /\ Dist(Way(r, k)) = r[k].arc_dist
  <2>1. PICK i \in 1 .. n - 1 : k = f + i
    <3>1. k - f \in 1 .. n - 1 /\ k = f + (k - f)
      BY <1>1, <1>6, <1>11
    <3> QED BY <3>1
  <2>2. r[k] = way[i] /\ Way(r, k) = Way(way, i)
    BY <1>11, <2>1 DEF Way
  <2>3. r[k + 1].node = path[i + 1].node
    <3>1. i + 1 \in 1 .. n /\ k + 1 = f + (i + 1)
      BY <1>1, <1>6, <2>1
    <3> QED BY <1>13, <3>1
  <2> QED BY <1>8, <2>2, <2>3
<1>17. (IF f = 2 THEN ReverseArc(arc) ELSE arc) = a
  BY DEF a
<1>18. r[Len(r)].action = 4
  BY <1>9, <1>11
<1>19. LaidOut(r, a)
  BY <1>1, <1>6, <1>11, <1>12, <1>14, <1>15, <1>16, <1>18 DEF LaidOut
<1>20. f = 2 => turned
  OBVIOUS
<1> QED BY <1>10, <1>12, <1>17, <1>19, <1>20

\* How far the nodes of route r lie from its first.
Miles(r, d) ==
  /\ d \in [1 .. Len(r) -> Nat]
  /\ \A k \in 1 .. Len(r) - 1 : d[k + 1] = d[k] + r[k].arc_dist

\* Every route has its distances.
LEMMA MilesExist ==
  ASSUME NEW r \in Seq(RouteNodes)
  PROVE  \E d : Miles(r, d)
<1> DEFINE Upto(m, d) == /\ d \in [1 .. m -> Nat]
                         /\ \A k \in 1 .. m - 1 : d[k + 1] = d[k] + r[k].arc_dist
           B == {m \in 0 .. Len(r) : ~\E d : Upto(m, d)}
<1>1. Len(r) \in Nat /\ \A k \in 1 .. Len(r) : r[k].arc_dist \in Nat
  <2>1. \A k \in DOMAIN r : r[k] \in RouteNodes
    BY Elements
  <2> QED BY <2>1 DEF RouteNodes
<1>2. SUFFICES ASSUME B # {} PROVE FALSE
  <2>1. Len(r) \notin B => \E d : Upto(Len(r), d)
    <3>1. Len(r) \in 0 .. Len(r)
      BY <1>1
    <3> HIDE DEF Upto
    <3> QED BY <3>1
  <2>2. \A d : Upto(Len(r), d) => Miles(r, d)
    BY DEF Miles
  <2> QED BY <2>1, <2>2
<1>3. PICK m \in B : \A q \in B : m <= q
  <2>1. B \in SUBSET Nat
    BY <1>1
  <2> HIDE DEF B
  <2> QED BY <1>2, <2>1, LeastOne
<1>4. m \in 0 .. Len(r) /\ ~\E d : Upto(m, d)
  OBVIOUS
<1>5. m # 0
  <2>1. Upto(0, [k \in 1 .. 0 |-> 0])
    OBVIOUS
  <2> QED BY <1>4, <2>1
<1>6. PICK d : Upto(m - 1, d)
  <2>1. m - 1 \in 0 .. Len(r) /\ ~(m <= m - 1)
    BY <1>1, <1>4, <1>5
  <2>2. m - 1 \notin B
    BY <1>3, <2>1
  <2> QED BY <2>1, <2>2
<1> DEFINE e == [k \in 1 .. m |-> IF k < m THEN d[k]
                                  ELSE IF m = 1 THEN 0 ELSE d[m - 1] + r[m - 1].arc_dist]
<1>7. Upto(m, e)
  <2>1. \A k \in 1 .. m : k < m => d[k] \in Nat
    BY <1>1, <1>4, <1>6
  <2>2. m # 1 => r[m - 1].arc_dist \in Nat /\ d[m - 1] \in Nat
    BY <1>1, <1>4, <1>5, <1>6
  <2>3. e \in [1 .. m -> Nat]
    BY <2>1, <2>2
  <2>4. ASSUME NEW k \in 1 .. m - 1 PROVE e[k + 1] = e[k] + r[k].arc_dist
    <3>1. CASE k + 1 = m
      BY <1>4, <3>1
    <3>2. CASE k + 1 # m
      <4>1. k \in 1 .. (m - 1) - 1 /\ k < m /\ k + 1 < m /\ k \in 1 .. m /\ k + 1 \in 1 .. m
        BY <1>4, <3>2
      <4>2. e[k] = d[k] /\ e[k + 1] = d[k + 1]
        BY <4>1
      <4> QED BY <1>6, <4>1, <4>2
    <3> QED BY <3>1, <3>2
  <2> HIDE DEF e
  <2> QED BY <2>3, <2>4
<1> QED BY <1>4, <1>7

\* No node lies before an earlier one.
LEMMA MilesGrow ==
  ASSUME NEW r \in Seq(RouteNodes), NEW d, Miles(r, d),
         NEW i \in 1 .. Len(r), NEW k \in 1 .. Len(r), i <= k
  PROVE  d[i] <= d[k]
<1> DEFINE B == {m \in 1 .. Len(r) : i <= m /\ d[m] < d[i]}
<1>1. /\ Len(r) \in Nat /\ \A m \in 1 .. Len(r) : r[m].arc_dist \in Nat /\ d[m] \in Nat
  <2>1. \A m \in DOMAIN r : r[m] \in RouteNodes
    BY Elements
  <2> QED BY <2>1 DEF RouteNodes, Miles
<1>2. SUFFICES ASSUME B # {} PROVE FALSE
  BY <1>1
<1>3. PICK m \in B : \A q \in B : m <= q
  <2>1. B \in SUBSET Nat
    BY <1>1
  <2> HIDE DEF B
  <2> QED BY <1>2, <2>1, LeastOne
<1>4. m \in 1 .. Len(r) /\ i <= m /\ d[m] < d[i] /\ i # m
  BY <1>1
<1>5. m - 1 \in 1 .. Len(r) - 1 /\ i <= m - 1 /\ m - 1 \in 1 .. Len(r) /\ m - 1 < m
  BY <1>1, <1>4
<1>6. d[m] = d[m - 1] + r[m - 1].arc_dist
  <2>1. d[(m - 1) + 1] = d[m - 1] + r[m - 1].arc_dist
    BY <1>5 DEF Miles
  <2>2. (m - 1) + 1 = m
    BY <1>4, <1>1
  <2> QED BY <2>1, <2>2
<1>7. m - 1 \in B
  BY <1>1, <1>4, <1>5, <1>6
<1> QED BY <1>3, <1>5, <1>7, <1>1

\* Over a route laid out from a straight arc the train goes from arc to arc.
LEMMA WayOn ==
  ASSUME NEW a \in Arcs, a[2] = 1, NEW r \in Seq(RouteNodes), LaidOut(r, a),
         NEW k \in First(r) .. Len(r) - 1
  PROVE  /\ Way(r, k) \in Arcs /\ Dest(Way(r, k)) = r[k + 1].node
         /\ Dist(Way(r, k)) = r[k].arc_dist
         /\ k = First(r) => Way(r, k) = a
<1>1. First(r) \in {1, 2} /\ Len(r) \in Nat
  BY DEF First
<1>2. CASE k = First(r)
  <2>1. r[k].node = a[1] /\ r[k].action = 0 /\ r[k].arc_dist = Dist(a) /\ Dest(a) = r[k + 1].node
    BY <1>2 DEF LaidOut
  <2>2. a = <<a[1], 1>>
    BY DEF Arcs
  <2>3. Way(r, k) = a
    BY <2>1, <2>2 DEF Way
  <2> QED BY <2>1, <2>3
<1>3. CASE k # First(r)
  <2>1. k \in First(r) + 1 .. Len(r) - 1
    BY <1>1, <1>3
  <2> QED BY <1>3, <2>1 DEF LaidOut
<1> QED BY <1>2, <1>3

\* A node of a route that passes no place twice is found where it is.
LEMMA FoundOnce ==
  ASSUME NEW r \in Seq(RouteNodes), NEW a, LaidOut(r, a), NoLoop(r),
         NEW j \in First(r) .. Len(r), NEW k \in 1 .. Len(r), r[k].node = r[j].node
  PROVE  k = j
<1>1. First(r) \in {1, 2} /\ Len(r) \in Nat /\ First(r) < Len(r)
  BY DEF First, LaidOut
<1>2. \A m \in 1 .. Len(r) : r[m].node \in Nodes
  <2>1. \A m \in DOMAIN r : r[m] \in RouteNodes
    BY Elements
  <2> QED BY <2>1 DEF RouteNodes
<1>3. CASE k >= First(r)
  <2>1. k \in First(r) .. Len(r)
    BY <1>1, <1>3
  <2> QED BY <2>1 DEF NoLoop
<1>4. CASE ~(k >= First(r))
  <2>1. k = 1 /\ First(r) = 2
    BY <1>1, <1>4
  <2>2. r[3].node = reverse[r[1].node] /\ 3 \in First(r) .. Len(r)
    BY <1>1, <2>1 DEF LaidOut
  <2>3. Piece(r[3].node) = Piece(r[j].node) /\ r[3].node # r[j].node
    BY <1>2, <2>1, <2>2, PieceOf, RouteDriverAssumption
  <2>4. j = 3
    BY <2>2, <2>3 DEF NoLoop
  <2> QED BY <2>3, <2>4
<1> QED BY <1>3, <1>4

\* Marks leave the way of a route as it is.
SameWay(r, s) ==
  /\ Len(s) = Len(r)
  /\ \A k \in 1 .. Len(r) : /\ s[k].node = r[k].node /\ s[k].action = r[k].action
                            /\ s[k].arc_dist = r[k].arc_dist

\* So what is said of the way holds of both.
LEMMA SameWayOn ==
  ASSUME NEW r \in Seq(RouteNodes), r # <<>>, NEW s, SameWay(r, s)
  PROVE  /\ First(s) = First(r)
         /\ NoLoop(s) <=> NoLoop(r)
         /\ \A k \in 1 .. Len(r) : Way(s, k) = Way(r, k)
         /\ \A d : Miles(s, d) <=> Miles(r, d)
         /\ \A a : LaidOut(r, a) => LaidOut(s, a)
<1>1. Len(r) \in Nat /\ Len(r) >= 1 /\ Len(s) = Len(r)
  BY DEF SameWay
<1>2. First(s) = First(r) /\ First(r) \in {1, 2}
  BY <1>1 DEF First, SameWay
<1>3. \A k \in 1 .. Len(r) : Way(s, k) = Way(r, k)
  BY DEF Way, SameWay
<1>4. NoLoop(s) <=> NoLoop(r)
  BY <1>1, <1>2 DEF NoLoop, SameWay
<1>5. ASSUME NEW d PROVE Miles(s, d) <=> Miles(r, d)
  BY <1>1 DEF Miles, SameWay
<1>6. ASSUME NEW a, LaidOut(r, a) PROVE LaidOut(s, a)
  <2>0. First(r) < Len(r)
    BY <1>6 DEF LaidOut
  <2>1. /\ First(s) < Len(s)
        /\ s[First(s)].node = a[1] /\ s[First(s)].action = 0 /\ s[First(s)].arc_dist = Dist(a)
        /\ Dest(a) = s[First(s) + 1].node
    BY <1>1, <1>2, <1>6, <2>0 DEF LaidOut, SameWay
  <2>2. (First(s) = 2 => s[3].node = reverse[s[1].node]) /\ s[Len(s)].action = 4
    BY <1>1, <1>2, <1>6, <2>0 DEF LaidOut, SameWay
  <2>3. ASSUME NEW k \in First(s) + 1 .. Len(s) - 1
        PROVE /\ IF type[s[k].node] = "NODE_BRANCH" THEN s[k].action \in {1, 2} ELSE s[k].action = 0
              /\ Way(s, k) \in Arcs /\ Dest(Way(s, k)) = s[k + 1].node
              /\ Dist(Way(s, k)) = s[k].arc_dist
    <3>1. k \in 1 .. Len(r) /\ k + 1 \in 1 .. Len(r) /\ k \in First(r) + 1 .. Len(r) - 1
      BY <1>1, <1>2
    <3>2. s[k].node = r[k].node /\ s[k].action = r[k].action /\ s[k].arc_dist = r[k].arc_dist
          /\ s[k + 1].node = r[k + 1].node /\ Way(s, k) = Way(r, k)
      BY <1>3, <3>1 DEF SameWay
    <3> QED BY <1>6, <3>1, <3>2 DEF LaidOut
  <2> QED BY <2>1, <2>2, <2>3 DEF LaidOut
<1> QED BY <1>2, <1>3, <1>4, <1>5, <1>6

-----------------------------------------------------------------------------
(***************************************************************************)
(* What holds of every train on its first route, disturbed or not: where   *)
(* it starts, the route it follows, and its numbers.                       *)
(***************************************************************************)
\* Before its first route a train stands at the start of its first arc, and its
\* driver knows it.
Initial(t) ==
  tries[t] = 0 /\ pc[t] \in {"where", "path", "start", "reverse"} =>
    /\ train[t].arc = Start[t] /\ train[t].travelled = 0
    /\ train[t].speed = 0 /\ train[t].stop_dist = 0
    /\ pc[t] # "where" => position[t].arc = Start[t] /\ position[t].stop_dist = 0

\* The first route leads over the arc the train stands on, and is not marked before
\* it is begun.
Laid(t) ==
  tries[t] = 0 /\ (pc[t] \in {"start", "reverse"} \/ Executing(t)) =>
    /\ LaidOut(route[t], StartArc(t))
    /\ pc[t] \in {"start", "reverse"} =>
         \A k \in DOMAIN route[t] : ~route[t][k].reserved /\ ~route[t][k].acted
    /\ pc[t] = "reverse" => First(route[t]) = 2

\* The numbers of a train.
Rolls(t) ==
  /\ train[t].speed \in {0, 8} /\ train[t].stop_dist \in Nat
  /\ train[t].travelled \in 0 .. Dist(train[t].arc)
  /\ position[t].stop_dist \in Nat /\ position[t].travelled \in Nat

Sound(t) == Initial(t) /\ Laid(t) /\ Rolls(t)

\* The marks and counts of the drivers.
Counted == moved \in [Trains -> BOOLEAN] /\ tries \in [Trains -> Nat]

\* A step changes the mark and the count of its train at most.
LEMMA CountedKept ==
  ASSUME Counted, NEW t \in Trains, Driver(t) \/ World(t)
  PROVE  /\ Counted'
         /\ \A u \in Trains \ {t} : UNCHANGED <<moved[u], tries[u]>>
<1> USE DEF Counted
<1>1. CASE Where(t) \/ AskWhere(t) \/ PollLost(t) \/ Poll(t) \/ Wait(t) \/ WaitExpires(t)
  BY <1>1 DEF Where, AskWhere, PollLost, Poll, Wait, WaitExpires, WhereIs
<1>2. CASE Retry(t)
  BY <1>2 DEF Retry, world
<1>3. CASE Reserve(t)
  <2>1. /\ moved' = [moved EXCEPT ![t] = @ /\ ahead[t].tries = 0]
        /\ UNCHANGED tries
    BY <1>3 DEF Reserve
  <2> QED BY <2>1
<1>4. CASE World(t)
  BY <1>4 DEF World, Move, Tick, TimedStop
<1>5. CASE \/ NotTracked(t) \/ FindPath(t) \/ Stop(t) \/ Complete(t) \/ Begin(t) \/ Reverse(t)
           \/ Behind(t) \/ Refused(t) \/ Act(t) \/ Mark(t)
  BY <1>5 DEF NotTracked, FindPath, Stop, Complete, Begin, Reverse, Behind, Refused, Act, Mark, world
<1> QED BY <1>1, <1>2, <1>3, <1>4, <1>5 DEF Driver

\* Another train's step changes none of this.
LEMMA SoundStays ==
  ASSUME IInv, Counted, NEW t \in Trains, NEW u \in Trains \ {t}, Driver(t) \/ World(t), Sound(u)
  PROVE  Sound(u)'
<1>1. /\ UNCHANGED <<pc[u], train[u], position[u], route[u], current[u], ahead[u], status[u]>>
      /\ UNCHANGED <<moved[u], tries[u]>>
  BY OthersKeep, CountedKept DEF IInv
<1>2. /\ Executing(u)' = Executing(u) /\ StartArc(u)' = StartArc(u)
      /\ (First(route[u]) = 2)' = (First(route[u]) = 2)
  BY <1>1 DEF Executing, StartArc, First
<1> QED BY <1>1, <1>2 DEF Sound, Initial, Laid, Rolls

\* What FindPath lays out.
LEMMA FindsWay ==
  ASSUME IInv, Counted, NEW t \in Trains, Sound(t), FindPath(t), tries[t] = 0, pc'[t] = "start"
  PROVE  /\ LaidOut(route'[t], StartArc(t)')
         /\ \A k \in DOMAIN route'[t] : ~route'[t][k].reserved /\ ~route'[t][k].acted
<1>1. Typed /\ Located(t) /\ Routed(t)
  BY DEF IInv, Fine
<1>2. pc[t] = "path" /\ position[t].arc = Start[t]
  BY DEF FindPath, Sound, Initial
<1>3. PICK n \in Nodes \cup {NoNode} : \E path \in Paths[<<position[t].arc, goal[t], n>>] :
             \/ path = <<>> /\ pc'[t] = "end" /\ UNCHANGED route
             \/ /\ path # <<>> /\ pc'[t] = "start"
                /\ route'[t] = PathToRoute(path, position[t].arc)
  <2>1. PICK n : n = IF status[t].code = 1 THEN status[t].info ELSE NoNode
    OBVIOUS
  <2>2. n \in Nodes \cup {NoNode}
    BY <1>1, <2>1 DEF Routed
  <2>3. \E path \in Paths[<<position[t].arc, goal[t], n>>] :
          IF path = <<>> THEN Goto(t, "end") /\ UNCHANGED route
          ELSE Goto(t, "start") /\ route' = [route EXCEPT ![t] = PathToRoute(path, position[t].arc)]
    BY <2>1 DEF FindPath
  <2> QED BY <1>1, <2>2, <2>3 DEF Goto, Typed
<1>4. PICK path \in Paths[<<Start[t], goal[t], n>>] :
             path # <<>> /\ route'[t] = PathToRoute(path, Start[t])
  BY <1>2, <1>3
<1>5. Start[t] \in Arcs /\ goal[t] \in GoalNodes
  <2>1. Start[t] \in Arcs
    BY RouteDriverAssumption
  <2> QED BY <1>1, <2>1 DEF Typed
<1>6. /\ path \in Seq([node : Nodes, edge : 0 .. 2])
      /\ path[1].node \in {reverse[Start[t][1]], Dest(Start[t])}
      /\ \A k \in 1 .. Len(path) - 1 :
           LET b == <<path[k].node, path[k].edge>> IN b \in Arcs /\ Dest(b) = path[k + 1].node
  BY <1>4, <1>5, PathLeadsOn
<1>7. PICK r : r = PathToRoute(path, Start[t])
  OBVIOUS
<1>8. \A k \in DOMAIN r : ~r[k].reserved /\ ~r[k].acted
  BY <1>4, <1>5, <1>6, <1>7, RouteIsFresh
<1>9. LaidOut(r, IF First(r) = 2 THEN ReverseArc(Start[t]) ELSE Start[t])
  BY <1>4, <1>5, <1>6, <1>7, PathIsLaidOut
<1>10. route'[t] = r /\ StartArc(t)' = IF First(r) = 2 THEN ReverseArc(Start[t]) ELSE Start[t]
  BY <1>4, <1>7 DEF StartArc, First, ReverseArc
<1> QED BY <1>8, <1>9, <1>10

\* A unit of the train's way, or less of its rolling out.
LEMMA RollsOn ==
  ASSUME IInv, NEW t \in Trains, Rolls(t), Move(t)
  PROVE  /\ Rolls(t)'
         /\ train'[t].speed = train[t].speed
         /\ IF train[t].travelled < Dist(train[t].arc)
            THEN train'[t].arc = train[t].arc /\ train'[t].travelled = train[t].travelled + 1
            ELSE train'[t].arc = NextArc(train[t].arc) /\ train'[t].travelled = 1
         /\ IF train[t].speed = 0 THEN train'[t].stop_dist = train[t].stop_dist - 1
            ELSE train'[t].stop_dist \in {train[t].stop_dist, train[t].stop_dist + 1}
         /\ train'[t].arc \in Arcs /\ train'[t].arc # NoArc
<1> DEFINE stays == train[t].travelled < Dist(train[t].arc)
           arc == IF stays THEN train[t].arc ELSE NextArc(train[t].arc)
           rolled == IF train[t].speed = 0 THEN train[t].stop_dist - 1
                     ELSE IF train[t].stop_dist < STOP_DIST THEN train[t].stop_dist + 1
                     ELSE train[t].stop_dist
           far == IF stays THEN train[t].travelled + 1 ELSE 1
<1>1. Typed /\ Located(t)
  BY DEF IInv, Fine
<1>2. /\ arc # NoArc /\ ~AtRest(t) /\ UNCHANGED position
      /\ train' = [train EXCEPT
           ![t].arc = arc,
           ![t].travelled = IF stays THEN @ + 1 ELSE 1,
           ![t].timed = IF @ > 0 THEN @ - 1 ELSE @,
           ![t].stop_dist = IF train[t].speed = 0 THEN @ - 1
                            ELSE IF @ < STOP_DIST THEN @ + 1 ELSE @]
  BY DEF Move, driving
<1>3. arc \in Arcs
  BY <1>1, <1>2, NextArcIsArc DEF Located, Typed
<1> HIDE DEF arc
<1>4. /\ train'[t].arc = arc /\ train'[t].travelled = far
      /\ train'[t].speed = train[t].speed /\ train'[t].stop_dist = rolled
  BY <1>1, <1>2 DEF Located, Typed
<1>5. rolled \in Nat
  BY <1>2 DEF Rolls, AtRest
<1>6. far \in 0 .. Dist(arc)
  <2>1. Dist(arc) \in Nat /\ Dist(arc) >= 1 /\ Dist(train[t].arc) \in Nat
    BY <1>1, <1>3, ArcLength DEF Located
  <2> QED BY <2>1 DEF Rolls, arc
<1>7. Rolls(t)'
  BY <1>2, <1>4, <1>5, <1>6 DEF Rolls, Dist
<1> QED BY <1>2, <1>3, <1>4, <1>7 DEF arc, Rolls

\* A step that leaves the route and the count of tries.
LEMMA LaidStays ==
  ASSUME NEW t \in Trains, Laid(t), UNCHANGED <<route[t], tries[t]>>,
         pc'[t] \in {"start", "reverse"} => pc[t] \in {"start", "reverse"},
         pc'[t] = "reverse" => pc[t] = "reverse" \/ First(route[t]) = 2,
         Executing(t)' => pc[t] \in {"start", "reverse"} \/ Executing(t)
  PROVE  Laid(t)'
<1>1. StartArc(t)' = StartArc(t)
  BY DEF StartArc
<1>2. (First(route[t]) = 2)' = (First(route[t]) = 2)
  BY DEF First
<1> QED BY <1>1, <1>2 DEF Laid, Executing

\* Marking a route leaves it laid out.
LEMMA LaidMarked ==
  ASSUME NEW t \in Trains, Laid(t), route[t] \in Seq(RouteNodes), route[t] # <<>>,
         SameWay(route[t], route'[t]), UNCHANGED tries[t],
         Executing(t), pc'[t] \notin {"start", "reverse"}
  PROVE  Laid(t)'
<1>1. /\ First(route'[t]) = First(route[t])
      /\ \A a : LaidOut(route[t], a) => LaidOut(route'[t], a)
  BY SameWayOn
<1>2. StartArc(t)' = StartArc(t)
  BY <1>1 DEF StartArc, First
<1>3. tries[t] = 0 => LaidOut(route'[t], StartArc(t))
  BY <1>1 DEF Laid
<1>4. LaidOut(route[t], StartArc(t))' <=> LaidOut(route'[t], StartArc(t)')
  BY DEF LaidOut, First, Way, Dest, Dist
<1> QED BY <1>2, <1>3, <1>4 DEF Laid

\* The steps of train_route_worker around a route.
LEMMA SoundKeptByWorker ==
  ASSUME IInv, Counted, NEW t \in Trains, Sound(t),
         \/ Where(t) \/ NotTracked(t) \/ FindPath(t)
         \/ Stop(t) \/ Retry(t) \/ AskWhere(t) \/ Complete(t)
  PROVE  Sound(t)'
<1>0. Typed /\ Located(t) /\ Routed(t) /\ Initial(t) /\ Laid(t) /\ Rolls(t)
  BY DEF IInv, Fine, Sound
<1> USE <1>0 DEF Typed, Counted
<1>1. CASE Where(t)
  <2>1. /\ UNCHANGED <<train, route, tries>>
        /\ pc[t] = "where" /\ pc'[t] = "path" /\ position'[t] = train[t]
    BY <1>1 DEF Where, WhereIs, Goto
  <2> QED BY <2>1, LaidStays DEF Sound, Initial, Rolls, Executing
<1>2. CASE NotTracked(t)
  <2>1. UNCHANGED <<train, position, route, tries>> /\ pc'[t] = "no train"
    BY <1>2 DEF NotTracked, Goto, world, driving
  <2> QED BY <2>1, LaidStays DEF Sound, Initial, Rolls, Executing
<1>3. CASE FindPath(t)
  <2>1. /\ UNCHANGED <<train, position, tries>> /\ pc[t] = "path"
        /\ (pc'[t] = "start" \/ (pc'[t] = "end" /\ UNCHANGED route))
    BY <1>3 DEF FindPath, Goto, world
  <2>2. (Initial(t) /\ Rolls(t))'
    BY <2>1 DEF Initial, Rolls
  <2>3. CASE pc'[t] = "end" /\ UNCHANGED route
    BY <2>1, <2>2, <2>3, LaidStays DEF Sound, Executing
  <2>4. CASE pc'[t] = "start"
    <3>1. ASSUME tries[t] = 0
          PROVE  /\ LaidOut(route'[t], StartArc(t)')
                 /\ \A k \in DOMAIN route'[t] : ~route'[t][k].reserved /\ ~route'[t][k].acted
      BY <1>3, <2>4, <3>1, FindsWay
    <3> QED BY <2>1, <2>2, <2>4, <3>1 DEF Sound, Laid, Executing
  <2> QED BY <2>1, <2>3, <2>4
<1>4. CASE Stop(t)
  <2>1. /\ UNCHANGED <<position, route, tries>> /\ pc'[t] = "rest"
        /\ train'[t] = [train[t] EXCEPT !.speed = 0, !.timed = -1]
    BY <1>4 DEF Stop, TrainSetSpeed, Goto, driving
  <2> QED BY <2>1, LaidStays DEF Sound, Initial, Rolls, Executing, Located
<1>5. CASE Retry(t)
  <2>1. /\ UNCHANGED <<train, position, route>> /\ tries'[t] # 0
    BY <1>5 DEF Retry, world, driving
  <2> QED BY <2>1 DEF Sound, Initial, Laid, Rolls
<1>6. CASE AskWhere(t)
  <2>1. UNCHANGED <<train, route, tries>> /\ pc'[t] = "release" /\ position'[t] = train[t]
    BY <1>6 DEF AskWhere, WhereIs, Goto
  <2> QED BY <2>1, LaidStays DEF Sound, Initial, Rolls, Executing
<1>7. CASE Complete(t)
  <2>1. UNCHANGED <<train, position, route, tries>> /\ pc'[t] = "done"
    BY <1>7 DEF Complete, Goto, driving
  <2> QED BY <2>1, LaidStays DEF Sound, Initial, Rolls, Executing
<1> QED BY <1>1, <1>2, <1>3, <1>4, <1>5, <1>6, <1>7

\* The steps of execute_route, but for those that mark the route.
LEMMA SoundKeptByRoute ==
  ASSUME IInv, Counted, NEW t \in Trains, Sound(t),
         \/ Begin(t) \/ Reverse(t) \/ PollLost(t) \/ Poll(t)
         \/ Refused(t) \/ Wait(t) \/ WaitExpires(t) \/ Mark(t)
  PROVE  Sound(t)'
<1>0. Typed /\ Located(t) /\ Routed(t) /\ Initial(t) /\ Laid(t) /\ Rolls(t)
  BY DEF IInv, Fine, Sound
<1> USE <1>0 DEF Typed, Counted
<1>1. CASE Begin(t)
  <2>1. /\ UNCHANGED <<position, route, tries>> /\ pc[t] = "start" /\ pc'[t] \in {"reverse", "poll"}
        /\ pc'[t] = "reverse" => route[t][1].action = 3
        /\ train'[t].arc = train[t].arc /\ train'[t].travelled = train[t].travelled
        /\ train'[t].speed \in {0, train[t].speed} /\ train'[t].stop_dist = train[t].stop_dist
    BY <1>1 DEF Begin, Goto, Located
  <2>2. Initial(t)'
    BY <2>1 DEF Initial
  <2>3. Rolls(t)'
    BY <2>1 DEF Rolls
  <2> QED BY <2>1, <2>2, <2>3, LaidStays DEF Sound, Executing, First
<1>2. CASE Reverse(t)
  <2>1. /\ UNCHANGED <<position, route, tries>> /\ pc[t] = "reverse" /\ pc'[t] = "poll"
        /\ train'[t].arc = ReverseArc(train[t].arc)
        /\ train'[t].travelled = Dist(train[t].arc) - train[t].travelled
        /\ train'[t].speed = train[t].speed /\ train'[t].stop_dist = train[t].stop_dist
    BY <1>2 DEF Reverse, Goto, Located, driving
  <2>2. Dist(train'[t].arc) = Dist(train[t].arc) /\ Dist(train[t].arc) \in Nat
    BY <2>1, ReverseEnds, ArcLength DEF Located
  <2>3. train'[t].travelled \in 0 .. Dist(train'[t].arc)
    BY <2>1, <2>2 DEF Rolls
  <2>4. (Initial(t) /\ Rolls(t))'
    BY <2>1, <2>3 DEF Initial, Rolls, Dist
  <2> QED BY <2>1, <2>4, LaidStays DEF Sound, Executing
<1>3. CASE PollLost(t) \/ Poll(t) \/ Wait(t) \/ WaitExpires(t)
  <2>1. /\ UNCHANGED <<train, route, tries>> /\ pc[t] \in {"poll", "wait"}
        /\ pc'[t] \in {"behind", "stop", "wait"} /\ position'[t] = train[t]
    <3>1. UNCHANGED <<train, route, tries>> /\ pc[t] \in {"poll", "wait"} /\ position'[t] = train[t]
      BY <1>3 DEF PollLost, Poll, Wait, WaitExpires, WhereIs
    <3>2. CASE Poll(t)
      <4>1. Goto(t, "stop") \/ Goto(t, "behind")
        BY <3>2 DEF Poll
      <4> QED BY <3>1, <4>1 DEF Goto
    <3>3. CASE PollLost(t) \/ Wait(t) \/ WaitExpires(t)
      BY <3>1, <3>3 DEF PollLost, Wait, WaitExpires, Goto
    <3> QED BY <1>3, <3>2, <3>3
  <2>2. (Initial(t) /\ Rolls(t))'
    BY <2>1 DEF Initial, Rolls
  <2> QED BY <2>1, <2>2, LaidStays DEF Sound, Executing
<1>4. CASE Refused(t)
  <2>1. /\ UNCHANGED <<position, route, tries>> /\ pc[t] = "ahead" /\ pc'[t] \in {"ahead", "stop"}
        /\ train'[t].arc = train[t].arc /\ train'[t].travelled = train[t].travelled
        /\ train'[t].speed \in {0, train[t].speed} /\ train'[t].stop_dist = train[t].stop_dist
    <3>1. UNCHANGED <<position, route, tries>> /\ pc[t] = "ahead"
      BY <1>4 DEF Refused
    <3>2. \/ TrainSetSpeed(t, 0) /\ UNCHANGED pc
          \/ Goto(t, "stop") /\ UNCHANGED train
      BY <1>4 DEF Refused
    <3>3. CASE TrainSetSpeed(t, 0) /\ UNCHANGED pc
      BY <3>1, <3>3 DEF TrainSetSpeed, Located
    <3>4. CASE Goto(t, "stop") /\ UNCHANGED train
      BY <3>1, <3>4 DEF Goto
    <3> QED BY <3>2, <3>3, <3>4
  <2>2. (Initial(t) /\ Rolls(t))'
    BY <2>1 DEF Initial, Rolls
  <2> QED BY <2>1, <2>2, LaidStays DEF Sound, Executing
<1>5. CASE Mark(t)
  <2>1. /\ UNCHANGED <<position, route, tries>> /\ pc[t] = "mark" /\ pc'[t] = "poll"
        /\ train'[t].arc = train[t].arc /\ train'[t].travelled = train[t].travelled
        /\ train'[t].speed \in {8, train[t].speed} /\ train'[t].stop_dist = train[t].stop_dist
    BY <1>5 DEF Mark, Goto, Located
  <2>2. (Initial(t) /\ Rolls(t))'
    BY <2>1 DEF Initial, Rolls
  <2> QED BY <2>1, <2>2, LaidStays DEF Sound, Executing
<1> QED BY <1>1, <1>2, <1>3, <1>4, <1>5

\* lookahead_node marks the route, and leaves its way.
LEMMA AheadSameWay ==
  ASSUME IInv, NEW t \in Trains, Reserve(t) \/ Act(t)
  PROVE  route[t] \in Seq(RouteNodes) /\ route[t] # <<>> /\ SameWay(route[t], route'[t])
<1> DEFINE k == ahead[t].at
<1>1. k \in DOMAIN route[t] /\ route[t] \in Seq(RouteNodes) /\ Len(route'[t]) = Len(route[t])
  BY AheadMarks
<1>2. \A i \in DOMAIN route[t] :
        /\ route'[t][i].node = route[t][i].node /\ route'[t][i].action = route[t][i].action
        /\ route'[t][i].arc_dist = route[t][i].arc_dist
  <2> TAKE i \in DOMAIN route[t]
  <2>1. CASE i = k
    BY <2>1, AheadMarks
  <2>2. CASE i # k
    BY <2>2, AheadMarks
  <2> QED BY <2>1, <2>2
<1> QED BY <1>1, <1>2 DEF SameWay

\* Every step of the train and of its driver.
LEMMA SoundKept ==
  ASSUME IInv, Counted, NEW t \in Trains, Sound(t), Driver(t) \/ World(t)
  PROVE  Sound(t)'
<1>0. Typed /\ Located(t) /\ Routed(t) /\ Initial(t) /\ Laid(t) /\ Rolls(t)
  BY DEF IInv, Fine, Sound
<1> USE <1>0 DEF Typed, Counted
<1>1. CASE Behind(t)
  <2>1. /\ UNCHANGED <<train, position, tries>> /\ pc[t] = "behind" /\ pc'[t] = "ahead"
        /\ route'[t] = Forget(route[t], Freed(route[t], current[t]))
    BY <1>1 DEF Behind, Goto
  <2>2. /\ route[t] \in Seq(RouteNodes) /\ route[t] # <<>>
        /\ SameWay(route[t], route'[t]) /\ DOMAIN route'[t] = DOMAIN route[t]
    BY <2>1, Forgotten DEF Routed, SameWay
  <2>4. Laid(t)'
    BY <2>1, <2>2, LaidMarked DEF Executing
  <2> QED BY <2>1, <2>4 DEF Sound, Initial, Rolls
<1>2. CASE Reserve(t) \/ Act(t)
  <2>1. /\ UNCHANGED <<train, position, tries>>
        /\ pc[t] \in {"ahead", "act"} /\ pc'[t] \in {"ahead", "act", "wait", "mark"}
    <3>1. UNCHANGED <<train, position, tries>> /\ pc[t] \in {"ahead", "act"}
      BY <1>2 DEF Reserve, Act
    <3>2. Goto(t, "act") \/ Goto(t, "wait") \/ Goto(t, "mark") \/ Goto(t, "ahead")
      BY <1>2 DEF Reserve, Act
    <3> QED BY <3>1, <3>2 DEF Goto
  <2>2. route[t] \in Seq(RouteNodes) /\ route[t] # <<>> /\ SameWay(route[t], route'[t])
    BY <1>2, AheadSameWay
  <2>3. Laid(t)'
    BY <2>1, <2>2, LaidMarked DEF Executing
  <2> QED BY <2>1, <2>3 DEF Sound, Initial, Rolls
<1>3. CASE World(t)
  <2>1. UNCHANGED <<position, route, tries, pc>>
    BY <1>3 DEF World, Move, Tick, TimedStop, driving
  <2>2. Laid(t)'
    BY <2>1, LaidStays DEF Executing
  <2>3. CASE Move(t)
    <3>1. Rolls(t)'
      BY <2>3, RollsOn
    <3>2. Initial(t)'
      BY <2>1, <2>3 DEF Initial, Move, AtRest
    <3> QED BY <2>2, <3>1, <3>2 DEF Sound
  <2>4. CASE Tick(t) \/ TimedStop(t)
    <3>1. /\ train'[t].arc = train[t].arc /\ train'[t].travelled = train[t].travelled
          /\ train'[t].speed \in {0, train[t].speed} /\ train'[t].stop_dist = train[t].stop_dist
      <4>1. CASE Tick(t)
        BY <4>1 DEF Tick, Located
      <4>2. CASE TimedStop(t)
        BY <4>2 DEF TimedStop, TrainSetSpeed, Located
      <4> QED BY <2>4, <4>1, <4>2
    <3> QED BY <2>1, <2>2, <3>1 DEF Sound, Initial, Rolls
  <2> QED BY <1>3, <2>3, <2>4 DEF World
<1> QED BY <1>1, <1>2, <1>3, SoundKeptByWorker, SoundKeptByRoute DEF Driver

-----------------------------------------------------------------------------
(***************************************************************************)
(* A train stays on its own track.  It is on the arc of node j of its      *)
(* route, and its own is the way from there to the frontier, node h: the   *)
(* pieces are reserved for it, and the switches between are thrown.  Told  *)
(* to stop it comes to rest before the frontier, by a margin that every    *)
(* unit it moves uses up and every poll of its driver wins back.           *)
(***************************************************************************)
\* Node k of the route is reserved for the train.
Own(t, k) == owner[Piece(route[t][k].node)] = t

\* The switch at node k of the route is set as the route leads.
Thrown(t, k) ==
  route[t][k].action \in {1, 2} => switches[route[t][k].node] = route[t][k].action - 1

\* What is marked from where the train was last seen on is reserved and thrown.
Marked(t) ==
  \A k \in 1 .. Len(route[t]) :
    /\ k < First(route[t]) => ~route[t][k].reserved
    /\ /\ k >= First(route[t]) /\ k >= current[t]
       /\ route[t][k].reserved \/ route[t][k].acted
       => Own(t, k) /\ (route[t][k].acted => Thrown(t, k))

\* The train is on the arc of node j, and its own is the way from there to node h.
Reach(t, d, j, h) ==
  /\ Miles(route[t], d)
  /\ j \in First(route[t]) .. Len(route[t]) /\ h \in j + 1 .. Len(route[t])
  /\ current[t] \in 1 .. j
  /\ train[t].arc = Way(route[t], j)
  /\ \A k \in j .. h : Own(t, k)
  /\ \A k \in j + 1 .. h - 1 : Thrown(t, k)

\* Where a train comes to rest if it is told to stop, and where its driver believes
\* that it would.
Rest(t, d, j) == d[j] + train[t].travelled + train[t].stop_dist
Seen(t, d) == d[current[t]] + position[t].travelled + position[t].stop_dist
Goes(t) == train[t].speed # 0

\* How much of its own way is left to the train: every unit it moves takes two, and
\* it moves once between two polls.
Margin(t, d, j, h) ==
  /\ pc[t] \in {"poll", "behind", "ahead", "act"} /\ ~Goes(t) => Rest(t, d, j) <= d[h]
  /\ pc[t] = "poll" /\ Goes(t) => Rest(t, d, j) + MARGIN - (IF moved[t] THEN 3 ELSE 1) <= d[h]
  /\ pc[t] \in {"behind", "ahead", "act"} =>
       /\ current[t] >= First(route[t])
       /\ Goes(t) => Rest(t, d, j) + MARGIN - (IF moved[t] THEN 5 ELSE 3) <= d[h]
       /\ Rest(t, d, j) <= Seen(t, d) + (IF moved[t] \/ ~Goes(t) THEN 2 ELSE 0)
  /\ pc[t] = "mark" =>
       Rest(t, d, j) + MARGIN - (IF moved[t] \/ ~Goes(t) THEN 1 ELSE -1) <= d[h]

\* How far lookahead_node has come.
Looks(t, d) ==
  pc[t] \in {"ahead", "act"} =>
    /\ ahead[t].tries # 0 => ~Goes(t)
    /\ ahead[t].at \in current[t] .. Len(route[t])
    /\ ahead[t].left = Seen(t, d) + MARGIN - d[ahead[t].at]
    /\ ahead[t].reached_zero <=> ahead[t].left < 0
    /\ \A k \in current[t] .. ahead[t].at - 1 : Own(t, k) /\ Thrown(t, k)

\* The train follows its route on its own track.
Follows(t) ==
  Marked(t) /\ \E d, j, h : Reach(t, d, j, h) /\ Margin(t, d, j, h) /\ Looks(t, d)

\* What the train has, from where it is turned to where it waits for its stop.
Stays(t) ==
  /\ pc[t] = "reverse" =>
       current[t] = 1 /\ Own(t, First(route[t])) /\ Own(t, First(route[t]) + 1)
  /\ pc[t] \in {"poll", "behind", "ahead", "act", "mark"} => Follows(t)
  /\ pc[t] = "wait" =>
       /\ current[t] \in 1 .. Len(route[t])
       /\ \A k \in current[t] .. Len(route[t]) : Own(t, k)

\* The trains that OnOwnTrack is about, and those still to be turned.
Clear(t) ==
  (pc[t] = "reverse" \/ Executing(t)) /\ StartsOnItsArc(t) /\ NoLoop(route[t])

\* What is known of the route of such a train.
LEMMA OnRoute ==
  ASSUME IInv, NEW t \in Trains, Sound(t), pc[t] \in {"start", "reverse"} \/ Executing(t),
         StartsOnItsArc(t)
  PROVE  /\ route[t] \in Seq(RouteNodes) /\ route[t] # <<>> /\ DOMAIN route[t] = 1 .. Len(route[t])
         /\ Len(route[t]) \in Nat /\ First(route[t]) \in {1, 2} /\ First(route[t]) < Len(route[t])
         /\ StartArc(t) \in Arcs /\ StartArc(t)[2] = 1 /\ LaidOut(route[t], StartArc(t))
         /\ \A k \in 1 .. Len(route[t]) :
              /\ route[t][k].node \in Nodes /\ route[t][k].arc_dist \in Nat
              /\ Piece(route[t][k].node) \in Pieces
              /\ k >= First(route[t]) /\ route[t][k].action \in {1, 2} =>
                   route[t][k].node \in Branches /\ k < Len(route[t])
<1> DEFINE r == route[t]
<1>1. r \in Seq(RouteNodes) /\ LaidOut(r, StartArc(t)) /\ StartArc(t)[2] = 1
  BY DEF IInv, Fine, Routed, Sound, Laid, StartsOnItsArc
<1>2. First(r) \in {1, 2} /\ First(r) < Len(r)
  BY <1>1 DEF First, LaidOut
<1>3. Len(r) \in Nat /\ r # <<>> /\ DOMAIN r = 1 .. Len(r)
  BY <1>1, <1>2
<1>4. StartArc(t) \in Arcs
  BY RouteDriverAssumption, ReverseEnds DEF StartArc
<1>5. ASSUME NEW k \in 1 .. Len(r)
      PROVE  r[k].node \in Nodes /\ r[k].arc_dist \in Nat /\ Piece(r[k].node) \in Pieces
  <2>1. r[k] \in RouteNodes
    BY <1>1, <1>3, <1>5, Elements
  <2> QED BY <2>1, PieceOf DEF RouteNodes
<1>6. ASSUME NEW k \in 1 .. Len(r), k >= First(r), r[k].action \in {1, 2}
      PROVE  r[k].node \in Branches /\ k < Len(r)
  <2>1. k # First(r) /\ k # Len(r)
    BY <1>1, <1>6 DEF LaidOut
  <2>2. k \in First(r) + 1 .. Len(r) - 1
    BY <1>2, <1>3, <1>6, <2>1
  <2>3. type[r[k].node] = "NODE_BRANCH"
    BY <1>1, <1>6, <2>2 DEF LaidOut
  <2> QED BY <1>3, <1>5, <2>2, <2>3 DEF Branches
<1> QED BY <1>1, <1>2, <1>3, <1>4, <1>5, <1>6

\* No other driver throws a switch on a piece that the train owns, unless the train
\* is disturbed.
LEMMA SwitchesKept ==
  ASSUME IInv, NEW t \in Trains, NEW u \in Trains \ {t}, Driver(t) \/ World(t),
         u \notin disturbed', NEW b \in Branches, owner[Piece(b)] = u
  PROVE  switches'[b] = switches[b]
<1>0. u # t /\ u # Nobody
  BY RouteDriverAssumption
<1>1. CASE Act(t)
  <2>2. disturbed' = disturbed \cup ({owner[Piece(c)] : c \in {c \in Branches : switches'[c] # switches[c]}}
                                       \ {t, Nobody})
    BY <1>1 DEF Act, Losers
  <2>3. switches'[b] # switches[b] => u \in disturbed'
    BY <1>0, <2>2, SMTT(30)
  <2> QED BY <2>3
<1>2. CASE World(t)
  <2>1. UNCHANGED switches
    BY <1>2, Zenon DEF World, Move, Tick, TimedStop
  <2> QED BY <2>1
<1>3. CASE Driver(t) /\ ~Act(t)
  <2>1. UNCHANGED switches
    BY <1>3, Zenon
    DEF Driver, Where, NotTracked, FindPath, Stop, Retry, AskWhere, Complete, Begin,
        Reverse, PollLost, Poll, Behind, Refused, Reserve, Wait, WaitExpires, Mark, world
  <2> QED BY <2>1
<1> QED BY <1>1, <1>2, <1>3

\* What a train has stays with it as long as nobody takes or throws it.
LEMMA StaysWhen ==
  ASSUME NEW t \in Trains, Stays(t), Clear(t),
         Len(route[t]) \in Nat, First(route[t]) \in {1, 2}, First(route[t]) < Len(route[t]),
         UNCHANGED <<pc[t], train[t], position[t], route[t], current[t], ahead[t], moved[t]>>,
         \A k \in 1 .. Len(route[t]) : Own(t, k) => Own(t, k)',
         \A k \in First(route[t]) .. Len(route[t]) : Own(t, k) /\ Thrown(t, k) => Thrown(t, k)'
  PROVE  Stays(t)'
<1> DEFINE r == route[t]
<1>0. First(r)' = First(r) /\ Goes(t)' = Goes(t)
  BY DEF First, Goes
<1>1. CASE pc[t] \in {"poll", "behind", "ahead", "act", "mark"}
  <2>1. PICK d, j, h : Reach(t, d, j, h) /\ Margin(t, d, j, h) /\ Looks(t, d)
    BY <1>1 DEF Stays, Follows
  <2>2. Marked(t)
    BY <1>1 DEF Stays, Follows
  <2>3. /\ j \in 1 .. Len(r) /\ h \in 1 .. Len(r) /\ j >= First(r) /\ current[t] \in 1 .. j
        /\ \A k \in j .. h : k \in First(r) .. Len(r) /\ k \in 1 .. Len(r)
        /\ \A k \in j + 1 .. h - 1 : k \in j .. h
    BY <2>1 DEF Reach
  <2>4. Marked(t)'
    <3> SUFFICES ASSUME NEW k \in 1 .. Len(r)
                 PROVE  /\ k < First(r) => ~r[k].reserved
                        /\ /\ k >= First(r) /\ k >= current[t]
                           /\ r[k].reserved \/ r[k].acted
                           => Own(t, k)' /\ (r[k].acted => Thrown(t, k)')
      BY <1>0 DEF Marked
    <3>1. k >= First(r) => k \in First(r) .. Len(r)
      OBVIOUS
    <3> QED BY <2>2, <3>1 DEF Marked
  <2>5. Reach(t, d, j, h)'
    <3>1. \A k \in j .. h : Own(t, k)'
      BY <2>1, <2>3 DEF Reach
    <3>2. \A k \in j + 1 .. h - 1 : Thrown(t, k)'
      BY <2>1, <2>3 DEF Reach
    <3> QED BY <1>0, <2>1, <3>1, <3>2 DEF Reach, Miles, Way
  <2>6. Margin(t, d, j, h)'
    BY <1>0, <2>1 DEF Margin, Rest, Seen
  <2>7. Looks(t, d)'
    <3> SUFFICES ASSUME pc[t] \in {"ahead", "act"} PROVE Looks(t, d)'
      BY DEF Looks
    <3>1. current[t] >= First(r) /\ ahead[t].at \in current[t] .. Len(r)
      BY <2>1 DEF Margin, Looks
    <3>2. \A k \in current[t] .. ahead[t].at - 1 : k \in First(r) .. Len(r) /\ k \in 1 .. Len(r)
      BY <2>3, <3>1
    <3>3. \A k \in current[t] .. ahead[t].at - 1 : Own(t, k)' /\ Thrown(t, k)'
      BY <2>1, <3>2 DEF Looks
    <3> QED BY <1>0, <2>1, <3>3 DEF Looks, Seen
  <2> QED BY <1>1, <2>4, <2>5, <2>6, <2>7 DEF Stays, Follows
<1>2. CASE pc[t] = "reverse"
  BY <1>0, <1>2 DEF Stays
<1>3. CASE pc[t] = "wait"
  <2>1. \A k \in current[t] .. Len(r) : k \in 1 .. Len(r)
    BY <1>3 DEF Stays
  <2> QED BY <1>3, <2>1 DEF Stays
<1> QED BY <1>1, <1>2, <1>3 DEF Clear, Executing

\* To be kept by every step.
Keeps(t) == Clear(t) => Stays(t)

\* Another train's step takes nothing from a train that it does not disturb.
LEMMA KeepsStays ==
  ASSUME IInv, Counted, NEW t \in Trains, NEW u \in Trains \ {t}, Driver(t) \/ World(t),
         Sound(u), u \notin disturbed => Keeps(u), u \notin disturbed'
  PROVE  Keeps(u)'
<1> DEFINE r == route[u]
<1>1. /\ UNCHANGED <<pc[u], train[u], position[u], route[u], current[u], ahead[u], status[u]>>
      /\ UNCHANGED <<moved[u], tries[u]>>
      /\ u \notin disturbed /\ \A s \in Pieces : owner'[s] = u <=> owner[s] = u
  BY OthersKeep, CountedKept DEF IInv
<1>2. Clear(u)' = Clear(u)
  BY <1>1 DEF Clear, Executing, StartsOnItsArc, StartArc, NoLoop, First, Piece
<1>3. SUFFICES ASSUME Clear(u) PROVE Stays(u)'
  BY <1>2 DEF Keeps
<1>4. /\ Len(r) \in Nat /\ First(r) \in {1, 2} /\ First(r) < Len(r)
      /\ \A k \in 1 .. Len(r) :
           /\ Piece(r[k].node) \in Pieces
           /\ k >= First(r) /\ r[k].action \in {1, 2} => r[k].node \in Branches
  BY <1>3, OnRoute DEF Clear
<1>5. \A k \in 1 .. Len(r) : Own(u, k) => Own(u, k)'
  BY <1>1, <1>4 DEF Own, Piece
<1>6. ASSUME NEW k \in First(r) .. Len(r), Own(u, k), Thrown(u, k) PROVE Thrown(u, k)'
  <2>1. k \in 1 .. Len(r) /\ k >= First(r)
    BY <1>4
  <2>2. r[k].action \in {1, 2} => switches'[r[k].node] = switches[r[k].node]
    BY <1>4, <1>6, <2>1, SwitchesKept DEF Own
  <2> QED BY <1>1, <1>6, <2>2 DEF Thrown
<1>7. Stays(u)
  BY <1>1, <1>3 DEF Keeps
<1> QED BY <1>1, <1>3, <1>4, <1>5, <1>6, <1>7, StaysWhen

\* A step that changes neither the route, but for its marks, nor the train's tries.
LEMMA ClearBefore ==
  ASSUME NEW t \in Trains, route[t] \in Seq(RouteNodes), route[t] # <<>>,
         SameWay(route[t], route'[t]), UNCHANGED tries[t], Clear(t)'
  PROVE  StartsOnItsArc(t) /\ NoLoop(route[t])
<1>1. First(route'[t]) = First(route[t]) /\ (NoLoop(route'[t]) <=> NoLoop(route[t]))
  BY SameWayOn
<1> QED BY <1>1 DEF Clear, StartsOnItsArc, StartArc, NoLoop, First, Piece

\* The first route is begun: the train has both ends of its arc.
LEMMA BeginKeeps ==
  ASSUME IInv, Counted, NEW t \in Trains, Sound(t), Begin(t), t \notin disturbed'
  PROVE  Keeps(t)'
<1> DEFINE r == route[t]
           f == First(r)
<1>0. Typed /\ Located(t) /\ Routed(t) /\ Initial(t) /\ Laid(t) /\ Rolls(t)
  BY DEF IInv, Fine, Sound
<1>1. /\ UNCHANGED <<route, tries>> /\ pc[t] = "start" /\ current'[t] = 1
      /\ pc'[t] = IF r[1].action = 3 THEN "reverse" ELSE "poll"
      /\ train'[t].arc = train[t].arc /\ train'[t].travelled = train[t].travelled
      /\ train'[t].speed \in {0, train[t].speed} /\ train'[t].stop_dist = train[t].stop_dist
      /\ ReleaseAll(t, FirstArc(r))
  BY <1>0 DEF Begin, Goto, Located, Typed
<1>2. SUFFICES ASSUME Clear(t)' PROVE Stays(t)'
  BY DEF Keeps
<1>3. StartsOnItsArc(t) /\ tries[t] = 0
  BY <1>1, <1>2 DEF Clear, StartsOnItsArc, StartArc, First
<1>4. /\ r \in Seq(RouteNodes) /\ Len(r) \in Nat /\ f \in {1, 2} /\ f < Len(r)
      /\ StartArc(t) \in Arcs /\ StartArc(t)[2] = 1 /\ LaidOut(r, StartArc(t))
      /\ \A k \in 1 .. Len(r) : Piece(r[k].node) \in Pieces
  BY <1>1, <1>3, OnRoute
<1>5. f = 1 <=> r[1].action # 3
  BY DEF First
<1>6. FirstArc(r) = StartArc(t)
  <2> DEFINE P(k) == r[k].action < 3 /\ \A j \in 1 .. k - 1 : r[j].action >= 3
             i == CHOOSE k \in 1 .. Len(r) - 1 : P(k)
  <2>1. r[f].action = 0 /\ r[f].node = StartArc(t)[1]
    BY <1>4 DEF LaidOut
  <2>2. P(f) /\ f \in 1 .. Len(r) - 1
    BY <1>4, <1>5, <2>1
  <2>3. \A k \in 1 .. Len(r) - 1 : P(k) => k = f
    <3> SUFFICES ASSUME NEW k \in 1 .. Len(r) - 1, P(k) PROVE k = f
      OBVIOUS
    <3>1. CASE f = 1
      BY <2>1, <3>1
    <3>2. CASE f = 2
      BY <1>5, <2>1, <3>2
    <3> QED BY <1>4, <3>1, <3>2
  <2>5. FirstArc(r) = <<r[i].node, IF r[i].action = 2 THEN 2 ELSE 1>>
    BY DEF FirstArc
  <2> HIDE DEF P, f
  <2>4. i = f
    BY <2>2, <2>3
  <2>6. StartArc(t) = <<StartArc(t)[1], 1>>
    BY <1>4 DEF Arcs
  <2>7. r[i].node = StartArc(t)[1] /\ r[i].action = 0
    BY <2>1, <2>4
  <2> HIDE DEF i
  <2> QED BY <2>5, <2>6, <2>7
<1>7. r[f].node = StartArc(t)[1] /\ r[f + 1].node = Dest(StartArc(t))
  BY <1>4 DEF LaidOut
<1>8. \A k \in {f, f + 1} : Own(t, k)'
  <2>1. f \in 1 .. Len(r) /\ f + 1 \in 1 .. Len(r)
    BY <1>4
  <2> DEFINE standing == {Piece(StartArc(t)[1]), Piece(Dest(StartArc(t)))}
  <2>4. owner' = [s \in Pieces |-> IF s \in standing THEN t
                                   ELSE IF owner[s] = t THEN Nobody ELSE owner[s]]
    BY <1>1, <1>6 DEF ReleaseAll
  <2>5. Piece(r[f].node) \in standing /\ Piece(r[f + 1].node) \in standing
    BY <1>7
  <2>6. Piece(r[f].node) \in Pieces /\ Piece(r[f + 1].node) \in Pieces
    BY <1>4, <2>1
  <2> HIDE DEF standing
  <2>2. owner'[Piece(r[f].node)] = t /\ owner'[Piece(r[f + 1].node)] = t
    BY <2>4, <2>5, <2>6
  <2>3. \A k : Own(t, k)' <=> owner'[Piece(r[k].node)] = t
    BY <1>1 DEF Own, Piece
  <2> QED BY <2>2, <2>3
<1>9. CASE r[1].action = 3
  <2>1. pc'[t] = "reverse" /\ (First(route[t])' = f)
    BY <1>1, <1>9 DEF First
  <2>2. \A k : Own(t, k)' <=> owner'[Piece(r[k].node)] = t
    BY <1>1 DEF Own, Piece
  <2>3. owner'[Piece(r[f].node)] = t /\ owner'[Piece(r[f + 1].node)] = t
    BY <1>8, <2>2
  <2>4. (Own(t, First(route[t])) /\ Own(t, First(route[t]) + 1))'
    BY <1>1, <2>1, <2>3 DEF Own, Piece
  <2> QED BY <1>1, <2>1, <2>4 DEF Stays
<1>10. CASE r[1].action # 3
  <2>1. pc'[t] = "poll" /\ f = 1 /\ First(route[t])' = 1
    BY <1>1, <1>5, <1>10 DEF First
  <2>2. PICK d : Miles(r, d)
    BY <1>4, MilesExist
  <2>3. train[t].arc = Start[t] /\ train[t].travelled = 0 /\ train[t].speed = 0 /\ train[t].stop_dist = 0
    BY <1>0, <1>1, <1>3 DEF Initial
  <2>4. StartArc(t) = Start[t]
    BY <2>1 DEF StartArc
  <2>5. Way(r, 1) = StartArc(t)
    BY <1>4, <2>1, WayOn
  <2>6. \A k \in 1 .. Len(r) : ~r[k].reserved /\ ~r[k].acted
    BY <1>0, <1>1, <1>3, <1>4 DEF Laid
  <2>7. Marked(t)'
    BY <1>1, <2>6 DEF Marked
  <2>8. Reach(t, d, 1, 2)'
    <3>1. \A k \in 1 .. 2 : k = 1 \/ k = 2
      OBVIOUS
    <3>2. \A k \in 1 .. 2 : Own(t, k)'
      BY <1>8, <2>1, <3>1
    <3>3. 1 \in First(r)' .. Len(r) /\ 2 \in 1 + 1 .. Len(r) /\ 1 \in 1 .. 1
      BY <1>4, <2>1
    <3> QED BY <1>1, <2>1, <2>2, <2>3, <2>4, <2>5, <3>2, <3>3 DEF Reach, Miles, Way
  <2>9. Margin(t, d, 1, 2)'
    <3>1. d[1] <= d[2] /\ d[1] \in Nat /\ d[2] \in Nat
      <4>1. 1 \in 1 .. Len(r) /\ 2 \in 1 .. Len(r)
        BY <1>4, <2>1
      <4>2. d[1] <= d[2]
        BY <1>4, <2>2, <4>1, MilesGrow
      <4> QED BY <2>2, <4>1, <4>2 DEF Miles
    <3>2. train'[t].speed = 0 /\ train'[t].travelled = 0 /\ train'[t].stop_dist = 0
      BY <1>1, <2>3
    <3> QED BY <2>1, <3>1, <3>2 DEF Margin, Rest, Goes
  <2>10. Looks(t, d)'
    BY <2>1 DEF Looks
  <2> QED BY <2>1, <2>7, <2>8, <2>9, <2>10 DEF Stays, Follows
<1> QED BY <1>9, <1>10

\* The margin is worth two polls.
LEMMA MarginIsNat == MARGIN \in Nat /\ MARGIN >= 5
<1>1. MARGIN \in {STOP_DIST, LOOKBEHIND, MARGIN, MAX_TRIES}
  OBVIOUS
<1> QED BY <1>1, RouteDriverAssumption, MarginAssumption

\* Where the numbers of a train on its way are.
LEMMA ReachTyped ==
  ASSUME NEW t \in Trains, NEW d, NEW j, NEW h, Reach(t, d, j, h),
         route[t] \in Seq(RouteNodes), First(route[t]) \in {1, 2}
  PROVE  /\ Len(route[t]) \in Nat
         /\ j \in Nat /\ h \in Nat /\ j < h /\ j >= First(route[t])
         /\ j \in 1 .. Len(route[t]) /\ h \in 1 .. Len(route[t])
         /\ j \in First(route[t]) .. Len(route[t]) - 1
         /\ current[t] \in 1 .. Len(route[t]) /\ current[t] <= j
         /\ d[j] \in Nat /\ d[h] \in Nat /\ d[current[t]] \in Nat
<1>1. Len(route[t]) \in Nat
  OBVIOUS
<1>2. /\ j \in First(route[t]) .. Len(route[t]) /\ h \in j + 1 .. Len(route[t])
      /\ current[t] \in 1 .. j
  BY DEF Reach
<1>3. \A k \in 1 .. Len(route[t]) : d[k] \in Nat
  BY DEF Reach, Miles
<1> QED BY <1>1, <1>2, <1>3

\* A step that leaves owners, switches and the route leaves the train on its way.
LEMMA ReachStays ==
  ASSUME NEW t \in Trains, NEW d, NEW j, NEW h, Reach(t, d, j, h),
         UNCHANGED <<owner, switches, route[t]>>, train'[t].arc = train[t].arc,
         current'[t] \in 1 .. j
  PROVE  Reach(t, d, j, h)'
BY DEF Reach, Miles, Way, First, Own, Thrown, Piece

\* Such a step leaves what is marked from there on.
LEMMA MarkedStays ==
  ASSUME NEW t \in Trains, Marked(t), First(route[t]) \in {1, 2},
         UNCHANGED <<owner, switches, route[t]>>,
         \A k \in Nat : k >= current'[t] => k >= current[t], Len(route[t]) \in Nat
  PROVE  Marked(t)'
<1>1. \A k \in 1 .. Len(route[t]) : k \in Nat
  OBVIOUS
<1> QED BY <1>1 DEF Marked, First, Own, Thrown, Piece

\* The train is turned on its arc.
LEMMA ReverseKeeps ==
  ASSUME IInv, Counted, NEW t \in Trains, Sound(t), Keeps(t), Reverse(t)
  PROVE  Keeps(t)'
<1> DEFINE r == route[t]
<1>0. Typed /\ Located(t) /\ Routed(t) /\ Initial(t) /\ Laid(t) /\ Rolls(t)
  BY DEF IInv, Fine, Sound
<1>1. /\ UNCHANGED <<owner, switches, route, current, tries>>
      /\ pc[t] = "reverse" /\ pc'[t] = "poll"
      /\ train'[t].arc = ReverseArc(train[t].arc)
      /\ train'[t].travelled = Dist(train[t].arc) - train[t].travelled
      /\ train'[t].speed = train[t].speed /\ train'[t].stop_dist = train[t].stop_dist
  BY <1>0 DEF Reverse, Goto, Located, Typed, driving
<1>2. SUFFICES ASSUME Clear(t)' PROVE Stays(t)'
  BY DEF Keeps
<1>3. StartsOnItsArc(t) /\ tries[t] = 0 /\ Stays(t)
  <2>1. Clear(t)
    BY <1>1, <1>2 DEF Clear, StartsOnItsArc, StartArc, First, NoLoop, Piece
  <2> QED BY <2>1 DEF Keeps, Clear, StartsOnItsArc
<1>4. /\ r \in Seq(RouteNodes) /\ Len(r) \in Nat /\ First(r) < Len(r)
      /\ StartArc(t) \in Arcs /\ StartArc(t)[2] = 1 /\ LaidOut(r, StartArc(t))
      /\ First(r) = 2
  BY <1>0, <1>1, <1>3, OnRoute DEF Laid
<1>5. train[t].arc = Start[t] /\ train[t].travelled = 0 /\ train[t].speed = 0 /\ train[t].stop_dist = 0
  BY <1>0, <1>1, <1>3 DEF Initial
<1>6. current[t] = 1 /\ Own(t, 2) /\ Own(t, 3)
  BY <1>1, <1>3, <1>4 DEF Stays
<1>7. Start[t] \in Arcs /\ train'[t].arc = StartArc(t) /\ StartArc(t) = ReverseArc(Start[t])
  BY <1>1, <1>4, <1>5, RouteDriverAssumption DEF StartArc
<1>8. PICK d : Miles(r, d)
  BY <1>4, MilesExist
<1>9. Way(r, 2) = StartArc(t) /\ Dist(StartArc(t)) = r[2].arc_dist
  BY <1>4, WayOn
<1>10. Dist(StartArc(t)) = Dist(Start[t])
  BY <1>7, ReverseEnds
<1>11. Marked(t)'
  <2>1. \A k \in 1 .. Len(r) : ~r[k].reserved /\ ~r[k].acted
    BY <1>0, <1>1, <1>3, <1>4 DEF Laid
  <2> QED BY <1>1, <2>1 DEF Marked
<1>12. Reach(t, d, 2, 3)'
  <2>1. \A k \in 2 .. 3 : Own(t, k)'
    <3>1. \A k \in 2 .. 3 : k = 2 \/ k = 3
      OBVIOUS
    <3>2. \A k \in 2 .. 3 : Own(t, k)
      BY <1>6, <3>1
    <3> QED BY <1>1, <3>2 DEF Own, Piece
  <2>2. 2 \in First(r)' .. Len(r) /\ 3 \in 2 + 1 .. Len(r) /\ 1 \in 1 .. 2
    BY <1>1, <1>4 DEF First
  <2>3. (Own(t, 2) /\ Own(t, 3))'
    BY <1>1, <1>6 DEF Own, Piece
  <2>4. \A k \in 2 + 1 .. 3 - 1 : FALSE
    OBVIOUS
  <2>5. Miles(r, d)' /\ Way(r, 2)' = Way(r, 2) /\ Len(r)' = Len(r)
    BY <1>1, <1>8 DEF Miles, Way
  <2>6. train'[t].arc = Way(r, 2)
    BY <1>7, <1>9
  <2> QED BY <1>1, <1>6, <2>1, <2>2, <2>4, <2>5, <2>6 DEF Reach
<1>13. Margin(t, d, 2, 3)'
  <2>1. d[3] = d[2] + Dist(Start[t]) /\ d[2] \in Nat
    <3>1. 2 \in 1 .. Len(r) - 1 /\ 2 \in 1 .. Len(r)
      BY <1>4
    <3>2. d[2 + 1] = d[2] + r[2].arc_dist /\ d[2] \in Nat
      BY <1>8, <3>1 DEF Miles
    <3> QED BY <1>9, <1>10, <3>2
  <2>2. train'[t].speed = 0 /\ train'[t].travelled = Dist(Start[t]) - 0 /\ train'[t].stop_dist = 0
    BY <1>1, <1>5
  <2>3. Dist(Start[t]) \in Nat
    BY <1>7, ArcLength
  <2> QED BY <1>1, <2>1, <2>2, <2>3 DEF Margin, Rest, Goes
<1>14. Looks(t, d)'
  BY <1>1 DEF Looks
<1> QED BY <1>1, <1>11, <1>12, <1>13, <1>14 DEF Stays, Follows

\* The driver finds the train at the node it is at.
LEMMA PollKeeps ==
  ASSUME IInv, Counted, NEW t \in Trains, Sound(t), Keeps(t), Poll(t)
  PROVE  Keeps(t)'
<1> DEFINE r == route[t]
<1>0. Typed /\ Located(t) /\ Routed(t) /\ Rolls(t)
  BY DEF IInv, Fine, Sound
<1>1. /\ UNCHANGED <<owner, switches, train, route, tries>> /\ pc[t] = "poll"
      /\ position'[t] = train[t] /\ moved'[t] = FALSE /\ current'[t] = FirstFound(t)
      /\ pc'[t] \in {"behind", "stop"} /\ Found(t) # {}
  <2>1. /\ UNCHANGED <<owner, switches, train, route, tries>> /\ pc[t] = "poll"
        /\ position'[t] = train[t] /\ moved'[t] = FALSE /\ current'[t] = FirstFound(t) /\ Found(t) # {}
    BY <1>0 DEF Poll, WhereIs, Typed, Counted
  <2>2. Goto(t, "stop") \/ Goto(t, "behind")
    BY DEF Poll
  <2> QED BY <1>0, <2>1, <2>2 DEF Goto, Typed
<1>2. SUFFICES ASSUME Clear(t)' PROVE Stays(t)'
  BY DEF Keeps
<1>3. pc'[t] = "behind"
  BY <1>1, <1>2 DEF Clear, Executing
<1>4. StartsOnItsArc(t) /\ NoLoop(r) /\ Stays(t)
  <2>1. Clear(t)
    BY <1>1, <1>2 DEF Clear, StartsOnItsArc, StartArc, First, NoLoop, Piece, Executing
  <2> QED BY <2>1 DEF Keeps, Clear
<1>5. /\ r \in Seq(RouteNodes) /\ Len(r) \in Nat /\ First(r) < Len(r) /\ First(r) \in {1, 2}
      /\ StartArc(t) \in Arcs /\ StartArc(t)[2] = 1 /\ LaidOut(r, StartArc(t))
  BY <1>1, <1>4, OnRoute DEF Executing
<1>6. PICK d, j, h : Reach(t, d, j, h) /\ Margin(t, d, j, h)
  BY <1>1, <1>4 DEF Stays, Follows
<1>7. /\ j \in Nat /\ j \in 1 .. Len(r) /\ j >= First(r) /\ j \in First(r) .. Len(r)
      /\ current[t] <= j /\ current[t] \in Nat /\ d[j] \in Nat /\ d[h] \in Nat
  BY <1>5, <1>6, ReachTyped
<1>8. FirstFound(t) = j
  <2>1. FirstFound(t) \in Found(t)
    <3>1. Found(t) \in SUBSET Nat
      BY <1>5 DEF Found
    <3>2. \E k \in Found(t) : \A l \in Found(t) : k <= l
      BY <1>1, <3>1, LeastOne
    <3> QED BY <3>2 DEF FirstFound
  <2>2. FirstFound(t) \in 1 .. Len(r) /\ r[FirstFound(t)].node = train[t].arc[1]
    BY <2>1 DEF Found
  <2>3. train[t].arc[1] = r[j].node
    BY <1>6 DEF Reach, Way
  <2> QED BY <1>4, <1>5, <1>7, <2>2, <2>3, FoundOnce
<1>9. Marked(t)'
  <2>1. Marked(t)
    BY <1>1, <1>4 DEF Stays, Follows
  <2> QED BY <1>1, <1>5, <1>7, <1>8, <2>1, MarkedStays
<1>10. Reach(t, d, j, h)'
  <2>1. current'[t] \in 1 .. j
    BY <1>1, <1>7, <1>8
  <2> QED BY <1>1, <1>6, <2>1, ReachStays
<1>11. Margin(t, d, j, h)'
  <2>1. /\ train[t].speed = 0 => Rest(t, d, j) <= d[h]
        /\ train[t].speed # 0 => Rest(t, d, j) + MARGIN - 3 <= d[h]
        /\ Rest(t, d, j) \in Nat
    <3>1. MARGIN \in Nat /\ Rest(t, d, j) \in Nat
      <4>1. train[t].travelled \in Nat /\ train[t].stop_dist \in Nat
        BY <1>0 DEF Rolls
      <4> QED BY <1>7, <4>1, MarginIsNat DEF Rest
    <3>2. moved[t] \in BOOLEAN
      BY DEF Counted
    <3>3. /\ train[t].speed = 0 => Rest(t, d, j) <= d[h]
          /\ train[t].speed # 0 /\ moved[t] => Rest(t, d, j) + MARGIN - 3 <= d[h]
          /\ train[t].speed # 0 /\ ~moved[t] => Rest(t, d, j) + MARGIN - 1 <= d[h]
      BY <1>1, <1>6 DEF Margin, Goes
    <3> QED BY <1>7, <3>1, <3>2, <3>3
  <2>2. Rest(t, d, j)' = Rest(t, d, j) /\ Seen(t, d)' = Rest(t, d, j) /\ Goes(t)' = Goes(t)
    BY <1>1, <1>8 DEF Rest, Seen, Goes
  <2>3. current'[t] >= First(r)' /\ pc'[t] = "behind" /\ moved'[t] = FALSE
    BY <1>1, <1>3, <1>7, <1>8 DEF First
  <2> QED BY <2>1, <2>2, <2>3 DEF Margin, Goes
<1>12. Looks(t, d)'
  BY <1>3 DEF Looks
<1> QED BY <1>3, <1>9, <1>10, <1>11, <1>12 DEF Stays, Follows

\* A step that marks the route and takes nothing of it.
LEMMA ReachMarked ==
  ASSUME NEW t \in Trains, NEW d, NEW j, NEW h, Reach(t, d, j, h),
         route[t] \in Seq(RouteNodes), route[t] # <<>>, First(route[t]) \in {1, 2},
         SameWay(route[t], route'[t]), train'[t].arc = train[t].arc, current'[t] \in 1 .. j,
         \A k \in j .. h : Own(t, k)',
         \A k \in j + 1 .. h - 1 : Thrown(t, k)'
  PROVE  Reach(t, d, j, h)'
<1>1. /\ Len(route'[t]) = Len(route[t]) /\ First(route'[t]) = First(route[t])
      /\ Miles(route'[t], d) /\ Way(route'[t], j) = Way(route[t], j)
  BY ReachTyped, SameWayOn DEF Reach, SameWay
<1>2. /\ Miles(route[t], d)' /\ Way(route[t], j)' = Way(route[t], j)
      /\ First(route[t])' = First(route[t])
  BY <1>1 DEF Miles, Way, First
<1> QED BY <1>1, <1>2 DEF Reach

\* lookbehind_node frees only what lies behind the train.
LEMMA BehindFollows ==
  ASSUME IInv, Counted, NEW t \in Trains, Sound(t), Keeps(t), Behind(t)
  PROVE  Keeps(t)'
<1> DEFINE r == route[t]
           s == route'[t]
           c == current[t]
           freed == Freed(r, c)
<1>0. Typed /\ Located(t) /\ Routed(t) /\ Rolls(t)
  BY DEF IInv, Fine, Sound
<1>1. /\ UNCHANGED <<train, position, current, switches, tries, moved>>
      /\ pc[t] = "behind" /\ pc'[t] = "ahead" /\ s = Forget(r, freed)
      /\ ahead'[t] = [at |-> c, left |-> Lookahead(position[t]), reached_zero |-> FALSE, tries |-> 0]
  BY <1>0 DEF Behind, Goto, Typed
<1>2. \A p \in Pieces : owner'[p] = IF p \in {Piece(r[k].node) : k \in freed} /\ owner[p] = t
                                    THEN Nobody ELSE owner[p]
  BY DEF Behind
<1>3. SUFFICES ASSUME Clear(t)' PROVE Stays(t)'
  BY DEF Keeps
<1>4. r \in Seq(RouteNodes) /\ c \in DOMAIN r /\ r # <<>>
  BY <1>0, <1>1 DEF Routed
<1>5. /\ Len(s) = Len(r) /\ DOMAIN s = DOMAIN r /\ SameWay(r, s)
      /\ \A k \in 1 .. Len(r) : /\ s[k].node = r[k].node /\ s[k].action = r[k].action
                                /\ s[k].acted = r[k].acted
                                /\ s[k].reserved => r[k].reserved
  BY <1>1, <1>4, Forgotten DEF SameWay
<1>6. StartsOnItsArc(t) /\ NoLoop(r) /\ Stays(t)
  <2>1. StartsOnItsArc(t) /\ NoLoop(r)
    BY <1>1, <1>3, <1>4, <1>5, ClearBefore
  <2> QED BY <1>1, <2>1 DEF Keeps, Clear, Executing
<1>7. /\ Len(r) \in Nat /\ First(r) < Len(r) /\ First(r) \in {1, 2}
      /\ \A k \in 1 .. Len(r) : Piece(r[k].node) \in Pieces
  BY <1>1, <1>6, OnRoute DEF Executing
<1>8. PICK d, j, h : Reach(t, d, j, h) /\ Margin(t, d, j, h)
  BY <1>1, <1>6 DEF Stays, Follows
<1>9. /\ j \in Nat /\ h \in Nat /\ j \in 1 .. Len(r) /\ h \in 1 .. Len(r)
      /\ c \in 1 .. Len(r) /\ c <= j /\ d[c] \in Nat
  BY <1>4, <1>7, <1>8, ReachTyped
<1>10. c >= First(r) /\ Marked(t)
  BY <1>1, <1>6, <1>8 DEF Margin, Stays, Follows
<1> HIDE DEF freed
<1>11. ASSUME NEW k \in 1 .. Len(r), k >= c, Own(t, k) PROVE Own(t, k)'
  <2>1. Piece(r[k].node) \in Pieces /\ owner[Piece(r[k].node)] = t
    BY <1>7, <1>11 DEF Own
  <2>2. ASSUME NEW i \in freed PROVE Piece(r[i].node) # Piece(r[k].node)
    <3>1. i \in DOMAIN r /\ r[i].reserved /\ i < c
      <4>1. i \in DOMAIN r /\ r[i].reserved
        BY <1>4, FreedWasReserved DEF freed
      <4>2. i \in 1 .. c - 1
        BY DEF freed, Freed
      <4> QED BY <1>9, <4>1, <4>2
    <3>2. i \in First(r) .. Len(r)
      BY <1>4, <1>7, <1>10, <3>1 DEF Marked
    <3>3. k \in First(r) .. Len(r) /\ i # k
      BY <1>7, <1>9, <1>10, <1>11, <3>1
    <3> QED BY <1>6, <3>2, <3>3 DEF NoLoop
  <2>3. owner'[Piece(r[k].node)] = t
    BY <1>2, <2>1, <2>2
  <2> QED BY <1>5, <2>3 DEF Own, Piece
<1>12. \A k \in 1 .. Len(r) : Thrown(t, k) => Thrown(t, k)'
  BY <1>1, <1>5 DEF Thrown
<1>13. First(s) = First(r) /\ First(route[t])' = First(r)
  BY <1>4, <1>5, SameWayOn DEF First
<1>14. Marked(t)'
  <2>1. ASSUME NEW k \in 1 .. Len(r)
        PROVE  /\ k < First(r) => ~s[k].reserved
               /\ /\ k >= First(r) /\ k >= c
                  /\ s[k].reserved \/ s[k].acted
                  => Own(t, k)' /\ (s[k].acted => Thrown(t, k)')
    <3>1. r[k].reserved \/ r[k].acted <=> r[k].acted \/ r[k].reserved
      OBVIOUS
    <3>2. /\ k < First(r) => ~r[k].reserved
          /\ /\ k >= First(r) /\ k >= c
             /\ r[k].reserved \/ r[k].acted
             => Own(t, k) /\ (r[k].acted => Thrown(t, k))
      BY <1>10 DEF Marked
    <3> QED BY <1>5, <1>11, <1>12, <3>2
  <2> QED BY <1>1, <1>5, <1>13, <2>1 DEF Marked
<1>15. Reach(t, d, j, h)'
  <2>1. \A k \in j .. h : k \in 1 .. Len(r) /\ k >= c
    BY <1>9
  <2>2. \A k \in j .. h : Own(t, k)'
    BY <1>8, <1>11, <2>1 DEF Reach
  <2>3. \A k \in j + 1 .. h - 1 : k \in 1 .. Len(r)
    BY <1>9
  <2>4. \A k \in j + 1 .. h - 1 : Thrown(t, k)'
    BY <1>8, <1>12, <2>3 DEF Reach
  <2>5. current'[t] \in 1 .. j
    BY <1>1, <1>8 DEF Reach
  <2> QED BY <1>1, <1>4, <1>5, <1>7, <1>8, <2>2, <2>4, <2>5, ReachMarked
<1>16. Margin(t, d, j, h)'
  <2>1. Rest(t, d, j)' = Rest(t, d, j) /\ Seen(t, d)' = Seen(t, d) /\ Goes(t)' = Goes(t)
    BY <1>1 DEF Rest, Seen, Goes
  <2> QED BY <1>1, <1>8, <1>10, <1>13, <2>1 DEF Margin
<1>17. Looks(t, d)'
  <2>1. position[t].stop_dist \in Nat /\ position[t].travelled \in Nat /\ MARGIN \in Nat
    BY <1>0, MarginIsNat DEF Rolls
  <2>2. /\ Lookahead(position[t]) = Seen(t, d) + MARGIN - d[c] /\ ~(Lookahead(position[t]) < 0)
    <3>1. PICK x \in Nat, y \in Nat, z \in Nat, m \in Nat :
               x = position[t].stop_dist /\ y = position[t].travelled /\ z = d[c] /\ m = MARGIN
      BY <1>9, <2>1
    <3>2. x + m + y = (z + y + x) + m - z /\ ~(x + m + y < 0)
      OBVIOUS
    <3>3. Lookahead(position[t]) = x + m + y /\ Seen(t, d) = z + y + x
      BY <3>1 DEF Lookahead, Seen
    <3> QED BY <3>1, <3>2, <3>3
  <2>3. Seen(t, d)' = Seen(t, d) /\ ahead'[t].at = c /\ ahead'[t].tries = 0
        /\ ahead'[t].left = Lookahead(position[t]) /\ ahead'[t].reached_zero = FALSE
    BY <1>1 DEF Seen
  <2>4. c \in c .. Len(r) /\ \A k \in c .. c - 1 : FALSE
    BY <1>9
  <2> QED BY <1>1, <1>5, <2>2, <2>3, <2>4 DEF Looks
<1> QED BY <1>1, <1>14, <1>15, <1>16, <1>17 DEF Stays, Follows

\* Where a train comes to rest is a number.
LEMMA NumbersAre ==
  ASSUME NEW t \in Trains, Rolls(t), NEW d, NEW j, d[j] \in Nat, d[current[t]] \in Nat
  PROVE  Seen(t, d) \in Nat /\ Rest(t, d, j) \in Nat /\ d[j] <= Rest(t, d, j)
<1>1. /\ train[t].travelled \in Nat /\ train[t].stop_dist \in Nat
      /\ position[t].travelled \in Nat /\ position[t].stop_dist \in Nat
  BY DEF Rolls
<1>2. Seen(t, d) \in Nat
  BY <1>1 DEF Seen
<1>3. Rest(t, d, j) \in Nat /\ d[j] <= Rest(t, d, j)
  BY <1>1 DEF Rest
<1> QED BY <1>2, <1>3

\* A refused piece: the train is told to stop.
LEMMA RefusedKeeps ==
  ASSUME IInv, Counted, NEW t \in Trains, Sound(t), Keeps(t), Refused(t)
  PROVE  Keeps(t)'
<1> DEFINE r == route[t]
<1>0. Typed /\ Located(t) /\ Routed(t) /\ Rolls(t)
  BY DEF IInv, Fine, Sound
<1>1. /\ UNCHANGED <<owner, switches, moved, route, current, position, tries>> /\ pc[t] = "ahead"
  BY DEF Refused
<1>2. SUFFICES ASSUME Clear(t)' PROVE Stays(t)'
  BY DEF Keeps
<1>3. /\ TrainSetSpeed(t, 0) /\ ahead' = [ahead EXCEPT ![t].tries = 1] /\ UNCHANGED pc
  <2>1. \/ TrainSetSpeed(t, 0) /\ ahead' = [ahead EXCEPT ![t].tries = 1] /\ UNCHANGED pc
        \/ Goto(t, "stop")
    BY DEF Refused
  <2>2. ~Goto(t, "stop")
    BY <1>0, <1>2 DEF Goto, Typed, Clear, Executing
  <2> QED BY <2>1, <2>2
<1>4. /\ train'[t].arc = train[t].arc /\ train'[t].travelled = train[t].travelled
      /\ train'[t].speed = 0 /\ train'[t].stop_dist = train[t].stop_dist
      /\ ahead'[t] = [ahead[t] EXCEPT !.tries = 1]
  BY <1>0, <1>3 DEF TrainSetSpeed, Located, Typed
<1>5. StartsOnItsArc(t) /\ NoLoop(r) /\ Stays(t)
  <2>1. Clear(t)
    BY <1>1, <1>2, <1>3 DEF Clear, StartsOnItsArc, StartArc, First, NoLoop, Piece, Executing
  <2> QED BY <2>1 DEF Keeps, Clear
<1>6. r \in Seq(RouteNodes) /\ Len(r) \in Nat /\ First(r) \in {1, 2}
  BY <1>1, <1>5, OnRoute DEF Executing
<1>7. PICK d, j, h : Reach(t, d, j, h) /\ Margin(t, d, j, h) /\ Looks(t, d)
  BY <1>1, <1>5 DEF Stays, Follows
<1>8. /\ j \in Nat /\ current[t] \in 1 .. j /\ d[j] \in Nat /\ d[h] \in Nat
  BY <1>6, <1>7, ReachTyped DEF Reach
<1>9. Marked(t)'
  <2>1. Marked(t)
    BY <1>1, <1>5 DEF Stays, Follows
  <2> QED BY <1>1, <1>6, <2>1, MarkedStays
<1>10. Reach(t, d, j, h)'
  BY <1>1, <1>4, <1>7, <1>8, ReachStays
<1>11. Margin(t, d, j, h)'
  <2>1. Rest(t, d, j) \in Nat /\ MARGIN \in Nat /\ MARGIN >= 5
    <3>1. train[t].travelled \in Nat /\ train[t].stop_dist \in Nat
      BY <1>0 DEF Rolls
    <3> QED BY <1>8, <3>1, MarginIsNat DEF Rest
  <2>2. /\ current[t] >= First(r)
        /\ Goes(t) => Rest(t, d, j) + MARGIN - (IF moved[t] THEN 5 ELSE 3) <= d[h]
        /\ ~Goes(t) => Rest(t, d, j) <= d[h]
        /\ Rest(t, d, j) <= Seen(t, d) + (IF moved[t] \/ ~Goes(t) THEN 2 ELSE 0)
    BY <1>1, <1>7 DEF Margin
  <2>3. Rest(t, d, j) <= d[h]
    BY <1>8, <2>1, <2>2
  <2>4. Seen(t, d) \in Int
    <3>1. d[current[t]] \in Nat
      BY <1>6, <1>7, ReachTyped
    <3>2. position[t].travelled \in Nat /\ position[t].stop_dist \in Nat
      BY <1>0 DEF Rolls
    <3> QED BY <3>1, <3>2 DEF Seen
  <2>5. Rest(t, d, j) <= Seen(t, d) + 2
    BY <2>1, <2>2, <2>4
  <2>6. /\ Rest(t, d, j)' = Rest(t, d, j) /\ Seen(t, d)' = Seen(t, d) /\ ~Goes(t)'
        /\ current'[t] >= First(r)' /\ pc'[t] = "ahead"
    BY <1>1, <1>3, <1>4, <2>2 DEF Rest, Seen, Goes, First
  <2> QED BY <2>3, <2>5, <2>6 DEF Margin
<1>12. Looks(t, d)'
  <2>1. DOMAIN ahead[t] = {"at", "left", "reached_zero", "tries"}
    BY <1>0 DEF Routed
  <2>2. /\ ahead'[t].at = ahead[t].at /\ ahead'[t].left = ahead[t].left
        /\ ahead'[t].reached_zero = ahead[t].reached_zero /\ ahead'[t].tries = 1
    BY <1>4, <2>1
  <2>3. Seen(t, d)' = Seen(t, d) /\ ~Goes(t)'
    BY <1>1, <1>4 DEF Seen, Goes
  <2>4. \A k \in current[t] .. ahead[t].at - 1 : (Own(t, k) /\ Thrown(t, k))'
    BY <1>1, <1>7 DEF Looks, Own, Thrown, Piece
  <2> QED BY <1>1, <1>3, <1>7, <2>2, <2>3, <2>4 DEF Looks
<1> QED BY <1>1, <1>3, <1>9, <1>10, <1>11, <1>12 DEF Stays, Follows

\* lookahead_node reserves the next node and takes nothing back.
LEMMA ReserveFollows ==
  ASSUME IInv, Counted, NEW t \in Trains, Sound(t), Keeps(t), Reserve(t)
  PROVE  Keeps(t)'
<1> DEFINE r == route[t]
           s == route'[t]
           c == current[t]
<1>0. Typed /\ Located(t) /\ Routed(t) /\ Rolls(t)
  BY DEF IInv, Fine, Sound
<1>1. /\ UNCHANGED <<switches, train, position, current, tries>>
      /\ pc[t] = "ahead" /\ pc'[t] = "act"
      /\ moved'[t] = (moved[t] /\ ahead[t].tries = 0)
      /\ ahead'[t] = [ahead[t] EXCEPT !.tries = 0]
  BY <1>0 DEF Reserve, Goto, Counted, Typed
<1>2. SUFFICES ASSUME Clear(t)' PROVE Stays(t)'
  BY DEF Keeps
<1>3. r \in Seq(RouteNodes) /\ r # <<>> /\ SameWay(r, s) /\ ahead[t].at \in DOMAIN r
  BY AheadSameWay, AheadMarks
<1>4. StartsOnItsArc(t) /\ NoLoop(r) /\ Stays(t)
  <2>1. StartsOnItsArc(t) /\ NoLoop(r)
    BY <1>1, <1>2, <1>3, ClearBefore
  <2> QED BY <1>1, <2>1 DEF Keeps, Clear, Executing
<1>5. /\ Len(r) \in Nat /\ First(r) \in {1, 2}
      /\ \A k \in 1 .. Len(r) : Piece(r[k].node) \in Pieces
  BY <1>1, <1>4, OnRoute DEF Executing
<1>6. PICK d, j, h : Reach(t, d, j, h) /\ Margin(t, d, j, h) /\ Looks(t, d)
  BY <1>1, <1>4 DEF Stays, Follows
<1>7. /\ j \in 1 .. Len(r) /\ h \in 1 .. Len(r) /\ j \in Nat /\ c \in 1 .. Len(r) /\ c \in 1 .. j
      /\ d[c] \in Nat /\ d[j] \in Nat /\ d[h] \in Nat /\ Miles(r, d)
  BY <1>3, <1>5, <1>6, ReachTyped DEF Reach
<1>8. c >= First(r) /\ Marked(t)
  BY <1>1, <1>4, <1>6 DEF Margin, Stays, Follows
<1>9. PICK at \in 1 .. Len(r) : at = ahead[t].at
  BY <1>3
<1>10. /\ c <= at /\ at \in c .. Len(r)
       /\ ahead[t].left = Seen(t, d) + MARGIN - d[at]
       /\ ahead[t].reached_zero <=> ahead[t].left < 0
       /\ ahead[t].tries # 0 => ~Goes(t)
       /\ \A k \in c .. at - 1 : Own(t, k) /\ Thrown(t, k)
  BY <1>1, <1>5, <1>6, <1>7, <1>9 DEF Looks
<1>11. /\ First(s) = First(r) /\ First(route[t])' = First(r) /\ Len(s) = Len(r)
       /\ s[at].reserved /\ (s[at].acted <=> r[at].acted)
       /\ \A k \in 1 .. Len(r) : /\ k # at => s[k] = r[k]
                                 /\ s[k].node = r[k].node /\ s[k].action = r[k].action
  <2>1. ~Act(t)
    BY <1>1 DEF Act
  <2>2. First(s) = First(r) /\ Len(s) = Len(r)
    BY <1>3, SameWayOn DEF SameWay
  <2>3. \A k \in DOMAIN r : k # at => s[k] = r[k]
    BY <1>9, AheadMarks
  <2>4. s[at].reserved /\ (s[at].acted <=> r[at].acted)
    BY <1>9, <2>1, AheadMarks
  <2> QED BY <1>3, <2>2, <2>3, <2>4 DEF First, SameWay
<1>12. owner' = IF r[at].reserved THEN owner ELSE [owner EXCEPT ![Piece(r[at].node)] = t]
  BY <1>9 DEF Reserve
<1>13. \A k \in 1 .. Len(r) : /\ Own(t, k)' <=> owner'[Piece(r[k].node)] = t
                              /\ Thrown(t, k)' <=> Thrown(t, k)
  BY <1>1, <1>11 DEF Own, Thrown, Piece
<1>14. \A k \in 1 .. Len(r) : Own(t, k) => Own(t, k)'
  BY <1>0, <1>5, <1>9, <1>12, <1>13 DEF Own, Typed
<1>15. Own(t, at)'
  <2>1. CASE r[at].reserved
    BY <1>5, <1>7, <1>8, <1>9, <1>10, <1>14, <2>1 DEF Marked
  <2>2. CASE ~r[at].reserved
    BY <1>0, <1>5, <1>9, <1>12, <1>13, <2>2 DEF Typed
  <2> QED BY <2>1, <2>2
<1>16. Marked(t)'
  <2>1. ASSUME NEW k \in 1 .. Len(r)
        PROVE  /\ k < First(r) => ~s[k].reserved
               /\ /\ k >= First(r) /\ k >= c
                  /\ s[k].reserved \/ s[k].acted
                  => Own(t, k)' /\ (s[k].acted => Thrown(t, k)')
    <3>1. CASE k = at
      BY <1>5, <1>7, <1>8, <1>10, <1>11, <1>13, <1>15, <3>1 DEF Marked
    <3>2. CASE k # at
      <4>1. s[k] = r[k]
        BY <1>11, <3>2
      <4> QED BY <1>8, <1>13, <1>14, <4>1 DEF Marked
    <3> QED BY <3>1, <3>2
  <2> QED BY <1>1, <1>11, <2>1 DEF Marked
<1>17. Reach(t, d, j, h)'
  <2>1. \A k \in j .. h : k \in 1 .. Len(r)
    BY <1>7
  <2>2. /\ \A k \in j .. h : Own(t, k)'
        /\ \A k \in j + 1 .. h - 1 : k \in 1 .. Len(r) /\ Thrown(t, k)'
    BY <1>6, <1>7, <1>13, <1>14, <2>1 DEF Reach
  <2> QED BY <1>1, <1>3, <1>5, <1>6, <1>7, <2>2, ReachMarked
<1>18. /\ Seen(t, d) \in Nat /\ Rest(t, d, j) \in Nat /\ MARGIN \in Nat /\ MARGIN >= 5
       /\ Rest(t, d, j)' = Rest(t, d, j) /\ Seen(t, d)' = Seen(t, d) /\ Goes(t)' = Goes(t)
  <2>1. Rest(t, d, j)' = Rest(t, d, j) /\ Seen(t, d)' = Seen(t, d) /\ Goes(t)' = Goes(t)
    BY <1>1 DEF Rest, Seen, Goes
  <2> QED BY <1>0, <1>7, <2>1, MarginIsNat, NumbersAre
<1>19. Margin(t, d, j, h)'
  <2>1. /\ ~Goes(t) => Rest(t, d, j) <= d[h]
        /\ Goes(t) => Rest(t, d, j) + MARGIN - (IF moved[t] THEN 5 ELSE 3) <= d[h]
        /\ Rest(t, d, j) <= Seen(t, d) + (IF moved[t] \/ ~Goes(t) THEN 2 ELSE 0)
        /\ Goes(t) => moved'[t] = moved[t]
    BY <1>1, <1>6, <1>10 DEF Margin, Counted
  <2> QED BY <1>1, <1>8, <1>11, <1>18, <2>1 DEF Margin
<1>20. Looks(t, d)'
  <2>1. /\ ahead'[t].at = at /\ ahead'[t].left = ahead[t].left /\ ahead'[t].tries = 0
        /\ ahead'[t].reached_zero = ahead[t].reached_zero
    BY <1>0, <1>1, <1>9 DEF Routed
  <2>2. \A k \in c .. at - 1 : Own(t, k)' /\ Thrown(t, k)'
    <3>1. \A k \in c .. at - 1 : k \in 1 .. Len(r)
      BY <1>7, <1>9
    <3> QED BY <1>10, <1>13, <1>14, <3>1
  <2> QED BY <1>1, <1>10, <1>11, <1>18, <2>1, <2>2 DEF Looks
<1> QED BY <1>1, <1>16, <1>17, <1>19, <1>20 DEF Stays, Follows

\* What lookahead_node has at a node when it goes on to the next, and that it takes
\* nothing back.
LEMMA ActTakes ==
  ASSUME IInv, NEW t \in Trains, Sound(t), Act(t), Marked(t),
         StartsOnItsArc(t), NoLoop(route[t]),
         NEW at \in Nat, at = ahead[t].at,
         current[t] \in Nat, current[t] >= First(route[t]), current[t] <= at
  PROVE  /\ \A k \in 1 .. Len(route[t]) : Own(t, k) => Own(t, k)'
         /\ Own(t, at)' /\ Thrown(t, at)'
         /\ at < Len(route[t]) =>
              \A k \in First(route[t]) .. Len(route[t]) : Thrown(t, k) => Thrown(t, k)'
<1> DEFINE r == route[t]
           s == route'[t]
<1>0. Typed /\ Routed(t)
  BY DEF IInv, Fine
<1>1. /\ pc[t] = "act" /\ r[at].reserved /\ UNCHANGED owner
      /\ switches' = IF r[at].acted THEN switches ELSE Acted(r, at)
  BY <1>0 DEF Act, Routed
<1>2. /\ Len(r) \in Nat /\ First(r) \in {1, 2} /\ r \in Seq(RouteNodes) /\ r # <<>>
      /\ \A k \in 1 .. Len(r) :
           /\ Piece(r[k].node) \in Pieces
           /\ k >= First(r) /\ r[k].action \in {1, 2} => r[k].node \in Branches /\ k < Len(r)
  BY <1>1, OnRoute DEF Executing
<1>3. /\ at \in 1 .. Len(r) /\ at >= First(r) /\ at >= current[t] /\ at \in First(r) .. Len(r)
  <2>1. at \in 1 .. Len(r)
    BY <1>2, AheadMarks
  <2> QED BY <1>2, <2>1
<1>4. \A k \in 1 .. Len(r) : s[k].node = r[k].node /\ s[k].action = r[k].action
  BY AheadSameWay DEF SameWay
<1>5. \A k \in 1 .. Len(r) : Own(t, k)' <=> owner'[Piece(r[k].node)] = t
  BY <1>4 DEF Own, Piece
<1>6. \A k \in 1 .. Len(r) :
        Thrown(t, k)' <=> (r[k].action \in {1, 2} => switches'[r[k].node] = r[k].action - 1)
  BY <1>4 DEF Thrown
<1>7. Own(t, at) /\ (r[at].acted => Thrown(t, at))
  BY <1>1, <1>3 DEF Marked
<1>8. \A k \in 1 .. Len(r) : Own(t, k) => Own(t, k)'
  BY <1>1, <1>5 DEF Own
<1>9. Own(t, at)'
  BY <1>1, <1>3, <1>5, <1>7 DEF Own
<1>10. Thrown(t, at)'
  <2>1. CASE r[at].acted
    <3>1. switches' = switches
      BY <1>1, <2>1
    <3>2. r[at].action \in {1, 2} => switches[r[at].node] = r[at].action - 1
      BY <1>7, <2>1 DEF Thrown
    <3>3. Thrown(t, at)' <=> (r[at].action \in {1, 2} => switches'[r[at].node] = r[at].action - 1)
      BY <1>3, <1>6
    <3> QED BY <3>1, <3>2, <3>3
  <2>2. CASE ~r[at].acted
    <3>1. ASSUME r[at].action \in {1, 2} PROVE switches'[r[at].node] = r[at].action - 1
      <4>1. switches' = [switches EXCEPT ![r[at].node] = r[at].action - 1]
        BY <1>1, <2>2, <3>1 DEF Acted
      <4>2. r[at].node \in DOMAIN switches
        BY <1>0, <1>2, <1>3, <3>1 DEF Typed
      <4> QED BY <4>1, <4>2
    <3> QED BY <1>3, <1>6, <3>1
  <2> QED BY <2>1, <2>2
<1>11. ASSUME at < Len(r), NEW k \in First(r) .. Len(r), Thrown(t, k) PROVE Thrown(t, k)'
  <2>1. CASE k = at
    BY <1>10, <2>1
  <2>2. CASE k # at
    <3>1. k \in 1 .. Len(r) /\ k \in First(r) .. Len(r)
      BY <1>2, <1>11
    <3>2. r[k].node # r[at].node
      BY <1>3, <2>2, <3>1 DEF NoLoop
    <3>3. \/ switches' = switches
          \/ switches' = [switches EXCEPT ![r[at].node] = r[at].action - 1]
      <4>1. r[at].action # 4
        BY <1>0, <1>2, <1>3, <1>11 DEF Routed
      <4> QED BY <1>1, <4>1 DEF Acted
    <3>4. r[k].action \in {1, 2} => switches'[r[k].node] = switches[r[k].node]
      <4>1. r[k].action \in {1, 2} => r[k].node \in DOMAIN switches
        BY <1>0, <1>2, <1>11, <3>1 DEF Typed
      <4> QED BY <3>2, <3>3, <4>1
    <3> QED BY <1>6, <1>11, <3>1, <3>4 DEF Thrown
  <2> QED BY <2>1, <2>2
<1> QED BY <1>8, <1>9, <1>10, <1>11

\* lookahead_node goes on to the next node, gives over to the marker when the train
\* can stop before the node it has come to, or waits when that is the last one.
LEMMA ActFollows ==
  ASSUME IInv, Counted, NEW t \in Trains, Sound(t), Keeps(t), Act(t)
  PROVE  Keeps(t)'
<1> DEFINE r == route[t]
           s == route'[t]
           c == current[t]
<1>0. Typed /\ Located(t) /\ Routed(t) /\ Rolls(t)
  BY DEF IInv, Fine, Sound
<1>1. UNCHANGED <<train, position, current, tries, moved>> /\ pc[t] = "act"
  BY DEF Act
<1>2. SUFFICES ASSUME Clear(t)' PROVE Stays(t)'
  BY DEF Keeps
<1>3. r \in Seq(RouteNodes) /\ r # <<>> /\ SameWay(r, s) /\ ahead[t].at \in DOMAIN r
  BY AheadSameWay, AheadMarks
<1>4. StartsOnItsArc(t) /\ NoLoop(r) /\ Stays(t)
  <2>1. StartsOnItsArc(t) /\ NoLoop(r)
    BY <1>1, <1>2, <1>3, ClearBefore
  <2> QED BY <1>1, <2>1 DEF Keeps, Clear, Executing
<1>5. Len(r) \in Nat /\ First(r) \in {1, 2} /\ \A k \in 1 .. Len(r) : r[k].arc_dist \in Nat
  BY <1>1, <1>4, OnRoute DEF Executing
<1>6. PICK d, j, h : Reach(t, d, j, h) /\ Margin(t, d, j, h) /\ Looks(t, d)
  BY <1>1, <1>4 DEF Stays, Follows
<1>7. /\ j \in Nat /\ h \in Nat /\ j \in 1 .. Len(r) /\ h \in 1 .. Len(r) /\ j >= First(r)
      /\ c \in 1 .. Len(r) /\ c \in 1 .. j /\ c <= j /\ d[c] \in Nat /\ d[j] \in Nat /\ d[h] \in Nat
      /\ Miles(r, d)
  BY <1>3, <1>5, <1>6, ReachTyped DEF Reach
<1>8. c >= First(r) /\ Marked(t)
  BY <1>1, <1>4, <1>6 DEF Margin, Stays, Follows
<1>9. PICK at \in 1 .. Len(r) : at = ahead[t].at
  BY <1>3
<1>10. /\ at \in Nat /\ c <= at /\ d[at] \in Nat
       /\ ahead[t].left = Seen(t, d) + MARGIN - d[at]
       /\ ahead[t].reached_zero <=> ahead[t].left < 0
       /\ \A k \in c .. at - 1 : Own(t, k) /\ Thrown(t, k)
  BY <1>1, <1>5, <1>6, <1>7, <1>9 DEF Looks, Miles
<1>11. /\ \A k \in 1 .. Len(r) : Own(t, k) => Own(t, k)'
       /\ Own(t, at)' /\ Thrown(t, at)'
       /\ at < Len(r) => \A k \in First(r) .. Len(r) : Thrown(t, k) => Thrown(t, k)'
  BY <1>4, <1>7, <1>8, <1>9, <1>10, ActTakes
<1>12. /\ First(s) = First(r) /\ First(route[t])' = First(r) /\ Len(s) = Len(r) /\ Miles(s, d)
       /\ \A k \in 1 .. Len(r) : k # at => s[k] = r[k]
  <2>1. First(s) = First(r) /\ Miles(s, d) /\ Len(s) = Len(r)
    BY <1>3, <1>7, SameWayOn DEF SameWay
  <2>2. \A k \in DOMAIN r : k # at => s[k] = r[k]
    BY <1>9, AheadMarks
  <2> QED BY <1>3, <2>1, <2>2 DEF First
<1>13. \A k \in c .. at : Own(t, k)'
  <2> SUFFICES ASSUME NEW k \in c .. at PROVE Own(t, k)'
    OBVIOUS
  <2>1. CASE k = at
    BY <1>11, <2>1
  <2>2. CASE k # at
    <3>1. k \in c .. at - 1 /\ k \in 1 .. Len(r)
      BY <1>7, <1>9, <1>10, <2>2
    <3> QED BY <1>10, <1>11, <3>1
  <2> QED BY <2>1, <2>2
<1>14. CASE at = Len(r)
  <2>1. pc'[t] = "wait"
    BY <1>0, <1>9, <1>14 DEF Act, Goto, Typed
  <2>2. current'[t] \in 1 .. Len(s) /\ \A k \in current'[t] .. Len(s) : Own(t, k)'
    BY <1>1, <1>7, <1>12, <1>13, <1>14
  <2> QED BY <2>1, <2>2 DEF Stays
<1>15. CASE at # Len(r)
  <2>0. at < Len(r) /\ at + 1 \in c .. Len(r) /\ at \in 1 .. Len(r) - 1
    BY <1>5, <1>7, <1>9, <1>10, <1>15
  <2>1. \A k \in c .. at : Thrown(t, k)'
    <3> SUFFICES ASSUME NEW k \in c .. at PROVE Thrown(t, k)'
      OBVIOUS
    <3>1. CASE k = at
      BY <1>11, <3>1
    <3>2. CASE k # at
      <4>1. k \in c .. at - 1 /\ k \in First(r) .. Len(r)
        BY <1>5, <1>7, <1>8, <1>9, <1>10, <3>2
      <4> QED BY <1>10, <1>11, <2>0, <4>1
    <3> QED BY <3>1, <3>2
  <2>2. Marked(t)'
    <3>1. ASSUME NEW k \in 1 .. Len(r)
          PROVE  /\ k < First(r) => ~s[k].reserved
                 /\ /\ k >= First(r) /\ k >= c
                    /\ s[k].reserved \/ s[k].acted
                    => Own(t, k)' /\ (s[k].acted => Thrown(t, k)')
      <4>1. CASE k = at
        BY <1>5, <1>7, <1>8, <1>10, <1>11, <4>1
      <4>2. CASE k # at
        <5>1. s[k] = r[k]
          BY <1>12, <4>2
        <5>2. /\ k < First(r) => ~r[k].reserved
              /\ /\ k >= First(r) /\ k >= c
                 /\ r[k].reserved \/ r[k].acted
                 => Own(t, k) /\ (r[k].acted => Thrown(t, k))
          BY <1>8 DEF Marked
        <5>3. k >= First(r) => k \in First(r) .. Len(r)
          BY <1>5
        <5> QED BY <1>11, <2>0, <5>1, <5>2, <5>3
      <4> QED BY <4>1, <4>2
    <3> QED BY <1>1, <1>12, <3>1 DEF Marked
  <2>3. d[at + 1] = d[at] + r[at].arc_dist /\ r[at].arc_dist \in Nat
    BY <1>5, <1>7, <1>9, <2>0 DEF Miles
  <2>4. /\ Seen(t, d) \in Nat /\ Rest(t, d, j) \in Nat /\ d[j] <= Rest(t, d, j)
        /\ MARGIN \in Nat /\ MARGIN >= 5
    BY <1>0, <1>7, MarginIsNat, NumbersAre
  <2>5. Rest(t, d, j)' = Rest(t, d, j) /\ Seen(t, d)' = Seen(t, d) /\ Goes(t)' = Goes(t)
    BY <1>1 DEF Rest, Seen, Goes
  <2>6. /\ ~Goes(t) => Rest(t, d, j) <= d[h]
        /\ Goes(t) => Rest(t, d, j) + MARGIN - (IF moved[t] THEN 5 ELSE 3) <= d[h]
        /\ Rest(t, d, j) <= Seen(t, d) + (IF moved[t] \/ ~Goes(t) THEN 2 ELSE 0)
        /\ moved'[t] = moved[t]
    BY <1>1, <1>6 DEF Margin
  <2>7. CASE ahead[t].left - r[at].arc_dist < 0 /\ ahead[t].reached_zero
    <3>1. pc'[t] = "mark"
      BY <1>0, <1>9, <1>15, <2>7 DEF Act, Goto, Typed
    <3>2. Seen(t, d) + MARGIN < d[at]
      BY <1>10, <2>4, <2>7
    <3>3. j < at
      <4>1. Rest(t, d, j) <= Seen(t, d) + 2
        BY <2>4, <2>6
      <4>2. ~(d[at] <= d[j])
        BY <1>7, <1>10, <2>4, <3>2, <4>1
      <4>3. at <= j => d[at] <= d[j]
        BY <1>3, <1>7, <1>9, MilesGrow
      <4> QED BY <1>7, <1>10, <4>2, <4>3
    <3>4. Reach(t, d, j, at)'
      <4>1. \A k \in j .. at : Own(t, k)'
        BY <1>7, <1>10, <1>13
      <4>2. \A k \in j + 1 .. at - 1 : Thrown(t, k)'
        BY <1>7, <1>10, <2>1
      <4>3. /\ j \in First(route[t])' .. Len(s) /\ at \in j + 1 .. Len(s)
        BY <1>7, <1>9, <1>12, <3>3
      <4>4. Way(s, j) = Way(r, j) /\ train'[t].arc = Way(r, j)
        BY <1>1, <1>3, <1>6, <1>7, SameWayOn DEF Reach
      <4>5. Miles(route[t], d)' /\ Way(route[t], j)' = Way(s, j)
        BY <1>12 DEF Miles, Way
      <4> QED BY <1>1, <1>7, <4>1, <4>2, <4>3, <4>4, <4>5 DEF Reach
    <3>5. Margin(t, d, j, at)'
      <4>1. Rest(t, d, j) + MARGIN - (IF moved'[t] \/ ~Goes(t) THEN 1 ELSE -1) <= d[at]
        <5>1. Rest(t, d, j) <= Seen(t, d) + (IF moved'[t] \/ ~Goes(t) THEN 2 ELSE 0)
          BY <2>6
        <5> QED BY <1>10, <2>4, <3>2, <5>1
      <4> QED BY <2>5, <3>1, <4>1 DEF Margin
    <3>6. Looks(t, d)'
      BY <3>1 DEF Looks
    <3> QED BY <2>2, <3>1, <3>4, <3>5, <3>6 DEF Stays, Follows
  <2>8. CASE ~(ahead[t].left - r[at].arc_dist < 0 /\ ahead[t].reached_zero)
    <3>1. /\ pc'[t] = "ahead"
          /\ ahead'[t] = [at |-> at + 1, left |-> ahead[t].left - r[at].arc_dist,
               reached_zero |-> ahead[t].reached_zero \/ ahead[t].left - r[at].arc_dist < 0, tries |-> 0]
      BY <1>0, <1>1, <1>9, <1>15, <2>8 DEF Act, Goto, Typed
    <3>2. Reach(t, d, j, h)'
      <4>1. \A k \in j .. h : Own(t, k)'
        <5>1. \A k \in j .. h : k \in 1 .. Len(r)
          BY <1>7
        <5> QED BY <1>6, <1>11, <5>1 DEF Reach
      <4>2. \A k \in j + 1 .. h - 1 : Thrown(t, k)'
        <5>1. \A k \in j + 1 .. h - 1 : k \in First(r) .. Len(r)
          BY <1>5, <1>7
        <5> QED BY <1>6, <1>11, <2>0, <5>1 DEF Reach
      <4> QED BY <1>1, <1>3, <1>5, <1>6, <1>7, <4>1, <4>2, ReachMarked
    <3>3. Margin(t, d, j, h)'
      BY <1>1, <1>8, <1>12, <2>4, <2>5, <2>6, <3>1 DEF Margin
    <3>4. Looks(t, d)'
      <4>1. /\ ahead[t].left - r[at].arc_dist = Seen(t, d) + MARGIN - d[at + 1]
            /\ ahead[t].reached_zero \/ ahead[t].left - r[at].arc_dist < 0
               <=> ahead[t].left - r[at].arc_dist < 0
        <5>1. PICK left, dist, seen : left = ahead[t].left /\ dist = r[at].arc_dist /\ seen = Seen(t, d)
          OBVIOUS
        <5>2. dist \in Nat /\ seen \in Nat /\ d[at] \in Nat /\ d[at + 1] = d[at] + dist
          BY <1>10, <2>3, <2>4, <5>1
        <5>3. left = seen + MARGIN - d[at]
          BY <1>10, <5>1
        <5>4. left - dist = seen + MARGIN - d[at + 1] /\ (left < 0 => left - dist < 0)
          BY <2>4, <5>2, <5>3
        <5>5. ahead[t].reached_zero <=> left < 0
          BY <1>10, <5>1
        <5> QED BY <5>1, <5>4, <5>5
      <4>2. /\ ahead'[t].at = at + 1 /\ ahead'[t].tries = 0
            /\ ahead'[t].left = ahead[t].left - r[at].arc_dist
            /\ ahead'[t].reached_zero = (ahead[t].reached_zero \/ ahead[t].left - r[at].arc_dist < 0)
        <5> DEFINE zero == ahead[t].reached_zero \/ ahead[t].left - r[at].arc_dist < 0
                   left == ahead[t].left - r[at].arc_dist
        <5> HIDE DEF zero, left
        <5>1. ahead'[t] = [at |-> at + 1, left |-> left, reached_zero |-> zero, tries |-> 0]
          BY <3>1 DEF zero, left
        <5>2. /\ ahead'[t].at = at + 1 /\ ahead'[t].tries = 0
              /\ ahead'[t].left = left /\ ahead'[t].reached_zero = zero
          BY <5>1
        <5> QED BY <5>2 DEF zero, left
      <4>3. \A k \in c .. (at + 1) - 1 : Own(t, k)' /\ Thrown(t, k)'
        BY <1>9, <1>13, <2>1
      <4> QED BY <1>1, <1>12, <2>0, <2>5, <4>1, <4>2, <4>3 DEF Looks
    <3> QED BY <2>2, <3>1, <3>2, <3>3, <3>4 DEF Stays, Follows
  <2> QED BY <2>7, <2>8
<1> QED BY <1>14, <1>15

\* The marker is set and a train that stands is started.
LEMMA MarkKeeps ==
  ASSUME IInv, Counted, NEW t \in Trains, Sound(t), Keeps(t), Mark(t)
  PROVE  Keeps(t)'
<1> DEFINE r == route[t]
<1>0. Typed /\ Located(t) /\ Routed(t) /\ Rolls(t)
  BY DEF IInv, Fine, Sound
<1>1. /\ UNCHANGED <<owner, switches, moved, route, current, position, tries>>
      /\ pc[t] = "mark" /\ pc'[t] = "poll"
      /\ train'[t].arc = train[t].arc /\ train'[t].travelled = train[t].travelled
      /\ train'[t].stop_dist = train[t].stop_dist
  BY <1>0 DEF Mark, Goto, Located, Typed
<1>2. SUFFICES ASSUME Clear(t)' PROVE Stays(t)'
  BY DEF Keeps
<1>3. StartsOnItsArc(t) /\ NoLoop(r) /\ Stays(t)
  <2>1. Clear(t)
    BY <1>1, <1>2 DEF Clear, StartsOnItsArc, StartArc, First, NoLoop, Piece, Executing
  <2> QED BY <2>1 DEF Keeps, Clear
<1>4. r \in Seq(RouteNodes) /\ Len(r) \in Nat /\ First(r) \in {1, 2}
  BY <1>1, <1>3, OnRoute DEF Executing
<1>5. PICK d, j, h : Reach(t, d, j, h) /\ Margin(t, d, j, h)
  BY <1>1, <1>3 DEF Stays, Follows
<1>6. current[t] \in 1 .. j /\ d[j] \in Nat /\ d[h] \in Nat /\ d[current[t]] \in Nat
  BY <1>4, <1>5, ReachTyped DEF Reach
<1>7. Marked(t)'
  <2>1. Marked(t)
    BY <1>1, <1>3 DEF Stays, Follows
  <2> QED BY <1>1, <1>4, <2>1, MarkedStays
<1>8. Reach(t, d, j, h)'
  BY <1>1, <1>5, <1>6, ReachStays
<1>9. Margin(t, d, j, h)'
  <2>1. Rest(t, d, j) \in Nat /\ MARGIN \in Nat /\ MARGIN >= 5
    BY <1>0, <1>6, NumbersAre, MarginIsNat
  <2>2. Rest(t, d, j) + MARGIN - (IF moved[t] \/ ~Goes(t) THEN 1 ELSE -1) <= d[h]
    BY <1>1, <1>5 DEF Margin
  <2>3. Rest(t, d, j) + MARGIN - 1 <= d[h]
    BY <1>6, <2>1, <2>2
  <2>4. /\ Rest(t, d, j) <= d[h]
        /\ Rest(t, d, j) + MARGIN - (IF moved[t] THEN 3 ELSE 1) <= d[h]
    BY <1>6, <2>1, <2>3
  <2>5. Rest(t, d, j)' = Rest(t, d, j) /\ moved'[t] = moved[t]
    BY <1>1 DEF Rest
  <2> QED BY <1>1, <2>4, <2>5 DEF Margin
<1>10. Looks(t, d)'
  BY <1>1 DEF Looks
<1> QED BY <1>1, <1>7, <1>8, <1>9, <1>10 DEF Stays, Follows

\* The tick of the location server and its stop task can only have the train stop.
LEMMA SlowsKeeps ==
  ASSUME IInv, Counted, NEW t \in Trains, Sound(t), Keeps(t), Tick(t) \/ TimedStop(t)
  PROVE  Keeps(t)'
<1> DEFINE r == route[t]
<1>0. Typed /\ Located(t) /\ Routed(t) /\ Rolls(t)
  BY DEF IInv, Fine, Sound
<1>1. /\ UNCHANGED <<owner, switches, moved, route, current, position, ahead, tries, pc>>
      /\ train'[t].arc = train[t].arc /\ train'[t].travelled = train[t].travelled
      /\ train'[t].stop_dist = train[t].stop_dist /\ train'[t].speed \in {0, train[t].speed}
  <2>1. CASE Tick(t)
    BY <1>0, <2>1 DEF Tick, Located, Typed, driving
  <2>2. CASE TimedStop(t)
    BY <1>0, <2>2 DEF TimedStop, TrainSetSpeed, Located, Typed, driving
  <2> QED BY <2>1, <2>2
<1>2. SUFFICES ASSUME Clear(t)' PROVE Stays(t)'
  BY DEF Keeps
<1>3. Clear(t) /\ Stays(t)
  <2>1. Clear(t)
    BY <1>1, <1>2 DEF Clear, StartsOnItsArc, StartArc, First, NoLoop, Piece, Executing
  <2> QED BY <2>1 DEF Keeps
<1>4. r \in Seq(RouteNodes) /\ Len(r) \in Nat /\ First(r) \in {1, 2}
  BY <1>3, OnRoute DEF Clear
<1>5. CASE pc[t] \in {"reverse", "wait"}
  BY <1>1, <1>3, <1>5 DEF Stays, Own, Piece, First
<1>6. CASE pc[t] \in {"poll", "behind", "ahead", "act", "mark"}
  <2>1. PICK d, j, h : Reach(t, d, j, h) /\ Margin(t, d, j, h) /\ Looks(t, d)
    BY <1>3, <1>6 DEF Stays, Follows
  <2>2. current[t] \in 1 .. j /\ d[j] \in Nat /\ d[h] \in Nat /\ d[current[t]] \in Nat
    BY <1>4, <2>1, ReachTyped DEF Reach
  <2>3. Marked(t)'
    <3>1. Marked(t)
      BY <1>3, <1>6 DEF Stays, Follows
    <3> QED BY <1>1, <1>4, <3>1, MarkedStays
  <2>4. Reach(t, d, j, h)'
    BY <1>1, <2>1, <2>2, ReachStays
  <2>5. /\ Rest(t, d, j)' = Rest(t, d, j) /\ Seen(t, d)' = Seen(t, d) /\ First(r)' = First(r)
        /\ Goes(t)' => Goes(t)
    BY <1>1 DEF Rest, Seen, Goes, First
  <2>6. Margin(t, d, j, h)'
    <3>1. /\ Rest(t, d, j) \in Nat /\ Seen(t, d) \in Nat /\ MARGIN \in Nat /\ MARGIN >= 5
          /\ moved[t] \in BOOLEAN
      BY <1>0, <2>2, NumbersAre, MarginIsNat DEF Counted
    <3>2. pc[t] \in {"poll", "behind", "ahead", "act"} => Rest(t, d, j) <= d[h]
      <4>1. pc[t] \in {"poll", "behind", "ahead", "act"} /\ Goes(t) => Rest(t, d, j) + MARGIN - 5 <= d[h]
        BY <2>1, <2>2, <3>1 DEF Margin
      <4> QED BY <2>1, <2>2, <3>1, <4>1 DEF Margin
    <3>3. pc[t] \in {"behind", "ahead", "act"} =>
            Rest(t, d, j) <= Seen(t, d) + (IF moved[t] \/ ~Goes(t)' THEN 2 ELSE 0)
      BY <2>1, <2>5, <3>1 DEF Margin
    <3>4. pc[t] = "mark" =>
            Rest(t, d, j) + MARGIN - (IF moved[t] \/ ~Goes(t)' THEN 1 ELSE -1) <= d[h]
      BY <2>1, <2>2, <2>5, <3>1 DEF Margin
    <3> QED BY <1>1, <2>1, <2>5, <3>2, <3>3, <3>4 DEF Margin
  <2>7. Looks(t, d)'
    <3>1. \A k \in current[t] .. ahead[t].at - 1 : Own(t, k) /\ Thrown(t, k) => (Own(t, k) /\ Thrown(t, k))'
      BY <1>1 DEF Own, Thrown, Piece
    <3> QED BY <1>1, <2>1, <2>5, <3>1 DEF Looks
  <2> QED BY <1>1, <1>6, <2>3, <2>4, <2>6, <2>7 DEF Stays, Follows
<1> QED BY <1>3, <1>5, <1>6 DEF Clear, Executing

\* From the end of the arc of node j the train goes on to the arc of the next node.
LEMMA OnToNext ==
  ASSUME IInv, NEW t \in Trains, Sound(t), Executing(t), StartsOnItsArc(t),
         NEW d, NEW j, NEW h, Reach(t, d, j, h), j + 1 < h, NextArc(train[t].arc) # NoArc
  PROVE  NextArc(train[t].arc) = Way(route[t], j + 1)
<1> DEFINE r == route[t]
<1>1. /\ r \in Seq(RouteNodes) /\ Len(r) \in Nat /\ First(r) \in {1, 2}
      /\ StartArc(t) \in Arcs /\ StartArc(t)[2] = 1 /\ LaidOut(r, StartArc(t))
  BY OnRoute
<1>2. /\ j \in First(r) .. Len(r) - 1 /\ j \in Nat /\ h \in Nat /\ h \in 1 .. Len(r) /\ j >= First(r)
  BY <1>1, ReachTyped
<1>3. Dest(train[t].arc) = r[j + 1].node
  BY <1>1, <1>2, WayOn DEF Reach
<1>4. NextArc(train[t].arc) = ArcFrom(r[j + 1].node)
  BY <1>3 DEF NextArc
<1>5. j + 1 \in First(r) + 1 .. Len(r) - 1 /\ j + 1 \in j + 1 .. h - 1
  BY <1>1, <1>2
<1>6. CASE type[r[j + 1].node] = "NODE_BRANCH"
  <2>1. r[j + 1].action \in {1, 2}
    BY <1>1, <1>5, <1>6 DEF LaidOut
  <2>2. switches[r[j + 1].node] = r[j + 1].action - 1
    BY <1>5, <2>1 DEF Reach, Thrown
  <2> QED BY <1>4, <1>6, <2>1, <2>2 DEF ArcFrom, Way
<1>7. CASE type[r[j + 1].node] # "NODE_BRANCH"
  <2>1. r[j + 1].action = 0
    BY <1>1, <1>5, <1>7 DEF LaidOut
  <2> QED BY <1>4, <1>7, <2>1 DEF ArcFrom, Way
<1> QED BY <1>6, <1>7

\* A train that moves stays on its own way.
LEMMA MoveKeeps ==
  ASSUME IInv, Counted, NEW t \in Trains, Sound(t), Keeps(t), Move(t)
  PROVE  Keeps(t)'
<1> DEFINE r == route[t]
           stays == train[t].travelled < Dist(train[t].arc)
<1>0. Typed /\ Located(t) /\ Routed(t) /\ Rolls(t)
  BY DEF IInv, Fine, Sound
<1>1. /\ UNCHANGED <<owner, switches, route, current, position, ahead, tries, pc>>
      /\ moved'[t] = TRUE /\ (Polling(t) => ~moved[t])
      /\ ~stays => NextArc(train[t].arc) # NoArc
  BY DEF Move, Counted, driving
<1>2. SUFFICES ASSUME Clear(t)' PROVE Stays(t)'
  BY DEF Keeps
<1>3. Clear(t) /\ Stays(t)
  <2>1. Clear(t)
    BY <1>1, <1>2 DEF Clear, StartsOnItsArc, StartArc, First, NoLoop, Piece, Executing
  <2> QED BY <2>1 DEF Keeps
<1>4. /\ r \in Seq(RouteNodes) /\ Len(r) \in Nat /\ First(r) \in {1, 2}
      /\ StartArc(t) \in Arcs /\ StartArc(t)[2] = 1 /\ LaidOut(r, StartArc(t))
      /\ \A k \in 1 .. Len(r) : r[k].arc_dist \in Nat
  BY <1>3, OnRoute DEF Clear
<1>5. CASE pc[t] \in {"reverse", "wait"}
  BY <1>1, <1>3, <1>5 DEF Stays, Own, Piece, First
<1>6. CASE pc[t] \in {"poll", "behind", "ahead", "act", "mark"}
  <2>1. PICK d, j, h : Reach(t, d, j, h) /\ Margin(t, d, j, h) /\ Looks(t, d)
    BY <1>3, <1>6 DEF Stays, Follows
  <2>2. /\ j \in Nat /\ h \in Nat /\ j < h /\ j \in First(r) .. Len(r) - 1 /\ h \in 1 .. Len(r)
        /\ j >= First(r) /\ j \in 1 .. Len(r) - 1
        /\ current[t] \in 1 .. j /\ d[j] \in Nat /\ d[h] \in Nat /\ d[current[t]] \in Nat
    <3>1. /\ j \in Nat /\ h \in Nat /\ j < h /\ j \in First(r) .. Len(r) - 1 /\ h \in 1 .. Len(r)
          /\ j >= First(r) /\ j \in 1 .. Len(r) /\ d[j] \in Nat /\ d[h] \in Nat /\ d[current[t]] \in Nat
      BY <1>4, <2>1, ReachTyped
    <3>2. current[t] \in 1 .. j
      BY <2>1 DEF Reach
    <3> QED BY <1>4, <3>1, <3>2
  <2>3. /\ train[t].arc = Way(r, j) /\ Dist(train[t].arc) = r[j].arc_dist
        /\ d[j + 1] = d[j] + r[j].arc_dist /\ r[j].arc_dist \in Nat
    BY <1>4, <2>1, <2>2, WayOn DEF Reach, Miles
  <2>4. /\ Rest(t, d, j) \in Nat /\ Seen(t, d) \in Nat /\ MARGIN \in Nat /\ MARGIN >= 5
        /\ moved[t] \in BOOLEAN /\ d[j] <= Rest(t, d, j)
    BY <1>0, <2>2, NumbersAre, MarginIsNat DEF Counted
  <2>5. PICK i \in {j, j + 1} :
          /\ i = IF stays THEN j ELSE j + 1
          /\ IF Goes(t) THEN Rest(t, d, i)' \in {Rest(t, d, j) + 1, Rest(t, d, j) + 2}
             ELSE Rest(t, d, i)' = Rest(t, d, j)
          /\ ~stays => d[i] + 1 <= Rest(t, d, i)'
    <3>1. /\ train[t].travelled \in 0 .. Dist(train[t].arc) /\ train[t].stop_dist \in Nat
          /\ train'[t].stop_dist \in Nat
      BY <1>0, RollsOn DEF Rolls
    <3>2. /\ IF stays THEN train'[t].travelled = train[t].travelled + 1 ELSE train'[t].travelled = 1
          /\ IF ~Goes(t) THEN train'[t].stop_dist = train[t].stop_dist - 1
             ELSE train'[t].stop_dist \in {train[t].stop_dist, train[t].stop_dist + 1}
      BY <1>0, RollsOn DEF Goes
    <3>3. PICK x \in Nat, y \in Nat, z \in Nat, w \in Nat :
                 x = d[j] /\ y = train[t].travelled /\ z = train[t].stop_dist /\ w = train'[t].stop_dist
      BY <2>2, <3>1
    <3>4. Rest(t, d, j) = x + y + z
      BY <3>3 DEF Rest
    <3>5. IF ~Goes(t) THEN w = z - 1 ELSE w \in {z, z + 1}
      BY <3>2, <3>3
    <3>6. CASE stays
      <4>1. Rest(t, d, j)' = x + (y + 1) + w
        BY <3>2, <3>3, <3>6 DEF Rest
      <4> QED BY <3>4, <3>5, <3>6, <4>1
    <3>7. CASE ~stays
      <4>1. d[j + 1] = x + y
        BY <2>3, <3>1, <3>3, <3>7
      <4>2. Rest(t, d, j + 1)' = (x + y) + 1 + w
        BY <3>2, <3>3, <3>7, <4>1 DEF Rest
      <4> QED BY <3>4, <3>5, <3>7, <4>1, <4>2
    <3> QED BY <3>6, <3>7
  <2>6. Goes(t) => ~moved[t]
    BY <1>1, <1>6, <2>1 DEF Looks, Polling
  <2>7. Rest(t, d, i)' \in Nat /\ Rest(t, d, i)' <= d[h]
    BY <1>6, <2>1, <2>2, <2>4, <2>5, <2>6 DEF Margin
  <2>8. i < h /\ train'[t].arc = Way(r, i)
    <3>1. CASE stays
      BY <1>0, <2>2, <2>3, <2>5, <3>1, RollsOn
    <3>2. CASE ~stays
      <4>1. i = j + 1 /\ d[i] < d[h]
        BY <2>2, <2>3, <2>5, <2>7, <3>2
      <4>2. j + 1 < h
        BY <2>2, <4>1
      <4>3. train'[t].arc = NextArc(train[t].arc) /\ NextArc(train[t].arc) # NoArc
        BY <1>0, <1>1, <3>2, RollsOn
      <4> QED BY <1>3, <1>6, <2>1, <4>1, <4>2, <4>3, OnToNext DEF Clear, Executing
    <3> QED BY <3>1, <3>2
  <2>9. /\ First(r)' = First(r) /\ Seen(t, d)' = Seen(t, d) /\ Goes(t)' = Goes(t)
        /\ \A k : Own(t, k)' = Own(t, k) /\ Thrown(t, k)' = Thrown(t, k)
    <3>1. train'[t].speed = train[t].speed
      BY <1>0, RollsOn
    <3> QED BY <1>1, <3>1 DEF First, Seen, Goes, Own, Thrown, Piece
  <2>10. Marked(t)'
    <3>1. Marked(t)
      BY <1>3, <1>6 DEF Stays, Follows
    <3> QED BY <1>1, <1>4, <3>1, MarkedStays
  <2>11. Reach(t, d, i, h)'
    <3>1. /\ i \in First(r) .. Len(r) /\ h \in i + 1 .. Len(r) /\ current[t] \in 1 .. i
          /\ \A k \in i .. h : k \in j .. h
          /\ \A k \in i + 1 .. h - 1 : k \in j + 1 .. h - 1
      BY <1>4, <2>2, <2>5, <2>8
    <3>2. /\ \A k \in i .. h : Own(t, k)
          /\ \A k \in i + 1 .. h - 1 : Thrown(t, k)
      BY <2>1, <3>1 DEF Reach
    <3>3. Miles(route[t], d)' /\ Way(route[t], i)' = Way(r, i)
      BY <1>1, <2>1 DEF Reach, Miles, Way
    <3> QED BY <1>1, <2>8, <2>9, <3>1, <3>2, <3>3 DEF Reach
  <2>12. Margin(t, d, i, h)'
    <3>1. PICK x \in Nat, y \in Nat, z \in Nat, g \in Nat, m \in Nat :
            x = Rest(t, d, i)' /\ y = Rest(t, d, j) /\ z = Seen(t, d) /\ g = d[h] /\ m = MARGIN
      BY <2>2, <2>4, <2>7
    <3>2. IF Goes(t) THEN x <= y + 2 ELSE x = y
      BY <2>5, <3>1
    <3>3. pc[t] = "poll" /\ Goes(t) => x + m - 3 <= g
      <4>1. pc[t] = "poll" /\ Goes(t) => y + m - 1 <= g
        BY <2>1, <2>6, <3>1 DEF Margin
      <4> QED BY <3>2, <4>1
    <3>4. pc[t] \in {"behind", "ahead", "act"} =>
            /\ current[t] >= First(r)
            /\ Goes(t) => x + m - 5 <= g
            /\ x <= z + 2
      <4>1. pc[t] \in {"behind", "ahead", "act"} =>
              /\ current[t] >= First(r)
              /\ Goes(t) => y + m - 3 <= g /\ y <= z + 0
              /\ ~Goes(t) => y <= z + 2
        BY <2>1, <2>6, <3>1 DEF Margin
      <4> QED BY <3>2, <4>1
    <3>5. pc[t] = "mark" => x + m - 1 <= g
      <4>1. pc[t] = "mark" => IF Goes(t) THEN y + m - (-1) <= g ELSE y + m - 1 <= g
        BY <2>1, <2>6, <3>1 DEF Margin
      <4> QED BY <3>2, <4>1
    <3> QED BY <1>1, <2>7, <2>9, <3>1, <3>3, <3>4, <3>5 DEF Margin
  <2>13. Looks(t, d)'
    BY <1>1, <2>1, <2>9 DEF Looks
  <2> QED BY <1>1, <1>6, <2>10, <2>11, <2>12, <2>13 DEF Stays, Follows
<1> QED BY <1>3, <1>5, <1>6 DEF Clear, Executing

\* Every step of the train and of its driver, unless it disturbs it.
LEMMA KeepsOwn ==
  ASSUME IInv, Counted, NEW t \in Trains, Sound(t), Driver(t) \/ World(t),
         t \notin disturbed => Keeps(t), t \notin disturbed'
  PROVE  Keeps(t)'
<1>0. Typed
  BY DEF IInv
<1>1. CASE Begin(t)
  BY <1>1, BeginKeeps
<1>2. CASE \/ Reverse(t) \/ Poll(t) \/ Behind(t) \/ Refused(t) \/ Reserve(t)
           \/ Act(t) \/ Mark(t) \/ Move(t) \/ Tick(t) \/ TimedStop(t)
  <2>1. t \notin disturbed
    <3>1. CASE Act(t)
      BY <3>1 DEF Act
    <3>2. CASE ~Act(t)
      BY <1>2, <3>2, Zenon DEF Reverse, Poll, Behind, Refused, Reserve, Mark, Move, Tick, TimedStop
    <3> QED BY <3>1, <3>2
  <2> QED BY <1>2, <2>1, ReverseKeeps, PollKeeps, BehindFollows, RefusedKeeps,
             ReserveFollows, ActFollows, MarkKeeps, MoveKeeps, SlowsKeeps
<1>3. CASE Wait(t)
  <2>1. /\ UNCHANGED <<owner, route, current, tries, disturbed>>
        /\ pc[t] = "wait" /\ pc'[t] \in {"stop", "wait"}
    BY <1>0, <1>3 DEF Wait, Goto, Typed
  <2>2. Clear(t)' => Clear(t)
    BY <2>1 DEF Clear, StartsOnItsArc, StartArc, First, NoLoop, Piece, Executing
  <2>3. Clear(t)' => pc'[t] = "wait"
    BY <2>1 DEF Clear, Executing
  <2>4. Clear(t)' => /\ current[t] \in 1 .. Len(route[t])
                     /\ \A k \in current[t] .. Len(route[t]) : Own(t, k)
    BY <2>1, <2>2 DEF Keeps, Stays
  <2> QED BY <2>1, <2>3, <2>4 DEF Keeps, Stays, Own, Piece
<1>4. CASE \/ Where(t) \/ NotTracked(t) \/ FindPath(t) \/ Stop(t) \/ Retry(t) \/ AskWhere(t)
           \/ Complete(t) \/ PollLost(t) \/ WaitExpires(t)
  <2>1. pc'[t] \in {"path", "no train", "end", "start", "rest", "release", "done", "stop"}
    <3>1. CASE Where(t) \/ NotTracked(t) \/ Stop(t) \/ AskWhere(t) \/ Complete(t) \/ PollLost(t)
               \/ WaitExpires(t)
      BY <1>0, <3>1 DEF Where, NotTracked, Stop, AskWhere, Complete, PollLost, WaitExpires, Goto, Typed
    <3>2. CASE Retry(t)
      BY <1>0, <3>2 DEF Retry, Goto, Typed
    <3>3. CASE FindPath(t)
      <4>1. Goto(t, "end") \/ Goto(t, "start")
        BY <3>3 DEF FindPath
      <4> QED BY <1>0, <4>1 DEF Goto, Typed
    <3> QED BY <1>4, <3>1, <3>2, <3>3
  <2> QED BY <2>1 DEF Keeps, Clear, Executing
<1> QED BY <1>1, <1>2, <1>3, <1>4 DEF Driver, World

-----------------------------------------------------------------------------
(***************************************************************************)
(* The invariant, and where it keeps the train.                            *)
(***************************************************************************)
\* The inductive invariant behind OnOwnTrack.
WayInv ==
  /\ IInv /\ Counted
  /\ \A t \in Trains : Sound(t) /\ (t \notin disturbed => Keeps(t))

LEMMA InitWayInv == Init => WayInv
<1> SUFFICES ASSUME Init PROVE WayInv
  OBVIOUS
<1>1. IInv
  BY InitIInv
<1>2. Counted
  BY DEF Init, Counted
<1>3. ASSUME NEW t \in Trains PROVE Sound(t) /\ Keeps(t)
  <2>1. /\ pc[t] = "where" /\ position[t] = train[t]
        /\ train[t] = [arc |-> Start[t], travelled |-> 0, speed |-> 0,
                       stop_dist |-> 0, stop_node |-> NoNode, timed |-> -1]
    BY DEF Init
  <2>2. Start[t] \in Arcs
    BY RouteDriverAssumption
  <2>3. 0 \in 0 .. Dist(Start[t])
    BY <2>2, ArcLength
  <2> QED BY <2>1, <2>3 DEF Sound, Initial, Laid, Rolls, Keeps, Clear, Executing
<1> QED BY <1>1, <1>2, <1>3 DEF WayInv

LEMMA NextWayInv == WayInv /\ [Next]_vars => WayInv'
<1> SUFFICES ASSUME WayInv, [Next]_vars PROVE WayInv'
  OBVIOUS
<1>1. CASE UNCHANGED vars
  <2>1. IInv'
    BY <1>1, NextIInv DEF WayInv
  <2>2. Counted' /\ \A t \in Trains : Sound(t)'
    BY <1>1 DEF WayInv, vars, Counted, Sound, Initial, Laid, Rolls, Executing, StartArc, First,
                LaidOut, Way
  <2>3. ASSUME NEW t \in Trains, t \notin disturbed', Clear(t)' PROVE Stays(t)'
    <3>1. Clear(t)
      BY <1>1, <2>3 DEF vars, Clear, Executing, StartsOnItsArc, StartArc, First, NoLoop, Piece
    <3>2. Stays(t) /\ Sound(t)
      BY <1>1, <2>3, <3>1 DEF WayInv, Keeps, vars
    <3>3. Len(route[t]) \in Nat /\ First(route[t]) \in {1, 2} /\ First(route[t]) < Len(route[t])
      BY <3>1, <3>2, OnRoute DEF WayInv, Clear
    <3>4. /\ \A k \in 1 .. Len(route[t]) : Own(t, k) => Own(t, k)'
          /\ \A k \in First(route[t]) .. Len(route[t]) : Own(t, k) /\ Thrown(t, k) => Thrown(t, k)'
      BY <1>1 DEF vars, Own, Thrown, Piece
    <3> QED BY <1>1, <3>1, <3>2, <3>3, <3>4, StaysWhen DEF vars
  <2> QED BY <2>1, <2>2, <2>3 DEF WayInv, Keeps
<1>2. CASE Next
  <2>1. IInv' /\ IInv /\ Counted
    BY NextIInv DEF WayInv
  <2>2. PICK t \in Trains : Driver(t) \/ World(t)
    BY <1>2 DEF Next
  <2>3. Counted'
    BY <2>1, <2>2, CountedKept
  <2>4. ASSUME NEW u \in Trains PROVE Sound(u)' /\ (u \notin disturbed' => Keeps(u)')
    <3>1. Sound(u) /\ (u \notin disturbed => Keeps(u))
      BY DEF WayInv
    <3>2. CASE u = t
      BY <2>1, <2>2, <3>1, <3>2, SoundKept, KeepsOwn
    <3>3. CASE u # t
      BY <2>1, <2>2, <3>1, <3>3, SoundStays, KeepsStays
    <3> QED BY <3>2, <3>3
  <2> QED BY <2>1, <2>3, <2>4 DEF WayInv
<1> QED BY <1>1, <1>2

\* OnOwnTrack, on every track: on its first route a train that nobody disturbed has
\* both ends of the arc it is on, and, once all of the route is reserved, what lies
\* ahead of where its driver last saw it.
THEOREM DriversStayOnTheirTrack == Spec => []OnOwnTrack
<1>1. WayInv => OnOwnTrack
  <2> SUFFICES ASSUME WayInv, NEW t \in Trains \ disturbed, Executing(t), StartsOnItsArc(t),
                      NoLoop(route[t])
               PROVE  IF pc[t] = "wait"
                      THEN \A k \in current[t] .. Len(route[t]) : owner[Piece(route[t][k].node)] = t
                      ELSE \A n \in {train[t].arc[1], Dest(train[t].arc)} : owner[Piece(n)] = t
    BY DEF OnOwnTrack
  <2>1. IInv /\ Sound(t) /\ Stays(t)
    BY DEF WayInv, Keeps, Clear
  <2>2. CASE pc[t] = "wait"
    BY <2>1, <2>2 DEF Stays, Own
  <2>3. CASE pc[t] # "wait"
    <3>1. PICK d, j, h : Reach(t, d, j, h)
      BY <2>1, <2>3 DEF Stays, Follows, Executing
    <3>2. /\ route[t] \in Seq(RouteNodes) /\ First(route[t]) \in {1, 2}
          /\ StartArc(t) \in Arcs /\ StartArc(t)[2] = 1 /\ LaidOut(route[t], StartArc(t))
      BY <2>1, OnRoute
    <3>3. j \in First(route[t]) .. Len(route[t]) - 1 /\ j \in Nat /\ h \in Nat /\ j < h
      BY <3>1, <3>2, ReachTyped
    <3>4. Own(t, j) /\ Own(t, j + 1) /\ train[t].arc = Way(route[t], j)
      <4>1. j \in j .. h /\ j + 1 \in j .. h
        BY <3>3
      <4> QED BY <3>1, <4>1 DEF Reach
    <3>5. train[t].arc[1] = route[t][j].node /\ Dest(train[t].arc) = route[t][j + 1].node
      BY <3>2, <3>3, <3>4, WayOn DEF Way
    <3> QED BY <2>3, <3>4, <3>5 DEF Own
  <2> QED BY <2>2, <2>3
<1> QED BY <1>1, InitWayInv, NextWayInv, PTL DEF Spec
=============================================================================
