---------------------------- MODULE MCRouteDriver ----------------------------
(***************************************************************************)
(* A line with a passing loop for TLC, and two trains.                     *)
(*                                                                         *)
(*          /-- N -- M --\                                                 *)
(*   A --- W              E --- X --- B                                    *)
(*          \---- S -----/                                                 *)
(*                                                                         *)
(* Every place is two nodes, an even one for trains that go east and an    *)
(* odd one for those that go west.  The train from A goes east, to M or X; *)
(* the one from M goes before it, to B, or turns round and meets it.       *)
(***************************************************************************)
EXTENDS RouteDriver, TLC

CONSTANTS t1, t2

A == 0
W == 2
N == 4
M == 6
S == 8
E == 10
X == 12
B == 14
MCNodes == 0 .. 15
East(p) == p
West(p) == p + 1

MCReverse == [n \in MCNodes |-> IF n % 2 = 0 THEN n + 1 ELSE n - 1]

MCType == [n \in MCNodes |->
  CASE n \in {East(W), West(E)} -> "NODE_BRANCH"
    [] n \in {West(W), East(E)} -> "NODE_MERGE"
    [] n \in {East(B), West(A)} -> "NODE_EXIT"
    [] OTHER -> "NODE_SENSOR"]

To(n, d) == [dest |-> n, dist |-> d]

MCEdge == [n \in MCNodes |->
  CASE n = East(A) -> <<To(East(W), 3)>>
    [] n = East(W) -> <<To(East(N), 3), To(East(S), 6)>>
    [] n = East(N) -> <<To(East(M), 3)>>
    [] n = East(M) -> <<To(East(E), 4)>>
    [] n = East(S) -> <<To(East(E), 5)>>
    [] n = East(E) -> <<To(East(X), 8)>>
    [] n = East(X) -> <<To(East(B), 1)>>
    [] n = West(B) -> <<To(West(X), 1)>>
    [] n = West(X) -> <<To(West(E), 8)>>
    [] n = West(E) -> <<To(West(M), 4), To(West(S), 5)>>
    [] n = West(M) -> <<To(West(N), 3)>>
    [] n = West(N) -> <<To(West(W), 3)>>
    [] n = West(S) -> <<To(West(W), 6)>>
    [] n = West(W) -> <<To(West(A), 3)>>
    [] OTHER -> <<>>]

MCTrains == {t1, t2}
MCStart == t1 :> <<East(A), 1>> @@ t2 :> <<East(M), 1>>
MCSwitches == [n \in {East(W), West(E)} |-> 1]
MCGoals == t1 :> {East(M), East(X)} @@ t2 :> {East(B), West(W)}

\* The ways from a node to a place that avoid a node and pass no node twice.
RECURSIVE Ways(_, _, _)
Ways(n, dest, passed) ==
  IF n \in {dest, MCReverse[dest]} THEN {<<[node |-> n, edge |-> 0]>>}
  ELSE UNION {{<<[node |-> n, edge |-> e]>> \o w :
                 w \in Ways(MCEdge[n][e].dest, dest, passed \cup {n})} :
              e \in {f \in DOMAIN MCEdge[n] : MCEdge[n][f].dest \notin passed}}

MCArcs == {a \in MCNodes \X {1, 2} : a[2] \in DOMAIN MCEdge[a[1]]}
\* There is a way from one end of the arc or from the other, or none is found.
MCPaths ==
  [a \in MCArcs, dest \in UNION {MCGoals[t] : t \in MCTrains}, avoid \in MCNodes \cup {NoNode} |->
     Ways(MCReverse[a[1]], dest, {avoid}) \cup Ways(MCEdge[a[1]][a[2]].dest, dest, {avoid}) \cup {<<>>}]
=============================================================================
