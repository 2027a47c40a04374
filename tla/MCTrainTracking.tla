--------------------------- MODULE MCTrainTracking ---------------------------
(***************************************************************************)
(* A small track for TLC: a ring with a siding that ends, and two trains.  *)
(*                                                                         *)
(*    .-- R --- W -- Q --.          From R to W the switch leads on round  *)
(*    '------------------'          the ring to Q, or into the siding to S *)
(*               \-- S -- X         and the exit X.                        *)
(*                                                                         *)
(* Every place is two nodes: even ones for trains that pass the switch     *)
(* from its point, odd ones for those that come to it from behind.         *)
(***************************************************************************)
EXTENDS TrainTracking, TLC

CONSTANTS t1, t2

Q == 0
R == 2
S == 4
W == 6
X == 8
MCNodes == 0 .. 9

MCReverse == [n \in MCNodes |-> IF n % 2 = 0 THEN n + 1 ELSE n - 1]

MCType == [n \in MCNodes |->
  CASE n = W -> "NODE_BRANCH"
    [] n = W + 1 -> "NODE_MERGE"
    [] n = X -> "NODE_EXIT"
    [] n = X + 1 -> "NODE_ENTER"
    [] OTHER -> "NODE_SENSOR"]

To(n) == [dest |-> n, dist |-> 1]

MCEdge == [n \in MCNodes |->
  CASE n = R -> <<To(W)>>
    [] n = W -> <<To(Q), To(S)>>
    [] n = Q -> <<To(R)>>
    [] n = S -> <<To(X)>>
    [] n = X + 1 -> <<To(S + 1)>>
    [] n \in {Q + 1, S + 1} -> <<To(W + 1)>>
    [] n = W + 1 -> <<To(R + 1)>>
    [] n = R + 1 -> <<To(Q + 1)>>
    [] OTHER -> <<>>]

MCModule == [n \in {Q, Q + 1, R, R + 1, S, S + 1} |-> IF n \in {S, S + 1} THEN "B" ELSE "A"]
MCStart == t1 :> <<Q, 1>> @@ t2 :> <<X + 1, 1>>
=============================================================================
