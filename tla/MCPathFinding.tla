---------------------------- MODULE MCPathFinding ----------------------------
(***************************************************************************)
(* The whole of either track for TLC, and questions that a driver may ask: *)
(* four trains, six goals, with or without another train on the way, and   *)
(* with every switch straight or every switch curved.                      *)
(***************************************************************************)
EXTENDS PathFinding

A == INSTANCE TrackA
B == INSTANCE TrackB

ReverseA == [n \in A!Nodes |-> A!track[n].reverse]
TypeA == [n \in A!Nodes |-> A!track[n].type]
NumA == [n \in A!Nodes |-> A!track[n].num]
EdgeA == [n \in A!Nodes |-> A!track[n].edge]
ReverseB == [n \in B!Nodes |-> B!track[n].reverse]
TypeB == [n \in B!Nodes |-> B!track[n].type]
NumB == [n \in B!Nodes |-> B!track[n].num]
EdgeB == [n \in B!Nodes |-> B!track[n].edge]

Piece(n) == {n, reverse[n]}

Ask(srcs, goals, reservations, settings) ==
  {[src |-> s, dest |-> edge[s][1].dest, goal |-> g, reserved |-> r, curved |-> c] :
     s \in srcs, g \in goals, r \in reservations, c \in settings}

\* C2 is node 33, C3 34, E16 79, A4 3, B16 31, MR11 101.
MCQuestions ==
  Ask({33, 79, 3, 101}, {0, 16, 34, 45, 60, 77}, {{}, Piece(101) \cup Piece(31)}, {{}, 1 .. 22})

\* From between E6 (69) and BR10 to A1 (0), every switch straight.
MCFromE6ToA1 == Ask({69}, {0}, {{}}, {{}})
=============================================================================
