------------------------------- MODULE TrackB -------------------------------
(***************************************************************************)
(* Track B as util/track_data.c builds it: track A with another outer      *)
(* loop, some straights that are shorter, and two dead ends fewer.  The    *)
(* location server starts with it.                                         *)
(***************************************************************************)
EXTENDS Integers, Sequences

A == INSTANCE TrackA

Nodes == A!Nodes

\* init_trackb: the rows that differ, for the nodes 10, 11, 14 and 15 (A11, A12,
\* A15, A16),
BankA == [A!BankA EXCEPT ![11] = <<81, 265>>, ![12] = <<15, 774>>,
                         ![15] = <<10, 774>>, ![16] = <<87, 260>>]
\* 23, 25 and 27 (B8, B10, B12),
BankB == [A!BankB EXCEPT ![8] = <<135, 60>>, ![10] = <<137, 70>>, ![12] = <<139, 70>>]
\* 44 (C13),
BankC == [A!BankC EXCEPT ![13] = <<70, 785>>]
\* 52 and 56 (D5, D9),
BankD == [A!BankD EXCEPT ![5] = <<69, 275>>, ![9] = <<75, 284>>]
\* 68, 71, 73, 74 and 77 (E5, E8, E10, E11, E14),
BankE == [A!BankE EXCEPT ![5] = <<53, 275>>, ![8] = <<45, 785>>, ![10] = <<76, 275>>,
                         ![11] = <<57, 284>>, ![14] = <<72, 275>>]
\* 80 and 86 (BR1, BR4),
Turnouts1 == [A!Turnouts1 EXCEPT ![1] = <<11, 265, 8, 210>>, ![7] = <<14, 260, 13, 215>>]
Turnouts2 == A!Turnouts2
Turnouts3 == A!Turnouts3
\* and 134 to 143 (EN7, EX7, EN9, EX9, EN10, EX10 and four that are no nodes).
Ends == [A!Ends EXCEPT ![11] = <<22, 60>>, ![13] = <<24, 70>>, ![15] = <<26, 70>>,
                       ![17] = <<>>, ![19] = <<>>]
-----------------------------------------------------------------------------
Table == BankA \o BankB \o BankC \o BankD \o BankE
           \o Turnouts1 \o Turnouts2 \o Turnouts3 \o Ends

\* What memset leaves of the nodes that track B does not have.
Missing == 140 .. 143
NoNode == 145

track == [n \in Nodes |->
  IF n \in Missing THEN [type |-> "NODE_NONE", num |-> 0, reverse |-> NoNode, edge |-> <<>>]
  ELSE [A!track[n] EXCEPT !.edge = A!EdgesOf(Table[n + 1])]]
=============================================================================
