------------------------------- MODULE TrackA -------------------------------
(***************************************************************************)
(* Track A as util/track_data.c builds it.  A node is one direction of a   *)
(* place: its reverse is the other direction of the same place.  Nodes     *)
(* come in such pairs and are numbered as their ids are.                   *)
(***************************************************************************)
EXTENDS Integers, Sequences

\* track_data.c, init_tracka: one row for every node, the destination and the
\* length of its edge, twice for a branch (straight, curved), and nothing at an
\* exit.  Sensors A1 .. A16:
BankA == <<
  <<103, 218>>, <<133, 500>>, <<106, 62>>, <<31, 440>>,
  <<85, 216>>, <<25, 649>>, <<27, 473>>, <<83, 211>>,
  <<23, 289>>, <<81, 210>>, <<81, 410>>, <<139, 60>>,
  <<87, 215>>, <<131, 320>>, <<135, 145>>, <<87, 394>> >>
\* B1 .. B16:
BankB == <<
  <<61, 398>>, <<111, 225>>, <<33, 230>>, <<111, 220>>,
  <<50, 405>>, <<105, 214>>, <<9, 289>>, <<137, 60>>,
  <<4, 649>>, <<141, 70>>, <<7, 473>>, <<143, 70>>,
  <<119, 224>>, <<63, 202>>, <<2, 440>>, <<108, 70>> >>
\* C1 .. C16:
BankC == <<
  <<19, 230>>, <<117, 228>>, <<129, 410>>, <<89, 226>>,
  <<90, 79>>, <<109, 411>>, <<115, 215>>, <<84, 145>>,
  <<109, 305>>, <<110, 146>>, <<104, 140>>, <<107, 314>>,
  <<70, 877>>, <<100, 60>>, <<59, 405>>, <<91, 223>> >>
\* D1 .. D16:
BankD == <<
  <<121, 227>>, <<67, 200>>, <<99, 223>>, <<21, 405>>,
  <<69, 375>>, <<97, 213>>, <<97, 290>>, <<71, 375>>,
  <<75, 361>>, <<95, 291>>, <<47, 405>>, <<93, 220>>,
  <<17, 398>>, <<113, 225>>, <<28, 202>>, <<113, 230>> >>
\* E1 .. E16:
BankE == <<
  <<123, 222>>, <<78, 203>>, <<48, 200>>, <<99, 220>>,
  <<53, 375>>, <<98, 74>>, <<54, 375>>, <<45, 877>>,
  <<95, 215>>, <<76, 375>>, <<57, 361>>, <<92, 65>>,
  <<112, 62>>, <<72, 375>>, <<105, 230>>, <<64, 203>> >>
\* BR1, MR1 .. BR8, MR8:
Turnouts1 == <<
  <<11, 410, 8, 210>>, <<83, 191>>,
  <<80, 191, 6, 211>>, <<85, 182>>,
  <<5, 216, 82, 182>>, <<38, 145>>,
  <<14, 394, 13, 215>>, <<103, 185>>,
  <<34, 226, 93, 334>>, <<114, 187>>,
  <<46, 223, 115, 338>>, <<37, 79>>,
  <<58, 220, 89, 334>>, <<74, 65>>,
  <<56, 291, 73, 215>>, <<96, 193>> >>
\* BR9, MR9 .. BR16, MR16:
Turnouts2 == <<
  <<55, 290, 52, 213>>, <<94, 193>>,
  <<51, 223, 66, 220>>, <<68, 74>>,
  <<102, 190, 107, 445>>, <<44, 60>>,
  <<1, 218, 86, 185>>, <<101, 190>>,
  <<20, 214, 79, 230>>, <<43, 140>>,
  <<101, 445, 42, 314>>, <<3, 62>>,
  <<36, 411, 41, 305>>, <<30, 70>>,
  <<16, 225, 18, 220>>, <<40, 146>> >>
\* BR17, MR17, BR18, MR18, BR153, MR153 .. BR156, MR156:
Turnouts3 == <<
  <<60, 225, 62, 230>>, <<77, 62>>,
  <<39, 215, 91, 338>>, <<88, 187>>,
  <<125, 230, 32, 228>>, <<119, 24>>,
  <<116, 24, 29, 224>>, <<122, 32>>,
  <<127, 247, 49, 227>>, <<123, 24>>,
  <<120, 24, 65, 222>>, <<118, 32>> >>
\* EN1, EX1 .. EN10, EX10:
Ends == <<
  <<117, 230>>, <<>>, <<121, 247>>, <<>>, <<35, 410>>, <<>>,
  <<12, 320>>, <<>>, <<0, 500>>, <<>>, <<15, 145>>, <<>>,
  <<22, 60>>, <<>>, <<10, 60>>, <<>>, <<24, 70>>, <<>>,
  <<26, 70>>, <<>> >>
-----------------------------------------------------------------------------
Nodes == 0 .. 143

Table == BankA \o BankB \o BankC \o BankD \o BankE
           \o Turnouts1 \o Turnouts2 \o Turnouts3 \o Ends

\* A row of the table as the edges of its node.
EdgesOf(row) ==
  [i \in 1 .. Len(row) \div 2 |-> [dest |-> row[2 * i - 1], dist |-> row[2 * i]]]

\* The sensors come first, then every BR with its MR, then every EN with its EX.
TypeOf(n) ==
  CASE n < 80 -> "NODE_SENSOR"
    [] n \in 80 .. 123 /\ n % 2 = 0 -> "NODE_BRANCH"
    [] n \in 80 .. 123 /\ n % 2 = 1 -> "NODE_MERGE"
    [] n >= 124 /\ n % 2 = 0 -> "NODE_ENTER"
    [] n >= 124 /\ n % 2 = 1 -> "NODE_EXIT"

\* The number of a branch is the bit of its switch; that of a sensor is not used.
track == [n \in Nodes |->
  [type    |-> TypeOf(n),
   num     |-> IF n \in 80 .. 123 THEN (n - 80) \div 2 + 1 ELSE 0,
   reverse |-> IF n % 2 = 0 THEN n + 1 ELSE n - 1,
   edge    |-> EdgesOf(Table[n + 1])]]
=============================================================================
