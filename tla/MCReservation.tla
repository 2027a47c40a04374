---------------------------- MODULE MCReservation ----------------------------
(***************************************************************************)
(* A track of three pieces for TLC: two nodes with a reverse each and one  *)
(* without, as in the part of the array that a track does not use.         *)
(***************************************************************************)
EXTENDS Reservation

MCReverse == [n \in 0 .. 4 |-> CASE n = 0 -> 1 [] n = 1 -> 0 [] n = 2 -> 3 [] n = 3 -> 2
                                 [] n = 4 -> 6]
MCArcs == {<<0, 2>>, <<3, 1>>, <<2, 4>>}
=============================================================================
