--------------------------- MODULE TrackOwnership ---------------------------
(***************************************************************************)
(* What the reservation server promises its trains.  A piece of track, one *)
(* node and its reverse, belongs to at most one train at a time.  Asking   *)
(* for it gives it to a train only if nobody else owns it, and a train     *)
(* gives back only what it owns, one piece or several.  The one way to     *)
(* take a piece from another train is to start over: the train gives back  *)
(* all it owns and claims the pieces it stands on, two at most, whoever    *)
(* owned them.                                                             *)
(***************************************************************************)
CONSTANTS Pieces, Trains, Nobody

VARIABLE owner

Init == owner = [s \in Pieces |-> Nobody]

Grant(t, s) ==
  /\ owner[s] \in {Nobody, t}
  /\ owner' = [owner EXCEPT ![s] = t]

GiveBack(t, given) ==
  /\ \A s \in given : owner[s] = t
  /\ owner' = [s \in Pieces |-> IF s \in given THEN Nobody ELSE owner[s]]

StartOver(t, standing) ==
  owner' = [s \in Pieces |-> IF s \in standing THEN t
                             ELSE IF owner[s] = t THEN Nobody ELSE owner[s]]

Next ==
  \E t \in Trains :
    \/ \E s \in Pieces : Grant(t, s)
    \/ \E given \in SUBSET {s \in Pieces : owner[s] = t} : GiveBack(t, given)
    \/ \E s, r \in Pieces : StartOver(t, {s, r})

Spec == Init /\ [][Next]_owner
=============================================================================
