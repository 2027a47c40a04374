------------------------------ MODULE Itinerary ------------------------------
(***************************************************************************)
(* What the route scheduler promises of each train: it drives to the       *)
(* destinations of its last order, one after the other and in a circle if  *)
(* asked to.  An order given to a train on its way waits until it arrives. *)
(* A train for which no driver could be created is stranded for ever.      *)
(***************************************************************************)
EXTENDS Sequences

CONSTANTS Trains, Dests, Plans

VARIABLES rest,   \* train -> the destinations it has yet to drive to
          again,  \* train -> whether it starts over after the last
          trip    \* train -> the destination it drives to, or a word

vars == <<rest, again, trip>>

Home     == "home"
Stranded == "stranded"

Init ==
  /\ rest = [t \in Trains |-> <<>>]
  /\ again = [t \in Trains |-> FALSE]
  /\ trip = [t \in Trains |-> Home]

Plan(t, p, a) == rest' = [rest EXCEPT ![t] = p] /\ again' = [again EXCEPT ![t] = a]

\* t drives to the first destination of p.
Depart(t, p, a) ==
  /\ p # <<>>
  /\ Plan(t, IF a THEN Append(Tail(p), Head(p)) ELSE Tail(p), a)
  /\ \E to \in {Head(p), Stranded} : trip' = [trip EXCEPT ![t] = to]

Order(t, p, a) ==
  \/ trip[t] = Home /\ Depart(t, p, a)
  \/ (trip[t] # Home \/ p = <<>>) /\ Plan(t, p, a) /\ UNCHANGED trip

Arrive(t) ==
  /\ trip[t] \in Dests
  /\ \/ Depart(t, rest[t], again[t])
     \/ rest[t] = <<>> /\ trip' = [trip EXCEPT ![t] = Home] /\ UNCHANGED <<rest, again>>

Next ==
  \E t \in Trains : Arrive(t) \/ \E p \in Plans, a \in BOOLEAN : Order(t, p, a)

Spec == Init /\ [][Next]_vars
=============================================================================
