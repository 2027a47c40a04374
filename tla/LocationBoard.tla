---------------------------- MODULE LocationBoard ----------------------------
(***************************************************************************)
(* What the tasks rely on when they talk to the location server: it is a   *)
(* board.  What is written is there for whoever reads later, and a reader  *)
(* is told what was on the board when the request was taken in, however    *)
(* long the answer takes.  A request may be lost; then nothing happens, and *)
(* nothing is ever written but what the board accepts.                     *)
(***************************************************************************)
CONSTANTS
  Clients,
  Devices,
  Values,
  Accepted   \* device -> the values that may be written of it

Nothing == "nothing"

VARIABLES
  value,   \* device -> what the board says of it
  due,     \* client -> the answer it is to have, or Nothing
  answer   \* client -> the answer it has in hand

vars == <<value, due, answer>>

Init ==
  /\ value \in [Devices -> Values]
  /\ due = [c \in Clients |-> Nothing]
  /\ answer = [c \in Clients |-> Nothing]

Write(d, v) ==
  /\ value' = [value EXCEPT ![d] = v]
  /\ UNCHANGED <<due, answer>>

Read(c, d) ==
  /\ due[c] = Nothing
  /\ due' = [due EXCEPT ![c] = value[d]]
  /\ UNCHANGED <<value, answer>>

Answer(c) ==
  /\ due[c] # Nothing
  /\ answer' = [answer EXCEPT ![c] = due[c]]
  /\ due' = [due EXCEPT ![c] = Nothing]
  /\ UNCHANGED value

PutAway(c) ==
  /\ answer' = [answer EXCEPT ![c] = Nothing]
  /\ UNCHANGED <<value, due>>

Next ==
  \/ \E d \in Devices : \E v \in Accepted[d] : Write(d, v)
  \/ \E c \in Clients : (\E d \in Devices : Read(c, d)) \/ Answer(c) \/ PutAway(c)

Spec == Init /\ [][Next]_vars
=============================================================================
