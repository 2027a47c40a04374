----------------------------- MODULE AlarmClock -----------------------------
(***************************************************************************)
(* What the clock server promises its clients: a client that asks to sleep *)
(* until a time is woken by the first tick that reaches that time, by no   *)
(* earlier one, and the tick that wakes it does not leave anyone else who  *)
(* is due asleep.  A time that is already past counts as reached by the    *)
(* next tick.  Only Capacity clients can sleep at once: one more is never  *)
(* woken.                                                                  *)
(***************************************************************************)
EXTENDS Integers, FiniteSets

CONSTANTS Clients, Capacity, Times

VARIABLES now,   \* ticks so far
          due,   \* sleeping client -> the time it sleeps until
          stuck  \* the clients that found no room

vars == <<now, due, stuck>>

Sleepers == DOMAIN due

Init ==
  /\ now = 0
  /\ due = [c \in {} |-> 0]
  /\ stuck = {}

Sleep(c, t) ==
  /\ c \notin Sleepers \cup stuck
  /\ Cardinality(Sleepers) < Capacity
  /\ due' = [d \in Sleepers \cup {c} |-> IF d = c THEN t ELSE due[d]]
  /\ UNCHANGED <<now, stuck>>

NoRoom(c) ==
  /\ c \notin Sleepers \cup stuck
  /\ Cardinality(Sleepers) >= Capacity
  /\ stuck' = stuck \cup {c}
  /\ UNCHANGED <<now, due>>

Tick ==
  /\ now' = now + 1
  /\ due' = [c \in {d \in Sleepers : due[d] > now + 1} |-> due[c]]
  /\ UNCHANGED stuck

Next ==
  \/ \E c \in Clients, t \in Times : Sleep(c, t)
  \/ \E c \in Clients : NoRoom(c)
  \/ Tick

Spec == Init /\ [][Next]_vars
=============================================================================
