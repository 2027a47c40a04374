------------------------------ MODULE TrainLine ------------------------------
(***************************************************************************)
(* What the train output server promises: the bytes of one Putc or PutStr  *)
(* leave together, in their order, after those accepted earlier, and each  *)
(* of them once.  A string that does not fit is cut short at its end.      *)
(***************************************************************************)
EXTENDS Integers, Sequences

CONSTANTS Strings, Bytes, Capacity

VARIABLES pending,  \* the bytes accepted and not yet sent
          out       \* the byte sent last

vars == <<pending, out>>

Init == pending = <<>> /\ out \notin Bytes

Accept(s, n) ==
  /\ n < Len(s) => Len(pending) + Len(s) > Capacity
  /\ pending' = pending \o SubSeq(s, 1, n)
  /\ UNCHANGED out

Emit ==
  /\ pending # <<>>
  /\ out' = Head(pending)
  /\ pending' = Tail(pending)

Next == Emit \/ \E s \in Strings : \E n \in 0 .. Len(s) : Accept(s, n)

Spec == Init /\ [][Next]_vars
=============================================================================
