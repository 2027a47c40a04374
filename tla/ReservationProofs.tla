------------------------- MODULE ReservationProofs -------------------------
(***************************************************************************)
(* The safety properties of module Reservation and its refinement of       *)
(* TrackOwnership, for every track, set of trains and buffer size.         *)
(***************************************************************************)
EXTENDS Reservation, FiniteSetTheorems, SequenceTheorems, TLAPS

(***************************************************************************)
(* The courier has a request in the mailbox only while it is blocked and   *)
(* the server has not noted it, and then only one.  This is what keeps a   *)
(* second COURIER_NOTIF from setting courier_ready after the courier left. *)
(***************************************************************************)
CourierLetters == {k \in DOMAIN mailbox : mailbox[k].opcode = "COURIER_NOTIF"}

OneCourierLetter ==
  /\ \A k, l \in CourierLetters : k = l
  /\ CourierLetters # {} => courier = "blocked" /\ ~courier_ready

IInv == TypeOK /\ ReverseTogether /\ CourierReadyIsFresh /\ OneCourierLetter
-----------------------------------------------------------------------------
\* NoNode is no node, and a node is never its own reverse.
LEMMA NodeFacts ==
  /\ NoNode \notin Nodes
  /\ \A n \in Nodes : reverse[n] \in Nodes =>
       reverse[n] # n /\ reverse[reverse[n]] = n
  /\ \A n \in Nodes : reverse[n] \in Nodes \cup {NoNode}
  <1>1. NoNode \notin Nodes
    BY ReservationAssumption DEF NoNode, Nodes
  <1> QED BY <1>1, ReservationAssumption

\* ReverseTogether, for any table of nodes.
Table == [Nodes -> Trains \cup {Nobody}]
Together(r) == r \in Table /\ \A m \in Nodes : reverse[m] # NoNode => r[reverse[m]] = r[m]

LEMMA ReservedTogether == TypeOK => (ReverseTogether <=> Together(reserved))
  BY DEF TypeOK, ReverseTogether, Together, Table

\* Writing a node and its reverse keeps every pair together.
LEMMA WrittenTogether ==
  ASSUME NEW r, NEW n \in Nodes, NEW t \in Trains \cup {Nobody}, Together(r)
  PROVE  Together(Written(r, n, t))
  <1>1. Written(r, n, t) \in Table
    BY DEF Written, Table, Together
  <1>2. ASSUME NEW m \in Nodes, reverse[m] # NoNode
        PROVE  Written(r, n, t)[reverse[m]] = Written(r, n, t)[m]
    <2>1. reverse[m] \in Nodes /\ reverse[reverse[m]] = m
      BY <1>2, NodeFacts
    <2>2. (reverse[m] = n \/ reverse[m] = reverse[n]) <=> (m = n \/ m = reverse[n])
      BY <2>1, NodeFacts
    <2> QED BY <1>2, <2>1, <2>2 DEF Written, Together
  <1> QED BY <1>1, <1>2 DEF Together

\* Clearing the nodes of a train keeps every pair together.
LEMMA ClearedTogether ==
  ASSUME Together(reserved), NEW t \in Trains
  PROVE  Together(Cleared(t))
  BY NodeFacts DEF Cleared, Together, Table
-----------------------------------------------------------------------------
\* What the first request of the mailbox looks like, and what is left of the
\* mailbox without it.
LEMMA FirstRequest ==
  ASSUME TypeOK, mailbox # <<>>
  PROVE  /\ Head(mailbox) \in Requests
         /\ Tail(mailbox) \in Seq(Requests)
         /\ Head(mailbox) = mailbox[1] /\ 1 \in DOMAIN mailbox
         /\ \A k \in DOMAIN Tail(mailbox) :
              k + 1 \in DOMAIN mailbox /\ Tail(mailbox)[k] = mailbox[k + 1]
         /\ \A k \in DOMAIN Tail(mailbox) : k \in Nat /\ k + 1 # 1
  <1>1. mailbox \in Seq(Requests)
    BY DEF TypeOK
  <1>2. /\ Len(mailbox) \in Nat \ {0} /\ DOMAIN mailbox = 1 .. Len(mailbox)
        /\ Tail(mailbox) \in Seq(Requests) /\ Len(Tail(mailbox)) = Len(mailbox) - 1
        /\ DOMAIN Tail(mailbox) = 1 .. Len(mailbox) - 1
        /\ \A i \in 1 .. Len(mailbox) - 1 : Tail(mailbox)[i] = mailbox[i + 1]
        /\ Head(mailbox) = mailbox[1]
    BY <1>1, HeadTailProperties, LenProperties, EmptySeq
  <1>3. mailbox[1] \in Requests
    BY <1>1, <1>2, ElementOfSeq
  <1> QED BY <1>2, <1>3

\* What an Append adds to the mailbox.
LEMMA MoreMail ==
  ASSUME mailbox \in Seq(Requests), NEW m \in Requests
  PROVE  /\ Append(mailbox, m) \in Seq(Requests)
         /\ DOMAIN Append(mailbox, m) = DOMAIN mailbox \cup {Len(mailbox) + 1}
         /\ Len(mailbox) + 1 \notin DOMAIN mailbox
         /\ \A k \in DOMAIN mailbox : Append(mailbox, m)[k] = mailbox[k]
         /\ Append(mailbox, m)[Len(mailbox) + 1] = m
  <1>1. /\ Append(mailbox, m) \in Seq(Requests)
        /\ Len(Append(mailbox, m)) = Len(mailbox) + 1 /\ Len(mailbox) \in Nat
        /\ DOMAIN Append(mailbox, m) = 1 .. Len(mailbox) + 1
        /\ DOMAIN mailbox = 1 .. Len(mailbox)
        /\ \A i \in 1 .. Len(mailbox) : Append(mailbox, m)[i] = mailbox[i]
        /\ Append(mailbox, m)[Len(mailbox) + 1] = m
    BY AppendProperties, LenProperties
  <1> QED BY <1>1
-----------------------------------------------------------------------------
LEMMA InitInv == ASSUME Init PROVE IInv
  <1>1. TypeOK
    <2>1. mailbox \in Seq(Requests) /\ DOMAIN mailbox = {}
      BY LenProperties DEF Init
    <2>2. 0 \in 0 .. PRINT_BUFFER
      BY ReservationAssumption
    <2>3. reserved \in [Nodes -> Trains \cup {Nobody}]
      BY DEF Init
    <2> QED BY <2>1, <2>2, <2>3 DEF Init, TypeOK
  <1>2. ReverseTogether
    BY NodeFacts DEF Init, ReverseTogether
  <1>3. CourierReadyIsFresh /\ OneCourierLetter
    BY DEF Init, CourierReadyIsFresh, OneCourierLetter, CourierLetters
  <1> QED BY <1>1, <1>2, <1>3 DEF IInv

\* A client's request joins the mailbox.
LEMMA AsksKeeps ==
  ASSUME IInv, NEW t \in Trains, NEW opcode, NEW node, NEW to,
         opcode # "COURIER_NOTIF",
         [sender |-> t, opcode |-> opcode, node |-> node, to |-> to] \in Requests,
         opcode = "RELEASE_ALL" => <<node, to>> \in Arcs \cup {NoArc},
         Asks(t, opcode, node, to), blamed' \in [Trains -> BOOLEAN]
  PROVE  IInv'
  <1> DEFINE m == [sender |-> t, opcode |-> opcode, node |-> node, to |-> to]
  <1>0. /\ m \in Requests
        /\ m.opcode = opcode /\ m.node = node /\ m.to = to
        /\ mailbox' = Append(mailbox, m)
    BY DEF Asks
  <1> HIDE DEF m
  <1>1. mailbox \in Seq(Requests)
    BY DEF IInv, TypeOK
  <1>2. /\ mailbox' \in Seq(Requests)
        /\ DOMAIN mailbox' = DOMAIN mailbox \cup {Len(mailbox) + 1}
        /\ \A k \in DOMAIN mailbox : mailbox'[k] = mailbox[k]
        /\ mailbox'[Len(mailbox) + 1] = m
    BY <1>0, <1>1, MoreMail
  <1>3. \A k \in DOMAIN mailbox' : mailbox'[k].opcode = "RELEASE_ALL" =>
          <<mailbox'[k].node, mailbox'[k].to>> \in Arcs \cup {NoArc}
    BY <1>0, <1>2 DEF IInv, TypeOK
  <1>4. TypeOK'
    BY <1>2, <1>3 DEF IInv, TypeOK, Asks
  <1>5. CourierLetters' = CourierLetters
    BY <1>0, <1>2 DEF CourierLetters
  <1>6. OneCourierLetter'
    BY <1>5 DEF IInv, OneCourierLetter, Asks
  <1>7. CourierReadyIsFresh'
    BY <1>0, <1>2 DEF IInv, CourierReadyIsFresh, Asks
  <1>8. ReverseTogether'
    BY DEF IInv, ReverseTogether, Asks
  <1> QED BY <1>4, <1>6, <1>7, <1>8 DEF IInv

\* The courier's request joins the mailbox.
LEMMA CourierAsksKeeps == ASSUME IInv, CourierAsks PROVE IInv'
  <1> DEFINE m == [sender |-> Nobody, opcode |-> "COURIER_NOTIF",
                   node |-> NoNode, to |-> NoNode]
  <1>0. m \in Requests /\ m.opcode = "COURIER_NOTIF" /\ mailbox' = Append(mailbox, m)
    BY DEF CourierAsks, Requests
  <1> HIDE DEF m
  <1>1. mailbox \in Seq(Requests)
    BY DEF IInv, TypeOK
  <1>2. /\ mailbox' \in Seq(Requests)
        /\ DOMAIN mailbox' = DOMAIN mailbox \cup {Len(mailbox) + 1}
        /\ \A k \in DOMAIN mailbox : mailbox'[k] = mailbox[k]
        /\ mailbox'[Len(mailbox) + 1] = m
    BY <1>0, <1>1, MoreMail
  <1>3. \A k \in DOMAIN mailbox' : mailbox'[k].opcode = "RELEASE_ALL" =>
          <<mailbox'[k].node, mailbox'[k].to>> \in Arcs \cup {NoArc}
    BY <1>0, <1>2 DEF IInv, TypeOK
  <1>4. TypeOK'
    BY <1>2, <1>3 DEF IInv, TypeOK, CourierAsks
  <1>5. CourierLetters = {} /\ ~courier_ready
    BY DEF IInv, OneCourierLetter, CourierReadyIsFresh, CourierAsks
  <1>6. CourierLetters' \subseteq {Len(mailbox) + 1}
    BY <1>2, <1>5 DEF CourierLetters
  <1>7. OneCourierLetter' /\ CourierReadyIsFresh'
    BY <1>5, <1>6 DEF OneCourierLetter, CourierReadyIsFresh, CourierAsks
  <1>8. ReverseTogether'
    BY DEF IInv, ReverseTogether, CourierAsks
  <1> QED BY <1>4, <1>7, <1>8 DEF IInv

LEMMA CourierDeliversKeeps == ASSUME IInv, CourierDelivers PROVE IInv'
  <1>1. TypeOK' /\ ReverseTogether'
    BY DEF IInv, TypeOK, ReverseTogether, CourierDelivers
  <1>2. CourierLetters' = {} /\ ~courier_ready'
    BY DEF IInv, OneCourierLetter, CourierReadyIsFresh, CourierLetters, CourierDelivers
  <1>3. OneCourierLetter' /\ CourierReadyIsFresh'
    BY <1>2 DEF OneCourierLetter, CourierReadyIsFresh
  <1> QED BY <1>1, <1>3 DEF IInv

\* A message fits the buffer or is dropped.
LEMMA PushPrintFits ==
  ASSUME NEW n \in 0 .. PRINT_BUFFER PROVE PushPrint(n) \in 0 .. PRINT_BUFFER
  BY ReservationAssumption DEF PushPrint

\* After a turn the courier waits only if there is nothing to print.
LEMMA FlushTurns ==
  ASSUME TypeOK, NEW f \in BOOLEAN, NEW b \in 0 .. PRINT_BUFFER, Flush(f, b)
  PROVE  /\ prints' \in 0 .. PRINT_BUFFER
         /\ courier_ready' \in BOOLEAN
         /\ courier' \in {"asking", "blocked", "carrying"}
         /\ courier_ready' => f /\ courier' = courier /\ prints' = 0
         /\ ~f => courier' = courier /\ ~courier_ready'
  <1>1. b \in Nat /\ courier \in {"asking", "blocked", "carrying"}
    BY ReservationAssumption DEF TypeOK
  <1>2. CASE f /\ b > 0
    <2>1. courier' = "carrying" /\ courier_ready' = FALSE /\ prints' = b - 1
      BY <1>2, Zenon DEF Flush
    <2>2. b - 1 \in 0 .. PRINT_BUFFER
      BY <1>1, <1>2, ReservationAssumption
    <2> QED BY <1>2, <2>1, <2>2
  <1>3. CASE ~(f /\ b > 0)
    <2>1. courier_ready' = f /\ prints' = b /\ courier' = courier
      BY <1>3, Zenon DEF Flush
    <2>2. f => b = 0
      BY <1>1, <1>3
    <2> QED BY <1>1, <2>1, <2>2, Zenon
  <1> QED BY <1>2, <1>3

\* What a turn of the server does to the mailbox.
LEMMA Mail ==
  ASSUME IInv, NEW opcode, Received(opcode)
  PROVE  /\ mailbox' \in Seq(Requests)
         /\ \A k \in DOMAIN mailbox' : mailbox'[k].opcode = "RELEASE_ALL" =>
              <<mailbox'[k].node, mailbox'[k].to>> \in Arcs \cup {NoArc}
         /\ \A k \in DOMAIN mailbox' :
              k \in Nat /\ k + 1 # 1 /\ k + 1 \in DOMAIN mailbox /\ mailbox'[k] = mailbox[k + 1]
         /\ 1 \in DOMAIN mailbox /\ mailbox[1] = Head(mailbox)
         /\ Head(mailbox) \in Requests /\ Head(mailbox).opcode = opcode
         /\ opcode = "RELEASE_ALL" =>
              <<Head(mailbox).node, Head(mailbox).to>> \in Arcs \cup {NoArc}
  <1>1. TypeOK /\ mailbox # <<>> /\ mailbox' = Tail(mailbox) /\ Head(mailbox).opcode = opcode
    BY DEF IInv, Received
  <1>2. \A k \in DOMAIN mailbox : mailbox[k].opcode = "RELEASE_ALL" =>
          <<mailbox[k].node, mailbox[k].to>> \in Arcs \cup {NoArc}
    BY <1>1 DEF TypeOK
  <1> QED BY <1>1, <1>2, FirstRequest

\* What remains after a turn with any request but the courier's, provided the
\* table of nodes and the clients are as they should be.
LEMMA TurnKeeps ==
  ASSUME IInv, NEW opcode, Received(opcode), opcode # "COURIER_NOTIF",
         NEW b \in 0 .. PRINT_BUFFER, Flush(courier_ready, b),
         reserved' \in [Nodes -> Trains \cup {Nobody}], ReverseTogether',
         client' \in [Trains -> {"running", "blocked"}], blamed' \in [Trains -> BOOLEAN]
  PROVE  IInv'
  <1>1. /\ mailbox' \in Seq(Requests)
        /\ \A k \in DOMAIN mailbox' : mailbox'[k].opcode = "RELEASE_ALL" =>
             <<mailbox'[k].node, mailbox'[k].to>> \in Arcs \cup {NoArc}
        /\ \A k \in DOMAIN mailbox' :
             k \in Nat /\ k + 1 \in DOMAIN mailbox /\ mailbox'[k] = mailbox[k + 1]
    BY Mail
  <1>2. /\ prints' \in 0 .. PRINT_BUFFER
        /\ courier_ready' \in BOOLEAN
        /\ courier' \in {"asking", "blocked", "carrying"}
        /\ courier_ready' => courier_ready /\ courier' = courier /\ prints' = 0
        /\ ~courier_ready => courier' = courier /\ ~courier_ready'
    <2>1. TypeOK /\ courier_ready \in BOOLEAN
      BY DEF IInv, TypeOK
    <2> QED BY <2>1, FlushTurns
  <1>3. TypeOK'
    BY <1>1, <1>2 DEF TypeOK
  <1>4. \A k \in CourierLetters' : k \in Nat /\ k + 1 \in CourierLetters
    BY <1>1 DEF CourierLetters
  <1>5. OneCourierLetter'
    <2>1. \A k, l \in CourierLetters' : k = l
      BY <1>4 DEF IInv, OneCourierLetter
    <2>2. CourierLetters' # {} => courier = "blocked" /\ ~courier_ready
      BY <1>4 DEF IInv, OneCourierLetter
    <2> QED BY <2>1, <2>2, <1>2 DEF OneCourierLetter
  <1>6. CourierReadyIsFresh'
    BY <1>1, <1>2 DEF IInv, CourierReadyIsFresh
  <1> QED BY <1>3, <1>5, <1>6 DEF IInv

LEMMA CourierNotifKeeps == ASSUME IInv, CourierNotif PROVE IInv'
  <1>1. /\ mailbox' \in Seq(Requests)
        /\ \A k \in DOMAIN mailbox' : mailbox'[k].opcode = "RELEASE_ALL" =>
             <<mailbox'[k].node, mailbox'[k].to>> \in Arcs \cup {NoArc}
        /\ \A k \in DOMAIN mailbox' :
             k \in Nat /\ k + 1 # 1 /\ k + 1 \in DOMAIN mailbox /\ mailbox'[k] = mailbox[k + 1]
        /\ 1 \in CourierLetters
    BY Mail DEF CourierNotif, CourierLetters
  <1>2. courier = "blocked" /\ ~courier_ready /\ \A k \in CourierLetters : k = 1
    BY <1>1 DEF IInv, OneCourierLetter
  <1>3. CourierLetters' = {}
    BY <1>1, <1>2 DEF CourierLetters
  <1>4. /\ prints' \in 0 .. PRINT_BUFFER
        /\ courier_ready' \in BOOLEAN
        /\ courier' \in {"asking", "blocked", "carrying"}
        /\ courier_ready' => courier' = "blocked" /\ prints' = 0
    <2>1. Flush(TRUE, prints) /\ TypeOK /\ prints \in 0 .. PRINT_BUFFER
      BY DEF IInv, TypeOK, CourierNotif
    <2> QED BY <1>2, <2>1, FlushTurns
  <1>5. TypeOK'
    BY <1>1, <1>4 DEF IInv, TypeOK, CourierNotif
  <1>6. OneCourierLetter' /\ CourierReadyIsFresh'
    BY <1>3, <1>4 DEF OneCourierLetter, CourierReadyIsFresh, CourierLetters
  <1>7. ReverseTogether'
    BY DEF IInv, ReverseTogether, CourierNotif
  <1> QED BY <1>5, <1>6, <1>7 DEF IInv
-----------------------------------------------------------------------------
\* The requests of the trains, by opcode.
LEMMA ClientRequest ==
  ASSUME NEW m \in Requests
  PROVE  /\ m.opcode # "COURIER_NOTIF" => m.sender \in Trains
         /\ m.opcode = "RELEASE_ALL" => m.node \in Nodes \cup {NoNode}
  BY DEF Requests

LEMMA AnswerTyped ==
  ASSUME TypeOK, NEW t \in Trains, Answer(t)
  PROVE  client' \in [Trains -> {"running", "blocked"}]
  BY DEF TypeOK, Answer

LEMMA ReserveKeeps == ASSUME IInv, Reserve PROVE IInv'
  <1> DEFINE t == Head(mailbox).sender
             n == Head(mailbox).node
  <1>0. TypeOK /\ Received("RESERVE_NODE")
    BY DEF IInv, Reserve
  <1>1. t \in Trains /\ n \in Nodes
    BY <1>0, Mail, ClientRequest DEF Reserve
  <1>2. /\ reserved' = IF Refused(n, t) \/ reserved[n] = t THEN reserved
                       ELSE Written(reserved, n, t)
        /\ blamed' = [blamed EXCEPT ![t] = Refused(n, t)]
        /\ Answer(t) /\ Flush(courier_ready, PushPrint(prints))
    BY DEF Reserve
  <1> HIDE DEF t, n
  <1>3. Together(reserved')
    <2>1. Together(reserved) /\ t \in Trains \cup {Nobody}
      BY <1>1, ReservedTogether DEF IInv
    <2>2. Together(Written(reserved, n, t))
      BY <1>1, <2>1, WrittenTogether
    <2> QED BY <1>2, <2>1, <2>2
  <1>4. blamed' \in [Trains -> BOOLEAN]
    BY <1>0, <1>1, <1>2 DEF TypeOK, Refused
  <1>5. client' \in [Trains -> {"running", "blocked"}]
    BY <1>0, <1>1, <1>2, AnswerTyped
  <1>6. PushPrint(prints) \in 0 .. PRINT_BUFFER
    BY <1>0, PushPrintFits DEF TypeOK
  <1>7. ReverseTogether' /\ reserved' \in [Nodes -> Trains \cup {Nobody}]
    BY <1>3 DEF ReverseTogether, Together, Table
  <1> QED BY <1>0, <1>2, <1>4, <1>5, <1>6, <1>7, TurnKeeps

LEMMA ReserveInvalidKeeps == ASSUME IInv, ReserveInvalid PROVE IInv'
  <1>1. /\ TypeOK /\ Received("RESERVE_NODE") /\ Flush(courier_ready, prints)
        /\ prints \in 0 .. PRINT_BUFFER
    BY DEF IInv, TypeOK, ReserveInvalid
  <1>2. /\ reserved' \in [Nodes -> Trains \cup {Nobody}]
        /\ client' \in [Trains -> {"running", "blocked"}]
        /\ blamed' \in [Trains -> BOOLEAN]
    BY <1>1 DEF TypeOK, ReserveInvalid
  <1>3. ReverseTogether'
    BY DEF IInv, ReverseTogether, ReserveInvalid
  <1> QED BY <1>1, <1>2, <1>3, TurnKeeps

LEMMA ReleaseKeeps == ASSUME IInv, Release PROVE IInv'
  <1> DEFINE t == Head(mailbox).sender
             n == Head(mailbox).node
  <1>0. TypeOK /\ Received("RELEASE_NODE")
    BY DEF IInv, Release
  <1>1. t \in Trains
    BY <1>0, Mail, ClientRequest
  <1>2. PICK b \in {prints, PushPrint(prints)} :
          /\ Flush(courier_ready, b) /\ Answer(t) /\ UNCHANGED blamed
          /\ \/ reserved' = reserved
             \/ n \in Nodes /\ reserved' = Written(reserved, n, Nobody)
    BY DEF Release
  <1> HIDE DEF t, n
  <1>3. Together(reserved')
    <2>1. Together(reserved) /\ Nobody \in Trains \cup {Nobody}
      BY ReservedTogether DEF IInv
    <2>2. n \in Nodes => Together(Written(reserved, n, Nobody))
      BY <2>1, WrittenTogether
    <2> QED BY <1>2, <2>1, <2>2
  <1>4. blamed' \in [Trains -> BOOLEAN]
    BY <1>0, <1>2 DEF TypeOK
  <1>5. client' \in [Trains -> {"running", "blocked"}]
    BY <1>0, <1>1, <1>2, AnswerTyped
  <1>6. b \in 0 .. PRINT_BUFFER
    BY <1>0, <1>2, PushPrintFits DEF TypeOK
  <1>7. ReverseTogether' /\ reserved' \in [Nodes -> Trains \cup {Nobody}]
    BY <1>3 DEF ReverseTogether, Together, Table
  <1> QED BY <1>0, <1>2, <1>4, <1>5, <1>6, <1>7, TurnKeeps

\* The ends of the arc of RELEASE_ALL are both nodes or both none.
LEMMA ArcEnds ==
  ASSUME IInv, Received("RELEASE_ALL"), Head(mailbox).node \in Nodes
  PROVE  Head(mailbox).to \in Nodes
  <1>1. <<Head(mailbox).node, Head(mailbox).to>> \in Arcs \cup {NoArc}
    BY Mail
  <1> QED BY <1>1, NodeFacts, ReservationAssumption DEF NoArc

LEMMA ReleaseAllKeeps == ASSUME IInv, ReleaseAll PROVE IInv'
  <1> DEFINE t == Head(mailbox).sender
             src == Head(mailbox).node
             dest == Head(mailbox).to
  <1>0. TypeOK /\ Received("RELEASE_ALL")
    BY DEF IInv, ReleaseAll
  <1>1. t \in Trains /\ (src \in Nodes => dest \in Nodes)
    BY <1>0, Mail, ClientRequest, ArcEnds
  <1>2. PICK b \in {prints, PushPrint(prints)} :
          /\ Flush(courier_ready, b) /\ Answer(t) /\ UNCHANGED blamed
          /\ \/ reserved' = Cleared(t)
             \/ src \in Nodes /\ reserved' = Written(Written(Cleared(t), src, t), dest, t)
    BY DEF ReleaseAll
  <1> HIDE DEF t, src, dest
  <1>3. Together(reserved')
    <2> DEFINE r == Cleared(t)
               q == Written(r, src, t)
    <2>1. Together(r) /\ t \in Trains \cup {Nobody}
      BY <1>1, ReservedTogether, ClearedTogether DEF IInv
    <2> HIDE DEF r
    <2>2. src \in Nodes => Together(q)
      BY <2>1, WrittenTogether
    <2> HIDE DEF q
    <2>3. src \in Nodes => Together(Written(q, dest, t))
      BY <1>1, <2>1, <2>2, WrittenTogether
    <2>4. \/ reserved' = r
          \/ src \in Nodes /\ reserved' = Written(q, dest, t)
      BY <1>2 DEF r, q
    <2> QED BY <2>1, <2>3, <2>4
  <1>4. blamed' \in [Trains -> BOOLEAN]
    BY <1>0, <1>2 DEF TypeOK
  <1>5. client' \in [Trains -> {"running", "blocked"}]
    BY <1>0, <1>1, <1>2, AnswerTyped
  <1>6. b \in 0 .. PRINT_BUFFER
    BY <1>0, <1>2, PushPrintFits DEF TypeOK
  <1>7. ReverseTogether' /\ reserved' \in [Nodes -> Trains \cup {Nobody}]
    BY <1>3 DEF ReverseTogether, Together, Table
  <1> QED BY <1>0, <1>2, <1>4, <1>5, <1>6, <1>7, TurnKeeps

LEMMA PrintTrainAllocKeeps == ASSUME IInv, PrintTrainAlloc PROVE IInv'
  <1>0. TypeOK /\ Received("PRINT_TRAIN_ALLOC")
    BY DEF IInv, PrintTrainAlloc
  <1>1. Head(mailbox).sender \in Trains /\ Answer(Head(mailbox).sender)
    BY <1>0, Mail, ClientRequest DEF PrintTrainAlloc
  <1>2. PushPrint(prints) \in 0 .. PRINT_BUFFER /\ Flush(courier_ready, PushPrint(prints))
    BY <1>0, PushPrintFits DEF TypeOK, PrintTrainAlloc
  <1>3. client' \in [Trains -> {"running", "blocked"}]
    BY <1>0, <1>1, AnswerTyped
  <1>4. reserved' \in [Nodes -> Trains \cup {Nobody}] /\ blamed' \in [Trains -> BOOLEAN]
    BY <1>0 DEF TypeOK, PrintTrainAlloc
  <1>5. ReverseTogether'
    BY DEF IInv, ReverseTogether, PrintTrainAlloc
  <1> QED BY <1>0, <1>2, <1>3, <1>4, <1>5, TurnKeeps

LEMMA ClientKeeps ==
  ASSUME IInv, NEW t \in Trains,
         ReserveTrack(t) \/ PrintOwner(t) \/ ReleaseTrack(t) \/ ReleaseAllTrack(t)
  PROVE  IInv'
  <1>1. blamed \in [Trains -> BOOLEAN]
    BY DEF IInv, TypeOK
  <1>2. blamed' \in [Trains -> BOOLEAN]
    BY <1>1 DEF ReserveTrack, PrintOwner, ReleaseTrack, ReleaseAllTrack
  <1>3. CASE ReserveTrack(t)
    <2>1. PICK n \in Nodes \cup {NoNode} : Asks(t, "RESERVE_NODE", n, NoNode)
      BY <1>3 DEF ReserveTrack
    <2>2. [sender |-> t, opcode |-> "RESERVE_NODE", node |-> n, to |-> NoNode] \in Requests
      BY DEF Requests
    <2> QED BY <1>2, <2>1, <2>2, AsksKeeps
  <1>4. CASE PrintOwner(t)
    <2>1. Asks(t, "PRINT_TRAIN_ALLOC", NoNode, NoNode)
      BY <1>4 DEF PrintOwner
    <2>2. [sender |-> t, opcode |-> "PRINT_TRAIN_ALLOC", node |-> NoNode, to |-> NoNode]
            \in Requests
      BY DEF Requests
    <2> QED BY <1>2, <2>1, <2>2, AsksKeeps
  <1>5. CASE ReleaseTrack(t)
    <2>1. PICK n \in Nodes \cup {NoNode} : Asks(t, "RELEASE_NODE", n, NoNode)
      BY <1>5 DEF ReleaseTrack
    <2>2. [sender |-> t, opcode |-> "RELEASE_NODE", node |-> n, to |-> NoNode] \in Requests
      BY DEF Requests
    <2> QED BY <1>2, <2>1, <2>2, AsksKeeps
  <1>6. CASE ReleaseAllTrack(t)
    <2>1. PICK a \in Arcs \cup {NoArc} : Asks(t, "RELEASE_ALL", a[1], a[2])
      BY <1>6 DEF ReleaseAllTrack
    <2>2. a = <<a[1], a[2]>> /\ a[1] \in Nodes \cup {NoNode} /\ a[2] \in Nodes \cup {NoNode}
      BY ReservationAssumption DEF NoArc
    <2>3. [sender |-> t, opcode |-> "RELEASE_ALL", node |-> a[1], to |-> a[2]] \in Requests
      BY <2>2 DEF Requests
    <2> QED BY <1>2, <2>1, <2>2, <2>3, AsksKeeps
  <1> QED BY <1>3, <1>4, <1>5, <1>6

LEMMA NextInv == ASSUME IInv, [Next]_vars PROVE IInv'
  <1>1. ASSUME UNCHANGED vars PROVE IInv'
    BY <1>1 DEF IInv, TypeOK, ReverseTogether, CourierReadyIsFresh, OneCourierLetter,
                CourierLetters, vars
  <1> QED BY <1>1, ClientKeeps, CourierAsksKeeps, CourierDeliversKeeps, CourierNotifKeeps,
             ReserveInvalidKeeps, ReserveKeeps, ReleaseKeeps, ReleaseAllKeeps,
             PrintTrainAllocKeeps DEF Next, Server

LEMMA Invariance == Spec => []IInv
  BY InitInv, NextInv, PTL DEF Spec

\* The types, the assertion of PRINT_TRAIN_ALLOC and the courier protocol hold
\* on every track, for any trains and any size of the print buffer.
THEOREM ReservationSafe == Spec => [](TypeOK /\ ReverseTogether /\ CourierReadyIsFresh)
  <1>1. IInv => TypeOK /\ ReverseTogether /\ CourierReadyIsFresh
    BY DEF IInv
  <1> QED BY <1>1, Invariance, PTL
-----------------------------------------------------------------------------
\* The nodes that a turn changes.
LEMMA NodesChanged ==
  ASSUME IInv, Next, NEW n \in Nodes, reserved[n] \notin {Nobody, reserved'[n]}
  PROVE  LET m == Head(mailbox)
         IN  \/ m.sender = reserved[n]
             \/ m.opcode = "RELEASE_ALL" /\ {m.node, m.to} \cap Piece(n) # {}
  <1> DEFINE t == Head(mailbox).sender
  <1>1. reserved' # reserved
    OBVIOUS
  <1>2. Reserve \/ Release \/ ReleaseAll
    BY <1>1 DEF Next, Server, ReserveTrack, PrintOwner, ReleaseTrack, ReleaseAllTrack, Asks,
                CourierAsks, CourierDelivers, CourierNotif, ReserveInvalid, PrintTrainAlloc
  <1>3. \A k \in Nodes, x \in Trains \cup {Nobody} : Together(reserved) =>
          /\ Together(Written(reserved, k, x))
          /\ Written(reserved, k, x)[n] # reserved[n] => reserved[n] = reserved[k]
    BY NodeFacts, WrittenTogether DEF Written, Together
  <1>4. Together(reserved)
    BY ReservedTogether DEF IInv
  <1>5. CASE Reserve
    <2>1. t \in Trains
      BY <1>5, Mail, ClientRequest DEF Reserve
    <2>2. \/ reserved' = reserved
          \/ /\ Head(mailbox).node \in Nodes
             /\ reserved' = Written(reserved, Head(mailbox).node, t)
             /\ reserved[Head(mailbox).node] = Nobody
      BY <1>5 DEF Reserve, Refused
    <2> QED BY <1>1, <1>3, <1>4, <2>1, <2>2
  <1>6. CASE Release
    <2>1. \/ reserved' = reserved
          \/ /\ Head(mailbox).node \in Nodes
             /\ reserved' = Written(reserved, Head(mailbox).node, Nobody)
             /\ reserved[Head(mailbox).node] = t
      BY <1>6 DEF Release
    <2> QED BY <1>1, <1>3, <1>4, <2>1
  <1>7. CASE ReleaseAll
    <2> DEFINE src == Head(mailbox).node
               dest == Head(mailbox).to
    <2>1. t \in Trains /\ Head(mailbox).opcode = "RELEASE_ALL" /\ (src \in Nodes => dest \in Nodes)
      BY <1>7, Mail, ClientRequest, ArcEnds DEF ReleaseAll
    <2>2. \/ reserved' = Cleared(t)
          \/ src \in Nodes /\ reserved' = Written(Written(Cleared(t), src, t), dest, t)
      BY <1>7 DEF ReleaseAll
    <2> HIDE DEF t, src, dest
    <2>3. ASSUME reserved[n] # t, {src, dest} \cap Piece(n) = {} PROVE reserved'[n] = reserved[n]
      <3>1. Cleared(t)[n] = reserved[n]
        BY <2>3 DEF Cleared
      <3>2. src \in Nodes => n # src /\ n # reverse[src] /\ n # dest /\ n # reverse[dest]
        BY <2>1, <2>3, NodeFacts DEF Piece
      <3> QED BY <2>2, <3>1, <3>2 DEF Written
    <2> QED BY <2>1, <2>3 DEF t, src, dest
  <1> QED BY <1>2, <1>5, <1>6, <1>7

\* No train loses track but by its own request, or to a train that starts over
\* on it, on every track.
THEOREM OnlyOwnersGiveUp == Spec => OnlyOwnerGivesUp
  <1>1. IInv /\ [Next]_vars =>
          [\A n \in Nodes :
             reserved[n] \notin {Nobody, reserved'[n]} =>
               LET m == Head(mailbox)
               IN  \/ m.sender = reserved[n]
                   \/ m.opcode = "RELEASE_ALL" /\ {m.node, m.to} \cap Piece(n) # {}]_vars
    BY NodesChanged
  <1> QED BY <1>1, Invariance, PTL DEF Spec, OnlyOwnerGivesUp
-----------------------------------------------------------------------------
(***************************************************************************)
(* The refinement.  A table in which every pair is together has one owner  *)
(* for each piece of track.                                                *)
(***************************************************************************)
OwnerIn(r) == [s \in Pieces |-> r[CHOOSE n \in s : TRUE]]

LEMMA OwnerOfPiece ==
  ASSUME NEW r, Together(r), NEW s \in Pieces, NEW n \in s
  PROVE  n \in Nodes /\ OwnerIn(r)[s] = r[n] /\ Piece(n) = s
  <1>1. PICK k \in Nodes : s = Piece(k)
    BY DEF Pieces
  <1> DEFINE c == CHOOSE m \in s : TRUE
  <1>2. c \in s /\ n \in s
    OBVIOUS
  <1> HIDE DEF c
  <1>3. \A m \in s : m \in Nodes /\ (m = k \/ m = reverse[k])
    BY <1>1 DEF Piece
  <1>4. r[c] = r[k] /\ r[n] = r[k]
    BY <1>2, <1>3, NodeFacts DEF Together
  <1>5. Piece(n) = Piece(k)
    BY <1>2, <1>3, NodeFacts DEF Piece
  <1> QED BY <1>1, <1>2, <1>3, <1>4, <1>5 DEF OwnerIn, c

\* Every node has its piece.
LEMMA PieceOfNode ==
  ASSUME NEW n \in Nodes
  PROVE  Piece(n) \in Pieces /\ n \in Piece(n)
  BY DEF Piece, Pieces

\* A piece holds a node.
LEMMA PieceHasNode ==
  ASSUME NEW s \in Pieces
  PROVE  \E n \in s : TRUE
  BY PieceOfNode DEF Pieces

\* Writing a node and its reverse changes the owner of their piece only.
LEMMA OwnerWritten ==
  ASSUME NEW r, Together(r), NEW n \in Nodes, NEW t \in Trains \cup {Nobody}
  PROVE  OwnerIn(Written(r, n, t)) = [OwnerIn(r) EXCEPT ![Piece(n)] = t]
  <1> DEFINE w == Written(r, n, t)
  <1>1. Together(w)
    BY WrittenTogether
  <1>2. \A m \in Nodes : w[m] = IF m \in Piece(n) THEN t ELSE r[m]
    BY DEF Written, Piece
  <1> HIDE DEF w
  <1>3. ASSUME NEW s \in Pieces
        PROVE  OwnerIn(w)[s] = IF s = Piece(n) THEN t ELSE OwnerIn(r)[s]
    <2>1. PICK m \in s : TRUE
      BY PieceHasNode
    <2>2. /\ m \in Nodes /\ OwnerIn(w)[s] = w[m] /\ OwnerIn(r)[s] = r[m] /\ Piece(m) = s
      BY <1>1, <2>1, OwnerOfPiece
    <2>3. m \in Piece(n) <=> s = Piece(n)
      <3>1. ASSUME m \in Piece(n) PROVE s = Piece(n)
        BY <2>2, <3>1, PieceOfNode, OwnerOfPiece
      <3> QED BY <2>1, <3>1
    <2> QED BY <1>2, <2>2, <2>3
  <1>4. OwnerIn(w) = [s \in Pieces |-> OwnerIn(w)[s]]
    BY DEF OwnerIn
  <1>5. OwnerIn(r) = [s \in Pieces |-> OwnerIn(r)[s]]
    BY DEF OwnerIn
  <1>6. OwnerIn(w) = [OwnerIn(r) EXCEPT ![Piece(n)] = t]
    BY <1>3, <1>4, <1>5
  <1> QED BY <1>6 DEF w

\* Clearing a train's nodes takes its pieces.
LEMMA OwnerCleared ==
  ASSUME Together(reserved), NEW t \in Trains
  PROVE  OwnerIn(Cleared(t)) = [s \in Pieces |-> IF OwnerIn(reserved)[s] = t THEN Nobody
                                                 ELSE OwnerIn(reserved)[s]]
  <1> DEFINE c == Cleared(t)
  <1>1. Together(c)
    BY ClearedTogether
  <1>2. \A m \in Nodes : c[m] = IF reserved[m] = t THEN Nobody ELSE reserved[m]
    BY DEF Cleared
  <1> HIDE DEF c
  <1>3. ASSUME NEW s \in Pieces
        PROVE  OwnerIn(c)[s] = IF OwnerIn(reserved)[s] = t THEN Nobody ELSE OwnerIn(reserved)[s]
    <2>1. PICK m \in s : TRUE
      BY PieceHasNode
    <2>2. m \in Nodes /\ OwnerIn(c)[s] = c[m] /\ OwnerIn(reserved)[s] = reserved[m]
      BY <1>1, <2>1, OwnerOfPiece
    <2> QED BY <1>2, <2>2
  <1> QED BY <1>3 DEF OwnerIn, c

\* The three steps of TrackOwnership, from owners o to owners a.
Grants(o, a) ==
  \E t \in Trains, s \in Pieces : o[s] \in {Nobody, t} /\ a = [o EXCEPT ![s] = t]
GivesBack(o, a) ==
  \E t \in Trains, given \in SUBSET Pieces :
    /\ \A s \in given : o[s] = t
    /\ a = [s \in Pieces |-> IF s \in given THEN Nobody ELSE o[s]]
StartedOver(o, t, standing) ==
  [s \in Pieces |-> IF s \in standing THEN t ELSE IF o[s] = t THEN Nobody ELSE o[s]]
StartsOver(o, a) ==
  \E t \in Trains, s, q \in Pieces : a = StartedOver(o, t, {s, q})

\* Each turn of the server is a step of TrackOwnership or changes no owner.
LEMMA StepsRefine ==
  ASSUME IInv, Next, OwnerIn(reserved') # OwnerIn(reserved)
  PROVE  \/ Grants(OwnerIn(reserved), OwnerIn(reserved'))
         \/ GivesBack(OwnerIn(reserved), OwnerIn(reserved'))
         \/ StartsOver(OwnerIn(reserved), OwnerIn(reserved'))
  <1> DEFINE owner == OwnerIn(reserved)
             after == OwnerIn(reserved')
             t == Head(mailbox).sender
             n == Head(mailbox).node
  <1>1. reserved' # reserved
    OBVIOUS
  <1> QED
    <2>0. Reserve \/ Release \/ ReleaseAll
      BY <1>1 DEF Next, Server, ReserveTrack, PrintOwner, ReleaseTrack, ReleaseAllTrack, Asks,
                  CourierAsks, CourierDelivers, CourierNotif, ReserveInvalid, PrintTrainAlloc
    <2>1. Together(reserved)
      BY ReservedTogether DEF IInv
    <2>2. n \in Nodes => Piece(n) \in Pieces /\ owner[Piece(n)] = reserved[n]
      BY <2>1, PieceOfNode, OwnerOfPiece
    <2>3. CASE Reserve
      <3>1. t \in Trains
        BY <2>3, Mail, ClientRequest DEF Reserve
      <3>2. /\ n \in Nodes /\ reserved' = Written(reserved, n, t)
            /\ reserved[n] \in {Nobody, t}
        BY <1>1, <2>3 DEF Reserve, Refused
      <3> HIDE DEF t, n
      <3>3. after = [owner EXCEPT ![Piece(n)] = t]
        BY <2>1, <3>1, <3>2, OwnerWritten
      <3>4. Piece(n) \in Pieces /\ owner[Piece(n)] \in {Nobody, t}
        BY <2>2, <3>2 DEF n
      <3> QED BY <3>1, <3>3, <3>4 DEF Grants
    <2>4. CASE Release
      <3>1. t \in Trains
        BY <2>4, Mail, ClientRequest DEF Release
      <3>2. n \in Nodes /\ reserved' = Written(reserved, n, Nobody) /\ reserved[n] = t
        BY <1>1, <2>4 DEF Release
      <3> HIDE DEF t, n
      <3>3. after = [owner EXCEPT ![Piece(n)] = Nobody]
        BY <2>1, <3>2, OwnerWritten
      <3>4. Piece(n) \in Pieces /\ owner[Piece(n)] = t
        BY <2>2, <3>2 DEF n
      <3>5. owner = [s \in Pieces |-> owner[s]]
        BY DEF OwnerIn
      <3>6. after = [s \in Pieces |-> IF s \in {Piece(n)} THEN Nobody ELSE owner[s]]
        <4> HIDE DEF owner, after
        <4> QED BY <3>3, <3>5
      <3> QED BY <3>1, <3>4, <3>6 DEF GivesBack
    <2>5. CASE ReleaseAll
      <3> DEFINE dest == Head(mailbox).to
                 cleared == Cleared(t)
                 once == Written(cleared, n, t)
      <3>1. t \in Trains /\ (n \in Nodes => dest \in Nodes)
        BY <2>5, Mail, ClientRequest, ArcEnds DEF ReleaseAll
      <3>2. \/ reserved' = cleared
            \/ n \in Nodes /\ reserved' = Written(once, dest, t)
        BY <2>5 DEF ReleaseAll
      <3>3. /\ Together(cleared)
            /\ OwnerIn(cleared) = [s \in Pieces |-> IF owner[s] = t THEN Nobody ELSE owner[s]]
        BY <2>1, <3>1, ClearedTogether, OwnerCleared
      <3> HIDE DEF t, n, dest, cleared, once
      <3>4. CASE reserved' = cleared
        <4> DEFINE given == {s \in Pieces : owner[s] = t}
        <4>1. after = [s \in Pieces |-> IF s \in given THEN Nobody ELSE owner[s]]
          BY <3>3, <3>4
        <4>2. given \in SUBSET Pieces /\ \A s \in given : owner[s] = t
          OBVIOUS
        <4> QED BY <3>1, <4>1, <4>2 DEF GivesBack
      <3>5. CASE n \in Nodes /\ reserved' = Written(once, dest, t)
        <4>1. Together(once) /\ OwnerIn(once) = [OwnerIn(cleared) EXCEPT ![Piece(n)] = t]
          BY <3>1, <3>3, <3>5, WrittenTogether, OwnerWritten DEF once
        <4>2. after = [OwnerIn(once) EXCEPT ![Piece(dest)] = t]
          BY <3>1, <3>5, <4>1, OwnerWritten
        <4>3. Piece(n) \in Pieces /\ Piece(dest) \in Pieces
          BY <3>1, <3>5, PieceOfNode
        <4>4. after = StartedOver(owner, t, {Piece(n), Piece(dest)})
          BY <3>3, <4>1, <4>2, <4>3 DEF StartedOver
        <4> QED BY <3>1, <4>3, <4>4 DEF StartsOver
      <3> QED BY <3>2, <3>4, <3>5
    <2> QED BY <2>0, <2>3, <2>4, <2>5

\* The server keeps the promise of TrackOwnership on every track: a piece never
\* has two owners, and only starting over takes it from a train.
THEOREM OwnershipImplemented == Spec => ImplementsTrackOwnership
  <1>1. Init => Ownership!Init
    <2> SUFFICES ASSUME Init PROVE Ownership!Init
      OBVIOUS
    <2>1. \A s \in Pieces : reserved[CHOOSE n \in s : TRUE] = Nobody
      <3> TAKE s \in Pieces
      <3>1. (CHOOSE n \in s : TRUE) \in Nodes
        BY PieceHasNode DEF Pieces, Piece
      <3> QED BY <3>1 DEF Init
    <2> QED BY <2>1 DEF Ownership!Init
  <1>2. IInv /\ [Next]_vars => [Ownership!Next]_(OwnerIn(reserved))
    <2> SUFFICES ASSUME IInv, [Next]_vars, OwnerIn(reserved') # OwnerIn(reserved)
                 PROVE  Ownership!Next
      BY DEF OwnerIn
    <2>1. Next
      BY DEF vars, OwnerIn
    <2>2. CASE Grants(OwnerIn(reserved), OwnerIn(reserved'))
      BY <2>2 DEF Grants, OwnerIn, Ownership!Next, Ownership!Grant
    <2>3. CASE GivesBack(OwnerIn(reserved), OwnerIn(reserved'))
      <3>1. PICK t \in Trains, given \in SUBSET Pieces :
              /\ \A s \in given : OwnerIn(reserved)[s] = t
              /\ OwnerIn(reserved') = [s \in Pieces |-> IF s \in given THEN Nobody
                                                        ELSE OwnerIn(reserved)[s]]
        BY <2>3 DEF GivesBack
      <3>2. Ownership!GiveBack(t, given)
        BY <3>1 DEF OwnerIn, Ownership!GiveBack
      <3>3. given \in SUBSET {s \in Pieces : OwnerIn(reserved)[s] = t}
        BY <3>1
      <3> QED BY <3>2, <3>3 DEF OwnerIn, Ownership!Next
    <2>4. CASE StartsOver(OwnerIn(reserved), OwnerIn(reserved'))
      BY <2>4 DEF StartsOver, StartedOver, OwnerIn, Ownership!Next, Ownership!StartOver
    <2> QED BY <2>1, <2>2, <2>3, <2>4, StepsRefine
  <1> QED BY <1>1, <1>2, Invariance, PTL DEF Spec, ImplementsTrackOwnership, Ownership!Spec, OwnerIn
=============================================================================
