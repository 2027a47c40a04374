----------------------------- MODULE ClockProofs -----------------------------
(***************************************************************************)
(* The safety properties of module ClockServer and its refinement of       *)
(* AlarmClock, for any clients, number of cells, word size and delays.     *)
(***************************************************************************)
EXTENDS ClockServer, FiniteSetTheorems, SequenceTheorems, WellFoundedInduction, TLAPS

\* A nonempty set of numbers has a least element.
LEMMA LeastExists ==
  ASSUME NEW B \in SUBSET Nat, B # {}
  PROVE  \E p \in B : \A q \in B : p <= q
  <1>1. PICK p \in B : \A q \in B : ~(<<q, p>> \in OpToRel(<, Nat))
    BY WFMin, NatLessThanWellFounded
  <1>2. \A q \in B : ~(q < p)
    BY <1>1 DEF OpToRel
  <1>3. \A q \in B : q \in Nat
    OBVIOUS
  <1>4. \A q \in B : p <= q
    BY <1>2, <1>3
  <1> QED BY <1>4

(***************************************************************************)
(* The inductive invariant.  The refinement needs HeadIsEarliest (a tick   *)
(* that does not look at the cells leaves nobody behind), FreeCells (a     *)
(* tick never answers an empty cell) and OneRequestEach (a client has one  *)
(* time it sleeps until).  TicksBounded keeps the tick of an update on its *)
(* way below the bound.                                                    *)
(***************************************************************************)
TicksBounded == notifier # "awaiting" => ticks < MaxTicks

IInv == TypeOK /\ HeadIsEarliest /\ FreeCells /\ OneRequestEach /\ TicksBounded
-----------------------------------------------------------------------------
\* No tick up to the bound reaches the time of an empty cell.
LEMMA WordFacts ==
  /\ Empty \in Times /\ NoCell \notin Cells /\ NoClient \notin Clients /\ Notifier \notin Clients
  /\ \A t \in 0 .. MaxTicks : t \in Times /\ t < Empty
  /\ \A t \in Times : t \in Nat /\ t <= Empty
  /\ Delays \subseteq Times
  /\ Cells # {} /\ \A i \in Cells : i \in Nat
  <1>1. Empty \in Times /\ NoCell \notin Cells /\ \A i \in Cells : i \in Nat
    BY ClockAssumption DEF Empty, Times, NoCell, Cells
  <1>2. 1 \in Cells
    BY ClockAssumption DEF Cells
  <1>3. \A t \in 0 .. MaxTicks : t \in Times /\ t < Empty
    BY ClockAssumption DEF Empty, Times
  <1>4. \A t \in Times : t \in Nat /\ t <= Empty
    BY ClockAssumption DEF Empty, Times
  <1>5. Delays \subseteq Times
    BY ClockAssumption DEF Times
  <1> QED BY <1>1, <1>2, <1>3, <1>4, <1>5, ClockNames

\* Who sends what.
LEMMA RequestFacts ==
  ASSUME NEW m \in Requests
  PROVE  /\ m.opcode = "UPDATE_TIME" <=> m.sender = Notifier
         /\ m.opcode # "UPDATE_TIME" => m.sender \in Clients
         /\ m.opcode \in {"DELAY_REQUEST", "DELAYUNTIL_REQUEST"} => m.data \in Times
  BY WordFacts DEF Requests

\* What the first request of the mailbox looks like, and what is left of the
\* mailbox without it.
LEMMA FirstRequest ==
  ASSUME TypeOK, mailbox # <<>>
  PROVE  /\ Head(mailbox) \in Requests
         /\ Tail(mailbox) \in Seq(Requests)
         /\ Head(mailbox) = mailbox[1] /\ 1 \in DOMAIN mailbox
         /\ \A k \in DOMAIN Tail(mailbox) :
              k \in Nat /\ k + 1 # 1 /\ k + 1 \in DOMAIN mailbox
              /\ Tail(mailbox)[k] = mailbox[k + 1]
         /\ \A k \in DOMAIN mailbox \ {1} : k \in Nat /\ k - 1 \in DOMAIN Tail(mailbox)
  <1>1. mailbox \in Seq(Requests)
    BY DEF TypeOK
  <1>2. /\ Len(mailbox) \in Nat \ {0} /\ DOMAIN mailbox = 1 .. Len(mailbox)
        /\ Tail(mailbox) \in Seq(Requests) /\ Len(Tail(mailbox)) = Len(mailbox) - 1
        /\ DOMAIN Tail(mailbox) = 1 .. Len(mailbox) - 1
        /\ \A i \in 1 .. Len(mailbox) - 1 : Tail(mailbox)[i] = mailbox[i + 1]
        /\ Head(mailbox) = mailbox[1]
    BY <1>1, HeadTailProperties, LenProperties, EmptySeq
  <1>3. mailbox[1] \in Requests
    BY <1>1, <1>2, ElementOfSeq
  <1> QED BY <1>2, <1>3

\* What an Append adds to the mailbox.
LEMMA MoreMail ==
  ASSUME mailbox \in Seq(Requests), NEW m \in Requests, mailbox' = Append(mailbox, m)
  PROVE  /\ mailbox' \in Seq(Requests)
         /\ DOMAIN mailbox' = DOMAIN mailbox \cup {Len(mailbox) + 1}
         /\ Len(mailbox) + 1 \notin DOMAIN mailbox
         /\ \A k \in DOMAIN mailbox : mailbox'[k] = mailbox[k]
         /\ mailbox'[Len(mailbox) + 1] = m
  <1>1. /\ mailbox' \in Seq(Requests)
        /\ Len(mailbox') = Len(mailbox) + 1 /\ Len(mailbox) \in Nat
        /\ DOMAIN mailbox' = 1 .. Len(mailbox) + 1
        /\ DOMAIN mailbox = 1 .. Len(mailbox)
        /\ \A i \in 1 .. Len(mailbox) : mailbox'[i] = mailbox[i]
        /\ mailbox'[Len(mailbox) + 1] = m
    BY AppendProperties, LenProperties
  <1> QED BY <1>1

\* A request that joins the mailbox is its sender's; nobody else has more.
LEMMA LettersAfterSend ==
  ASSUME mailbox \in Seq(Requests), NEW m \in Requests, mailbox' = Append(mailbox, m),
         NEW c
  PROVE  LettersOf(c)' = LettersOf(c) \cup (IF c = m.sender THEN {Len(mailbox) + 1} ELSE {})
  BY MoreMail DEF LettersOf

\* Receiving takes the letter of its sender; the others move up.
LEMMA LettersAfterReceive ==
  ASSUME TypeOK, NEW opcode, Received(opcode), NEW c
  PROVE  /\ mailbox' \in Seq(Requests)
         /\ 1 \in LettersOf(Head(mailbox).sender)
         /\ Head(mailbox) \in Requests /\ Head(mailbox).opcode = opcode
         /\ \A k \in LettersOf(c)' : k \in Nat /\ k + 1 # 1 /\ k + 1 \in LettersOf(c)
         /\ \A k \in LettersOf(c) \ {1} : k \in Nat /\ k - 1 \in LettersOf(c)'
         /\ c # Head(mailbox).sender => 1 \notin LettersOf(c)
  <1>1. mailbox # <<>> /\ mailbox' = Tail(mailbox) /\ Head(mailbox).opcode = opcode
    BY DEF Received
  <1>2. /\ Head(mailbox) \in Requests /\ mailbox' \in Seq(Requests)
        /\ Head(mailbox) = mailbox[1] /\ 1 \in DOMAIN mailbox
        /\ \A k \in DOMAIN mailbox' :
              k \in Nat /\ k + 1 # 1 /\ k + 1 \in DOMAIN mailbox /\ mailbox'[k] = mailbox[k + 1]
        /\ \A k \in DOMAIN mailbox \ {1} : k \in Nat /\ k - 1 \in DOMAIN mailbox'
    BY <1>1, FirstRequest
  <1>3. \A k \in DOMAIN mailbox \ {1} : mailbox'[k - 1] = mailbox[k]
    BY <1>2
  <1> QED BY <1>1, <1>2, <1>3 DEF LettersOf
-----------------------------------------------------------------------------
LEMMA InitInv == ASSUME Init PROVE IInv
  <1>1. mailbox \in Seq(Requests) /\ DOMAIN mailbox = {}
    BY LenProperties DEF Init
  <1>2. TypeOK
    <2>1. ticks \in 0 .. MaxTicks
      BY ClockAssumption DEF Init
    <2> QED BY <1>1, <2>1, WordFacts DEF Init, TypeOK
  <1>3. HeadIsEarliest /\ FreeCells /\ TicksBounded
    BY WordFacts DEF Init, HeadIsEarliest, FreeCells, TicksBounded
  <1>4. \A c \in Clients : CellsOf(c) = {}
    BY WordFacts DEF Init, CellsOf
  <1>5. OneRequestEach
    BY <1>1, <1>4 DEF Init, OneRequestEach, LettersOf
  <1> QED BY <1>2, <1>3, <1>5 DEF IInv

LEMMA TimerIrqKeeps == ASSUME IInv, TimerIrq PROVE IInv'
  <1>1. TypeOK' /\ HeadIsEarliest' /\ FreeCells' /\ TicksBounded'
    BY DEF IInv, TypeOK, HeadIsEarliest, FreeCells, TicksBounded, TimerIrq, queueVars
  <1>2. OneRequestEach'
    BY DEF IInv, OneRequestEach, CellsOf, LettersOf, TimerIrq, queueVars
  <1> QED BY <1>1, <1>2 DEF IInv

LEMMA NotifierSendsKeeps == ASSUME IInv, NotifierSends PROVE IInv'
  <1> DEFINE m == [sender |-> Notifier, opcode |-> "UPDATE_TIME", data |-> 0]
  <1>1. m \in Requests /\ m.sender = Notifier /\ mailbox' = Append(mailbox, m)
    BY DEF Requests, NotifierSends
  <1> HIDE DEF m
  <1>2. mailbox \in Seq(Requests)
    BY DEF IInv, TypeOK
  <1>3. mailbox' \in Seq(Requests)
    BY <1>1, <1>2, MoreMail
  <1>4. TypeOK' /\ HeadIsEarliest' /\ FreeCells' /\ TicksBounded'
    BY <1>3 DEF IInv, TypeOK, HeadIsEarliest, FreeCells, TicksBounded, NotifierSends, queueVars
  <1>5. \A c \in Clients : LettersOf(c)' = LettersOf(c) /\ CellsOf(c)' = CellsOf(c)
    BY <1>1, <1>2, LettersAfterSend, WordFacts DEF NotifierSends, queueVars, CellsOf
  <1>6. LettersOf(Notifier) = {}
    BY DEF IInv, OneRequestEach, NotifierSends
  <1>7. LettersOf(Notifier)' = {Len(mailbox) + 1}
    BY <1>1, <1>2, <1>6, LettersAfterSend
  <1>8. OneRequestEach'
    BY <1>5, <1>7 DEF IInv, OneRequestEach, NotifierSends
  <1> QED BY <1>4, <1>8 DEF IInv

LEMMA ClientSendsKeeps == ASSUME IInv, NEW c \in Clients, ClientSends(c) PROVE IInv'
  <1>1. PICK m \in Requests : m.sender = c /\ mailbox' = Append(mailbox, m)
    BY DEF ClientSends
  <1>2. mailbox \in Seq(Requests)
    BY DEF IInv, TypeOK
  <1>3. mailbox' \in Seq(Requests)
    BY <1>1, <1>2, MoreMail
  <1>4. TypeOK' /\ HeadIsEarliest' /\ FreeCells' /\ TicksBounded'
    BY <1>3 DEF IInv, TypeOK, HeadIsEarliest, FreeCells, TicksBounded, ClientSends, queueVars
  <1>5. \A d \in Clients \cup {Notifier} : d # c => LettersOf(d)' = LettersOf(d)
    BY <1>1, <1>2, LettersAfterSend
  <1>6. \A d \in Clients : CellsOf(d)' = CellsOf(d)
    BY DEF ClientSends, queueVars, CellsOf
  <1>7. CellsOf(c) = {} /\ LettersOf(c) = {}
    BY DEF IInv, OneRequestEach, ClientSends
  <1>8. LettersOf(c)' = {Len(mailbox) + 1}
    BY <1>1, <1>2, <1>7, LettersAfterSend
  <1>9. /\ client'[c] = "blocked" /\ \A d \in Clients \ {c} : client'[d] = client[d]
        /\ notifier' = notifier
    BY DEF IInv, TypeOK, ClientSends
  <1>10. Notifier # c
    BY WordFacts
  <1>11. OneRequestEach'
    <2>1. ASSUME NEW d \in Clients
          PROVE  /\ \A i, j \in CellsOf(d)' : i = j
                 /\ \A k, l \in LettersOf(d)' : k = l
                 /\ CellsOf(d)' = {} \/ LettersOf(d)' = {}
                 /\ client'[d] = "running" => CellsOf(d)' = {} /\ LettersOf(d)' = {}
      <3>1. CASE d = c
        BY <3>1, <1>6, <1>7, <1>8, <1>9
      <3>2. CASE d # c
        BY <3>2, <1>5, <1>6, <1>9 DEF IInv, OneRequestEach
      <3> QED BY <3>1, <3>2
    <2>2. LettersOf(Notifier)' = LettersOf(Notifier)
      BY <1>5, <1>10
    <2> QED BY <1>9, <2>1, <2>2 DEF IInv, OneRequestEach
  <1> QED BY <1>4, <1>11 DEF IInv
-----------------------------------------------------------------------------
\* After a Receive the sender has no letter left, the others have theirs.
LEMMA Letters ==
  ASSUME IInv, NEW opcode, Received(opcode), NEW s, s = Head(mailbox).sender
  PROVE  /\ LettersOf(s)' = {}
         /\ \A c \in Clients \cup {Notifier} : c # s =>
              /\ \A k, l \in LettersOf(c)' : k = l
              /\ LettersOf(c)' = {} <=> LettersOf(c) = {}
         /\ s \in Clients => CellsOf(s) = {} /\ client[s] = "blocked"
         /\ s = Notifier => notifier = "blocked" /\ ticks < MaxTicks
         /\ s \in Clients \cup {Notifier}
         /\ opcode = "UPDATE_TIME" <=> s = Notifier
         /\ opcode \in {"DELAY_REQUEST", "DELAYUNTIL_REQUEST"} => Head(mailbox).data \in Times
         /\ mailbox' \in Seq(Requests)
  <1>1. TypeOK
    BY DEF IInv
  <1>2. /\ mailbox' \in Seq(Requests) /\ 1 \in LettersOf(s)
        /\ Head(mailbox) \in Requests /\ Head(mailbox).opcode = opcode
    BY <1>1, LettersAfterReceive
  <1>3. /\ s \in Clients \cup {Notifier}
        /\ opcode = "UPDATE_TIME" <=> s = Notifier
        /\ opcode \in {"DELAY_REQUEST", "DELAYUNTIL_REQUEST"} => Head(mailbox).data \in Times
    BY <1>2, RequestFacts
  <1>4. \A k \in LettersOf(s) : k = 1
    BY <1>2, <1>3 DEF IInv, OneRequestEach
  <1>5. LettersOf(s)' = {}
    BY <1>1, <1>4, LettersAfterReceive
  <1>6. ASSUME NEW c \in Clients \cup {Notifier}, c # s
        PROVE  /\ \A k, l \in LettersOf(c)' : k = l
               /\ LettersOf(c)' = {} <=> LettersOf(c) = {}
    <2>1. /\ \A k \in LettersOf(c)' : k \in Nat /\ k + 1 \in LettersOf(c)
          /\ \A k \in LettersOf(c) \ {1} : k - 1 \in LettersOf(c)'
          /\ 1 \notin LettersOf(c)
      BY <1>1, <1>6, LettersAfterReceive
    <2>2. \A k, l \in LettersOf(c) : k = l
      BY DEF IInv, OneRequestEach
    <2>3. \A k, l \in LettersOf(c)' : k = l
      BY <2>1, <2>2
    <2> QED BY <2>1, <2>3
  <1>7. s \in Clients => CellsOf(s) = {} /\ client[s] = "blocked"
    BY <1>2 DEF IInv, OneRequestEach, TypeOK
  <1>8. s = Notifier => notifier = "blocked" /\ ticks < MaxTicks
    BY <1>2 DEF IInv, OneRequestEach, TicksBounded
  <1> QED BY <1>2, <1>3, <1>5, <1>6, <1>7, <1>8

LEMMA TimeRequestKeeps == ASSUME IInv, TimeRequest PROVE IInv'
  <1>0. PICK s : s = Head(mailbox).sender
    OBVIOUS
  <1>1. Received("TIME_REQUEST")
    BY DEF TimeRequest
  <1>2. /\ s \in Clients /\ LettersOf(s)' = {} /\ CellsOf(s) = {}
        /\ \A c \in Clients \cup {Notifier} : c # s =>
             /\ \A k, l \in LettersOf(c)' : k = l
             /\ LettersOf(c)' = {} <=> LettersOf(c) = {}
        /\ mailbox' \in Seq(Requests)
    BY <1>0, <1>1, Letters
  <1>3. client' = [client EXCEPT ![s] = "running"] /\ UNCHANGED <<ticks, queueVars, notifier>>
    BY <1>0 DEF TimeRequest
  <1>4. TypeOK' /\ HeadIsEarliest' /\ FreeCells' /\ TicksBounded'
    BY <1>2, <1>3 DEF IInv, TypeOK, HeadIsEarliest, FreeCells, TicksBounded, queueVars
  <1>5. \A c \in Clients : CellsOf(c)' = CellsOf(c)
    BY <1>3 DEF queueVars, CellsOf
  <1>6. Notifier # s /\ \A c \in Clients \ {s} : client'[c] = client[c]
    BY <1>2, <1>3, WordFacts DEF IInv, TypeOK
  <1>7. ASSUME NEW c \in Clients
        PROVE  /\ \A i, j \in CellsOf(c)' : i = j
               /\ \A k, l \in LettersOf(c)' : k = l
               /\ CellsOf(c)' = {} \/ LettersOf(c)' = {}
               /\ client'[c] = "running" => CellsOf(c)' = {} /\ LettersOf(c)' = {}
    <2>1. CASE c = s
      BY <2>1, <1>2, <1>5
    <2>2. CASE c # s
      BY <2>2, <1>2, <1>5, <1>6 DEF IInv, OneRequestEach
    <2> QED BY <2>1, <2>2
  <1>8. OneRequestEach'
    BY <1>2, <1>3, <1>6, <1>7 DEF IInv, OneRequestEach
  <1> QED BY <1>4, <1>8 DEF IInv

\* A client that asks to be woken gets a free cell, or none.
LEMMA PushKeeps ==
  ASSUME IInv, NEW opcode, Received(opcode), NEW t \in Times,
         Head(mailbox).sender \in Clients,
         WaitQueuePush(Head(mailbox).sender, t), UNCHANGED <<ticks, client, notifier>>
  PROVE  IInv'
  <1>0. PICK s : s = Head(mailbox).sender
    OBVIOUS
  <1>1. /\ s \in Clients /\ LettersOf(s)' = {} /\ CellsOf(s) = {} /\ client[s] = "blocked"
        /\ \A c \in Clients \cup {Notifier} : c # s =>
             /\ \A k, l \in LettersOf(c)' : k = l
             /\ LettersOf(c)' = {} <=> LettersOf(c) = {}
        /\ mailbox' \in Seq(Requests)
    BY <1>0, Letters
  <1>2. WaitQueuePush(s, t)
    BY <1>0
  <1>3. Notifier # s /\ s # NoClient
    BY <1>1, WordFacts
  <1>4. ASSUME \A c \in Clients : c # s => CellsOf(c)' = CellsOf(c),
               \A i, j \in CellsOf(s)' : i = j
        PROVE  OneRequestEach'
    <2>1. ASSUME NEW c \in Clients
          PROVE  /\ \A i, j \in CellsOf(c)' : i = j
                 /\ \A k, l \in LettersOf(c)' : k = l
                 /\ CellsOf(c)' = {} \/ LettersOf(c)' = {}
                 /\ client'[c] = "running" => CellsOf(c)' = {} /\ LettersOf(c)' = {}
      <3>1. CASE c = s
        BY <3>1, <1>1, <1>4
      <3>2. CASE c # s
        BY <3>2, <1>1, <1>4 DEF IInv, OneRequestEach
      <3> QED BY <3>1, <3>2
    <2> QED BY <1>1, <1>3, <2>1 DEF IInv, OneRequestEach
  <1>5. CASE pool = {}
    <2>1. UNCHANGED queueVars
      BY <1>2, <1>5 DEF WaitQueuePush
    <2>2. TypeOK' /\ HeadIsEarliest' /\ FreeCells' /\ TicksBounded'
      BY <1>1, <2>1 DEF IInv, TypeOK, HeadIsEarliest, FreeCells, TicksBounded, queueVars
    <2>3. \A c \in Clients : CellsOf(c)' = CellsOf(c)
      BY <2>1 DEF queueVars, CellsOf
    <2>4. OneRequestEach'
      BY <1>1, <1>4, <2>3
    <2> QED BY <2>2, <2>4 DEF IInv
  <1>6. CASE pool # {}
    <2>1. PICK i \in pool : /\ Fill(i, s, t)
                            /\ head' = IF head = NoCell \/ t < time'[head] THEN i ELSE head
      BY <1>2, <1>6 DEF WaitQueuePush
    <2>2. /\ i \in Cells /\ tid[i] = NoClient /\ time[i] = Empty
          /\ pool' = pool \ {i}
          /\ tid' \in [Cells -> Clients \cup {NoClient}] /\ time' \in [Cells -> Times]
          /\ tid'[i] = s /\ time'[i] = t
          /\ \A j \in Cells \ {i} : tid'[j] = tid[j] /\ time'[j] = time[j]
      BY <1>1, <2>1 DEF IInv, TypeOK, FreeCells, Fill
    <2>3. TypeOK'
      BY <1>1, <2>1, <2>2 DEF IInv, TypeOK
    <2>4. FreeCells'
      BY <1>3, <2>2 DEF IInv, FreeCells
    <2>5. HeadIsEarliest'
      <3>1. \A j \in Cells : time[j] \in Nat /\ time[j] <= Empty /\ time'[j] \in Nat
        BY <2>2, WordFacts DEF IInv, TypeOK
      <3>2. t \in Nat /\ t <= Empty /\ Empty \in Nat /\ NoCell \notin Cells
        BY WordFacts
      <3>3. CASE head = NoCell
        <4>1. \A j \in Cells : time[j] = Empty
          BY <3>3 DEF IInv, HeadIsEarliest, FreeCells
        <4>2. \A j \in Cells : time'[head'] <= time'[j]
          BY <2>1, <2>2, <3>1, <3>2, <3>3, <4>1
        <4>3. head' # NoCell
          BY <2>1, <2>2, <3>2, <3>3
        <4> QED BY <4>2, <4>3 DEF HeadIsEarliest
      <3>4. CASE head # NoCell
        <4>1. head \in Cells /\ \A j \in Cells : time[head] <= time[j]
          BY <3>4 DEF IInv, TypeOK, HeadIsEarliest
        <4>2. \A j \in Cells : time'[head'] <= time'[j]
          <5>1. CASE head = i
            BY <2>1, <2>2, <3>1, <3>2, <3>4, <4>1, <5>1
          <5>2. CASE head # i /\ t < time[head]
            BY <2>1, <2>2, <3>1, <3>2, <3>4, <4>1, <5>2
          <5>3. CASE head # i /\ ~(t < time[head])
            BY <2>1, <2>2, <3>1, <3>2, <3>4, <4>1, <5>3
          <5> QED BY <5>1, <5>2, <5>3
        <4>3. head' # NoCell
          BY <2>1, <2>2, <3>2, <3>4
        <4> QED BY <4>2, <4>3 DEF HeadIsEarliest
      <3> QED BY <3>3, <3>4
    <2>6. \A c \in Clients : c # s => CellsOf(c)' = CellsOf(c)
      BY <2>2, WordFacts DEF CellsOf
    <2>7. CellsOf(s)' = {i}
      BY <1>1, <2>2 DEF CellsOf
    <2>8. OneRequestEach'
      BY <1>4, <2>6, <2>7
    <2>9. TicksBounded'
      BY DEF IInv, TicksBounded
    <2> QED BY <2>3, <2>4, <2>5, <2>8, <2>9 DEF IInv
  <1> QED BY <1>5, <1>6

LEMMA DelayKeeps == ASSUME IInv, Delay PROVE IInv'
  <1>1. Received("DELAY_REQUEST") /\ UNCHANGED <<ticks, client, notifier>>
    BY DEF Delay
  <1>2. Head(mailbox).sender \in Clients /\ Head(mailbox).data \in Times
    BY <1>1, Letters
  <1>3. (Head(mailbox).data + ticks) % WORD \in Times
    <2>1. Head(mailbox).data + ticks \in Nat /\ WORD \in Nat \ {0}
      BY <1>2, ClockAssumption DEF IInv, TypeOK, Times
    <2>2. \A n \in Nat : n % WORD \in 0 .. WORD - 1
      BY <2>1
    <2> QED BY <2>1, <2>2 DEF Times
  <1> QED BY <1>1, <1>2, <1>3, PushKeeps DEF Delay

LEMMA DelayUntilKeeps == ASSUME IInv, DelayUntil PROVE IInv'
  <1>1. Received("DELAYUNTIL_REQUEST") /\ UNCHANGED <<ticks, client, notifier>>
    BY DEF DelayUntil
  <1>2. Head(mailbox).sender \in Clients /\ Head(mailbox).data \in Times
    BY <1>1, Letters
  <1> QED BY <1>1, <1>2, PushKeeps DEF DelayUntil
-----------------------------------------------------------------------------
\* The search of reply_expired_tasks ends on a cell of the earliest time.
LEMMA EarliestIsLeast ==
  ASSUME TypeOK, NEW S \in SUBSET Cells, S # {}
  PROVE  Earliest(S) \in S /\ \A j \in S : time[Earliest(S)] <= time[j]
  <1> DEFINE B == {time[j] : j \in S}
             M == {i \in S : \A j \in S : time[i] <= time[j]}
  <1>1. \A j \in S : time[j] \in Nat
    BY WordFacts DEF TypeOK
  <1>2. B \in SUBSET Nat /\ B # {}
    BY <1>1
  <1>3. \E p \in B : \A q \in B : p <= q
    <2> HIDE DEF B
    <2> QED BY <1>2, LeastExists
  <1>4. M # {} /\ M \in SUBSET Nat
    BY <1>3, WordFacts
  <1> HIDE DEF M
  <1>5. \E i \in M : \A j \in M : i <= j
    BY <1>4, LeastExists
  <1>6. Earliest(S) \in M
    <2>1. Earliest(S) = First(M)
      BY DEF Earliest, M
    <2> QED BY <1>5, <2>1 DEF First
  <1> QED BY <1>6 DEF M

LEMMA UpdateTimeKeeps == ASSUME IInv, UpdateTime PROVE IInv'
  <1> DEFINE done == Expired(ticks + 1)
  <1>1. Received("UPDATE_TIME") /\ ticks' = ticks + 1 /\ notifier' = "awaiting"
    BY DEF UpdateTime
  <1>2. Head(mailbox).sender = Notifier
    BY <1>1, Letters
  <1>3. /\ LettersOf(Notifier)' = {} /\ ticks < MaxTicks
        /\ \A c \in Clients :
             /\ \A k, l \in LettersOf(c)' : k = l
             /\ LettersOf(c)' = {} <=> LettersOf(c) = {}
        /\ mailbox' \in Seq(Requests)
    BY <1>1, <1>2, Letters, WordFacts
  <1>4. ticks' \in 0 .. MaxTicks /\ TicksBounded'
    BY <1>1, <1>3, ClockAssumption DEF IInv, TypeOK, TicksBounded
  <1>5. CASE ~Due(ticks + 1)
    <2>1. UNCHANGED <<queueVars, client>>
      BY <1>5 DEF UpdateTime, ReplyExpired
    <2>2. TypeOK' /\ HeadIsEarliest' /\ FreeCells'
      BY <1>1, <1>3, <1>4, <2>1 DEF IInv, TypeOK, HeadIsEarliest, FreeCells, queueVars
    <2>3. \A c \in Clients : CellsOf(c)' = CellsOf(c)
      BY <2>1 DEF queueVars, CellsOf
    <2>4. client' = client
      BY <2>1
    <2>5. OneRequestEach'
      BY <1>1, <1>3, <2>3, <2>4 DEF IInv, OneRequestEach
    <2> QED BY <1>4, <2>2, <2>5 DEF IInv
  <1>6. CASE Due(ticks + 1)
    <2>1. AnswerAndEmpty(done)
      BY <1>6 DEF UpdateTime, ReplyExpired
    <2>2. done \in SUBSET Cells
      BY DEF Expired
    <2> HIDE DEF done
    <2>3. /\ client' = [c \in Clients |-> IF \E i \in done : tid[i] = c THEN "running"
                                          ELSE client[c]]
          /\ tid' = [i \in Cells |-> IF i \in done THEN NoClient ELSE tid[i]]
          /\ time' = [i \in Cells |-> IF i \in done THEN Empty ELSE time[i]]
          /\ pool' = pool \cup done
          /\ head' = IF done = Cells THEN NoCell ELSE Earliest(Cells \ done)
      BY <2>1 DEF AnswerAndEmpty
    <2>4. done # Cells => /\ head' \in Cells \ done
                          /\ \A j \in Cells \ done : time[head'] <= time[j]
      <3>1. ASSUME done # Cells
            PROVE  /\ Earliest(Cells \ done) \in Cells \ done
                   /\ \A j \in Cells \ done : time[Earliest(Cells \ done)] <= time[j]
        <4>1. Cells \ done # {} /\ Cells \ done \in SUBSET Cells /\ TypeOK
          BY <2>2, <3>1 DEF IInv
        <4> QED BY <4>1, EarliestIsLeast
      <3> QED BY <2>3, <3>1
    <2>5. TypeOK'
      <3>1. time' \in [Cells -> Times] /\ tid' \in [Cells -> Clients \cup {NoClient}]
        BY <2>3, WordFacts DEF IInv, TypeOK
      <3>2. pool' \subseteq Cells /\ head' \in Cells \cup {NoCell}
        BY <2>2, <2>3, <2>4 DEF IInv, TypeOK
      <3>3. client' \in [Clients -> {"running", "blocked"}]
        BY <2>3 DEF IInv, TypeOK
      <3> QED BY <1>1, <1>3, <1>4, <3>1, <3>2, <3>3 DEF TypeOK
    <2>6. FreeCells'
      BY <2>2, <2>3, WordFacts DEF IInv, FreeCells
    <2>7. HeadIsEarliest'
      <3>1. CASE done = Cells
        BY <2>2, <2>3, <3>1 DEF IInv, TypeOK, HeadIsEarliest
      <3>2. CASE done # Cells
        <4>1. \A j \in Cells : time[j] <= Empty /\ time[j] \in Nat /\ Empty \in Nat
          BY WordFacts DEF IInv, TypeOK
        <4>2. \A j \in Cells : time'[head'] <= time'[j]
          BY <2>3, <2>4, <3>2, <4>1
        <4>3. head' # NoCell
          BY <2>4, <3>2, WordFacts
        <4> QED BY <4>2, <4>3 DEF HeadIsEarliest
      <3> QED BY <3>1, <3>2
    <2>8. ASSUME NEW c \in Clients
          PROVE  CellsOf(c)' = CellsOf(c) \ done
      BY <2>2, <2>3, WordFacts DEF CellsOf
    <2>9. ASSUME NEW c \in Clients
          PROVE  /\ \A i, j \in CellsOf(c)' : i = j
                 /\ \A k, l \in LettersOf(c)' : k = l
                 /\ CellsOf(c)' = {} \/ LettersOf(c)' = {}
                 /\ client'[c] = "running" => CellsOf(c)' = {} /\ LettersOf(c)' = {}
      <3>1. /\ \A i, j \in CellsOf(c) : i = j
            /\ CellsOf(c) = {} \/ LettersOf(c) = {}
            /\ client[c] = "running" => CellsOf(c) = {} /\ LettersOf(c) = {}
        BY DEF IInv, OneRequestEach
      <3>2. CASE \E i \in done : tid[i] = c
        <4>1. PICK i \in done : i \in CellsOf(c)
          BY <2>2, <3>2 DEF CellsOf
        <4> QED BY <1>3, <2>8, <3>1, <4>1
      <3>3. CASE ~\E i \in done : tid[i] = c
        <4>1. client'[c] = client[c]
          BY <2>3, <3>3
        <4> QED BY <1>3, <2>8, <3>1, <4>1
      <3> QED BY <3>2, <3>3
    <2>10. OneRequestEach'
      BY <1>1, <1>3, <2>9 DEF OneRequestEach
    <2> QED BY <1>4, <2>5, <2>6, <2>7, <2>10 DEF IInv
  <1> QED BY <1>5, <1>6

LEMMA NextInv == ASSUME IInv, [Next]_vars PROVE IInv'
  <1>1. ASSUME UNCHANGED vars PROVE IInv'
    <2>1. TypeOK' /\ HeadIsEarliest' /\ FreeCells' /\ TicksBounded'
      BY <1>1 DEF IInv, TypeOK, HeadIsEarliest, FreeCells, TicksBounded, vars
    <2>2. OneRequestEach'
      BY <1>1 DEF IInv, OneRequestEach, CellsOf, LettersOf, vars
    <2> QED BY <2>1, <2>2 DEF IInv
  <1> QED BY <1>1, TimerIrqKeeps, NotifierSendsKeeps, ClientSendsKeeps, UpdateTimeKeeps,
             TimeRequestKeeps, DelayKeeps, DelayUntilKeeps DEF Next, Server

LEMMA Invariance == Spec => []IInv
  BY InitInv, NextInv, PTL DEF Spec

\* The wait queue and its head stay consistent, and no request of a client is
\* lost or answered twice, for any clients, cells, words and delays.
THEOREM ClockSafe == Spec => [](TypeOK /\ HeadIsEarliest /\ FreeCells /\ OneRequestEach)
  <1>1. IInv => TypeOK /\ HeadIsEarliest /\ FreeCells /\ OneRequestEach
    BY DEF IInv
  <1> QED BY <1>1, Invariance, PTL
-----------------------------------------------------------------------------
(***************************************************************************)
(* The refinement of AlarmClock.                                           *)
(***************************************************************************)
DueTimes == [c \in Sleeping |-> Deadline(c)]

\* A client with one cell sleeps until the time of that cell.
LEMMA DeadlineIs ==
  ASSUME NEW c, NEW i \in CellsOf(c), \A j, k \in CellsOf(c) : j = k
  PROVE  Deadline(c) = time[i]
  BY DEF Deadline

LEMMA DeadlineIsNext ==
  ASSUME NEW c, NEW i \in CellsOf(c)', \A j, k \in CellsOf(c)' : j = k
  PROVE  Deadline(c)' = time'[i]
  BY DEF Deadline

\* A client that keeps its cell, and the cell its time, keeps its deadline.
LEMMA SameDeadline ==
  ASSUME IInv, IInv', NEW c \in Clients, NEW i \in CellsOf(c), i \in CellsOf(c)',
         time'[i] = time[i]
  PROVE  Deadline(c)' = Deadline(c)
  <1>1. \A j, k \in CellsOf(c) : j = k
    BY DEF IInv, OneRequestEach
  <1>2. \A j, k \in CellsOf(c)' : j = k
    BY DEF IInv, OneRequestEach
  <1> QED BY <1>1, <1>2, DeadlineIs, DeadlineIsNext

\* With no free cell, as many clients sleep as there are cells.
LEMMA FullQueue ==
  ASSUME IInv, pool = {}
  PROVE  Cardinality(Sleeping) >= WAIT_QUEUE_SIZE
  <1> DEFINE f == [i \in Cells |-> tid[i]]
  <1>1. \A i \in Cells : tid[i] \in Clients
    BY DEF IInv, TypeOK, FreeCells
  <1>2. \A i \in Cells : tid[i] \in Sleeping
    BY <1>1 DEF Sleeping, CellsOf
  <1>3. \A i, j \in Cells : tid[i] = tid[j] => i = j
    BY <1>1 DEF IInv, OneRequestEach, CellsOf
  <1>4. f \in Injection(Cells, Sleeping)
    BY <1>2, <1>3 DEF Injection, IsInjective
  <1>5. IsFiniteSet(Sleeping)
    BY ClockAssumption, FS_Subset DEF Sleeping
  <1>6. Cardinality(Cells) <= Cardinality(Sleeping)
    BY <1>4, <1>5, FS_Injection
  <1>7. Cardinality(Cells) = WAIT_QUEUE_SIZE
    <2>1. 1 \in Int /\ WAIT_QUEUE_SIZE \in Nat \ {0}
      BY ClockAssumption
    <2>2. Cardinality(1 .. WAIT_QUEUE_SIZE) = IF 1 > WAIT_QUEUE_SIZE THEN 0
                                              ELSE WAIT_QUEUE_SIZE - 1 + 1
      BY <2>1, FS_Interval
    <2> QED BY <2>1, <2>2 DEF Cells
  <1>8. Cardinality(Sleeping) \in Nat /\ WAIT_QUEUE_SIZE \in Nat
    BY <1>5, FS_CardinalityType, ClockAssumption
  <1> QED BY <1>6, <1>7, <1>8

\* With a free cell, fewer clients sleep than there are cells.
LEMMA FreeRoom ==
  ASSUME IInv, NEW i \in pool
  PROVE  Cardinality(Sleeping) < WAIT_QUEUE_SIZE
  <1> DEFINE g == [c \in Sleeping |-> CHOOSE k \in CellsOf(c) : TRUE]
             T == Cells \ {i}
  <1>1. \A c \in Sleeping : g[c] \in CellsOf(c)
    BY DEF Sleeping
  <1>2. \A c \in Sleeping : c \in Clients /\ tid[g[c]] = c /\ g[c] \in Cells
    BY <1>1 DEF Sleeping, CellsOf
  <1>3. i \in Cells /\ tid[i] \notin Clients
    BY WordFacts DEF IInv, TypeOK, FreeCells
  <1>4. \A c \in Sleeping : g[c] \in T
    BY <1>2, <1>3
  <1>5. g \in [Sleeping -> T] /\ \A c, d \in Sleeping : g[c] = g[d] => c = d
    <2>1. \A c \in Sleeping : tid[g[c]] = c
      BY <1>2
    <2> HIDE DEF T
    <2>2. g \in [Sleeping -> T]
      BY <1>4
    <2> HIDE DEF g
    <2> QED BY <2>1, <2>2
  <1> HIDE DEF g
  <1>6. g \in Injection(Sleeping, T)
    BY <1>5 DEF Injection, IsInjective
  <1>7. 1 \in Int /\ WAIT_QUEUE_SIZE \in Nat \ {0}
    BY ClockAssumption
  <1>8. IsFiniteSet(Cells) /\ Cardinality(Cells) = WAIT_QUEUE_SIZE
    <2>1. /\ IsFiniteSet(1 .. WAIT_QUEUE_SIZE)
          /\ Cardinality(1 .. WAIT_QUEUE_SIZE) = IF 1 > WAIT_QUEUE_SIZE THEN 0
                                                 ELSE WAIT_QUEUE_SIZE - 1 + 1
      BY <1>7, FS_Interval
    <2> QED BY <1>7, <2>1 DEF Cells
  <1>9. IsFiniteSet(T) /\ Cardinality(T) = WAIT_QUEUE_SIZE - 1
    BY <1>3, <1>8, FS_RemoveElement
  <1>10. Cardinality(Sleeping) <= Cardinality(T) /\ IsFiniteSet(Sleeping)
    <2> HIDE DEF T
    <2> QED BY <1>6, <1>9, FS_Injection
  <1>11. Cardinality(Sleeping) \in Nat
    BY <1>10, FS_CardinalityType
  <1> QED BY <1>7, <1>9, <1>10, <1>11
-----------------------------------------------------------------------------
\* The steps of AlarmClock, on the values the clock server gives its variables.
NothingSeen == ticks' = ticks /\ DueTimes' = DueTimes /\ Stuck' = Stuck
GoesToSleep(c, t) ==
  /\ c \notin Sleeping \cup Stuck
  /\ Cardinality(Sleeping) < WAIT_QUEUE_SIZE
  /\ DueTimes' = [d \in Sleeping \cup {c} |-> IF d = c THEN t ELSE DueTimes[d]]
  /\ ticks' = ticks /\ Stuck' = Stuck
FindsNoRoom(c) ==
  /\ c \notin Sleeping \cup Stuck
  /\ Cardinality(Sleeping) >= WAIT_QUEUE_SIZE
  /\ Stuck' = Stuck \cup {c}
  /\ ticks' = ticks /\ DueTimes' = DueTimes
Ticks ==
  /\ ticks' = ticks + 1
  /\ DueTimes' = [c \in {d \in Sleeping : DueTimes[d] > ticks + 1} |-> DueTimes[c]]
  /\ Stuck' = Stuck

\* Cells that stay as they are leave the sleepers as they are.
LEMMA SameCells ==
  ASSUME time' = time, tid' = tid
  PROVE  Sleeping' = Sleeping /\ DueTimes' = DueTimes /\ \A c : CellsOf(c)' = CellsOf(c)
  BY DEF DueTimes, Sleeping, Deadline, CellsOf

LEMMA NotifierSendsUnseen == ASSUME IInv, NotifierSends PROVE NothingSeen
  <1> DEFINE m == [sender |-> Notifier, opcode |-> "UPDATE_TIME", data |-> 0]
  <1>1. m \in Requests /\ m.sender = Notifier /\ mailbox' = Append(mailbox, m)
    BY DEF Requests, NotifierSends
  <1> HIDE DEF m
  <1>2. mailbox \in Seq(Requests)
    BY DEF IInv, TypeOK
  <1>4. \A c \in Clients : LettersOf(c)' = LettersOf(c)
    BY <1>1, <1>2, LettersAfterSend, WordFacts
  <1>3. ticks' = ticks /\ time' = time /\ tid' = tid /\ client' = client
    BY DEF NotifierSends, queueVars
  <1> QED BY <1>3, <1>4, SameCells DEF NothingSeen, Stuck

LEMMA ClientSendsUnseen == ASSUME IInv, NEW c \in Clients, ClientSends(c) PROVE NothingSeen
  <1>1. PICK m \in Requests : m.sender = c /\ mailbox' = Append(mailbox, m)
    BY DEF ClientSends
  <1>2. ticks' = ticks /\ time' = time /\ tid' = tid
    BY DEF ClientSends, queueVars
  <1>3. \A d \in Clients : LettersOf(d)' = LettersOf(d) \cup
                              (IF d = c THEN {Len(mailbox) + 1} ELSE {})
    BY <1>1, LettersAfterSend DEF IInv, TypeOK
  <1>4. client[c] # "blocked" /\ \A d \in Clients \ {c} : client'[d] = client[d]
    BY DEF IInv, TypeOK, ClientSends
  <1>5. ASSUME NEW d \in Clients PROVE d \in Stuck' <=> d \in Stuck
    <2>1. CASE d = c
      BY <1>3, <1>4, <2>1 DEF Stuck
    <2>2. CASE d # c
      BY <1>2, <1>3, <1>4, <2>2, SameCells DEF Stuck
    <2> QED BY <2>1, <2>2
  <1>6. Stuck' = Stuck
    BY <1>5 DEF Stuck
  <1> QED BY <1>2, <1>6, SameCells DEF NothingSeen

LEMMA TimeRequestUnseen == ASSUME IInv, TimeRequest PROVE NothingSeen
  <1>0. PICK s : s = Head(mailbox).sender
    OBVIOUS
  <1>1. Received("TIME_REQUEST") /\ ticks' = ticks /\ time' = time /\ tid' = tid
    BY DEF TimeRequest, queueVars
  <1>2. /\ s \in Clients /\ LettersOf(s) # {}
        /\ \A c \in Clients : c # s => (LettersOf(c)' = {} <=> LettersOf(c) = {})
    BY <1>0, <1>1, Letters, LettersAfterReceive DEF IInv
  <1>3. client'[s] = "running" /\ \A c \in Clients \ {s} : client'[c] = client[c]
    BY <1>0, <1>2 DEF IInv, TypeOK, TimeRequest
  <1>4. ASSUME NEW c \in Clients PROVE c \in Stuck' <=> c \in Stuck
    <2>1. CASE c = s
      BY <1>2, <1>3, <2>1 DEF Stuck
    <2>2. CASE c # s
      BY <1>1, <1>2, <1>3, <2>2, SameCells DEF Stuck
    <2> QED BY <2>1, <2>2
  <1>5. Stuck' = Stuck
    BY <1>4 DEF Stuck
  <1> QED BY <1>1, <1>5, SameCells DEF NothingSeen

\* A client that asks to be woken goes to sleep or finds no room.
LEMMA PushRefines ==
  ASSUME IInv, IInv', NEW opcode, Received(opcode), NEW t \in Times,
         Head(mailbox).sender \in Clients,
         WaitQueuePush(Head(mailbox).sender, t), UNCHANGED <<ticks, client, notifier>>
  PROVE  \E c \in Clients : GoesToSleep(c, t) \/ FindsNoRoom(c)
  <1>0. PICK s : s = Head(mailbox).sender
    OBVIOUS
  <1>1. /\ s \in Clients /\ LettersOf(s) # {} /\ LettersOf(s)' = {}
        /\ CellsOf(s) = {} /\ client[s] = "blocked"
        /\ \A c \in Clients : c # s => (LettersOf(c)' = {} <=> LettersOf(c) = {})
    BY <1>0, Letters, LettersAfterReceive DEF IInv
  <1>2. s \notin Sleeping \cup Stuck
    BY <1>1 DEF Sleeping, Stuck
  <1>3. WaitQueuePush(s, t)
    BY <1>0
  <1>4. CASE pool = {}
    <2>1. time' = time /\ tid' = tid
      BY <1>3, <1>4 DEF WaitQueuePush, queueVars
    <2>2. ASSUME NEW c \in Clients PROVE c \in Stuck' <=> c \in Stuck \cup {s}
      <3>1. CASE c = s
        BY <1>1, <2>1, <3>1, SameCells DEF Stuck
      <3>2. CASE c # s
        BY <1>1, <2>1, <3>2, SameCells DEF Stuck
      <3> QED BY <3>1, <3>2
    <2>3. Stuck' = Stuck \cup {s}
      BY <1>1, <2>2 DEF Stuck
    <2>4. FindsNoRoom(s)
      BY <1>2, <1>4, <2>1, <2>3, SameCells, FullQueue DEF FindsNoRoom
    <2> QED BY <1>1, <2>4
  <1>5. CASE pool # {}
    <2>1. PICK i \in pool : Fill(i, s, t)
      BY <1>3, <1>5 DEF WaitQueuePush
    <2>2. /\ i \in Cells /\ tid[i] = NoClient /\ tid'[i] = s /\ time'[i] = t
          /\ \A j \in Cells \ {i} : tid'[j] = tid[j] /\ time'[j] = time[j]
      BY <1>1, <2>1 DEF IInv, TypeOK, FreeCells, Fill
    <2>3. /\ \A c \in Clients : c # s => CellsOf(c)' = CellsOf(c)
          /\ CellsOf(s)' = {i}
      BY <1>1, <2>2, WordFacts DEF CellsOf
    <2>4. Sleeping' = Sleeping \cup {s}
      BY <1>1, <2>3 DEF Sleeping
    <2>5. Deadline(s)' = t
      BY <2>2, <2>3, DeadlineIsNext
    <2>6. ASSUME NEW c \in Sleeping PROVE Deadline(c)' = Deadline(c)
      <3>1. PICK j \in CellsOf(c) : c \in Clients /\ c # s
        BY <1>2 DEF Sleeping
      <3>2. j \in CellsOf(c)' /\ time'[j] = time[j]
        BY <2>2, <2>3, <3>1, WordFacts DEF CellsOf
      <3> QED BY <3>1, <3>2, SameDeadline
    <2>7. DueTimes' = [d \in Sleeping \cup {s} |-> IF d = s THEN t ELSE DueTimes[d]]
      <3>1. DueTimes' = [d \in Sleeping \cup {s} |-> Deadline(d)']
        BY <2>4 DEF DueTimes
      <3>2. \A d \in Sleeping : DueTimes[d] = Deadline(d)
        BY DEF DueTimes
      <3> QED BY <1>2, <2>5, <2>6, <3>1, <3>2
    <2>8. ASSUME NEW c \in Clients PROVE c \in Stuck' <=> c \in Stuck
      <3>1. CASE c = s
        BY <1>2, <2>3, <3>1 DEF Stuck
      <3>2. CASE c # s
        BY <1>1, <2>3, <3>2 DEF Stuck
      <3> QED BY <3>1, <3>2
    <2>9. Stuck' = Stuck
      BY <2>8 DEF Stuck
    <2>10. GoesToSleep(s, t)
      BY <1>2, <2>7, <2>9, FreeRoom DEF GoesToSleep
    <2> QED BY <1>1, <2>10
  <1> QED BY <1>4, <1>5

\* A tick wakes those it reaches: a head that is not due shows that nobody is.
LEMMA UpdateTimeRefines == ASSUME IInv, IInv', UpdateTime PROVE Ticks
  <1> DEFINE done == Expired(ticks + 1)
  <1>1. Received("UPDATE_TIME") /\ ticks' = ticks + 1 /\ ReplyExpired(ticks + 1)
    BY DEF UpdateTime
  <1>2. Head(mailbox).sender = Notifier
    BY <1>1, Letters
  <1>3. \A c \in Clients : LettersOf(c)' = {} <=> LettersOf(c) = {}
    BY <1>1, <1>2, Letters, WordFacts
  <1>4. ticks + 1 \in Int /\ \A i \in Cells : time[i] \in Int
    <2>1. time \in [Cells -> Times] /\ ticks \in 0 .. MaxTicks
      BY DEF IInv, TypeOK
    <2>2. ticks + 1 \in Int
      BY <2>1, ClockAssumption
    <2>3. \A t \in Times : t \in Int
      BY WordFacts
    <2> QED BY <2>1, <2>2, <2>3
  <1>5. ASSUME NEW c \in Sleeping
        PROVE  c \in Clients /\ \E i \in Cells : i \in CellsOf(c) /\ DueTimes[c] = time[i]
    <2>1. PICK i \in CellsOf(c) : c \in Clients
      BY DEF Sleeping
    <2>2. \A j, k \in CellsOf(c) : j = k
      BY <2>1 DEF IInv, OneRequestEach
    <2>3. DueTimes[c] = time[i]
      BY <2>1, <2>2, DeadlineIs DEF DueTimes
    <2> QED BY <2>1, <2>3 DEF CellsOf
  <1>6. CASE ~Due(ticks + 1)
    <2>1. time' = time /\ tid' = tid /\ client' = client
      BY <1>1, <1>6 DEF ReplyExpired, queueVars
    <2>2. ASSUME NEW c \in Sleeping PROVE DueTimes[c] > ticks + 1
      <3>1. PICK i \in Cells : i \in CellsOf(c) /\ c \in Clients /\ DueTimes[c] = time[i]
        BY <1>5
      <3>2. i \notin pool
        BY <3>1, WordFacts DEF IInv, FreeCells, CellsOf
      <3>3. head # NoCell /\ head \in Cells /\ time[head] <= time[i]
        BY <3>2 DEF IInv, TypeOK, HeadIsEarliest
      <3>4. ~(ticks + 1 >= time[head])
        BY <1>6, <3>3 DEF Due
      <3> QED BY <1>4, <3>1, <3>3, <3>4
    <2>3. DueTimes = [c \in {d \in Sleeping : DueTimes[d] > ticks + 1} |-> DueTimes[c]]
      <3>1. {d \in Sleeping : DueTimes[d] > ticks + 1} = Sleeping
        BY <2>2
      <3>2. DueTimes = [c \in Sleeping |-> DueTimes[c]]
        BY DEF DueTimes
      <3> QED BY <3>1, <3>2
    <2>4. Stuck' = Stuck
      BY <1>3, <2>1, SameCells DEF Stuck
    <2> QED BY <1>1, <2>1, <2>3, <2>4, SameCells DEF Ticks
  <1>7. CASE Due(ticks + 1)
    <2>1. done \in SUBSET Cells /\ \A i \in Cells : i \in done <=> time[i] <= ticks + 1
      BY DEF Expired
    <2>2. AnswerAndEmpty(done)
      BY <1>1, <1>7 DEF ReplyExpired
    <2> HIDE DEF done
    <2>3. /\ client' = [c \in Clients |-> IF \E i \in done : tid[i] = c THEN "running"
                                          ELSE client[c]]
          /\ tid' = [i \in Cells |-> IF i \in done THEN NoClient ELSE tid[i]]
          /\ time' = [i \in Cells |-> IF i \in done THEN Empty ELSE time[i]]
      BY <2>2 DEF AnswerAndEmpty
    <2>4. \A c \in Clients : CellsOf(c)' = CellsOf(c) \ done
      BY <2>1, <2>3, WordFacts DEF CellsOf
    <2>5. ASSUME NEW c \in Sleeping
          PROVE  /\ c \in Sleeping' <=> DueTimes[c] > ticks + 1
                 /\ c \in Sleeping' => Deadline(c)' = DueTimes[c]
      <3>1. PICK i \in Cells : i \in CellsOf(c) /\ c \in Clients /\ DueTimes[c] = time[i]
        BY <1>5
      <3>2. \A j \in CellsOf(c) : j = i
        BY <3>1 DEF IInv, OneRequestEach
      <3>3. c \in Sleeping' <=> i \notin done
        BY <2>4, <3>1, <3>2 DEF Sleeping
      <3>4. i \notin done <=> DueTimes[c] > ticks + 1
        BY <1>4, <2>1, <3>1
      <3>5. ASSUME i \notin done PROVE Deadline(c)' = DueTimes[c]
        <4>1. CellsOf(c)' = {i} /\ time'[i] = time[i]
          BY <2>3, <2>4, <3>1, <3>2, <3>5
        <4> QED BY <3>1, <4>1, DeadlineIsNext
      <3> QED BY <3>3, <3>4, <3>5
    <2>6. Sleeping' \subseteq Sleeping
      BY <2>4 DEF Sleeping
    <2>7. DueTimes' = [c \in {d \in Sleeping : DueTimes[d] > ticks + 1} |-> DueTimes[c]]
      <3>1. Sleeping' = {d \in Sleeping : DueTimes[d] > ticks + 1}
        BY <2>5, <2>6
      <3>2. DueTimes' = [c \in Sleeping' |-> Deadline(c)']
        BY DEF DueTimes
      <3>3. \A c \in Sleeping' : Deadline(c)' = DueTimes[c]
        BY <2>5, <2>6
      <3> QED BY <3>1, <3>2, <3>3
    <2>8. ASSUME NEW c \in Clients PROVE c \in Stuck' <=> c \in Stuck
      <3>1. CASE \E i \in done : tid[i] = c
        <4>1. client'[c] = "running" /\ CellsOf(c) # {}
          BY <2>1, <2>3, <3>1 DEF CellsOf
        <4> QED BY <4>1 DEF Stuck
      <3>2. CASE ~\E i \in done : tid[i] = c
        <4>1. client'[c] = client[c] /\ CellsOf(c)' = CellsOf(c)
          BY <2>3, <2>4, <3>2 DEF CellsOf
        <4> QED BY <1>3, <4>1 DEF Stuck
      <3> QED BY <3>1, <3>2
    <2>9. Stuck' = Stuck
      BY <2>8 DEF Stuck
    <2> QED BY <1>1, <2>7, <2>9 DEF Ticks
  <1> QED BY <1>6, <1>7

\* AlarmClock counts its sleepers as ClockServer does.
LEMMA SameCount ==
  ASSUME NEW S
  PROVE  Abstract!Cardinality(S) = Cardinality(S)
  BY DEF Abstract!Cardinality, Cardinality

LEMMA NextRefines ==
  ASSUME IInv, IInv', Next
  PROVE  \/ NothingSeen \/ Ticks
         \/ \E c \in Clients, t \in Times : GoesToSleep(c, t)
         \/ \E c \in Clients : FindsNoRoom(c)
  <1>1. CASE TimerIrq
    <2>1. NothingSeen
      BY <1>1 DEF TimerIrq, queueVars, NothingSeen, DueTimes, Sleeping, Deadline, Stuck,
                  CellsOf, LettersOf
    <2> QED BY <2>1
  <1>2. CASE Delay
    <2>1. Received("DELAY_REQUEST") /\ UNCHANGED <<ticks, client, notifier>>
      BY <1>2 DEF Delay
    <2>2. Head(mailbox).sender \in Clients /\ Head(mailbox).data \in Times
      BY <2>1, Letters
    <2>3. PICK t : t = (Head(mailbox).data + ticks) % WORD
      OBVIOUS
    <2>4. t \in Times
      <3>1. Head(mailbox).data + ticks \in Nat /\ WORD \in Nat \ {0}
        BY <2>2, ClockAssumption DEF IInv, TypeOK, Times
      <3>2. \A n \in Nat : n % WORD \in 0 .. WORD - 1
        BY <3>1
      <3> QED BY <2>3, <3>1, <3>2 DEF Times
    <2>5. WaitQueuePush(Head(mailbox).sender, t)
      BY <1>2, <2>3 DEF Delay
    <2> QED BY <2>1, <2>2, <2>4, <2>5, PushRefines
  <1>3. CASE DelayUntil
    <2>1. Received("DELAYUNTIL_REQUEST") /\ UNCHANGED <<ticks, client, notifier>>
      BY <1>3 DEF DelayUntil
    <2>2. Head(mailbox).sender \in Clients /\ Head(mailbox).data \in Times
      BY <2>1, Letters
    <2>3. WaitQueuePush(Head(mailbox).sender, Head(mailbox).data)
      BY <1>3 DEF DelayUntil
    <2> QED BY <2>1, <2>2, <2>3, PushRefines
  <1> QED BY <1>1, <1>2, <1>3, NotifierSendsUnseen, ClientSendsUnseen, TimeRequestUnseen,
             UpdateTimeRefines DEF Next, Server

\* The server keeps the promise of AlarmClock for any clients, cells, words and
\* delays: every tick wakes exactly the sleepers whose time it reaches.
THEOREM AlarmClockImplemented == Spec => ImplementsAlarmClock
  <1>1. Init => Abstract!Init
    <2> SUFFICES ASSUME Init PROVE Abstract!Init
      OBVIOUS
    <2>1. \A c \in Clients : CellsOf(c) = {}
      BY WordFacts DEF Init, CellsOf
    <2>2. Sleeping = {} /\ Stuck = {} /\ ticks = 0
      BY <2>1 DEF Init, Sleeping, Stuck
    <2> QED BY <2>2 DEF Abstract!Init
  <1>2. IInv /\ IInv' /\ [Next]_vars => [Abstract!Next]_(Abstract!vars)
    <2> SUFFICES ASSUME IInv, IInv', [Next]_vars PROVE [Abstract!Next]_(Abstract!vars)
      OBVIOUS
    <2>1. CASE UNCHANGED vars
      BY <2>1 DEF vars, Abstract!vars, Sleeping, Deadline, Stuck, CellsOf, LettersOf
    <2>2. CASE NothingSeen
      BY <2>2 DEF NothingSeen, DueTimes, Abstract!vars
    <2>3. CASE Ticks
      BY <2>3 DEF Ticks, DueTimes, Abstract!Next, Abstract!Tick, Abstract!Sleepers
    <2>4. ASSUME NEW c \in Clients, NEW t \in Times, GoesToSleep(c, t)
          PROVE  Abstract!Next
      <3>1. Abstract!Sleepers = Sleeping
        BY DEF Abstract!Sleepers
      <3>2. Abstract!Sleep(c, t)
        BY <2>4, <3>1, SameCount DEF GoesToSleep, DueTimes, Abstract!Sleep
      <3> QED BY <3>2 DEF Abstract!Next
    <2>5. ASSUME NEW c \in Clients, FindsNoRoom(c)
          PROVE  Abstract!Next
      <3>1. Abstract!Sleepers = Sleeping
        BY DEF Abstract!Sleepers
      <3>2. Abstract!NoRoom(c)
        BY <2>5, <3>1, SameCount DEF FindsNoRoom, DueTimes, Abstract!NoRoom
      <3> QED BY <3>2 DEF Abstract!Next
    <2> QED BY <2>1, <2>2, <2>3, <2>4, <2>5, NextRefines
  <1> QED BY <1>1, <1>2, Invariance, PTL DEF Spec, ImplementsAlarmClock, Abstract!Spec
=============================================================================
