---------------------------- MODULE LocationProofs ----------------------------
(***************************************************************************)
(* Proofs about module LocationServer: secretary, courier and server are a *)
(* board, the model follows the devices, no client is forgotten unless     *)
(* its request was dropped or its sensor taken, and the counts of waiting  *)
(* clients are right, for any clients, devices, sensors and buffer.        *)
(*                                                                         *)
(* The argument is about the queue of what the server has yet to see: the  *)
(* load of the courier and then the buffer.  The secretary appends to it   *)
(* or hands it on as it is, and the server takes its head.  So what the    *)
(* server will know after the first n requests of it changes only when a   *)
(* report that the server accepts is appended.                             *)
(*                                                                         *)
(* At the end, module TrainTracking: a sensor is taken for a sign of one   *)
(* train only, and of the right one.                                       *)
(***************************************************************************)
EXTENDS LocationServer, SequenceTheorems, FiniteSetTheorems, WellFoundedInduction, TLAPS

\* The requests that clients can make, as Ask makes them.
AllRequests ==
  {r \in UNION {Requests(c) : c \in Clients} : r.op = "hit" => \A s \in r.bits : Module[s] = r.module}

Typed ==
  /\ client \in [Clients -> {"running", "sending", "commanding", "asking", "waiting"}]
  /\ request \in [Clients -> AllRequests \cup {NoRequest}]
  /\ \A c \in Clients :
       /\ client[c] \in {"sending", "commanding"} => request[c] # NoRequest /\ request[c].from = c
       /\ client[c] = "commanding" => request[c].op = "set"
  /\ buffer \in Seq(AllRequests) /\ load \in Seq(AllRequests)
  /\ model \in [Devices -> Values] /\ hardware \in [Devices -> Values]
  /\ sensor_tid \in [Sensors -> Clients \cup {Nobody}]
  /\ wait_num \in [Modules -> Int]
  /\ answer \in [Clients -> Values \cup {Nothing}]
  /\ muddled \subseteq Devices

\* The courier has one request or none, and waits for one only when it has none.
Carried ==
  /\ courier \in {"asking", "blocked", "carrying"} /\ courier_ready \in BOOLEAN
  /\ IF courier = "carrying" THEN Len(load) = 1 ELSE load = <<>>
  /\ courier_ready => courier = "blocked"

\* The sensors that c waits for.
Held(c) == {s \in Sensors : sensor_tid[s] = c}

\* The server will note r of device d.
Notes(r, d) == r.op = "set" /\ r.device = d /\ Accepts(r)

\* Then, Sent and the answer due, of any queue and any model.
SetsOf(q, d, n) == {k \in 1 .. n : Notes(q[k], d)}

ThenOf(q, mod, d, n) ==
  IF SetsOf(q, d, n) = {} THEN mod[d]
  ELSE q[CHOOSE k \in SetsOf(q, d, n) : \A l \in SetsOf(q, d, n) : l <= k].value

\* The model when the server has seen r.
Noted(mod, r) ==
  IF r.op = "set" /\ Accepts(r) THEN [mod EXCEPT ![r.device] = r.value] ELSE mod

SentOf(q, c) == {k \in DOMAIN q : q[k].from = c /\ q[k].op \in {"get", "wait"}}

DueOf(q, mod, c) ==
  IF \E k \in SentOf(q, c) : q[k].op = "get"
  THEN ThenOf(q, mod, q[CHOOSE k \in SentOf(q, c) : q[k].op = "get"].device,
              CHOOSE k \in SentOf(q, c) : q[k].op = "get")
  ELSE Nothing

\* A client that is blocked has one request on its way or one sensor that it
\* waits for, and one that is not blocked, or forgotten, has neither.
OnePlace ==
  \A c \in Clients :
    IF client[c] \in {"asking", "waiting"} /\ c \notin forgotten
      THEN \/ (\E k \in DOMAIN Queue : SentOf(Queue, c) = {k}) /\ Held(c) = {}
           \/ SentOf(Queue, c) = {} /\ \E s \in Sensors : Held(c) = {s}
      ELSE SentOf(Queue, c) = {} /\ Held(c) = {}

\* A client that was forgotten stays blocked.
Stuck == \A c \in forgotten \cap Clients : client[c] \in {"asking", "waiting"}

\* A part of the queue that has a report on d has a last one.
HasLast(q) ==
  \A d \in Devices, n \in 0 .. Len(q) :
    SetsOf(q, d, n) # {} => \E k \in SetsOf(q, d, n) : \A l \in SetsOf(q, d, n) : l <= k

\* A device that is not muddled is commanded by one task at most.
OneCommander == \A d \in Devices \ muddled : \A b, c \in Commanding(d) : b = c

\* ModelFollowsDevice, for each task that commands the device.
Follows ==
  \A d \in Devices \ muddled :
    /\ \A c \in Commanding(d) : ThenOf(Queue, model, d, Len(Queue)) = request[c].value
    /\ Commanding(d) = {} => ThenOf(Queue, model, d, Len(Queue)) = hardware[d]

IInv ==
  /\ Typed /\ Carried /\ OnePlace /\ Stuck /\ HasLast(Queue) /\ OneCommander
  /\ Follows /\ WaitNumHonest
-----------------------------------------------------------------------------
(***************************************************************************)
(* Queues of requests.                                                     *)
(***************************************************************************)
LEMMA AppendFacts ==
  ASSUME NEW S, NEW q \in Seq(S), NEW r \in S
  PROVE  /\ Append(q, r) \in Seq(S) /\ Len(q) \in Nat /\ Len(Append(q, r)) = Len(q) + 1
         /\ DOMAIN q = 1 .. Len(q) /\ DOMAIN Append(q, r) = 1 .. Len(q) + 1
         /\ \A i \in 1 .. Len(q) : Append(q, r)[i] = q[i]
         /\ Append(q, r)[Len(q) + 1] = r
  BY AppendProperties, LenProperties

LEMMA TailFacts ==
  ASSUME NEW S, NEW q \in Seq(S), q # <<>>
  PROVE  /\ Tail(q) \in Seq(S) /\ Len(q) \in Nat \ {0} /\ Len(Tail(q)) = Len(q) - 1
         /\ DOMAIN q = 1 .. Len(q) /\ DOMAIN Tail(q) = 1 .. Len(q) - 1
         /\ \A i \in 1 .. Len(q) - 1 : Tail(q)[i] = q[i + 1]
         /\ Head(q) = q[1] /\ q[1] \in S
  <1>1. Len(q) \in Nat \ {0} /\ Tail(q) \in Seq(S) /\ Len(Tail(q)) = Len(q) - 1
        /\ \A i \in 1 .. Len(Tail(q)) : Tail(q)[i] = q[i + 1]
    BY HeadTailProperties, EmptySeq
  <1>2. Head(q) = q[1] /\ q[1] \in S
    BY <1>1, ElementOfSeq
  <1> QED BY <1>1, <1>2, LenProperties

\* The last report on d decides.
LEMMA ThenLast ==
  ASSUME NEW q, NEW mod, NEW d, NEW n, NEW k \in SetsOf(q, d, n),
         n \in Int, \A l \in SetsOf(q, d, n) : l <= k
  PROVE  ThenOf(q, mod, d, n) = q[k].value
  <1>1. PICK j : j = CHOOSE i \in SetsOf(q, d, n) : \A l \in SetsOf(q, d, n) : l <= i
    OBVIOUS
  <1>2. j \in SetsOf(q, d, n) /\ \A l \in SetsOf(q, d, n) : l <= j
    BY <1>1
  <1>3. j <= k /\ k <= j /\ j \in Int /\ k \in Int
    BY <1>2 DEF SetsOf
  <1>4. j = k
    BY <1>3
  <1> QED BY <1>1, <1>4 DEF ThenOf

\* Two queues that have the same requests in the first places agree there.
LEMMA ThenSame ==
  ASSUME NEW q, NEW p, NEW mod, NEW d \in Devices, HasLast(q), Len(q) \in Nat,
         NEW n \in 0 .. Len(q), \A i \in 1 .. n : p[i] = q[i]
  PROVE  SetsOf(p, d, n) = SetsOf(q, d, n) /\ ThenOf(p, mod, d, n) = ThenOf(q, mod, d, n)
  <1>1. SetsOf(p, d, n) = SetsOf(q, d, n)
    BY DEF SetsOf
  <1>2. CASE SetsOf(q, d, n) = {}
    BY <1>1, <1>2 DEF ThenOf
  <1>3. CASE SetsOf(q, d, n) # {}
    <2>1. PICK k \in SetsOf(q, d, n) : \A l \in SetsOf(q, d, n) : l <= k
      BY <1>3 DEF HasLast
    <2>2. p[k] = q[k]
      BY DEF SetsOf
    <2>3. ThenOf(q, mod, d, n) = q[k].value /\ ThenOf(p, mod, d, n) = p[k].value
      BY <1>1, <2>1, ThenLast
    <2> QED BY <1>1, <2>2, <2>3
  <1> QED BY <1>1, <1>2, <1>3

\* A request joins the queue.
LEMMA ThenAppend ==
  ASSUME NEW S, NEW q \in Seq(S), NEW r \in S, HasLast(q), NEW mod
  PROVE  /\ HasLast(Append(q, r))
         /\ \A d \in Devices, n \in 0 .. Len(q) :
              ThenOf(Append(q, r), mod, d, n) = ThenOf(q, mod, d, n)
         /\ \A d \in Devices : ThenOf(Append(q, r), mod, d, Len(q) + 1) =
              IF Notes(r, d) THEN r.value ELSE ThenOf(q, mod, d, Len(q))
  <1>1. PICK p : p = Append(q, r)
    OBVIOUS
  <1>2. /\ Len(q) \in Nat /\ Len(p) = Len(q) + 1
        /\ \A i \in 1 .. Len(q) : p[i] = q[i]
        /\ p[Len(q) + 1] = r
    BY <1>1, AppendFacts
  <1>3. \A d \in Devices, n \in 0 .. Len(q) :
          SetsOf(p, d, n) = SetsOf(q, d, n) /\ ThenOf(p, mod, d, n) = ThenOf(q, mod, d, n)
    BY <1>2, ThenSame
  <1>4. ASSUME NEW d \in Devices, Notes(r, d)
        PROVE  /\ Len(q) + 1 \in SetsOf(p, d, Len(q) + 1)
               /\ \A l \in SetsOf(p, d, Len(q) + 1) : l <= Len(q) + 1
               /\ ThenOf(p, mod, d, Len(q) + 1) = r.value
    <2>1. Len(q) + 1 \in SetsOf(p, d, Len(q) + 1)
      BY <1>2, <1>4 DEF SetsOf
    <2>2. \A l \in SetsOf(p, d, Len(q) + 1) : l <= Len(q) + 1
      BY <1>2 DEF SetsOf
    <2>3. Len(q) + 1 \in Int
      BY <1>2
    <2>4. ThenOf(p, mod, d, Len(q) + 1) = p[Len(q) + 1].value
      BY <2>1, <2>2, <2>3, ThenLast
    <2> QED BY <1>2, <2>1, <2>2, <2>4
  <1>5. ASSUME NEW d \in Devices, ~Notes(r, d)
        PROVE  /\ SetsOf(p, d, Len(q) + 1) = SetsOf(q, d, Len(q))
               /\ ThenOf(p, mod, d, Len(q) + 1) = ThenOf(q, mod, d, Len(q))
    <2>1. SetsOf(p, d, Len(q) + 1) = SetsOf(p, d, Len(q))
      BY <1>2, <1>5 DEF SetsOf
    <2>2. ThenOf(p, mod, d, Len(q) + 1) = ThenOf(p, mod, d, Len(q))
      <3>1. CASE SetsOf(p, d, Len(q)) = {}
        BY <2>1, <3>1 DEF ThenOf
      <3>2. CASE SetsOf(p, d, Len(q)) # {}
        <4>1. Len(q) \in 0 .. Len(q) /\ Len(q) \in Int /\ Len(q) + 1 \in Int
          BY <1>2
        <4>2. PICK k \in SetsOf(p, d, Len(q)) : \A l \in SetsOf(p, d, Len(q)) : l <= k
          BY <1>3, <3>2, <4>1 DEF HasLast
        <4>3. ThenOf(p, mod, d, Len(q)) = p[k].value
          BY <4>1, <4>2, ThenLast
        <4>4. ThenOf(p, mod, d, Len(q) + 1) = p[k].value
          BY <2>1, <4>1, <4>2, ThenLast
        <4> QED BY <4>3, <4>4
      <3> QED BY <3>1, <3>2
    <2> QED BY <1>2, <1>3, <2>1, <2>2
  <1>6. HasLast(p)
    <2> SUFFICES ASSUME NEW d \in Devices, NEW n \in 0 .. Len(p), SetsOf(p, d, n) # {}
                 PROVE  \E k \in SetsOf(p, d, n) : \A l \in SetsOf(p, d, n) : l <= k
      BY DEF HasLast
    <2>1. CASE n \in 0 .. Len(q)
      BY <1>3, <2>1 DEF HasLast
    <2>2. CASE n = Len(q) + 1 /\ Notes(r, d)
      BY <1>4, <2>2
    <2>3. CASE n = Len(q) + 1 /\ ~Notes(r, d)
      <3>1. Len(q) \in 0 .. Len(q)
        BY <1>2
      <3> QED BY <1>5, <2>3, <3>1 DEF HasLast
    <2> QED BY <1>2, <2>1, <2>2, <2>3
  <1> QED BY <1>1, <1>3, <1>4, <1>5, <1>6

\* The server takes the head of the queue, and notes it if it is a report.
LEMMA ThenTail ==
  ASSUME NEW S, NEW q \in Seq(S), q # <<>>, HasLast(q), NEW mod \in [Devices -> Values], NEW mod2,
         mod2 = Noted(mod, Head(q))
  PROVE  /\ HasLast(Tail(q))
         /\ \A d \in Devices, n \in 1 .. Len(q) :
              ThenOf(Tail(q), mod2, d, n - 1) = ThenOf(q, mod, d, n)
  <1>1. PICK p : p = Tail(q)
    OBVIOUS
  <1>2. /\ Len(q) \in Nat \ {0} /\ Len(p) = Len(q) - 1 /\ Head(q) = q[1]
        /\ \A i \in 1 .. Len(q) - 1 : p[i] = q[i + 1]
    BY <1>1, TailFacts
  <1>3. ASSUME NEW d \in Devices, NEW n \in 1 .. Len(q), NEW k \in SetsOf(p, d, n - 1),
               \A l \in SetsOf(q, d, n) : l <= k + 1
        PROVE  \A l \in SetsOf(p, d, n - 1) : l <= k
    <2> SUFFICES ASSUME NEW l \in SetsOf(p, d, n - 1) PROVE l <= k
      OBVIOUS
    <2>1. l + 1 \in SetsOf(q, d, n) /\ l \in Int /\ k \in Int
      BY <1>2 DEF SetsOf
    <2> QED BY <1>3, <2>1
  <1>4. ASSUME NEW d \in Devices, NEW n \in 1 .. Len(q)
        PROVE  \A k \in SetsOf(q, d, n) : k = 1 \/ (k - 1 \in SetsOf(p, d, n - 1) /\ k - 1 \in Int)
    BY <1>2 DEF SetsOf
  <1>5. ASSUME NEW d \in Devices, NEW n \in 1 .. Len(q)
        PROVE  \A k \in SetsOf(p, d, n - 1) : k + 1 \in SetsOf(q, d, n) /\ k \in Int /\ 1 <= k
    BY <1>2 DEF SetsOf
  <1>6. ASSUME NEW d \in Devices, NEW n \in 1 .. Len(q)
        PROVE  /\ ThenOf(p, mod2, d, n - 1) = ThenOf(q, mod, d, n)
               /\ SetsOf(p, d, n - 1) # {} => \E k \in SetsOf(p, d, n - 1) :
                    \A l \in SetsOf(p, d, n - 1) : l <= k
    <2>1. CASE SetsOf(q, d, n) = {}
      <3>1. SetsOf(p, d, n - 1) = {}
        BY <1>5, <2>1
      <3>2. mod2[d] = mod[d]
        <4>1. 1 \notin SetsOf(q, d, n) /\ 1 \in 1 .. n
          BY <2>1
        <4>2. ~Notes(Head(q), d)
          BY <1>2, <4>1 DEF SetsOf
        <4> QED BY <4>2 DEF Noted, Notes
      <3> QED BY <2>1, <3>1, <3>2 DEF ThenOf
    <2>2. CASE SetsOf(q, d, n) # {}
      <3>1. n \in 0 .. Len(q)
        BY <1>2
      <3>2. PICK k \in SetsOf(q, d, n) : \A l \in SetsOf(q, d, n) : l <= k
        BY <2>2, <3>1 DEF HasLast
      <3>3. ThenOf(q, mod, d, n) = q[k].value
        BY <3>2, ThenLast
      <3>4. CASE k = 1
        <4>1. SetsOf(p, d, n - 1) = {}
          <5> SUFFICES ASSUME NEW l \in SetsOf(p, d, n - 1) PROVE FALSE
            OBVIOUS
          <5>1. l + 1 <= 1 /\ l \in Int /\ 1 <= l
            BY <1>5, <3>2, <3>4
          <5> QED BY <5>1
        <4>2. mod2[d] = q[1].value
          BY <1>2, <3>2, <3>4 DEF SetsOf, Noted, Notes
        <4> QED BY <3>3, <3>4, <4>1, <4>2 DEF ThenOf
      <3>5. CASE k # 1
        <4>1. k - 1 \in SetsOf(p, d, n - 1) /\ k - 1 \in Int /\ (k - 1) + 1 = k
          BY <1>4, <3>2, <3>5 DEF SetsOf
        <4>2. \A l \in SetsOf(p, d, n - 1) : l <= k - 1
          BY <1>3, <3>2, <4>1
        <4>3. ThenOf(p, mod2, d, n - 1) = p[k - 1].value
          BY <4>1, <4>2, ThenLast
        <4>4. p[k - 1] = q[k]
          BY <1>2, <4>1 DEF SetsOf
        <4> QED BY <3>3, <4>1, <4>2, <4>3, <4>4
      <3> QED BY <3>4, <3>5
    <2> QED BY <2>1, <2>2
  <1>7. HasLast(p)
    <2> SUFFICES ASSUME NEW d \in Devices, NEW n \in 0 .. Len(p), SetsOf(p, d, n) # {}
                 PROVE  \E k \in SetsOf(p, d, n) : \A l \in SetsOf(p, d, n) : l <= k
      BY DEF HasLast
    <2>1. n + 1 \in 1 .. Len(q) /\ (n + 1) - 1 = n
      BY <1>2
    <2> QED BY <1>6, <2>1
  <1> QED BY <1>1, <1>6, <1>7

\* Where the requests of a client are when one joins the queue or is taken.
LEMMA SentAppend ==
  ASSUME NEW S, NEW q \in Seq(S), NEW r \in S, NEW c
  PROVE  SentOf(Append(q, r), c) =
           IF r.from = c /\ r.op \in {"get", "wait"} THEN SentOf(q, c) \cup {Len(q) + 1}
                                                     ELSE SentOf(q, c)
  <1>1. PICK p : p = Append(q, r)
    OBVIOUS
  <1>2. /\ Len(q) \in Nat /\ DOMAIN q = 1 .. Len(q) /\ DOMAIN p = 1 .. Len(q) + 1
        /\ \A i \in 1 .. Len(q) : p[i] = q[i]
        /\ p[Len(q) + 1] = r
    BY <1>1, AppendFacts
  <1>3. DOMAIN p = DOMAIN q \cup {Len(q) + 1} /\ Len(q) + 1 \notin DOMAIN q
    BY <1>2
  <1> QED BY <1>1, <1>2, <1>3 DEF SentOf

LEMMA SentTail ==
  ASSUME NEW S, NEW q \in Seq(S), q # <<>>, NEW c
  PROVE  /\ 1 \in SentOf(q, c) <=> Head(q).from = c /\ Head(q).op \in {"get", "wait"}
         /\ \A k \in SentOf(q, c) : k # 1 => k - 1 \in SentOf(Tail(q), c)
         /\ \A k \in SentOf(Tail(q), c) : k + 1 \in SentOf(q, c) /\ k + 1 # 1
         /\ SentOf(q, c) \subseteq Int /\ SentOf(Tail(q), c) \subseteq Int
         /\ \A k \in DOMAIN q : SentOf(q, c) = {k} =>
              SentOf(Tail(q), c) = IF k = 1 THEN {} ELSE {k - 1}
         /\ SentOf(q, c) = {} => SentOf(Tail(q), c) = {}
  <1>1. PICK p : p = Tail(q)
    OBVIOUS
  <1>2. /\ Len(q) \in Nat \ {0} /\ DOMAIN q = 1 .. Len(q) /\ DOMAIN p = 1 .. Len(q) - 1
        /\ \A i \in 1 .. Len(q) - 1 : p[i] = q[i + 1]
        /\ Head(q) = q[1]
    BY <1>1, TailFacts
  <1>3. 1 \in SentOf(q, c) <=> Head(q).from = c /\ Head(q).op \in {"get", "wait"}
    BY <1>2 DEF SentOf
  <1>4. SentOf(q, c) \subseteq Int /\ SentOf(p, c) \subseteq Int
    BY <1>2 DEF SentOf
  <1>5. \A k \in SentOf(q, c) : k # 1 => k - 1 \in SentOf(p, c)
    <2> SUFFICES ASSUME NEW k \in SentOf(q, c), k # 1 PROVE k - 1 \in SentOf(p, c)
      OBVIOUS
    <2>1. k - 1 \in DOMAIN p /\ p[k - 1] = q[k]
      BY <1>2 DEF SentOf
    <2> QED BY <2>1 DEF SentOf
  <1>6. \A k \in SentOf(p, c) : k + 1 \in SentOf(q, c) /\ k + 1 # 1
    BY <1>2 DEF SentOf
  <1>7. ASSUME NEW k \in DOMAIN q, SentOf(q, c) = {k}
        PROVE  SentOf(p, c) = IF k = 1 THEN {} ELSE {k - 1}
    <2>1. \A j \in SentOf(p, c) : j \in Int /\ j + 1 = k /\ j + 1 # 1
      BY <1>4, <1>6, <1>7
    <2>2. \A j \in SentOf(p, c) : j = k - 1 /\ k # 1
      BY <2>1
    <2>3. k # 1 => k - 1 \in SentOf(p, c)
      BY <1>5, <1>7
    <2> QED BY <2>2, <2>3
  <1> QED BY <1>1, <1>3, <1>4, <1>5, <1>6, <1>7

\* No client has two requests in q.
OneSent(q, c) == \A j, k \in SentOf(q, c) : j = k

LEMMA DueIs ==
  ASSUME NEW q, NEW mod, NEW c, NEW k \in SentOf(q, c), OneSent(q, c)
  PROVE  DueOf(q, mod, c) = IF q[k].op = "get" THEN ThenOf(q, mod, q[k].device, k) ELSE Nothing
  <1>1. \A j \in SentOf(q, c) : j = k
    BY DEF OneSent
  <1>2. CASE q[k].op = "get"
    <2>1. (CHOOSE j \in SentOf(q, c) : q[j].op = "get") = k
      BY <1>1, <1>2
    <2> QED BY <1>2, <2>1 DEF DueOf
  <1>3. CASE q[k].op # "get"
    BY <1>1, <1>3 DEF DueOf
  <1> QED BY <1>2, <1>3

LEMMA DueNone ==
  ASSUME NEW q, NEW mod, NEW c, SentOf(q, c) = {}
  PROVE  DueOf(q, mod, c) = Nothing
  BY DEF DueOf

\* What the board owes changes only for the client whose request joins.
LEMMA DueAppend ==
  ASSUME NEW q \in Seq(AllRequests), NEW r \in AllRequests, HasLast(q), NEW mod, NEW c,
         OneSent(q, c),
         \A k \in SentOf(q, c) : q[k].op = "get" => q[k].device \in Devices
  PROVE  /\ ~(r.from = c /\ r.op \in {"get", "wait"}) =>
              DueOf(Append(q, r), mod, c) = DueOf(q, mod, c)
         /\ r.from = c /\ r.op = "wait" /\ SentOf(q, c) = {} =>
              DueOf(Append(q, r), mod, c) = Nothing
         /\ r.from = c /\ r.op = "get" /\ r.device \in Devices /\ SentOf(q, c) = {} =>
              DueOf(Append(q, r), mod, c) = ThenOf(q, mod, r.device, Len(q))
  <1>1. PICK p : p = Append(q, r)
    OBVIOUS
  <1>2. /\ Len(q) \in Nat /\ DOMAIN q = 1 .. Len(q)
        /\ \A i \in 1 .. Len(q) : p[i] = q[i]
        /\ p[Len(q) + 1] = r
    BY <1>1, AppendFacts
  <1>3. /\ \A d \in Devices, n \in 0 .. Len(q) : ThenOf(p, mod, d, n) = ThenOf(q, mod, d, n)
        /\ \A d \in Devices : ThenOf(p, mod, d, Len(q) + 1) =
             IF Notes(r, d) THEN r.value ELSE ThenOf(q, mod, d, Len(q))
    <2>1. \A d \in Devices, n \in 0 .. Len(q) :
            ThenOf(Append(q, r), mod, d, n) = ThenOf(q, mod, d, n)
      BY ThenAppend
    <2>2. \A d \in Devices : ThenOf(Append(q, r), mod, d, Len(q) + 1) =
            IF Notes(r, d) THEN r.value ELSE ThenOf(q, mod, d, Len(q))
      BY ThenAppend
    <2> QED BY <1>1, <2>1, <2>2
  <1>4. SentOf(p, c) = IF r.from = c /\ r.op \in {"get", "wait"} THEN SentOf(q, c) \cup {Len(q) + 1}
                                                                 ELSE SentOf(q, c)
    BY <1>1, SentAppend
  <1>5. ASSUME ~(r.from = c /\ r.op \in {"get", "wait"})
        PROVE  DueOf(p, mod, c) = DueOf(q, mod, c)
    <2>1. SentOf(p, c) = SentOf(q, c) /\ OneSent(p, c)
      BY <1>4, <1>5 DEF OneSent
    <2>2. CASE SentOf(q, c) = {}
      BY <2>1, <2>2, DueNone
    <2>3. CASE SentOf(q, c) # {}
      <3>1. PICK k \in SentOf(q, c) : TRUE
        BY <2>3
      <3>2. p[k] = q[k] /\ k \in 0 .. Len(q)
        BY <1>2 DEF SentOf
      <3>3. DueOf(q, mod, c) = IF q[k].op = "get" THEN ThenOf(q, mod, q[k].device, k) ELSE Nothing
        BY DueIs
      <3>4. DueOf(p, mod, c) = IF p[k].op = "get" THEN ThenOf(p, mod, p[k].device, k) ELSE Nothing
        BY <2>1, DueIs
      <3> QED BY <1>3, <3>2, <3>3, <3>4
    <2> QED BY <2>2, <2>3
  <1>6. ASSUME r.from = c, r.op \in {"get", "wait"}, SentOf(q, c) = {}
        PROVE  DueOf(p, mod, c) = IF r.op = "get" THEN ThenOf(p, mod, r.device, Len(q) + 1)
                                                  ELSE Nothing
    <2>1. SentOf(p, c) = {Len(q) + 1}
      BY <1>4, <1>6
    <2>2. OneSent(p, c) /\ Len(q) + 1 \in SentOf(p, c)
      BY <2>1 DEF OneSent
    <2>3. DueOf(p, mod, c) = IF p[Len(q) + 1].op = "get"
                               THEN ThenOf(p, mod, p[Len(q) + 1].device, Len(q) + 1) ELSE Nothing
      BY <2>2, DueIs
    <2> QED BY <1>2, <2>3
  <1>7. r.op = "get" => \A d : ~Notes(r, d)
    BY DEF Notes
  <1> QED BY <1>1, <1>3, <1>5, <1>6, <1>7

\* Nor when the head is taken, but for the client that asked with it.
LEMMA DueTail ==
  ASSUME NEW q \in Seq(AllRequests), q # <<>>, HasLast(q), NEW mod \in [Devices -> Values], NEW mod2,
         mod2 = Noted(mod, Head(q)),
         NEW c, OneSent(q, c),
         \A k \in SentOf(q, c) : q[k].op = "get" => q[k].device \in Devices
  PROVE  /\ ~(Head(q).from = c /\ Head(q).op = "get") =>
              DueOf(Tail(q), mod2, c) = DueOf(q, mod, c)
         /\ Head(q).from = c /\ Head(q).op = "get" =>
              DueOf(q, mod, c) = mod[Head(q).device] /\ DueOf(Tail(q), mod2, c) = Nothing
  <1>1. PICK p : p = Tail(q)
    OBVIOUS
  <1>2. /\ Len(q) \in Nat \ {0} /\ DOMAIN q = 1 .. Len(q) /\ Head(q) = q[1]
        /\ \A i \in 1 .. Len(q) - 1 : p[i] = q[i + 1]
    BY <1>1, TailFacts
  <1>3. \A d \in Devices, n \in 1 .. Len(q) : ThenOf(p, mod2, d, n - 1) = ThenOf(q, mod, d, n)
    BY <1>1, ThenTail
  <1>4. /\ 1 \in SentOf(q, c) <=> Head(q).from = c /\ Head(q).op \in {"get", "wait"}
        /\ \A k \in DOMAIN q : SentOf(q, c) = {k} =>
             SentOf(p, c) = IF k = 1 THEN {} ELSE {k - 1}
        /\ SentOf(q, c) = {} => SentOf(p, c) = {}
    BY <1>1, SentTail
  <1>5. CASE SentOf(q, c) = {}
    BY <1>1, <1>4, <1>5, DueNone
  <1>6. CASE SentOf(q, c) # {}
    <2>1. PICK k \in SentOf(q, c) : TRUE
      BY <1>6
    <2>2. k \in DOMAIN q /\ k \in 1 .. Len(q) /\ SentOf(q, c) = {k}
      BY <1>2, <2>1 DEF SentOf, OneSent
    <2>3. DueOf(q, mod, c) = IF q[k].op = "get" THEN ThenOf(q, mod, q[k].device, k) ELSE Nothing
      BY DueIs
    <2>4. CASE k = 1
      <3>1. SentOf(p, c) = {}
        BY <1>4, <2>2, <2>4
      <3>2. DueOf(p, mod2, c) = Nothing
        BY <3>1, DueNone
      <3>3. q[1].op = "get" => ThenOf(q, mod, q[1].device, 1) = mod[q[1].device]
        <4> SUFFICES ASSUME q[1].op = "get" PROVE ThenOf(q, mod, q[1].device, 1) = mod[q[1].device]
          OBVIOUS
        <4>1. SetsOf(q, q[1].device, 1) = {}
          BY DEF SetsOf, Notes
        <4> QED BY <4>1 DEF ThenOf
      <3> QED BY <1>1, <1>2, <1>4, <2>2, <2>3, <2>4, <3>2, <3>3
    <2>5. CASE k # 1
      <3>1. SentOf(p, c) = {k - 1}
        BY <1>4, <2>2, <2>5
      <3>2. OneSent(p, c) /\ k - 1 \in SentOf(p, c)
        BY <3>1 DEF OneSent
      <3>3. DueOf(p, mod2, c) = IF p[k - 1].op = "get" THEN ThenOf(p, mod2, p[k - 1].device, k - 1)
                                                       ELSE Nothing
        BY <3>2, DueIs
      <3>4. p[k - 1] = q[k]
        <4>1. k - 1 \in 1 .. Len(q) - 1 /\ (k - 1) + 1 = k
          BY <1>2, <2>2, <2>5
        <4> QED BY <1>2, <4>1
      <3>5. ~(Head(q).from = c /\ Head(q).op = "get")
        BY <1>4, <2>2, <2>5
      <3> QED BY <1>1, <1>3, <2>2, <2>3, <3>3, <3>4, <3>5
    <2> QED BY <2>4, <2>5
  <1> QED BY <1>5, <1>6
-----------------------------------------------------------------------------
(***************************************************************************)
(* How the steps move the queue.                                           *)
(***************************************************************************)
LEMMA RequestFacts ==
  ASSUME NEW r \in AllRequests
  PROVE  /\ r.from \in Clients /\ r.op \in {"set", "get", "wait", "hit"}
         /\ r.op = "set" => r.device \in Devices /\ r.value \in Values
         /\ r.op = "get" => r.device \in Devices
         /\ r.op = "wait" => r.sensor \in Sensors
         /\ r.op = "hit" => r.bits \subseteq Sensors /\ r.module \in Modules
                            /\ \A s \in r.bits : Module[s] = r.module
         /\ r # NoRequest
  <1>1. PICK c \in Clients : r \in Requests(c)
    BY DEF AllRequests
  <1>2. r.op = "hit" => \A s \in r.bits : Module[s] = r.module
    BY DEF AllRequests
  <1>3. Known \subseteq Devices
    BY DEF Known
  <1> QED BY <1>1, <1>2, <1>3 DEF Requests, NoRequest

LEMMA ConsFacts ==
  ASSUME NEW S, NEW x \in S, NEW w \in Seq(S)
  PROVE  /\ <<x>> \o w \in Seq(S) /\ <<x>> \o w # <<>>
         /\ Head(<<x>> \o w) = x /\ Tail(<<x>> \o w) = w
  <1>1. Len(<<x>>) = 1 /\ <<x>>[1] = x /\ Len(w) \in Nat /\ <<x>> \in Seq(S)
    BY LenProperties
  <1>2. PICK q : q = <<x>> \o w
    OBVIOUS
  <1>3. /\ q \in Seq(S) /\ Len(q) = 1 + Len(w)
        /\ \A i \in 1 .. 1 + Len(w) : q[i] = IF i <= 1 THEN <<x>>[i] ELSE w[i - 1]
    BY <1>1, <1>2, ConcatProperties
  <1>4. q # <<>>
    BY <1>1, <1>3, EmptySeq
  <1>5. Head(q) = q[1] /\ Tail(q) \in Seq(S) /\ Len(Tail(q)) = Len(w)
        /\ \A i \in 1 .. Len(w) : Tail(q)[i] = q[i + 1]
    BY <1>1, <1>3, <1>4, HeadTailProperties
  <1>6. \A i \in 1 .. Len(w) : q[i + 1] = w[i]
    BY <1>1, <1>3
  <1>7. Tail(q) = w
    BY <1>5, <1>6, SeqEqual
  <1>8. q[1] = x
    BY <1>1, <1>3
  <1> QED BY <1>2, <1>3, <1>4, <1>5, <1>7, <1>8

LEMMA HeadAndTail ==
  ASSUME NEW S, NEW b \in Seq(S), b # <<>>
  PROVE  <<Head(b)>> \o Tail(b) = b
  <1>1. 1 \in 1 .. Len(b) /\ Len(b) \in 1 .. Len(b) /\ Head(b) = b[1]
    BY TailFacts
  <1>2. SubSeq(b, 1, Len(b)) = <<b[1]>> \o SubSeq(b, 1 + 1, Len(b))
    BY <1>1, SubSeqRecursiveFirst
  <1>3. SubSeq(b, 1, Len(b)) = b /\ Tail(b) = SubSeq(b, 2, Len(b)) /\ 1 + 1 = 2
    BY SubSeqFull, TailIsSubSeq
  <1> QED BY <1>1, <1>2, <1>3

\* Handing the queue on leaves it as it is.
LEMMA ForwardFacts ==
  ASSUME Typed, Carried, NEW b \in Seq(AllRequests), NEW ready \in BOOLEAN,
         ready => courier # "carrying", Forward(b, ready)
  PROVE  /\ buffer' \in Seq(AllRequests) /\ load' \in Seq(AllRequests)
         /\ Queue' = load \o b /\ Carried'
  <1>1. CASE ready /\ b # <<>>
    <2>1. /\ load' = <<Head(b)>> /\ buffer' = Tail(b)
          /\ courier' = "carrying" /\ courier_ready' = FALSE
      BY <1>1 DEF Forward
    <2>2. Head(b) \in AllRequests /\ Tail(b) \in Seq(AllRequests)
      BY <1>1, HeadTailProperties
    <2>3. load' \in Seq(AllRequests) /\ Len(load') = 1
      BY <2>1, <2>2
    <2>4. load = <<>>
      BY <1>1 DEF Carried
    <2>5. <<Head(b)>> \o Tail(b) = b
      BY <1>1, HeadAndTail
    <2>6. <<>> \o b = b
      BY ConcatEmptySeq
    <2> QED BY <2>1, <2>2, <2>3, <2>4, <2>5, <2>6 DEF Queue, Carried
  <1>2. CASE ~(ready /\ b # <<>>)
    <2>1. /\ buffer' = b /\ courier_ready' = ready /\ load' = load
          /\ courier' = IF ready THEN "blocked" ELSE courier
      BY <1>2 DEF Forward
    <2>2. Carried'
      BY <2>1 DEF Carried
    <2> QED BY <2>1, <2>2 DEF Queue, Typed
  <1> QED BY <1>1, <1>2

LEMMA QueueTyped ==
  ASSUME Typed
  PROVE  Queue \in Seq(AllRequests)
  BY ConcatProperties DEF Typed, Queue

\* The secretary receives a request, and keeps it if it has room.
LEMMA ReceiveQueue ==
  ASSUME Typed, Carried, NEW c \in Clients, Receive(c)
  PROVE  /\ request[c] \in AllRequests /\ request[c].from = c
         /\ buffer' \in Seq(AllRequests) /\ load' \in Seq(AllRequests) /\ Carried'
         /\ Queue' = IF Len(buffer) < BUFFER THEN Append(Queue, request[c]) ELSE Queue
  <1>1. request[c] \in AllRequests /\ request[c].from = c
    BY DEF Receive, Typed
  <1>2. PICK b : b = IF Len(buffer) < BUFFER THEN Append(buffer, request[c]) ELSE buffer
    OBVIOUS
  <1>3. b \in Seq(AllRequests)
    BY <1>1, <1>2, AppendProperties DEF Typed
  <1>4. Forward(b, courier_ready) /\ courier_ready \in BOOLEAN
        /\ (courier_ready => courier # "carrying")
    BY <1>2 DEF Receive, Carried
  <1>5. /\ buffer' \in Seq(AllRequests) /\ load' \in Seq(AllRequests)
        /\ Queue' = load \o b /\ Carried'
    BY <1>3, <1>4, ForwardFacts
  <1>6. load \o Append(buffer, request[c]) = Append(Queue, request[c])
    <2>1. PICK r \in AllRequests : r = request[c]
      BY <1>1
    <2>2. load \in Seq(AllRequests) /\ buffer \in Seq(AllRequests) /\ <<r>> \in Seq(AllRequests)
      BY DEF Typed
    <2>3. Append(buffer, r) = buffer \o <<r>>
      BY <2>2, AppendIsConcat
    <2>4. load \o (buffer \o <<r>>) = (load \o buffer) \o <<r>>
      BY <2>2, ConcatAssociative
    <2>5. Append(load \o buffer, r) = (load \o buffer) \o <<r>>
      BY <2>2, ConcatProperties, AppendIsConcat
    <2> QED BY <2>1, <2>3, <2>4, <2>5 DEF Queue
  <1> QED BY <1>1, <1>2, <1>5, <1>6 DEF Queue

LEMMA ReceiveCourierQueue ==
  ASSUME Typed, Carried, ReceiveCourier
  PROVE  /\ buffer' \in Seq(AllRequests) /\ load' \in Seq(AllRequests) /\ Carried'
         /\ Queue' = Queue
  <1>1. Forward(buffer, TRUE) /\ courier # "carrying" /\ buffer \in Seq(AllRequests)
    BY DEF ReceiveCourier, Typed
  <1>2. /\ buffer' \in Seq(AllRequests) /\ load' \in Seq(AllRequests)
        /\ Queue' = load \o buffer /\ Carried'
    BY <1>1, ForwardFacts
  <1> QED BY <1>2 DEF Queue

\* The server takes the head of the queue from the courier.
LEMMA DeliverQueue ==
  ASSUME Typed, Carried, Deliver
  PROVE  /\ Queue # <<>> /\ Head(Queue) = Head(load) /\ Head(Queue) \in AllRequests
         /\ Queue' = Tail(Queue) /\ Carried'
         /\ buffer' \in Seq(AllRequests) /\ load' \in Seq(AllRequests)
  <1>1. /\ courier = "carrying" /\ courier' = "asking" /\ load' = <<>>
        /\ UNCHANGED <<buffer, courier_ready>>
    BY DEF Deliver
  <1>2. load \in Seq(AllRequests) /\ buffer \in Seq(AllRequests) /\ Len(load) = 1
    BY <1>1 DEF Typed, Carried
  <1>3. PICK x : x = load[1]
    OBVIOUS
  <1>4. x \in AllRequests /\ load = <<x>>
    <2>1. x \in AllRequests
      <3>1. 1 \in 1 .. Len(load)
        BY <1>2
      <3> QED BY <1>2, <1>3, <3>1, ElementOfSeq
    <2>2. <<x>> \in Seq(AllRequests) /\ Len(<<x>>) = 1 /\ <<x>>[1] = x
      BY <2>1
    <2>3. \A i \in 1 .. 1 : load[i] = <<x>>[i]
      BY <1>3, <2>2
    <2> QED BY <1>2, <2>1, <2>2, <2>3, SeqEqual
  <1>5. Queue = <<x>> \o buffer /\ Head(load) = x
    BY <1>4 DEF Queue
  <1>6. Queue # <<>> /\ Head(Queue) = x /\ Tail(Queue) = buffer
    BY <1>2, <1>4, <1>5, ConsFacts
  <1>7. Queue' = buffer
    <2>1. Queue' = <<>> \o buffer
      BY <1>1 DEF Queue
    <2> QED BY <1>2, <2>1, ConcatEmptySeq
  <1>8. Carried'
    BY <1>1 DEF Carried
  <1> QED BY <1>1, <1>2, <1>4, <1>5, <1>6, <1>7, <1>8, EmptySeq
-----------------------------------------------------------------------------
(***************************************************************************)
(* The invariant.                                                          *)
(***************************************************************************)
LEMMA InitInv == Init => IInv
  <1> SUFFICES ASSUME Init PROVE IInv
    OBVIOUS
  <1>1. Typed
    BY EmptySeq, LocationServerAssumption DEF Init, Typed
  <1>2. Carried
    BY DEF Init, Carried
  <1>3. Queue = <<>> /\ DOMAIN Queue = {} /\ Len(Queue) = 0
    <2>1. Queue = <<>> \o <<>>
      BY DEF Init, Queue
    <2> QED BY <2>1, EmptySeq, ConcatEmptySeq
  <1>4. OnePlace /\ Stuck
    BY <1>3, LocationServerNames DEF Init, OnePlace, Stuck, SentOf, Held
  <1>5. \A d \in Devices : SetsOf(Queue, d, 0) = {}
    BY DEF SetsOf
  <1>6. HasLast(Queue)
    BY <1>3, <1>5 DEF HasLast
  <1>7. OneCommander
    BY DEF Init, OneCommander, Commanding
  <1>8. Follows
    BY <1>3, <1>5 DEF Init, Follows, Commanding, ThenOf
  <1>9. WaitNumHonest
    <2>1. \A m \in Modules : {s \in Sensors : Module[s] = m /\ sensor_tid[s] # Nobody} = {}
      BY DEF Init
    <2> QED BY <2>1, FS_EmptySet DEF Init, WaitNumHonest
  <1> QED BY <1>1, <1>2, <1>4, <1>6, <1>7, <1>8, <1>9 DEF IInv

\* The queue and what the server has are left alone.
LEMMA QuietKeeps ==
  ASSUME IInv, Typed', Carried', Queue' = Queue,
         UNCHANGED <<model, sensor_tid, wait_num, hardware, forgotten, muddled>>,
         \A c \in Clients : client'[c] = client[c]
                            \/ (client[c] = "running" /\ client'[c] = "sending"),
         \A c \in Clients : client[c] = "commanding" => request'[c] = request[c]
  PROVE  IInv'
  <1>1. \A c \in Clients : Held(c)' = Held(c)
    BY DEF Held
  <1>2. OnePlace' /\ Stuck'
    <2>1. OnePlace'
      <3> SUFFICES ASSUME NEW c \in Clients
                   PROVE  IF client'[c] \in {"asking", "waiting"} /\ c \notin forgotten'
                            THEN \/ (\E k \in DOMAIN Queue' : SentOf(Queue', c) = {k}) /\ Held(c)' = {}
                                 \/ SentOf(Queue', c) = {} /\ \E s \in Sensors : Held(c)' = {s}
                            ELSE SentOf(Queue', c) = {} /\ Held(c)' = {}
        BY DEF OnePlace
      <3> QED BY <1>1 DEF IInv, OnePlace
    <2>2. Stuck'
      BY DEF IInv, Stuck
    <2> QED BY <2>1, <2>2
  <1>3. HasLast(Queue')
    BY DEF IInv
  <1>4. \A d \in Devices : Commanding(d)' = Commanding(d)
    BY DEF Commanding
  <1>5. OneCommander'
    BY <1>4 DEF IInv, OneCommander
  <1>6. Follows'
    <2> SUFFICES ASSUME NEW d \in Devices \ muddled
                 PROVE  /\ \A c \in Commanding(d)' :
                             ThenOf(Queue', model', d, Len(Queue')) = request'[c].value
                        /\ Commanding(d)' = {} => ThenOf(Queue', model', d, Len(Queue')) = hardware'[d]
      BY DEF Follows
    <2>1. \A c \in Commanding(d) : request'[c] = request[c]
      BY DEF Commanding
    <2> QED BY <1>4, <2>1 DEF IInv, Follows
  <1>7. WaitNumHonest'
    BY DEF IInv, WaitNumHonest
  <1> QED BY <1>2, <1>3, <1>5, <1>6, <1>7 DEF IInv

LEMMA AskKeeps ==
  ASSUME IInv, NEW c \in Clients, NEW r \in Requests(c), Ask(c, r)
  PROVE  IInv'
  <1>1. r \in AllRequests /\ r.from = c
    BY DEF Ask, AllRequests, Requests
  <1>2. /\ client[c] = "running"
        /\ client' = [client EXCEPT ![c] = "sending"]
        /\ request' = [request EXCEPT ![c] = r]
        /\ answer' = [answer EXCEPT ![c] = Nothing]
        /\ UNCHANGED <<buffer, courier_ready, courier, load>>
        /\ UNCHANGED <<model, sensor_tid, wait_num, hardware, forgotten, muddled>>
    BY DEF Ask, front
  <1>3. Typed /\ Carried
    BY DEF IInv
  <1>4. /\ \A b \in Clients : b # c => client'[b] = client[b] /\ request'[b] = request[b]
        /\ client'[c] = "sending" /\ request'[c] = r
    BY <1>2, <1>3 DEF Typed
  <1>5. /\ client' \in [Clients -> {"running", "sending", "commanding", "asking", "waiting"}]
        /\ request' \in [Clients -> AllRequests \cup {NoRequest}]
        /\ answer' \in [Clients -> Values \cup {Nothing}]
    BY <1>1, <1>2, <1>3 DEF Typed
  <1>6. Typed'
    BY <1>1, <1>2, <1>3, <1>4, <1>5, RequestFacts DEF Typed
  <1>7. Carried' /\ Queue' = Queue
    BY <1>2, <1>3 DEF Carried, Queue
  <1> QED BY <1>2, <1>4, <1>6, <1>7, QuietKeeps

LEMMA ReceiveCourierKeeps == IInv /\ ReceiveCourier => IInv'
  <1> SUFFICES ASSUME IInv, ReceiveCourier PROVE IInv'
    OBVIOUS
  <1>1. UNCHANGED <<client, request, model, sensor_tid, wait_num, answer, hardware, forgotten, muddled>>
    BY DEF ReceiveCourier, board
  <1>2. /\ buffer' \in Seq(AllRequests) /\ load' \in Seq(AllRequests) /\ Carried'
        /\ Queue' = Queue
    BY ReceiveCourierQueue DEF IInv
  <1>3. Typed'
    BY <1>1, <1>2 DEF IInv, Typed
  <1> QED BY <1>1, <1>2, <1>3, QuietKeeps

LEMMA StutterKeeps == IInv /\ UNCHANGED vars => IInv'
  <1> SUFFICES ASSUME IInv, UNCHANGED vars PROVE IInv'
    OBVIOUS
  <1>1. UNCHANGED <<client, request, buffer, courier_ready, courier, load, model, sensor_tid,
                    wait_num, answer, hardware, forgotten, muddled>>
    BY DEF vars, front, board
  <1>2. Typed' /\ Carried' /\ Queue' = Queue
    BY <1>1 DEF IInv, Typed, Carried, Queue
  <1> QED BY <1>1, <1>2, QuietKeeps

\* The device is told what the server was told.
LEMMA CommandKeeps ==
  ASSUME IInv, NEW c \in Clients, Command(c)
  PROVE  IInv'
  <1>1. /\ client[c] = "commanding"
        /\ client' = [client EXCEPT ![c] = "running"]
        /\ hardware' = [hardware EXCEPT ![request[c].device] = request[c].value]
        /\ request' = [request EXCEPT ![c] = NoRequest]
        /\ UNCHANGED <<buffer, courier_ready, courier, load, model, sensor_tid, wait_num, answer,
                       forgotten, muddled>>
    BY DEF Command, front, board
  <1>2. Typed
    BY DEF IInv
  <1>3. request[c] \in AllRequests /\ request[c].op = "set"
    BY <1>1, <1>2 DEF Typed
  <1>4. request[c].device \in Devices /\ request[c].value \in Values
    BY <1>3, RequestFacts
  <1>5. /\ \A b \in Clients : b # c => client'[b] = client[b] /\ request'[b] = request[b]
        /\ client'[c] = "running"
    BY <1>1, <1>2 DEF Typed
  <1>6. Typed'
    <2>1. /\ client' \in [Clients -> {"running", "sending", "commanding", "asking", "waiting"}]
          /\ request' \in [Clients -> AllRequests \cup {NoRequest}]
          /\ hardware' \in [Devices -> Values]
      BY <1>1, <1>2, <1>4 DEF Typed
    <2> QED BY <1>1, <1>2, <1>5, <2>1 DEF Typed
  <1>7. Carried' /\ Queue' = Queue /\ \A b \in Clients : Held(b)' = Held(b)
    BY <1>1 DEF IInv, Carried, Queue, Held
  <1>8. OnePlace'
    <2> SUFFICES ASSUME NEW b \in Clients
                 PROVE  IF client'[b] \in {"asking", "waiting"} /\ b \notin forgotten'
                          THEN \/ (\E k \in DOMAIN Queue' : SentOf(Queue', b) = {k}) /\ Held(b)' = {}
                               \/ SentOf(Queue', b) = {} /\ \E s \in Sensors : Held(b)' = {s}
                          ELSE SentOf(Queue', b) = {} /\ Held(b)' = {}
      BY DEF OnePlace
    <2> QED BY <1>1, <1>5, <1>7 DEF IInv, OnePlace
  <1>9. Stuck'
    BY <1>1, <1>5 DEF IInv, Stuck
  <1>10. HasLast(Queue') /\ WaitNumHonest'
    BY <1>1, <1>7 DEF IInv, WaitNumHonest
  <1>11. \A d \in Devices : Commanding(d)' = Commanding(d) \ {c}
    BY <1>5 DEF Commanding
  <1>12. OneCommander'
    BY <1>1, <1>11 DEF IInv, OneCommander
  <1>13. Follows'
    <2> SUFFICES ASSUME NEW d \in Devices \ muddled
                 PROVE  /\ \A b \in Commanding(d)' :
                             ThenOf(Queue', model', d, Len(Queue')) = request'[b].value
                        /\ Commanding(d)' = {} => ThenOf(Queue', model', d, Len(Queue')) = hardware'[d]
      BY <1>1 DEF Follows
    <2>0. /\ \A b \in Commanding(d) : ThenOf(Queue, model, d, Len(Queue)) = request[b].value
          /\ Commanding(d) = {} => ThenOf(Queue, model, d, Len(Queue)) = hardware[d]
          /\ \A a, b \in Commanding(d) : a = b
      BY DEF IInv, Follows, OneCommander
    <2>1. CASE c \in Commanding(d)
      <3>1. Commanding(d)' = {}
        BY <1>11, <2>0, <2>1
      <3>2. hardware'[d] = request[c].value
        BY <1>1, <1>2, <1>4, <2>1 DEF Commanding, Typed
      <3> QED BY <1>1, <1>7, <2>0, <2>1, <3>1, <3>2
    <2>2. CASE c \notin Commanding(d)
      <3>1. Commanding(d)' = Commanding(d) /\ Commanding(d) \subseteq Clients
        BY <1>11, <2>2 DEF Commanding
      <3>2. hardware'[d] = hardware[d]
        BY <1>1, <1>2, <2>2 DEF Commanding, Typed
      <3>3. \A b \in Commanding(d) : request'[b] = request[b]
        BY <1>5, <2>2, <3>1
      <3> QED BY <1>1, <1>7, <2>0, <3>1, <3>2, <3>3
    <2> QED BY <2>1, <2>2
  <1> QED BY <1>6, <1>7, <1>8, <1>9, <1>10, <1>12, <1>13 DEF IInv

\* A request joins the queue, or is dropped.
LEMMA ReceiveKeeps ==
  ASSUME IInv, NEW c \in Clients, Receive(c)
  PROVE  IInv'
  <1>a. PICK r : r = request[c]
    OBVIOUS
  <1>b. PICK fits \in BOOLEAN : fits <=> Len(buffer) < BUFFER
    OBVIOUS
  <1>1. /\ client[c] = "sending"
        /\ client' = [client EXCEPT ![c] = After(r)]
        /\ request' = IF After(r) = "commanding" THEN request ELSE [request EXCEPT ![c] = NoRequest]
        /\ forgotten' = IF ~fits /\ r.op \in {"get", "wait"} THEN forgotten \cup {c} ELSE forgotten
        /\ muddled' = IF r.op # "set" THEN muddled
                      ELSE IF fits /\ Accepts(r) /\ Commanding(r.device) = {} THEN muddled \ {r.device}
                      ELSE muddled \cup {r.device}
        /\ UNCHANGED <<model, sensor_tid, wait_num, answer, hardware>>
    BY <1>a, <1>b DEF Receive, board
  <1>2. /\ r \in AllRequests /\ r.from = c
        /\ buffer' \in Seq(AllRequests) /\ load' \in Seq(AllRequests) /\ Carried'
        /\ Queue' = IF fits THEN Append(Queue, r) ELSE Queue
    BY <1>a, <1>b, ReceiveQueue DEF IInv
  <1>3. Typed /\ Queue \in Seq(AllRequests) /\ HasLast(Queue)
    BY QueueTyped DEF IInv
  <1>4. /\ r.op \in {"set", "get", "wait", "hit"}
        /\ r.op = "set" => r.device \in Devices /\ r.value \in Values
    BY <1>2, RequestFacts
  <1>5. After(r) = IF r.op = "set" THEN "commanding" ELSE IF r.op = "hit" THEN "running"
                   ELSE IF r.op = "get" THEN "asking" ELSE "waiting"
    BY <1>4 DEF After
  <1>6. /\ \A b \in Clients : b # c => client'[b] = client[b] /\ request'[b] = request[b]
        /\ client'[c] = After(r)
        /\ r.op = "set" => request'[c] = r
    BY <1>a, <1>1, <1>3, <1>5 DEF Typed
  <1>7. Typed'
    <2>1. /\ client' \in [Clients -> {"running", "sending", "commanding", "asking", "waiting"}]
          /\ request' \in [Clients -> AllRequests \cup {NoRequest}]
      BY <1>1, <1>3, <1>5 DEF Typed
    <2>2. muddled' \subseteq Devices
      BY <1>1, <1>3, <1>4 DEF Typed
    <2>3. \A b \in Clients :
            /\ client'[b] \in {"sending", "commanding"} =>
                 request'[b] # NoRequest /\ request'[b].from = b
            /\ client'[b] = "commanding" => request'[b].op = "set"
      <3>1. r # NoRequest
        BY <1>2, RequestFacts
      <3> QED BY <1>2, <1>3, <1>5, <1>6, <3>1 DEF Typed
    <2> QED BY <1>1, <1>2, <1>3, <2>1, <2>2, <2>3 DEF Typed
  <1>8. /\ \A b \in Clients : b # c => SentOf(Queue', b) = SentOf(Queue, b)
        /\ SentOf(Queue', c) = IF fits /\ r.op \in {"get", "wait"}
                                 THEN SentOf(Queue, c) \cup {Len(Queue) + 1} ELSE SentOf(Queue, c)
    <2>1. \A b : SentOf(Append(Queue, r), b) =
            IF r.from = b /\ r.op \in {"get", "wait"} THEN SentOf(Queue, b) \cup {Len(Queue) + 1}
                                                      ELSE SentOf(Queue, b)
      BY <1>2, <1>3, SentAppend
    <2> QED BY <1>2, <2>1
  <1>9. /\ DOMAIN Queue \subseteq DOMAIN Queue'
        /\ fits => Len(Queue) + 1 \in DOMAIN Queue'
    <2>1. /\ Len(Queue) \in Nat /\ DOMAIN Queue = 1 .. Len(Queue)
          /\ DOMAIN Append(Queue, r) = 1 .. Len(Queue) + 1
      BY <1>2, <1>3, AppendFacts
    <2> QED BY <1>2, <2>1
  <1>10. SentOf(Queue, c) = {} /\ Held(c) = {} /\ c \notin forgotten
    BY <1>1 DEF IInv, OnePlace, Stuck
  <1>11. \A b \in Clients : Held(b)' = Held(b)
    BY <1>1 DEF Held
  <1>12. OnePlace'
    <2> SUFFICES ASSUME NEW b \in Clients
                 PROVE  IF client'[b] \in {"asking", "waiting"} /\ b \notin forgotten'
                          THEN \/ (\E k \in DOMAIN Queue' : SentOf(Queue', b) = {k}) /\ Held(b)' = {}
                               \/ SentOf(Queue', b) = {} /\ \E s \in Sensors : Held(b)' = {s}
                          ELSE SentOf(Queue', b) = {} /\ Held(b)' = {}
      BY DEF OnePlace
    <2>1. CASE b = c
      <3>1. CASE fits /\ r.op \in {"get", "wait"}
        <4>1. SentOf(Queue', b) = {Len(Queue) + 1} /\ Held(b)' = {} /\ b \notin forgotten'
          BY <1>1, <1>8, <1>10, <1>11, <2>1, <3>1
        <4>2. client'[b] \in {"asking", "waiting"}
          BY <1>5, <1>6, <2>1, <3>1
        <4> QED BY <1>9, <3>1, <4>1, <4>2
      <3>2. CASE ~(fits /\ r.op \in {"get", "wait"})
        <4>1. SentOf(Queue', b) = {} /\ Held(b)' = {}
          BY <1>8, <1>10, <1>11, <2>1, <3>2
        <4>2. ~(client'[b] \in {"asking", "waiting"} /\ b \notin forgotten')
          BY <1>1, <1>4, <1>5, <1>6, <2>1, <3>2
        <4> QED BY <4>1, <4>2
      <3> QED BY <3>1, <3>2
    <2>2. CASE b # c
      <3>1. client'[b] = client[b] /\ (b \in forgotten' <=> b \in forgotten)
            /\ SentOf(Queue', b) = SentOf(Queue, b) /\ Held(b)' = Held(b)
        BY <1>1, <1>6, <1>8, <1>11, <2>2
      <3> QED BY <1>9, <3>1 DEF IInv, OnePlace
    <2> QED BY <2>1, <2>2
  <1>13. Stuck'
    BY <1>1, <1>4, <1>5, <1>6 DEF IInv, Stuck
  <1>14. /\ HasLast(Queue')
         /\ \A d \in Devices : ThenOf(Queue', model, d, Len(Queue')) =
              IF fits /\ Notes(r, d) THEN r.value
              ELSE ThenOf(Queue, model, d, Len(Queue))
    <2>1. /\ HasLast(Append(Queue, r)) /\ Len(Append(Queue, r)) = Len(Queue) + 1
          /\ \A d \in Devices : ThenOf(Append(Queue, r), model, d, Len(Queue) + 1) =
               IF Notes(r, d) THEN r.value ELSE ThenOf(Queue, model, d, Len(Queue))
      <3>a. PICK q \in Seq(AllRequests) : q = Queue
        BY <1>3
      <3>b. PICK mod : mod = model
        OBVIOUS
      <3>2. HasLast(q) /\ r \in AllRequests
        BY <1>2, <1>3, <3>a
      <3>3. /\ HasLast(Append(q, r))
            /\ \A d \in Devices : ThenOf(Append(q, r), mod, d, Len(q) + 1) =
                 IF Notes(r, d) THEN r.value ELSE ThenOf(q, mod, d, Len(q))
        BY <3>2, ThenAppend
      <3>4. Len(Append(q, r)) = Len(q) + 1
        BY <3>2, AppendFacts
      <3> QED BY <3>a, <3>b, <3>3, <3>4
    <2> QED BY <1>2, <1>3, <2>1
  <1>15. ASSUME NEW d \in Devices \ muddled', r.op = "set", r.device = d
         PROVE  fits /\ Notes(r, d) /\ Commanding(d) = {} /\ Commanding(d)' = {c}
    <2>1. fits /\ Accepts(r) /\ Commanding(d) = {}
      BY <1>1, <1>15
    <2>2. Commanding(d)' \subseteq Commanding(d) \cup {c}
      BY <1>6 DEF Commanding
    <2>3. c \in Commanding(d)'
      BY <1>5, <1>6, <1>15 DEF Commanding
    <2> QED BY <1>15, <2>1, <2>2, <2>3 DEF Notes
  <1>16. ASSUME NEW d \in Devices \ muddled', ~(r.op = "set" /\ r.device = d)
         PROVE  d \notin muddled /\ Commanding(d)' = Commanding(d) /\ c \notin Commanding(d)
    <2>1. d \notin muddled
      BY <1>1, <1>4, <1>16
    <2>2. c \notin Commanding(d) /\ c \notin Commanding(d)'
      BY <1>1, <1>4, <1>5, <1>6, <1>16 DEF Commanding
    <2>3. \A b \in Clients \ {c} : b \in Commanding(d)' <=> b \in Commanding(d)
      BY <1>6 DEF Commanding
    <2> QED BY <2>1, <2>2, <2>3 DEF Commanding
  <1>17. OneCommander'
    BY <1>15, <1>16 DEF IInv, OneCommander
  <1>18. Follows'
    <2> SUFFICES ASSUME NEW d \in Devices \ muddled'
                 PROVE  /\ \A b \in Commanding(d)' :
                             ThenOf(Queue', model', d, Len(Queue')) = request'[b].value
                        /\ Commanding(d)' = {} => ThenOf(Queue', model', d, Len(Queue')) = hardware'[d]
      BY DEF Follows
    <2>1. CASE r.op = "set" /\ r.device = d
      <3>1. fits /\ Notes(r, d) /\ Commanding(d)' = {c}
        BY <1>15, <2>1
      <3>2. ThenOf(Queue', model, d, Len(Queue')) = r.value
        BY <1>14, <3>1
      <3> QED BY <1>1, <1>6, <2>1, <3>1, <3>2
    <2>2. CASE ~(r.op = "set" /\ r.device = d)
      <3>1. d \notin muddled /\ Commanding(d)' = Commanding(d) /\ c \notin Commanding(d)
        BY <1>16, <2>2
      <3>2. ThenOf(Queue', model, d, Len(Queue')) = ThenOf(Queue, model, d, Len(Queue))
        BY <1>14, <2>2 DEF Notes
      <3>3. \A b \in Commanding(d) : request'[b] = request[b]
        BY <1>6, <3>1 DEF Commanding
      <3> QED BY <1>1, <3>1, <3>2, <3>3 DEF IInv, Follows
    <2> QED BY <2>1, <2>2
  <1>19. WaitNumHonest'
    BY <1>1 DEF IInv, WaitNumHonest
  <1> QED BY <1>2, <1>7, <1>12, <1>13, <1>14, <1>17, <1>18, <1>19 DEF IInv
-----------------------------------------------------------------------------
\* What the server takes, and what it makes of the model.
LEMMA DeliverFacts ==
  ASSUME IInv, Deliver
  PROVE  /\ Queue \in Seq(AllRequests) /\ Queue # <<>> /\ Head(Queue) \in AllRequests
         /\ Queue' = Tail(Queue) /\ Carried'
         /\ buffer' \in Seq(AllRequests) /\ load' \in Seq(AllRequests)
         /\ UNCHANGED <<request, hardware, muddled>>
         /\ \/ Head(Queue).op = "set" /\ Set(Head(Queue))
            \/ Head(Queue).op = "get" /\ Get(Head(Queue))
            \/ Head(Queue).op = "wait" /\ Wait(Head(Queue))
            \/ Head(Queue).op = "hit" /\ Hit(Head(Queue))
         /\ model' = Noted(model, Head(Queue))
         /\ model' \in [Devices -> Values]
  <1>1. /\ Queue # <<>> /\ Head(Queue) = Head(load) /\ Head(Queue) \in AllRequests
        /\ Queue' = Tail(Queue) /\ Carried'
        /\ buffer' \in Seq(AllRequests) /\ load' \in Seq(AllRequests)
    BY DeliverQueue DEF IInv
  <1>2. /\ UNCHANGED <<request, hardware, muddled>>
        /\ \/ Head(Queue).op = "set" /\ Set(Head(Queue))
           \/ Head(Queue).op = "get" /\ Get(Head(Queue))
           \/ Head(Queue).op = "wait" /\ Wait(Head(Queue))
           \/ Head(Queue).op = "hit" /\ Hit(Head(Queue))
    BY <1>1 DEF Deliver
  <1>3. model' = Noted(model, Head(Queue))
    BY <1>2 DEF Set, Get, Wait, Hit, Noted
  <1>4. model' \in [Devices -> Values]
    BY <1>1, <1>3, RequestFacts DEF IInv, Typed, Noted
  <1>5. Queue \in Seq(AllRequests)
    BY QueueTyped DEF IInv
  <1> QED BY <1>1, <1>2, <1>3, <1>4, <1>5

\* What is left to show of a step of the server.
LEMMA DeliverRest ==
  ASSUME IInv, Deliver, OnePlace', Stuck', WaitNumHonest',
         client' \in [Clients -> {"running", "sending", "commanding", "asking", "waiting"}],
         \A c \in Clients : client'[c] = client[c]
                            \/ (client[c] \in {"asking", "waiting"} /\ client'[c] = "running"),
         sensor_tid' \in [Sensors -> Clients \cup {Nobody}], wait_num' \in [Modules -> Int],
         answer' \in [Clients -> Values \cup {Nothing}]
  PROVE  IInv'
  <1>1. /\ Queue \in Seq(AllRequests) /\ Queue # <<>> /\ Head(Queue) \in AllRequests
        /\ Queue' = Tail(Queue) /\ Carried'
        /\ buffer' \in Seq(AllRequests) /\ load' \in Seq(AllRequests)
        /\ UNCHANGED <<request, hardware, muddled>>
        /\ model' = Noted(model, Head(Queue))
        /\ model' \in [Devices -> Values]
    BY DeliverFacts
  <1>2. Typed'
    <2>1. \A c \in Clients : client'[c] \in {"sending", "commanding"} => client'[c] = client[c]
      OBVIOUS
    <2> QED BY <1>1, <2>1 DEF IInv, Typed
  <1>3. /\ HasLast(Tail(Queue))
        /\ \A d \in Devices, n \in 1 .. Len(Queue) :
             ThenOf(Tail(Queue), model', d, n - 1) = ThenOf(Queue, model, d, n)
    <2>a. PICK q \in Seq(AllRequests), mod \in [Devices -> Values] : q = Queue /\ mod = model
      BY <1>1 DEF IInv, Typed
    <2>b. PICK mod2 : mod2 = model'
      OBVIOUS
    <2>2. /\ q # <<>> /\ HasLast(q)
          /\ mod2 = Noted(mod, Head(q))
      BY <1>1, <2>a, <2>b DEF IInv
    <2>3. /\ HasLast(Tail(q))
          /\ \A d \in Devices, n \in 1 .. Len(q) : ThenOf(Tail(q), mod2, d, n - 1) = ThenOf(q, mod, d, n)
      BY <2>2, ThenTail
    <2> QED BY <2>a, <2>b, <2>3
  <1>4. Len(Queue) \in 1 .. Len(Queue) /\ Len(Queue') = Len(Queue) - 1
    BY <1>1, TailFacts
  <1>5. \A d \in Devices : ThenOf(Queue', model', d, Len(Queue')) = ThenOf(Queue, model, d, Len(Queue))
    BY <1>1, <1>3, <1>4
  <1>6. \A d \in Devices : Commanding(d)' = Commanding(d)
    BY <1>1 DEF Commanding
  <1>7. OneCommander' /\ Follows'
    <2>1. OneCommander'
      BY <1>1, <1>6 DEF IInv, OneCommander
    <2>2. Follows'
      <3> SUFFICES ASSUME NEW d \in Devices \ muddled
                   PROVE  /\ \A b \in Commanding(d)' :
                               ThenOf(Queue', model', d, Len(Queue')) = request'[b].value
                          /\ Commanding(d)' = {} => ThenOf(Queue', model', d, Len(Queue')) = hardware'[d]
        BY <1>1 DEF Follows
      <3>1. /\ \A b \in Commanding(d) : ThenOf(Queue, model, d, Len(Queue)) = request[b].value
            /\ Commanding(d) = {} => ThenOf(Queue, model, d, Len(Queue)) = hardware[d]
        BY DEF IInv, Follows
      <3>2. ThenOf(Queue', model', d, Len(Queue')) = ThenOf(Queue, model, d, Len(Queue))
        BY <1>5
      <3>3. Commanding(d)' = Commanding(d) /\ request' = request /\ hardware' = hardware
        BY <1>1, <1>6
      <3> QED BY <3>1, <3>2, <3>3
    <2> QED BY <2>1, <2>2
  <1> QED BY <1>1, <1>2, <1>3, <1>7 DEF IInv

\* The places of the requests in the queue, if the head is not one of c's.
LEMMA DeliverSent ==
  ASSUME IInv, Deliver, NEW c \in Clients
  PROVE  /\ SentOf(Queue, c) = {} => SentOf(Queue', c) = {}
         /\ 1 \in SentOf(Queue, c) <=>
              Head(Queue).from = c /\ Head(Queue).op \in {"get", "wait"}
         /\ \A k \in DOMAIN Queue : SentOf(Queue, c) = {k} =>
              IF k = 1 THEN SentOf(Queue', c) = {}
                       ELSE k - 1 \in DOMAIN Queue' /\ SentOf(Queue', c) = {k - 1}
  <1>1. Queue \in Seq(AllRequests) /\ Queue # <<>> /\ Queue' = Tail(Queue)
    BY DeliverFacts
  <1>2. /\ Len(Queue) \in Nat \ {0} /\ DOMAIN Queue = 1 .. Len(Queue)
        /\ DOMAIN Tail(Queue) = 1 .. Len(Queue) - 1
    BY <1>1, TailFacts
  <1>3. /\ 1 \in SentOf(Queue, c) <=> Head(Queue).from = c /\ Head(Queue).op \in {"get", "wait"}
        /\ \A k \in DOMAIN Queue : SentOf(Queue, c) = {k} =>
             SentOf(Tail(Queue), c) = IF k = 1 THEN {} ELSE {k - 1}
        /\ SentOf(Queue, c) = {} => SentOf(Tail(Queue), c) = {}
    BY <1>1, SentTail
  <1>4. \A k \in DOMAIN Queue : k # 1 => k - 1 \in DOMAIN Tail(Queue)
    BY <1>2
  <1> QED BY <1>1, <1>3, <1>4

\* A client whose request is not the head keeps its place in the queue.
LEMMA DeliverOthers ==
  ASSUME IInv, Deliver, NEW c \in Clients, 1 \notin SentOf(Queue, c)
  PROVE  /\ SentOf(Queue, c) = {} => SentOf(Queue', c) = {}
         /\ (\E k \in DOMAIN Queue : SentOf(Queue, c) = {k}) =>
              \E k \in DOMAIN Queue' : SentOf(Queue', c) = {k}
  <1>1. SentOf(Queue, c) = {} => SentOf(Queue', c) = {}
    BY DeliverSent
  <1>2. ASSUME NEW k \in DOMAIN Queue, SentOf(Queue, c) = {k}
        PROVE  \E j \in DOMAIN Queue' : SentOf(Queue', c) = {j}
    <2>1. k # 1
      BY <1>2
    <2>2. k - 1 \in DOMAIN Queue' /\ SentOf(Queue', c) = {k - 1}
      BY <1>2, <2>1, DeliverSent
    <2> QED BY <2>2
  <1> QED BY <1>1, <1>2

\* The client whose request is the head has no other, and waits for no sensor.
LEMMA DeliverHead ==
  ASSUME IInv, Deliver, NEW c \in Clients, 1 \in SentOf(Queue, c)
  PROVE  /\ client[c] \in {"asking", "waiting"} /\ c \notin forgotten
         /\ SentOf(Queue', c) = {} /\ Held(c) = {}
  <1>1. /\ client[c] \in {"asking", "waiting"} /\ c \notin forgotten
        /\ \E k \in DOMAIN Queue : SentOf(Queue, c) = {k} /\ Held(c) = {}
    BY DEF IInv, OnePlace
  <1>2. PICK k \in DOMAIN Queue : SentOf(Queue, c) = {k} /\ Held(c) = {}
    BY <1>1
  <1>3. k = 1
    BY <1>2
  <1> QED BY <1>1, <1>2, <1>3, DeliverSent

\* A report, or an answer.
LEMMA SetKeeps ==
  ASSUME IInv, Deliver, Head(Queue).op = "set", Set(Head(Queue))
  PROVE  IInv'
  <1>1. UNCHANGED <<client, sensor_tid, wait_num, answer, forgotten>>
    BY DEF Set
  <1>2. \A c \in Clients : Held(c)' = Held(c)
    BY <1>1 DEF Held
  <1>3. OnePlace'
    <2> SUFFICES ASSUME NEW c \in Clients
                 PROVE  IF client'[c] \in {"asking", "waiting"} /\ c \notin forgotten'
                          THEN \/ (\E k \in DOMAIN Queue' : SentOf(Queue', c) = {k}) /\ Held(c)' = {}
                               \/ SentOf(Queue', c) = {} /\ \E s \in Sensors : Held(c)' = {s}
                          ELSE SentOf(Queue', c) = {} /\ Held(c)' = {}
      BY DEF OnePlace
    <2>1. 1 \notin SentOf(Queue, c)
      BY DeliverSent
    <2>2. /\ SentOf(Queue, c) = {} => SentOf(Queue', c) = {}
          /\ (\E k \in DOMAIN Queue : SentOf(Queue, c) = {k}) =>
               \E k \in DOMAIN Queue' : SentOf(Queue', c) = {k}
      BY <2>1, DeliverOthers
    <2> QED BY <1>1, <1>2, <2>2 DEF IInv, OnePlace
  <1>4. Stuck' /\ WaitNumHonest'
    BY <1>1 DEF IInv, Stuck, WaitNumHonest
  <1>5. Typed
    BY DEF IInv
  <1> QED BY <1>1, <1>3, <1>4, <1>5, DeliverRest DEF Typed

LEMMA GetKeeps ==
  ASSUME IInv, Deliver, Head(Queue).op = "get", Get(Head(Queue))
  PROVE  IInv'
  <1>a. PICK r : r = Head(Queue)
    OBVIOUS
  <1>1. /\ answer' = [answer EXCEPT ![r.from] = model[r.device]]
        /\ client' = [client EXCEPT ![r.from] = "running"]
        /\ UNCHANGED <<sensor_tid, wait_num, forgotten>>
    BY <1>a DEF Get
  <1>2. r \in AllRequests /\ r.op = "get" /\ r.from \in Clients /\ r.device \in Devices
    BY <1>a, DeliverFacts, RequestFacts
  <1>3. Typed
    BY DEF IInv
  <1>4. \A c \in Clients : Held(c)' = Held(c)
    BY <1>1 DEF Held
  <1>5. /\ \A c \in Clients : c # r.from => client'[c] = client[c]
        /\ client'[r.from] = "running"
    BY <1>1, <1>2, <1>3 DEF Typed
  <1>6. 1 \in SentOf(Queue, r.from) /\ \A c \in Clients : c # r.from => 1 \notin SentOf(Queue, c)
    BY <1>a, <1>2, DeliverSent
  <1>7. /\ client[r.from] \in {"asking", "waiting"} /\ r.from \notin forgotten
        /\ SentOf(Queue', r.from) = {} /\ Held(r.from) = {}
    BY <1>2, <1>6, DeliverHead
  <1>8. Held(r.from)' = {}
    BY <1>2, <1>4, <1>7
  <1>9. OnePlace'
    <2> SUFFICES ASSUME NEW c \in Clients
                 PROVE  IF client'[c] \in {"asking", "waiting"} /\ c \notin forgotten'
                          THEN \/ (\E k \in DOMAIN Queue' : SentOf(Queue', c) = {k}) /\ Held(c)' = {}
                               \/ SentOf(Queue', c) = {} /\ \E s \in Sensors : Held(c)' = {s}
                          ELSE SentOf(Queue', c) = {} /\ Held(c)' = {}
      BY DEF OnePlace
    <2>1. CASE c = r.from
      BY <1>5, <1>7, <1>8, <2>1
    <2>2. CASE c # r.from
      <3>1. 1 \notin SentOf(Queue, c)
        BY <1>6, <2>2
      <3>2. /\ SentOf(Queue, c) = {} => SentOf(Queue', c) = {}
            /\ (\E k \in DOMAIN Queue : SentOf(Queue, c) = {k}) =>
                 \E k \in DOMAIN Queue' : SentOf(Queue', c) = {k}
        BY <3>1, DeliverOthers
      <3> QED BY <1>1, <1>4, <1>5, <2>2, <3>2 DEF IInv, OnePlace
    <2> QED BY <2>1, <2>2
  <1>10. Stuck' /\ WaitNumHonest'
    BY <1>1, <1>5, <1>7 DEF IInv, Stuck, WaitNumHonest
  <1>11. /\ client' \in [Clients -> {"running", "sending", "commanding", "asking", "waiting"}]
         /\ answer' \in [Clients -> Values \cup {Nothing}]
    BY <1>1, <1>2, <1>3 DEF Typed
  <1>12. \A c \in Clients : client'[c] = client[c]
                            \/ (client[c] \in {"asking", "waiting"} /\ client'[c] = "running")
    BY <1>5, <1>7
  <1> QED BY <1>1, <1>3, <1>9, <1>10, <1>11, <1>12, DeliverRest DEF Typed

\* The sensors of module m that somebody waits for.
WaitingAt(tid, m) == {s \in Sensors : Module[s] = m /\ tid[s] # Nobody}

LEMMA WaitingFinite ==
  ASSUME NEW tid, NEW m
  PROVE  IsFiniteSet(WaitingAt(tid, m)) /\ Cardinality(WaitingAt(tid, m)) \in Nat
  <1>1. WaitingAt(tid, m) \subseteq Sensors
    BY DEF WaitingAt
  <1> QED BY <1>1, LocationServerAssumption, FS_Subset, FS_CardinalityType

\* A client waits for a sensor, and whoever did so is forgotten.
LEMMA WaitKeeps ==
  ASSUME IInv, Deliver, Head(Queue).op = "wait", Wait(Head(Queue))
  PROVE  IInv'
  <1>a. PICK r : r = Head(Queue)
    OBVIOUS
  <1>b. PICK c, s, b : c = r.from /\ s = r.sensor /\ b = sensor_tid[r.sensor]
    OBVIOUS
  <1>1. /\ wait_num' = [wait_num EXCEPT ![Module[s]] =
                          IF b = Nobody THEN wait_num[Module[s]] + 1 ELSE wait_num[Module[s]]]
        /\ sensor_tid' = [sensor_tid EXCEPT ![s] = c]
        /\ forgotten' = forgotten \cup ({b} \ {Nobody})
        /\ UNCHANGED <<client, answer>>
    BY <1>a, <1>b DEF Wait
  <1>2. c \in Clients /\ s \in Sensors /\ Module[s] \in Modules /\ r.op = "wait"
    <2>1. r \in AllRequests /\ r.op = "wait"
      BY <1>a, DeliverFacts
    <2>2. c \in Clients /\ s \in Sensors
      BY <1>b, <2>1, RequestFacts
    <2> QED BY <2>1, <2>2 DEF Modules
  <1>3. Typed /\ b \in Clients \cup {Nobody}
    BY <1>b, <1>2 DEF IInv, Typed
  <1>4. /\ sensor_tid'[s] = c
        /\ \A u \in Sensors : u # s => sensor_tid'[u] = sensor_tid[u]
    BY <1>1, <1>2, <1>3 DEF Typed
  <1>5. 1 \in SentOf(Queue, c) /\ \A d \in Clients : d # c => 1 \notin SentOf(Queue, d)
    BY <1>a, <1>b, <1>2, DeliverSent
  <1>6. /\ client[c] \in {"asking", "waiting"} /\ c \notin forgotten
        /\ SentOf(Queue', c) = {} /\ Held(c) = {}
    BY <1>2, <1>5, DeliverHead
  <1>7. b # c
    BY <1>b, <1>2, <1>6 DEF Held
  <1>8. Held(c)' = {s}
    BY <1>2, <1>4, <1>6 DEF Held
  <1>9. ASSUME b # Nobody
        PROVE  /\ b \in Clients /\ client[b] \in {"asking", "waiting"}
               /\ SentOf(Queue', b) = {} /\ Held(b)' = {}
    <2>1. b \in Clients /\ s \in Held(b)
      BY <1>b, <1>2, <1>3, <1>9 DEF Held
    <2>2. /\ client[b] \in {"asking", "waiting"} /\ SentOf(Queue, b) = {}
          /\ \E u \in Sensors : Held(b) = {u}
      BY <2>1 DEF IInv, OnePlace
    <2>3. Held(b) = {s}
      BY <2>1, <2>2
    <2>4. Held(b)' = {}
      BY <1>4, <1>7, <2>3 DEF Held
    <2>5. SentOf(Queue', b) = {}
      BY <2>1, <2>2, DeliverSent
    <2> QED BY <2>1, <2>2, <2>4, <2>5
  <1>10. ASSUME NEW d \in Clients, d # b, d # c
         PROVE  Held(d)' = Held(d)
    BY <1>b, <1>2, <1>4, <1>10 DEF Held
  <1>11. OnePlace'
    <2> SUFFICES ASSUME NEW d \in Clients
                 PROVE  IF client'[d] \in {"asking", "waiting"} /\ d \notin forgotten'
                          THEN \/ (\E k \in DOMAIN Queue' : SentOf(Queue', d) = {k}) /\ Held(d)' = {}
                               \/ SentOf(Queue', d) = {} /\ \E u \in Sensors : Held(d)' = {u}
                          ELSE SentOf(Queue', d) = {} /\ Held(d)' = {}
      BY DEF OnePlace
    <2>1. CASE d = c
      BY <1>1, <1>2, <1>6, <1>7, <1>8, <2>1
    <2>2. CASE d = b
      <3>1. b # Nobody
        BY <2>2, LocationServerNames
      <3> QED BY <1>1, <1>9, <2>2, <3>1
    <2>3. CASE d # c /\ d # b
      <3>1. /\ SentOf(Queue, d) = {} => SentOf(Queue', d) = {}
            /\ (\E k \in DOMAIN Queue : SentOf(Queue, d) = {k}) =>
                 \E k \in DOMAIN Queue' : SentOf(Queue', d) = {k}
        BY <1>5, <2>3, DeliverOthers
      <3>2. Held(d)' = Held(d) /\ client'[d] = client[d] /\ (d \in forgotten' <=> d \in forgotten)
        BY <1>1, <1>10, <2>3
      <3> QED BY <3>1, <3>2 DEF IInv, OnePlace
    <2> QED BY <2>1, <2>2, <2>3
  <1>12. Stuck'
    BY <1>1, <1>9 DEF IInv, Stuck
  <1>13. WaitNumHonest'
    <2> SUFFICES ASSUME NEW m \in Modules
                 PROVE  wait_num'[m] = Cardinality(WaitingAt(sensor_tid', m))
      BY DEF WaitNumHonest, WaitingAt
    <2>1. wait_num[m] = Cardinality(WaitingAt(sensor_tid, m)) /\ wait_num[m] \in Int
      BY <1>3 DEF IInv, WaitNumHonest, WaitingAt, Typed
    <2>2. CASE m # Module[s]
      <3>1. WaitingAt(sensor_tid', m) = WaitingAt(sensor_tid, m)
        BY <1>4, <2>2 DEF WaitingAt
      <3>2. wait_num'[m] = wait_num[m]
        BY <1>1, <1>2, <1>3, <2>2 DEF Typed
      <3> QED BY <2>1, <3>1, <3>2
    <2>3. CASE m = Module[s]
      <3>1. WaitingAt(sensor_tid', m) = WaitingAt(sensor_tid, m) \cup {s}
        BY <1>2, <1>4, <2>3, LocationServerNames DEF WaitingAt
      <3>2. wait_num'[m] = IF b = Nobody THEN wait_num[m] + 1 ELSE wait_num[m]
        BY <1>1, <1>2, <1>3, <2>3 DEF Typed
      <3>3. s \in WaitingAt(sensor_tid, m) <=> b # Nobody
        BY <1>b, <1>2, <2>3 DEF WaitingAt
      <3>4. IsFiniteSet(WaitingAt(sensor_tid, m))
        BY WaitingFinite
      <3>5. CASE b = Nobody
        <4>1. Cardinality(WaitingAt(sensor_tid, m) \cup {s}) = Cardinality(WaitingAt(sensor_tid, m)) + 1
          BY <3>3, <3>4, <3>5, FS_AddElement
        <4> QED BY <2>1, <3>1, <3>2, <3>5, <4>1
      <3>6. CASE b # Nobody
        <4>1. WaitingAt(sensor_tid, m) \cup {s} = WaitingAt(sensor_tid, m)
          BY <3>3, <3>6
        <4> QED BY <2>1, <3>1, <3>2, <3>6, <4>1
      <3> QED BY <3>5, <3>6
    <2> QED BY <2>2, <2>3
  <1>14. sensor_tid' \in [Sensors -> Clients \cup {Nobody}] /\ wait_num' \in [Modules -> Int]
    <2>1. sensor_tid' \in [Sensors -> Clients \cup {Nobody}]
      BY <1>1, <1>2, <1>3 DEF Typed
    <2>2. wait_num[Module[s]] \in Int /\ wait_num[Module[s]] + 1 \in Int
      BY <1>2, <1>3 DEF Typed
    <2>3. wait_num' \in [Modules -> Int]
      BY <1>1, <1>2, <1>3, <2>2 DEF Typed
    <2> QED BY <2>1, <2>3
  <1> QED BY <1>1, <1>3, <1>11, <1>12, <1>13, <1>14, DeliverRest DEF Typed

\* A report of sensors wakes all who wait for them.
LEMMA HitKeeps ==
  ASSUME IInv, Deliver, Head(Queue).op = "hit", Hit(Head(Queue))
  PROVE  IInv'
  <1>a. PICK r : r = Head(Queue)
    OBVIOUS
  <1>b. PICK m : m = r.module
    OBVIOUS
  <1>c. PICK hit : hit = {s \in r.bits : wait_num[m] # 0 /\ sensor_tid[s] # Nobody}
    OBVIOUS
  <1>1. /\ sensor_tid' = [s \in Sensors |-> IF s \in hit THEN Nobody ELSE sensor_tid[s]]
        /\ wait_num' = [wait_num EXCEPT ![m] = wait_num[m] - Cardinality(hit)]
        /\ client' = [c \in Clients |->
                        IF c \in {sensor_tid[s] : s \in hit} THEN "running" ELSE client[c]]
        /\ UNCHANGED <<answer, forgotten>>
    BY <1>a, <1>b, <1>c DEF Hit
  <1>2. /\ r \in AllRequests /\ r.op = "hit" /\ m \in Modules
        /\ hit \subseteq Sensors /\ \A s \in hit : Module[s] = m /\ sensor_tid[s] # Nobody
    <2>1. r \in AllRequests /\ r.op = "hit"
      BY <1>a, DeliverFacts
    <2> QED BY <1>b, <1>c, <2>1, RequestFacts
  <1>3. Typed
    BY DEF IInv
  <1>4. \A c \in Clients : 1 \notin SentOf(Queue, c)
    BY <1>a, <1>2, DeliverSent
  <1>5. \A c \in Clients : Held(c)' = Held(c) \ hit
    BY <1>1, <1>2, LocationServerNames DEF Held
  <1>6. ASSUME NEW c \in Clients, NEW s \in hit, sensor_tid[s] = c
        PROVE  /\ client[c] \in {"asking", "waiting"} /\ client'[c] = "running"
               /\ SentOf(Queue', c) = {} /\ Held(c)' = {} /\ c \notin forgotten
    <2>1. s \in Held(c)
      BY <1>2, <1>6 DEF Held
    <2>2. /\ client[c] \in {"asking", "waiting"} /\ SentOf(Queue, c) = {} /\ c \notin forgotten
          /\ \E u \in Sensors : Held(c) = {u}
      BY <2>1 DEF IInv, OnePlace
    <2>3. Held(c) = {s}
      BY <2>1, <2>2
    <2>4. client'[c] = "running"
      BY <1>1, <1>6
    <2>5. SentOf(Queue', c) = {}
      BY <2>2, DeliverSent
    <2> QED BY <1>5, <2>2, <2>3, <2>4, <2>5
  <1>7. ASSUME NEW c \in Clients, \A s \in hit : sensor_tid[s] # c
        PROVE  client'[c] = client[c] /\ Held(c)' = Held(c)
    <2>1. client'[c] = client[c]
      BY <1>1, <1>7
    <2>2. Held(c) \cap hit = {}
      BY <1>7 DEF Held
    <2> QED BY <1>5, <2>1, <2>2
  <1>8. OnePlace'
    <2> SUFFICES ASSUME NEW c \in Clients
                 PROVE  IF client'[c] \in {"asking", "waiting"} /\ c \notin forgotten'
                          THEN \/ (\E k \in DOMAIN Queue' : SentOf(Queue', c) = {k}) /\ Held(c)' = {}
                               \/ SentOf(Queue', c) = {} /\ \E u \in Sensors : Held(c)' = {u}
                          ELSE SentOf(Queue', c) = {} /\ Held(c)' = {}
      BY DEF OnePlace
    <2>1. CASE \E s \in hit : sensor_tid[s] = c
      BY <1>6, <2>1
    <2>2. CASE \A s \in hit : sensor_tid[s] # c
      <3>1. /\ SentOf(Queue, c) = {} => SentOf(Queue', c) = {}
            /\ (\E k \in DOMAIN Queue : SentOf(Queue, c) = {k}) =>
                 \E k \in DOMAIN Queue' : SentOf(Queue', c) = {k}
        BY <1>4, DeliverOthers
      <3>2. client'[c] = client[c] /\ Held(c)' = Held(c) /\ forgotten' = forgotten
        BY <1>1, <1>7, <2>2
      <3> QED BY <3>1, <3>2 DEF IInv, OnePlace
    <2> QED BY <2>1, <2>2
  <1>9. \A c \in Clients : client'[c] = client[c]
                           \/ (client[c] \in {"asking", "waiting"} /\ client'[c] = "running")
    BY <1>6, <1>7
  <1>10. Stuck'
    BY <1>1, <1>6, <1>7 DEF IInv, Stuck
  <1>11. Cardinality(hit) \in Nat
    <2>1. IsFiniteSet(hit)
      BY <1>2, LocationServerAssumption, FS_Subset
    <2> QED BY <2>1, FS_CardinalityType
  <1>12. WaitNumHonest'
    <2> SUFFICES ASSUME NEW n \in Modules
                 PROVE  wait_num'[n] = Cardinality(WaitingAt(sensor_tid', n))
      BY DEF WaitNumHonest, WaitingAt
    <2>1. wait_num[n] = Cardinality(WaitingAt(sensor_tid, n)) /\ wait_num[n] \in Int
      BY <1>3 DEF IInv, WaitNumHonest, WaitingAt, Typed
    <2>2. WaitingAt(sensor_tid', n) = WaitingAt(sensor_tid, n) \ hit
      BY <1>1 DEF WaitingAt
    <2>3. CASE n # m
      <3>1. WaitingAt(sensor_tid, n) \cap hit = {}
        BY <1>2, <2>3 DEF WaitingAt
      <3>2. WaitingAt(sensor_tid', n) = WaitingAt(sensor_tid, n)
        BY <2>2, <3>1
      <3>3. wait_num'[n] = wait_num[n]
        BY <1>1, <1>2, <1>3, <2>3 DEF Typed
      <3> QED BY <2>1, <3>2, <3>3
    <2>4. CASE n = m
      <3>1. hit \subseteq WaitingAt(sensor_tid, m)
        BY <1>2 DEF WaitingAt
      <3>2. IsFiniteSet(WaitingAt(sensor_tid, m)) /\ Cardinality(WaitingAt(sensor_tid, m)) \in Nat
        BY WaitingFinite
      <3>3. WaitingAt(sensor_tid, m) \cap hit = hit
        BY <3>1
      <3>4. Cardinality(WaitingAt(sensor_tid, m) \ hit) =
              Cardinality(WaitingAt(sensor_tid, m)) - Cardinality(WaitingAt(sensor_tid, m) \cap hit)
        BY <3>2, FS_Difference
      <3>5. wait_num'[m] = wait_num[m] - Cardinality(hit)
        BY <1>1, <1>2, <1>3 DEF Typed
      <3> QED BY <2>1, <2>2, <2>4, <3>3, <3>4, <3>5
    <2> QED BY <2>3, <2>4
  <1>13. /\ sensor_tid' \in [Sensors -> Clients \cup {Nobody}]
         /\ client' \in [Clients -> {"running", "sending", "commanding", "asking", "waiting"}]
    BY <1>1, <1>3 DEF Typed
  <1>14. wait_num' \in [Modules -> Int]
    <2>1. wait_num[m] - Cardinality(hit) \in Int
      BY <1>2, <1>3, <1>11 DEF Typed
    <2> QED BY <1>1, <1>3, <2>1 DEF Typed
  <1> QED BY <1>1, <1>3, <1>8, <1>9, <1>10, <1>12, <1>13, <1>14, DeliverRest DEF Typed

LEMMA NextKeeps == IInv /\ [Next]_vars => IInv'
  <1> SUFFICES ASSUME IInv, [Next]_vars PROVE IInv'
    OBVIOUS
  <1>1. ASSUME NEW c \in Clients, NEW r \in Requests(c), Ask(c, r) PROVE IInv'
    BY <1>1, AskKeeps
  <1>2. ASSUME NEW c \in Clients, Command(c) PROVE IInv'
    BY <1>2, CommandKeeps
  <1>3. ASSUME NEW c \in Clients, Receive(c) PROVE IInv'
    BY <1>3, ReceiveKeeps
  <1>4. CASE ReceiveCourier
    BY <1>4, ReceiveCourierKeeps
  <1>5. CASE Deliver
    BY <1>5, DeliverFacts, SetKeeps, GetKeeps, WaitKeeps, HitKeeps
  <1>6. CASE UNCHANGED vars
    BY <1>6, StutterKeeps
  <1> QED BY <1>1, <1>2, <1>3, <1>4, <1>5, <1>6 DEF Next

LEMMA Invariance == Spec => []IInv
  BY InitInv, NextKeeps, PTL DEF Spec
-----------------------------------------------------------------------------
(***************************************************************************)
(* The invariants of the runs.                                             *)
(***************************************************************************)
LEMMA Renamed ==
  /\ \A c : Sent(c) = SentOf(Queue, c)
  /\ \A d, n : Then(d, n) = ThenOf(Queue, model, d, n)
  BY DEF Sent, SentOf, Then, ThenOf, SetsOf, Notes

LEMMA FollowsImplies == IInv => ModelFollowsDevice
  <1> SUFFICES ASSUME IInv, NEW d \in Devices \ muddled
               PROVE  Then(d, Len(Queue)) =
                        IF Commanding(d) = {} THEN hardware[d]
                        ELSE request[CHOOSE c \in Commanding(d) : TRUE].value
    BY DEF ModelFollowsDevice
  <1>1. Then(d, Len(Queue)) = ThenOf(Queue, model, d, Len(Queue))
    BY Renamed
  <1>2. Commanding(d) # {} => (CHOOSE c \in Commanding(d) : TRUE) \in Commanding(d)
    OBVIOUS
  <1> QED BY <1>1, <1>2 DEF IInv, Follows

LEMMA OnePlaceImplies == IInv => NobodyForgotten
  <1> SUFFICES ASSUME IInv, NEW c \in Clients \ forgotten
               PROVE  Cardinality(Sent(c)) + Cardinality(Held(c))
                        = IF client[c] \in {"asking", "waiting"} THEN 1 ELSE 0
    BY DEF NobodyForgotten, Held
  <1>1. Sent(c) = SentOf(Queue, c)
    BY Renamed
  <1>2. Cardinality({}) = 0 /\ \A x : Cardinality({x}) = 1
    BY FS_EmptySet, FS_Singleton
  <1>3. CASE client[c] \in {"asking", "waiting"}
    <2>1. \/ (\E k : SentOf(Queue, c) = {k}) /\ Held(c) = {}
          \/ SentOf(Queue, c) = {} /\ \E s : Held(c) = {s}
      BY <1>3 DEF IInv, OnePlace
    <2>2. \/ Cardinality(Sent(c)) = 1 /\ Cardinality(Held(c)) = 0
          \/ Cardinality(Sent(c)) = 0 /\ Cardinality(Held(c)) = 1
      BY <1>1, <1>2, <2>1
    <2> QED BY <1>3, <2>2
  <1>4. CASE client[c] \notin {"asking", "waiting"}
    <2>1. Sent(c) = {} /\ Held(c) = {}
      BY <1>1, <1>4 DEF IInv, OnePlace
    <2> QED BY <1>2, <1>4, <2>1
  <1> QED BY <1>3, <1>4

\* A device that two tasks do not command at once does in the end what the server
\* believes, however reports and commands of several tasks interleave, if its last
\* command is of a value that the server accepts: one that it ignores is sent to the
\* device all the same, and muddles it until the next that it accepts.
THEOREM ModelFollows == Spec => []ModelFollowsDevice
  BY Invariance, FollowsImplies, PTL

\* A client in a Send that has not been answered has one request on its way or one
\* sensor that it waits for, unless its request was dropped or its sensor taken.
THEOREM NoClientForgotten == Spec => []NobodyForgotten
  BY Invariance, OnePlaceImplies, PTL

\* wait_num, which alone decides that a report wakes nobody, counts the waiters of
\* its module: wait_module_add and wait_module_update keep it by hand.
THEOREM WaitNumCounts == Spec => []WaitNumHonest
  BY Invariance, PTL DEF IInv
-----------------------------------------------------------------------------
(***************************************************************************)
(* The board.                                                              *)
(***************************************************************************)
\* The answer that client c is due, as Board maps it.
Due(c) == DueOf(Queue, model, c)
Value(d) == ThenOf(Queue, model, d, Len(Queue))

LEMMA Mapping ==
  /\ [d \in Devices |-> Then(d, Len(Queue))] = [d \in Devices |-> Value(d)]
  /\ [c \in Clients |-> IF \E k \in Sent(c) : Queue[k].op = "get"
                        THEN LET k == CHOOSE k \in Sent(c) : Queue[k].op = "get"
                             IN  Then(Queue[k].device, k)
                        ELSE Nothing] = [c \in Clients |-> Due(c)]
  BY Renamed DEF Value, Due, DueOf

LEMMA RenamedNext ==
  /\ \A c : Sent(c)' = SentOf(Queue', c)
  /\ \A d, n : Then(d, n)' = ThenOf(Queue', model', d, n)
  BY DEF Sent, SentOf, Then, ThenOf, SetsOf, Notes

LEMMA MappingNext ==
  /\ [d \in Devices |-> Then(d, Len(Queue))]' = [d \in Devices |-> Value(d)']
  /\ [c \in Clients |-> IF \E k \in Sent(c) : Queue[k].op = "get"
                        THEN LET k == CHOOSE k \in Sent(c) : Queue[k].op = "get"
                             IN  Then(Queue[k].device, k)
                        ELSE Nothing]' = [c \in Clients |-> Due(c)']
  BY RenamedNext DEF Value, Due, DueOf

\* Nothing is written, read or answered.
LEMMA BoardStutters ==
  ASSUME \A d \in Devices : Value(d)' = Value(d), \A c \in Clients : Due(c)' = Due(c),
         answer' = answer
  PROVE  UNCHANGED Board!vars
  BY Mapping, MappingNext DEF Board!vars

LEMMA BoardWrites ==
  ASSUME NEW d \in Devices, NEW v \in Accepted[d],
         \A e \in Devices : Value(e)' = IF e = d THEN v ELSE Value(e),
         \A c \in Clients : Due(c)' = Due(c), answer' = answer
  PROVE  Board!Next
  <1>1. [e \in Devices |-> Value(e)'] = [[e \in Devices |-> Value(e)] EXCEPT ![d] = v]
    OBVIOUS
  <1>2. Board!Write(d, v)
    BY <1>1, Mapping, MappingNext DEF Board!Write
  <1> QED BY <1>2 DEF Board!Next

LEMMA BoardReads ==
  ASSUME NEW c \in Clients, NEW d \in Devices, Due(c) = Nothing, Due(c)' = Value(d),
         \A b \in Clients : b # c => Due(b)' = Due(b),
         \A e \in Devices : Value(e)' = Value(e), answer' = answer
  PROVE  Board!Next
  <1>1. [b \in Clients |-> Due(b)'] = [[b \in Clients |-> Due(b)] EXCEPT ![c] = Value(d)]
    OBVIOUS
  <1>2. [b \in Clients |-> Due(b)][c] = Nothing /\ [e \in Devices |-> Value(e)][d] = Value(d)
    OBVIOUS
  <1>3. [e \in Devices |-> Value(e)'] = [e \in Devices |-> Value(e)]
    OBVIOUS
  <1>4. Board!Read(c, d)
    BY <1>1, <1>2, <1>3, Mapping, MappingNext, Zenon DEF Board!Read, Board!Nothing, Nothing
  <1> QED BY <1>4 DEF Board!Next

LEMMA BoardAnswers ==
  ASSUME NEW c \in Clients, Due(c) # Nothing, Due(c)' = Nothing,
         \A b \in Clients : b # c => Due(b)' = Due(b),
         \A e \in Devices : Value(e)' = Value(e), answer' = [answer EXCEPT ![c] = Due(c)]
  PROVE  Board!Next
  <1>1. [b \in Clients |-> Due(b)'] = [[b \in Clients |-> Due(b)] EXCEPT ![c] = Nothing]
    OBVIOUS
  <1>2. answer' = [answer EXCEPT ![c] = [b \in Clients |-> Due(b)][c]]
        /\ [b \in Clients |-> Due(b)][c] # Nothing
    OBVIOUS
  <1>3. [e \in Devices |-> Value(e)'] = [e \in Devices |-> Value(e)]
    OBVIOUS
  <1>4. Board!Answer(c)
    BY <1>1, <1>2, <1>3, Mapping, MappingNext DEF Board!Answer, Board!Nothing, Nothing
  <1> QED BY <1>4 DEF Board!Next

LEMMA BoardPutsAway ==
  ASSUME NEW c \in Clients, \A d \in Devices : Value(d)' = Value(d),
         \A b \in Clients : Due(b)' = Due(b), answer' = [answer EXCEPT ![c] = Nothing]
  PROVE  Board!Next
  <1>1. Board!PutAway(c)
    BY Mapping, MappingNext DEF Board!PutAway, Board!Nothing, Nothing
  <1> QED BY <1>1 DEF Board!Next

LEMMA InitMaps == Init => Board!Init
  <1> SUFFICES ASSUME Init PROVE Board!Init
    OBVIOUS
  <1>1. Queue = <<>> /\ Len(Queue) = 0 /\ DOMAIN Queue = {}
    <2>1. Queue = <<>> \o <<>>
      BY DEF Init, Queue
    <2> QED BY <2>1, EmptySeq, ConcatEmptySeq
  <1>2. \A d \in Devices : Value(d) = Initial
    <2>1. \A d \in Devices : SetsOf(Queue, d, 0) = {}
      BY DEF SetsOf
    <2> QED BY <1>1, <2>1 DEF Init, Value, ThenOf
  <1>3. \A c \in Clients : Due(c) = Nothing
    BY <1>1, DueNone DEF Due, SentOf
  <1> QED BY <1>2, <1>3, Mapping, LocationServerAssumption DEF Init, Board!Init, Board!Nothing, Nothing

\* What the lemmas on the answers due ask of the queue.
LEMMA QueueFacts ==
  ASSUME IInv
  PROVE  /\ Queue \in Seq(AllRequests) /\ HasLast(Queue)
         /\ \A c \in Clients : OneSent(Queue, c)
         /\ \A c \in Clients : \A k \in SentOf(Queue, c) :
              Queue[k].op = "get" => Queue[k].device \in Devices
  <1>1. Queue \in Seq(AllRequests) /\ HasLast(Queue)
    BY QueueTyped DEF IInv
  <1>2. \A c \in Clients : OneSent(Queue, c)
    BY DEF IInv, OnePlace, OneSent
  <1>3. \A k \in DOMAIN Queue : Queue[k] \in AllRequests
    BY <1>1, ElementOfSeq, LenProperties
  <1> QED BY <1>1, <1>2, <1>3, RequestFacts DEF SentOf

LEMMA ReceiveMaps ==
  ASSUME IInv, NEW c \in Clients, Receive(c)
  PROVE  [Board!Next]_(Board!vars)
  <1>a. PICK r : r = request[c]
    OBVIOUS
  <1>b. PICK q \in Seq(AllRequests) : q = Queue
    BY QueueFacts
  <1>c. PICK mod : mod = model
    OBVIOUS
  <1>1. /\ r \in AllRequests /\ r.from = c /\ client[c] = "sending"
        /\ Queue' = IF Len(buffer) < BUFFER THEN Append(Queue, r) ELSE Queue
        /\ UNCHANGED <<model, answer>>
    BY <1>a, ReceiveQueue DEF IInv, Receive, board
  <1>2. HasLast(q) /\ SentOf(q, c) = {}
    BY <1>b, <1>c, <1>1, QueueFacts DEF IInv, OnePlace
  <1>3. CASE ~(Len(buffer) < BUFFER)
    <2>1. Queue' = Queue
      BY <1>1, <1>3
    <2>2. \A d \in Devices : Value(d)' = Value(d)
      BY <1>1, <2>1 DEF Value
    <2>3. \A b \in Clients : Due(b)' = Due(b)
      BY <1>1, <2>1 DEF Due
    <2> QED BY <1>1, <2>2, <2>3, BoardStutters
  <1>4. CASE Len(buffer) < BUFFER
    <2>1. Queue' = Append(q, r) /\ model' = mod
      BY <1>b, <1>c, <1>1, <1>4
    <2>2. \A d \in Devices : Value(d)' =
            IF Notes(r, d) THEN r.value ELSE Value(d)
      <3>1. \A d \in Devices : ThenOf(Append(q, r), mod, d, Len(q) + 1) =
              IF Notes(r, d) THEN r.value ELSE ThenOf(q, mod, d, Len(q))
        <4>1. r \in AllRequests /\ HasLast(q)
          BY <1>1, <1>2
        <4> QED BY <4>1, ThenAppend
      <3>2. Len(Append(q, r)) = Len(q) + 1
        BY <1>1, AppendFacts
      <3> QED BY <1>b, <1>c, <2>1, <3>1, <3>2 DEF Value
    <2>3. \A b \in Clients : ~(r.from = b /\ r.op \in {"get", "wait"}) => Due(b)' = Due(b)
      <3> SUFFICES ASSUME NEW b \in Clients, ~(r.from = b /\ r.op \in {"get", "wait"})
                   PROVE  Due(b)' = Due(b)
        OBVIOUS
      <3>1. OneSent(q, b) /\ \A k \in SentOf(q, b) : q[k].op = "get" => q[k].device \in Devices
        BY <1>b, <1>c, QueueFacts
      <3>2. DueOf(Append(q, r), mod, b) = DueOf(q, mod, b)
        BY <1>1, <1>2, <3>1, DueAppend
      <3> QED BY <1>b, <1>c, <2>1, <3>2 DEF Due
    <2>4. Due(c) = Nothing
      BY <1>b, <1>c, <1>2, DueNone DEF Due
    <2>5. OneSent(q, c) /\ \A k \in SentOf(q, c) : q[k].op = "get" => q[k].device \in Devices
      BY <1>2 DEF OneSent
    <2>6. CASE r.op = "set"
      <3>1. \A b \in Clients : Due(b)' = Due(b)
        BY <2>3, <2>6
      <3>2. CASE Accepts(r)
        <4>1. r.device \in Devices /\ r.value \in Accepted[r.device]
          BY <1>1, <2>6, <3>2, RequestFacts DEF Accepts
        <4>2. \A e \in Devices : Value(e)' = IF e = r.device THEN r.value ELSE Value(e)
          BY <2>2, <2>6, <3>2 DEF Notes
        <4> QED BY <1>1, <3>1, <4>1, <4>2, BoardWrites
      <3>3. CASE ~Accepts(r)
        <4>1. \A e \in Devices : Value(e)' = Value(e)
          BY <2>2, <3>3 DEF Notes
        <4> QED BY <1>1, <3>1, <4>1, BoardStutters
      <3> QED BY <3>2, <3>3
    <2>7. CASE r.op = "get"
      <3>1. r.device \in Devices
        BY <1>1, <2>7, RequestFacts
      <3>2. DueOf(Append(q, r), mod, c) = ThenOf(q, mod, r.device, Len(q))
        BY <1>1, <1>2, <2>5, <2>7, <3>1, DueAppend
      <3>3. Due(c)' = Value(r.device)
        BY <1>b, <1>c, <2>1, <3>2 DEF Due, Value
      <3>4. \A b \in Clients : b # c => Due(b)' = Due(b)
        BY <1>1, <2>3
      <3>5. \A e \in Devices : Value(e)' = Value(e)
        BY <2>2, <2>7 DEF Notes
      <3> QED BY <1>1, <2>4, <3>1, <3>3, <3>4, <3>5, BoardReads
    <2>8. CASE r.op \in {"wait", "hit"}
      <3>1. \A e \in Devices : Value(e)' = Value(e)
        BY <2>2, <2>8 DEF Notes
      <3>2. r.op = "wait" => Due(c)' = Due(c)
        <4> SUFFICES ASSUME r.op = "wait" PROVE Due(c)' = Due(c)
          OBVIOUS
        <4>1. DueOf(Append(q, r), mod, c) = Nothing
          BY <1>1, <1>2, <2>5, DueAppend
        <4> QED BY <1>b, <1>c, <2>1, <2>4, <4>1 DEF Due
      <3>3. \A b \in Clients : Due(b)' = Due(b)
        BY <1>1, <2>3, <2>8, <3>2
      <3> QED BY <1>1, <3>1, <3>3, BoardStutters
    <2> QED BY <1>1, <2>6, <2>7, <2>8, RequestFacts
  <1> QED BY <1>3, <1>4

LEMMA DeliverMaps ==
  ASSUME IInv, Deliver
  PROVE  [Board!Next]_(Board!vars)
  <1>a. PICK r : r = Head(Queue)
    OBVIOUS
  <1>b. PICK q \in Seq(AllRequests), mod \in [Devices -> Values] : q = Queue /\ mod = model
    BY QueueFacts DEF IInv, Typed
  <1>c. PICK mod2 : mod2 = model'
    OBVIOUS
  <1>1. /\ q # <<>> /\ Head(q) = r /\ r \in AllRequests /\ Queue' = Tail(q) /\ HasLast(q)
        /\ mod2 = Noted(mod, Head(q))
        /\ \/ r.op = "set" /\ Set(r)
           \/ r.op = "get" /\ Get(r)
           \/ r.op = "wait" /\ Wait(r)
           \/ r.op = "hit" /\ Hit(r)
    BY <1>a, <1>b, <1>c, DeliverFacts, QueueFacts
  <1>2. \A d \in Devices : Value(d)' = Value(d)
    <2>1. /\ \A d \in Devices, n \in 1 .. Len(q) :
               ThenOf(Tail(q), mod2, d, n - 1) = ThenOf(q, mod, d, n)
          /\ Len(q) \in 1 .. Len(q) /\ Len(Tail(q)) = Len(q) - 1
      <3>1. /\ q # <<>> /\ HasLast(q)
            /\ mod2 = Noted(mod, Head(q))
        BY <1>1
      <3>2. \A d \in Devices, n \in 1 .. Len(q) :
              ThenOf(Tail(q), mod2, d, n - 1) = ThenOf(q, mod, d, n)
        BY <3>1, ThenTail
      <3>3. Len(q) \in 1 .. Len(q) /\ Len(Tail(q)) = Len(q) - 1
        BY <3>1, TailFacts
      <3> QED BY <3>2, <3>3
    <2> QED BY <1>b, <1>c, <1>1, <2>1 DEF Value
  <1>3. \A c \in Clients :
          /\ ~(r.from = c /\ r.op = "get") => Due(c)' = Due(c)
          /\ r.from = c /\ r.op = "get" => Due(c) = mod[r.device] /\ Due(c)' = Nothing
    <2> SUFFICES ASSUME NEW c \in Clients
                 PROVE  /\ ~(r.from = c /\ r.op = "get") => Due(c)' = Due(c)
                        /\ r.from = c /\ r.op = "get" => Due(c) = mod[r.device] /\ Due(c)' = Nothing
      OBVIOUS
    <2>1. OneSent(q, c) /\ \A k \in SentOf(q, c) : q[k].op = "get" => q[k].device \in Devices
      BY <1>b, <1>c, QueueFacts
    <2>2. /\ ~(Head(q).from = c /\ Head(q).op = "get") =>
               DueOf(Tail(q), mod2, c) = DueOf(q, mod, c)
          /\ Head(q).from = c /\ Head(q).op = "get" =>
               DueOf(q, mod, c) = mod[Head(q).device] /\ DueOf(Tail(q), mod2, c) = Nothing
      <3>1. /\ q # <<>> /\ HasLast(q)
            /\ mod2 = Noted(mod, Head(q))
        BY <1>1
      <3> QED BY <2>1, <3>1, DueTail
    <2> QED BY <1>b, <1>c, <1>1, <2>2 DEF Due
  <1>4. CASE r.op = "get" /\ Get(r)
    <2>1. r.from \in Clients /\ r.device \in Devices
      BY <1>1, <1>4, RequestFacts
    <2>2. Due(r.from) = mod[r.device] /\ Due(r.from)' = Nothing /\ mod[r.device] \in Values
      BY <1>3, <1>4, <2>1
    <2>3. answer' = [answer EXCEPT ![r.from] = Due(r.from)]
      BY <1>b, <1>c, <1>4, <2>2 DEF Get
    <2>4. Due(r.from) # Nothing
      BY <2>2, LocationServerNames
    <2>5. \A b \in Clients : b # r.from => Due(b)' = Due(b)
      BY <1>3
    <2> QED BY <1>2, <2>1, <2>2, <2>3, <2>4, <2>5, BoardAnswers
  <1>5. CASE r.op # "get" /\ answer' = answer
    <2>1. \A c \in Clients : Due(c)' = Due(c)
      BY <1>3, <1>5
    <2> QED BY <1>2, <1>5, <2>1, BoardStutters
  <1> QED BY <1>1, <1>4, <1>5 DEF Set, Wait, Hit

LEMMA StepMaps == IInv /\ [Next]_vars => [Board!Next]_(Board!vars)
  <1> SUFFICES ASSUME IInv, [Next]_vars PROVE [Board!Next]_(Board!vars)
    OBVIOUS
  <1>1. ASSUME Queue' = Queue, model' = model
        PROVE  /\ \A d \in Devices : Value(d)' = Value(d)
               /\ \A c \in Clients : Due(c)' = Due(c)
    BY <1>1 DEF Value, Due
  <1>2. ASSUME NEW c \in Clients, NEW r \in Requests(c), Ask(c, r) PROVE Board!Next
    <2>1. answer' = [answer EXCEPT ![c] = Nothing] /\ Queue' = Queue /\ model' = model
      BY <1>2 DEF Ask, front, Queue
    <2> QED BY <1>1, <2>1, BoardPutsAway
  <1>3. ASSUME NEW c \in Clients, Command(c) PROVE UNCHANGED Board!vars
    <2>1. answer' = answer /\ Queue' = Queue /\ model' = model
      BY <1>3 DEF Command, front, board, Queue
    <2> QED BY <1>1, <2>1, BoardStutters
  <1>4. CASE ReceiveCourier
    <2>1. answer' = answer /\ Queue' = Queue /\ model' = model
      BY <1>4, ReceiveCourierQueue DEF IInv, ReceiveCourier, board
    <2> QED BY <1>1, <2>1, BoardStutters
  <1>5. CASE UNCHANGED vars
    <2>1. answer' = answer /\ Queue' = Queue /\ model' = model
      BY <1>5 DEF vars, front, board, Queue
    <2> QED BY <1>1, <2>1, BoardStutters
  <1> QED BY <1>2, <1>3, <1>4, <1>5, ReceiveMaps, DeliverMaps DEF Next

\* A reader is told what was last written when its request was taken in, however
\* long secretary, courier and server take, and whatever is dropped on the way or
\* ignored by the server.
THEOREM BoardImplemented == Spec => ImplementsBoard
  BY Invariance, InitMaps, StepMaps, PTL DEF Spec, ImplementsBoard, Board!Spec
-----------------------------------------------------------------------------
(***************************************************************************)
(* Module TrainTracking: the models that the location server keeps of the  *)
(* trains, on any track (TrackIsWhole) and whatever they believe.          *)
(***************************************************************************)
CONSTANTS Trains, Nodes, reverse, type, edge, Start, TOLERANCE, MAX_TURNS

VARIABLES switches, active, models, place, turns, pressed

Tracking == INSTANCE TrainTracking WITH model <- models

Fields == {"speed", "known", "arc", "travelled", "next_sensor", "left"}

\* What the server knows of or looks for, and what has moved, is among the
\* active trains, which are in an order.
Tracked ==
  /\ active \in Seq(Trains)
  /\ \A i, j \in DOMAIN active : active[i] = active[j] => i = j
  /\ DOMAIN models = Trains /\ DOMAIN place = Trains
  /\ pressed \in [Trains -> Nodes \cup {Tracking!NoNode}]
  /\ \A t \in Trains :
       /\ DOMAIN models[t] = Fields
       /\ models[t].known \/ models[t].speed > 0 \/ pressed[t] # Tracking!NoNode
            => \E i \in DOMAIN active : active[i] = t

\* The handlers keep what a model is made of, the speed, and that a train is lost.
LEMMA Models ==
  ASSUME NEW m, DOMAIN m = Fields
  PROVE  /\ \A s : /\ DOMAIN Tracking!Located(m, s) = Fields
                   /\ Tracking!Located(m, s).speed = m.speed
                   /\ \/ Tracking!Located(m, s).arc = <<s, 1>>
                      \/ Tracking!Located(m, s).arc = Tracking!NoArc
         /\ DOMAIN Tracking!Updated(m) = Fields
         /\ Tracking!Updated(m).speed = m.speed
         /\ Tracking!Updated(m).known => m.known
         /\ DOMAIN Tracking!TurnedRound(m) = Fields
         /\ Tracking!TurnedRound(m).speed = m.speed
         /\ Tracking!TurnedRound(m).known => m.known
<1>1. /\ DOMAIN Tracking!Unknown(m.speed) = Fields
      /\ Tracking!Unknown(m.speed).speed = m.speed /\ ~Tracking!Unknown(m.speed).known
      /\ Tracking!Unknown(m.speed).arc = Tracking!NoArc
  BY DEF Tracking!Unknown, Fields
<1>2. ASSUME NEW s
      PROVE  /\ DOMAIN Tracking!Located(m, s) = Fields
             /\ Tracking!Located(m, s).speed = m.speed
             /\ \/ Tracking!Located(m, s).arc = <<s, 1>>
                \/ Tracking!Located(m, s).arc = Tracking!NoArc
  BY <1>1 DEF Tracking!Located, Fields
<1>3. /\ DOMAIN Tracking!Updated(m) = Fields
      /\ Tracking!Updated(m).speed = m.speed
      /\ Tracking!Updated(m).known => m.known
  BY <1>1 DEF Tracking!Updated, Fields
<1>4. /\ DOMAIN Tracking!TurnedRound(m) = Fields
      /\ Tracking!TurnedRound(m).speed = m.speed
      /\ Tracking!TurnedRound(m).known => m.known
  BY <1>1 DEF Tracking!TurnedRound, Fields
<1> QED BY <1>2, <1>3, <1>4

\* A set of numbers that is not empty has a least one.
LEMMA LeastOne ==
  ASSUME NEW B \in SUBSET Nat, B # {}
  PROVE  \E p \in B : \A q \in B : p <= q
<1>1. PICK p \in B : \A q \in B : ~(<<q, p>> \in OpToRel(<, Nat))
  BY WFMin, NatLessThanWellFounded
<1>2. \A q \in B : ~(q < p)
  BY <1>1 DEF OpToRel
<1>3. \A q \in B : q \in Nat
  OBVIOUS
<1> QED BY <1>2, <1>3

\* A sensor that is left is one that was triggered and that no train took.
LEMMA LeftOver ==
  ASSUME Tracking!TrackIsWhole, Tracked, NEW m, Tracking!Untaken(m) # {}
  PROVE  Tracking!Min(Tracking!Untaken(m)) \in Tracking!Untaken(m)
<1>1. Tracking!Untaken(m) \in SUBSET Nat
  <2>1. \A t \in Trains : pressed[t] # Tracking!NoNode => pressed[t] \in Nat
    BY DEF Tracked, Tracking!TrackIsWhole
  <2>2. \A s \in Tracking!Triggered(m) : s \in Nat
    BY <2>1 DEF Tracking!Triggered
  <2> QED BY <2>2 DEF Tracking!Untaken
<1>2. PICK p \in Tracking!Untaken(m) : \A q \in Tracking!Untaken(m) : p <= q
  BY <1>1, LeastOne
<1> QED BY <1>2 DEF Tracking!Min

LEMMA InitTracked == Tracking!TrackIsWhole /\ Tracking!Init => Tracked
<1> SUFFICES ASSUME Tracking!TrackIsWhole, Tracking!Init PROVE Tracked
  OBVIOUS
<1>1. active \in Seq(Trains) /\ DOMAIN active = {}
  BY DEF Tracking!Init
<1>2. DOMAIN models = Trains /\ DOMAIN place = Trains
      /\ pressed \in [Trains -> Nodes \cup {Tracking!NoNode}]
  BY DEF Tracking!Init, Tracking!TrackIsWhole
<1>3. ASSUME NEW t \in Trains
      PROVE  /\ DOMAIN models[t] = Fields /\ ~models[t].known /\ ~(models[t].speed > 0)
             /\ pressed[t] = Tracking!NoNode
  BY DEF Tracking!Init, Tracking!Unknown, Fields
<1> QED BY <1>1, <1>2, <1>3 DEF Tracked

\* Nobody but a report or a move makes a train known or presses a sensor, and a
\* report finds only trains that were known or have a speed.
LEMMA NextTracked ==
  ASSUME Tracking!TrackIsWhole, Tracked, [Tracking!Next]_(Tracking!vars)
  PROVE  Tracked'
<1> USE DEF Tracked
<1>1. ASSUME NEW t \in Trains, NEW speed \in {0, 1}, Tracking!SetSpeed(t, speed) PROVE Tracked'
  <2>1. UNCHANGED <<place, pressed>> /\ models' = [models EXCEPT ![t].speed = speed]
    BY <1>1 DEF Tracking!SetSpeed
  <2>2. ASSUME NEW u \in Trains
        PROVE  /\ DOMAIN models'[u] = Fields
               /\ models'[u].known = models[u].known
               /\ models'[u].speed = IF u = t THEN speed ELSE models[u].speed
    BY <2>1 DEF Fields
  <2>3. Tracking!Contains(active, t) <=> \E i \in DOMAIN active : active[i] = t
    BY DEF Tracking!Contains
  <2>4. CASE speed > 0 /\ ~Tracking!Contains(active, t)
    <3>1. active' = Append(active, t)
      BY <1>1, <2>4 DEF Tracking!SetSpeed
    <3>2. /\ active' \in Seq(Trains) /\ DOMAIN active' = DOMAIN active \cup {Len(active) + 1}
          /\ \A i \in DOMAIN active : active'[i] = active[i]
          /\ active'[Len(active) + 1] = t
      BY <3>1
    <3>3. \A i, j \in DOMAIN active' : active'[i] = active'[j] => i = j
      BY <2>3, <2>4, <3>2
    <3>4. \A u \in Trains :
            (\E i \in DOMAIN active : active[i] = u) \/ u = t
            => \E i \in DOMAIN active' : active'[i] = u
      BY <3>2
    <3> QED BY <2>1, <2>2, <3>2, <3>3, <3>4
  <2>5. CASE ~(speed > 0 /\ ~Tracking!Contains(active, t))
    <3>1. active' = active
      BY <1>1, <2>5 DEF Tracking!SetSpeed
    <3>2. speed > 0 => \E i \in DOMAIN active : active[i] = t
      BY <2>3, <2>5
    <3> QED BY <2>1, <2>2, <3>1, <3>2
  <2> QED BY <2>4, <2>5
<1>2. ASSUME NEW t \in Trains, Tracking!TrainReverse(t) PROVE Tracked'
  <2>1. /\ UNCHANGED <<active, pressed>> /\ DOMAIN place' = DOMAIN place
        /\ models' = [models EXCEPT ![t] = Tracking!TurnedRound(models[t])]
    BY <1>2 DEF Tracking!TrainReverse
  <2>2. ASSUME NEW u \in Trains
        PROVE  /\ DOMAIN models'[u] = Fields
               /\ models'[u].known => models[u].known
               /\ models'[u].speed = models[u].speed
    BY <2>1, Models
  <2> QED BY <2>1, <2>2
<1>3. ASSUME Tracking!Tick PROVE Tracked'
  <2>1. /\ UNCHANGED <<active, pressed, place>>
        /\ models' = [t \in Trains |-> Tracking!Updated(models[t])]
    BY <1>3 DEF Tracking!Tick
  <2>2. ASSUME NEW u \in Trains
        PROVE  /\ DOMAIN models'[u] = Fields
               /\ models'[u].known => models[u].known
               /\ models'[u].speed = models[u].speed
    BY <2>1, Models
  <2> QED BY <2>1, <2>2
<1>4. ASSUME NEW m, Tracking!Report(m) PROVE Tracked'
  <2>1. /\ UNCHANGED <<active, place>>
        /\ DOMAIN models' = Trains
        /\ \A t \in Trains : pressed'[t] \in {pressed[t], Tracking!NoNode}
        /\ pressed' \in [Trains -> Nodes \cup {Tracking!NoNode}]
    BY <1>4 DEF Tracking!Report
  <2>2. ASSUME NEW u \in Trains
        PROVE  /\ DOMAIN models'[u] = Fields
               /\ models'[u].known => models[u].known \/ models[u].speed > 0
               /\ models'[u].speed = models[u].speed
    <3>1. \/ Tracking!Takes(u, m) /\ \E s : models'[u] = Tracking!Located(models[u], s)
          \/ Tracking!Gets(u, m) /\ \E s : models'[u] = Tracking!Located(models[u], s)
          \/ models'[u] = models[u]
      BY <1>4 DEF Tracking!Report
    <3>2. Tracking!Takes(u, m) => models[u].known
      BY DEF Tracking!Takes, Tracking!Expects
    <3>3. Tracking!Gets(u, m) => models[u].speed > 0
      BY DEF Tracking!Gets, Tracking!Lost
    <3>4. \A s : /\ DOMAIN Tracking!Located(models[u], s) = Fields
                 /\ Tracking!Located(models[u], s).speed = models[u].speed
      BY Models
    <3>5. DOMAIN models'[u] = Fields /\ models'[u].speed = models[u].speed
      BY <3>1, <3>4
    <3>6. models'[u] = models[u] \/ models[u].known \/ models[u].speed > 0
      BY <3>1, <3>2, <3>3
    <3> QED BY <3>5, <3>6
  <2> QED BY <2>1, <2>2
<1>5. ASSUME NEW t \in Trains, Tracking!Move(t) PROVE Tracked'
  <2>1. /\ UNCHANGED <<active, models>> /\ DOMAIN place' = DOMAIN place
        /\ models[t].speed > 0
        /\ pressed' = pressed \/ \E n \in Nodes : pressed' = [pressed EXCEPT ![t] = n]
    BY <1>5 DEF Tracking!Move, Tracking!Sensors
  <2> QED BY <2>1
<1>6. ASSUME NEW b, Tracking!SetSwitch(b) PROVE Tracked'
  BY <1>6 DEF Tracking!SetSwitch
<1>7. CASE UNCHANGED Tracking!vars
  BY <1>7 DEF Tracking!vars
<1> QED BY <1>1, <1>2, <1>3, <1>4, <1>5, <1>6, <1>7 DEF Tracking!Next, Tracking!Command

LEMMA AlwaysTracked == ASSUME Tracking!TrackIsWhole PROVE Tracking!Spec => []Tracked
<1>1. Tracking!Init => Tracked
  BY InitTracked
<1>2. Tracked /\ [Tracking!Next]_(Tracking!vars) => Tracked'
  BY NextTracked
<1> QED BY <1>1, <1>2, PTL DEF Tracking!Spec

\* What is read between two moves is what one report of the sensor task brings.
LEMMA ReadingIsReport ==
  ASSUME Tracked, [Tracking!Next]_(Tracking!vars), Tracking!Reading
  PROVE  \E m \in Tracking!Modules : Tracking!Report(m)
<1>1. pressed' # pressed /\ place' = place
  BY DEF Tracking!Reading
<1>2. ASSUME NEW t \in Trains, Tracking!Move(t) PROVE FALSE
  <2>1. place' = [place EXCEPT ![t] = Tracking!ArcFrom(Tracking!Dest(place[t]))]
    BY <1>2 DEF Tracking!Move
  <2>2. place[t] # Tracking!ArcFrom(Tracking!Dest(place[t]))
    BY <1>2 DEF Tracking!Move, Tracking!Occupied
  <2> QED BY <1>1, <2>1, <2>2 DEF Tracked
<1>3. ~Tracking!Command /\ ~Tracking!Tick /\ ~(UNCHANGED Tracking!vars)
  BY <1>1 DEF Tracking!Command, Tracking!SetSpeed, Tracking!TrainReverse, Tracking!SetSwitch,
              Tracking!Tick, Tracking!vars
<1> QED BY <1>2, <1>3 DEF Tracking!Next

\* Of two active trains one became active before the other.
LEMMA OneBefore ==
  ASSUME Tracked, NEW t \in Trains, NEW u \in Trains, t # u,
         \E i \in DOMAIN active : active[i] = t, \E i \in DOMAIN active : active[i] = u
  PROVE  Tracking!Before(t, u) \/ Tracking!Before(u, t)
<1>1. PICK i \in DOMAIN active : active[i] = t
  OBVIOUS
<1>2. PICK j \in DOMAIN active : active[j] = u
  OBVIOUS
<1>3. i < j \/ j < i
  BY <1>1, <1>2 DEF Tracked
<1> QED BY <1>1, <1>2, <1>3 DEF Tracking!Before

\* A sensor is taken by one train.
LEMMA TakenOnce ==
  ASSUME Tracking!TrackIsWhole, Tracked, NEW m, Tracking!Report(m), NEW s \in Tracking!Sensors,
         NEW t \in Trains, NEW u \in Trains, t # u,
         models'[t] # models[t], models'[t].arc = <<s, 1>>,
         models'[u] # models[u], models'[u].arc = <<s, 1>>
  PROVE  FALSE
<1>1. \A v \in Trains :
        models'[v] = IF Tracking!Takes(v, m) THEN Tracking!Located(models[v], models[v].next_sensor)
                    ELSE IF Tracking!Gets(v, m)
                         THEN Tracking!Located(models[v], Tracking!Min(Tracking!Untaken(m)))
                    ELSE models[v]
  BY DEF Tracking!Report
<1>2. s # Tracking!NoNode
  BY DEF Tracking!TrackIsWhole, Tracking!Sensors
<1>3. ASSUME NEW v \in Trains, models'[v] # models[v], models'[v].arc = <<s, 1>>
      PROVE  /\ \/ Tracking!Takes(v, m) /\ models[v].next_sensor = s
                \/ Tracking!Gets(v, m) /\ Tracking!Min(Tracking!Untaken(m)) = s
             /\ \E i \in DOMAIN active : active[i] = v
  <2>1. \A x : \/ Tracking!Located(models[v], x).arc = <<x, 1>>
               \/ Tracking!Located(models[v], x).arc = Tracking!NoArc
    <3>1. DOMAIN models[v] = Fields
      BY DEF Tracked
    <3> QED BY <3>1, Models
  <2>2. \A x : Tracking!Located(models[v], x).arc = <<s, 1>> => x = s
    BY <1>2, <2>1 DEF Tracking!NoArc
  <2>3. Tracking!Takes(v, m) => models[v].known
    BY DEF Tracking!Takes, Tracking!Expects
  <2>4. Tracking!Gets(v, m) => models[v].speed > 0
    BY DEF Tracking!Gets, Tracking!Lost
  <2>5. Tracking!Takes(v, m) \/ Tracking!Gets(v, m)
    BY <1>1, <1>3
  <2>6. \E i \in DOMAIN active : active[i] = v
    BY <2>3, <2>4, <2>5 DEF Tracked
  <2>7. CASE Tracking!Takes(v, m)
    BY <1>1, <1>3, <2>2, <2>6, <2>7
  <2>8. CASE ~Tracking!Takes(v, m) /\ Tracking!Gets(v, m)
    BY <1>1, <1>3, <2>2, <2>6, <2>8
  <2> QED BY <2>5, <2>7, <2>8
<1>4. Tracking!Before(t, u) \/ Tracking!Before(u, t)
  BY <1>3, OneBefore
<1>5. ~(Tracking!Takes(t, m) /\ Tracking!Takes(u, m) /\ models[t].next_sensor = models[u].next_sensor)
  BY <1>4 DEF Tracking!Takes
<1>6. ~(Tracking!Gets(t, m) /\ Tracking!Gets(u, m))
  BY <1>4 DEF Tracking!Gets
<1>7. ASSUME NEW v \in Trains, NEW w \in Trains, Tracking!Takes(v, m), models[v].next_sensor = s,
             Tracking!Gets(w, m)
      PROVE  Tracking!Min(Tracking!Untaken(m)) # s
  <2>1. Tracking!Min(Tracking!Untaken(m)) \in Tracking!Untaken(m)
    BY <1>7, LeftOver DEF Tracking!Gets
  <2> QED BY <1>7, <2>1 DEF Tracking!Untaken
<1> QED BY <1>3, <1>5, <1>6, <1>7

LEMMA SameCardinality == \A S : Tracking!Cardinality(S) = Cardinality(S)
BY DEF Tracking!Cardinality, Cardinality

\* Whatever is believed on any track, a report takes a sensor for a sign of one
\* train only.
THEOREM SensorsTakenOnce ==
  ASSUME Tracking!TrackIsWhole PROVE Tracking!Spec => Tracking!OneHitOneTrain
<1>1. ASSUME Tracked, [Tracking!Next]_(Tracking!vars), Tracking!Reading, NEW s \in Tracking!Sensors
      PROVE  Tracking!Cardinality({t \in Trains : models'[t] # models[t] /\ models'[t].arc = <<s, 1>>}) <= 1
  <2>1. PICK m : Tracking!Report(m)
    BY <1>1, ReadingIsReport
  <2>2. PICK signs : signs = {t \in Trains : models'[t] # models[t] /\ models'[t].arc = <<s, 1>>}
    OBVIOUS
  <2>3. \A t, u \in signs : t = u
    BY <1>1, <2>1, <2>2, TakenOnce
  <2>4. Tracking!Cardinality(signs) <= 1
    <3>1. CASE signs = {}
      BY <3>1, FS_EmptySet, SameCardinality
    <3>2. CASE signs # {}
      <4>1. PICK t : signs = {t}
        BY <2>3, <3>2
      <4>2. Tracking!Cardinality({t}) = 1
        BY FS_Singleton, SameCardinality
      <4> QED BY <4>1, <4>2
    <3> QED BY <3>1, <3>2
  <2> QED BY <2>2, <2>4
<1>2. Tracked /\ [Tracking!Next]_(Tracking!vars)
      => [Tracking!Reading => \A s \in Tracking!Sensors :
            Tracking!Cardinality({t \in Trains : models'[t] # models[t] /\ models'[t].arc = <<s, 1>>}) <= 1
         ]_(Tracking!vars)
  BY <1>1
<1>3. Tracking!Spec => []Tracked
  BY AlwaysTracked
<1> QED BY <1>2, <1>3, PTL DEF Tracking!Spec, Tracking!OneHitOneTrain

\* What a report does to a train that the server waits for rightly, and that no
\* other train can be mistaken for.
LEMMA RightlyRead ==
  ASSUME Tracking!TrackIsWhole, Tracked, NEW m, Tracking!Report(m),
         \A t \in Tracking!ToSet(active) : Tracking!Rightly(t),
         \A t, u \in Tracking!ToSet(active) : models[t].next_sensor = models[u].next_sensor => t = u,
         NEW t \in Trains
  PROVE  models'[t] = IF pressed'[t] # pressed[t] THEN Tracking!Located(models[t], pressed[t])
                     ELSE models[t]
<1> DEFINE Triggered == Tracking!Triggered(m)
           Active(u) == \E i \in DOMAIN active : active[i] = u
<1>1. /\ models'[t] = IF Tracking!Takes(t, m) THEN Tracking!Located(models[t], models[t].next_sensor)
                     ELSE IF Tracking!Gets(t, m)
                          THEN Tracking!Located(models[t], Tracking!Min(Tracking!Untaken(m)))
                     ELSE models[t]
      /\ pressed'[t] = IF pressed[t] \in Triggered THEN Tracking!NoNode ELSE pressed[t]
  BY DEF Tracking!Report
<1>2. \A u : Active(u) => Tracking!Rightly(u)
  BY DEF Tracking!ToSet, Tracking!Range
<1>3. \A u, v : Active(u) /\ Active(v) /\ models[u].next_sensor = models[v].next_sensor => u = v
  BY DEF Tracking!ToSet, Tracking!Range
<1>4. \A s : s \in Triggered <=>
        \E u \in Trains : pressed[u] = s /\ s # Tracking!NoNode /\ Module[s] = m
  BY DEF Tracking!Triggered
<1>5. \A u \in Trains : models[u].known \/ models[u].speed > 0 \/ pressed[u] # Tracking!NoNode
                        => Active(u)
  BY DEF Tracked
<1>6. ~Tracking!Gets(t, m)
  BY <1>2, <1>5 DEF Tracking!Gets, Tracking!Lost, Tracking!Rightly
<1>7. CASE pressed[t] \in Triggered
  <2>1. pressed[t] # Tracking!NoNode /\ Active(t)
    BY <1>4, <1>5, <1>7
  <2>2. models[t].known /\ models[t].next_sensor = pressed[t]
    BY <1>2, <2>1 DEF Tracking!Rightly
  <2>3. \A u \in Trains : Tracking!Before(u, t) => Active(u) /\ u # t
    BY DEF Tracking!Before, Tracked
  <2>4. Tracking!Takes(t, m)
    BY <1>3, <1>7, <2>1, <2>2, <2>3 DEF Tracking!Takes, Tracking!Expects
  <2> QED BY <1>1, <1>7, <2>1, <2>2, <2>4
<1>8. CASE pressed[t] \notin Triggered
  <2>1. ASSUME Tracking!Takes(t, m) PROVE FALSE
    <3>1. models[t].known /\ models[t].next_sensor \in Triggered /\ Active(t)
      BY <1>5, <2>1 DEF Tracking!Takes, Tracking!Expects
    <3>2. PICK u \in Trains : /\ pressed[u] = models[t].next_sensor
                              /\ pressed[u] # Tracking!NoNode /\ pressed[u] \in Triggered
      BY <1>4, <3>1
    <3>3. Active(u) /\ models[u].next_sensor = pressed[u]
      BY <1>2, <1>5, <3>2 DEF Tracking!Rightly
    <3>4. u = t
      BY <1>3, <3>1, <3>2, <3>3
    <3> QED BY <1>8, <3>2, <3>4
  <2> QED BY <1>1, <1>6, <1>8, <2>1
<1> QED BY <1>7, <1>8

\* A report moves the trains that passed its sensors and no other, while the
\* server waits for every train rightly and for no two at the same sensor.
THEOREM ReportsMoveTheirOwn ==
  ASSUME Tracking!TrackIsWhole PROVE Tracking!Spec => Tracking!OwnSensors
<1>1. ASSUME Tracked, [Tracking!Next]_(Tracking!vars), Tracking!Reading,
             \A t \in Tracking!ToSet(active) : Tracking!Rightly(t),
             \A t, u \in Tracking!ToSet(active) :
               models[t].next_sensor = models[u].next_sensor => t = u,
             NEW t \in Trains
      PROVE  models'[t] = IF pressed'[t] # pressed[t] THEN Tracking!Located(models[t], pressed[t])
                         ELSE models[t]
  <2>1. PICK m : Tracking!Report(m)
    BY <1>1, ReadingIsReport
  <2> QED BY <1>1, <2>1, RightlyRead
<1>2. Tracked /\ [Tracking!Next]_(Tracking!vars)
      => [Tracking!Reading
          /\ (\A t \in Tracking!ToSet(active) : Tracking!Rightly(t))
          /\ (\A t, u \in Tracking!ToSet(active) :
                models[t].next_sensor = models[u].next_sensor => t = u)
          => \A t \in Trains :
               models'[t] = IF pressed'[t] # pressed[t] THEN Tracking!Located(models[t], pressed[t])
                           ELSE models[t]]_(Tracking!vars)
  BY <1>1
<1>3. Tracking!Spec => []Tracked
  BY AlwaysTracked
<1> QED BY <1>2, <1>3, PTL DEF Tracking!Spec, Tracking!OwnSensors
=============================================================================
