-------------------------- MODULE TrainOutputProofs --------------------------
(***************************************************************************)
(* Proofs about module TrainOutput: the controller is never overrun, the   *)
(* server replies to a notifier that waits, and the byte stream of module  *)
(* TrainLine is implemented, for any writers, strings and buffer size.     *)
(*                                                                         *)
(* The argument is that the permission to put a byte on the line is a      *)
(* token.  It is held by the server (cts_on), passes to the byte the       *)
(* notifier writes, to the transmitter, to the controller, and comes back  *)
(* with the interrupt of the rising edge, the notifier it wakes and the    *)
(* notifier's request.  A dropped interrupt loses it, nothing doubles it.  *)
(***************************************************************************)
EXTENDS TrainOutput, SequenceTheorems, TLAPS

Rise == latch /\ line = "ready" /\ modem # "up"
Back == modem \in {"up", "blocked"}

\* The token is in one place only.
OneToken ==
  /\ cts_on => byte = NoByte /\ uart = NoByte /\ line = "ready" /\ ~Rise /\ ~Back
  /\ byte # NoByte => uart = NoByte /\ line = "ready" /\ ~Rise /\ ~Back
  /\ uart # NoByte => line = "ready" /\ ~Rise /\ ~Back
  /\ line # "ready" => ~Back
  /\ Rise => ~Back

\* A falling edge is pending only after it came.
EdgeCame == line = "got" => ~latch

\* A notifier is blocked while its request is in the mailbox, where it is once.
Letters ==
  /\ \A i \in DOMAIN mailbox :
       /\ mailbox[i].sender = ModemNotifier => modem = "blocked"
       /\ mailbox[i].sender = OutputNotifier => output = "blocked"
  /\ \A i, j \in DOMAIN mailbox :
       mailbox[i].sender = mailbox[j].sender /\ mailbox[i].sender \notin Clients => i = j

Writing == output = "writing" <=> byte # NoByte

IInv == TypeOK /\ OneToken /\ EdgeCame /\ Letters /\ Writing /\ WaitingIsFresh
-----------------------------------------------------------------------------
\* The bytes of s that fit are put behind the others, and all that fit.
LEMMA PushedFacts ==
  ASSUME NEW b \in Seq(Bytes), Len(b) <= CAPACITY, NEW s \in Strings
  PROVE  /\ Pushed(b, s) \in Seq(Bytes) /\ Len(Pushed(b, s)) <= CAPACITY
         /\ \E n \in 0 .. Len(s) :
              /\ Pushed(b, s) = b \o SubSeq(s, 1, n)
              /\ n < Len(s) => Len(b) + Len(s) > CAPACITY
  <1>1. CAPACITY \in Nat /\ s \in Seq(Bytes)
    BY TrainOutputAssumption
  <1>2. Len(b) \in Nat /\ Len(s) \in Nat
    BY <1>1, LenProperties
  <1>3. PICK n : n = IF Len(s) <= CAPACITY - Len(b) THEN Len(s) ELSE CAPACITY - Len(b)
    OBVIOUS
  <1>4. n \in 0 .. Len(s) /\ Len(b) + n <= CAPACITY
        /\ (n < Len(s) => Len(b) + Len(s) > CAPACITY)
    BY <1>1, <1>2, <1>3
  <1>5. Pushed(b, s) = b \o SubSeq(s, 1, n)
    BY <1>3 DEF Pushed
  <1>6. SubSeq(s, 1, n) \in Seq(Bytes) /\ Len(SubSeq(s, 1, n)) = n
    BY <1>1, <1>2, <1>4
  <1>7. b \o SubSeq(s, 1, n) \in Seq(Bytes) /\ Len(b \o SubSeq(s, 1, n)) = Len(b) + n
    BY <1>6, ConcatProperties
  <1> QED BY <1>4, <1>5, <1>7

\* A turn of the server releases the oldest byte or changes nothing more.
LEMMA ReleaseFacts ==
  ASSUME NEW cts, NEW tid, NEW b \in Seq(Bytes), Len(b) <= CAPACITY, Release(cts, tid, b)
  PROVE  \/ /\ cts /\ tid /\ output' = "writing" /\ byte' \in Bytes /\ byte' # NoByte
            /\ buffer' \in Seq(Bytes) /\ Len(buffer') <= CAPACITY
            /\ waiting' = FALSE /\ cts_on' = FALSE
            /\ b = <<byte'>> \o buffer'
         \/ /\ ~(cts /\ tid /\ b # <<>>)
            /\ buffer' = b /\ waiting' = tid /\ cts_on' = cts
            /\ output' = output /\ byte' = byte
  <1>1. CASE cts /\ tid /\ b # <<>>
    <2>1. Head(b) \in Bytes /\ Tail(b) \in Seq(Bytes) /\ Len(Tail(b)) = Len(b) - 1
          /\ Len(b) \in Nat
      BY <1>1, HeadTailProperties, LenProperties
    <2>2. b = <<Head(b)>> \o Tail(b)
      BY <1>1, <2>1
    <2>3. CAPACITY \in Nat /\ NoByte \notin Bytes
      BY TrainOutputAssumption, TrainOutputNames
    <2>4. Len(Tail(b)) <= CAPACITY
      BY <2>1, <2>3
    <2> QED BY <1>1, <2>1, <2>2, <2>3, <2>4 DEF Release
  <1>2. CASE ~(cts /\ tid /\ b # <<>>)
    BY <1>2 DEF Release
  <1> QED BY <1>1, <1>2

\* Facts about a request that joins the mailbox.
LEMMA AskFacts ==
  ASSUME TypeOK, NEW m \in Requests, Ask(m)
  PROVE  /\ mailbox' \in Seq(Requests)
         /\ DOMAIN mailbox' = DOMAIN mailbox \cup {Len(mailbox) + 1}
         /\ Len(mailbox) + 1 \notin DOMAIN mailbox
         /\ \A k \in DOMAIN mailbox : mailbox'[k] = mailbox[k]
         /\ mailbox'[Len(mailbox) + 1] = m
  <1>1. mailbox \in Seq(Requests) /\ mailbox' = Append(mailbox, m)
    BY DEF TypeOK, Ask
  <1>2. /\ Len(mailbox) \in Nat /\ DOMAIN mailbox = 1 .. Len(mailbox)
        /\ Len(mailbox') = Len(mailbox) + 1 /\ mailbox' \in Seq(Requests)
        /\ DOMAIN mailbox' = 1 .. Len(mailbox')
        /\ \A i \in 1 .. Len(mailbox) : mailbox'[i] = mailbox[i]
        /\ mailbox'[Len(mailbox) + 1] = m
    BY <1>1, AppendProperties, LenProperties
  <1> QED BY <1>2

\* Facts about the request that the server takes.
LEMMA ReceivedFacts ==
  ASSUME TypeOK, NEW opcode, Received(opcode)
  PROVE  /\ Head(mailbox) \in Requests /\ Head(mailbox).opcode = opcode
         /\ mailbox' \in Seq(Requests)
         /\ Head(mailbox) = mailbox[1] /\ 1 \in DOMAIN mailbox
         /\ \A k \in DOMAIN mailbox' :
              k + 1 \in DOMAIN mailbox /\ mailbox'[k] = mailbox[k + 1]
              /\ k \in Nat /\ k + 1 # 1
         /\ \A k \in DOMAIN mailbox : k # 1 =>
              k - 1 \in DOMAIN mailbox' /\ mailbox'[k - 1] = mailbox[k]
  <1>1. mailbox \in Seq(Requests) /\ mailbox # <<>> /\ mailbox' = Tail(mailbox)
        /\ Head(mailbox).opcode = opcode
    BY DEF TypeOK, Received
  <1>2. /\ Len(mailbox) \in Nat \ {0} /\ DOMAIN mailbox = 1 .. Len(mailbox)
        /\ mailbox' \in Seq(Requests) /\ Len(mailbox') = Len(mailbox) - 1
        /\ DOMAIN mailbox' = 1 .. Len(mailbox) - 1
        /\ \A i \in 1 .. Len(mailbox) - 1 : mailbox'[i] = mailbox[i + 1]
        /\ Head(mailbox) = mailbox[1]
    BY <1>1, HeadTailProperties, LenProperties, EmptySeq
  <1>3. mailbox[1] \in Requests
    BY <1>1, <1>2, ElementOfSeq
  <1> QED BY <1>1, <1>2, <1>3

\* Who sends what.
LEMMA RequestFacts ==
  ASSUME NEW m \in Requests
  PROVE  /\ m.opcode = "NOTIFIER_UPDATE" <=> m.sender = OutputNotifier
         /\ m.opcode = "NOTIFIER2_UPDATE" <=> m.sender = ModemNotifier
         /\ m.opcode = "PUTSTR" <=> m.sender \in Clients
         /\ m.opcode = "PUTSTR" => m.str \in Strings
         /\ OutputNotifier \notin Clients /\ ModemNotifier \notin Clients
         /\ OutputNotifier # ModemNotifier
  BY TrainOutputNames DEF Requests, OutputNotifier, ModemNotifier
-----------------------------------------------------------------------------
\* A notifier that is not blocked has no letter in the mailbox.
LEMMA NoLetters ==
  ASSUME IInv
  PROVE  /\ modem # "blocked" => LettersOf(ModemNotifier) = {}
         /\ output # "blocked" => LettersOf(OutputNotifier) = {}
  BY DEF IInv, Letters, LettersOf

\* A request joins the mailbox: that of a notifier is its only one.
LEMMA AskLetters ==
  ASSUME IInv, NEW m \in Requests, Ask(m),
         m.sender = ModemNotifier => modem # "blocked" /\ modem' = "blocked",
         m.sender = OutputNotifier => output # "blocked" /\ output' = "blocked",
         m.sender # ModemNotifier => modem' = modem,
         m.sender # OutputNotifier => output' = output
  PROVE  /\ Letters'
         /\ m.sender # OutputNotifier => (LettersOf(OutputNotifier) = {})' = (LettersOf(OutputNotifier) = {})
         /\ m.sender = OutputNotifier => (LettersOf(OutputNotifier) # {})'
  <1> DEFINE n == Len(mailbox) + 1
  <1>1. /\ mailbox' \in Seq(Requests)
        /\ DOMAIN mailbox' = DOMAIN mailbox \cup {n}
        /\ n \notin DOMAIN mailbox
        /\ \A k \in DOMAIN mailbox : mailbox'[k] = mailbox[k]
        /\ mailbox'[n] = m
    BY AskFacts DEF IInv
  <1> HIDE DEF n
  <1>2. m.sender \notin Clients => m.sender \in {ModemNotifier, OutputNotifier}
    BY DEF Requests
  <1>3. m.sender \notin Clients => \A k \in DOMAIN mailbox : mailbox[k].sender # m.sender
    BY <1>2, NoLetters DEF LettersOf
  <1>4. \A i \in DOMAIN mailbox' :
          /\ mailbox'[i].sender = ModemNotifier => modem' = "blocked"
          /\ mailbox'[i].sender = OutputNotifier => output' = "blocked"
    BY <1>1, <1>2 DEF IInv, Letters
  <1>5. \A i, j \in DOMAIN mailbox' :
          mailbox'[i].sender = mailbox'[j].sender /\ mailbox'[i].sender \notin Clients => i = j
    BY <1>1, <1>3 DEF IInv, Letters
  <1>6. m.sender # OutputNotifier => (LettersOf(OutputNotifier) = {})' = (LettersOf(OutputNotifier) = {})
    BY <1>1 DEF LettersOf
  <1>7. m.sender = OutputNotifier => (LettersOf(OutputNotifier) # {})'
    BY <1>1 DEF LettersOf
  <1> QED BY <1>4, <1>5, <1>6, <1>7 DEF Letters

\* The server takes a request: a notifier's was its only one.
LEMMA TakenLetters ==
  ASSUME IInv, NEW opcode, Received(opcode)
  PROVE  /\ opcode = "NOTIFIER_UPDATE" => output = "blocked" /\ (LettersOf(OutputNotifier) = {})'
         /\ opcode = "NOTIFIER2_UPDATE" => modem = "blocked" /\ (LettersOf(ModemNotifier) = {})'
         /\ opcode # "NOTIFIER_UPDATE" =>
              (LettersOf(OutputNotifier) = {})' = (LettersOf(OutputNotifier) = {})
  <1>1. /\ Head(mailbox) \in Requests /\ Head(mailbox).opcode = opcode
        /\ Head(mailbox) = mailbox[1] /\ 1 \in DOMAIN mailbox
        /\ \A k \in DOMAIN mailbox' :
             k + 1 \in DOMAIN mailbox /\ mailbox'[k] = mailbox[k + 1] /\ k + 1 # 1
        /\ \A k \in DOMAIN mailbox : k # 1 =>
             k - 1 \in DOMAIN mailbox' /\ mailbox'[k - 1] = mailbox[k]
    BY ReceivedFacts DEF IInv
  <1>2. /\ opcode = "NOTIFIER_UPDATE" <=> mailbox[1].sender = OutputNotifier
        /\ opcode = "NOTIFIER2_UPDATE" <=> mailbox[1].sender = ModemNotifier
        /\ OutputNotifier \notin Clients /\ ModemNotifier \notin Clients
    BY <1>1, RequestFacts
  <1>3. mailbox[1].sender \notin Clients =>
          \A k \in DOMAIN mailbox' : mailbox'[k].sender # mailbox[1].sender
    BY <1>1 DEF IInv, Letters
  <1>4. opcode = "NOTIFIER_UPDATE" => output = "blocked" /\ (LettersOf(OutputNotifier) = {})'
    BY <1>1, <1>2, <1>3 DEF IInv, Letters, LettersOf
  <1>5. opcode = "NOTIFIER2_UPDATE" => modem = "blocked" /\ (LettersOf(ModemNotifier) = {})'
    BY <1>1, <1>2, <1>3 DEF IInv, Letters, LettersOf
  <1>6. opcode # "NOTIFIER_UPDATE" =>
          (LettersOf(OutputNotifier) = {})' = (LettersOf(OutputNotifier) = {})
    BY <1>1, <1>2 DEF LettersOf
  <1> QED BY <1>4, <1>5, <1>6

\* The letters that stay behind remain those of blocked notifiers.
LEMMA TakenKeepsLetters ==
  ASSUME IInv, NEW opcode, Received(opcode),
         modem' = modem \/ (LettersOf(ModemNotifier) = {})',
         output' = output \/ (LettersOf(OutputNotifier) = {})'
  PROVE  Letters'
  <1>1. \A k \in DOMAIN mailbox' :
          k + 1 \in DOMAIN mailbox /\ mailbox'[k] = mailbox[k + 1] /\ k \in Nat
    BY ReceivedFacts DEF IInv
  <1>2. \A i \in DOMAIN mailbox' :
          /\ mailbox'[i].sender = ModemNotifier => modem' = "blocked"
          /\ mailbox'[i].sender = OutputNotifier => output' = "blocked"
    BY <1>1 DEF IInv, Letters, LettersOf
  <1>3. \A i, j \in DOMAIN mailbox' :
          mailbox'[i].sender = mailbox'[j].sender /\ mailbox'[i].sender \notin Clients =>
            i + 1 = j + 1
    BY <1>1 DEF IInv, Letters
  <1>4. \A i, j \in DOMAIN mailbox' :
          mailbox'[i].sender = mailbox'[j].sender /\ mailbox'[i].sender \notin Clients => i = j
    BY <1>1, <1>3
  <1> QED BY <1>2, <1>4 DEF Letters
-----------------------------------------------------------------------------
LEMMA InitInv == ASSUME Init PROVE IInv
  <1>1. buffer \in Seq(Bytes) /\ Len(buffer) = 0 /\ mailbox \in Seq(Requests) /\ DOMAIN mailbox = {}
    BY LenProperties DEF Init
  <1>2. 0 <= CAPACITY
    BY TrainOutputAssumption
  <1>3. TypeOK
    BY <1>1, <1>2 DEF Init, TypeOK
  <1>4. OneToken /\ EdgeCame /\ Letters /\ Writing
    BY <1>1 DEF Init, OneToken, EdgeCame, Letters, Writing, Rise, Back
  <1>5. WaitingIsFresh
    BY DEF Init, WaitingIsFresh
  <1> QED BY <1>3, <1>4, <1>5 DEF IInv

\* The devices and the interrupts leave the mailbox and the server alone.
LEMMA DeviceKeeps ==
  ASSUME IInv, Transmit \/ CtsEdge \/ TransmitIrq \/ ModemIrq
  PROVE  IInv'
  <1>1. CASE Transmit
    <2>1. uart \in Bytes
      BY <1>1 DEF Transmit, IInv, TypeOK
    <2>2. TypeOK'
      BY <1>1, <2>1 DEF Transmit, IInv, TypeOK, serverVars
    <2>3. OneToken' /\ EdgeCame'
      BY <1>1 DEF Transmit, IInv, TypeOK, OneToken, EdgeCame, Rise, Back, serverVars
    <2>4. Letters' /\ Writing' /\ WaitingIsFresh'
      BY <1>1 DEF Transmit, IInv, Letters, Writing, WaitingIsFresh, LettersOf, serverVars
    <2> QED BY <2>2, <2>3, <2>4 DEF IInv
  <1>2. CASE CtsEdge
    <2>1. TypeOK'
      BY <1>2 DEF CtsEdge, IInv, TypeOK, serverVars
    <2>2. OneToken' /\ EdgeCame'
      BY <1>2 DEF CtsEdge, IInv, TypeOK, OneToken, EdgeCame, Rise, Back, serverVars
    <2>3. Letters' /\ Writing' /\ WaitingIsFresh'
      BY <1>2 DEF CtsEdge, IInv, Letters, Writing, WaitingIsFresh, LettersOf, serverVars
    <2> QED BY <2>1, <2>2, <2>3 DEF IInv
  <1>3. CASE TransmitIrq
    <2>1. TypeOK'
      BY <1>3 DEF TransmitIrq, IInv, TypeOK, serverVars, deviceVars
    <2>2. OneToken' /\ EdgeCame'
      BY <1>3 DEF TransmitIrq, IInv, OneToken, EdgeCame, Rise, Back, serverVars, deviceVars
    <2>3. LettersOf(OutputNotifier) = {}
      BY <1>3, NoLetters DEF TransmitIrq
    <2>4. Letters' /\ Writing' /\ WaitingIsFresh'
      BY <1>3, <2>3
      DEF TransmitIrq, IInv, Letters, Writing, WaitingIsFresh, LettersOf, serverVars, deviceVars
    <2> QED BY <2>1, <2>2, <2>4 DEF IInv
  <1>4. CASE ModemIrq
    <2>1. TypeOK'
      BY <1>4 DEF ModemIrq, IInv, TypeOK, serverVars
    <2>2. line # "got" /\ line \in {"ready", "busy"}
      BY <1>4 DEF ModemIrq, IInv, EdgeCame, TypeOK
    <2>3. OneToken'
      BY <1>4, <2>2 DEF ModemIrq, IInv, TypeOK, OneToken, Rise, Back, serverVars
    <2>4. EdgeCame'
      BY <1>4, <2>2 DEF ModemIrq, EdgeCame
    <2>5. LettersOf(ModemNotifier) = {} \/ modem' = modem
      BY <1>4, NoLetters DEF ModemIrq
    <2>6. Letters'
      BY <1>4, <2>5 DEF ModemIrq, IInv, Letters, LettersOf
    <2>7. Writing' /\ WaitingIsFresh'
      BY <1>4 DEF ModemIrq, IInv, Writing, WaitingIsFresh, LettersOf, serverVars
    <2> QED BY <2>1, <2>3, <2>4, <2>6, <2>7 DEF IInv
  <1> QED BY <1>1, <1>2, <1>3, <1>4

\* The notifiers and the writers send, or write the byte.
LEMMA TasksKeep ==
  ASSUME IInv, OutputAsks \/ OutputWrites \/ ModemAsks \/ \E c \in Clients : PutnStr(c)
  PROVE  IInv'
  <1>1. CASE OutputAsks
    <2>1. PICK m \in Requests : Ask(m) /\ m.sender = OutputNotifier
      BY <1>1 DEF OutputAsks, Requests
    <2>2. m.sender # ModemNotifier
      BY <2>1 DEF OutputNotifier, ModemNotifier
    <2>3. mailbox' \in Seq(Requests)
      BY <2>1, AskFacts DEF IInv
    <2>4. output # "blocked" /\ output' = "blocked" /\ modem' = modem
      BY <1>1 DEF OutputAsks
    <2>5. Letters' /\ (LettersOf(OutputNotifier) # {})'
      BY <2>1, <2>2, <2>4, AskLetters
    <2>6. TypeOK'
      BY <1>1, <2>3 DEF OutputAsks, IInv, TypeOK, serverVars, deviceVars
    <2>7. OneToken' /\ EdgeCame' /\ Writing'
      BY <1>1
      DEF OutputAsks, IInv, OneToken, EdgeCame, Rise, Back, Writing, serverVars, deviceVars
    <2>8. WaitingIsFresh'
      BY <1>1, <2>4, <2>5 DEF OutputAsks, IInv, WaitingIsFresh, serverVars
    <2> QED BY <2>5, <2>6, <2>7, <2>8 DEF IInv
  <1>2. CASE OutputWrites
    <2>1. byte \in Bytes /\ byte # NoByte /\ NoByte \notin Bytes
      BY <1>2, TrainOutputNames DEF OutputWrites, IInv, TypeOK, Writing
    <2>2. TypeOK'
      BY <1>2, <2>1 DEF OutputWrites, IInv, TypeOK, serverVars
    <2>3. OneToken' /\ EdgeCame' /\ Writing'
      BY <1>2, <2>1
      DEF OutputWrites, IInv, OneToken, EdgeCame, Rise, Back, Writing, serverVars
    <2>4. LettersOf(OutputNotifier) = {}
      BY <1>2, NoLetters DEF OutputWrites
    <2>5. Letters' /\ WaitingIsFresh'
      BY <1>2, <2>4 DEF OutputWrites, IInv, Letters, WaitingIsFresh, LettersOf, serverVars
    <2> QED BY <2>2, <2>3, <2>5 DEF IInv
  <1>3. CASE ModemAsks /\ modem = "up"
    <2>1. PICK m \in Requests : Ask(m) /\ m.sender = ModemNotifier
      BY <1>3 DEF ModemAsks, Requests
    <2>2. m.sender # OutputNotifier
      BY <2>1 DEF OutputNotifier, ModemNotifier
    <2>3. mailbox' \in Seq(Requests)
      BY <2>1, AskFacts DEF IInv
    <2>4. modem # "blocked" /\ modem' = "blocked" /\ output' = output
      BY <1>3 DEF ModemAsks
    <2>5. Letters' /\ (LettersOf(OutputNotifier) = {})' = (LettersOf(OutputNotifier) = {})
      BY <2>1, <2>2, <2>4, AskLetters
    <2>6. TypeOK'
      BY <1>3, <2>3 DEF ModemAsks, IInv, TypeOK, serverVars, deviceVars
    <2>7. OneToken' /\ EdgeCame' /\ Writing'
      BY <1>3
      DEF ModemAsks, TasksRun, IInv, OneToken, EdgeCame, Rise, Back, Writing, serverVars, deviceVars
    <2>8. WaitingIsFresh'
      BY <1>3, <2>4, <2>5 DEF ModemAsks, IInv, WaitingIsFresh, serverVars
    <2> QED BY <2>5, <2>6, <2>7, <2>8 DEF IInv
  <1>4. CASE ModemAsks /\ modem # "up"
    <2>1. TypeOK'
      BY <1>4 DEF ModemAsks, IInv, TypeOK, serverVars, deviceVars
    <2>2. OneToken' /\ EdgeCame' /\ Writing'
      BY <1>4
      DEF ModemAsks, TasksRun, IInv, OneToken, EdgeCame, Rise, Back, Writing, serverVars, deviceVars
    <2>3. LettersOf(ModemNotifier) = {}
      BY <1>4, NoLetters DEF ModemAsks
    <2>4. Letters' /\ WaitingIsFresh'
      BY <1>4, <2>3 DEF ModemAsks, IInv, Letters, WaitingIsFresh, LettersOf, serverVars, deviceVars
    <2> QED BY <2>1, <2>2, <2>4 DEF IInv
  <1>5. ASSUME NEW c \in Clients, PutnStr(c) PROVE IInv'
    <2>1. PICK m \in Requests : Ask(m) /\ m.sender = c
      BY <1>5 DEF PutnStr, Requests
    <2>2. m.sender # OutputNotifier /\ m.sender # ModemNotifier
      BY <2>1, TrainOutputNames
    <2>3. mailbox' \in Seq(Requests)
      BY <2>1, AskFacts DEF IInv
    <2>4. modem' = modem /\ output' = output
      BY <1>5 DEF PutnStr
    <2>5. Letters' /\ (LettersOf(OutputNotifier) = {})' = (LettersOf(OutputNotifier) = {})
      BY <2>1, <2>2, <2>4, AskLetters
    <2>6. TypeOK'
      BY <1>5, <2>3 DEF PutnStr, IInv, TypeOK, serverVars, deviceVars
    <2>7. OneToken' /\ EdgeCame' /\ Writing'
      BY <1>5 DEF PutnStr, IInv, OneToken, EdgeCame, Rise, Back, Writing, serverVars, deviceVars
    <2>8. WaitingIsFresh'
      BY <1>5, <2>4, <2>5 DEF PutnStr, IInv, WaitingIsFresh, serverVars
    <2> QED BY <2>5, <2>6, <2>7, <2>8 DEF IInv
  <1> QED BY <1>1, <1>2, <1>3, <1>4, <1>5
-----------------------------------------------------------------------------
\* What the request says of the modem notifier: nothing, or that its turn came.
ModemServed(cts) ==
  \/ modem' = modem /\ (cts => cts_on)
  \/ modem' = "awaiting" /\ modem = "blocked" /\ (LettersOf(ModemNotifier) = {})'

\* A turn of the server, whatever request it took: the token was with it if it
\* may release a byte, and the output notifier waits if it may answer it.
LEMMA ReleaseKeeps ==
  ASSUME IInv, NEW opcode, Received(opcode), NEW cts \in BOOLEAN, NEW tid \in BOOLEAN,
         NEW b \in Seq(Bytes), Len(b) <= CAPACITY, Release(cts, tid, b),
         UNCHANGED <<deviceVars, latch, missed>>,
         ModemServed(cts),
         tid <=> output = "blocked" /\ (LettersOf(OutputNotifier) = {})',
         client' \in [Clients -> {"running", "blocked"}]
  PROVE  IInv'
  <1>1. mailbox' \in Seq(Requests)
    BY ReceivedFacts DEF IInv
  <1>2. ~latch
    BY DEF Received, TasksRun
  <1>0. /\ modem' = modem \/ (LettersOf(ModemNotifier) = {})'
        /\ modem' = modem \/ (modem' = "awaiting" /\ modem = "blocked")
        /\ cts => cts_on \/ (modem' = "awaiting" /\ modem = "blocked")
    BY DEF ModemServed
  <1>3. CASE /\ cts /\ tid /\ output' = "writing" /\ byte' \in Bytes /\ byte' # NoByte
             /\ buffer' \in Seq(Bytes) /\ Len(buffer') <= CAPACITY
             /\ waiting' = FALSE /\ cts_on' = FALSE
    <2>1. TypeOK'
      BY <1>0, <1>1, <1>3 DEF IInv, TypeOK, deviceVars
    <2>2. byte = NoByte /\ uart = NoByte /\ line = "ready" /\ modem' # "up" /\ modem' # "blocked"
      BY <1>0, <1>2, <1>3 DEF IInv, OneToken, Back, Writing, TypeOK
    <2>3. OneToken' /\ EdgeCame' /\ Writing'
      BY <1>2, <1>3, <2>2 DEF OneToken, EdgeCame, Writing, Rise, Back, deviceVars
    <2>4. Letters'
      BY <1>0, <1>3, TakenKeepsLetters
    <2>5. WaitingIsFresh'
      BY <1>3 DEF WaitingIsFresh
    <2> QED BY <2>1, <2>3, <2>4, <2>5 DEF IInv
  <1>4. CASE /\ buffer' = b /\ waiting' = tid /\ cts_on' = cts
             /\ output' = output /\ byte' = byte
    <2>1. TypeOK'
      BY <1>0, <1>1, <1>4 DEF IInv, TypeOK, deviceVars
    <2>2. OneToken' /\ EdgeCame' /\ Writing'
      BY <1>0, <1>2, <1>4 DEF IInv, OneToken, EdgeCame, Writing, Rise, Back, deviceVars
    <2>3. Letters'
      BY <1>0, <1>4, TakenKeepsLetters
    <2>4. WaitingIsFresh'
      BY <1>4 DEF WaitingIsFresh
    <2> QED BY <2>1, <2>2, <2>3, <2>4 DEF IInv
  <1> QED BY <1>3, <1>4, ReleaseFacts

LEMMA ServerKeeps == ASSUME IInv, Server PROVE IInv'
  <1>1. buffer \in Seq(Bytes) /\ Len(buffer) <= CAPACITY /\ cts_on \in BOOLEAN /\ waiting \in BOOLEAN
        /\ client \in [Clients -> {"running", "blocked"}]
    BY DEF IInv, TypeOK
  <1>2. waiting <=> (output = "blocked" /\ LettersOf(OutputNotifier) = {})
    BY DEF IInv, WaitingIsFresh
  <1>3. CASE NotifierUpdate
    <2>1. Received("NOTIFIER_UPDATE") /\ Release(cts_on, TRUE, buffer)
          /\ UNCHANGED <<deviceVars, latch, missed>> /\ modem' = modem /\ client' = client
      BY <1>3 DEF NotifierUpdate
    <2>2. output = "blocked" /\ (LettersOf(OutputNotifier) = {})'
      BY <2>1, TakenLetters
    <2>3. ModemServed(cts_on)
      BY <2>1 DEF ModemServed
    <2> QED BY <1>1, <2>1, <2>2, <2>3, ReleaseKeeps
  <1>4. CASE CtsUpdate
    <2>1. Received("NOTIFIER2_UPDATE") /\ Release(TRUE, waiting, buffer)
          /\ UNCHANGED <<deviceVars, latch, missed>> /\ modem' = "awaiting" /\ client' = client
      BY <1>4 DEF CtsUpdate
    <2>2. modem = "blocked" /\ (LettersOf(ModemNotifier) = {})'
          /\ (LettersOf(OutputNotifier) = {})' = (LettersOf(OutputNotifier) = {})
      BY <2>1, TakenLetters
    <2>3. waiting <=> (output = "blocked" /\ (LettersOf(OutputNotifier) = {})')
      BY <1>2, <2>2
    <2>4. ModemServed(TRUE)
      BY <2>1, <2>2 DEF ModemServed
    <2> QED BY <1>1, <2>1, <2>3, <2>4, ReleaseKeeps
  <1>5. CASE Put
    <2>1. PICK s : s = Head(mailbox).str
      OBVIOUS
    <2>2. Received("PUTSTR") /\ Release(cts_on, waiting, Pushed(buffer, s))
          /\ UNCHANGED <<deviceVars, latch, missed>> /\ modem' = modem
          /\ client' = [client EXCEPT ![Head(mailbox).sender] = "running"]
      BY <1>5, <2>1 DEF Put
    <2>3. Head(mailbox) \in Requests /\ Head(mailbox).opcode = "PUTSTR"
      BY <2>2, ReceivedFacts DEF IInv
    <2>4. s \in Strings
      BY <2>1, <2>3, RequestFacts
    <2>5. Pushed(buffer, s) \in Seq(Bytes) /\ Len(Pushed(buffer, s)) <= CAPACITY
      BY <1>1, <2>4, PushedFacts
    <2>6. (LettersOf(OutputNotifier) = {})' = (LettersOf(OutputNotifier) = {})
      BY <2>2, TakenLetters
    <2>7. waiting <=> (output = "blocked" /\ (LettersOf(OutputNotifier) = {})')
      BY <1>2, <2>6
    <2>8. client' \in [Clients -> {"running", "blocked"}]
      BY <1>1, <2>2
    <2>9. ModemServed(cts_on)
      BY <2>2 DEF ModemServed
    <2> QED BY <1>1, <2>2, <2>5, <2>7, <2>8, <2>9, ReleaseKeeps
  <1> QED BY <1>3, <1>4, <1>5 DEF Server

LEMMA StutterKeeps == ASSUME IInv, UNCHANGED vars PROVE IInv'
  BY DEF IInv, TypeOK, OneToken, EdgeCame, Letters, Writing, WaitingIsFresh, LettersOf,
         Rise, Back, vars

LEMMA Invariance == Spec => []IInv
  <1>1. IInv /\ [Next]_vars => IInv'
    BY DeviceKeeps, TasksKeep, ServerKeeps, StutterKeeps DEF Next
  <1> QED BY InitInv, <1>1, PTL DEF Spec

\* No byte is on the line before the controller has finished with the one before.
THEOREM ControllerNeverOverrun == Spec => []ControllerNotOverrun
  <1>1. IInv => ControllerNotOverrun
    BY DEF IInv, OneToken, ControllerNotOverrun
  <1> QED BY Invariance, <1>1, PTL

\* The server replies only to an output notifier that waits, and knows that it does.
THEOREM NotifierWaits == Spec => []WaitingIsFresh
  <1>1. IInv => WaitingIsFresh
    BY DEF IInv
  <1> QED BY Invariance, <1>1, PTL

\* Every variable keeps its type and the buffer its capacity.
THEOREM TrainOutputTyped == Spec => []TypeOK
  <1>1. IInv => TypeOK
    BY DEF IInv
  <1> QED BY Invariance, <1>1, PTL
-----------------------------------------------------------------------------
(***************************************************************************)
(* The byte stream: what TrainLine calls pending is the byte on its way,   *)
(* of which there is one at most because the token is one, and the buffer. *)
(***************************************************************************)
Pending == InFlight \o buffer

\* The bytes on their way form a sequence.
LEMMA InFlightFacts ==
  ASSUME IInv
  PROVE  /\ InFlight \in Seq(Bytes)
         /\ buffer \in Seq(Bytes)
         /\ byte = NoByte /\ uart = NoByte => InFlight = <<>>
         /\ uart # NoByte => byte = NoByte /\ uart \in Bytes /\ InFlight = <<uart>>
         /\ byte # NoByte => uart = NoByte /\ byte \in Bytes /\ InFlight = <<byte>>
  <1>1. NoByte \notin Bytes /\ byte \in Bytes \cup {NoByte} /\ uart \in Bytes \cup {NoByte}
        /\ buffer \in Seq(Bytes)
    BY TrainOutputNames DEF IInv, TypeOK
  <1>2. byte # NoByte => uart = NoByte
    BY DEF IInv, OneToken
  <1> QED BY <1>1, <1>2 DEF InFlight

\* A turn of the server does not change the order of the bytes it has.
LEMMA ReleaseKeepsOrder ==
  ASSUME IInv, IInv', NEW cts, NEW tid, NEW b \in Seq(Bytes), Len(b) <= CAPACITY,
         Release(cts, tid, b), cts => cts_on \/ modem = "blocked", UNCHANGED deviceVars
  PROVE  Pending' = InFlight \o b
  <1>1. CASE /\ cts /\ tid /\ byte' # NoByte /\ b = <<byte'>> \o buffer'
    <2>1. byte = NoByte /\ uart = NoByte
      <3>1. cts_on \/ Back
        BY <1>1 DEF Back
      <3> QED BY <3>1 DEF IInv, OneToken
    <2>2. InFlight = <<>>
      BY <2>1, InFlightFacts
    <2>3. InFlight' = <<byte'>>
      BY <1>1 DEF InFlight
    <2>4. InFlight \o b = b
      BY <2>2, ConcatEmptySeq
    <2> QED BY <1>1, <2>3, <2>4 DEF Pending
  <1>2. CASE buffer' = b /\ byte' = byte
    BY <1>2 DEF Pending, InFlight, deviceVars
  <1> QED BY <1>1, <1>2, ReleaseFacts

\* A transmission is the step Emit.
LEMMA TransmitEmits == ASSUME IInv, Transmit PROVE Stream!Emit
  <1>1. uart \in Bytes /\ InFlight = <<uart>> /\ byte = NoByte /\ buffer \in Seq(Bytes)
    BY InFlightFacts DEF Transmit
  <1>2. InFlight' = <<>> /\ buffer' = buffer /\ received' = uart
    BY <1>1 DEF Transmit, InFlight, serverVars
  <1>3. Pending' = buffer
    BY <1>1, <1>2, ConcatEmptySeq DEF Pending
  <1>4. Pending # <<>> /\ Head(Pending) = uart /\ Tail(Pending) = buffer
    BY <1>1 DEF Pending
  <1> QED BY <1>2, <1>3, <1>4 DEF Stream!Emit, Pending

LEMMA BytesAssociate ==
  \A a, b, c \in Seq(Bytes) : a \o (b \o c) = (a \o b) \o c
  <1> TAKE a, b, c \in Seq(Bytes)
  <1> QED BY ConcatAssociative

\* A request to write is the step Accept.
LEMMA PutAccepts ==
  ASSUME IInv, IInv', Put
  PROVE  \E s \in Strings : \E n \in 0 .. Len(s) : Stream!Accept(s, n)
  <1>1. PICK s : s = Head(mailbox).str
    OBVIOUS
  <1>2. Received("PUTSTR") /\ Release(cts_on, waiting, Pushed(buffer, s)) /\ UNCHANGED deviceVars
    BY <1>1 DEF Put
  <1>3. Head(mailbox) \in Requests /\ Head(mailbox).opcode = "PUTSTR"
    BY <1>2, ReceivedFacts DEF IInv
  <1>4. s \in Strings /\ s \in Seq(Bytes)
    BY <1>1, <1>3, RequestFacts, TrainOutputAssumption
  <1>5. buffer \in Seq(Bytes) /\ Len(buffer) <= CAPACITY /\ InFlight \in Seq(Bytes)
    BY InFlightFacts DEF IInv, TypeOK
  <1>6. PICK n \in 0 .. Len(s) :
          /\ Pushed(buffer, s) = buffer \o SubSeq(s, 1, n)
          /\ n < Len(s) => Len(buffer) + Len(s) > CAPACITY
    BY <1>4, <1>5, PushedFacts
  <1>7. Pushed(buffer, s) \in Seq(Bytes) /\ Len(Pushed(buffer, s)) <= CAPACITY
    BY <1>4, <1>5, PushedFacts
  <1>8. Pending' = InFlight \o Pushed(buffer, s)
    BY <1>2, <1>7, ReleaseKeepsOrder
  <1>9. SubSeq(s, 1, n) \in Seq(Bytes)
    BY <1>4
  <1>10. Pending' = Pending \o SubSeq(s, 1, n)
    <2>1. InFlight \o (buffer \o SubSeq(s, 1, n)) = (InFlight \o buffer) \o SubSeq(s, 1, n)
      BY <1>5, <1>9, BytesAssociate
    <2> QED BY <1>6, <1>8, <2>1 DEF Pending
  <1>11. Len(Pending) = Len(InFlight) + Len(buffer)
         /\ Len(InFlight) \in Nat /\ Len(buffer) \in Nat /\ Len(s) \in Nat /\ CAPACITY \in Nat
    BY <1>4, <1>5, ConcatProperties, LenProperties, TrainOutputAssumption DEF Pending
  <1>12. n < Len(s) => Len(Pending) + Len(s) > CAPACITY
    BY <1>6, <1>11
  <1>13. received' = received
    BY <1>2 DEF deviceVars
  <1>14. Stream!Accept(s, n)
    BY <1>10, <1>12, <1>13 DEF Stream!Accept, Pending
  <1> QED BY <1>4, <1>14

\* Every other step moves a byte along without changing the stream.
LEMMA OthersStutter ==
  ASSUME IInv, IInv', Next, ~Transmit, ~Put
  PROVE  Pending' = Pending /\ received' = received
  <1>1. CASE CtsEdge \/ TransmitIrq \/ ModemIrq \/ OutputAsks \/ ModemAsks
             \/ \E c \in Clients : PutnStr(c)
    BY <1>1 DEF CtsEdge, TransmitIrq, ModemIrq, OutputAsks, ModemAsks, PutnStr, Pending, InFlight,
                serverVars, deviceVars
  <1>2. CASE OutputWrites
    <2>1. byte # NoByte
      BY <1>2 DEF OutputWrites, IInv, Writing
    <2>2. InFlight' = InFlight
      BY <1>2, <2>1 DEF OutputWrites, InFlight
    <2> QED BY <1>2, <2>2 DEF OutputWrites, Pending, serverVars
  <1>3. CASE NotifierUpdate
    BY <1>3, ReleaseKeepsOrder DEF NotifierUpdate, IInv, TypeOK, Pending, deviceVars
  <1>4. CASE CtsUpdate
    <2>1. Received("NOTIFIER2_UPDATE") /\ Release(TRUE, waiting, buffer) /\ UNCHANGED deviceVars
      BY <1>4 DEF CtsUpdate
    <2>2. modem = "blocked"
      BY <2>1, TakenLetters
    <2>3. buffer \in Seq(Bytes) /\ Len(buffer) <= CAPACITY
      BY DEF IInv, TypeOK
    <2> QED BY <2>1, <2>2, <2>3, ReleaseKeepsOrder DEF Pending, deviceVars
  <1> QED BY <1>1, <1>2, <1>3, <1>4 DEF Next, Server

\* The controller gets exactly the byte stream of TrainLine.
THEOREM TrainLineImplemented == Spec => ImplementsTrainLine
  <1>1. Init => Stream!Init
    <2>1. ASSUME Init PROVE Stream!Init
      <3>1. InFlight \o buffer = <<>> /\ received \notin Bytes
        BY <2>1, TrainOutputNames, ConcatEmptySeq DEF Init, InFlight
      <3> QED BY <3>1 DEF Stream!Init
    <2> QED BY <2>1
  <1>2. IInv /\ IInv' /\ [Next]_vars => [Stream!Next]_(Stream!vars)
    <2>1. ASSUME IInv, IInv', Next PROVE Stream!Next \/ UNCHANGED Stream!vars
      <3>1. CASE Transmit
        BY <2>1, <3>1, TransmitEmits DEF Stream!Next
      <3>2. CASE Put
        BY <2>1, <3>2, PutAccepts DEF Stream!Next
      <3>3. CASE ~Transmit /\ ~Put
        BY <2>1, <3>3, OthersStutter DEF Stream!vars, Pending
      <3> QED BY <3>1, <3>2, <3>3
    <2>2. UNCHANGED vars => UNCHANGED Stream!vars
      BY DEF vars, Stream!vars, InFlight
    <2> QED BY <2>1, <2>2
  <1> QED BY <1>1, <1>2, Invariance, PTL DEF Spec, ImplementsTrainLine, Stream!Spec
=============================================================================
