----------------------------- MODULE ClockServer -----------------------------
(***************************************************************************)
(* The clock server of user/clockserver.c, its notifier and the tasks that *)
(* call Delay, DelayUntil and Time.                                        *)
(*                                                                         *)
(* A task blocked in Send to the server is in the server's mailbox, which  *)
(* the kernel keeps in the order of the Sends (module Kernel), until the   *)
(* server receives it, and stays blocked until the server replies.  The    *)
(* server handles one message at a time, and nothing it does until its     *)
(* next Receive depends on another task: one message is one step.          *)
(***************************************************************************)
EXTENDS Integers, Sequences, FiniteSets, Functions

CONSTANTS
  Clients,          \* the tasks that use the clock
  WAIT_QUEUE_SIZE,  \* cells of the wait queue
  WORD,             \* 2^w for times of w bits
  MaxTicks,         \* bound: the timer stops after that many ticks
  Delays            \* the arguments of Delay and DelayUntil, as unsigned words

ASSUME ClockAssumption ==
  /\ WAIT_QUEUE_SIZE \in Nat \ {0}
  /\ WORD \in Nat /\ MaxTicks \in Nat /\ MaxTicks < WORD - 1
  /\ Delays \subseteq 0 .. WORD - 1
  /\ IsFiniteSet(Clients)

Cells  == 1 .. WAIT_QUEUE_SIZE
Times  == 0 .. WORD - 1
Empty  == WORD - 1             \* time = -1 in an unsigned word
NoCell == 0                    \* the null head
Notifier == "clock notifier"
NoClient == "none"

ASSUME ClockNames == Notifier \notin Clients /\ NoClient \notin Clients

Requests ==
  [sender : {Notifier}, opcode : {"UPDATE_TIME"}, data : {0}] \cup
  [sender : Clients, opcode : {"TIME_REQUEST"}, data : {0}] \cup
  [sender : Clients, opcode : {"DELAY_REQUEST", "DELAYUNTIL_REQUEST"}, data : Delays]

VARIABLES
  ticks,     \* ticks_elapsed
  time,      \* cell -> buffer[].time
  tid,       \* cell -> buffer[].tid
  pool,      \* free_pool, the order of its cells left open
  head,      \* the cell of the earliest deadline, NoCell before the first
  mailbox,   \* the requests sent to the server and not yet received
  client,    \* client -> "running" or "blocked" in Send to the server
  notifier   \* "awaiting" the timer, "woken" by it, or "blocked" in Send

queueVars == <<time, tid, pool, head>>
vars == <<ticks, time, tid, pool, head, mailbox, client, notifier>>

Init ==
  /\ ticks = 0
  /\ time = [i \in Cells |-> Empty]
  /\ tid = [i \in Cells |-> NoClient]
  /\ pool = Cells
  /\ head = NoCell
  /\ mailbox = <<>>
  /\ client = [c \in Clients |-> "running"]
  /\ notifier = "awaiting"
-----------------------------------------------------------------------------
(***************************************************************************)
(* The notifier: AwaitEvent(TIMER_IRQ), then Send, for ever.  A timer      *)
(* interrupt that finds it elsewhere is dropped by the kernel.             *)
(***************************************************************************)
TimerIrq ==
  /\ ticks < MaxTicks
  /\ notifier = "awaiting"
  /\ notifier' = "woken"
  /\ UNCHANGED <<ticks, queueVars, mailbox, client>>

NotifierSends ==
  /\ notifier = "woken"
  /\ notifier' = "blocked"
  /\ mailbox' = Append(mailbox, [sender |-> Notifier, opcode |-> "UPDATE_TIME", data |-> 0])
  /\ UNCHANGED <<ticks, queueVars, client>>

\* Delay, DelayUntil and Time of util/syscall.c.
ClientSends(c) ==
  /\ client[c] = "running"
  /\ \E m \in Requests :
        /\ m.sender = c
        /\ mailbox' = Append(mailbox, m)
  /\ client' = [client EXCEPT ![c] = "blocked"]
  /\ UNCHANGED <<ticks, queueVars, notifier>>
-----------------------------------------------------------------------------
(***************************************************************************)
(* The server.  reply_expired_tasks(t) answers every cell whose time is    *)
(* reached and empties it; head becomes the first of the cells with the    *)
(* earliest time among those that stay, empty ones included.               *)
(***************************************************************************)
ExpiredStrictly(t) == {i \in Cells : time[i] < t}
Expired(t) == {i \in Cells : time[i] <= t}

Due(t) == head # NoCell /\ t >= time[head]

First(cells) == CHOOSE i \in cells : \A j \in cells : i <= j

Earliest(cells) == First({i \in cells : \A j \in cells : time[i] <= time[j]})

AnswerAndEmpty(done) ==
  /\ client' = [c \in Clients |-> IF \E i \in done : tid[i] = c THEN "running" ELSE client[c]]
  /\ tid' = [i \in Cells |-> IF i \in done THEN NoClient ELSE tid[i]]
  /\ time' = [i \in Cells |-> IF i \in done THEN Empty ELSE time[i]]
  /\ pool' = pool \cup done
  /\ head' = IF done = Cells THEN NoCell ELSE Earliest(Cells \ done)

ReplyExpired(t) ==
  IF Due(t) THEN AnswerAndEmpty(Expired(t)) ELSE UNCHANGED <<queueVars, client>>

Received(opcode) ==
  /\ mailbox # <<>>
  /\ Head(mailbox).opcode = opcode
  /\ mailbox' = Tail(mailbox)

\* The notifier goes back to AwaitEvent before the server goes on.
UpdateTimeNoReply ==
  /\ Received("UPDATE_TIME")
  /\ ticks' = ticks + 1
  /\ ReplyExpired(ticks + 1)
  /\ UNCHANGED notifier
UpdateTime ==
  /\ Received("UPDATE_TIME")
  /\ ticks' = ticks + 1
  /\ notifier' = "awaiting"
  /\ ReplyExpired(ticks + 1)

TimeRequest ==
  /\ Received("TIME_REQUEST")
  /\ client' = [client EXCEPT ![Head(mailbox).sender] = "running"]
  /\ UNCHANGED <<ticks, queueVars, notifier>>

\* wait_queue_push of client c until time t.  Nobody looks at its result: with
\* no free cell c stays blocked.
Fill(i, c, t) ==
  /\ pool' = pool \ {i}
  /\ time' = [time EXCEPT ![i] = t]
  /\ tid' = [tid EXCEPT ![i] = c]

WaitQueuePushHeadLast(c, t) ==
  IF pool = {} THEN UNCHANGED queueVars
  ELSE \E i \in pool : Fill(i, c, t) /\ head' = i
WaitQueuePush(c, t) ==
  IF pool = {} THEN UNCHANGED queueVars
  ELSE \E i \in pool :
         /\ Fill(i, c, t)
         /\ head' = IF head = NoCell \/ t < time'[head] THEN i ELSE head

Delay ==
  /\ Received("DELAY_REQUEST")
  /\ WaitQueuePush(Head(mailbox).sender, (Head(mailbox).data + ticks) % WORD)
  /\ UNCHANGED <<ticks, client, notifier>>

DelayUntil ==
  /\ Received("DELAYUNTIL_REQUEST")
  /\ WaitQueuePush(Head(mailbox).sender, Head(mailbox).data)
  /\ UNCHANGED <<ticks, client, notifier>>

Server == UpdateTime \/ TimeRequest \/ Delay \/ DelayUntil

Next ==
  \/ TimerIrq \/ NotifierSends
  \/ \E c \in Clients : ClientSends(c)
  \/ Server

Spec == Init /\ [][Next]_vars

\* The timer never stops before the bound, the kernel runs the notifier and
\* the server, its two most urgent tasks, whenever they are ready.
FairSpec ==
  /\ Spec
  /\ WF_vars(TimerIrq) /\ WF_vars(NotifierSends) /\ WF_vars(Server)
-----------------------------------------------------------------------------
\* Times are unsigned words, a cell names a client or nobody, and requests are
\* those of the three calls and of the notifier.
TypeOK ==
  /\ ticks \in 0 .. MaxTicks
  /\ time \in [Cells -> Times]
  /\ tid \in [Cells -> Clients \cup {NoClient}]
  /\ pool \subseteq Cells
  /\ head \in Cells \cup {NoCell}
  /\ mailbox \in Seq(Requests)
  /\ client \in [Clients -> {"running", "blocked"}]
  /\ notifier \in {"awaiting", "woken", "blocked"}

\* The head is trusted to decide that no cell is due: it has the earliest time
\* of all cells, also when it is left on an empty cell that is filled again,
\* and it is null only when every cell is empty.
HeadIsEarliest ==
  IF head = NoCell
    THEN pool = Cells
    ELSE \A i \in Cells : time[head] <= time[i]

CellsOf(c) == {i \in Cells : tid[i] = c}
LettersOf(c) == {k \in DOMAIN mailbox : mailbox[k].sender = c}

\* A cell is free exactly when it names nobody, and then its time is the
\* largest word, which no tick reaches.
FreeCells ==
  \A i \in Cells : /\ i \in pool <=> tid[i] = NoClient
                   /\ i \in pool => time[i] = Empty

\* A client has at most one request with the server, in the mailbox or in a
\* cell but never in both, and none once it runs: no reply goes to a client
\* that did not ask, and none is answered twice.  The notifier has one update
\* in the mailbox exactly while it is blocked, so a tick is counted once.
OneRequestEach ==
  /\ \A c \in Clients :
       /\ \A i, j \in CellsOf(c) : i = j
       /\ \A k, l \in LettersOf(c) : k = l
       /\ CellsOf(c) = {} \/ LettersOf(c) = {}
       /\ client[c] = "running" => CellsOf(c) = {} /\ LettersOf(c) = {}
  /\ \A k, l \in LettersOf(Notifier) : k = l
  /\ LettersOf(Notifier) # {} <=> notifier = "blocked"

\* Sleeping clients are those with a cell; those blocked without a cell and
\* without a request on the way have found no room.
Sleeping == {c \in Clients : CellsOf(c) # {}}
Deadline(c) == time[CHOOSE i \in CellsOf(c) : TRUE]
Stuck == {c \in Clients : client[c] = "blocked" /\ CellsOf(c) = {} /\ LettersOf(c) = {}}

Abstract == INSTANCE AlarmClock
  WITH now <- ticks, due <- [c \in Sleeping |-> Deadline(c)], stuck <- Stuck,
       Capacity <- WAIT_QUEUE_SIZE

\* The server keeps the promise of module AlarmClock: each tick wakes exactly
\* the clients whose time it reaches, whatever mix of Delay, DelayUntil and
\* cells came before.
ImplementsAlarmClock == Abstract!Spec

\* A client whose time the timer reaches is woken, by a later tick when it asks
\* for a time that has passed.
SleeperWakes ==
  \A c \in Clients : (CellsOf(c) # {} /\ Deadline(c) <= MaxTicks /\ ticks < MaxTicks)
                        ~> (client[c] = "running")
=============================================================================
