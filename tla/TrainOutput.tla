----------------------------- MODULE TrainOutput -----------------------------
(***************************************************************************)
(* The output side of the train line: the server and the two notifiers of  *)
(* user/train_io_server.c, the tasks that call Putc and PutnStr, UART 1    *)
(* and the train controller at its other end.                              *)
(*                                                                         *)
(* The controller takes one byte at a time.  It drops the CTS line when it *)
(* has got a byte and raises it when it is ready for the next; UART 1      *)
(* interrupts on either edge.  The server may send a byte when the line is *)
(* up and the transmitter is empty, and learns of both by interrupts.      *)
(***************************************************************************)
EXTENDS Integers, Sequences

CONSTANTS
  Clients,   \* the tasks that write to the train line
  Strings,   \* the strings they write
  Bytes,     \* the bytes of these
  CAPACITY   \* TRAIN_PUT_BUFFER_SIZE

ASSUME TrainOutputAssumption ==
  /\ Strings \subseteq Seq(Bytes)
  /\ CAPACITY \in Nat \ {0}

OutputNotifier == "output notifier"
ModemNotifier  == "modem notifier"
NoByte == "no byte"

ASSUME TrainOutputNames ==
  OutputNotifier \notin Clients /\ ModemNotifier \notin Clients /\ NoByte \notin Bytes

Requests ==
  [sender : {OutputNotifier}, opcode : {"NOTIFIER_UPDATE"}, str : {<<>>}] \cup
  [sender : {ModemNotifier}, opcode : {"NOTIFIER2_UPDATE"}, str : {<<>>}] \cup
  [sender : Clients, opcode : {"PUTSTR"}, str : Strings]

VARIABLES
  buffer,    \* the bytes to send, oldest first
  cts_on,    \* the server believes that the controller is ready
  waiting,   \* notifier_tid > 0: the output notifier waits for a byte
  mailbox,   \* the requests sent to the server and not yet received
  client,    \* client -> "running" or "blocked" in Send to the server
  output,    \* the output notifier: "awaiting" the interrupt, "woken",
             \* "blocked" in Send, "writing" the byte it got
  byte,      \* the byte it writes
  modem,     \* the modem notifier: "awaiting", "up" or "down" as it found the
             \* line when it was woken, "blocked" in Send
  uart,      \* the byte in the transmitter of UART 1
  line,      \* the controller: "ready", has "got" a byte, or is "busy", CTS off
  received,  \* the byte it got last
  latch,     \* a modem interrupt is pending
  missed     \* one came, with the line up, to a notifier that had found it down
             \* and did not await the next

serverVars == <<buffer, cts_on, waiting>>
deviceVars == <<uart, line, received>>
vars == <<buffer, cts_on, waiting, mailbox, client, output, byte, modem,
          uart, line, received, latch, missed>>

\* Both notifiers reach AwaitEvent before a task that writes is created: the
\* first task, less urgent, goes on only when they and the servers are blocked.
Init ==
  /\ buffer = <<>> /\ cts_on = TRUE /\ waiting = FALSE
  /\ mailbox = <<>>
  /\ client = [c \in Clients |-> "running"]
  /\ output = "awaiting" /\ byte = NoByte
  /\ modem = "awaiting"
  /\ uart = NoByte /\ line = "ready" /\ received = NoByte
  /\ latch = FALSE /\ missed = FALSE

\* A pending interrupt is taken before any task goes on.
TasksRun == ~latch

Ask(m) == mailbox' = Append(mailbox, m)
-----------------------------------------------------------------------------
(***************************************************************************)
(* UART 1 and the controller.                                              *)
(***************************************************************************)
Transmit ==
  /\ uart # NoByte
  /\ received' = uart
  /\ uart' = NoByte
  /\ line' = "got"
  /\ UNCHANGED <<serverVars, mailbox, client, output, byte, modem, latch, missed>>

CtsEdge ==
  /\ \/ line = "got"  /\ line' = "busy"
     \/ line = "busy" /\ line' = "ready"
  /\ latch' = TRUE
  /\ UNCHANGED <<serverVars, mailbox, client, output, byte, modem, uart, received, missed>>
-----------------------------------------------------------------------------
(***************************************************************************)
(* The interrupts of UART 1, as handle_irq takes them.  The transmit       *)
(* interrupt is on only while the notifier awaits it.  The modem interrupt *)
(* is never switched off: it is cleared, then the line is looked at, and   *)
(* the line may rise in between, which raises the next interrupt.          *)
(***************************************************************************)
TransmitIrq ==
  /\ output = "awaiting"
  /\ uart = NoByte
  /\ output' = "woken"
  /\ UNCHANGED <<serverVars, mailbox, client, byte, modem, deviceVars, latch, missed>>

ModemIrq ==
  /\ latch
  /\ \/ latch' = FALSE /\ UNCHANGED line
     \/ latch' = TRUE /\ line = "busy" /\ line' = "ready"
  /\ IF modem = "awaiting"
       THEN /\ modem' = IF line' = "busy" THEN "down" ELSE "up"
            /\ UNCHANGED missed
       ELSE /\ missed' = (missed \/ (modem = "down" /\ line' # "busy"))
            /\ UNCHANGED modem
  /\ UNCHANGED <<serverVars, mailbox, client, output, byte, uart, received>>
-----------------------------------------------------------------------------
(***************************************************************************)
(* The notifiers and the writers.                                          *)
(***************************************************************************)
OutputAsks ==
  /\ TasksRun
  /\ output = "woken"
  /\ output' = "blocked"
  /\ Ask([sender |-> OutputNotifier, opcode |-> "NOTIFIER_UPDATE", str |-> <<>>])
  /\ UNCHANGED <<serverVars, client, byte, modem, deviceVars, latch, missed>>

OutputWrites ==
  /\ TasksRun
  /\ output = "writing"
  /\ output' = "awaiting"
  /\ uart' = byte
  /\ byte' = NoByte
  /\ UNCHANGED <<serverVars, mailbox, client, modem, line, received, latch, missed>>

\* Mutant: the notifier does not look at the line.
ModemAsksAlways ==
  /\ TasksRun
  /\ modem \in {"up", "down"}
  /\ modem' = "blocked"
  /\ Ask([sender |-> ModemNotifier, opcode |-> "NOTIFIER2_UPDATE", str |-> <<>>])
  /\ UNCHANGED <<serverVars, client, output, byte, deviceVars, latch, missed>>
ModemAsks ==
  /\ TasksRun
  /\ modem \in {"up", "down"}
  /\ IF modem = "up"
       THEN /\ modem' = "blocked"
            /\ Ask([sender |-> ModemNotifier, opcode |-> "NOTIFIER2_UPDATE", str |-> <<>>])
       ELSE modem' = "awaiting" /\ UNCHANGED mailbox
  /\ UNCHANGED <<serverVars, client, output, byte, deviceVars, latch, missed>>

\* Putc and PutnStr.
PutnStr(c) ==
  /\ TasksRun
  /\ client[c] = "running"
  /\ client' = [client EXCEPT ![c] = "blocked"]
  /\ \E s \in Strings : Ask([sender |-> c, opcode |-> "PUTSTR", str |-> s])
  /\ UNCHANGED <<serverVars, output, byte, modem, deviceVars, latch, missed>>
-----------------------------------------------------------------------------
(***************************************************************************)
(* The server.  Every turn ends with Release: a byte goes to the notifier  *)
(* if the line is up and the notifier waits for one.                       *)
(***************************************************************************)
\* Mutant: the oldest bytes make room.
PushedOverwrites(b, s) ==
  LET all == b \o s
  IN  IF Len(all) <= CAPACITY THEN all ELSE SubSeq(all, Len(all) - CAPACITY + 1, Len(all))

\* rq_push_back of each byte of s: those that do not fit are dropped.
Pushed(b, s) ==
  LET room == CAPACITY - Len(b)
  IN  b \o SubSeq(s, 1, IF Len(s) <= room THEN Len(s) ELSE room)

\* Mutant: notifier_tid is not reset.
ReleaseKeepsTid(cts, tid, b) ==
  IF cts /\ tid /\ b # <<>>
    THEN /\ output' = "writing" /\ byte' = Head(b) /\ buffer' = Tail(b)
         /\ waiting' = tid /\ cts_on' = FALSE
    ELSE /\ buffer' = b /\ waiting' = tid /\ cts_on' = cts
         /\ UNCHANGED <<output, byte>>
Release(cts, tid, b) ==
  IF cts /\ tid /\ b # <<>>
    THEN /\ output' = "writing" /\ byte' = Head(b) /\ buffer' = Tail(b)
         /\ waiting' = FALSE /\ cts_on' = FALSE
    ELSE /\ buffer' = b /\ waiting' = tid /\ cts_on' = cts
         /\ UNCHANGED <<output, byte>>

Received(opcode) ==
  /\ TasksRun
  /\ mailbox # <<>>
  /\ Head(mailbox).opcode = opcode
  /\ mailbox' = Tail(mailbox)

NotifierUpdate ==
  /\ Received("NOTIFIER_UPDATE")
  /\ Release(cts_on, TRUE, buffer)
  /\ UNCHANGED <<client, modem, deviceVars, latch, missed>>

\* Mutant: the byte that waits for the line is not released.
CtsUpdateOnly ==
  /\ Received("NOTIFIER2_UPDATE")
  /\ modem' = "awaiting"
  /\ cts_on' = TRUE
  /\ UNCHANGED <<buffer, waiting, output, byte, client, deviceVars, latch, missed>>
\* The notifier, more urgent, goes back to AwaitEvent before the server goes on.
CtsUpdate ==
  /\ Received("NOTIFIER2_UPDATE")
  /\ modem' = "awaiting"
  /\ Release(TRUE, waiting, buffer)
  /\ UNCHANGED <<client, deviceVars, latch, missed>>

Put ==
  /\ Received("PUTSTR")
  /\ client' = [client EXCEPT ![Head(mailbox).sender] = "running"]
  /\ Release(cts_on, waiting, Pushed(buffer, Head(mailbox).str))
  /\ UNCHANGED <<modem, deviceVars, latch, missed>>

Server == NotifierUpdate \/ CtsUpdate \/ Put

Next ==
  \/ Transmit \/ CtsEdge
  \/ TransmitIrq \/ ModemIrq
  \/ OutputAsks \/ OutputWrites \/ ModemAsks
  \/ \E c \in Clients : PutnStr(c)
  \/ Server

Spec == Init /\ [][Next]_vars

\* The devices go on, and the kernel runs the server and its notifiers, more
\* urgent than those that write, whenever they are ready.
FairSpec ==
  /\ Spec
  /\ WF_vars(Transmit) /\ WF_vars(CtsEdge) /\ WF_vars(TransmitIrq) /\ WF_vars(ModemIrq)
  /\ WF_vars(OutputAsks) /\ WF_vars(OutputWrites) /\ WF_vars(ModemAsks) /\ WF_vars(Server)
-----------------------------------------------------------------------------
\* Every variable has its type, and the buffer keeps to its capacity.
TypeOK ==
  /\ buffer \in Seq(Bytes) /\ Len(buffer) <= CAPACITY
  /\ cts_on \in BOOLEAN /\ waiting \in BOOLEAN
  /\ mailbox \in Seq(Requests)
  /\ client \in [Clients -> {"running", "blocked"}]
  /\ output \in {"awaiting", "woken", "blocked", "writing"}
  /\ byte \in Bytes \cup {NoByte}
  /\ modem \in {"awaiting", "up", "down", "blocked"}
  /\ uart \in Bytes \cup {NoByte}
  /\ line \in {"ready", "got", "busy"}
  /\ received \in Bytes \cup {NoByte}
  /\ latch \in BOOLEAN /\ missed \in BOOLEAN

\* No byte is put on the line before the controller has finished with the one
\* before, however its two edges, their interrupts, the notifier and the server
\* interleave: no edge of an old byte is ever taken for one of a new byte.
ControllerNotOverrun == uart # NoByte => line = "ready"

LettersOf(s) == {k \in DOMAIN mailbox : mailbox[k].sender = s}

\* The server replies to the output notifier only while it is blocked in Send to
\* it, and knows that it waits as soon as its request was received.
WaitingIsFresh ==
  waiting <=> (output = "blocked" /\ LettersOf(OutputNotifier) = {})

InFlight ==
  IF byte # NoByte THEN <<byte>> ELSE IF uart # NoByte THEN <<uart>> ELSE <<>>

Stream == INSTANCE TrainLine
  WITH pending <- InFlight \o buffer, out <- received, Capacity <- CAPACITY

\* The controller gets the bytes of module TrainLine: those of a command stay
\* together and in order, none comes twice, and none is lost but at the end of a
\* string that found the buffer full.
ImplementsTrainLine == Stream!Spec

\* The oldest byte reaches the controller unless a modem interrupt that says
\* that the line is up was dropped for want of a waiting notifier.
OutputGoesOn == (buffer # <<>>) ~> (uart # NoByte \/ missed)
=============================================================================
