------------------------------- MODULE Kernel -------------------------------
(***************************************************************************)
(* The RealTimeTrains micro-kernel: the task pool and the scheduler of     *)
(* kernel/task.c, the system calls and interrupts of kernel/k_syscall.c    *)
(* and the dispatch loop of kernel/kern.c.                                 *)
(*                                                                         *)
(* The kernel is one thread.  Each turn of its loop picks a task           *)
(* (Dispatch), lets it run until it traps (a system call of any kind, or   *)
(* an interrupt) and handles the trap.  What the tasks ask for is left     *)
(* open: any task may make any system call with any argument, so every     *)
(* interleaving of the user programs is a behaviour of this module.        *)
(*                                                                         *)
(* Message contents, return values, stacks and times are left out: no      *)
(* scheduling decision reads them.                                         *)
(***************************************************************************)
EXTENDS Integers, Sequences, Functions

CONSTANTS
  TASK_POOL_SIZE,    \* slots in task_pool
  TASK_NPRIORITIES,  \* ready queues, 0 is the most urgent
  PQCAPACITY,        \* capacity of each ready queue and of the free list
  GENERATIONS,       \* generations of a slot before its number wraps: 2^16
  FirstPriority,     \* priority of first_task
  Events,            \* the EVENT_FLAGs the instance raises
  SoleNotifier       \* TRUE: a task awaits an event only if no other does,
                     \* as the notifiers of user/ do, one per event

EventFlags == {"TIMER_IRQ", "COM2_SEND_IRQ", "COM2_RECEIVE_IRQ", "COM1_SEND_IRQ",
               "COM1_RECEIVE_IRQ", "COM1_MODEM_IRQ", "KERNEL_STATS"}

ASSUME KernelAssumption ==
  /\ TASK_POOL_SIZE \in Nat \ {0}
  /\ TASK_NPRIORITIES \in Nat \ {0}
  /\ PQCAPACITY \in Nat /\ PQCAPACITY >= TASK_POOL_SIZE
  /\ GENERATIONS \in Nat \ {0, 1}
  /\ FirstPriority \in 0 .. TASK_NPRIORITIES - 1
  /\ Events \subseteq EventFlags
  /\ SoleNotifier \in BOOLEAN

Pool       == 0 .. TASK_POOL_SIZE - 1
Priorities == 0 .. TASK_NPRIORITIES - 1

\* No task: the null Task* of the code.
NoTask == TASK_POOL_SIZE

(***************************************************************************)
(* A tid packs the index of a slot and the slot's generation.  A task may  *)
(* pass any number for a tid: index TASK_POOL_SIZE stands for those that   *)
(* name no slot.                                                           *)
(***************************************************************************)
Tids == [index : 0 .. TASK_POOL_SIZE, gen : 0 .. GENERATIONS - 1]

\* No message under way: the slot's last_request is not a pending Send.
NoTid == [index |-> TASK_POOL_SIZE, gen |-> 0]

TaskStates == {"READY", "ACTIVE", "ZOMBIE",
               "SEND_BLOCKED",     \* in Receive, with nothing to receive
               "RECEIVE_BLOCKED",  \* in Send, queued at the receiver
               "REPLY_BLOCKED"}    \* in Send, received, not yet replied to

\* The interrupts that AwaitEvent switches on at the device.  The others are
\* on from io_init and clock_init.
SwitchedIrqs == {"COM2_SEND_IRQ", "COM1_SEND_IRQ", "COM1_MODEM_IRQ"}

VARIABLES
  gen,      \* slot -> generation half of its tid
  priority, \* slot -> priority
  state,    \* slot -> TASK_STATE
  dest,     \* slot -> the tid it is sending to: param[0] of its last_request
  sendq,    \* slot -> the senders queued at it, oldest first
  ready,    \* priority -> its ready queue
  bitmap,   \* priority_bitmap, as the set of its bits
  free,     \* free_list
  active,   \* the task that runs, NoTask inside the kernel
  mode,     \* where the loop of main() is: see Modes
  halt,     \* the last argument of Halt
  waiter,   \* event -> the task registered for it
  enabled   \* the interrupts the devices may raise

slotVars  == <<gen, priority, dest, sendq>>
schedVars == <<ready, bitmap, free>>
eventVars == <<waiter, enabled>>
vars == <<gen, priority, state, dest, sendq, ready, bitmap, free,
          active, mode, halt, waiter, enabled>>

Modes == {"kernel",  \* about to call scheduler_next
          "user",    \* the active task runs
          "trap",    \* it trapped and the statistics waiter was woken
          "ended"}   \* main() returned

\* A task runs, so a trap may be handled.
Running == mode \in {"user", "trap"}
-----------------------------------------------------------------------------
(***************************************************************************)
(* The ready queues.  scheduler_push marks the task READY, then appends it *)
(* to its queue and sets the queue's bit, unless the queue is full.        *)
(***************************************************************************)
\* Mutants: the capacity test off by one; the task pushed at the front.
EnqueueOffByOne(queues, t, p) ==
  IF Len(queues[p]) < PQCAPACITY - 1 THEN [queues EXCEPT ![p] = Append(@, t)] ELSE queues
EnqueueFront(queues, t, p) ==
  IF Len(queues[p]) < PQCAPACITY THEN [queues EXCEPT ![p] = <<t>> \o @] ELSE queues

Enqueue(queues, t, p) ==
  IF Len(queues[p]) < PQCAPACITY THEN [queues EXCEPT ![p] = Append(@, t)] ELSE queues

SetBit(bits, queues, p) ==
  IF Len(queues[p]) < PQCAPACITY THEN bits \cup {p} ELSE bits

\* scheduler_push of one task.
Push(t) ==
  /\ ready'  = Enqueue(ready, t, priority[t])
  /\ bitmap' = SetBit(bitmap, ready, priority[t])

\* scheduler_push of task t, whose priority is p, and then of the active task.
PushThenActive(t, p) ==
  LET first == Enqueue(ready, t, p)
  IN  /\ ready'  = Enqueue(first, active, priority[active])
      /\ bitmap' = SetBit(SetBit(bitmap, ready, p), first, priority[active])

\* scheduler_pop_free_task and scheduler_push_free_task.
\* Mutants: the slot stays in the list; the capacity test off by one.
PopFreeKeep(list) == list
PushFreeOffByOne(list, t) == IF Len(list) < PQCAPACITY - 1 THEN Append(list, t) ELSE list

PopFree(list) == Tail(list)
PushFree(list, t) == IF Len(list) < PQCAPACITY THEN Append(list, t) ELSE list

\* The event has been passed on: events[e].wait_task = 0.
Cleared(waiters, e) == [waiters EXCEPT ![e] = NoTask]

\* The end of every handler: back to the loop, whose scheduler_next clears
\* active before anything reads it.
ToKernel == mode' = "kernel" /\ active' = NoTask

\* RETURN_ACTIVE, on its own: the task goes to the back of its queue.
ReturnActive ==
  /\ Push(active)
  /\ state' = [state EXCEPT ![active] = "READY"]
  /\ ToKernel
-----------------------------------------------------------------------------
(***************************************************************************)
(* After kernel_init: k_create has taken slot 0 for first_task.  The       *)
(* priority of a slot that was never used is read by nothing.              *)
(***************************************************************************)
Init ==
  /\ gen      = [t \in Pool |-> IF t = 0 THEN 1 ELSE 0]
  /\ priority = [t \in Pool |-> FirstPriority]
  /\ state    = [t \in Pool |-> IF t = 0 THEN "READY" ELSE "ZOMBIE"]
  /\ dest     = [t \in Pool |-> NoTid]
  /\ sendq    = [t \in Pool |-> <<>>]
  /\ ready    = [p \in Priorities |-> IF p = FirstPriority THEN <<0>> ELSE <<>>]
  /\ bitmap   = {FirstPriority}
  /\ free     = [i \in 1 .. TASK_POOL_SIZE - 1 |-> i]
  /\ active   = NoTask
  /\ mode     = "kernel"
  /\ halt     = 0
  /\ waiter   = [e \in Events |-> NoTask]
  /\ enabled  = Events \ (SwitchedIrqs \cup {"KERNEL_STATS"})

(***************************************************************************)
(* scheduler_next: the head of the ready queue of the lowest bit (ctz).    *)
(* main() ends when no bit is set or a task has called Halt(1).            *)
(***************************************************************************)
\* Mutant: the highest bit.
HighestBit(bits) == CHOOSE p \in bits : \A q \in bits : p >= q

LowestBit(bits) == CHOOSE p \in bits : \A q \in bits : p <= q

Dispatch ==
  /\ mode = "kernel"
  /\ bitmap # {} /\ halt # 1
  /\ LET p == LowestBit(bitmap)
         t == Head(ready[p])
     IN  /\ active' = t
         /\ state'  = [state EXCEPT ![t] = "ACTIVE"]
         /\ ready'  = [ready EXCEPT ![p] = Tail(@)]
         /\ bitmap' = IF Tail(ready[p]) = <<>> THEN bitmap \ {p} ELSE bitmap
  /\ mode' = "user"
  /\ UNCHANGED <<gen, priority, dest, sendq, free, halt, waiter, enabled>>

EndMain ==
  /\ mode = "kernel"
  /\ bitmap = {} \/ halt = 1
  /\ mode' = "ended"
  /\ UNCHANGED <<gen, priority, state, dest, sendq, ready, bitmap, free,
                 active, halt, waiter, enabled>>

(***************************************************************************)
(* Once a second main() wakes the task waiting for KERNEL_STATS, between   *)
(* the trap of the active task and its handling.                           *)
(***************************************************************************)
KernelStats ==
  /\ mode = "user"
  /\ "KERNEL_STATS" \in Events
  /\ LET t == waiter["KERNEL_STATS"]
     IN  /\ t # NoTask
         /\ Push(t)
         /\ state' = [state EXCEPT ![t] = "READY"]
  /\ waiter' = Cleared(waiter, "KERNEL_STATS")
  /\ mode' = "trap"
  /\ UNCHANGED <<slotVars, free, active, halt, enabled>>
-----------------------------------------------------------------------------
(***************************************************************************)
(* Create(p): a free slot gets the next generation and joins queue p; the  *)
(* creator follows it into its own queue.  The slot's send queue is not    *)
(* reset.  Without a legal priority or a free slot only the creator is     *)
(* rescheduled.                                                            *)
(***************************************************************************)

\* The generation is cut to its bits.
NextGen(g) == (g + 1) % GENERATIONS

Create(p) ==
  /\ Running
  /\ p \in Priorities
  /\ free # <<>>
  /\ LET t == Head(free)
     IN  /\ gen'      = [gen EXCEPT ![t] = NextGen(@)]
         /\ priority' = [priority EXCEPT ![t] = p]
         /\ dest'     = [dest EXCEPT ![t] = NoTid]
         /\ PushThenActive(t, p)
         /\ state'    = [state EXCEPT ![t] = "READY", ![active] = "READY"]
  /\ free' = PopFree(free)
  /\ ToKernel
  /\ UNCHANGED <<sendq, halt, waiter, enabled>>

CreateFails(p) ==
  /\ Running
  /\ p \notin Priorities \/ free = <<>>
  /\ ReturnActive
  /\ UNCHANGED <<slotVars, free, halt, waiter, enabled>>

\* MyTid, MyParentTid and Pass, and any interrupt that no case of
\* handle_irq matches: only a rotation of the ready queue.
Pass ==
  /\ Running
  /\ ReturnActive
  /\ UNCHANGED <<slotVars, free, halt, waiter, enabled>>

\* Exit: the slot goes to the free list; its state, tid and send queue stay.
Exit ==
  /\ Running
  /\ free' = PushFree(free, active)
  /\ ToKernel
  /\ UNCHANGED <<slotVars, state, ready, bitmap, halt, waiter, enabled>>

\* Halt(h): only h = 1 does not reschedule the caller.
Halt(h) ==
  /\ Running
  /\ halt' = h
  /\ IF h = 1
       THEN ToKernel /\ UNCHANGED <<state, ready, bitmap>>
       ELSE ReturnActive
  /\ UNCHANGED <<slotVars, free, waiter, enabled>>
-----------------------------------------------------------------------------
(***************************************************************************)
(* Send(d).  The tid must be the current one of a slot that is no ZOMBIE.  *)
(***************************************************************************)
Addressable(d) ==
  /\ d.index \in Pool
  /\ gen[d.index] = d.gen

Receiving(d) == state[d.index] = "SEND_BLOCKED"

CanSend(d) == Addressable(d) /\ state[d.index] # "ZOMBIE"

SendFails(d) ==
  /\ Running
  /\ ~CanSend(d)
  /\ ReturnActive
  /\ UNCHANGED <<slotVars, free, halt, waiter, enabled>>

\* The receiver waits in Receive: it gets the message and is made ready.
SendDelivers(d) ==
  /\ Running
  /\ CanSend(d)
  /\ Receiving(d)
  /\ dest'  = [dest EXCEPT ![active] = d]
  /\ Push(d.index)
  /\ state' = [state EXCEPT ![active] = "REPLY_BLOCKED", ![d.index] = "READY"]
  /\ ToKernel
  /\ UNCHANGED <<gen, priority, sendq, free, halt, waiter, enabled>>

\* The receiver does something else: the sender queues at it.
SendQueues(d) ==
  /\ Running
  /\ CanSend(d)
  /\ ~Receiving(d)
  /\ dest'  = [dest EXCEPT ![active] = d]
  /\ sendq' = [sendq EXCEPT ![d.index] = Append(@, active)]
  /\ state' = [state EXCEPT ![active] = "RECEIVE_BLOCKED"]
  /\ ToKernel
  /\ UNCHANGED <<gen, priority, schedVars, halt, waiter, enabled>>

\* Receive with senders queued: the oldest one is taken.
ReceiveTakes ==
  /\ Running
  /\ sendq[active] # <<>>
  /\ sendq' = [sendq EXCEPT ![active] = Tail(@)]
  /\ Push(active)
  /\ state' = [state EXCEPT ![Head(sendq[active])] = "REPLY_BLOCKED", ![active] = "READY"]
  /\ ToKernel
  /\ UNCHANGED <<gen, priority, dest, free, halt, waiter, enabled>>

ReceiveBlocks ==
  /\ Running
  /\ sendq[active] = <<>>
  /\ state' = [state EXCEPT ![active] = "SEND_BLOCKED"]
  /\ ToKernel
  /\ UNCHANGED <<slotVars, schedVars, halt, waiter, enabled>>

(***************************************************************************)
(* Reply(d) wakes a REPLY_BLOCKED task first and the replier second.  The  *)
(* kernel does not ask whether d sent its message to this replier.         *)
(***************************************************************************)
\* Mutant: any task may be woken by a Reply.
CanReplyAlways(d) == Addressable(d)

CanReply(d) == Addressable(d) /\ state[d.index] = "REPLY_BLOCKED"

Reply(d) ==
  /\ Running
  /\ CanReply(d)
  /\ dest' = [dest EXCEPT ![d.index] = NoTid]
  /\ PushThenActive(d.index, priority[d.index])
  /\ state' = [state EXCEPT ![d.index] = "READY", ![active] = "READY"]
  /\ ToKernel
  /\ UNCHANGED <<gen, priority, sendq, free, halt, waiter, enabled>>

ReplyFails(d) ==
  /\ Running
  /\ ~CanReply(d)
  /\ ReturnActive
  /\ UNCHANGED <<slotVars, free, halt, waiter, enabled>>
-----------------------------------------------------------------------------
(***************************************************************************)
(* AwaitEvent(e) switches the interrupt on at its device and registers the *)
(* caller, if nobody is registered.  The caller's state stays ACTIVE, and  *)
(* a second caller ends up in no queue at all.                             *)
(***************************************************************************)
AwaitEvent(e) ==
  /\ Running
  /\ SoleNotifier => waiter[e] = NoTask
  /\ enabled' = enabled \cup ({e} \cap SwitchedIrqs)
  /\ waiter'  = [waiter EXCEPT ![e] = IF @ = NoTask THEN active ELSE @]
  /\ ToKernel
  /\ UNCHANGED <<slotVars, state, schedVars, halt>>

\* The interrupts that handle_irq switches off again.  The modem case clears
\* MSIEN in the control register of UART 2, which leaves UART 1 as it was.
\* Mutant: only the interrupt of UART 2 is switched off.
SwitchedOffUart2(e) == {e} \cap {"COM2_SEND_IRQ"}

SwitchedOff(e) == {e} \cap {"COM2_SEND_IRQ", "COM1_SEND_IRQ"}

(***************************************************************************)
(* handle_irq: the registered task is woken, then the interrupted one goes *)
(* to the back of its queue.  Without a registered task the event is lost. *)
(* kernel_end has masked the interrupts once halt is 2.                    *)
(***************************************************************************)
Irq(e) ==
  /\ Running
  /\ e \in enabled
  /\ halt # 2
  /\ enabled' = enabled \ SwitchedOff(e)
  /\ IF waiter[e] = NoTask
       THEN Push(active) /\ state' = [state EXCEPT ![active] = "READY"]
       ELSE /\ PushThenActive(waiter[e], priority[waiter[e]])
            /\ state' = [state EXCEPT ![waiter[e]] = "READY", ![active] = "READY"]
  /\ waiter' = Cleared(waiter, e)
  /\ ToKernel
  /\ UNCHANGED <<slotVars, free, halt>>
-----------------------------------------------------------------------------
SystemCall ==
  \/ \E p \in Priorities : Create(p)
  \/ \E p \in 0 .. TASK_NPRIORITIES : CreateFails(p)
  \/ Pass \/ Exit
  \/ \E h \in {1, 2} : Halt(h)
  \/ \E d \in Tids : SendFails(d) \/ SendDelivers(d) \/ SendQueues(d)
  \/ ReceiveTakes \/ ReceiveBlocks
  \/ \E d \in Tids : Reply(d) \/ ReplyFails(d)
  \/ \E e \in Events : AwaitEvent(e)

Next ==
  \/ Dispatch \/ EndMain \/ KernelStats
  \/ SystemCall
  \/ \E e \in Events : Irq(e)

Spec == Init /\ [][Next]_vars

\* The processor does not stop, and the timer interrupts a task that computes.
FairSpec == Spec /\ WF_vars(Next)
-----------------------------------------------------------------------------
(***************************************************************************)
(* Every variable has its type.  There is an active task exactly while one *)
(* runs, and its state says so.                                            *)
(***************************************************************************)
TypeOK ==
  /\ gen \in [Pool -> 0 .. GENERATIONS - 1]
  /\ priority \in [Pool -> Priorities]
  /\ state \in [Pool -> TaskStates]
  /\ dest \in [Pool -> Tids]
  /\ sendq \in [Pool -> Seq(Pool)]
  /\ ready \in [Priorities -> Seq(Pool)]
  /\ bitmap \in SUBSET Priorities
  /\ free \in Seq(Pool)
  /\ active \in Pool \cup {NoTask}
  /\ mode \in Modes
  /\ halt \in {0, 1, 2}
  /\ waiter \in [Events -> Pool \cup {NoTask}]
  /\ enabled \in SUBSET Events
  /\ Running <=> active # NoTask
  /\ Running => state[active] = "ACTIVE"

(***************************************************************************)
(* What scheduler_next and scheduler_push rely on: the READY tasks of a    *)
(* priority are exactly the members of its queue, each once, and the bit   *)
(* of a queue is set exactly when the queue is not empty.  A push that     *)
(* found its queue full would leave a READY task outside, and a stale bit  *)
(* would make scheduler_next pop an empty queue.                           *)
(***************************************************************************)
ReadyQueues ==
  /\ \A p \in Priorities :
        /\ IsInjective(ready[p])
        /\ Range(ready[p]) = {t \in Pool : state[t] = "READY" /\ priority[t] = p}
  /\ bitmap = {p \in Priorities : ready[p] # <<>>}

(***************************************************************************)
(* The intrusive send queues: a task is queued exactly when it is          *)
(* RECEIVE_BLOCKED, once, and at the task it sends to, so the single       *)
(* send_queue_next of a slot is enough to link it.                         *)
(***************************************************************************)
SenderQueues ==
  \A r \in Pool :
    /\ IsInjective(sendq[r])
    /\ Range(sendq[r]) = {t \in Pool : state[t] = "RECEIVE_BLOCKED" /\ dest[t].index = r}

(***************************************************************************)
(* The assertion at the head of send_queue_push and send_queue_pop, for    *)
(* all time: no sender is left queued at a task that waits in Receive.     *)
(***************************************************************************)
NoneQueuedAtReceiver ==
  \A r \in Pool : state[r] = "SEND_BLOCKED" => sendq[r] = <<>>

(***************************************************************************)
(* A free slot is in free_list once and nowhere else: it does not run, is  *)
(* in no queue and waits for no event.  A slot never used is free.         *)
(***************************************************************************)
FreeList ==
  /\ IsInjective(free)
  /\ \A t \in Range(free) :
        /\ state[t] \in {"ZOMBIE", "ACTIVE"}
        /\ t # active
        /\ \A e \in Events : waiter[e] # t
  /\ \A t \in Pool : state[t] = "ZOMBIE" => t \in Range(free)

(***************************************************************************)
(* A task registered for an event is in no queue, does not run and waits   *)
(* for that event only: waking it cannot put it into a queue twice.        *)
(***************************************************************************)
Waiters ==
  \A e \in Events : waiter[e] # NoTask =>
    /\ state[waiter[e]] = "ACTIVE"
    /\ waiter[e] # active
    /\ \A f \in Events : waiter[f] = waiter[e] => f = e

(***************************************************************************)
(* No task is lost.  The state of a task that awaits an event, has exited  *)
(* or runs is ACTIVE in all three cases, so a task that is ACTIVE and none *)
(* of the three can never run again.  It takes two tasks awaiting one      *)
(* event, or Halt(1), to lose one.                                         *)
(***************************************************************************)
NoTaskLost ==
  SoleNotifier /\ halt # 1 =>
    \A t \in Pool : state[t] = "ACTIVE" =>
      t = active \/ t \in Range(free) \/ \E e \in Events : waiter[e] = t

(***************************************************************************)
(* A transmit interrupt is on only while a task is registered for it, so   *)
(* handle_irq never drops one: the wake-up of an output notifier cannot be *)
(* lost however the interrupt and AwaitEvent interleave.                   *)
(***************************************************************************)
TransmitIrqAwaited ==
  \A e \in Events \cap {"COM1_SEND_IRQ", "COM2_SEND_IRQ"} :
    e \in enabled => waiter[e] # NoTask

(***************************************************************************)
(* scheduler_next runs a task only if no READY task is more urgent.        *)
(***************************************************************************)
StrictPriority ==
  [][mode = "kernel" /\ mode' = "user" =>
       \A t \in Pool : state[t] = "READY" => priority[active'] <= priority[t]]_vars

(***************************************************************************)
(* Tasks of the most urgent priority take turns: each of them that is      *)
(* READY runs in the end, whatever the tasks do, unless the kernel ends.   *)
(***************************************************************************)
UrgentTaskRuns ==
  \A t \in Pool :
    (state[t] = "READY" /\ priority[t] = 0) ~> (active = t \/ mode = "ended")
-----------------------------------------------------------------------------
(***************************************************************************)
(* What k_send says of an exited task ("task ended", with the result -2):  *)
(* nobody blocks in Send at a task that has exited.                        *)
(***************************************************************************)
EndedTaskRefusesSend ==
  [][\A t \in Pool :
       state[t] # "RECEIVE_BLOCKED" /\ state'[t] = "RECEIVE_BLOCKED" =>
         dest'[t].index \notin Range(free)]_vars

(***************************************************************************)
(* What handle_irq says of the modem interrupt ("disable the interrupt"):  *)
(* once handled it is off until the next AwaitEvent, so it is never raised *)
(* with nobody registered and never lost.                                  *)
(***************************************************************************)
ModemIrqAwaited ==
  "COM1_MODEM_IRQ" \in enabled => waiter["COM1_MODEM_IRQ"] # NoTask
=============================================================================
