---------------------------- MODULE KernelProofs ----------------------------
(***************************************************************************)
(* The safety properties of module Kernel, for every size of the pool,     *)
(* number of priorities, number of generations and set of events.          *)
(***************************************************************************)
EXTENDS Kernel, FiniteSetTheorems, SequenceTheorems, WellFoundedInduction, TLAPS

(***************************************************************************)
(* Facts about sequences used as queues without duplicates, which is what  *)
(* the ready queues, the free list and the send queues are: how appending  *)
(* and removing the head change the set of members.                        *)
(***************************************************************************)
\* A queue has members exactly when it is not empty.
LEMMA RangeEmpty ==
  ASSUME NEW S, NEW s \in Seq(S)
  PROVE  /\ Range(s) \subseteq S
         /\ Range(s) = {} <=> s = <<>>
  <1>1. DOMAIN s = 1 .. Len(s) /\ Len(s) \in Nat /\ \A i \in 1 .. Len(s) : s[i] \in S
    BY LenProperties, ElementOfSeq
  <1>2. ASSUME s # <<>> PROVE s[1] \in Range(s)
    BY <1>1, <1>2, EmptySeq DEF Range
  <1>3. s = <<>> => Range(s) = {}
    BY DEF Range
  <1> QED BY <1>1, <1>2, <1>3 DEF Range

\* Appending a new member adds it and keeps the members distinct.
LEMMA RangeAppend ==
  ASSUME NEW S, NEW s \in Seq(S), NEW e \in S
  PROVE  /\ Append(s, e) \in Seq(S)
         /\ Append(s, e) # <<>>
         /\ Range(Append(s, e)) = Range(s) \cup {e}
         /\ IsInjective(s) /\ e \notin Range(s) => IsInjective(Append(s, e))
  <1> DEFINE t == Append(s, e)
  <1>1. /\ t \in Seq(S) /\ Len(t) = Len(s) + 1 /\ Len(s) \in Nat
        /\ DOMAIN t = 1 .. Len(s) + 1 /\ DOMAIN s = 1 .. Len(s)
        /\ \A i \in 1 .. Len(s) : t[i] = s[i]
        /\ t[Len(s) + 1] = e
    BY AppendProperties, LenProperties
  <1>2. t # <<>>
    BY <1>1, EmptySeq
  <1>3. Range(t) = Range(s) \cup {e}
    BY <1>1 DEF Range
  <1>4. IsInjective(s) /\ e \notin Range(s) => IsInjective(t)
    BY <1>1 DEF IsInjective, Range
  <1> QED BY <1>1, <1>2, <1>3, <1>4

\* Removing the head of a queue of distinct members removes that member only.
LEMMA RangeTail ==
  ASSUME NEW S, NEW s \in Seq(S), s # <<>>, IsInjective(s)
  PROVE  /\ Head(s) \in Range(s)
         /\ Tail(s) \in Seq(S)
         /\ Range(Tail(s)) = Range(s) \ {Head(s)}
         /\ IsInjective(Tail(s))
  <1>1. /\ Tail(s) \in Seq(S) /\ Len(Tail(s)) = Len(s) - 1 /\ Len(s) \in Nat \ {0}
        /\ DOMAIN Tail(s) = 1 .. Len(s) - 1 /\ DOMAIN s = 1 .. Len(s)
        /\ \A i \in 1 .. Len(s) - 1 : Tail(s)[i] = s[i + 1]
        /\ Head(s) = s[1]
    BY HeadTailProperties, LenProperties, EmptySeq
  <1>2. Head(s) \in Range(s)
    BY <1>1 DEF Range
  <1>3. Range(Tail(s)) \subseteq Range(s) \ {Head(s)}
    BY <1>1 DEF Range, IsInjective
  <1>4. ASSUME NEW x \in Range(s) \ {Head(s)} PROVE x \in Range(Tail(s))
    <2>1. PICK i \in 1 .. Len(s) : s[i] = x
      BY <1>1 DEF Range
    <2>2. i - 1 \in 1 .. Len(s) - 1 /\ Tail(s)[i - 1] = x
      BY <1>1, <2>1
    <2> QED BY <1>1, <2>2 DEF Range
  <1>5. IsInjective(Tail(s))
    BY <1>1 DEF IsInjective
  <1> QED BY <1>1, <1>2, <1>3, <1>4, <1>5

\* A queue of distinct members out of n that lacks one of them is shorter
\* than n: a task that is pushed always finds room.
LEMMA RoomForOneMore ==
  ASSUME NEW n \in Nat, NEW s \in Seq(0 .. n - 1), IsInjective(s),
         NEW e \in 0 .. n - 1, e \notin Range(s)
  PROVE  Len(s) < n
  <1> DEFINE D == 1 .. Len(s)
             T == (0 .. n - 1) \ {e}
  <1>1. Len(s) \in Nat /\ DOMAIN s = D /\ s \in [D -> 0 .. n - 1]
    BY LenProperties, ElementOfSeq
  <1>2. s \in Injection(D, T)
    BY <1>1 DEF Injection, IsInjective, Range
  <1>3. IsFiniteSet(0 .. n - 1) /\ Cardinality(0 .. n - 1) = n
    BY FS_Interval
  <1>4. IsFiniteSet(T) /\ Cardinality(T) = n - 1
    BY <1>3, FS_RemoveElement
  <1>5. Cardinality(D) <= Cardinality(T)
    BY <1>2, <1>4, FS_Injection
  <1>6. Cardinality(D) = Len(s)
    <2>1. 1 \in Int /\ Len(s) \in Int
      BY <1>1
    <2>2. Cardinality(D) = IF 1 > Len(s) THEN 0 ELSE Len(s) - 1 + 1
      BY <2>1, FS_Interval, Zenon
    <2> QED BY <1>1, <2>2
  <1> QED BY <1>1, <1>4, <1>5, <1>6

\* A nonempty set of numbers has a least element: ctz finds a bit.
LEMMA LeastExists ==
  ASSUME NEW B \in SUBSET Nat, B # {}
  PROVE  \E p \in B : \A q \in B : p <= q
  <1>1. PICK p \in B : \A q \in B : ~(<<q, p>> \in OpToRel(<, Nat))
    BY WFMin, NatLessThanWellFounded
  <1>2. \A q \in B : ~(q < p)
    BY <1>1 DEF OpToRel
  <1>3. \A q \in B : q \in Nat
    OBVIOUS
  <1>4. \A q \in B : p <= q
    BY <1>2, <1>3
  <1> QED BY <1>4
-----------------------------------------------------------------------------
(***************************************************************************)
(* The inductive invariant.  No conjunct but the first is inductive alone: *)
(* waking a task keeps its ready queue free of duplicates because the task *)
(* was in no queue before, which the others say for each reason to wake    *)
(* it.                                                                     *)
(***************************************************************************)
IInv ==
  /\ TypeOK
  /\ ReadyQueues
  /\ SenderQueues
  /\ NoneQueuedAtReceiver
  /\ FreeList
  /\ Waiters

-----------------------------------------------------------------------------
(***************************************************************************)
(* The ready queues and the bitmap, against the set each queue should hold.*)
(***************************************************************************)
QueuesHold(queues, bits, members) ==
  /\ queues \in [Priorities -> Seq(Pool)]
  /\ \A p \in Priorities : IsInjective(queues[p]) /\ Range(queues[p]) = members[p]
  /\ bits = {p \in Priorities : queues[p] # <<>>}

ReadyAt == [p \in Priorities |-> {t \in Pool : state[t] = "READY" /\ priority[t] = p}]

LEMMA ReadyQueuesHold ==
  ASSUME ready \in [Priorities -> Seq(Pool)]
  PROVE  ReadyQueues <=> QueuesHold(ready, bitmap, ReadyAt)
  BY DEF ReadyQueues, QueuesHold, ReadyAt

\* scheduler_push of a task that its queue does not hold always finds room
\* and adds exactly that task.
LEMMA EnqueueHolds ==
  ASSUME NEW queues, NEW bits, NEW members, NEW t \in Pool, NEW p \in Priorities,
         QueuesHold(queues, bits, members), t \notin members[p]
  PROVE  QueuesHold(Enqueue(queues, t, p), SetBit(bits, queues, p),
                    [q \in Priorities |-> IF q = p THEN members[p] \cup {t} ELSE members[q]])
  <1> DEFINE more == Append(queues[p], t)
  <1>1. /\ queues[p] \in Seq(0 .. TASK_POOL_SIZE - 1) /\ IsInjective(queues[p])
        /\ t \in 0 .. TASK_POOL_SIZE - 1 /\ t \notin Range(queues[p])
    BY DEF QueuesHold, Pool
  <1>2. Len(queues[p]) < TASK_POOL_SIZE /\ Len(queues[p]) \in Nat
    BY <1>1, RoomForOneMore, KernelAssumption, LenProperties
  <1>3. /\ Enqueue(queues, t, p) = [queues EXCEPT ![p] = more]
        /\ SetBit(bits, queues, p) = bits \cup {p}
    BY <1>2, KernelAssumption DEF Enqueue, SetBit
  <1>4. /\ more \in Seq(Pool) /\ more # <<>>
        /\ Range(more) = members[p] \cup {t} /\ IsInjective(more)
    <2>1. queues[p] \in Seq(Pool) /\ Range(queues[p]) = members[p]
      BY DEF QueuesHold
    <2> QED BY <1>1, <2>1, RangeAppend
  <1> HIDE DEF more
  <1> DEFINE added == [q \in Priorities |-> IF q = p THEN members[p] \cup {t} ELSE members[q]]
             longer == [queues EXCEPT ![p] = more]
  <1>5. longer \in [Priorities -> Seq(Pool)]
    BY <1>4 DEF QueuesHold
  <1>6. \A q \in Priorities : IsInjective(longer[q]) /\ Range(longer[q]) = added[q]
    BY <1>4 DEF QueuesHold
  <1>7. bits \cup {p} = {q \in Priorities : longer[q] # <<>>}
    BY <1>4 DEF QueuesHold
  <1> QED BY <1>3, <1>5, <1>6, <1>7 DEF QueuesHold

\* Push(t) of a task that was not READY.
LEMMA PushReady ==
  ASSUME TypeOK, ReadyQueues, NEW t \in Pool, state[t] # "READY",
         Push(t), priority' = priority,
         \A u \in Pool : state'[u] = "READY" <=> state[u] = "READY" \/ u = t
  PROVE  /\ ready' \in [Priorities -> Seq(Pool)]
         /\ bitmap' \in SUBSET Priorities
         /\ ReadyQueues'
  <1> DEFINE p == priority[t]
             m == [q \in Priorities |-> IF q = p THEN ReadyAt[p] \cup {t} ELSE ReadyAt[q]]
  <1>1. p \in Priorities /\ t \notin ReadyAt[p] /\ QueuesHold(ready, bitmap, ReadyAt)
    BY ReadyQueuesHold DEF TypeOK, ReadyAt
  <1>2. QueuesHold(ready', bitmap', m)
    BY <1>1, EnqueueHolds DEF Push
  <1>3. m = ReadyAt'
    BY <1>1 DEF ReadyAt
  <1>4. ready' \in [Priorities -> Seq(Pool)] /\ bitmap' \in SUBSET Priorities
    BY <1>2 DEF QueuesHold
  <1>5. ReadyQueues'
    BY <1>2, <1>3, <1>4 DEF ReadyQueues, QueuesHold, ReadyAt
  <1> QED BY <1>4, <1>5

\* PushThenActive(t, p) of a task that was not READY and is not the active one.
LEMMA PushTwoReady ==
  ASSUME TypeOK, ReadyQueues, NEW t \in Pool, NEW p \in Priorities,
         Running, t # active, state[t] # "READY",
         PushThenActive(t, p),
         \A u \in Pool : priority'[u] = IF u = t THEN p ELSE priority[u],
         \A u \in Pool : state'[u] = "READY" <=> state[u] = "READY" \/ u \in {t, active}
  PROVE  /\ ready' \in [Priorities -> Seq(Pool)]
         /\ bitmap' \in SUBSET Priorities
         /\ ReadyQueues'
  <1> DEFINE a  == priority[active]
             m1 == [q \in Priorities |-> IF q = p THEN ReadyAt[p] \cup {t} ELSE ReadyAt[q]]
             m2 == [q \in Priorities |-> IF q = a THEN m1[a] \cup {active} ELSE m1[q]]
             r1 == Enqueue(ready, t, p)
             b1 == SetBit(bitmap, ready, p)
  <1>1. /\ active \in Pool /\ a \in Priorities /\ state[active] = "ACTIVE"
        /\ QueuesHold(ready, bitmap, ReadyAt)
    BY ReadyQueuesHold DEF TypeOK
  <1>2. t \notin ReadyAt[p] /\ active \notin m1[a]
    BY <1>1 DEF ReadyAt
  <1>3. QueuesHold(r1, b1, m1)
    BY <1>1, <1>2, EnqueueHolds
  <1>4. QueuesHold(Enqueue(r1, active, a), SetBit(b1, r1, a), m2)
    <2> HIDE DEF m1, r1, b1
    <2> QED BY <1>1, <1>2, <1>3, EnqueueHolds
  <1>5. QueuesHold(ready', bitmap', m2)
    BY <1>4 DEF PushThenActive
  <1>6. m2 = ReadyAt'
    BY <1>1 DEF ReadyAt
  <1>7. ready' \in [Priorities -> Seq(Pool)] /\ bitmap' \in SUBSET Priorities
    BY <1>5 DEF QueuesHold
  <1>8. ReadyQueues'
    <2> HIDE DEF m2
    <2> QED BY <1>5, <1>6, <1>7 DEF ReadyQueues, QueuesHold, ReadyAt
  <1> QED BY <1>7, <1>8
-----------------------------------------------------------------------------
(***************************************************************************)
(* Each step preserves the invariant.                                      *)
(***************************************************************************)
LEMMA InitInv == Init => IInv
  <1> SUFFICES ASSUME Init PROVE IInv
    OBVIOUS
  <1>1. 0 \in Pool /\ NoTask \notin Pool /\ FirstPriority \in Priorities
    BY KernelAssumption DEF Pool, Priorities, NoTask
  <1>2. /\ free \in Seq(Pool) /\ DOMAIN free = 1 .. TASK_POOL_SIZE - 1
        /\ \A i \in DOMAIN free : free[i] = i
    <2>1. free \in [1 .. TASK_POOL_SIZE - 1 -> Pool] /\ TASK_POOL_SIZE - 1 \in Nat
      BY KernelAssumption DEF Init, Pool
    <2> QED BY <2>1, SeqDef DEF Init
  <1>3. IsInjective(free) /\ Range(free) = Pool \ {0}
    BY <1>2, KernelAssumption DEF IsInjective, Range, Pool
  <1>4. /\ <<>> \in Seq(Pool) /\ IsInjective(<<>>) /\ Range(<<>>) = {}
        /\ <<0>> \in Seq(Pool) /\ <<0>> # <<>> /\ IsInjective(<<0>>) /\ Range(<<0>>) = {0}
    BY <1>1 DEF IsInjective, Range
  <1>5. TypeOK
    BY <1>1, <1>2, <1>4, KernelAssumption
       DEF Init, TypeOK, TaskStates, Tids, NoTid, Modes, Running, NoTask
  <1>6. ReadyQueues
    BY <1>1, <1>4 DEF Init, ReadyQueues
  <1>7. SenderQueues /\ NoneQueuedAtReceiver
    BY <1>4 DEF Init, SenderQueues, NoneQueuedAtReceiver
  <1>8. FreeList
    BY <1>1, <1>3 DEF Init, FreeList, NoTask
  <1>9. Waiters
    BY DEF Init, Waiters
  <1> QED BY <1>5, <1>6, <1>7, <1>8, <1>9 DEF IInv

\* What the invariant says of the task that runs: it is in no queue, not free
\* and registered for nothing.
LEMMA ActiveTask ==
  ASSUME IInv, Running
  PROVE  /\ active \in Pool /\ state[active] = "ACTIVE" /\ priority[active] \in Priorities
         /\ active \notin Range(free)
         /\ \A e \in Events : waiter[e] # active
         /\ \A r \in Pool : active \notin Range(sendq[r])
  <1>1. active \in Pool /\ state[active] = "ACTIVE" /\ priority[active] \in Priorities
    BY DEF IInv, TypeOK
  <1>2. active \notin Range(free)
    BY DEF IInv, FreeList
  <1>3. \A e \in Events : waiter[e] # active
    BY <1>1, KernelAssumption DEF IInv, Waiters, NoTask, Pool
  <1>4. \A r \in Pool : active \notin Range(sendq[r])
    BY <1>1 DEF IInv, SenderQueues
  <1> QED BY <1>1, <1>2, <1>3, <1>4

\* The members of the free list are slots, so none of them is NoTask.
LEMMA FreeInPool ==
  ASSUME TypeOK
  PROVE  /\ Range(free) \subseteq Pool
         /\ NoTask \notin Pool
         /\ NoTask \notin Range(free)
  <1>1. Range(free) \subseteq Pool
    BY RangeEmpty DEF TypeOK
  <1>2. NoTask \notin Pool
    BY KernelAssumption DEF NoTask, Pool
  <1> QED BY <1>1, <1>2

\* Everything that only puts the active task back into its queue.
LEMMA ReturnActiveInv ==
  ASSUME IInv, Running, ReturnActive, UNCHANGED <<slotVars, free, waiter>>,
         halt' \in {0, 1, 2}, enabled' \in SUBSET Events
  PROVE  IInv'
  <1>1. active \in Pool /\ state[active] = "ACTIVE"
    BY ActiveTask
  <1>2. /\ ready' \in [Priorities -> Seq(Pool)] /\ bitmap' \in SUBSET Priorities
        /\ ReadyQueues'
    BY <1>1, PushReady DEF IInv, TypeOK, ReturnActive, slotVars
  <1>3. TypeOK'
    BY <1>1, <1>2, KernelAssumption
       DEF IInv, TypeOK, ReturnActive, ToKernel, slotVars, TaskStates, Modes, Running, NoTask, Pool
  <1>4. SenderQueues'
    BY <1>1 DEF IInv, TypeOK, SenderQueues, ReturnActive, slotVars
  <1>5. NoneQueuedAtReceiver'
    BY <1>1 DEF IInv, TypeOK, NoneQueuedAtReceiver, ReturnActive, slotVars
  <1>6. FreeList'
    BY <1>1, ActiveTask, FreeInPool DEF IInv, TypeOK, FreeList, ReturnActive, ToKernel
  <1>7. Waiters'
    BY <1>1, ActiveTask DEF IInv, TypeOK, Waiters, ReturnActive, ToKernel
  <1> QED BY <1>2, <1>3, <1>4, <1>5, <1>6, <1>7 DEF IInv

\* scheduler_next finds the head of the most urgent queue that holds a task.
LEMMA MostUrgent ==
  ASSUME IInv, bitmap # {}
  PROVE  LET p == LowestBit(bitmap)
         IN  /\ p \in Priorities /\ ready[p] \in Seq(Pool) /\ ready[p] # <<>>
             /\ IsInjective(ready[p])
             /\ \A q \in bitmap : p <= q
             /\ Head(ready[p]) \in Pool
             /\ state[Head(ready[p])] = "READY" /\ priority[Head(ready[p])] = p
  <1> DEFINE p == LowestBit(bitmap)
  <1>1. bitmap \in SUBSET Nat
    BY DEF IInv, TypeOK, Priorities
  <1>2. \E q \in bitmap : \A r \in bitmap : q <= r
    BY <1>1, LeastExists
  <1>3. p \in bitmap /\ \A q \in bitmap : p <= q
    BY <1>2 DEF LowestBit
  <1> HIDE DEF p
  <1>4. /\ p \in Priorities /\ ready[p] \in Seq(Pool) /\ ready[p] # <<>> /\ IsInjective(ready[p])
        /\ Range(ready[p]) = {t \in Pool : state[t] = "READY" /\ priority[t] = p}
    BY <1>3 DEF IInv, TypeOK, ReadyQueues
  <1>5. Head(ready[p]) \in Range(ready[p])
    BY <1>4, RangeTail
  <1> QED BY <1>3, <1>4, <1>5 DEF p

LEMMA DispatchInv ==
  ASSUME IInv, Dispatch
  PROVE  IInv'
  <1> DEFINE p == LowestBit(bitmap)
             t == Head(ready[p])
             rest == Tail(ready[p])
  <1>1. /\ p \in Priorities /\ ready[p] \in Seq(Pool) /\ ready[p] # <<>> /\ IsInjective(ready[p])
        /\ t \in Pool /\ state[t] = "READY" /\ priority[t] = p
    BY MostUrgent DEF Dispatch
  <1>2. /\ rest \in Seq(Pool) /\ IsInjective(rest) /\ Range(rest) = Range(ready[p]) \ {t}
    BY <1>1, RangeTail
  <1>3. /\ active' = t /\ mode' = "user"
        /\ state' = [state EXCEPT ![t] = "ACTIVE"]
        /\ ready' = [ready EXCEPT ![p] = rest]
        /\ bitmap' = IF rest = <<>> THEN bitmap \ {p} ELSE bitmap
        /\ UNCHANGED <<gen, priority, dest, sendq, free, halt, waiter, enabled>>
    BY DEF Dispatch
  <1> HIDE DEF p, t, rest
  <1>4. TypeOK'
    <2>1. ready' \in [Priorities -> Seq(Pool)] /\ bitmap' \in SUBSET Priorities
      BY <1>1, <1>2, <1>3 DEF IInv, TypeOK
    <2>2. state' \in [Pool -> TaskStates] /\ state'[active'] = "ACTIVE"
      BY <1>1, <1>3 DEF IInv, TypeOK, TaskStates
    <2>3. mode' \in Modes /\ Running' /\ active' \in Pool /\ active' # NoTask
      BY <1>1, <1>3, FreeInPool DEF IInv, Modes, Running
    <2> QED BY <1>3, <2>1, <2>2, <2>3 DEF IInv, TypeOK
  <1>5. ReadyQueues'
    <2>1. bitmap' = {q \in Priorities : ready'[q] # <<>>}
      BY <1>1, <1>3 DEF IInv, TypeOK, ReadyQueues
    <2>2. ASSUME NEW q \in Priorities
          PROVE  /\ IsInjective(ready'[q])
                 /\ Range(ready'[q]) = {u \in Pool : state'[u] = "READY" /\ priority'[u] = q}
      BY <1>1, <1>2, <1>3 DEF IInv, TypeOK, ReadyQueues
    <2> QED BY <2>1, <2>2 DEF ReadyQueues
  <1>6. SenderQueues'
    BY <1>1, <1>3 DEF IInv, TypeOK, SenderQueues
  <1>7. NoneQueuedAtReceiver'
    BY <1>1, <1>3 DEF IInv, TypeOK, NoneQueuedAtReceiver
  <1>8. FreeList'
    BY <1>1, <1>3, FreeInPool DEF IInv, TypeOK, FreeList
  <1>9. Waiters'
    BY <1>1, <1>3 DEF IInv, TypeOK, Waiters
  <1> QED BY <1>4, <1>5, <1>6, <1>7, <1>8, <1>9 DEF IInv

LEMMA KernelStatsInv ==
  ASSUME IInv, KernelStats
  PROVE  IInv'
  <1> DEFINE t == waiter["KERNEL_STATS"]
  <1>1. t \in Pool /\ state[t] = "ACTIVE" /\ t # active /\ Running
    BY DEF KernelStats, Cleared, IInv, TypeOK, Waiters, Running
  <1>2. /\ Push(t) /\ state' = [state EXCEPT ![t] = "READY"] /\ mode' = "trap"
        /\ waiter' = [waiter EXCEPT !["KERNEL_STATS"] = NoTask]
        /\ UNCHANGED <<gen, priority, dest, sendq, free, active, halt, enabled>>
        /\ "KERNEL_STATS" \in Events
    BY DEF KernelStats, Cleared, slotVars
  <1>3. \A u \in Range(free) : u # t
    BY <1>2 DEF IInv, FreeList
  <1>4. \A e \in Events \ {"KERNEL_STATS"} : waiter[e] # t
    BY <1>1, <1>2, FreeInPool DEF IInv, Waiters
  <1> HIDE DEF t
  <1>5. /\ ready' \in [Priorities -> Seq(Pool)] /\ bitmap' \in SUBSET Priorities
        /\ ReadyQueues'
    BY <1>1, <1>2, PushReady DEF IInv, TypeOK
  <1>6. TypeOK'
    BY <1>1, <1>2, <1>5 DEF IInv, TypeOK, TaskStates, Modes, Running
  <1>7. SenderQueues'
    BY <1>1, <1>2 DEF IInv, TypeOK, SenderQueues
  <1>8. NoneQueuedAtReceiver'
    BY <1>1, <1>2 DEF IInv, TypeOK, NoneQueuedAtReceiver
  <1>9. FreeList'
    BY <1>1, <1>2, <1>3, FreeInPool DEF IInv, TypeOK, FreeList
  <1>10. Waiters'
    BY <1>1, <1>2, <1>4 DEF IInv, TypeOK, Waiters
  <1> QED BY <1>5, <1>6, <1>7, <1>8, <1>9, <1>10 DEF IInv

LEMMA EndMainInv ==
  ASSUME IInv, EndMain
  PROVE  IInv'
  <1>1. UNCHANGED <<gen, priority, state, dest, sendq, ready, bitmap, free, active,
                    halt, waiter, enabled>> /\ mode' = "ended" /\ ~Running /\ ~Running'
    BY DEF EndMain, Running
  <1>2. TypeOK'
    BY <1>1 DEF IInv, TypeOK, Modes
  <1> QED BY <1>1, <1>2
          DEF IInv, ReadyQueues, SenderQueues, NoneQueuedAtReceiver, FreeList, Waiters

LEMMA NoTidType == NoTid \in Tids
  BY KernelAssumption DEF NoTid, Tids

LEMMA CreateInv ==
  ASSUME IInv, NEW p \in Priorities, Create(p)
  PROVE  IInv'
  <1> DEFINE t == Head(free)
  <1>1. /\ active \in Pool /\ state[active] = "ACTIVE" /\ active \notin Range(free)
        /\ Running
    BY ActiveTask DEF Create
  <1>2. /\ free \in Seq(Pool) /\ free # <<>> /\ IsInjective(free)
    BY DEF Create, NextGen, PopFree, IInv, TypeOK, FreeList
  <1>3. /\ t \in Range(free) /\ Tail(free) \in Seq(Pool) /\ IsInjective(Tail(free))
        /\ Range(Tail(free)) = Range(free) \ {t}
    BY <1>2, RangeTail
  <1>4. /\ t \in Pool /\ t # active /\ state[t] \in {"ZOMBIE", "ACTIVE"}
        /\ \A e \in Events : waiter[e] # t
    BY <1>3, FreeInPool DEF IInv, FreeList
  <1>5. /\ gen' = [gen EXCEPT ![t] = (@ + 1) % GENERATIONS]
        /\ priority' = [priority EXCEPT ![t] = p]
        /\ dest' = [dest EXCEPT ![t] = NoTid]
        /\ PushThenActive(t, p)
        /\ state' = [state EXCEPT ![t] = "READY", ![active] = "READY"]
        /\ free' = Tail(free) /\ mode' = "kernel" /\ active' = NoTask
        /\ UNCHANGED <<sendq, halt, waiter, enabled>>
    BY DEF Create, NextGen, PopFree, ToKernel
  <1> HIDE DEF t
  <1>6. /\ ready' \in [Priorities -> Seq(Pool)] /\ bitmap' \in SUBSET Priorities
        /\ ReadyQueues'
    <2>1. \A u \in Pool : priority'[u] = IF u = t THEN p ELSE priority[u]
      BY <1>4, <1>5 DEF IInv, TypeOK
    <2>2. \A u \in Pool : state'[u] = "READY" <=> state[u] = "READY" \/ u \in {t, active}
      BY <1>1, <1>4, <1>5 DEF IInv, TypeOK
    <2> QED BY <1>1, <1>4, <1>5, <2>1, <2>2, PushTwoReady DEF IInv
  <1>7. TypeOK'
    <2>1. gen' \in [Pool -> 0 .. GENERATIONS - 1]
      <3>1. \A n \in 0 .. GENERATIONS - 1 : (n + 1) % GENERATIONS \in 0 .. GENERATIONS - 1
        BY KernelAssumption
      <3> QED BY <1>4, <1>5, <3>1 DEF IInv, TypeOK
    <2>2. priority' \in [Pool -> Priorities] /\ dest' \in [Pool -> Tids]
      BY <1>5, NoTidType DEF IInv, TypeOK
    <2>3. state' \in [Pool -> TaskStates]
      BY <1>5 DEF IInv, TypeOK, TaskStates
    <2>4. mode' \in Modes /\ ~Running' /\ active' = NoTask
      BY <1>5 DEF Modes, Running
    <2> QED BY <1>3, <1>5, <1>6, <2>1, <2>2, <2>3, <2>4 DEF IInv, TypeOK
  <1>8. SenderQueues'
    BY <1>1, <1>4, <1>5 DEF IInv, TypeOK, SenderQueues
  <1>9. NoneQueuedAtReceiver'
    BY <1>1, <1>4, <1>5 DEF IInv, TypeOK, NoneQueuedAtReceiver
  <1>10. FreeList'
    BY <1>1, <1>3, <1>4, <1>5, FreeInPool DEF IInv, TypeOK, FreeList
  <1>11. Waiters'
    BY <1>1, <1>4, <1>5, ActiveTask DEF IInv, TypeOK, Waiters
  <1> QED BY <1>6, <1>7, <1>8, <1>9, <1>10, <1>11 DEF IInv

LEMMA ExitInv ==
  ASSUME IInv, Exit
  PROVE  IInv'
  <1>1. /\ active \in Pool /\ state[active] = "ACTIVE" /\ active \notin Range(free)
        /\ \A e \in Events : waiter[e] # active
    BY ActiveTask DEF Exit
  <1>2. /\ UNCHANGED <<gen, priority, dest, sendq, state, ready, bitmap, halt, waiter, enabled>>
        /\ free' \in {free, Append(free, active)} /\ mode' = "kernel" /\ active' = NoTask
    BY DEF Exit, PushFree, ToKernel, slotVars
  <1>3. /\ free' \in Seq(Pool) /\ IsInjective(free')
        /\ Range(free) \subseteq Range(free') /\ Range(free') \subseteq Range(free) \cup {active}
    <2>1. free \in Seq(Pool) /\ IsInjective(free)
      BY DEF IInv, TypeOK, FreeList
    <2>2. CASE free' = free
      BY <2>1, <2>2
    <2>3. CASE free' = Append(free, active)
      BY <1>1, <2>1, <2>3, RangeAppend
    <2> QED BY <1>2, <2>2, <2>3
  <1>4. TypeOK'
    BY <1>2, <1>3 DEF IInv, TypeOK, Modes, Running
  <1>5. FreeList'
    BY <1>1, <1>2, <1>3, FreeInPool DEF IInv, FreeList
  <1>6. Waiters'
    BY <1>2 DEF IInv, Waiters
  <1> QED BY <1>2, <1>4, <1>5, <1>6 DEF IInv, ReadyQueues, SenderQueues, NoneQueuedAtReceiver

LEMMA HaltInv ==
  ASSUME IInv, NEW h \in {1, 2}, Halt(h)
  PROVE  IInv'
  <1>1. CASE h # 1
    <2>1. Running /\ ReturnActive /\ halt' \in {0, 1, 2}
          /\ UNCHANGED <<slotVars, free, waiter, enabled>>
      BY <1>1 DEF Halt
    <2> QED BY <2>1, ReturnActiveInv DEF IInv, TypeOK
  <1>2. CASE h = 1
    <2>1. UNCHANGED <<gen, priority, dest, sendq, state, ready, bitmap, free, waiter, enabled>>
          /\ halt' = 1 /\ mode' = "kernel" /\ active' = NoTask
      BY <1>2 DEF Halt, ToKernel, slotVars
    <2>2. TypeOK'
      BY <2>1 DEF IInv, TypeOK, Modes, Running
    <2>3. FreeList' /\ Waiters'
      BY <2>1, FreeInPool DEF IInv, TypeOK, FreeList, Waiters
    <2> QED BY <2>1, <2>2, <2>3 DEF IInv, ReadyQueues, SenderQueues, NoneQueuedAtReceiver
  <1> QED BY <1>1, <1>2

LEMMA SendDeliversInv ==
  ASSUME IInv, NEW d \in Tids, SendDelivers(d)
  PROVE  IInv'
  <1> DEFINE r == d.index
  <1>1. active \in Pool /\ state[active] = "ACTIVE" /\ Running
    BY ActiveTask DEF SendDelivers
  <1>2. r \in Pool /\ state[r] = "SEND_BLOCKED" /\ r # active
    BY <1>1 DEF SendDelivers, Receiving, CanSend, Addressable
  <1>3. /\ dest' = [dest EXCEPT ![active] = d]
        /\ Push(r)
        /\ state' = [state EXCEPT ![active] = "REPLY_BLOCKED", ![r] = "READY"]
        /\ mode' = "kernel" /\ active' = NoTask
        /\ UNCHANGED <<gen, priority, sendq, free, halt, waiter, enabled>>
    BY DEF SendDelivers, ToKernel
  <1> HIDE DEF r
  <1>4. /\ ready' \in [Priorities -> Seq(Pool)] /\ bitmap' \in SUBSET Priorities
        /\ ReadyQueues'
    BY <1>1, <1>2, <1>3, PushReady DEF IInv, TypeOK
  <1>5. TypeOK'
    BY <1>2, <1>3, <1>4 DEF IInv, TypeOK, TaskStates, Modes, Running
  <1>6. SenderQueues'
    BY <1>1, <1>2, <1>3 DEF IInv, TypeOK, SenderQueues
  <1>7. NoneQueuedAtReceiver'
    BY <1>1, <1>2, <1>3 DEF IInv, TypeOK, NoneQueuedAtReceiver
  <1>8. FreeList'
    BY <1>1, <1>2, <1>3, ActiveTask, FreeInPool DEF IInv, TypeOK, FreeList
  <1>9. Waiters'
    BY <1>1, <1>2, <1>3, ActiveTask DEF IInv, TypeOK, Waiters
  <1> QED BY <1>4, <1>5, <1>6, <1>7, <1>8, <1>9 DEF IInv

LEMMA SendQueuesInv ==
  ASSUME IInv, NEW d \in Tids, SendQueues(d)
  PROVE  IInv'
  <1> DEFINE r == d.index
             longer == Append(sendq[r], active)
  <1>1. /\ active \in Pool /\ state[active] = "ACTIVE" /\ Running
        /\ \A q \in Pool : active \notin Range(sendq[q])
    BY ActiveTask DEF SendQueues
  <1>2. r \in Pool /\ state[r] # "SEND_BLOCKED"
    BY <1>1 DEF SendQueues, Receiving, CanSend, Addressable
  <1>3. /\ dest' = [dest EXCEPT ![active] = d]
        /\ sendq' = [sendq EXCEPT ![r] = longer]
        /\ state' = [state EXCEPT ![active] = "RECEIVE_BLOCKED"]
        /\ mode' = "kernel" /\ active' = NoTask
        /\ UNCHANGED <<gen, priority, ready, bitmap, free, halt, waiter, enabled>>
    BY DEF SendQueues, ToKernel, schedVars
  <1>4. /\ longer \in Seq(Pool) /\ IsInjective(longer)
        /\ Range(longer) = Range(sendq[r]) \cup {active}
    <2>1. sendq[r] \in Seq(Pool) /\ IsInjective(sendq[r])
      BY <1>2 DEF IInv, TypeOK, SenderQueues
    <2> QED BY <1>1, <1>2, <2>1, RangeAppend
  <1> HIDE DEF longer
  <1>5. TypeOK'
    BY <1>1, <1>2, <1>3, <1>4 DEF IInv, TypeOK, TaskStates, Modes, Running
  <1>6. ReadyQueues'
    BY <1>1, <1>3 DEF IInv, TypeOK, ReadyQueues
  <1>7. SenderQueues'
    <2> SUFFICES ASSUME NEW q \in Pool
                 PROVE  /\ IsInjective(sendq'[q])
                        /\ Range(sendq'[q]) =
                             {t \in Pool : state'[t] = "RECEIVE_BLOCKED" /\ dest'[t].index = q}
      BY DEF SenderQueues
    <2>1. /\ IsInjective(sendq[q])
          /\ Range(sendq[q]) = {t \in Pool : state[t] = "RECEIVE_BLOCKED" /\ dest[t].index = q}
      BY DEF IInv, SenderQueues
    <2>2. \A t \in Pool : /\ state'[t] = IF t = active THEN "RECEIVE_BLOCKED" ELSE state[t]
                         /\ dest'[t] = IF t = active THEN d ELSE dest[t]
      BY <1>1, <1>3 DEF IInv, TypeOK
    <2>3. sendq'[q] = IF q = r THEN longer ELSE sendq[q]
      BY <1>2, <1>3 DEF IInv, TypeOK
    <2>4. CASE q = r
      BY <1>1, <1>4, <2>1, <2>2, <2>3, <2>4
    <2>5. CASE q # r
      BY <1>1, <2>1, <2>2, <2>3, <2>5
    <2> QED BY <2>4, <2>5
  <1>8. NoneQueuedAtReceiver'
    BY <1>1, <1>2, <1>3 DEF IInv, TypeOK, NoneQueuedAtReceiver
  <1>9. FreeList'
    BY <1>1, <1>3, ActiveTask, FreeInPool DEF IInv, TypeOK, FreeList
  <1>10. Waiters'
    BY <1>1, <1>3, ActiveTask DEF IInv, TypeOK, Waiters
  <1> QED BY <1>5, <1>6, <1>7, <1>8, <1>9, <1>10 DEF IInv

LEMMA ReceiveTakesInv ==
  ASSUME IInv, ReceiveTakes
  PROVE  IInv'
  <1> DEFINE s == Head(sendq[active])
             rest == Tail(sendq[active])
  <1>1. active \in Pool /\ state[active] = "ACTIVE" /\ Running
    BY ActiveTask DEF ReceiveTakes
  <1>2. /\ sendq[active] \in Seq(Pool) /\ sendq[active] # <<>> /\ IsInjective(sendq[active])
        /\ Range(sendq[active]) =
             {t \in Pool : state[t] = "RECEIVE_BLOCKED" /\ dest[t].index = active}
    BY <1>1 DEF ReceiveTakes, IInv, TypeOK, SenderQueues
  <1>3. /\ s \in Range(sendq[active]) /\ rest \in Seq(Pool) /\ IsInjective(rest)
        /\ Range(rest) = Range(sendq[active]) \ {s}
    BY <1>2, RangeTail
  <1>4. s \in Pool /\ state[s] = "RECEIVE_BLOCKED" /\ dest[s].index = active /\ s # active
    BY <1>1, <1>2, <1>3
  <1>5. /\ sendq' = [sendq EXCEPT ![active] = rest]
        /\ Push(active)
        /\ state' = [state EXCEPT ![s] = "REPLY_BLOCKED", ![active] = "READY"]
        /\ mode' = "kernel" /\ active' = NoTask
        /\ UNCHANGED <<gen, priority, dest, free, halt, waiter, enabled>>
    BY DEF ReceiveTakes, ToKernel
  <1> HIDE DEF s, rest
  <1>6. /\ ready' \in [Priorities -> Seq(Pool)] /\ bitmap' \in SUBSET Priorities
        /\ ReadyQueues'
    BY <1>1, <1>4, <1>5, PushReady DEF IInv, TypeOK
  <1>7. TypeOK'
    BY <1>1, <1>3, <1>4, <1>5, <1>6 DEF IInv, TypeOK, TaskStates, Modes, Running
  <1>8. SenderQueues'
    BY <1>1, <1>2, <1>3, <1>4, <1>5 DEF IInv, TypeOK, SenderQueues
  <1>9. NoneQueuedAtReceiver'
    BY <1>1, <1>4, <1>5 DEF IInv, TypeOK, NoneQueuedAtReceiver
  <1>10. FreeList'
    BY <1>1, <1>4, <1>5, ActiveTask, FreeInPool DEF IInv, TypeOK, FreeList
  <1>11. Waiters'
    BY <1>1, <1>4, <1>5, ActiveTask DEF IInv, TypeOK, Waiters
  <1> QED BY <1>6, <1>7, <1>8, <1>9, <1>10, <1>11 DEF IInv

LEMMA ReceiveBlocksInv ==
  ASSUME IInv, ReceiveBlocks
  PROVE  IInv'
  <1>1. active \in Pool /\ state[active] = "ACTIVE" /\ Running
    BY ActiveTask DEF ReceiveBlocks
  <1>2. /\ state' = [state EXCEPT ![active] = "SEND_BLOCKED"] /\ sendq[active] = <<>>
        /\ mode' = "kernel" /\ active' = NoTask
        /\ UNCHANGED <<gen, priority, dest, sendq, ready, bitmap, free, halt, waiter, enabled>>
    BY DEF ReceiveBlocks, ToKernel, slotVars, schedVars
  <1>3. TypeOK'
    BY <1>1, <1>2 DEF IInv, TypeOK, TaskStates, Modes, Running
  <1>4. ReadyQueues'
    BY <1>1, <1>2 DEF IInv, TypeOK, ReadyQueues
  <1>5. SenderQueues'
    BY <1>1, <1>2 DEF IInv, TypeOK, SenderQueues
  <1>6. NoneQueuedAtReceiver'
    BY <1>1, <1>2 DEF IInv, TypeOK, NoneQueuedAtReceiver
  <1>7. FreeList'
    BY <1>1, <1>2, ActiveTask, FreeInPool DEF IInv, TypeOK, FreeList
  <1>8. Waiters'
    BY <1>1, <1>2, ActiveTask DEF IInv, TypeOK, Waiters
  <1> QED BY <1>3, <1>4, <1>5, <1>6, <1>7, <1>8 DEF IInv

LEMMA ReplyInv ==
  ASSUME IInv, NEW d \in Tids, Reply(d)
  PROVE  IInv'
  <1> DEFINE t == d.index
  <1>1. active \in Pool /\ state[active] = "ACTIVE" /\ Running
    BY ActiveTask DEF Reply
  <1>2. t \in Pool /\ state[t] = "REPLY_BLOCKED" /\ t # active /\ priority[t] \in Priorities
    BY <1>1 DEF Reply, CanReply, Addressable, IInv, TypeOK
  <1>3. /\ dest' = [dest EXCEPT ![t] = NoTid]
        /\ PushThenActive(t, priority[t])
        /\ state' = [state EXCEPT ![t] = "READY", ![active] = "READY"]
        /\ mode' = "kernel" /\ active' = NoTask
        /\ UNCHANGED <<gen, priority, sendq, free, halt, waiter, enabled>>
    BY DEF Reply, ToKernel
  <1> HIDE DEF t
  <1>4. /\ ready' \in [Priorities -> Seq(Pool)] /\ bitmap' \in SUBSET Priorities
        /\ ReadyQueues'
    <2>1. \A u \in Pool : state'[u] = "READY" <=> state[u] = "READY" \/ u \in {t, active}
      BY <1>1, <1>2, <1>3 DEF IInv, TypeOK
    <2>2. \A u \in Pool : priority'[u] = IF u = t THEN priority[t] ELSE priority[u]
      BY <1>3
    <2> QED BY <1>1, <1>2, <1>3, <2>1, <2>2, PushTwoReady DEF IInv
  <1>5. TypeOK'
    BY <1>1, <1>2, <1>3, <1>4, NoTidType DEF IInv, TypeOK, TaskStates, Modes, Running
  <1>6. SenderQueues'
    BY <1>1, <1>2, <1>3 DEF IInv, TypeOK, SenderQueues
  <1>7. NoneQueuedAtReceiver'
    BY <1>1, <1>2, <1>3 DEF IInv, TypeOK, NoneQueuedAtReceiver
  <1>8. FreeList'
    BY <1>1, <1>2, <1>3, ActiveTask, FreeInPool DEF IInv, TypeOK, FreeList
  <1>9. Waiters'
    BY <1>1, <1>2, <1>3, ActiveTask DEF IInv, TypeOK, Waiters
  <1> QED BY <1>4, <1>5, <1>6, <1>7, <1>8, <1>9 DEF IInv

LEMMA AwaitEventInv ==
  ASSUME IInv, NEW e \in Events, AwaitEvent(e)
  PROVE  IInv'
  <1>1. /\ active \in Pool /\ state[active] = "ACTIVE" /\ active \notin Range(free)
        /\ \A f \in Events : waiter[f] # active
    BY ActiveTask DEF AwaitEvent
  <1>2. /\ enabled' = enabled \cup ({e} \cap SwitchedIrqs)
        /\ waiter' = [waiter EXCEPT ![e] = IF @ = NoTask THEN active ELSE @]
        /\ mode' = "kernel" /\ active' = NoTask
        /\ UNCHANGED <<gen, priority, dest, sendq, state, ready, bitmap, free, halt>>
    BY DEF AwaitEvent, ToKernel, slotVars, schedVars
  <1>3. TypeOK'
    BY <1>1, <1>2 DEF IInv, TypeOK, Modes, Running
  <1>4. FreeList'
    BY <1>1, <1>2, FreeInPool DEF IInv, TypeOK, FreeList
  <1>5. Waiters'
    BY <1>1, <1>2 DEF IInv, TypeOK, Waiters
  <1> QED BY <1>2, <1>3, <1>4, <1>5 DEF IInv, ReadyQueues, SenderQueues, NoneQueuedAtReceiver

LEMMA IrqInv ==
  ASSUME IInv, NEW e \in Events, Irq(e)
  PROVE  IInv'
  <1>1. CASE waiter[e] = NoTask
    <2>1. waiter' = waiter
      BY <1>1 DEF Irq, Cleared, IInv, TypeOK
    <2>2. enabled' \in SUBSET Events
      BY DEF Irq, Cleared, IInv, TypeOK
    <2>3. ReturnActive /\ Running /\ UNCHANGED <<slotVars, free, halt>>
      BY <1>1 DEF Irq, Cleared, ReturnActive
    <2> QED BY <2>1, <2>2, <2>3, ReturnActiveInv DEF IInv, TypeOK
  <1>2. CASE waiter[e] # NoTask
    <2> DEFINE t == waiter[e]
    <2>1. active \in Pool /\ state[active] = "ACTIVE" /\ Running
      BY ActiveTask DEF Irq
    <2>2. /\ t \in Pool /\ state[t] = "ACTIVE" /\ t # active /\ priority[t] \in Priorities
          /\ \A f \in Events : waiter[f] = t => f = e
          /\ t \notin Range(free)
      BY <1>2 DEF IInv, TypeOK, Waiters, FreeList
    <2>3. /\ PushThenActive(t, priority[t])
          /\ state' = [state EXCEPT ![t] = "READY", ![active] = "READY"]
          /\ waiter' = [waiter EXCEPT ![e] = NoTask]
          /\ enabled' = enabled \ SwitchedOff(e)
          /\ mode' = "kernel" /\ active' = NoTask
          /\ UNCHANGED <<gen, priority, dest, sendq, free, halt>>
      BY <1>2 DEF Irq, Cleared, ToKernel, slotVars
    <2> HIDE DEF t
    <2>4. /\ ready' \in [Priorities -> Seq(Pool)] /\ bitmap' \in SUBSET Priorities
          /\ ReadyQueues'
      <3>1. \A u \in Pool : state'[u] = "READY" <=> state[u] = "READY" \/ u \in {t, active}
        BY <2>1, <2>2, <2>3 DEF IInv, TypeOK
      <3>2. \A u \in Pool : priority'[u] = IF u = t THEN priority[t] ELSE priority[u]
        BY <2>3
      <3> QED BY <2>1, <2>2, <2>3, <3>1, <3>2, PushTwoReady DEF IInv
    <2>5. TypeOK'
      BY <2>1, <2>2, <2>3, <2>4 DEF IInv, TypeOK, TaskStates, Modes, Running
    <2>6. SenderQueues'
      BY <2>1, <2>2, <2>3 DEF IInv, TypeOK, SenderQueues
    <2>7. NoneQueuedAtReceiver'
      BY <2>1, <2>2, <2>3 DEF IInv, TypeOK, NoneQueuedAtReceiver
    <2>8. FreeList'
      BY <2>1, <2>2, <2>3, ActiveTask, FreeInPool DEF IInv, TypeOK, FreeList
    <2>9. Waiters'
      BY <2>1, <2>2, <2>3, ActiveTask, FreeInPool DEF IInv, TypeOK, Waiters
    <2> QED BY <2>4, <2>5, <2>6, <2>7, <2>8, <2>9 DEF IInv
  <1> QED BY <1>1, <1>2

LEMMA NextInv == IInv /\ [Next]_vars => IInv'
  <1> SUFFICES ASSUME IInv, [Next]_vars PROVE IInv'
    OBVIOUS
  <1>1. CASE Dispatch
    BY <1>1, DispatchInv
  <1>2. CASE EndMain
    BY <1>2, EndMainInv
  <1>3. CASE KernelStats
    BY <1>3, KernelStatsInv
  <1>4. ASSUME NEW p \in Priorities, Create(p) PROVE IInv'
    BY <1>4, CreateInv
  <1>5. ASSUME Running, ReturnActive, UNCHANGED <<slotVars, free, halt, waiter, enabled>>
        PROVE  IInv'
    BY <1>5, ReturnActiveInv DEF IInv, TypeOK
  <1>6. ASSUME NEW p \in 0 .. TASK_NPRIORITIES, CreateFails(p) PROVE IInv'
    BY <1>5, <1>6 DEF CreateFails
  <1>7. CASE Pass
    BY <1>5, <1>7 DEF Pass
  <1>8. CASE Exit
    BY <1>8, ExitInv
  <1>9. ASSUME NEW h \in {1, 2}, Halt(h) PROVE IInv'
    BY <1>9, HaltInv
  <1>10. ASSUME NEW d \in Tids, SendFails(d) PROVE IInv'
    BY <1>5, <1>10 DEF SendFails
  <1>11. ASSUME NEW d \in Tids, SendDelivers(d) PROVE IInv'
    BY <1>11, SendDeliversInv
  <1>12. ASSUME NEW d \in Tids, SendQueues(d) PROVE IInv'
    BY <1>12, SendQueuesInv
  <1>13. CASE ReceiveTakes
    BY <1>13, ReceiveTakesInv
  <1>14. CASE ReceiveBlocks
    BY <1>14, ReceiveBlocksInv
  <1>15. ASSUME NEW d \in Tids, Reply(d) PROVE IInv'
    BY <1>15, ReplyInv
  <1>16. ASSUME NEW d \in Tids, ReplyFails(d) PROVE IInv'
    BY <1>5, <1>16 DEF ReplyFails
  <1>17. ASSUME NEW e \in Events, AwaitEvent(e) PROVE IInv'
    BY <1>17, AwaitEventInv
  <1>18. ASSUME NEW e \in Events, Irq(e) PROVE IInv'
    BY <1>18, IrqInv
  <1>19. CASE UNCHANGED vars
    BY <1>19 DEF vars, IInv, TypeOK, ReadyQueues, SenderQueues, NoneQueuedAtReceiver,
                 FreeList, Waiters, Running
  <1> QED BY <1>1, <1>2, <1>3, <1>4, <1>6, <1>7, <1>8, <1>9, <1>10, <1>11, <1>12, <1>13,
             <1>14, <1>15, <1>16, <1>17, <1>18, <1>19 DEF Next, SystemCall

LEMMA Invariance == Spec => []IInv
  BY InitInv, NextInv, PTL DEF Spec
-----------------------------------------------------------------------------
(***************************************************************************)
(* The ready queues, the bitmap and the states of the tasks agree for all  *)
(* time, and a push never finds its queue full.                            *)
(***************************************************************************)
THEOREM ReadyQueuesCorrect == Spec => [](TypeOK /\ ReadyQueues)
  <1>1. IInv => TypeOK /\ ReadyQueues
    BY DEF IInv
  <1> QED BY <1>1, Invariance, PTL

(***************************************************************************)
(* A sender is linked into one send queue, once, and no sender is queued   *)
(* at a task that waits in Receive.                                        *)
(***************************************************************************)
THEOREM SenderQueuesCorrect == Spec => [](SenderQueues /\ NoneQueuedAtReceiver)
  <1>1. IInv => SenderQueues /\ NoneQueuedAtReceiver
    BY DEF IInv
  <1> QED BY <1>1, Invariance, PTL

(***************************************************************************)
(* Free slots and tasks registered for an event are apart from everything  *)
(* that can run.                                                           *)
(***************************************************************************)
THEOREM FreeListCorrect == Spec => [](FreeList /\ Waiters)
  <1>1. IInv => FreeList /\ Waiters
    BY DEF IInv
  <1> QED BY <1>1, Invariance, PTL

(***************************************************************************)
(* No READY task is more urgent than the one that scheduler_next runs.     *)
(***************************************************************************)
THEOREM StrictPriorityHolds == Spec => StrictPriority
  <1> DEFINE Urgent == mode = "kernel" /\ mode' = "user" =>
                         \A t \in Pool : state[t] = "READY" => priority[active'] <= priority[t]
  <1>1. ASSUME IInv, [Next]_vars PROVE [Urgent]_vars
    <2>1. CASE Dispatch
      <3> DEFINE p == LowestBit(bitmap)
      <3>1. /\ active' = Head(ready[p]) /\ priority[Head(ready[p])] = p
            /\ \A q \in bitmap : p <= q
        BY <1>1, <2>1, MostUrgent DEF Dispatch
      <3> HIDE DEF p
      <3>2. ASSUME NEW t \in Pool, state[t] = "READY" PROVE priority[t] \in bitmap
        <4>1. priority[t] \in Priorities /\ t \in Range(ready[priority[t]])
          BY <1>1, <3>2 DEF IInv, TypeOK, ReadyQueues
        <4>2. ready[priority[t]] \in Seq(Pool) /\ ready[priority[t]] # <<>>
          BY <1>1, <4>1, RangeEmpty DEF IInv, TypeOK
        <4> QED BY <1>1, <4>1, <4>2 DEF IInv, ReadyQueues
      <3> QED BY <3>1, <3>2
    <2>2. CASE EndMain \/ KernelStats
      BY <2>2 DEF EndMain, KernelStats
    <2>3. CASE SystemCall \/ \E e \in Events : Irq(e)
      <3>1. mode # "kernel"
        BY <2>3 DEF SystemCall, Create, CreateFails, Pass, Exit, Halt, SendFails, SendDelivers,
                    SendQueues, ReceiveTakes, ReceiveBlocks, Reply, ReplyFails, AwaitEvent, Irq,
                    Running
      <3> QED BY <3>1
    <2>4. CASE UNCHANGED vars
      BY <2>4
    <2> QED BY <1>1, <2>1, <2>2, <2>3, <2>4 DEF Next
  <1>2. IInv /\ [Next]_vars => [Urgent]_vars
    BY <1>1
  <1> HIDE DEF Urgent
  <1>3. Spec => [][Urgent]_vars
    BY <1>2, Invariance, PTL DEF Spec
  <1> QED BY <1>3 DEF StrictPriority, Urgent

\* A slot of the pool that the free list does not hold always finds room there.
LEMMA FreeListRoom ==
  ASSUME IInv, Running
  PROVE  Len(free) < PQCAPACITY
  <1>1. free \in Seq(0 .. TASK_POOL_SIZE - 1) /\ IsInjective(free)
    BY DEF IInv, TypeOK, FreeList, Pool
  <1>2. active \in 0 .. TASK_POOL_SIZE - 1 /\ active \notin Range(free)
    BY ActiveTask DEF Pool
  <1>3. Len(free) < TASK_POOL_SIZE /\ Len(free) \in Nat
    BY <1>1, <1>2, RoomForOneMore, KernelAssumption, LenProperties
  <1> QED BY <1>3, KernelAssumption

(***************************************************************************)
(* With one notifier per event, a task that is neither running, free,      *)
(* waiting for an event, queued nor blocked does not exist.                *)
(***************************************************************************)
Accounted(t) == t = active \/ t \in Range(free) \/ \E e \in Events : waiter[e] = t

\* Once a task has called Halt(1), none runs again.
HaltStops == Running => halt # 1

LEMMA NextHaltStops == HaltStops /\ [Next]_vars => HaltStops'
  <1> SUFFICES ASSUME HaltStops, [Next]_vars, Running' PROVE halt' # 1
    BY DEF HaltStops
  <1>1. CASE Dispatch
    BY <1>1 DEF Dispatch
  <1>2. CASE KernelStats
    BY <1>2 DEF KernelStats, HaltStops, Running
  <1>3. CASE UNCHANGED vars
    BY <1>3 DEF vars, HaltStops, Running
  <1>4. CASE EndMain
    BY <1>4 DEF EndMain, Running
  <1>5. CASE SystemCall \/ \E e \in Events : Irq(e)
    <2>1. mode' = "kernel"
      BY <1>5 DEF SystemCall, Create, CreateFails, Pass, Exit, Halt, SendFails, SendDelivers,
                  SendQueues, ReceiveTakes, ReceiveBlocks, Reply, ReplyFails, AwaitEvent, Irq,
                  ReturnActive, ToKernel
    <2> QED BY <2>1 DEF Running
  <1> QED BY <1>1, <1>2, <1>3, <1>4, <1>5 DEF Next

LEMMA NextLosesNoTask ==
  IInv /\ HaltStops /\ NoTaskLost /\ [Next]_vars => NoTaskLost'
  <1> SUFFICES ASSUME IInv, HaltStops, NoTaskLost, [Next]_vars, SoleNotifier, halt' # 1,
                      NEW t \in Pool, state'[t] = "ACTIVE"
               PROVE  Accounted(t)'
    BY DEF NoTaskLost, Accounted
  <1> USE DEF Accounted
  <1>1. state[t] = "ACTIVE" /\ halt # 1 => Accounted(t)
    BY DEF NoTaskLost
  <1>2. CASE Dispatch
    <2>1. active' \in Pool /\ state' = [state EXCEPT ![active'] = "ACTIVE"] /\ active = NoTask
      BY <1>2, MostUrgent DEF Dispatch, IInv, TypeOK, Running
    <2>2. t # active' => state[t] = "ACTIVE" /\ t # active
      BY <2>1, FreeInPool DEF IInv, TypeOK
    <2> QED BY <1>1, <1>2, <2>2 DEF Dispatch
  <1>3. CASE EndMain
    BY <1>1, <1>3 DEF EndMain
  <1>4. CASE KernelStats
    <2>1. state[t] = "ACTIVE" /\ t # waiter["KERNEL_STATS"] /\ halt # 1
      BY <1>4 DEF KernelStats, Cleared, IInv, TypeOK
    <2>2. \A e \in Events : waiter[e] = t => waiter'[e] = t
      BY <1>4, <2>1 DEF KernelStats, Cleared, IInv, TypeOK
    <2> QED BY <1>1, <1>4, <2>1, <2>2 DEF KernelStats
  <1>5. ASSUME NEW p \in Priorities, Create(p) PROVE Accounted(t)'
    <2>1. /\ state' = [state EXCEPT ![Head(free)] = "READY", ![active] = "READY"]
          /\ free' = Tail(free) /\ UNCHANGED <<halt, waiter>> /\ free # <<>>
      BY <1>5 DEF Create, NextGen, PopFree
    <2>2. state[t] = "ACTIVE" /\ t # Head(free) /\ t # active
      BY <1>5, <2>1, ActiveTask DEF IInv, TypeOK, Create
    <2>3. Range(Tail(free)) = Range(free) \ {Head(free)}
      BY <2>1, RangeTail DEF IInv, TypeOK, FreeList
    <2> QED BY <1>1, <2>1, <2>2, <2>3
  <1>6. ASSUME Running, ReturnActive, UNCHANGED <<free, waiter>>, halt # 1 PROVE Accounted(t)'
    <2>1. state[t] = "ACTIVE" /\ t # active
      BY <1>6, ActiveTask DEF ReturnActive, IInv, TypeOK
    <2> QED BY <1>1, <1>6, <2>1
  <1>7. CASE Exit
    <2>1. state' = state /\ UNCHANGED <<halt, waiter>> /\ free' = Append(free, active)
      BY <1>7, FreeListRoom DEF Exit, PushFree
    <2>2. Range(free') = Range(free) \cup {active}
      BY <1>7, <2>1, ActiveTask, RangeAppend DEF Exit, IInv, TypeOK
    <2> QED BY <1>1, <2>1, <2>2
  <1>8. ASSUME NEW h \in {1, 2}, Halt(h) PROVE Accounted(t)'
    <2>1. h = 2 /\ Running /\ ReturnActive /\ UNCHANGED <<free, waiter>>
      BY <1>8 DEF Halt
    <2>2. state[t] = "ACTIVE" /\ t # active
      BY <2>1, ActiveTask DEF ReturnActive, IInv, TypeOK
    <2>3. halt # 1
      BY <2>1 DEF HaltStops
    <2> QED BY <1>6, <2>1, <2>3
  <1>9. ASSUME NEW d \in Tids, SendDelivers(d) PROVE Accounted(t)'
    <2>1. /\ Running /\ UNCHANGED <<free, halt, waiter>>
          /\ state' = [state EXCEPT ![active] = "REPLY_BLOCKED", ![d.index] = "READY"]
      BY <1>9 DEF SendDelivers
    <2>2. state[t] = "ACTIVE" /\ t # active
      BY <2>1, ActiveTask DEF IInv, TypeOK
    <2> QED BY <1>1, <2>1, <2>2
  <1>10. ASSUME NEW d \in Tids, SendQueues(d) PROVE Accounted(t)'
    <2>1. /\ Running /\ UNCHANGED <<free, halt, waiter>>
          /\ state' = [state EXCEPT ![active] = "RECEIVE_BLOCKED"]
      BY <1>10 DEF SendQueues, schedVars
    <2>2. state[t] = "ACTIVE" /\ t # active
      BY <2>1, ActiveTask DEF IInv, TypeOK
    <2> QED BY <1>1, <2>1, <2>2
  <1>11. CASE ReceiveTakes
    <2>1. /\ Running /\ UNCHANGED <<free, halt, waiter>>
          /\ state' = [state EXCEPT ![Head(sendq[active])] = "REPLY_BLOCKED", ![active] = "READY"]
      BY <1>11 DEF ReceiveTakes
    <2>2. state[t] = "ACTIVE" /\ t # active
      BY <2>1, ActiveTask DEF IInv, TypeOK
    <2> QED BY <1>1, <2>1, <2>2
  <1>12. CASE ReceiveBlocks
    <2>1. /\ Running /\ UNCHANGED <<free, halt, waiter>>
          /\ state' = [state EXCEPT ![active] = "SEND_BLOCKED"]
      BY <1>12 DEF ReceiveBlocks, schedVars
    <2>2. state[t] = "ACTIVE" /\ t # active
      BY <2>1, ActiveTask DEF IInv, TypeOK
    <2> QED BY <1>1, <2>1, <2>2
  <1>13. ASSUME NEW d \in Tids, Reply(d) PROVE Accounted(t)'
    <2>1. /\ Running /\ UNCHANGED <<free, halt, waiter>>
          /\ state' = [state EXCEPT ![d.index] = "READY", ![active] = "READY"]
      BY <1>13 DEF Reply
    <2>2. state[t] = "ACTIVE" /\ t # active
      BY <2>1, ActiveTask DEF IInv, TypeOK
    <2> QED BY <1>1, <2>1, <2>2
  <1>14. ASSUME NEW e \in Events, AwaitEvent(e) PROVE Accounted(t)'
    <2>1. /\ Running /\ UNCHANGED <<state, free, halt>> /\ waiter[e] = NoTask
          /\ waiter' = [waiter EXCEPT ![e] = active]
      BY <1>14 DEF AwaitEvent, schedVars, IInv, TypeOK
    <2>2. waiter'[e] = active
      BY <2>1 DEF IInv, TypeOK
    <2>3. \A f \in Events : waiter[f] = t => waiter'[f] = t
      BY <2>1, FreeInPool DEF IInv, TypeOK
    <2> QED BY <1>1, <2>1, <2>2, <2>3
  <1>15. ASSUME NEW e \in Events, Irq(e) PROVE Accounted(t)'
    <2>1. /\ Running /\ UNCHANGED <<free, halt>> /\ waiter' = [waiter EXCEPT ![e] = NoTask]
      BY <1>15 DEF Irq, Cleared
    <2>2. state[t] = "ACTIVE" /\ t # active /\ t # waiter[e]
      BY <1>15, <2>1, ActiveTask, FreeInPool DEF Irq, Cleared, IInv, TypeOK
    <2>3. \A f \in Events : waiter[f] = t => waiter'[f] = t
      BY <2>1, <2>2 DEF IInv, TypeOK
    <2> QED BY <1>1, <2>1, <2>2, <2>3
  <1>16. CASE UNCHANGED vars
    BY <1>1, <1>16 DEF vars
  <1>17. ASSUME Running, ReturnActive, UNCHANGED <<free, halt, waiter>> PROVE Accounted(t)'
    BY <1>6, <1>17
  <1>18. ASSUME NEW p \in 0 .. TASK_NPRIORITIES, CreateFails(p) PROVE Accounted(t)'
    BY <1>17, <1>18 DEF CreateFails
  <1>19. CASE Pass
    BY <1>17, <1>19 DEF Pass
  <1>20. ASSUME NEW d \in Tids, SendFails(d) PROVE Accounted(t)'
    BY <1>17, <1>20 DEF SendFails
  <1>21. ASSUME NEW d \in Tids, ReplyFails(d) PROVE Accounted(t)'
    BY <1>17, <1>21 DEF ReplyFails
  <1> QED BY <1>2, <1>3, <1>4, <1>5, <1>7, <1>8, <1>9, <1>10, <1>11, <1>12, <1>13, <1>14,
             <1>15, <1>16, <1>18, <1>19, <1>20, <1>21 DEF Next, SystemCall

(***************************************************************************)
(* No task is lost as long as every event has one notifier.                *)
(***************************************************************************)
THEOREM NoTaskIsLost == Spec => []NoTaskLost
  <1>1. Init => HaltStops /\ NoTaskLost
    BY DEF Init, HaltStops, Running, NoTaskLost
  <1> QED BY <1>1, NextHaltStops, NextLosesNoTask, Invariance, PTL DEF Spec

(***************************************************************************)
(* No transmit interrupt is dropped: only AwaitEvent switches it on, with  *)
(* a task registered, and the handler that wakes the task switches it off. *)
(***************************************************************************)
THEOREM TransmitIrqsAwaited == Spec => []TransmitIrqAwaited
  <1>1. Init => TransmitIrqAwaited
    BY DEF Init, TransmitIrqAwaited, SwitchedIrqs
  <1>2. ASSUME IInv, TransmitIrqAwaited, [Next]_vars PROVE TransmitIrqAwaited'
    <2>1. CASE UNCHANGED <<waiter, enabled>>
      BY <1>2, <2>1 DEF TransmitIrqAwaited
    <2>2. CASE KernelStats
      <3>1. enabled' = enabled /\ waiter' = [waiter EXCEPT !["KERNEL_STATS"] = NoTask]
        BY <2>2 DEF KernelStats, Cleared
      <3> QED BY <1>2, <3>1 DEF TransmitIrqAwaited, IInv, TypeOK
    <2>3. ASSUME NEW e \in Events, AwaitEvent(e) PROVE TransmitIrqAwaited'
      <3>1. active \in Pool /\ active # NoTask
        BY <1>2, <2>3, ActiveTask, FreeInPool DEF AwaitEvent, IInv
      <3>2. /\ enabled' = enabled \cup ({e} \cap SwitchedIrqs)
            /\ waiter'[e] # NoTask
            /\ \A f \in Events \ {e} : waiter'[f] = waiter[f]
        BY <1>2, <2>3, <3>1 DEF AwaitEvent, IInv, TypeOK
      <3> QED BY <1>2, <3>2 DEF TransmitIrqAwaited
    <2>4. ASSUME NEW e \in Events, Irq(e) PROVE TransmitIrqAwaited'
      <3>1. enabled' = enabled \ SwitchedOff(e) /\ waiter' = [waiter EXCEPT ![e] = NoTask]
        BY <2>4 DEF Irq, Cleared
      <3> QED BY <1>2, <3>1 DEF TransmitIrqAwaited, SwitchedOff, IInv, TypeOK
    <2> QED
      BY <1>2, <2>1, <2>2, <2>3, <2>4
         DEF Next, vars, SystemCall, Dispatch, EndMain, Create, CreateFails, Pass, Exit, Halt,
             SendFails, SendDelivers, SendQueues, ReceiveTakes, ReceiveBlocks, Reply, ReplyFails
  <1> QED BY <1>1, <1>2, Invariance, PTL DEF Spec
=============================================================================
