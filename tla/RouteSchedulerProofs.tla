------------------------ MODULE RouteSchedulerProofs ------------------------
(***************************************************************************)
(* Proofs about module RouteScheduler: a train never has two drivers, a    *)
(* schedule is never left to a train without a status, and trains drive as *)
(* module Itinerary says, for any trains, orders and number of slots,      *)
(* whether or not drivers can be created.                                  *)
(*                                                                         *)
(* The argument is that a report in the mailbox stands for one driver: the *)
(* one that sent it, blocked until the report is taken.  So the server     *)
(* resets a status exactly when the driver it stands for is done.          *)
(***************************************************************************)
EXTENDS RouteScheduler, SequenceTheorems, TLAPS

\* A slot has an instruction while its driver has not been answered.
Instructed(ph, or) ==
  \A s \in Slots : or[s] # NoOrder <=> ph[s] \in {"driving", "asking"}

\* Each report is that of a driver that waits for the answer, and its only one.
Reports(mb, ph, or) ==
  /\ \A k \in DOMAIN mb : mb[k].opcode = "TRAIN_MOVED" =>
       ph[mb[k].sender] = "asking" /\ or[mb[k].sender].train = mb[k].train
  /\ \A j, k \in DOMAIN mb :
       /\ mb[j].opcode = "TRAIN_MOVED" /\ mb[k].opcode = "TRAIN_MOVED"
       /\ mb[j].sender = mb[k].sender
       => j = k

IInv ==
  /\ TypeOK /\ Instructed(phase, order) /\ Reports(mailbox, phase, order)
  /\ OneDriver /\ ScheduleHasStatus
-----------------------------------------------------------------------------
Instructions == [train : Trains, node : Dests] \cup {NoOrder}

LEMMA InstructionFacts ==
  /\ NoOrder.train \notin Trains
  /\ \A o \in Instructions : o # NoOrder <=> o.train \in Trains
  BY RouteSchedulerNames DEF Instructions, NoOrder

\* Facts about a request that joins the mailbox.
LEMMA AskFacts ==
  ASSUME TypeOK, NEW m \in Requests, Ask(m)
  PROVE  /\ mailbox' \in Seq(Requests)
         /\ DOMAIN mailbox' = DOMAIN mailbox \cup {Len(mailbox) + 1}
         /\ Len(mailbox) + 1 \notin DOMAIN mailbox
         /\ \A k \in DOMAIN mailbox : mailbox'[k] = mailbox[k]
         /\ mailbox'[Len(mailbox) + 1] = m
  <1>1. mailbox \in Seq(Requests) /\ mailbox' = Append(mailbox, m)
    BY DEF TypeOK, Ask
  <1>2. /\ Len(mailbox) \in Nat /\ DOMAIN mailbox = 1 .. Len(mailbox)
        /\ Len(mailbox') = Len(mailbox) + 1 /\ mailbox' \in Seq(Requests)
        /\ DOMAIN mailbox' = 1 .. Len(mailbox')
        /\ \A i \in 1 .. Len(mailbox) : mailbox'[i] = mailbox[i]
        /\ mailbox'[Len(mailbox) + 1] = m
    BY <1>1, AppendProperties, LenProperties
  <1> QED BY <1>2

\* Facts about the request that the server takes.
LEMMA ReceivedFacts ==
  ASSUME TypeOK, NEW opcode, Received(opcode)
  PROVE  /\ Head(mailbox) \in Requests /\ Head(mailbox).opcode = opcode
         /\ mailbox' \in Seq(Requests)
         /\ Head(mailbox) = mailbox[1] /\ 1 \in DOMAIN mailbox
         /\ \A k \in DOMAIN mailbox' :
              k + 1 \in DOMAIN mailbox /\ mailbox'[k] = mailbox[k + 1]
              /\ k \in Nat /\ k + 1 # 1
  <1>1. mailbox \in Seq(Requests) /\ mailbox # <<>> /\ mailbox' = Tail(mailbox)
        /\ Head(mailbox).opcode = opcode
    BY DEF TypeOK, Received
  <1>2. /\ Len(mailbox) \in Nat \ {0} /\ DOMAIN mailbox = 1 .. Len(mailbox)
        /\ mailbox' \in Seq(Requests) /\ Len(mailbox') = Len(mailbox) - 1
        /\ DOMAIN mailbox' = 1 .. Len(mailbox) - 1
        /\ \A i \in 1 .. Len(mailbox) - 1 : mailbox'[i] = mailbox[i + 1]
        /\ Head(mailbox) = mailbox[1]
    BY <1>1, HeadTailProperties, LenProperties, EmptySeq
  <1>3. mailbox[1] \in Requests
    BY <1>1, <1>2, ElementOfSeq
  <1> QED BY <1>1, <1>2, <1>3

\* The fields of a request.
LEMMA RequestFacts ==
  ASSUME NEW m \in Requests
  PROVE  /\ m.train \in Trains
         /\ m.opcode \in {"MOVE_TRAIN", "TRAIN_MOVED"}
         /\ m.opcode = "MOVE_TRAIN" => m.plan \in Seq(Dests) /\ m.loop \in BOOLEAN
         /\ m.opcode = "TRAIN_MOVED" => m.sender \in Slots
  BY RouteSchedulerAssumption DEF Requests
-----------------------------------------------------------------------------
\* What the server's step makes of the slots: t has the drivers it had, and the
\* one created for it if there was room.
LEMMA CreatedFacts ==
  ASSUME NEW ph \in [Slots -> Phases], NEW or \in [Slots -> Instructions],
         Instructed(ph, or), NEW t \in Trains, NEW node \in Dests,
         \A s \in Slots : or[s].train # t,
         Created(ph, or, t, node)
  PROVE  /\ phase' \in [Slots -> Phases] /\ order' \in [Slots -> Instructions]
         /\ Instructed(phase', order')
         /\ \A s \in Slots : ph[s] = "asking" => phase'[s] = "asking" /\ order'[s] = or[s]
         /\ \A s \in Slots : order'[s].train # t => order'[s] = or[s]
         /\ \A s, r \in Slots : order'[s].train = t /\ order'[r].train = t => s = r
         /\ \A s \in Slots : or[s] # NoOrder => order'[s] = or[s]
         /\ \A s \in Slots : order'[s].train = t => order'[s].node = node
  <1>1. PICK slot : slot = CHOOSE s \in {s \in Slots : ph[s] = "free"} : TRUE
    OBVIOUS
  <1>2. CASE {s \in Slots : ph[s] = "free"} = {}
    <2>1. phase' = ph /\ order' = or
      BY <1>2 DEF Created
    <2> QED BY <2>1
  <1>3. CASE {s \in Slots : ph[s] = "free"} # {}
    <2>1. slot \in Slots /\ ph[slot] = "free"
      BY <1>1, <1>3
    <2>2. /\ phase' = [ph EXCEPT ![slot] = "driving"]
          /\ order' = [or EXCEPT ![slot] = [train |-> t, node |-> node]]
      BY <1>1, <1>3 DEF Created
    <2>3. or[slot] = NoOrder
      BY <2>1 DEF Instructed
    <2>4. phase' \in [Slots -> Phases] /\ order' \in [Slots -> Instructions]
      BY <2>1, <2>2 DEF Phases, Instructions
    <2>5. \A s \in Slots : s # slot => phase'[s] = ph[s] /\ order'[s] = or[s]
      BY <2>2
    <2>6. phase'[slot] = "driving" /\ order'[slot] = [train |-> t, node |-> node]
      BY <2>1, <2>2
    <2>7. order'[slot].train = t /\ order'[slot] # NoOrder
      BY <2>6, InstructionFacts
    <2>8. Instructed(phase', order')
      BY <2>5, <2>6, <2>7 DEF Instructed
    <2> QED BY <2>1, <2>3, <2>4, <2>5, <2>6, <2>7, <2>8
  <1> QED BY <1>2, <1>3
-----------------------------------------------------------------------------
\* The schedule of t is set: curr_dest stays an index of its list.
LEMMA ScheduledTyped ==
  ASSUME TypeOK, NEW t \in Trains, NEW ds \in Seq(Dests), NEW l \in BOOLEAN, NEW c \in Nat,
         (ds = <<>> /\ c = 0) \/ c < Len(ds), Scheduled(t, ds, l, c)
  PROVE  /\ dest' \in [Trains -> Seq(Dests)] /\ curr_dest' \in [Trains -> Nat]
         /\ loop' \in [Trains -> BOOLEAN]
         /\ \A u \in Trains :
              (dest'[u] = <<>> /\ curr_dest'[u] = 0) \/ curr_dest'[u] < Len(dest'[u])
         /\ \A u \in Trains : u # t => dest'[u] = dest[u]
         /\ dest'[t] = ds
  BY DEF TypeOK, Scheduled

\* No slot has an instruction for t, and each has its own or none.
Relieved(or, t) == \A s \in Slots : or[s].train # t /\ or[s] \in {order[s], NoOrder}

\* A driver is created, or should have been, in a state where t has none: no
\* report in the mailbox is of a slot that this touches.
LEMMA CreateKeeps ==
  ASSUME IInv, NEW t \in Trains, NEW ds \in Seq(Dests), NEW l \in BOOLEAN, NEW c \in Nat,
         ds # <<>> => c < Len(ds),
         NEW ph \in [Slots -> Phases], NEW or \in [Slots -> Instructions],
         Instructed(ph, or), Relieved(or, t), CreateDriver(t, ds, l, c, ph, or),
         mailbox' \in Seq(Requests), Reports(mailbox', ph, or),
         worker' \in {"running", "blocked"}
  PROVE  IInv'
  <1>1. ds # <<>> /\ c < Len(ds) /\ Len(ds) \in Nat /\ ds[c + 1] \in Dests
    <2>1. ds # <<>> /\ c < Len(ds)
      BY DEF CreateDriver
    <2> QED BY <2>1, ElementOfSeq, LenProperties
  <1>2. /\ phase' \in [Slots -> Phases] /\ order' \in [Slots -> Instructions]
        /\ Instructed(phase', order')
        /\ \A s \in Slots : ph[s] = "asking" => phase'[s] = "asking" /\ order'[s] = or[s]
        /\ \A s \in Slots : order'[s].train # t => order'[s] = or[s]
        /\ \A s, r \in Slots : order'[s].train = t /\ order'[r].train = t => s = r
    BY <1>1, CreatedFacts DEF CreateDriver, Relieved
  <1>3. PICK ds2 \in Seq(Dests), c2 \in Nat :
          Scheduled(t, ds2, l, c2) /\ ((ds2 = <<>> /\ c2 = 0) \/ c2 < Len(ds2))
    <2>1. CASE c + 1 = Len(ds) /\ l
      <3>1. Scheduled(t, IF l THEN ds ELSE <<>>, l, 0)
        BY <2>1 DEF CreateDriver
      <3>2. (IF l THEN ds ELSE <<>>) = ds
        BY <2>1
      <3>3. Scheduled(t, ds, l, 0)
        BY <3>1, <3>2
      <3>4. 0 < Len(ds) /\ 0 \in Nat
        BY <1>1
      <3> QED BY <3>3, <3>4
    <2>2. CASE c + 1 = Len(ds) /\ ~l
      <3>1. Scheduled(t, <<>>, l, 0) /\ <<>> \in Seq(Dests)
        BY <1>1, <2>2 DEF CreateDriver
      <3> QED BY <3>1
    <2>3. CASE c + 1 # Len(ds)
      <3>1. Scheduled(t, ds, l, c + 1) /\ c + 1 < Len(ds) /\ c + 1 \in Nat
        BY <1>1, <2>3 DEF CreateDriver
      <3> QED BY <3>1
    <2> QED BY <2>1, <2>2, <2>3
  <1>4. /\ dest' \in [Trains -> Seq(Dests)] /\ curr_dest' \in [Trains -> Nat]
        /\ loop' \in [Trains -> BOOLEAN]
        /\ \A u \in Trains :
             (dest'[u] = <<>> /\ curr_dest'[u] = 0) \/ curr_dest'[u] < Len(dest'[u])
        /\ \A u \in Trains : u # t => dest'[u] = dest[u]
    BY <1>3, ScheduledTyped DEF IInv
  <1>5. status' = [status EXCEPT ![t] = 1] /\ status \in [Trains -> 0 .. 2]
    BY DEF CreateDriver, IInv, TypeOK
  <1>6. status' \in [Trains -> 0 .. 2] /\ status'[t] = 1
        /\ \A u \in Trains : u # t => status'[u] = status[u]
    BY <1>5
  <1>7. TypeOK'
    BY <1>2, <1>4, <1>6 DEF TypeOK, Instructions
  <1>8. Reports(mailbox', phase', order')
    <2>1. \A k \in DOMAIN mailbox' : mailbox'[k].opcode = "TRAIN_MOVED" =>
            mailbox'[k].sender \in Slots
      <3>1. \A k \in DOMAIN mailbox' : mailbox'[k] \in Requests
        BY ElementOfSeq, LenProperties
      <3> QED BY <3>1, RequestFacts
    <2> QED BY <1>2, <2>1 DEF Reports
  <1>9. OneDriver'
    <2>1. \A u \in Trains : u # t => \A s \in Slots : order'[s].train = u => order[s].train = u
      <3> SUFFICES ASSUME NEW u \in Trains, u # t, NEW s \in Slots, order'[s].train = u
                   PROVE  order[s].train = u
        OBVIOUS
      <3>1. order'[s] = or[s] /\ or[s] \in {order[s], NoOrder}
        BY <1>2 DEF Relieved
      <3> QED BY <3>1, InstructionFacts
    <2>2. \A u \in Trains : u # t =>
            /\ \A s, r \in Drivers(u)' : s = r
            /\ status'[u] = 0 => Drivers(u)' = {}
      BY <1>6, <2>1 DEF IInv, OneDriver, Drivers
    <2>3. \A s, r \in Drivers(t)' : s = r
      BY <1>2 DEF Drivers
    <2> QED BY <1>6, <2>2, <2>3 DEF OneDriver
  <1>10. ScheduleHasStatus'
    <2> SUFFICES ASSUME NEW u \in Trains, dest'[u] # <<>> PROVE status'[u] # 0
      BY DEF ScheduleHasStatus
    <2>1. CASE u = t
      BY <1>6, <2>1
    <2>2. CASE u # t
      <3>1. dest[u] # <<>> /\ status'[u] = status[u]
        BY <1>4, <1>6, <2>2
      <3> QED BY <3>1 DEF IInv, ScheduleHasStatus
    <2> QED BY <2>1, <2>2
  <1> QED BY <1>2, <1>7, <1>8, <1>9, <1>10 DEF IInv
-----------------------------------------------------------------------------
LEMMA InitInv == Init => IInv
  <1> SUFFICES ASSUME Init PROVE IInv
    OBVIOUS
  <1>1. mailbox \in Seq(Requests) /\ DOMAIN mailbox = {} /\ <<>> \in Seq(Dests)
    BY EmptySeq DEF Init
  <1>2. TypeOK
    BY <1>1 DEF Init, TypeOK, Phases
  <1>3. Instructed(phase, order) /\ Reports(mailbox, phase, order)
    BY <1>1 DEF Init, Instructed, Reports
  <1>4. OneDriver
    BY InstructionFacts DEF Init, OneDriver, Drivers
  <1>5. ScheduleHasStatus
    BY DEF Init, ScheduleHasStatus
  <1> QED BY <1>2, <1>3, <1>4, <1>5 DEF IInv

\* The schedule and the drivers are left alone.
LEMMA ScheduleKept ==
  ASSUME IInv, UNCHANGED <<scheduleVars, order>>,
         mailbox' \in Seq(Requests), worker' \in {"running", "blocked"},
         phase' \in [Slots -> Phases], Instructed(phase', order'),
         Reports(mailbox', phase', order')
  PROVE  IInv'
  <1>1. TypeOK' /\ ScheduleHasStatus'
    BY DEF IInv, TypeOK, ScheduleHasStatus, scheduleVars
  <1>2. OneDriver'
    BY DEF IInv, OneDriver, Drivers, scheduleVars
  <1> QED BY <1>1, <1>2 DEF IInv

LEMMA MoveTrainAskedKeeps == IInv /\ MoveTrainAsked => IInv'
  <1> SUFFICES ASSUME IInv, MoveTrainAsked PROVE IInv'
    OBVIOUS
  <1>1. PICK m \in Requests : m.opcode = "MOVE_TRAIN" /\ Ask(m)
    <2>1. PICK t \in Trains, p \in Plans, l \in BOOLEAN :
            Ask([sender |-> Worker, opcode |-> "MOVE_TRAIN", train |-> t, plan |-> p, loop |-> l])
      BY DEF MoveTrainAsked
    <2> QED BY <2>1 DEF Requests
  <1>2. UNCHANGED <<scheduleVars, phase, order>> /\ worker' = "blocked"
    BY DEF MoveTrainAsked
  <1>3. /\ mailbox' \in Seq(Requests)
        /\ DOMAIN mailbox' = DOMAIN mailbox \cup {Len(mailbox) + 1}
        /\ \A k \in DOMAIN mailbox : mailbox'[k] = mailbox[k]
        /\ mailbox'[Len(mailbox) + 1] = m
    BY <1>1, AskFacts DEF IInv
  <1>4. Reports(mailbox', phase', order')
    BY <1>1, <1>2, <1>3 DEF IInv, Reports
  <1> QED BY <1>2, <1>3, <1>4, ScheduleKept DEF IInv, TypeOK

LEMMA DriverCompletedKeeps ==
  ASSUME IInv, NEW s \in Slots, DriverCompleted(s)
  PROVE  IInv'
  <1>1. order[s].train \in Trains
    <2>1. order[s] \in Instructions /\ order[s] # NoOrder
      BY DEF DriverCompleted, IInv, TypeOK, Instructed, Instructions
    <2> QED BY <2>1, InstructionFacts
  <1>2. PICK m \in Requests : m.opcode = "TRAIN_MOVED" /\ m.sender = s
                              /\ m.train = order[s].train /\ Ask(m)
    BY <1>1 DEF DriverCompleted, Requests
  <1>3. UNCHANGED <<scheduleVars, order, worker>>
    BY DEF DriverCompleted
  <1>4. phase[s] = "driving" /\ phase' = [phase EXCEPT ![s] = "asking"]
        /\ phase \in [Slots -> Phases]
    BY DEF DriverCompleted, IInv, TypeOK
  <1>5. /\ phase' \in [Slots -> Phases] /\ phase'[s] = "asking"
        /\ \A r \in Slots : r # s => phase'[r] = phase[r]
    BY <1>4 DEF Phases
  <1>6. Instructed(phase', order')
    BY <1>3, <1>4, <1>5 DEF IInv, Instructed
  <1>7. /\ mailbox' \in Seq(Requests)
        /\ DOMAIN mailbox' = DOMAIN mailbox \cup {Len(mailbox) + 1}
        /\ \A k \in DOMAIN mailbox : mailbox'[k] = mailbox[k]
        /\ mailbox'[Len(mailbox) + 1] = m
    BY <1>2, AskFacts DEF IInv
  <1>8. \A k \in DOMAIN mailbox : mailbox[k].opcode = "TRAIN_MOVED" =>
          mailbox[k].sender \in Slots /\ mailbox[k].sender # s
    <2> SUFFICES ASSUME NEW k \in DOMAIN mailbox, mailbox[k].opcode = "TRAIN_MOVED"
                 PROVE  mailbox[k].sender \in Slots /\ mailbox[k].sender # s
      OBVIOUS
    <2>1. mailbox[k] \in Requests
      BY ElementOfSeq, LenProperties DEF IInv, TypeOK
    <2>2. phase[mailbox[k].sender] = "asking"
      BY DEF IInv, Reports
    <2> QED BY <1>4, <2>1, <2>2, RequestFacts
  <1>9. Reports(mailbox', phase', order')
    BY <1>2, <1>3, <1>5, <1>7, <1>8 DEF IInv, Reports
  <1> QED BY <1>3, <1>5, <1>6, <1>7, <1>9, ScheduleKept DEF IInv, TypeOK

LEMMA DriverExitsKeeps ==
  ASSUME IInv, NEW s \in Slots, DriverExits(s)
  PROVE  IInv'
  <1>1. UNCHANGED <<scheduleVars, order, mailbox, worker>>
        /\ phase[s] = "ending" /\ phase' = [phase EXCEPT ![s] = "free"]
        /\ phase \in [Slots -> Phases]
    BY DEF DriverExits, IInv, TypeOK
  <1>2. /\ phase' \in [Slots -> Phases] /\ phase'[s] = "free"
        /\ \A r \in Slots : r # s => phase'[r] = phase[r]
    BY <1>1 DEF Phases
  <1>3. Instructed(phase', order')
    BY <1>1, <1>2 DEF IInv, Instructed
  <1>4. \A k \in DOMAIN mailbox : mailbox[k] \in Requests
    BY ElementOfSeq, LenProperties DEF IInv, TypeOK
  <1>5. Reports(mailbox', phase', order')
    BY <1>1, <1>2, <1>4, RequestFacts DEF IInv, Reports
  <1> QED BY <1>1, <1>2, <1>3, <1>5, ScheduleKept DEF IInv, TypeOK
-----------------------------------------------------------------------------
\* The reports that are left when the server has taken the head of the mailbox.
LEMMA ReportsLeft ==
  ASSUME IInv, NEW opcode, Received(opcode)
  PROVE  /\ mailbox' \in Seq(Requests)
         /\ Reports(mailbox', phase, order)
         /\ opcode = "TRAIN_MOVED" => \A k \in DOMAIN mailbox' :
              mailbox'[k].opcode = "TRAIN_MOVED" => mailbox'[k].sender # Head(mailbox).sender
  <1>1. /\ Head(mailbox).opcode = opcode /\ mailbox' \in Seq(Requests)
        /\ Head(mailbox) = mailbox[1] /\ 1 \in DOMAIN mailbox
        /\ \A k \in DOMAIN mailbox' :
             k + 1 \in DOMAIN mailbox /\ mailbox'[k] = mailbox[k + 1] /\ k \in Nat /\ k + 1 # 1
    BY ReceivedFacts DEF IInv
  <1>2. Reports(mailbox, phase, order)
    BY DEF IInv
  <1>3. \A k \in DOMAIN mailbox' : mailbox'[k].opcode = "TRAIN_MOVED" =>
          /\ phase[mailbox'[k].sender] = "asking"
          /\ order[mailbox'[k].sender].train = mailbox'[k].train
    BY <1>1, <1>2 DEF Reports
  <1>4. \A j, k \in DOMAIN mailbox' :
          /\ mailbox'[j].opcode = "TRAIN_MOVED" /\ mailbox'[k].opcode = "TRAIN_MOVED"
          /\ mailbox'[j].sender = mailbox'[k].sender
          => j = k
    <2> SUFFICES ASSUME NEW j \in DOMAIN mailbox', NEW k \in DOMAIN mailbox',
                        mailbox'[j].opcode = "TRAIN_MOVED", mailbox'[k].opcode = "TRAIN_MOVED",
                        mailbox'[j].sender = mailbox'[k].sender
                 PROVE  j = k
      OBVIOUS
    <2>1. j + 1 = k + 1
      BY <1>1, <1>2 DEF Reports
    <2> QED BY <1>1, <2>1
  <1>5. opcode = "TRAIN_MOVED" => \A k \in DOMAIN mailbox' :
          mailbox'[k].opcode = "TRAIN_MOVED" => mailbox'[k].sender # Head(mailbox).sender
    BY <1>1, <1>2 DEF Reports
  <1> QED BY <1>1, <1>3, <1>4, <1>5 DEF Reports

\* An order: a driver is created only for a train of status 0, which has none.
LEMMA MoveTrainKeeps == IInv /\ MoveTrain => IInv'
  <1> SUFFICES ASSUME IInv, MoveTrain PROVE IInv'
    OBVIOUS
  <1> PICK m : m = Head(mailbox)
    OBVIOUS
  <1>1. /\ m.train \in Trains /\ m.plan \in Seq(Dests) /\ m.loop \in BOOLEAN
        /\ Received("MOVE_TRAIN")
    <2>1. Received("MOVE_TRAIN")
      BY DEF MoveTrain
    <2>2. m \in Requests /\ m.opcode = "MOVE_TRAIN"
      BY <2>1, ReceivedFacts DEF IInv
    <2> QED BY <2>1, <2>2, RequestFacts
  <1>2. mailbox' \in Seq(Requests) /\ Reports(mailbox', phase, order)
    BY <1>1, ReportsLeft
  <1>3. worker' \in {"running", "blocked"}
    BY DEF MoveTrain
  <1>4. Len(m.plan) \in Nat /\ (m.plan # <<>> => 0 < Len(m.plan))
    BY <1>1, EmptySeq, LenProperties
  <1>5. CASE status[m.train] = 0 /\ CreateDriver(m.train, m.plan, m.loop, 0, phase, order)
    <2>1. Relieved(order, m.train)
      BY <1>1, <1>5 DEF IInv, OneDriver, Drivers, Relieved
    <2>2. /\ phase \in [Slots -> Phases] /\ order \in [Slots -> Instructions]
          /\ Instructed(phase, order)
      BY DEF IInv, TypeOK, Instructions
    <2>3. 0 \in Nat
      OBVIOUS
    <2> QED BY <1>1, <1>2, <1>3, <1>4, <1>5, <2>1, <2>2, <2>3, CreateKeeps
  <1>6. CASE /\ Scheduled(m.train, m.plan, m.loop, 0) /\ UNCHANGED <<phase, order>>
             /\ \/ status[m.train] = 0 /\ m.plan = <<>> /\ UNCHANGED status
                \/ status[m.train] # 0 /\ status' = [status EXCEPT ![m.train] = 2]
    <2>1. /\ dest' \in [Trains -> Seq(Dests)] /\ curr_dest' \in [Trains -> Nat]
          /\ loop' \in [Trains -> BOOLEAN]
          /\ \A u \in Trains :
               (dest'[u] = <<>> /\ curr_dest'[u] = 0) \/ curr_dest'[u] < Len(dest'[u])
          /\ \A u \in Trains : u # m.train => dest'[u] = dest[u]
          /\ dest'[m.train] = m.plan
      BY <1>1, <1>4, <1>6, ScheduledTyped DEF IInv
    <2>2. status \in [Trains -> 0 .. 2]
      BY DEF IInv, TypeOK
    <2>3. /\ status' \in [Trains -> 0 .. 2]
          /\ \A u \in Trains : status'[u] = 0 <=> status[u] = 0
          /\ m.plan # <<>> => status'[m.train] # 0
      BY <1>1, <1>6, <2>2
    <2>4. TypeOK'
      BY <1>2, <1>3, <1>6, <2>1, <2>3 DEF IInv, TypeOK
    <2>5. Instructed(phase', order') /\ Reports(mailbox', phase', order')
      BY <1>2, <1>6 DEF IInv
    <2>6. OneDriver'
      BY <1>6, <2>3 DEF IInv, OneDriver, Drivers
    <2>7. ScheduleHasStatus'
      BY <1>1, <2>1, <2>3 DEF IInv, ScheduleHasStatus
    <2> QED BY <2>4, <2>5, <2>6, <2>7 DEF IInv
  <1> QED BY <1>5, <1>6 DEF MoveTrain

\* A report: its sender was the only driver of the train and has no instruction
\* any more, so that one may be created, or the status become 0.
LEMMA TrainMovedKeeps == IInv /\ TrainMoved => IInv'
  <1> SUFFICES ASSUME IInv, TrainMoved PROVE IInv'
    OBVIOUS
  <1>a. PICK t, s : t = Head(mailbox).train /\ s = Head(mailbox).sender
    OBVIOUS
  <1>b. PICK ph, or : ph = [phase EXCEPT ![s] = "ending"] /\ or = [order EXCEPT ![s] = NoOrder]
    OBVIOUS
  <1>1. t \in Trains /\ s \in Slots /\ Received("TRAIN_MOVED")
        /\ phase[s] = "asking" /\ order[s].train = t
    <2>1. Received("TRAIN_MOVED")
      BY DEF TrainMoved
    <2>2. Head(mailbox) \in Requests /\ Head(mailbox).opcode = "TRAIN_MOVED"
          /\ Head(mailbox) = mailbox[1] /\ 1 \in DOMAIN mailbox
      BY <2>1, ReceivedFacts DEF IInv
    <2> QED BY <1>a, <2>1, <2>2, RequestFacts DEF IInv, Reports
  <1>2. /\ mailbox' \in Seq(Requests) /\ Reports(mailbox', phase, order)
        /\ \A k \in DOMAIN mailbox' :
             mailbox'[k].opcode = "TRAIN_MOVED" => mailbox'[k].sender # s
    BY <1>a, <1>1, ReportsLeft
  <1>3. phase \in [Slots -> Phases] /\ order \in [Slots -> Instructions]
    BY DEF IInv, TypeOK, Instructions
  <1>4. /\ ph \in [Slots -> Phases] /\ or \in [Slots -> Instructions]
        /\ ph[s] = "ending" /\ or[s] = NoOrder
        /\ \A r \in Slots : r # s => ph[r] = phase[r] /\ or[r] = order[r]
    BY <1>b, <1>1, <1>3 DEF Phases, Instructions
  <1>5. Instructed(ph, or)
    BY <1>b, <1>1, <1>4 DEF IInv, Instructed
  <1>6. Reports(mailbox', ph, or)
    <2>1. \A k \in DOMAIN mailbox' : mailbox'[k] \in Requests
      BY <1>2, ElementOfSeq, LenProperties
    <2> QED BY <1>2, <1>4, <2>1, RequestFacts DEF Reports
  <1>7. Relieved(or, t)
    <2> SUFFICES ASSUME NEW r \in Slots PROVE or[r].train # t /\ or[r] \in {order[r], NoOrder}
      BY DEF Relieved
    <2>1. CASE r = s
      BY <1>1, <1>4, <2>1, InstructionFacts
    <2>2. CASE r # s
      BY <1>1, <1>4, <2>2 DEF IInv, OneDriver, Drivers
    <2> QED BY <2>1, <2>2
  <1>8. worker' \in {"running", "blocked"}
    BY DEF TrainMoved, IInv, TypeOK
  <1>9. CASE CreateDriver(t, dest[t], loop[t], curr_dest[t], ph, or)
    <2>1. PICK ds \in Seq(Dests), l \in BOOLEAN, c \in Nat :
            ds = dest[t] /\ l = loop[t] /\ c = curr_dest[t]
      BY <1>1 DEF IInv, TypeOK
    <2>2. ds # <<>> => c < Len(ds)
      BY <1>1, <2>1 DEF IInv, TypeOK
    <2>3. CreateDriver(t, ds, l, c, ph, or)
      BY <1>9, <2>1
    <2>4. /\ mailbox' \in Seq(Requests) /\ t \in Trains
          /\ ph \in [Slots -> Phases] /\ or \in [Slots -> Instructions]
      BY <1>1, <1>2, <1>4
    <2> QED BY <1>5, <1>6, <1>7, <1>8, <2>2, <2>3, <2>4, CreateKeeps
  <1>10. CASE /\ dest[t] = <<>> /\ status' = [status EXCEPT ![t] = 0]
              /\ phase' = ph /\ order' = or /\ UNCHANGED <<dest, curr_dest, loop>>
    <2>1. /\ status' \in [Trains -> 0 .. 2] /\ status'[t] = 0
          /\ \A u \in Trains : u # t => status'[u] = status[u]
      BY <1>1, <1>10 DEF IInv, TypeOK
    <2>2. TypeOK'
      BY <1>2, <1>4, <1>8, <1>10, <2>1 DEF IInv, TypeOK, Instructions
    <2>3. Instructed(phase', order') /\ Reports(mailbox', phase', order')
      BY <1>5, <1>6, <1>10
    <2>4. OneDriver'
      <3>1. \A u \in Trains : \A r \in Slots :
              order'[r].train = u => u # t /\ order[r].train = u
        BY <1>7, <1>10, InstructionFacts DEF Relieved
      <3> QED BY <2>1, <3>1 DEF IInv, OneDriver, Drivers
    <2>5. ScheduleHasStatus'
      BY <1>10, <2>1 DEF IInv, ScheduleHasStatus
    <2> QED BY <2>2, <2>3, <2>4, <2>5 DEF IInv
  <1> QED BY <1>a, <1>b, <1>9, <1>10 DEF TrainMoved
-----------------------------------------------------------------------------
LEMMA NextKeeps == IInv /\ [Next]_vars => IInv'
  <1> SUFFICES ASSUME IInv, [Next]_vars PROVE IInv'
    OBVIOUS
  <1>1. CASE MoveTrainAsked
    BY <1>1, MoveTrainAskedKeeps
  <1>2. ASSUME NEW s \in Slots, DriverCompleted(s) PROVE IInv'
    BY <1>2, DriverCompletedKeeps
  <1>3. ASSUME NEW s \in Slots, DriverExits(s) PROVE IInv'
    BY <1>3, DriverExitsKeeps
  <1>4. CASE MoveTrain
    BY <1>4, MoveTrainKeeps
  <1>5. CASE TrainMoved
    BY <1>5, TrainMovedKeeps
  <1>6. CASE UNCHANGED vars
    <2>1. UNCHANGED <<scheduleVars, order, mailbox, worker, phase>>
      BY <1>6 DEF vars, scheduleVars
    <2> QED BY <2>1, ScheduleKept DEF IInv, TypeOK
  <1> QED BY <1>1, <1>2, <1>3, <1>4, <1>5, <1>6 DEF Next, Server

LEMMA Invariance == Spec => []IInv
  BY InitInv, NextKeeps, PTL DEF Spec

\* Every variable has its type, and curr_dest[t] is an index of dest[t] whenever
\* CreateDriver reads dest[curr_dest], whatever orders and reports came before.
THEOREM RouteSchedulerTyped == Spec => []TypeOK
  BY Invariance, PTL DEF IInv

\* A train has one driver at most, and none at status 0: the MOVE_TRAIN and
\* TRAIN_MOVED cases create one only when the last has sent its only report.
THEOREM OneDriverHolds == Spec => []OneDriver
  BY Invariance, PTL DEF IInv

\* A train with destinations left has a status that is not 0: an order for it is
\* queued behind its driver and no report drops the rest of its list.
THEOREM ScheduleKeepsStatus == Spec => []ScheduleHasStatus
  BY Invariance, PTL DEF IInv
-----------------------------------------------------------------------------
(***************************************************************************)
(* The refinement of Itinerary.  Rest and Trip are taken of any schedule,  *)
(* instructions and status, so that they can be compared between states.   *)
(***************************************************************************)
\* Rest, of any schedule.
Ahead(ds, l, c) ==
  SubSeq(ds, c + 1, Len(ds)) \o (IF l THEN SubSeq(ds, 1, c) ELSE <<>>)

\* What is left of p when its first destination is driven to.
Onward(p, l) == IF l THEN Append(Tail(p), Head(p)) ELSE Tail(p)

\* A schedule that has been started anew is the list itself.
LEMMA AheadWhole ==
  ASSUME NEW ds \in Seq(Dests), NEW l \in BOOLEAN
  PROVE  Ahead(ds, l, 0) = ds
  <1>1. SubSeq(ds, 1, Len(ds)) = ds /\ SubSeq(ds, 1, 0) = <<>>
    BY SubSeqFull, SubSeqEmpty
  <1>2. Ahead(ds, l, 0) = SubSeq(ds, 1, Len(ds)) \o <<>>
    BY <1>1 DEF Ahead
  <1> QED BY <1>1, <1>2, ConcatEmptySeq

\* What is ahead begins with dest[curr_dest]; the rest of it is what is ahead of
\* the next one, with the first at the end if the list is driven in a circle.
LEMMA AheadStep ==
  ASSUME NEW ds \in Seq(Dests), NEW l \in BOOLEAN, NEW c \in Nat, c < Len(ds)
  PROVE  /\ Ahead(ds, l, c) # <<>> /\ Head(Ahead(ds, l, c)) = ds[c + 1]
         /\ Ahead(ds, l, c + 1) = Onward(Ahead(ds, l, c), l)
  <1> DEFINE x == ds[c + 1]
             u == SubSeq(ds, c + 2, Len(ds))
             v == IF l THEN SubSeq(ds, 1, c) ELSE <<>>
  <1>1. Len(ds) \in Nat /\ c + 1 \in 1 .. Len(ds) /\ Len(ds) \in c + 1 .. Len(ds)
    BY LenProperties
  <1>2. x \in Dests /\ <<x>> \in Seq(Dests)
    BY <1>1, ElementOfSeq
  <1>3. \A m, n \in Int : 1 <= m /\ n <= Len(ds) => SubSeq(ds, m, n) \in Seq(Dests)
    <2> SUFFICES ASSUME NEW m \in Int, NEW n \in Int, 1 <= m, n <= Len(ds)
                 PROVE  SubSeq(ds, m, n) \in Seq(Dests)
      OBVIOUS
    <2>1. \A i \in m .. n : ds[i] \in Dests
      BY <1>1, ElementOfSeq
    <2> QED BY <2>1, SubSeqProperties
  <1>4. u \in Seq(Dests) /\ v \in Seq(Dests)
    <2>1. c + 2 \in Int /\ Len(ds) \in Int /\ 1 <= c + 2 /\ Len(ds) <= Len(ds)
      BY <1>1
    <2>2. 1 \in Int /\ c \in Int /\ 1 <= 1 /\ c <= Len(ds)
      BY <1>1
    <2> QED BY <1>3, <2>1, <2>2, EmptySeq
  <1>5. SubSeq(ds, c + 1, Len(ds)) = <<x>> \o u
    <2>1. SubSeq(ds, c + 1, Len(ds)) = <<ds[c + 1]>> \o SubSeq(ds, (c + 1) + 1, Len(ds))
      BY <1>1, SubSeqRecursiveFirst
    <2>2. (c + 1) + 1 = c + 2
      OBVIOUS
    <2> QED BY <2>1, <2>2
  <1>6. Ahead(ds, l, c) = <<x>> \o (u \o v)
    <2>1. Ahead(ds, l, c) = (<<x>> \o u) \o v
      BY <1>5 DEF Ahead
    <2>2. \A a, b, d \in Seq(Dests) : (a \o b) \o d = a \o (b \o d)
      BY ConcatAssociative
    <2> HIDE DEF x, u, v
    <2> QED BY <1>2, <1>4, <2>1, <2>2
  <1>7. u \o v \in Seq(Dests)
    BY <1>4, ConcatProperties
  <1>8. \A w \in Seq(Dests) : <<x>> \o w # <<>> /\ Head(<<x>> \o w) = x /\ Tail(<<x>> \o w) = w
    <2> SUFFICES ASSUME NEW w \in Seq(Dests)
                 PROVE  <<x>> \o w # <<>> /\ Head(<<x>> \o w) = x /\ Tail(<<x>> \o w) = w
      OBVIOUS
    <2> HIDE DEF x
    <2>1. Len(<<x>>) = 1 /\ <<x>>[1] = x /\ Len(w) \in Nat
      BY LenProperties
    <2>2. /\ <<x>> \o w \in Seq(Dests) /\ Len(<<x>> \o w) = 1 + Len(w)
          /\ \A i \in 1 .. 1 + Len(w) :
               (<<x>> \o w)[i] = IF i <= 1 THEN <<x>>[i] ELSE w[i - 1]
      BY <1>2, <2>1, ConcatProperties
    <2>3. <<x>> \o w # <<>>
      BY <2>1, <2>2, EmptySeq
    <2>4. PICK q \in Seq(Dests) : q = <<x>> \o w
      BY <2>2
    <2>5. Head(q) = q[1] /\ Tail(q) \in Seq(Dests) /\ Len(Tail(q)) = Len(w)
          /\ \A i \in 1 .. Len(w) : Tail(q)[i] = q[i + 1]
      BY <2>1, <2>2, <2>3, <2>4, HeadTailProperties
    <2>6. \A i \in 1 .. Len(w) : q[i + 1] = w[i]
      BY <2>1, <2>2, <2>4
    <2>7. Tail(q) = w
      BY <2>5, <2>6, SeqEqual
    <2>8. q[1] = x
      BY <2>1, <2>2, <2>4
    <2> QED BY <2>3, <2>4, <2>5, <2>7, <2>8
  <1>9. Head(Ahead(ds, l, c)) = x /\ Tail(Ahead(ds, l, c)) = u \o v /\ Ahead(ds, l, c) # <<>>
    BY <1>6, <1>7, <1>8
  <1>10. Ahead(ds, l, c + 1) = Onward(Ahead(ds, l, c), l)
    <2>0. (c + 1) + 1 = c + 2
      OBVIOUS
    <2>1. CASE l
      <3>1. Ahead(ds, l, c + 1) = u \o SubSeq(ds, 1, c + 1)
        BY <2>0, <2>1 DEF Ahead
      <3>2. SubSeq(ds, 1, c + 1) = v \o <<x>>
        <4>1. 1 \in 1 .. Len(ds) /\ c + 1 \in 1 .. Len(ds) /\ (c + 1) - 1 = c
          BY <1>1
        <4>2. SubSeq(ds, 1, c + 1) = SubSeq(ds, 1, (c + 1) - 1) \o <<ds[c + 1]>>
          BY <4>1, SubSeqRecursiveSecond
        <4> QED BY <2>1, <4>1, <4>2
      <3>3. u \o (v \o <<x>>) = (u \o v) \o <<x>>
        <4>1. \A a, b, d \in Seq(Dests) : (a \o b) \o d = a \o (b \o d)
          BY ConcatAssociative
        <4> HIDE DEF x, u, v
        <4> QED BY <1>2, <1>4, <4>1
      <3>4. (u \o v) \o <<x>> = Append(u \o v, x)
        BY <1>2, <1>7, AppendIsConcat
      <3> QED BY <1>9, <2>1, <3>1, <3>2, <3>3, <3>4 DEF Onward
    <2>2. CASE ~l
      <3>1. Ahead(ds, l, c + 1) = u \o v
        BY <2>0, <2>2 DEF Ahead
      <3> QED BY <1>9, <2>2, <3>1 DEF Onward
    <2> QED BY <2>1, <2>2
  <1> QED BY <1>9, <1>10
-----------------------------------------------------------------------------
\* Trip, of any instructions and status.
TripOf(or, st, t) ==
  IF {s \in Slots : or[s].train = t} # {}
    THEN or[CHOOSE s \in Slots : s \in {r \in Slots : or[r].train = t}].node
    ELSE IF st[t] = 0 THEN "home" ELSE "stranded"

\* Nobody but one slot has an instruction for t.
Single(or, t) == \A s, r \in Slots : or[s].train = t /\ or[r].train = t => s = r

LEMMA Mapping ==
  ASSUME NEW t \in Trains
  PROVE  Rest(t) = Ahead(dest[t], loop[t], curr_dest[t]) /\ Trip(t) = TripOf(order, status, t)
  BY DEF Rest, Trip, Ahead, TripOf, Drivers

LEMMA MappingNext ==
  ASSUME NEW t \in Trains
  PROVE  Rest(t)' = Ahead(dest'[t], loop'[t], curr_dest'[t]) /\ Trip(t)' = TripOf(order', status', t)
  BY DEF Rest, Trip, Ahead, TripOf, Drivers

LEMMA TripIs ==
  ASSUME NEW or, NEW st, NEW t, Single(or, t)
  PROVE  /\ \A s \in Slots : or[s].train = t => TripOf(or, st, t) = or[s].node
         /\ (\A s \in Slots : or[s].train # t) =>
              TripOf(or, st, t) = IF st[t] = 0 THEN "home" ELSE "stranded"
  <1>1. ASSUME NEW s \in Slots, or[s].train = t PROVE TripOf(or, st, t) = or[s].node
    <2>1. {r \in Slots : or[r].train = t} = {s}
      BY <1>1 DEF Single
    <2>2. (CHOOSE r \in Slots : r \in {s}) = s
      OBVIOUS
    <2> QED BY <2>1, <2>2 DEF TripOf
  <1>2. ASSUME \A s \in Slots : or[s].train # t
        PROVE  TripOf(or, st, t) = IF st[t] = 0 THEN "home" ELSE "stranded"
    BY <1>2 DEF TripOf
  <1> QED BY <1>1, <1>2

\* The trip of a train does not change while its instruction does not.
LEMMA TripKept ==
  ASSUME NEW or, NEW st, NEW or2, NEW st2, NEW t, Single(or, t),
         \A s \in Slots : or[s].train = t \/ or2[s].train = t => or[s] = or2[s],
         st[t] = 0 <=> st2[t] = 0
  PROVE  TripOf(or2, st2, t) = TripOf(or, st, t)
  <1>1. Single(or2, t)
    BY DEF Single
  <1>2. CASE \E s \in Slots : or[s].train = t
    <2>1. PICK s \in Slots : or[s].train = t /\ or2[s] = or[s]
      BY <1>2
    <2>2. TripOf(or, st, t) = or[s].node
      BY <2>1, TripIs
    <2>3. TripOf(or2, st2, t) = or2[s].node
      BY <1>1, <2>1, TripIs
    <2> QED BY <2>1, <2>2, <2>3
  <1>3. CASE \A s \in Slots : or[s].train # t
    <2>1. TripOf(or, st, t) = IF st[t] = 0 THEN "home" ELSE "stranded"
      BY <1>3, TripIs
    <2>2. TripOf(or2, st2, t) = IF st2[t] = 0 THEN "home" ELSE "stranded"
      BY <1>1, <1>3, TripIs
    <2> QED BY <2>1, <2>2
  <1> QED BY <1>2, <1>3

\* The schedule of t is set: only its list changes.
LEMMA PlanFacts ==
  ASSUME TypeOK, NEW t \in Trains, NEW ds, NEW l, NEW c, Scheduled(t, ds, l, c)
  PROVE  Trips!Plan(t, Ahead(ds, l, c), l)
  <1>1. \A u \in Trains : Rest(u)' = IF u = t THEN Ahead(ds, l, c) ELSE Rest(u)
    <2> SUFFICES ASSUME NEW u \in Trains
                 PROVE  Rest(u)' = IF u = t THEN Ahead(ds, l, c) ELSE Rest(u)
      OBVIOUS
    <2>1. CASE u = t
      <3>1. dest'[u] = ds /\ loop'[u] = l /\ curr_dest'[u] = c
        BY <2>1 DEF Scheduled, TypeOK
      <3> QED BY <2>1, <3>1, MappingNext
    <2>2. CASE u # t
      <3>1. dest'[u] = dest[u] /\ loop'[u] = loop[u] /\ curr_dest'[u] = curr_dest[u]
        BY <2>2 DEF Scheduled, TypeOK
      <3> QED BY <2>2, <3>1, Mapping, MappingNext
    <2> QED BY <2>1, <2>2
  <1>2. [u \in Trains |-> Rest(u)]' = [[u \in Trains |-> Rest(u)] EXCEPT ![t] = Ahead(ds, l, c)]
    BY <1>1
  <1> QED BY <1>2 DEF Trips!Plan, Scheduled

\* t gets a driver, or is stranded.  Every other train keeps its own.
LEMMA CreateDeparts ==
  ASSUME IInv, NEW t \in Trains, NEW ds \in Seq(Dests), NEW l \in BOOLEAN, NEW c \in Nat,
         ds # <<>> => c < Len(ds),
         NEW ph \in [Slots -> Phases], NEW or \in [Slots -> Instructions],
         Instructed(ph, or), Relieved(or, t), CreateDriver(t, ds, l, c, ph, or),
         \A s \in Slots : order[s].train \in Trains \ {t} => or[s] = order[s]
  PROVE  Trips!Depart(t, Ahead(ds, l, c), l)
  <1>1. ds # <<>> /\ c < Len(ds) /\ ds[c + 1] \in Dests
    <2>1. ds # <<>> /\ c < Len(ds)
      BY DEF CreateDriver
    <2> QED BY <2>1, ElementOfSeq, LenProperties
  <1>2. /\ order' \in [Slots -> Instructions]
        /\ \A s \in Slots : order'[s].train # t => order'[s] = or[s]
        /\ \A s, r \in Slots : order'[s].train = t /\ order'[r].train = t => s = r
        /\ \A s \in Slots : or[s] # NoOrder => order'[s] = or[s]
        /\ \A s \in Slots : order'[s].train = t => order'[s].node = ds[c + 1]
    BY <1>1, CreatedFacts DEF CreateDriver, Relieved
  <1>3. /\ Ahead(ds, l, c) # <<>> /\ Head(Ahead(ds, l, c)) = ds[c + 1]
        /\ Ahead(ds, l, c + 1) = Onward(Ahead(ds, l, c), l)
    BY <1>1, AheadStep
  <1>4. Trips!Plan(t, Onward(Ahead(ds, l, c), l), l)
    <2>1. CASE c + 1 = Len(ds)
      <3>1. PICK ds2 \in Seq(Dests) : ds2 = IF l THEN ds ELSE <<>>
        BY EmptySeq
      <3>2. Trips!Plan(t, Ahead(ds2, l, 0), l)
        BY <2>1, <3>1, PlanFacts DEF CreateDriver, IInv
      <3>3. Ahead(ds2, l, 0) = ds2
        BY AheadWhole
      <3>4. Ahead(ds, l, c + 1) = ds2
        <4>1. SubSeq(ds, (c + 1) + 1, Len(ds)) = <<>> /\ SubSeq(ds, 1, c + 1) = ds
          BY <2>1, SubSeqEmpty, SubSeqFull
        <4> QED BY <3>1, <4>1, ConcatEmptySeq, EmptySeq DEF Ahead
      <3> QED BY <1>3, <3>2, <3>3, <3>4
    <2>2. CASE c + 1 # Len(ds)
      <3>1. Scheduled(t, ds, l, c + 1)
        BY <2>2 DEF CreateDriver
      <3> QED BY <1>3, <3>1, PlanFacts DEF IInv
    <2> QED BY <2>1, <2>2
  <1>5. status' = [status EXCEPT ![t] = 1] /\ status \in [Trains -> 0 .. 2]
    BY DEF CreateDriver, IInv, TypeOK
  <1>6. Single(order', t)
    BY <1>2 DEF Single
  <1>7. Trip(t)' \in {ds[c + 1], "stranded"}
    <2>1. CASE \E s \in Slots : order'[s].train = t
      <3>1. TripOf(order', status', t) = ds[c + 1]
        BY <1>2, <1>6, <2>1, TripIs
      <3>2. Trip(t)' = TripOf(order', status', t)
        BY MappingNext
      <3> QED BY <3>1, <3>2
    <2>2. CASE \A s \in Slots : order'[s].train # t
      <3>1. TripOf(order', status', t) = IF status'[t] = 0 THEN "home" ELSE "stranded"
        BY <1>6, <2>2, TripIs
      <3>2. status'[t] = 1
        BY <1>5
      <3> QED BY <3>1, <3>2, MappingNext
    <2> QED BY <2>1, <2>2
  <1>8. ASSUME NEW u \in Trains, u # t PROVE Trip(u)' = Trip(u)
    <2>1. Single(order, u)
      BY DEF IInv, OneDriver, Drivers, Single
    <2>2. \A s \in Slots : order[s].train = u => order'[s] = order[s]
      <3> SUFFICES ASSUME NEW s \in Slots, order[s].train = u PROVE order'[s] = order[s]
        OBVIOUS
      <3>1. or[s] = order[s] /\ or[s] # NoOrder
        BY <1>8, InstructionFacts
      <3> QED BY <1>2, <3>1
    <2>3. \A s \in Slots : order'[s].train = u => order'[s] = order[s]
      <3> SUFFICES ASSUME NEW s \in Slots, order'[s].train = u PROVE order'[s] = order[s]
        OBVIOUS
      <3>1. order'[s] = or[s] /\ or[s] \in {order[s], NoOrder}
        BY <1>2, <1>8 DEF Relieved
      <3> QED BY <3>1, InstructionFacts
    <2>4. status'[u] = status[u]
      BY <1>5, <1>8
    <2>5. TripOf(order', status', u) = TripOf(order, status, u)
      BY <2>1, <2>2, <2>3, <2>4, TripKept
    <2> QED BY <2>5, Mapping, MappingNext
  <1>9. [u \in Trains |-> Trip(u)]' = [[u \in Trains |-> Trip(u)] EXCEPT ![t] = Trip(t)']
    BY <1>8
  <1> QED BY <1>3, <1>4, <1>7, <1>9 DEF Trips!Depart, Trips!Plan, Trips!Stranded, Onward

\* Nothing is scheduled and no instruction is given or taken back.
LEMMA NothingMoves ==
  ASSUME UNCHANGED <<scheduleVars, order>>
  PROVE  UNCHANGED Trips!vars
  <1>1. \A u \in Trains : Rest(u)' = Rest(u) /\ Trip(u)' = Trip(u)
    BY Mapping, MappingNext DEF scheduleVars
  <1> QED BY <1>1 DEF Trips!vars, scheduleVars

LEMMA OrderMaps == IInv /\ MoveTrain => Trips!Next
  <1> SUFFICES ASSUME IInv, MoveTrain PROVE Trips!Next
    OBVIOUS
  <1>a. PICK m : m = Head(mailbox)
    OBVIOUS
  <1>1. /\ m.train \in Trains /\ m.plan \in Plans /\ m.plan \in Seq(Dests) /\ m.loop \in BOOLEAN
    <2>1. Received("MOVE_TRAIN")
      BY DEF MoveTrain
    <2>2. m \in Requests /\ m.opcode = "MOVE_TRAIN"
      BY <1>a, <2>1, ReceivedFacts DEF IInv
    <2> QED BY <2>1, <2>2, RequestFacts DEF Requests
  <1>2. Ahead(m.plan, m.loop, 0) = m.plan
    BY <1>1, AheadWhole
  <1>3. Single(order, m.train)
    BY <1>1 DEF IInv, OneDriver, Drivers, Single
  <1>4. Trip(m.train) = "home" <=> status[m.train] = 0
    <2>1. CASE \E s \in Slots : order[s].train = m.train
      <3>1. PICK s \in Slots : order[s].train = m.train
        BY <2>1
      <3>2. Trip(m.train) = order[s].node
        BY <1>1, <1>3, <3>1, TripIs, Mapping
      <3>3. order[s].node \in Dests
        BY <1>1, <3>1, InstructionFacts DEF IInv, TypeOK, Instructions
      <3>4. status[m.train] # 0
        BY <1>1, <3>1 DEF IInv, OneDriver, Drivers
      <3> QED BY <3>2, <3>3, <3>4, RouteSchedulerNames
    <2>2. CASE \A s \in Slots : order[s].train # m.train
      <3>1. Trip(m.train) = IF status[m.train] = 0 THEN "home" ELSE "stranded"
        BY <1>1, <1>3, <2>2, TripIs, Mapping
      <3> QED BY <3>1
    <2> QED BY <2>1, <2>2
  <1>5. CASE status[m.train] = 0 /\ CreateDriver(m.train, m.plan, m.loop, 0, phase, order)
    <2>1. Relieved(order, m.train)
      BY <1>1, <1>5 DEF IInv, OneDriver, Drivers, Relieved
    <2>2. /\ phase \in [Slots -> Phases] /\ order \in [Slots -> Instructions]
          /\ Instructed(phase, order)
      BY DEF IInv, TypeOK, Instructions
    <2>3. 0 \in Nat /\ (m.plan # <<>> => 0 < Len(m.plan))
      BY <1>1, EmptySeq
    <2>4. Trips!Depart(m.train, Ahead(m.plan, m.loop, 0), m.loop)
      BY <1>1, <1>5, <2>1, <2>2, <2>3, CreateDeparts
    <2>5. Trips!Order(m.train, m.plan, m.loop)
      BY <1>1, <1>2, <1>4, <1>5, <2>4 DEF Trips!Order, Trips!Home
    <2> QED BY <1>1, <2>5 DEF Trips!Next
  <1>6. CASE /\ Scheduled(m.train, m.plan, m.loop, 0) /\ UNCHANGED order
             /\ \/ m.plan = <<>> /\ UNCHANGED status
                \/ status[m.train] # 0 /\ status' = [status EXCEPT ![m.train] = 2]
    <2>1. Trips!Plan(m.train, m.plan, m.loop)
      <3>1. Trips!Plan(m.train, Ahead(m.plan, m.loop, 0), m.loop)
        BY <1>1, <1>6, PlanFacts DEF IInv
      <3> QED BY <1>2, <3>1
    <2>2. \A u \in Trains : Trip(u)' = Trip(u)
      <3> SUFFICES ASSUME NEW u \in Trains PROVE Trip(u)' = Trip(u)
        OBVIOUS
      <3>1. Single(order, u) /\ status \in [Trains -> 0 .. 2]
        BY DEF IInv, OneDriver, Drivers, Single, TypeOK
      <3>2. status[u] = 0 <=> status'[u] = 0
        BY <1>1, <1>6, <3>1
      <3>3. TripOf(order, status', u) = TripOf(order, status, u)
        <4>1. CASE \E s \in Slots : order[s].train = u
          BY <3>1, <4>1, TripIs
        <4>2. CASE \A s \in Slots : order[s].train # u
          <5>1. TripOf(order, status, u) = IF status[u] = 0 THEN "home" ELSE "stranded"
            BY <3>1, <4>2, TripIs
          <5>2. TripOf(order, status', u) = IF status'[u] = 0 THEN "home" ELSE "stranded"
            BY <3>1, <4>2, TripIs
          <5> QED BY <3>2, <5>1, <5>2
        <4> QED BY <4>1, <4>2
      <3> QED BY <1>6, <3>3, Mapping, MappingNext
    <2>3. UNCHANGED [u \in Trains |-> Trip(u)]
      BY <2>2
    <2>4. [u \in Trains |-> Trip(u)][m.train] # "home" \/ m.plan = <<>>
      BY <1>1, <1>4, <1>6
    <2>5. Trips!Order(m.train, m.plan, m.loop)
      BY <2>1, <2>3, <2>4 DEF Trips!Order, Trips!Home
    <2> QED BY <1>1, <2>5 DEF Trips!Next
  <1> QED BY <1>a, <1>5, <1>6 DEF MoveTrain

LEMMA ReportMaps == IInv /\ TrainMoved => Trips!Next
  <1> SUFFICES ASSUME IInv, TrainMoved PROVE Trips!Next
    OBVIOUS
  <1>a. PICK t, s : t = Head(mailbox).train /\ s = Head(mailbox).sender
    OBVIOUS
  <1>b. PICK ph, or : ph = [phase EXCEPT ![s] = "ending"] /\ or = [order EXCEPT ![s] = NoOrder]
    OBVIOUS
  <1>1. t \in Trains /\ s \in Slots /\ phase[s] = "asking" /\ order[s].train = t
    <2>1. Received("TRAIN_MOVED")
      BY DEF TrainMoved
    <2>2. Head(mailbox) \in Requests /\ Head(mailbox).opcode = "TRAIN_MOVED"
          /\ Head(mailbox) = mailbox[1] /\ 1 \in DOMAIN mailbox
      BY <2>1, ReceivedFacts DEF IInv
    <2> QED BY <1>a, <2>1, <2>2, RequestFacts DEF IInv, Reports
  <1>2. phase \in [Slots -> Phases] /\ order \in [Slots -> Instructions]
        /\ \A u \in Trains : Single(order, u)
    BY DEF IInv, TypeOK, Instructions, OneDriver, Drivers, Single
  <1>3. /\ ph \in [Slots -> Phases] /\ or \in [Slots -> Instructions]
        /\ ph[s] = "ending" /\ or[s] = NoOrder
        /\ \A r \in Slots : r # s => ph[r] = phase[r] /\ or[r] = order[r]
    BY <1>b, <1>1, <1>2 DEF Phases, Instructions
  <1>4. Instructed(ph, or)
    BY <1>1, <1>3 DEF IInv, Instructed
  <1>5. Relieved(or, t)
    BY <1>1, <1>2, <1>3, InstructionFacts DEF Relieved, Single
  <1>6. \A r \in Slots : order[r].train \in Trains \ {t} => or[r] = order[r]
    BY <1>1, <1>3
  <1>7. Trip(t) \in Dests
    <2>1. Trip(t) = order[s].node
      BY <1>1, <1>2, TripIs, Mapping
    <2> QED BY <1>1, <1>2, <2>1, InstructionFacts DEF Instructions
  <1>8. Rest(t) = Ahead(dest[t], loop[t], curr_dest[t])
    BY <1>1, Mapping
  <1>9. CASE CreateDriver(t, dest[t], loop[t], curr_dest[t], ph, or)
    <2>1. PICK ds \in Seq(Dests), l \in BOOLEAN, c \in Nat :
            ds = dest[t] /\ l = loop[t] /\ c = curr_dest[t]
      BY <1>1 DEF IInv, TypeOK
    <2>2. ds # <<>> => c < Len(ds)
      BY <1>1, <2>1 DEF IInv, TypeOK
    <2>3. CreateDriver(t, ds, l, c, ph, or)
      BY <1>9, <2>1
    <2>4. t \in Trains /\ ph \in [Slots -> Phases] /\ or \in [Slots -> Instructions]
      BY <1>1, <1>3
    <2>5. Trips!Depart(t, Ahead(ds, l, c), l)
      BY <1>4, <1>5, <1>6, <2>2, <2>3, <2>4, CreateDeparts
    <2>6. Trips!Arrive(t)
      BY <1>1, <1>7, <1>8, <2>1, <2>5 DEF Trips!Arrive
    <2> QED BY <1>1, <2>6 DEF Trips!Next
  <1>10. CASE /\ dest[t] = <<>> /\ status' = [status EXCEPT ![t] = 0]
              /\ order' = or /\ UNCHANGED <<dest, curr_dest, loop>>
    <2>1. status' = [status EXCEPT ![t] = 0] /\ status \in [Trains -> 0 .. 2]
      BY <1>10 DEF IInv, TypeOK
    <2>2. Single(or, t) /\ \A r \in Slots : or[r].train # t
      BY <1>5 DEF Relieved, Single
    <2>3. Trip(t)' = "home"
      <3>1. TripOf(or, status', t) = IF status'[t] = 0 THEN "home" ELSE "stranded"
        BY <2>2, TripIs
      <3>2. status'[t] = 0
        BY <1>1, <2>1
      <3>3. Trip(t)' = TripOf(or, status', t)
        BY <1>1, <1>10, MappingNext
      <3> QED BY <3>1, <3>2, <3>3
    <2>4. ASSUME NEW u \in Trains, u # t PROVE Trip(u)' = Trip(u)
      <3>1. \A r \in Slots : order[r].train = u => or[r] = order[r]
        BY <1>6, <2>4
      <3>2. \A r \in Slots : or[r].train = u => or[r] = order[r]
        BY <1>5, InstructionFacts DEF Relieved
      <3>3. status'[u] = status[u]
        BY <2>1, <2>4
      <3>4. TripOf(or, status', u) = TripOf(order, status, u)
        BY <1>2, <3>1, <3>2, <3>3, TripKept
      <3> QED BY <1>10, <3>4, Mapping, MappingNext
    <2>5. [u \in Trains |-> Trip(u)]' = [[u \in Trains |-> Trip(u)] EXCEPT ![t] = "home"]
      BY <2>3, <2>4
    <2>6. Rest(t) = <<>>
      <3>1. curr_dest[t] = 0 /\ loop[t] \in BOOLEAN /\ dest[t] \in Seq(Dests)
        BY <1>1, <1>10, EmptySeq DEF IInv, TypeOK
      <3> QED BY <1>8, <1>10, <3>1, AheadWhole
    <2>7. \A u \in Trains : Rest(u)' = Rest(u)
      BY <1>10, Mapping, MappingNext
    <2>8. UNCHANGED [u \in Trains |-> Rest(u)] /\ UNCHANGED loop
      BY <1>10, <2>7
    <2>9. Trips!Arrive(t)
      BY <1>1, <1>7, <2>5, <2>6, <2>8 DEF Trips!Arrive, Trips!Home
    <2> QED BY <1>1, <2>9 DEF Trips!Next
  <1> QED BY <1>a, <1>b, <1>9, <1>10 DEF TrainMoved

LEMMA InitMaps == Init => Trips!Init
  <1> SUFFICES ASSUME Init PROVE Trips!Init
    OBVIOUS
  <1>1. \A u \in Trains : Rest(u) = <<>>
    <2> SUFFICES ASSUME NEW u \in Trains PROVE Rest(u) = <<>>
      OBVIOUS
    <2>1. dest[u] = <<>> /\ curr_dest[u] = 0 /\ loop[u] = FALSE /\ <<>> \in Seq(Dests)
      BY EmptySeq DEF Init
    <2> QED BY <2>1, Mapping, AheadWhole
  <1>2. \A u \in Trains : Trip(u) = "home"
    <2> SUFFICES ASSUME NEW u \in Trains PROVE Trip(u) = "home"
      OBVIOUS
    <2>1. \A s \in Slots : order[s].train # u
      BY RouteSchedulerNames DEF Init
    <2>2. TripOf(order, status, u) = IF status[u] = 0 THEN "home" ELSE "stranded"
      BY <2>1, TripIs DEF Single
    <2> QED BY <2>2, Mapping DEF Init
  <1> QED BY <1>1, <1>2 DEF Init, Trips!Init, Trips!Home

LEMMA StepMaps == IInv /\ [Next]_vars => [Trips!Next]_(Trips!vars)
  <1> SUFFICES ASSUME IInv, [Next]_vars PROVE Trips!Next \/ UNCHANGED Trips!vars
    OBVIOUS
  <1>1. CASE UNCHANGED <<scheduleVars, order>>
    BY <1>1, NothingMoves
  <1>2. CASE MoveTrain
    BY <1>2, OrderMaps
  <1>3. CASE TrainMoved
    BY <1>3, ReportMaps
  <1>4. MoveTrainAsked => UNCHANGED <<scheduleVars, order>>
    BY DEF MoveTrainAsked
  <1>5. \A s \in Slots : DriverCompleted(s) \/ DriverExits(s) => UNCHANGED <<scheduleVars, order>>
    BY DEF DriverCompleted, DriverExits
  <1>6. UNCHANGED vars => UNCHANGED <<scheduleVars, order>>
    BY DEF vars, scheduleVars
  <1> QED BY <1>1, <1>2, <1>3, <1>4, <1>5, <1>6 DEF Next, Server

\* Whatever orders and reports cross, and whether or not a driver can be created,
\* MOVE_TRAIN and TRAIN_MOVED keep what module Itinerary promises of a train.
THEOREM ItineraryImplemented == Spec => ImplementsItinerary
  BY Invariance, InitMaps, StepMaps, PTL DEF Spec, ImplementsItinerary, Trips!Spec
=============================================================================
