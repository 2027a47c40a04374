---------------------------- MODULE Reservation ----------------------------
(***************************************************************************)
(* The track reservation server of user/train_route_reservation_server.c,  *)
(* its courier to the view server and the tasks that reserve and release   *)
(* track: one for each train, a driver or, for the operator's "cal 7",     *)
(* the command worker.                                                     *)
(*                                                                         *)
(* The kernel keeps the requests to the server in the order of the Sends   *)
(* (module Kernel).  The server handles one at a time and depends on       *)
(* nobody until its next Receive: one request is one step.                 *)
(***************************************************************************)
EXTENDS Integers, Sequences

CONSTANTS
  TRACK_MAX,     \* nodes of the track
  reverse,       \* node -> the node at the same place in the other direction
  Trains,        \* train ids, none of them 0
  Arcs,          \* the <<src, dest>> of the edges of the track
  PRINT_BUFFER   \* capacity of print_buffer

Nodes  == 0 .. TRACK_MAX - 1
NoNode == TRACK_MAX + 1  \* a node id that the server rejects, and no reverse
Nobody == 0
NoArc  == <<NoNode, NoNode>>

\* track_data.c: where a node has a reverse, it is the reverse of its reverse.
\* The nodes that one of the two tracks does not use have none.
ASSUME ReservationAssumption ==
  /\ TRACK_MAX \in Nat \ {0}
  /\ reverse \in [Nodes -> Nodes \cup {NoNode}]
  /\ \A n \in Nodes : reverse[n] # NoNode => reverse[n] # n /\ reverse[reverse[n]] = n
  /\ Trains \subseteq Nat \ {Nobody}
  /\ Arcs \subseteq Nodes \X Nodes
  /\ PRINT_BUFFER \in Nat \ {0}

Requests ==
  [sender : {Nobody}, opcode : {"COURIER_NOTIF"}, node : {NoNode}, to : {NoNode}] \cup
  [sender : Trains, opcode : {"RESERVE_NODE", "RELEASE_NODE"},
   node : Nodes \cup {NoNode}, to : {NoNode}] \cup
  [sender : Trains, opcode : {"RELEASE_ALL"},
   node : Nodes \cup {NoNode}, to : Nodes \cup {NoNode}] \cup
  [sender : Trains, opcode : {"PRINT_TRAIN_ALLOC"}, node : {NoNode}, to : {NoNode}]

VARIABLES
  reserved,      \* node -> the train that has it: reserved_nodes
  prints,        \* messages in print_buffer
  courier_ready,
  courier,       \* "asking" for a message, "blocked" in Send to the server
                 \* or "carrying" one to the view server
  mailbox,       \* the requests sent to the server and not yet received
  client,        \* train -> "running" or "blocked" in Send to the server
  blamed         \* train -> TRUE once reserve_track was refused and is about
                 \* to have the allocation of the owner printed

vars == <<reserved, prints, courier_ready, courier, mailbox, client, blamed>>

Init ==
  /\ reserved = [n \in Nodes |-> Nobody]
  /\ prints = 0
  /\ courier_ready = FALSE
  /\ courier = "asking"
  /\ mailbox = <<>>
  /\ client = [t \in Trains |-> "running"]
  /\ blamed = [t \in Trains |-> FALSE]
-----------------------------------------------------------------------------
(***************************************************************************)
(* The clients: reserve_track, release_track, release_all_track, and the   *)
(* courier's loop.                                                         *)
(***************************************************************************)
Asks(t, opcode, node, to) ==
  /\ client[t] = "running"
  /\ mailbox' = Append(mailbox, [sender |-> t, opcode |-> opcode, node |-> node, to |-> to])
  /\ client' = [client EXCEPT ![t] = "blocked"]
  /\ UNCHANGED <<reserved, prints, courier_ready, courier>>

ReserveTrack(t) ==
  /\ ~blamed[t]
  /\ \E n \in Nodes \cup {NoNode} : Asks(t, "RESERVE_NODE", n, NoNode)
  /\ UNCHANGED blamed

PrintOwner(t) ==
  /\ blamed[t]
  /\ Asks(t, "PRINT_TRAIN_ALLOC", NoNode, NoNode)
  /\ blamed' = [blamed EXCEPT ![t] = FALSE]

ReleaseTrack(t) ==
  /\ ~blamed[t]
  /\ \E n \in Nodes \cup {NoNode} : Asks(t, "RELEASE_NODE", n, NoNode)
  /\ UNCHANGED blamed

ReleaseAllTrack(t) ==
  /\ ~blamed[t]
  /\ \E a \in Arcs \cup {NoArc} : Asks(t, "RELEASE_ALL", a[1], a[2])
  /\ UNCHANGED blamed

CourierAsks ==
  /\ courier = "asking"
  /\ courier' = "blocked"
  /\ mailbox' = Append(mailbox, [sender |-> Nobody, opcode |-> "COURIER_NOTIF",
                                 node |-> NoNode, to |-> NoNode])
  /\ UNCHANGED <<reserved, prints, courier_ready, client, blamed>>

\* The view server has replied to the courier.
CourierDelivers ==
  /\ courier = "carrying"
  /\ courier' = "asking"
  /\ UNCHANGED <<reserved, prints, courier_ready, mailbox, client, blamed>>
-----------------------------------------------------------------------------
(***************************************************************************)
(* The server.                                                             *)
(***************************************************************************)
\* reserve_node when it writes: the node and its reverse get the same train.
\* Mutant: the reverse is forgotten.
WrittenOneWay(r, n, t) == [r EXCEPT ![n] = t]
Written(r, n, t) == [m \in Nodes |-> IF m = n \/ m = reverse[n] THEN t ELSE r[m]]

\* reserve_node without force fails: another train has the node.
\* Mutant: the owner is not asked.
RefusedNever(n, t) == FALSE
Refused(n, t) == reserved[n] \notin {Nobody, t}

PushPrint(n) == IF n < PRINT_BUFFER THEN n + 1 ELSE n

\* The end of every turn: one buffered message goes to a waiting courier.
Flush(ready, buffered) ==
  IF ready /\ buffered > 0
    THEN courier' = "carrying" /\ courier_ready' = FALSE /\ prints' = buffered - 1
    ELSE courier_ready' = ready /\ prints' = buffered /\ UNCHANGED courier

Received(opcode) ==
  /\ mailbox # <<>>
  /\ Head(mailbox).opcode = opcode
  /\ mailbox' = Tail(mailbox)

Answer(t) == client' = [client EXCEPT ![t] = "running"]

\* Mutant: the courier's request is not noted.
CourierNotifIgnored ==
  /\ Received("COURIER_NOTIF")
  /\ Flush(courier_ready, prints)
  /\ UNCHANGED <<reserved, client, blamed>>
CourierNotif ==
  /\ Received("COURIER_NOTIF")
  /\ Flush(TRUE, prints)
  /\ UNCHANGED <<reserved, client, blamed>>

\* An id outside the track leaves the client without an answer.
ReserveInvalid ==
  /\ Received("RESERVE_NODE")
  /\ Head(mailbox).node \notin Nodes
  /\ Flush(courier_ready, prints)
  /\ UNCHANGED <<reserved, client, blamed>>

\* Mutant: a refused train gets no answer.
ReserveNoRefusal ==
  /\ Received("RESERVE_NODE")
  /\ Head(mailbox).node \in Nodes
  /\ LET t == Head(mailbox).sender
         n == Head(mailbox).node
     IN  /\ reserved' = IF reserved[n] = Nobody THEN Written(reserved, n, t) ELSE reserved
         /\ blamed' = [blamed EXCEPT ![t] = Refused(n, t)]
         /\ IF Refused(n, t) THEN UNCHANGED client ELSE Answer(t)
  /\ Flush(courier_ready, PushPrint(prints))
Reserve ==
  /\ Received("RESERVE_NODE")
  /\ Head(mailbox).node \in Nodes
  /\ LET t == Head(mailbox).sender
         n == Head(mailbox).node
     IN  /\ reserved' = IF Refused(n, t) \/ reserved[n] = t THEN reserved
                        ELSE Written(reserved, n, t)
         /\ blamed' = [blamed EXCEPT ![t] = Refused(n, t)]
         /\ Answer(t)
  /\ Flush(courier_ready, PushPrint(prints))

\* Mutant: whoever owns the node, it is released.
ReleaseAnyones ==
  /\ Received("RELEASE_NODE")
  /\ Answer(Head(mailbox).sender)
  /\ LET n == Head(mailbox).node
     IN  IF n \in Nodes
           THEN /\ reserved' = Written(reserved, n, Nobody)
                /\ Flush(courier_ready, PushPrint(prints))
           ELSE Flush(courier_ready, prints) /\ UNCHANGED reserved
  /\ UNCHANGED blamed
Release ==
  /\ Received("RELEASE_NODE")
  /\ Answer(Head(mailbox).sender)
  /\ LET t == Head(mailbox).sender
         n == Head(mailbox).node
     IN  IF n \in Nodes /\ reserved[n] = t
           THEN /\ reserved' = Written(reserved, n, Nobody)
                /\ Flush(courier_ready, PushPrint(prints))
           ELSE Flush(courier_ready, prints) /\ UNCHANGED reserved
  /\ UNCHANGED blamed

\* Everything t has is cleared, then the ends of its arc are taken by force.
Cleared(t) == [n \in Nodes |-> IF reserved[n] = t THEN Nobody ELSE reserved[n]]

ReleaseAll ==
  /\ Received("RELEASE_ALL")
  /\ Answer(Head(mailbox).sender)
  /\ LET t == Head(mailbox).sender
         src == Head(mailbox).node
         dest == Head(mailbox).to
     IN  IF src \in Nodes
           THEN /\ reserved' = Written(Written(Cleared(t), src, t), dest, t)
                /\ Flush(courier_ready, PushPrint(prints))
           ELSE reserved' = Cleared(t) /\ Flush(courier_ready, prints)
  /\ UNCHANGED blamed

PrintTrainAlloc ==
  /\ Received("PRINT_TRAIN_ALLOC")
  /\ Answer(Head(mailbox).sender)
  /\ Flush(courier_ready, PushPrint(prints))
  /\ UNCHANGED <<reserved, blamed>>

Server ==
  CourierNotif \/ ReserveInvalid \/ Reserve \/ Release \/ ReleaseAll \/ PrintTrainAlloc

Next ==
  \/ \E t \in Trains :
       ReserveTrack(t) \/ PrintOwner(t) \/ ReleaseTrack(t) \/ ReleaseAllTrack(t)
  \/ CourierAsks \/ CourierDelivers
  \/ Server

Spec == Init /\ [][Next]_vars

\* The kernel runs the server and the courier when they are ready, and the
\* view server replies to the courier at once (terminal_mvc_server.c).
FairSpec ==
  Spec /\ WF_vars(Server) /\ WF_vars(CourierAsks) /\ WF_vars(CourierDelivers)
-----------------------------------------------------------------------------
\* Every variable has its type, and only the ends of an arc, or neither, come
\* with RELEASE_ALL.
TypeOK ==
  /\ reserved \in [Nodes -> Trains \cup {Nobody}]
  /\ prints \in 0 .. PRINT_BUFFER
  /\ courier_ready \in BOOLEAN
  /\ courier \in {"asking", "blocked", "carrying"}
  /\ mailbox \in Seq(Requests)
  /\ \A k \in DOMAIN mailbox : mailbox[k].opcode = "RELEASE_ALL" =>
       <<mailbox[k].node, mailbox[k].to>> \in Arcs \cup {NoArc}
  /\ client \in [Trains -> {"running", "blocked"}]
  /\ blamed \in [Trains -> BOOLEAN]

\* The assertion in PRINT_TRAIN_ALLOC: a node and its reverse always belong to
\* the same train, whatever mix of grants, releases and claims by force.
ReverseTogether ==
  \A n \in Nodes : reverse[n] # NoNode => reserved[reverse[n]] = reserved[n]

\* A node and its reverse are one piece of track.
Piece(n) == {n} \cup ({reverse[n]} \cap Nodes)
Pieces == {Piece(n) : n \in Nodes}

Ownership == INSTANCE TrackOwnership
  WITH owner <- [s \in Pieces |-> reserved[CHOOSE n \in s : TRUE]]

\* The table of nodes keeps the promise of module TrackOwnership: no train gets
\* a piece of track that another one has, except by starting over on it.
ImplementsTrackOwnership == Ownership!Spec

\* A train loses a node only at a request of its own, or when another train that
\* starts over claims the ends of the arc it stands on.
OnlyOwnerGivesUp ==
  [][\A n \in Nodes :
       reserved[n] \notin {Nobody, reserved'[n]} =>
         LET m == Head(mailbox)
         IN  \/ m.sender = reserved[n]
             \/ m.opcode = "RELEASE_ALL" /\ {m.node, m.to} \cap Piece(n) # {}]_vars

\* The server replies to the courier only while it is blocked in Send to it,
\* once, and keeps no message back while the courier waits: courier_ready is
\* never stale.
CourierReadyIsFresh ==
  courier_ready => /\ courier = "blocked"
                   /\ prints = 0
                   /\ \A k \in DOMAIN mailbox : mailbox[k].opcode # "COURIER_NOTIF"

\* Each client whose request names a node of the track gets its answer.
RequestAnswered ==
  \A t \in Trains :
    (\E k \in DOMAIN mailbox :
        /\ mailbox[k].sender = t
        /\ mailbox[k].opcode = "RESERVE_NODE" => mailbox[k].node \in Nodes)
      ~> (client[t] = "running")

\* What is in the print buffer reaches the view server: the courier is never
\* left waiting for a message that came before it asked.
PrintsDelivered == (prints > 0) ~> (courier = "carrying")
=============================================================================
