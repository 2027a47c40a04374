----------------------------- MODULE PathFinding -----------------------------
(***************************************************************************)
(* dijkstra_find of util/dijkstra.c: the shortest path from a train, which *)
(* stands on an edge (arc) of the track and may leave it at either end, to *)
(* a node or its reverse.  The nodes wait in a binary min heap; index is   *)
(* where the code believes a node to be in it.                             *)
(***************************************************************************)
EXTENDS Integers, Sequences

CONSTANTS
  TRACK_MAX,  \* nodes of the track
  reverse,    \* node -> the other direction of the same place
  type,       \* node -> its node_type
  num,        \* node -> the number of its switch
  edge,       \* node -> its edges, each with its dest and dist
  Far,        \* the distance of a node not yet reached
  Questions   \* what is asked: src and dest of the arc, the goal, the set of
              \* reserved nodes and the set of the switches that are curved

Nodes  == 0 .. TRACK_MAX - 1
NoNode == TRACK_MAX + 1  \* a null pointer

NumEdge(n) ==
  CASE type[n] \in {"NODE_MERGE", "NODE_SENSOR", "NODE_ENTER"} -> 1
    [] type[n] = "NODE_BRANCH" -> 2
    [] OTHER -> 0

ASSUME PathFindingAssumption ==
  /\ TRACK_MAX \in Nat \ {0}
  /\ Far \in Nat \ {0}
  /\ reverse \in [Nodes -> Nodes \cup {NoNode}]
  /\ edge \in [Nodes -> Seq([dest : Nodes, dist : Nat \ {0}])]
  /\ \A n \in Nodes : NumEdge(n) = Len(edge[n])
  /\ \A q \in Questions : {q.src, reverse[q.src], q.dest, q.goal, reverse[q.goal]} \subseteq Nodes

VARIABLES
  question,   \* the parameters of the call
  place,      \* heap.nodes: the node at every place, those past size included
  size,       \* heap.size
  index,      \* node -> its place in the heap, -1 once it was extracted
  dist,       \* node -> the length of the best path found
  prev,       \* node -> the node before it on that path
  prev_edge,  \* node -> the edge of prev that leads to it
  seeds,      \* the ends of the arc that are still to be given distance 0
  np,         \* the node whose edges are considered
  i,          \* the edge of np that is next
  at,         \* the place from which a node bubbles, or the node of the walk
  pc,         \* "next", "down", "up", "walk", "done", or "wild": a write
              \* through heap.nodes[-1], after which C promises nothing
  path        \* nodes and edges, from the goal back to the train

heap == <<place, size, index>>
labels == <<dist, prev, prev_edge>>
search == <<question, seeds, np, i>>
vars == <<question, place, size, index, dist, prev, prev_edge, seeds, np, i, at, pc, path>>

Init ==
  /\ question \in Questions
  /\ place = [p \in Nodes |-> p]
  /\ size = TRACK_MAX
  /\ index = [n \in Nodes |-> n]
  /\ dist = [n \in Nodes |-> Far]
  /\ prev = [n \in Nodes |-> NoNode]
  /\ prev_edge = [n \in Nodes |-> -1]
  /\ seeds = <<reverse[question.src], question.dest>>
  /\ np = NoNode
  /\ i = 0
  /\ at = 0
  /\ pc = "next"
  /\ path = <<>>
-----------------------------------------------------------------------------
(***************************************************************************)
(* The heap.                                                               *)
(***************************************************************************)
\* Mutant: the index of the node that moves down is forgotten.
Swap_one_index(p, q) ==
  /\ place' = [place EXCEPT ![p] = place[q], ![q] = place[p]]
  /\ index' = [index EXCEPT ![place[q]] = p]
  /\ UNCHANGED size

Swap(p, q) ==
  /\ place' = [place EXCEPT ![p] = place[q], ![q] = place[p]]
  /\ index' = [index EXCEPT ![place[q]] = p, ![place[p]] = q]
  /\ UNCHANGED size

Key(p) == dist[place[p]]

\* Mutant: the parent in an array that starts at 1.
Parent_from_1(p) == p \div 2

Parent(p) == (p - 1) \div 2

Smaller(p, q) == IF q < size /\ Key(q) < Key(p) THEN q ELSE p

Smallest(p) == Smaller(Smaller(p, 2 * p + 1), 2 * p + 2)

BubbleUp ==
  /\ pc = "up"
  /\ IF at > 0 /\ Key(Parent(at)) > Key(at)
     THEN Swap(Parent(at), at) /\ at' = Parent(at) /\ UNCHANGED pc
     ELSE pc' = "next" /\ UNCHANGED <<heap, at>>
  /\ UNCHANGED <<labels, search, path>>

\* The key that changes is that of the node found at this place of the heap.
DecreaseKey(p, val) ==
  IF p >= size THEN UNCHANGED <<dist, at, pc>>
  ELSE IF p < 0 THEN pc' = "wild" /\ UNCHANGED <<dist, at>>
  ELSE /\ dist' = [dist EXCEPT ![place[p]] = val]
       /\ at' = p
       /\ pc' = "up"

Seed ==
  /\ pc = "next"
  /\ seeds # <<>>
  /\ DecreaseKey(index[Head(seeds)], 0)
  /\ seeds' = Tail(seeds)
  /\ UNCHANGED <<question, heap, prev, prev_edge, np, i, path>>
-----------------------------------------------------------------------------
(***************************************************************************)
(* The search.                                                             *)
(***************************************************************************)
EdgesLeft == np # NoNode /\ i < NumEdge(np)

Reached(n) == n = question.goal \/ n = reverse[question.goal]

\* The end of dijkstra_find, which starts with the node whose path is told.
Answer ==
  /\ at' = IF dist[question.goal] # Far THEN question.goal
           ELSE IF dist[reverse[question.goal]] # Far THEN reverse[question.goal]
           ELSE NoNode
  /\ pc' = "walk"

\* The last node of the heap takes the place of the extracted one, its index
\* left as it was.
ExtractMin ==
  /\ np' = place[0]
  /\ index' = [index EXCEPT ![place[0]] = -1]
  /\ size' = size - 1
  /\ place' = [place EXCEPT ![0] = place[size - 1]]
  /\ at' = 0
  /\ pc' = "down"

Extract ==
  /\ pc = "next"
  /\ seeds = <<>>
  /\ ~EdgesLeft
  /\ IF size > 0 THEN ExtractMin ELSE Answer /\ UNCHANGED <<heap, np>>
  /\ UNCHANGED <<question, labels, seeds, i, path>>

BubbleDown ==
  /\ pc = "down"
  /\ IF Smallest(at) # at
     THEN Swap(Smallest(at), at) /\ at' = Smallest(at) /\ UNCHANGED <<pc, i>>
     ELSE /\ IF Reached(np) \/ dist[np] = Far
             THEN Answer /\ UNCHANGED i
             ELSE pc' = "next" /\ i' = 0 /\ UNCHANGED at
          /\ UNCHANGED heap
  /\ UNCHANGED <<question, seeds, np, labels, path>>

\* A branch close to the train is crossed only as its switch stands.
AgainstSwitch ==
  /\ dist[np] < 200
  /\ type[np] = "NODE_BRANCH"
  /\ (num[np] \in question.curved) # (i = 1)

\* Mutants: the reservations are not looked at; the distances are not compared.
Improves_reserved(id, alt_dist) == alt_dist < dist[id]
Improves_always(id, alt_dist) == id \notin question.reserved

Improves(id, alt_dist) == alt_dist < dist[id] /\ id \notin question.reserved

Relax ==
  LET id == edge[np][i + 1].dest
      alt_dist == dist[np] + edge[np][i + 1].dist
  IN  /\ pc = "next"
      /\ seeds = <<>>
      /\ EdgesLeft
      /\ IF ~AgainstSwitch /\ Improves(id, alt_dist)
         THEN /\ prev' = [prev EXCEPT ![id] = np]
              /\ prev_edge' = [prev_edge EXCEPT ![id] = i]
              /\ DecreaseKey(index[id], alt_dist)
         ELSE UNCHANGED <<labels, at, pc>>
      /\ i' = i + 1
      /\ UNCHANGED <<question, seeds, np, heap, path>>

Walk ==
  /\ pc = "walk"
  /\ IF at # NoNode
     THEN /\ path' = Append(path, [node |-> at, edge |-> prev_edge[at]])
          /\ at' = prev[at]
          /\ UNCHANGED pc
     ELSE pc' = "done" /\ UNCHANGED <<at, path>>
  /\ UNCHANGED <<heap, labels, search>>

Next == Seed \/ Extract \/ BubbleDown \/ BubbleUp \/ Relax \/ Walk

Spec == Init /\ [][Next]_vars
FairSpec == Spec /\ WF_vars(Next)
-----------------------------------------------------------------------------
(***************************************************************************)
(* Correctness.                                                            *)
(***************************************************************************)
TypeOK ==
  /\ question \in Questions
  /\ place \in [Nodes -> Nodes]
  /\ size \in 0 .. TRACK_MAX
  /\ index \in [Nodes -> -1 .. TRACK_MAX - 1]
  /\ dist \in [Nodes -> 0 .. Far]
  /\ prev \in [Nodes -> Nodes \cup {NoNode}]
  /\ prev_edge \in [Nodes -> {-1, 0, 1}]
  /\ seeds \in Seq(Nodes)
  /\ np \in Nodes \cup {NoNode}
  /\ i \in 0 .. 2
  /\ at \in Nodes \cup {NoNode}
  /\ pc \in {"next", "down", "up", "walk", "done", "wild"}
  /\ path \in Seq([node : Nodes, edge : {-1, 0, 1}])

\* An index the heap acts upon is true: it leads to the node that has it, so
\* that min_heap_decrease_key never changes another node's distance.  (An index
\* may be stale, but then it lies outside the heap.)
IndexHonest ==
  \A n \in Nodes : index[n] \in 0 .. size - 1 => place[index[n]] = n

\* Relaxing an edge never reaches back to a node that was extracted, whose
\* index is -1: min_heap_decrease_key tests only the upper end of its range.
NeverWild == pc # "wild"

\* Whatever the staleness of the indices, the node extracted from the heap is
\* one of the closest of those that are left.
ClosestFirst ==
  [][np' # np => \A p \in 0 .. size - 1 : dist[np'] <= dist[place[p]]]_vars

\* What the driver is given is a path of the track: from the goal or its
\* reverse back to an end of the arc over edges of the track, never into reserved
\* track and never twice through a node (Path has room for TRACK_MAX nodes),
\* whichever labels the search left behind when it stopped.
PathIsReal ==
  pc = "done" /\ path # <<>> =>
    /\ Reached(path[1].node)
    /\ path[Len(path)].node \in {reverse[question.src], question.dest}
    /\ \A k, l \in 1 .. Len(path) : path[k].node = path[l].node => k = l
    /\ \A k \in 1 .. Len(path) - 1 :
         /\ path[k].edge + 1 \in DOMAIN edge[path[k + 1].node]
         /\ edge[path[k + 1].node][path[k].edge + 1].dest = path[k].node
         /\ path[k].node \notin question.reserved

\* Nodes within k edges of the train, crossing branches only as they stand.
Within[k \in Nat] ==
  IF k = 0 THEN {reverse[question.src], question.dest}
  ELSE LET closer == Within[k - 1]
       IN  closer \cup
             {m \in Nodes \ question.reserved :
                \E n \in closer : \E e \in 0 .. NumEdge(n) - 1 :
                  /\ edge[n][e + 1].dest = m
                  /\ type[n] = "NODE_BRANCH" => (num[n] \in question.curved) = (e = 1)}

\* dijkstra.c:109 says of a search that stops at a node without a distance
\* that the goal is not reachable.
StopsIfNotReachable ==
  pc = "walk" /\ ~Reached(np) => \A n \in Within[TRACK_MAX] : ~Reached(n)

\* The search ends, and so does the walk back along prev: the labels form no
\* cycle, and no node is twice on a path.
SearchEnds == <>(pc = "done")
=============================================================================
