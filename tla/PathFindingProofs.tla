-------------------------- MODULE PathFindingProofs --------------------------
(***************************************************************************)
(* What dijkstra_find answers is a path of the track, for every track and  *)
(* every question, and its heap never changes the distance of a node other *)
(* than the one it was asked to.                                           *)
(***************************************************************************)
EXTENDS PathFinding, WellFoundedInduction, TLAPS

Starts == {reverse[question.src], question.dest}

\* The pointer of the code that each program counter relies on.
Control ==
  /\ pc \in {"up", "down"} => at \in Nodes
  /\ pc = "down" => np \in Nodes
  /\ pc \in {"next", "up"} /\ np # NoNode => dist[np] # Far
  /\ \A k \in DOMAIN seeds : seeds[k] \in Starts

\* A node that is labelled is a start or was entered over an edge of the track
\* from another labelled node.
Link(n) ==
  /\ prev_edge[n] + 1 \in DOMAIN edge[prev[n]]
  /\ edge[prev[n]][prev_edge[n] + 1].dest = n
  /\ n \notin question.reserved
  /\ dist[prev[n]] # Far

Labels ==
  \A n \in Nodes : /\ prev[n] # NoNode => Link(n)
                   /\ prev[n] = NoNode /\ dist[n] # Far => n \in Starts

\* The walk has come from the goal to at.
Walked ==
  /\ pc \notin {"walk", "done"} => path = <<>>
  /\ pc = "done" => at = NoNode
  /\ pc = "walk" /\ at # NoNode => dist[at] # Far
  /\ pc = "walk" /\ path = <<>> => at = NoNode \/ Reached(at)
  /\ path # <<>> =>
       /\ Reached(path[1].node)
       /\ at = prev[path[Len(path)].node]
       /\ dist[path[Len(path)].node] # Far
  /\ \A k \in 1 .. Len(path) : path[k].edge = prev_edge[path[k].node]
  /\ \A k \in 1 .. Len(path) - 1 : /\ prev[path[k].node] = path[k + 1].node

IInv == TypeOK /\ IndexHonest /\ Control /\ Labels /\ Walked


InHeap == 0 .. size - 1

\* Every place of the heap has a node of its own, and none that was extracted.
Placed ==
  /\ \A p, q \in InHeap : place[p] = place[q] => p = q
  /\ \A n \in Nodes : index[n] = -1 => \A p \in InHeap : place[p] # n
  /\ pc = "up" => at \in InHeap
  /\ pc = "down" => at = 0 \/ at \in InHeap

\* A parent is no farther than its children, but for the place where a node
\* bubbles; the parent of that place is no farther than its children either.
Heaped ==
  pc \in {"next", "up", "down"} =>
    \A p \in InHeap \ {0} :
      /\ \/ pc = "up" /\ p = at
         \/ pc = "down" /\ Parent(p) = at
         \/ Key(Parent(p)) <= Key(p)
      /\ pc # "next" /\ Parent(p) = at /\ at > 0 => Key(Parent(at)) <= Key(p)

\* np was extracted last: what was extracted before is no farther, what is left
\* no closer.
Rounds ==
  /\ pc # "wild"
  /\ seeds # <<>> => np = NoNode /\ pc \in {"next", "up"}
  /\ np # NoNode => index[np] = -1 /\ \A p \in InHeap : dist[np] <= Key(p)
  /\ \A n \in Nodes : index[n] = -1 => np # NoNode /\ dist[n] <= dist[np]

\* The labels lead to ever closer nodes that were extracted, and so does the walk.
Descends ==
  /\ \A n \in Nodes : prev[n] # NoNode => index[prev[n]] = -1 /\ dist[prev[n]] < dist[n]
  /\ \A k, l \in 1 .. Len(path) : k < l => dist[path[l].node] < dist[path[k].node]

Sorted == Placed /\ Heaped /\ Rounds /\ Descends
-----------------------------------------------------------------------------
(***************************************************************************)
(* The heap.                                                               *)
(***************************************************************************)
LEMMA Elements ==
  ASSUME NEW E, NEW s \in Seq(E), NEW k \in 1 .. Len(s)
  PROVE  s[k] \in E
OBVIOUS

\* A parent lies before its children.
LEMMA ParentBefore ==
  ASSUME NEW p \in Nodes, p > 0
  PROVE  Parent(p) \in 0 .. p - 1
<1>1. p \in Int /\ p > 0
  BY DEF Nodes
<1>2. (p - 1) \div 2 \in 0 .. p - 1
  BY <1>1, SMT
<1> QED BY <1>2 DEF Parent

\* Bubbling down stays inside the heap.
LEMMA SmallestInHeap ==
  ASSUME TypeOK, NEW p \in Nodes
  PROVE  Smallest(p) = p \/ Smallest(p) \in 0 .. size - 1
<1>1. ASSUME NEW a \in Nat, NEW b \in Nat
      PROVE  Smaller(a, b) = a \/ (Smaller(a, b) = b /\ b \in 0 .. size - 1)
  BY DEF Smaller, TypeOK, Nodes
<1>2. p \in Nat /\ 2 * p + 1 \in Nat /\ 2 * p + 2 \in Nat
  BY DEF Nodes
<1>3. Smaller(p, 2 * p + 1) = p \/ Smaller(p, 2 * p + 1) \in 0 .. size - 1
  BY <1>1, <1>2
<1>4. Smaller(p, 2 * p + 1) \in Nat
  BY <1>2, <1>3 DEF TypeOK
<1>5. \/ Smallest(p) = Smaller(p, 2 * p + 1)
      \/ Smallest(p) \in 0 .. size - 1
  BY <1>1, <1>2, <1>4 DEF Smallest
<1> QED BY <1>3, <1>5

\* Swapping two places keeps the indices honest.
LEMMA SwapHonest ==
  ASSUME TypeOK, IndexHonest, NEW p \in Nodes, NEW q \in Nodes, Swap(p, q)
  PROVE  /\ place' \in [Nodes -> Nodes]
         /\ index' \in [Nodes -> -1 .. TRACK_MAX - 1]
         /\ size' = size
         /\ IndexHonest'
<1>1. place' \in [Nodes -> Nodes] /\ size' = size
  BY DEF Swap, TypeOK
<1>2. p \in -1 .. TRACK_MAX - 1 /\ q \in -1 .. TRACK_MAX - 1
  BY DEF Nodes
<1>3. index' \in [Nodes -> -1 .. TRACK_MAX - 1]
  BY <1>2 DEF Swap, TypeOK
<1>4. ASSUME NEW n \in Nodes, index'[n] \in 0 .. size - 1
      PROVE  place'[index'[n]] = n
  <2>1. CASE n = place[p]
    BY <2>1 DEF Swap, TypeOK
  <2>2. CASE n = place[q] /\ n # place[p]
    BY <2>2 DEF Swap, TypeOK
  <2>3. CASE n # place[q] /\ n # place[p]
    <3>1. index'[n] = index[n]
      BY <2>3 DEF Swap, TypeOK
    <3>2. /\ index[n] \in 0 .. size - 1 /\ size \in 0 .. TRACK_MAX
          /\ TRACK_MAX \in Nat
      BY <1>4, <3>1, PathFindingAssumption DEF TypeOK
    <3>3. index[n] \in Nodes
      BY <3>2 DEF Nodes
    <3>4. place[index[n]] = n
      BY <3>2 DEF IndexHonest
    <3> QED BY <2>3, <3>1, <3>3, <3>4 DEF Swap, TypeOK
  <2> QED BY <2>1, <2>2, <2>3
<1>5. IndexHonest'
  BY <1>1, <1>4 DEF IndexHonest
<1> QED BY <1>1, <1>3, <1>5

\* A key decreased through an honest index is that of the node it was meant for.
LEMMA DecreaseKeyHits ==
  ASSUME TypeOK, IndexHonest, NEW n \in Nodes, NEW val \in 0 .. Far - 1,
         DecreaseKey(index[n], val)
  PROVE  /\ dist' \in [Nodes -> 0 .. Far]
         /\ pc' \in {pc, "up", "wild"}
         /\ at' \in Nodes \cup {NoNode}
         /\ pc' = "up" /\ pc # "up" => at' \in Nodes
         /\ dist' = dist \/ (dist' = [dist EXCEPT ![n] = val])
         /\ \A m \in Nodes : dist[m] # Far => dist'[m] # Far
<1> DEFINE p == index[n]
<1>0. p \in -1 .. TRACK_MAX - 1 /\ size \in 0 .. TRACK_MAX
  BY DEF TypeOK
<1>1. CASE p >= size
  BY <1>1, <1>0 DEF DecreaseKey, TypeOK
<1>2. CASE ~(p >= size) /\ p < 0
  BY <1>2, <1>0 DEF DecreaseKey, TypeOK
<1>3. CASE ~(p >= size) /\ ~(p < 0)
  <2>1. p \in 0 .. size - 1 /\ p \in Nodes
    BY <1>0, <1>3 DEF Nodes
  <2>2. place[p] = n
    BY <2>1 DEF IndexHonest
  <2>3. dist' = [dist EXCEPT ![n] = val] /\ at' = p /\ pc' = "up"
    BY <1>3, <2>2 DEF DecreaseKey
  <2>4. val \in 0 .. Far /\ val # Far
    BY PathFindingAssumption
  <2> QED BY <2>1, <2>3, <2>4 DEF TypeOK
<1> QED BY <1>1, <1>2, <1>3
-----------------------------------------------------------------------------
(***************************************************************************)
(* The search keeps the invariant.                                         *)
(***************************************************************************)
LEMMA InitIInv == Init => IInv
<1> SUFFICES ASSUME Init PROVE IInv
  OBVIOUS
<1>1. TRACK_MAX \in Nat \ {0}
  BY PathFindingAssumption
<1>2. reverse[question.src] \in Nodes /\ question.dest \in Nodes
  BY PathFindingAssumption DEF Init
<1>3. seeds = <<reverse[question.src], question.dest>> /\ seeds \in Seq(Nodes)
  BY <1>1, <1>2 DEF Init
<1>4. TypeOK
  BY <1>1, <1>3, PathFindingAssumption DEF Init, TypeOK, Nodes, NoNode
<1>5. IndexHonest
  BY DEF Init, IndexHonest, Nodes
<1>6. Control
  BY <1>3 DEF Init, Control, Starts, NoNode
<1>7. Labels
  BY DEF Init, Labels
<1>8. Walked
  BY DEF Init, Walked
<1> QED BY <1>4, <1>5, <1>6, <1>7, <1>8 DEF IInv

\* While no path is told, the invariant says nothing of it.
LEMMA NoPathYet ==
  ASSUME IInv, pc \notin {"walk", "done"}, pc' \notin {"walk", "done"}, UNCHANGED path
  PROVE  Walked'
<1>1. path' = <<>>
  BY DEF IInv, Walked
<1> QED BY <1>1 DEF Walked

\* Labels only improve, and a label keeps its links.
LEMMA LabelsStay ==
  ASSUME Labels, UNCHANGED <<question, prev, prev_edge>>,
         TypeOK, \A m \in Nodes : dist[m] # Far => dist'[m] # Far,
         \A m \in Nodes : dist'[m] # Far /\ dist[m] = Far => m \in Starts
  PROVE  Labels'
<1>1. Starts' = Starts
  BY DEF Starts
<1>2. ASSUME NEW n \in Nodes, prev'[n] # NoNode
      PROVE  Link(n)'
  <2>1. prev[n] \in Nodes
    BY <1>2 DEF TypeOK
  <2>2. Link(n)
    BY <1>2 DEF Labels
  <2> QED BY <2>1, <2>2 DEF Link
<1>3. ASSUME NEW n \in Nodes, prev'[n] = NoNode, dist'[n] # Far
      PROVE  n \in Starts'
  BY <1>1, <1>3 DEF Labels
<1> QED BY <1>2, <1>3 DEF Labels

LEMMA SeedKeeps ==
  ASSUME IInv, Seed
  PROVE  IInv'
<1>1. /\ TypeOK /\ IndexHonest /\ Control /\ Labels /\ Walked
      /\ seeds \in Seq(Nodes) /\ seeds # <<>>
  BY DEF IInv, Seed, TypeOK
<1>2. Head(seeds) \in Nodes /\ Head(seeds) = seeds[1] /\ 1 \in DOMAIN seeds
  BY <1>1
<1>3. 0 \in 0 .. Far - 1
  BY PathFindingAssumption
<1>4. /\ dist' \in [Nodes -> 0 .. Far]
      /\ pc' \in {pc, "up", "wild"}
      /\ at' \in Nodes \cup {NoNode}
      /\ pc' = "up" /\ pc # "up" => at' \in Nodes
      /\ dist' = dist \/ (dist' = [dist EXCEPT ![Head(seeds)] = 0])
      /\ \A m \in Nodes : dist[m] # Far => dist'[m] # Far
  BY <1>1, <1>2, <1>3, DecreaseKeyHits DEF Seed
<1>5. Head(seeds) \in Starts
  BY <1>1, <1>2 DEF Control
<1>6. TypeOK'
  <2>1. UNCHANGED <<question, heap, prev, prev_edge, np, i, path>> /\ seeds' = Tail(seeds)
    BY DEF Seed
  <2>2. seeds' \in Seq(Nodes)
    BY <1>1, <2>1
  <2> QED BY <1>1, <1>4, <2>1, <2>2 DEF TypeOK, heap
<1>7. IndexHonest'
  BY <1>1 DEF IndexHonest, Seed, heap
<1>8. Control'
  <2>1. \A k \in DOMAIN seeds' : seeds'[k] \in Starts'
    BY <1>1 DEF Seed, Control, Starts
  <2>2. pc' \in {"next", "up", "wild"} /\ (pc' = "up" => at' \in Nodes)
    BY <1>4 DEF Seed
  <2>3. np' # NoNode => dist'[np'] # Far
    BY <1>1, <1>4 DEF Control, Seed, TypeOK
  <2> QED BY <2>1, <2>2, <2>3 DEF Control
<1>9. Labels'
  BY <1>1, <1>4, <1>5, LabelsStay DEF Seed, TypeOK
<1>10. Walked'
  BY <1>4, NoPathYet DEF Seed
<1> QED BY <1>6, <1>7, <1>8, <1>9, <1>10 DEF IInv

\* Only the labels' own variables matter to them.
LEMMA LabelsUnchanged ==
  ASSUME Labels, UNCHANGED <<question, labels>>
  PROVE  Labels'
BY DEF Labels, labels, Link, Starts

\* The walk starts at a node that was reached and has a label, if there is one.
LEMMA AnswerWalks ==
  ASSUME IInv, Answer, pc \notin {"walk", "done"}, UNCHANGED <<question, labels, path>>
  PROVE  at' \in Nodes \cup {NoNode} /\ pc' = "walk" /\ Walked'
<1>1. question.goal \in Nodes /\ reverse[question.goal] \in Nodes
  BY PathFindingAssumption DEF IInv, TypeOK
<1>2. path' = <<>> /\ pc' = "walk"
  BY DEF IInv, Walked, Answer
<1>3. \/ at' = NoNode
      \/ /\ at' \in {question.goal, reverse[question.goal]}
         /\ dist[at'] # Far
  BY <1>1 DEF Answer
<1>4. \/ at' = NoNode
      \/ /\ at' \in {question'.goal, reverse[question'.goal]}
         /\ dist'[at'] # Far
  BY <1>3 DEF labels
<1>5. Walked'
  BY <1>2, <1>4 DEF Walked, Reached
<1> QED BY <1>1, <1>2, <1>3, <1>5

LEMMA ExtractKeeps ==
  ASSUME IInv, Extract
  PROVE  IInv'
<1>1. /\ TypeOK /\ IndexHonest /\ Control /\ Labels /\ Walked /\ pc = "next"
      /\ UNCHANGED <<question, labels, seeds, i, path>>
  BY DEF IInv, Extract
<1>2. Labels'
  BY <1>1, LabelsUnchanged
<1>3. TRACK_MAX \in Nat \ {0} /\ size \in 0 .. TRACK_MAX
  BY <1>1, PathFindingAssumption DEF TypeOK
<1>4. CASE size > 0
  <2>1. ExtractMin
    BY <1>4 DEF Extract
  <2>2. /\ 0 \in Nodes /\ size - 1 \in Nodes /\ size' = size - 1
        /\ place[0] \in Nodes /\ place[size - 1] \in Nodes
    BY <1>1, <1>3, <1>4, <2>1 DEF Nodes, TypeOK, ExtractMin
  <2>3. TypeOK'
    BY <1>1, <1>3, <1>4, <2>1, <2>2 DEF TypeOK, ExtractMin, labels
  <2>4. ASSUME NEW n \in Nodes, index'[n] \in 0 .. size' - 1
        PROVE  place'[index'[n]] = n
    <3>1. n # place[0] /\ index'[n] = index[n]
      BY <1>1, <2>1, <2>2, <2>4 DEF ExtractMin, TypeOK
    <3>2. index[n] \in 0 .. size - 1 /\ place[index[n]] = n
      BY <1>1, <1>3, <2>2, <2>4, <3>1 DEF IndexHonest
    <3>3. index[n] # 0
      BY <3>1, <3>2
    <3> QED BY <1>1, <2>1, <3>1, <3>2, <3>3 DEF ExtractMin, TypeOK
  <2>5. IndexHonest'
    BY <2>4 DEF IndexHonest
  <2>6. Control'
    BY <1>1, <2>1, <2>2 DEF Control, ExtractMin, Starts
  <2>7. Walked'
    BY <1>1, <2>1, NoPathYet DEF ExtractMin
  <2> QED BY <1>2, <2>3, <2>5, <2>6, <2>7 DEF IInv
<1>5. CASE ~(size > 0)
  <2>1. Answer /\ UNCHANGED <<heap, np>>
    BY <1>5 DEF Extract
  <2>2. at' \in Nodes \cup {NoNode} /\ pc' = "walk" /\ Walked'
    BY <1>1, <2>1, AnswerWalks
  <2>3. TypeOK'
    BY <1>1, <2>1, <2>2 DEF TypeOK, heap, labels
  <2>4. IndexHonest'
    BY <1>1, <2>1 DEF IndexHonest, heap
  <2>5. Control'
    BY <1>1, <2>2 DEF Control, Starts
  <2> QED BY <1>2, <2>2, <2>3, <2>4, <2>5 DEF IInv
<1> QED BY <1>3, <1>4, <1>5

LEMMA BubbleDownKeeps ==
  ASSUME IInv, BubbleDown
  PROVE  IInv'
<1>1. /\ TypeOK /\ IndexHonest /\ Control /\ Labels /\ Walked /\ pc = "down"
      /\ UNCHANGED <<question, seeds, np, labels, path>>
  BY DEF IInv, BubbleDown
<1>2. Labels'
  BY <1>1, LabelsUnchanged
<1>3. at \in Nodes /\ np \in Nodes
  BY <1>1 DEF Control
<1>4. CASE Smallest(at) # at
  <2>1. Swap(Smallest(at), at) /\ at' = Smallest(at) /\ UNCHANGED <<pc, i>>
    BY <1>4 DEF BubbleDown
  <2>2. Smallest(at) \in 0 .. size - 1 /\ size \in 0 .. TRACK_MAX /\ TRACK_MAX \in Nat
    BY <1>1, <1>3, <1>4, SmallestInHeap, PathFindingAssumption DEF TypeOK
  <2>3. Smallest(at) \in Nodes
    BY <2>2 DEF Nodes
  <2>4. /\ place' \in [Nodes -> Nodes]
        /\ index' \in [Nodes -> -1 .. TRACK_MAX - 1]
        /\ size' = size /\ IndexHonest'
    BY <1>1, <1>3, <2>1, <2>3, SwapHonest
  <2>5. TypeOK'
    BY <1>1, <2>1, <2>3, <2>4 DEF TypeOK, labels
  <2>6. Control'
    BY <1>1, <1>3, <2>1, <2>3 DEF Control, Starts
  <2>7. Walked'
    BY <1>1, <2>1, NoPathYet
  <2> QED BY <1>2, <2>4, <2>5, <2>6, <2>7 DEF IInv
<1>5. CASE Smallest(at) = at /\ (Reached(np) \/ dist[np] = Far)
  <2>1. Answer /\ UNCHANGED i /\ UNCHANGED heap
    BY <1>5 DEF BubbleDown
  <2>2. at' \in Nodes \cup {NoNode} /\ pc' = "walk" /\ Walked'
    BY <1>1, <2>1, AnswerWalks
  <2>3. TypeOK'
    BY <1>1, <2>1, <2>2 DEF TypeOK, heap, labels
  <2>4. IndexHonest'
    BY <1>1, <2>1 DEF IndexHonest, heap
  <2>5. Control'
    BY <1>1, <2>2 DEF Control, Starts
  <2> QED BY <1>2, <2>2, <2>3, <2>4, <2>5 DEF IInv
<1>6. CASE Smallest(at) = at /\ ~(Reached(np) \/ dist[np] = Far)
  <2>1. pc' = "next" /\ i' = 0 /\ UNCHANGED at /\ UNCHANGED heap
    BY <1>6 DEF BubbleDown
  <2>2. TypeOK'
    BY <1>1, <2>1 DEF TypeOK, heap, labels
  <2>3. IndexHonest'
    BY <1>1, <2>1 DEF IndexHonest, heap
  <2>4. Control'
    BY <1>1, <1>6, <2>1 DEF Control, Starts, labels
  <2>5. Walked'
    BY <1>1, <2>1, NoPathYet
  <2> QED BY <1>2, <2>2, <2>3, <2>4, <2>5 DEF IInv
<1> QED BY <1>4, <1>5, <1>6

LEMMA BubbleUpKeeps ==
  ASSUME IInv, BubbleUp
  PROVE  IInv'
<1>1. /\ TypeOK /\ IndexHonest /\ Control /\ Labels /\ Walked /\ pc = "up"
      /\ UNCHANGED <<question, seeds, np, i, labels, path>>
  BY DEF IInv, BubbleUp, search
<1>2. Labels'
  BY <1>1, LabelsUnchanged
<1>3. at \in Nodes
  BY <1>1 DEF Control
<1>4. CASE at > 0 /\ Key(Parent(at)) > Key(at)
  <2>1. Swap(Parent(at), at) /\ at' = Parent(at) /\ UNCHANGED pc
    BY <1>4 DEF BubbleUp
  <2>2. Parent(at) \in Nodes
    <3>1. Parent(at) \in 0 .. at - 1 /\ TRACK_MAX \in Nat
      BY <1>3, <1>4, ParentBefore, PathFindingAssumption
    <3> QED BY <1>3, <3>1 DEF Nodes
  <2>3. /\ place' \in [Nodes -> Nodes]
        /\ index' \in [Nodes -> -1 .. TRACK_MAX - 1]
        /\ size' = size /\ IndexHonest'
    BY <1>1, <1>3, <2>1, <2>2, SwapHonest
  <2>4. TypeOK'
    BY <1>1, <2>1, <2>2, <2>3 DEF TypeOK, labels
  <2>5. Control'
    BY <1>1, <2>1, <2>2 DEF Control, Starts, labels
  <2>6. Walked'
    BY <1>1, <2>1, NoPathYet
  <2> QED BY <1>2, <2>3, <2>4, <2>5, <2>6 DEF IInv
<1>5. CASE ~(at > 0 /\ Key(Parent(at)) > Key(at))
  <2>1. pc' = "next" /\ UNCHANGED <<heap, at>>
    BY <1>5 DEF BubbleUp
  <2>2. TypeOK'
    BY <1>1, <2>1 DEF TypeOK, heap, labels
  <2>3. IndexHonest'
    BY <1>1, <2>1 DEF IndexHonest, heap
  <2>4. Control'
    BY <1>1, <2>1 DEF Control, Starts, labels
  <2>5. Walked'
    BY <1>1, <2>1, NoPathYet
  <2> QED BY <1>2, <2>2, <2>3, <2>4, <2>5 DEF IInv
<1> QED BY <1>4, <1>5

\* The edge that np considers next is an edge of the track, longer than nothing.
LEMMA NextEdge ==
  ASSUME TypeOK, EdgesLeft, np \in Nodes
  PROVE  edge[np][i + 1] \in [dest : Nodes, dist : Nat \ {0}]
<1> DEFINE E == [dest : Nodes, dist : Nat \ {0}]
<1>1. /\ edge[np] \in Seq(E)
      /\ i \in 0 .. 2 /\ i < Len(edge[np])
  BY PathFindingAssumption DEF EdgesLeft, TypeOK
<1>2. i + 1 \in 1 .. Len(edge[np])
  <2>1. Len(edge[np]) \in Nat
    BY <1>1
  <2> QED BY <1>1, <2>1
<1>3. \A s \in Seq(E) : \A k \in 1 .. Len(s) : s[k] \in E
  BY Elements
<1> HIDE DEF E
<1>4. edge[np][i + 1] \in E
  BY <1>1, <1>2, <1>3
<1> QED BY <1>4 DEF E

\* np is labelled, and so is every node that it improves.
LEMMA RelaxKeeps ==
  ASSUME IInv, Relax
  PROVE  IInv'
<1>1. /\ TypeOK /\ IndexHonest /\ Control /\ Labels /\ Walked /\ pc = "next"
      /\ EdgesLeft /\ i' = i + 1
      /\ UNCHANGED <<question, seeds, np, heap, path>>
  BY DEF IInv, Relax
<1>2. np \in Nodes /\ np # NoNode /\ dist[np] # Far /\ i \in 0 .. 2
  BY <1>1 DEF Control, EdgesLeft, TypeOK
<1>3. /\ edge[np] \in Seq([dest : Nodes, dist : Nat \ {0}])
      /\ i < Len(edge[np]) /\ Len(edge[np]) = NumEdge(np) /\ NumEdge(np) \in {0, 1, 2}
  BY <1>1, <1>2, PathFindingAssumption DEF EdgesLeft, NumEdge
<1>b. edge[np][i + 1] \in [dest : Nodes, dist : Nat \ {0}]
  BY <1>1, <1>2, NextEdge
<1>4. PICK id \in Nodes : id = edge[np][i + 1].dest
  BY <1>b
<1>c. dist[np] \in Nat
  BY <1>1, <1>2, PathFindingAssumption DEF TypeOK
<1>5. PICK alt_dist \in Nat : alt_dist = dist[np] + edge[np][i + 1].dist
  BY <1>b, <1>c
<1>6. i + 1 \in DOMAIN edge[np] /\ i \in {0, 1} /\ i' \in 0 .. 2
  BY <1>1, <1>2, <1>3
<1>7. IndexHonest' /\ Starts' = Starts
  BY <1>1 DEF IndexHonest, heap, Starts
<1>8. CASE ~AgainstSwitch /\ Improves(id, alt_dist)
  <2>1. /\ prev' = [prev EXCEPT ![id] = np]
        /\ prev_edge' = [prev_edge EXCEPT ![id] = i]
        /\ DecreaseKey(index[id], alt_dist)
    BY <1>4, <1>5, <1>8 DEF Relax
  <2>2. alt_dist < dist[id] /\ id \notin question.reserved
    BY <1>8 DEF Improves
  <2>3. alt_dist \in 0 .. Far - 1
    <3>1. dist[id] \in 0 .. Far /\ Far \in Nat
      BY <1>1, PathFindingAssumption DEF TypeOK
    <3> QED BY <2>2, <3>1
  <2>4. /\ dist' \in [Nodes -> 0 .. Far]
        /\ pc' \in {pc, "up", "wild"}
        /\ at' \in Nodes \cup {NoNode}
        /\ pc' = "up" /\ pc # "up" => at' \in Nodes
        /\ dist' = dist \/ (dist' = [dist EXCEPT ![id] = alt_dist])
        /\ \A m \in Nodes : dist[m] # Far => dist'[m] # Far
    BY <1>1, <2>1, <2>3, DecreaseKeyHits
  <2>5. TypeOK'
    BY <1>1, <1>2, <1>6, <2>1, <2>4 DEF TypeOK, heap
  <2>6. Control'
    <3>1. pc' \in {"next", "up", "wild"} /\ (pc' = "up" => at' \in Nodes)
      BY <1>1, <2>4
    <3>2. dist'[np'] # Far
      BY <1>1, <1>2, <2>4
    <3>3. \A k \in DOMAIN seeds' : seeds'[k] \in Starts'
      BY <1>1, <1>7 DEF Control
    <3> QED BY <3>1, <3>2, <3>3 DEF Control
  <2>7. ASSUME NEW n \in Nodes, prev'[n] # NoNode
        PROVE  Link(n)'
    <3>1. CASE n = id
      <4>1. prev'[n] = np /\ prev_edge'[n] = i
        BY <1>1, <2>1, <3>1 DEF TypeOK
      <4> QED BY <1>1, <1>2, <1>4, <1>6, <2>2, <2>4, <3>1, <4>1 DEF Link
    <3>2. CASE n # id
      <4>1. prev'[n] = prev[n] /\ prev_edge'[n] = prev_edge[n] /\ prev[n] \in Nodes
        BY <1>1, <2>1, <2>7, <3>2 DEF TypeOK
      <4>2. Link(n)
        BY <1>1, <2>7, <4>1 DEF Labels
      <4> QED BY <1>1, <2>4, <4>1, <4>2 DEF Link
    <3> QED BY <3>1, <3>2
  <2>8. ASSUME NEW n \in Nodes, prev'[n] = NoNode, dist'[n] # Far
        PROVE  n \in Starts'
    <3>1. n # id
      BY <1>1, <1>2, <2>1, <2>8 DEF TypeOK
    <3>2. prev[n] = NoNode /\ dist[n] # Far
      BY <1>1, <2>1, <2>4, <2>8, <3>1 DEF TypeOK
    <3> QED BY <1>1, <1>7, <3>2 DEF Labels
  <2>9. Labels'
    BY <2>7, <2>8 DEF Labels
  <2>10. Walked'
    BY <1>1, <2>4, NoPathYet
  <2> QED BY <1>7, <2>5, <2>6, <2>9, <2>10 DEF IInv
<1>9. CASE ~(~AgainstSwitch /\ Improves(id, alt_dist))
  <2>1. UNCHANGED <<labels, at, pc>>
    BY <1>4, <1>5, <1>9 DEF Relax
  <2>2. TypeOK'
    BY <1>1, <1>6, <2>1 DEF TypeOK, heap, labels
  <2>3. Control'
    BY <1>1, <2>1 DEF Control, labels, Starts
  <2>4. Labels'
    BY <1>1, <2>1, LabelsUnchanged
  <2>5. Walked'
    BY <1>1, <2>1, NoPathYet
  <2> QED BY <1>7, <2>2, <2>3, <2>4, <2>5 DEF IInv
<1> QED BY <1>8, <1>9

\* The path names nodes.
LEMMA PathNodes ==
  ASSUME TypeOK
  PROVE  \A k \in 1 .. Len(path) : path[k].node \in Nodes
<1> DEFINE E == [node : Nodes, edge : {-1, 0, 1}]
<1>1. \A s \in Seq(E) : \A k \in 1 .. Len(s) : s[k] \in E
  BY Elements
<1>2. \A x \in E : x.node \in Nodes
  OBVIOUS
<1> HIDE DEF E
<1>3. path \in Seq(E)
  BY DEF TypeOK, E
<1> QED BY <1>1, <1>2, <1>3

\* Every step of the walk goes to the node before.
LEMMA WalkKeeps ==
  ASSUME IInv, Walk
  PROVE  IInv'
<1>1. /\ TypeOK /\ IndexHonest /\ Control /\ Labels /\ Walked /\ pc = "walk"
      /\ UNCHANGED <<heap, labels, search>>
  BY DEF IInv, Walk
<1>2. IndexHonest'
  BY <1>1 DEF IndexHonest, heap
<1>3. Labels'
  BY <1>1, LabelsUnchanged DEF search
<1>4. CASE at # NoNode
  <2>1. /\ path' = Append(path, [node |-> at, edge |-> prev_edge[at]])
        /\ at' = prev[at] /\ UNCHANGED pc
    BY <1>4 DEF Walk
  <2>2. /\ at \in Nodes /\ prev_edge[at] \in {-1, 0, 1} /\ prev[at] \in Nodes \cup {NoNode}
        /\ path \in Seq([node : Nodes, edge : {-1, 0, 1}]) /\ dist[at] # Far
    BY <1>1, <1>4 DEF TypeOK, Walked
  <2>3. TypeOK'
    BY <1>1, <2>1, <2>2 DEF TypeOK, heap, labels, search
  <2>4. Control'
    BY <1>1, <2>1 DEF Control, Starts, search
  <2>5. at' # NoNode => dist'[at'] # Far
    BY <1>1, <2>1, <2>2 DEF Labels, Link, labels
  <2>6. /\ Len(path') = Len(path) + 1
        /\ path'[Len(path')] = [node |-> at, edge |-> prev_edge[at]]
        /\ \A k \in 1 .. Len(path) : path'[k] = path[k]
    BY <2>1, <2>2
  <2>7. Reached(path[1].node)'
    <3>1. CASE path = <<>>
      BY <1>1, <1>4, <2>2, <2>6, <3>1 DEF Walked, Reached, search
    <3>2. CASE path # <<>>
      <4>1. 1 \in 1 .. Len(path)
        BY <2>2, <3>2
      <4> QED BY <1>1, <2>6, <3>2, <4>1 DEF Walked, Reached, search
    <3> QED BY <3>1, <3>2
  <2>8. \A k \in 1 .. Len(path') : path'[k].edge = prev_edge'[path'[k].node]
    BY <1>1, <2>2, <2>6 DEF Walked, labels
  <2>9. \A k \in 1 .. Len(path') - 1 : prev'[path'[k].node] = path'[k + 1].node
    <3> SUFFICES ASSUME NEW k \in 1 .. Len(path)
                 PROVE  prev'[path'[k].node] = path'[k + 1].node
      BY <2>2, <2>6
    <3>1. CASE k = Len(path)
      <4>1. path # <<>>
        BY <2>2, <3>1
      <4> QED BY <1>1, <2>6, <3>1, <4>1 DEF Walked, labels
    <3>2. CASE k # Len(path)
      <4>1. k \in 1 .. Len(path) - 1 /\ k + 1 \in 1 .. Len(path)
        BY <2>2, <3>2
      <4> QED BY <1>1, <2>6, <4>1 DEF Walked, labels
    <3> QED BY <3>1, <3>2
  <2>10. Walked'
    <3>1. path' # <<>>
      BY <2>2, <2>6
    <3>2. at' = prev'[path'[Len(path')].node] /\ dist'[path'[Len(path')].node] # Far
      BY <1>1, <2>1, <2>2, <2>6 DEF labels
    <3>3. pc' = "walk"
      BY <1>1, <2>1
    <3> QED BY <2>5, <2>7, <2>8, <2>9, <3>1, <3>2, <3>3 DEF Walked
  <2> QED BY <1>2, <1>3, <2>3, <2>4, <2>10 DEF IInv
<1>5. CASE at = NoNode
  <2>1. pc' = "done" /\ UNCHANGED <<at, path>>
    BY <1>5 DEF Walk
  <2>2. TypeOK'
    BY <1>1, <2>1 DEF TypeOK, heap, labels, search
  <2>3. Control'
    BY <1>1, <2>1 DEF Control, Starts, search
  <2>4. Walked'
    BY <1>1, <1>5, <2>1 DEF Walked, Reached, labels, search
  <2> QED BY <1>2, <1>3, <2>2, <2>3, <2>4 DEF IInv
<1> QED BY <1>4, <1>5

LEMMA NextIInv == IInv /\ [Next]_vars => IInv'
<1> SUFFICES ASSUME IInv, [Next]_vars PROVE IInv'
  OBVIOUS
<1>1. CASE Next
  BY <1>1, SeedKeeps, ExtractKeeps, BubbleDownKeeps, BubbleUpKeeps, RelaxKeeps, WalkKeeps
  DEF Next
<1>2. CASE UNCHANGED vars
  <2>1. UNCHANGED <<question, place, size, index, dist, prev, prev_edge, seeds, np, i, at, pc, path>>
    BY <1>2 DEF vars
  <2>2. TypeOK' /\ IndexHonest'
    BY <2>1 DEF IInv, TypeOK, IndexHonest
  <2>3. Control' /\ Labels'
    BY <2>1 DEF IInv, Control, Labels, Link, Starts
  <2>4. Walked'
    BY <2>1 DEF IInv, Walked, Reached
  <2> QED BY <2>2, <2>3, <2>4 DEF IInv
<1> QED BY <1>1, <1>2
-----------------------------------------------------------------------------
(***************************************************************************)
(* The order of the heap.                                                  *)
(***************************************************************************)
\* A set of places that is not empty has a first one.
LEMMA FirstPlace ==
  ASSUME NEW B \in SUBSET Nat, B # {}
  PROVE  \E p \in B : \A q \in B : p <= q
<1>1. PICK p \in B : \A q \in B : ~(<<q, p>> \in OpToRel(<, Nat))
  BY WFMin, NatLessThanWellFounded
<1>2. \A q \in B : ~(q < p)
  BY <1>1 DEF OpToRel
<1>3. \A q \in B : q \in Nat
  OBVIOUS
<1> QED BY <1>2, <1>3

\* The two children of a place, and no other, have it as parent.
LEMMA ParentOf ==
  ASSUME NEW p \in Nat \ {0}, NEW a \in Nat
  PROVE  /\ Parent(p) \in 0 .. p - 1
         /\ Parent(p) = a <=> p = 2 * a + 1 \/ p = 2 * a + 2
<1>1. Parent(p) = (p - 1) \div 2
  BY DEF Parent
<1>2. (p - 1) \div 2 \in 0 .. p - 1
  BY SMT
<1>3. (p - 1) \div 2 = a <=> p = 2 * a + 1 \/ p = 2 * a + 2
  BY SMT
<1> QED BY <1>1, <1>2, <1>3

\* The places of the heap are places of the array and have a node with a distance.
LEMMA HeapPlaces ==
  ASSUME TypeOK
  PROVE  /\ TRACK_MAX \in Nat /\ Far \in Nat /\ size \in 0 .. TRACK_MAX
         /\ \A p \in InHeap : p \in Nat /\ p \in Nodes /\ p < size
         /\ \A p \in Nodes : place[p] \in Nodes /\ Key(p) \in 0 .. Far
         /\ \A p \in InHeap : place[p] \in Nodes /\ Key(p) \in 0 .. Far
         /\ \A p \in InHeap \ {0} : Parent(p) \in InHeap /\ Parent(p) # p
<1>1. TRACK_MAX \in Nat /\ Far \in Nat /\ size \in 0 .. TRACK_MAX
  BY PathFindingAssumption DEF TypeOK
<1>2. \A p \in InHeap : p \in Nat /\ p \in Nodes /\ p < size
  BY <1>1 DEF InHeap, Nodes
<1>3. \A p \in Nodes : place[p] \in Nodes /\ Key(p) \in 0 .. Far
  BY <1>1 DEF TypeOK, Key
<1>4. ASSUME NEW p \in InHeap \ {0} PROVE Parent(p) \in InHeap /\ Parent(p) # p
  <2>1. p \in Nat \ {0} /\ p < size
    BY <1>2
  <2>2. Parent(p) \in 0 .. p - 1
    BY <2>1, ParentOf
  <2> QED BY <1>1, <2>1, <2>2 DEF InHeap
<1> QED BY <1>1, <1>2, <1>3, <1>4

\* When nothing bubbles the root is one of the closest.
LEMMA RootFirst ==
  ASSUME TypeOK, Heaped, pc = "next", NEW q \in InHeap
  PROVE  Key(0) <= Key(q)
<1> DEFINE Closer == {p \in InHeap : Key(p) < Key(0)}
<1>1. /\ \A p \in InHeap : p \in Nat /\ Key(p) \in Nat
      /\ \A p \in InHeap \ {0} : Parent(p) \in InHeap
  BY HeapPlaces
<1>2. 0 \in InHeap
  BY <1>1, HeapPlaces DEF InHeap
<1>3. CASE Closer = {}
  BY <1>1, <1>2, <1>3
<1>4. CASE Closer # {}
  <2>1. PICK p \in Closer : \A r \in Closer : p <= r
    BY <1>1, <1>4, FirstPlace
  <2>2. p \in InHeap \ {0} /\ p \in Nat \ {0}
    BY <1>1, <2>1
  <2>3. Parent(p) \in InHeap /\ Parent(p) \in 0 .. p - 1
    BY <1>1, <2>2, ParentOf
  <2>4. Key(Parent(p)) <= Key(p)
    BY <2>2 DEF Heaped
  <2>5. Parent(p) \in Closer
    BY <1>1, <1>2, <2>1, <2>3, <2>4
  <2> QED BY <2>1, <2>2, <2>3, <2>5
<1> QED BY <1>3, <1>4

\* Swapping two places of the heap swaps their keys and nothing else.
LEMMA SwapPlaces ==
  ASSUME TypeOK, Placed, NEW p \in InHeap, NEW q \in InHeap, Swap(p, q), dist' = dist
  PROVE  /\ InHeap' = InHeap
         /\ \A r \in InHeap : Key(r)' = IF r = p THEN Key(q) ELSE IF r = q THEN Key(p) ELSE Key(r)
         /\ \A r, u \in InHeap : place'[r] = place'[u] => r = u
         /\ \A n \in Nodes : index'[n] = -1 => \A r \in InHeap : place'[r] # n
         /\ \A n \in Nodes : index'[n] = -1 <=> index[n] = -1
<1>1. /\ \A r \in InHeap : r \in Nodes /\ r \in Nat
      /\ \A r \in Nodes : place[r] \in Nodes
  BY HeapPlaces
<1>2. InHeap' = InHeap
  BY DEF InHeap, Swap
<1>3. \A r \in Nodes : place'[r] = IF r = q THEN place[p] ELSE IF r = p THEN place[q] ELSE place[r]
  BY <1>1 DEF Swap, TypeOK
<1>4. \A r \in InHeap : place'[r] = IF r = p THEN place[q] ELSE IF r = q THEN place[p] ELSE place[r]
  BY <1>1, <1>3
<1>5. \A r, u \in InHeap : place'[r] = place'[u] => r = u
  BY <1>1, <1>4 DEF Placed
<1>6. \A n \in Nodes : index'[n] = IF n = place[p] THEN q ELSE IF n = place[q] THEN p ELSE index[n]
  BY <1>1 DEF Swap, TypeOK
<1>7. \A n \in Nodes : index'[n] = -1 <=> index[n] = -1
  BY <1>1, <1>6 DEF Placed
<1>8. \A n \in Nodes : index'[n] = -1 => \A r \in InHeap : place'[r] # n
  BY <1>4, <1>7 DEF Placed
<1>9. \A r \in InHeap : Key(r)' = IF r = p THEN Key(q) ELSE IF r = q THEN Key(p) ELSE Key(r)
  BY <1>4 DEF Key
<1> QED BY <1>2, <1>5, <1>7, <1>8, <1>9

\* Where nothing is extracted or labelled, only the places matter.
LEMMA RoundsStay ==
  ASSUME TypeOK, Rounds, UNCHANGED <<seeds, np, dist, size>>,
         pc' # "wild", seeds # <<>> => pc' \in {"next", "up"},
         \A n \in Nodes : index'[n] = -1 <=> index[n] = -1,
         np # NoNode => \A p \in InHeap : dist[np] <= Key(p)'
  PROVE  Rounds'
<1>1. InHeap' = InHeap
  BY DEF InHeap
<1>2. np # NoNode => np \in Nodes
  BY DEF TypeOK
<1>3. seeds' # <<>> => np' = NoNode /\ pc' \in {"next", "up"}
  BY DEF Rounds
<1>4. np' # NoNode => index'[np'] = -1 /\ \A p \in InHeap' : dist'[np'] <= Key(p)'
  BY <1>1, <1>2 DEF Rounds
<1>5. \A n \in Nodes : index'[n] = -1 => np' # NoNode /\ dist'[n] <= dist'[np']
  BY DEF Rounds
<1> QED BY <1>3, <1>4, <1>5 DEF Rounds

LEMMA DescendsStay ==
  ASSUME TypeOK, Descends, UNCHANGED <<prev, dist, path>>,
         \A n \in Nodes : index'[n] = -1 <=> index[n] = -1
  PROVE  Descends'
<1>1. \A n \in Nodes : prev[n] # NoNode => prev[n] \in Nodes
  BY DEF TypeOK
<1> QED BY <1>1 DEF Descends

\* The place to which a node bubbles down: the closer child, if it is closer.
LEMMA SmallestChild ==
  ASSUME TypeOK, NEW a \in Nodes
  PROVE  /\ \/ Smallest(a) = a
            \/ /\ Smallest(a) \in InHeap /\ Smallest(a) \in {2 * a + 1, 2 * a + 2}
               /\ Key(Smallest(a)) < Key(a)
         /\ \A c \in InHeap \cap {2 * a + 1, 2 * a + 2} : Key(Smallest(a)) <= Key(c)
<1> DEFINE l == 2 * a + 1
           r == 2 * a + 2
           s == Smaller(a, l)
<1>1. /\ a \in Nat /\ size \in Nat /\ Key(a) \in Nat
      /\ \A c \in InHeap : Key(c) \in Nat /\ c \in Nat
      /\ \A c \in Nat : c < size <=> c \in InHeap
  BY HeapPlaces DEF Nodes, InHeap
<1>2. l \in Nat /\ r \in Nat
  BY <1>1
<1>3. /\ s = a \/ (s = l /\ l \in InHeap /\ Key(l) < Key(a))
      /\ l \in InHeap => Key(s) <= Key(l)
      /\ Key(s) <= Key(a) /\ Key(s) \in Nat
  BY <1>1, <1>2 DEF Smaller
<1>4. /\ Smallest(a) = s \/ (Smallest(a) = r /\ r \in InHeap /\ Key(r) < Key(s))
      /\ r \in InHeap => Key(Smallest(a)) <= Key(r)
      /\ Key(Smallest(a)) <= Key(s) /\ Key(Smallest(a)) \in Nat
  BY <1>1, <1>2, <1>3 DEF Smaller, Smallest
<1> HIDE DEF s
<1> QED BY <1>1, <1>2, <1>3, <1>4

LEMMA BubbleUpSorted ==
  ASSUME TypeOK, Sorted, BubbleUp
  PROVE  Sorted'
<1>1. /\ Placed /\ Heaped /\ Rounds /\ Descends /\ pc = "up" /\ at \in InHeap
      /\ UNCHANGED <<dist, prev, seeds, np, path>>
  BY DEF Sorted, Placed, BubbleUp, labels, search
<1>2. /\ \A p \in InHeap : p \in Nat /\ Key(p) \in Nat
      /\ \A p \in InHeap \ {0} : Parent(p) \in InHeap /\ Parent(p) \in 0 .. p - 1
      /\ size \in Nat
  <2>1. \A p \in InHeap \ {0} : p \in Nat \ {0}
    BY HeapPlaces
  <2> QED BY <2>1, HeapPlaces, ParentOf
<1>3. CASE at > 0 /\ Key(Parent(at)) > Key(at)
  <2>1. Swap(Parent(at), at) /\ at' = Parent(at) /\ pc' = "up"
    BY <1>1, <1>3 DEF BubbleUp
  <2>2. PICK a, u : a = at /\ u = Parent(at)
    OBVIOUS
  <2>3. a \in InHeap \ {0} /\ u \in InHeap /\ u < a
    BY <1>1, <1>2, <1>3, <2>2
  <2>4. /\ InHeap' = InHeap
        /\ \A r \in InHeap : Key(r)' = IF r = u THEN Key(a) ELSE IF r = a THEN Key(u) ELSE Key(r)
        /\ \A r, v \in InHeap : place'[r] = place'[v] => r = v
        /\ \A n \in Nodes : index'[n] = -1 => \A r \in InHeap : place'[r] # n
        /\ \A n \in Nodes : index'[n] = -1 <=> index[n] = -1
    BY <1>1, <2>1, <2>2, <2>3, SwapPlaces
  <2>5. Placed'
    BY <1>1, <2>1, <2>2, <2>3, <2>4 DEF Placed
  <2>6. /\ Key(a) < Key(u)
        /\ \A p \in InHeap \ {0} : p # a => Key(Parent(p)) <= Key(p)
        /\ \A p \in InHeap \ {0} : Parent(p) = a => Key(u) <= Key(p)
    BY <1>1, <1>2, <1>3, <2>2, <2>3 DEF Heaped
  <2>7. ASSUME NEW p \in InHeap \ {0}, p # u PROVE Key(Parent(p))' <= Key(p)'
    <3>1. Key(Parent(p))' = IF Parent(p) = u THEN Key(a) ELSE IF Parent(p) = a THEN Key(u)
                            ELSE Key(Parent(p))
      BY <1>2, <2>4
    <3>2. Key(p)' = IF p = a THEN Key(u) ELSE Key(p)
      BY <2>4, <2>7
    <3> QED BY <1>2, <2>2, <2>3, <2>6, <3>1, <3>2
  <2>8. ASSUME NEW p \in InHeap \ {0}, Parent(p) = u, u > 0 PROVE Key(Parent(u))' <= Key(p)'
    <3>1. Key(Parent(u))' = Key(Parent(u)) /\ Key(Parent(u)) <= Key(u)
      BY <1>2, <2>3, <2>4, <2>6, <2>8
    <3>2. Key(p)' = IF p = a THEN Key(u) ELSE Key(p)
      BY <1>2, <2>4, <2>8
    <3>3. p # a => Key(u) <= Key(p)
      BY <2>6, <2>8
    <3>4. Key(Parent(u)) \in Nat /\ Key(u) \in Nat /\ Key(p) \in Nat
      BY <1>2, <2>3, <2>8
    <3> QED BY <3>1, <3>2, <3>3, <3>4
  <2>9. Heaped'
    BY <2>1, <2>2, <2>4, <2>7, <2>8 DEF Heaped, Parent
  <2>10. np # NoNode => \A p \in InHeap : dist[np] <= Key(p)'
    BY <1>1, <2>3, <2>4 DEF Rounds
  <2>11. Rounds'
    BY <1>1, <2>1, <2>4, <2>10, RoundsStay DEF Swap
  <2>12. Descends'
    BY <1>1, <2>4, DescendsStay
  <2> QED BY <2>5, <2>9, <2>11, <2>12 DEF Sorted
<1>4. CASE ~(at > 0 /\ Key(Parent(at)) > Key(at))
  <2>1. pc' = "next" /\ UNCHANGED <<place, size, index, at>>
    BY <1>4 DEF BubbleUp, heap
  <2>2. InHeap' = InHeap /\ \A p : Key(p)' = Key(p)
    BY <1>1, <2>1 DEF InHeap, Key
  <2>3. Placed'
    BY <1>1, <2>1, <2>2 DEF Placed
  <2>4. at \in InHeap \ {0} => Key(Parent(at)) <= Key(at)
    BY <1>1, <1>2, <1>4
  <2>5. Heaped'
    BY <1>1, <2>1, <2>2, <2>4 DEF Heaped, Parent
  <2>6. Rounds'
    BY <1>1, <2>1, <2>2, RoundsStay DEF Rounds
  <2>7. Descends'
    BY <1>1, <2>1, DescendsStay
  <2> QED BY <2>3, <2>5, <2>6, <2>7 DEF Sorted
<1> QED BY <1>3, <1>4

LEMMA BubbleDownSorted ==
  ASSUME TypeOK, Sorted, BubbleDown, at \in Nodes
  PROVE  Sorted'
<1>1. /\ Placed /\ Heaped /\ Rounds /\ Descends /\ pc = "down"
      /\ UNCHANGED <<dist, prev, seeds, np, path>>
  BY DEF Sorted, BubbleDown, labels
<1>2. /\ \A p \in InHeap : p \in Nat /\ Key(p) \in Nat
      /\ \A p \in InHeap \ {0} : Parent(p) \in InHeap /\ Parent(p) \in 0 .. p - 1
      /\ size \in Nat /\ at \in Nat
  <2>1. \A p \in InHeap \ {0} : p \in Nat \ {0}
    BY HeapPlaces
  <2> QED BY <2>1, HeapPlaces, ParentOf DEF Nodes
<1>3. seeds = <<>>
  BY <1>1 DEF Rounds
<1>4. CASE Smallest(at) # at
  <2>1. Swap(Smallest(at), at) /\ at' = Smallest(at) /\ pc' = "down"
    BY <1>1, <1>4 DEF BubbleDown
  <2>2. PICK a, s : a = at /\ s = Smallest(at)
    OBVIOUS
  <2>3. /\ a \in Nat /\ s \in InHeap /\ s \in {2 * a + 1, 2 * a + 2} /\ Key(s) < Key(a)
        /\ \A c \in InHeap \cap {2 * a + 1, 2 * a + 2} : Key(s) <= Key(c)
    BY <1>2, <1>4, <2>2, SmallestChild
  <2>4. a \in InHeap /\ a < s /\ s # 0
    BY <1>2, <2>3 DEF InHeap
  <2>5. /\ Parent(s) = a
        /\ \A p \in InHeap \ {0} : Parent(p) = a => p \in {2 * a + 1, 2 * a + 2}
    <3>1. s \in Nat \ {0} /\ \A p \in InHeap \ {0} : p \in Nat \ {0}
      BY <1>2, <2>3
    <3> QED BY <2>3, <3>1, ParentOf
  <2>6. /\ InHeap' = InHeap
        /\ \A r \in InHeap : Key(r)' = IF r = s THEN Key(a) ELSE IF r = a THEN Key(s) ELSE Key(r)
        /\ \A r, v \in InHeap : place'[r] = place'[v] => r = v
        /\ \A n \in Nodes : index'[n] = -1 => \A r \in InHeap : place'[r] # n
        /\ \A n \in Nodes : index'[n] = -1 <=> index[n] = -1
    BY <1>1, <2>1, <2>2, <2>3, <2>4, SwapPlaces
  <2>7. Placed'
    BY <2>1, <2>2, <2>3, <2>6 DEF Placed
  <2>8. /\ \A p \in InHeap \ {0} : Parent(p) # a => Key(Parent(p)) <= Key(p)
        /\ \A p \in InHeap \ {0} : Parent(p) = a => Key(s) <= Key(p)
        /\ a > 0 => Key(Parent(a)) <= Key(s)
    BY <1>1, <2>2, <2>3, <2>4, <2>5 DEF Heaped
  <2>9. ASSUME NEW p \in InHeap \ {0}, Parent(p) # s PROVE Key(Parent(p))' <= Key(p)'
    <3>1. Key(Parent(p))' = IF Parent(p) = a THEN Key(s) ELSE Key(Parent(p))
      BY <1>2, <2>6, <2>9
    <3>2. Key(p)' = IF p = s THEN Key(a) ELSE IF p = a THEN Key(s) ELSE Key(p)
      BY <2>6
    <3>3. Key(Parent(p)) \in Nat /\ Key(p) \in Nat /\ Key(s) \in Nat /\ Key(a) \in Nat
      BY <1>2, <2>3, <2>4
    <3>4. p = a => Parent(p) # a /\ Key(Parent(p)) <= Key(s)
      BY <1>2, <2>4, <2>8
    <3>5. p = s => Parent(p) = a
      BY <2>5
    <3> QED BY <2>3, <2>8, <3>1, <3>2, <3>3, <3>4, <3>5
  <2>10. ASSUME NEW p \in InHeap \ {0}, Parent(p) = s PROVE Key(Parent(s))' <= Key(p)'
    <3>1. Key(Parent(s))' = Key(s)
      BY <2>4, <2>5, <2>6
    <3>2. p # s /\ p # a /\ Key(p)' = Key(p)
      BY <1>2, <2>4, <2>6, <2>10
    <3>3. Key(s) <= Key(p)
      BY <2>4, <2>8, <2>10
    <3> QED BY <3>1, <3>2, <3>3
  <2>11. Heaped'
    BY <2>1, <2>2, <2>6, <2>9, <2>10 DEF Heaped, Parent
  <2>12. np # NoNode => \A p \in InHeap : dist[np] <= Key(p)'
    BY <1>1, <2>3, <2>4, <2>6 DEF Rounds
  <2>13. Rounds'
    BY <1>1, <1>3, <2>1, <2>6, <2>12, RoundsStay DEF Swap
  <2>14. Descends'
    BY <1>1, <2>6, DescendsStay
  <2> QED BY <2>7, <2>11, <2>13, <2>14 DEF Sorted
<1>5. CASE Smallest(at) = at
  <2>1. pc' \in {"next", "walk"} /\ UNCHANGED <<place, size, index>>
    BY <1>5 DEF BubbleDown, heap, Answer
  <2>2. InHeap' = InHeap /\ \A p : Key(p)' = Key(p)
    BY <1>1, <2>1 DEF InHeap, Key
  <2>3. Placed'
    BY <1>1, <2>1, <2>2 DEF Placed
  <2>4. \A p \in InHeap \ {0} : Parent(p) = at => Key(at) <= Key(p)
    <3>1. \A p \in InHeap \ {0} : p \in Nat \ {0}
      BY <1>2
    <3>2. \A p \in InHeap \ {0} : Parent(p) = at => p \in {2 * at + 1, 2 * at + 2}
      BY <1>2, <3>1, ParentOf
    <3> QED BY <1>5, <3>2, SmallestChild
  <2>5. Heaped'
    BY <1>1, <2>1, <2>2, <2>4 DEF Heaped, Parent
  <2>6. Rounds'
    BY <1>1, <1>3, <2>1, <2>2, RoundsStay DEF Rounds
  <2>7. Descends'
    BY <1>1, <2>1, DescendsStay
  <2> QED BY <2>3, <2>5, <2>6, <2>7 DEF Sorted
<1> QED BY <1>4, <1>5

LEMMA ExtractSorted ==
  ASSUME TypeOK, Sorted, Extract
  PROVE  Sorted' /\ (np' # np => \A p \in InHeap : dist[np'] <= Key(p))
<1>1. /\ Placed /\ Heaped /\ Rounds /\ Descends /\ pc = "next" /\ seeds = <<>>
      /\ UNCHANGED <<dist, prev, seeds, path>>
  BY DEF Sorted, Extract, labels
<1>2. CASE size > 0
  <2>1. /\ np' = place[0] /\ index' = [index EXCEPT ![place[0]] = -1] /\ size' = size - 1
        /\ place' = [place EXCEPT ![0] = place[size - 1]] /\ at' = 0 /\ pc' = "down"
    BY <1>2 DEF Extract, ExtractMin
  <2>2. /\ 0 \in InHeap /\ size - 1 \in InHeap /\ InHeap' = InHeap \ {size - 1}
        /\ \A p \in InHeap : p \in Nodes /\ p \in Nat /\ place[p] \in Nodes /\ Key(p) \in Nat
        /\ \A p \in InHeap \ {0} : Parent(p) \in InHeap
    <3>1. size \in Nat /\ 0 \in InHeap /\ size - 1 \in InHeap
      BY <1>2, HeapPlaces DEF InHeap
    <3>2. InHeap' = InHeap \ {size - 1}
      BY <2>1, <3>1 DEF InHeap
    <3> QED BY <3>1, <3>2, HeapPlaces
  <2>3. /\ \A p \in InHeap : place'[p] = IF p = 0 THEN place[size - 1] ELSE place[p]
        /\ \A n \in Nodes : index'[n] = IF n = place[0] THEN -1 ELSE index[n]
    BY <2>1, <2>2 DEF TypeOK
  <2>4. \A p \in InHeap : Key(p)' = IF p = 0 THEN Key(size - 1) ELSE Key(p)
    BY <1>1, <2>3 DEF Key
  <2>5. \A p \in InHeap : Key(0) <= Key(p)
    BY <1>1, RootFirst
  <2>6. Placed'
    <3>1. ASSUME NEW p \in InHeap', NEW q \in InHeap', place'[p] = place'[q] PROVE p = q
      BY <1>1, <2>2, <2>3, <3>1 DEF Placed
    <3>2. ASSUME NEW n \in Nodes, index'[n] = -1, NEW p \in InHeap' PROVE place'[p] # n
      <4>1. CASE n = place[0]
        BY <1>1, <2>2, <2>3, <4>1 DEF Placed
      <4>2. CASE n # place[0]
        BY <1>1, <2>2, <2>3, <3>2, <4>2 DEF Placed
      <4> QED BY <4>1, <4>2
    <3> QED BY <2>1, <3>1, <3>2 DEF Placed
  <2>7. Heaped'
    <3> SUFFICES ASSUME NEW p \in InHeap' \ {0}, Parent(p) # 0
                 PROVE  Key(Parent(p))' <= Key(p)'
      BY <2>1 DEF Heaped, Parent
    <3>1. Key(Parent(p)) <= Key(p)
      BY <1>1, <2>2 DEF Heaped
    <3> QED BY <2>2, <2>4, <3>1
  <2>8. Rounds'
    <3>1. np' \in Nodes /\ np' # NoNode /\ dist[np'] = Key(0)
      BY <2>1, <2>2, PathFindingAssumption DEF Nodes, NoNode, Key
    <3>2. index'[np'] = -1
      BY <2>1, <2>3, <3>1
    <3>3. \A p \in InHeap' : dist'[np'] <= Key(p)'
      BY <1>1, <2>2, <2>4, <2>5, <3>1
    <3>4. ASSUME NEW n \in Nodes, index'[n] = -1 PROVE dist'[n] <= dist'[np']
      <4>1. CASE n = place[0]
        <5>1. dist[n] \in Nat
          BY <2>2, <4>1 DEF Key
        <5> QED BY <1>1, <2>1, <4>1, <5>1
      <4>2. CASE n # place[0]
        <5>1. np # NoNode /\ dist[n] <= dist[np] /\ dist[np] <= Key(0)
          BY <1>1, <2>2, <2>3, <3>4, <4>2 DEF Rounds
        <5>2. dist[n] \in Int /\ dist[np] \in Int
          BY <5>1, PathFindingAssumption DEF TypeOK
        <5> QED BY <1>1, <2>2, <3>1, <5>1, <5>2
      <4> QED BY <4>1, <4>2
    <3> QED BY <1>1, <2>1, <3>1, <3>2, <3>3, <3>4 DEF Rounds
  <2>9. Descends'
    <3>1. \A n \in Nodes : prev[n] # NoNode => prev[n] \in Nodes
      BY DEF TypeOK
    <3> QED BY <1>1, <2>3, <3>1 DEF Descends
  <2>10. \A p \in InHeap : dist[np'] <= Key(p)
    BY <2>1, <2>5 DEF Key
  <2> QED BY <2>6, <2>7, <2>8, <2>9, <2>10 DEF Sorted
<1>3. CASE ~(size > 0)
  <2>1. pc' = "walk" /\ UNCHANGED <<place, size, index, np>>
    BY <1>3 DEF Extract, Answer, heap
  <2>2. InHeap' = InHeap /\ \A p : Key(p)' = Key(p)
    BY <1>1, <2>1 DEF InHeap, Key
  <2>3. Placed' /\ Heaped'
    BY <1>1, <2>1, <2>2 DEF Placed, Heaped
  <2>4. Rounds'
    BY <1>1, <2>1, <2>2, RoundsStay DEF Rounds
  <2>5. Descends'
    BY <1>1, <2>1, DescendsStay
  <2> QED BY <2>1, <2>3, <2>4, <2>5 DEF Sorted
<1> QED BY <1>2, <1>3

LEMMA InitSorted == Init => Sorted
<1> SUFFICES ASSUME Init PROVE Sorted
  OBVIOUS
<1>1. TRACK_MAX \in Nat /\ Far \in Nat
  BY PathFindingAssumption
<1>2. InHeap = Nodes /\ \A n \in Nodes : n \in Nat
  BY <1>1 DEF Init, InHeap, Nodes
<1>3. Placed
  BY <1>2 DEF Init, Placed
<1>4. Heaped
  <2>1. \A p \in InHeap \ {0} : Parent(p) \in Nodes
    <3>1. TypeOK
      BY InitIInv DEF IInv
    <3> QED BY <1>2, <3>1, HeapPlaces
  <2> QED BY <1>1, <1>2, <2>1 DEF Init, Heaped, Key
<1>5. Rounds
  BY <1>2 DEF Init, Rounds
<1>6. Descends
  BY DEF Init, Descends
<1> QED BY <1>3, <1>4, <1>5, <1>6 DEF Sorted

\* Where nothing of the heap, the labels and the control changes.
LEMMA SortedStays ==
  ASSUME Sorted, UNCHANGED <<place, size, index, dist, prev, seeds, np, at, pc, path>>
  PROVE  Sorted'
<1>1. InHeap' = InHeap /\ \A p : Key(p)' = Key(p)
  BY DEF InHeap, Key
<1>2. Placed'
  BY <1>1 DEF Sorted, Placed
<1>3. Heaped'
  BY <1>1 DEF Sorted, Heaped, Parent
<1>4. Rounds'
  BY <1>1 DEF Sorted, Rounds
<1>5. Descends'
  BY DEF Sorted, Descends
<1> QED BY <1>2, <1>3, <1>4, <1>5 DEF Sorted

\* A node whose key is decreased bubbles up from its own place, unless it was
\* extracted; the guard of min_heap_decrease_key is enough as long as its index
\* is not -1.
LEMMA DecreaseKeyHeaped ==
  ASSUME TypeOK, IndexHonest, Placed, Heaped, pc = "next", UNCHANGED <<place, size, index>>,
         NEW n \in Nodes, NEW val \in 0 .. Far, val <= dist[n], index[n] # -1,
         DecreaseKey(index[n], val)
  PROVE  /\ pc' \in {"next", "up"} /\ InHeap' = InHeap
         /\ dist' = dist \/ dist' = [dist EXCEPT ![n] = val]
         /\ \A p \in InHeap : Key(p)' \in {Key(p), val}
         /\ Placed' /\ Heaped'
<1>1. /\ \A p \in InHeap : p \in Nat /\ p \in Nodes /\ place[p] \in Nodes /\ Key(p) \in Nat
      /\ \A p \in InHeap \ {0} : Parent(p) \in InHeap /\ Parent(p) # p
      /\ InHeap' = InHeap
  BY HeapPlaces DEF InHeap
<1>2. index[n] \in Nat /\ size \in Nat /\ (index[n] < size => index[n] \in InHeap)
  BY HeapPlaces DEF TypeOK, InHeap
<1>3. CASE index[n] >= size
  <2>1. UNCHANGED <<dist, at, pc>>
    BY <1>3 DEF DecreaseKey
  <2>2. \A p : Key(p)' = Key(p)
    BY <2>1 DEF Key
  <2>3. Placed'
    BY <1>1, <2>1 DEF Placed
  <2>4. Heaped'
    BY <1>1, <2>1, <2>2 DEF Heaped, Parent
  <2> QED BY <1>1, <2>1, <2>2, <2>3, <2>4
<1>4. CASE ~(index[n] >= size)
  <2>1. PICK a \in InHeap : a = index[n] /\ place[a] = n
    BY <1>2, <1>4 DEF IndexHonest, InHeap
  <2>2. dist' = [dist EXCEPT ![n] = val] /\ at' = a /\ pc' = "up"
    BY <1>2, <1>4, <2>1 DEF DecreaseKey
  <2>3. \A p \in InHeap : Key(p)' = IF p = a THEN val ELSE Key(p)
    BY <1>1, <2>1, <2>2 DEF Key, Placed, TypeOK
  <2>4. val <= Key(a) /\ val \in Nat
    BY <2>1, HeapPlaces DEF Key
  <2>5. \A p \in InHeap \ {0} : Key(Parent(p)) <= Key(p)
    BY DEF Heaped
  <2>6. ASSUME NEW p \in InHeap \ {0}, p # a PROVE Key(Parent(p))' <= Key(p)'
    <3>1. Key(Parent(p))' = IF Parent(p) = a THEN val ELSE Key(Parent(p))
      BY <1>1, <2>3 DEF Parent
    <3>2. Key(p)' = Key(p)
      BY <2>3, <2>6
    <3>3. Key(Parent(p)) \in Nat /\ Key(p) \in Nat /\ Key(a) \in Nat
      BY <1>1, <2>1
    <3> QED BY <2>4, <2>5, <3>1, <3>2, <3>3
  <2>7. ASSUME NEW p \in InHeap \ {0}, Parent(p) = a, a > 0 PROVE Key(Parent(a))' <= Key(p)'
    <3>1. a \in InHeap \ {0} /\ p # a
      BY <1>1, <2>1, <2>7
    <3>2. Key(Parent(a))' = Key(Parent(a)) /\ Key(Parent(a)) <= Key(a)
      BY <1>1, <2>3, <2>5, <3>1
    <3>3. Key(p)' = Key(p) /\ Key(a) <= Key(p)
      BY <2>3, <2>5, <2>7, <3>1
    <3>4. Key(Parent(a)) \in Nat /\ Key(p) \in Nat /\ Key(a) \in Nat
      BY <1>1, <3>1
    <3> QED BY <3>2, <3>3, <3>4
  <2>8. Heaped'
    BY <1>1, <2>2, <2>6, <2>7 DEF Heaped, Parent
  <2>9. Placed'
    BY <1>1, <2>1, <2>2 DEF Placed
  <2> QED BY <1>1, <2>2, <2>3, <2>8, <2>9
<1> QED BY <1>3, <1>4

\* Before the first extraction every node is in the heap and none has a label.
LEMMA SeedSorted ==
  ASSUME IInv, Sorted, Seed
  PROVE  Sorted'
<1>1. /\ TypeOK /\ IndexHonest /\ Placed /\ Heaped /\ Rounds /\ Descends /\ Control
      /\ pc = "next" /\ seeds # <<>> /\ path = <<>>
      /\ UNCHANGED <<place, size, index, prev, np, path>>
  BY DEF IInv, Sorted, Seed, Walked, heap
<1>2. PICK n : n = Head(seeds)
  OBVIOUS
<1>3. n \in Nodes
  <2>1. seeds \in Seq(Nodes)
    BY <1>1 DEF TypeOK
  <2> QED BY <1>1, <1>2, <2>1
<1>4. np = NoNode /\ \A m \in Nodes : index[m] # -1
  BY <1>1 DEF Rounds
<1>5. 0 \in 0 .. Far /\ 0 <= dist[n]
  BY <1>1, <1>3, HeapPlaces DEF TypeOK
<1>6. DecreaseKey(index[n], 0)
  BY <1>2 DEF Seed
<1>7. pc' \in {"next", "up"} /\ Placed' /\ Heaped'
  BY <1>1, <1>3, <1>4, <1>5, <1>6, DecreaseKeyHeaped
<1>8. Rounds'
  BY <1>1, <1>4, <1>7 DEF Rounds
<1>9. \A m \in Nodes : prev[m] = NoNode
  BY <1>1, <1>4 DEF Descends, TypeOK
<1>10. Descends'
  BY <1>1, <1>9 DEF Descends
<1> QED BY <1>7, <1>8, <1>10 DEF Sorted

\* A node that was extracted is no farther than np: no edge out of np improves it.
LEMMA RelaxSorted ==
  ASSUME IInv, Sorted, Relax
  PROVE  Sorted'
<1>1. /\ TypeOK /\ IndexHonest /\ Placed /\ Heaped /\ Rounds /\ Descends /\ Control
      /\ pc = "next" /\ seeds = <<>> /\ path = <<>> /\ EdgesLeft
      /\ UNCHANGED <<place, size, index, seeds, np, path>>
  BY DEF IInv, Sorted, Relax, Walked, heap
<1>2. /\ np \in Nodes /\ np # NoNode /\ i \in 0 .. 2 /\ index[np] = -1
      /\ dist[np] \in Nat
  BY <1>1, HeapPlaces DEF EdgesLeft, TypeOK, Rounds
<1>3. edge[np][i + 1] \in [dest : Nodes, dist : Nat \ {0}]
  BY <1>1, <1>2, NextEdge
<1>4. PICK id \in Nodes, alt \in Nat :
        id = edge[np][i + 1].dest /\ alt = dist[np] + edge[np][i + 1].dist
  BY <1>2, <1>3
<1>5. dist[np] < alt
  BY <1>2, <1>3, <1>4
<1>6. CASE ~AgainstSwitch /\ Improves(id, alt)
  <2>1. prev' = [prev EXCEPT ![id] = np] /\ DecreaseKey(index[id], alt)
    BY <1>4, <1>6 DEF Relax
  <2>2. alt < dist[id] /\ dist[id] \in 0 .. Far /\ Far \in Nat
    BY <1>1, <1>6, HeapPlaces DEF Improves, TypeOK
  <2>3. \A n \in Nodes : index[n] = -1 => n # id
    BY <1>1, <1>2, <1>5, <2>2 DEF Rounds
  <2>4. alt \in 0 .. Far /\ alt <= dist[id] /\ index[id] # -1
    BY <2>2, <2>3
  <2>5. /\ pc' \in {"next", "up"} /\ InHeap' = InHeap
        /\ dist' = dist \/ dist' = [dist EXCEPT ![id] = alt]
        /\ \A p \in InHeap : Key(p)' \in {Key(p), alt}
        /\ Placed' /\ Heaped'
    BY <1>1, <2>1, <2>4, DecreaseKeyHeaped
  <2>6. /\ \A n \in Nodes : index[n] = -1 => dist'[n] = dist[n]
        /\ \A n \in Nodes \ {id} : dist'[n] = dist[n]
        /\ dist'[id] \in {dist[id], alt}
    BY <1>1, <2>3, <2>5 DEF TypeOK
  <2>7. Rounds'
    <3>1. np' # NoNode => index'[np'] = -1 /\ \A p \in InHeap' : dist'[np'] <= Key(p)'
      BY <1>1, <1>2, <1>5, <2>5, <2>6 DEF Rounds
    <3>2. \A n \in Nodes : index'[n] = -1 => np' # NoNode /\ dist'[n] <= dist'[np']
      BY <1>1, <1>2, <2>6 DEF Rounds
    <3> QED BY <1>1, <2>5, <3>1, <3>2 DEF Rounds
  <2>8. ASSUME NEW n \in Nodes, prev'[n] # NoNode
        PROVE  index'[prev'[n]] = -1 /\ dist'[prev'[n]] < dist'[n]
    <3>1. CASE n = id
      <4>1. prev'[n] = np
        BY <1>1, <2>1, <3>1 DEF TypeOK
      <4>2. dist'[np] = dist[np] /\ dist[np] < dist'[id]
        BY <1>2, <1>5, <2>2, <2>6
      <4> QED BY <1>1, <1>2, <3>1, <4>1, <4>2
    <3>2. CASE n # id
      <4>1. prev'[n] = prev[n] /\ prev[n] \in Nodes
        BY <1>1, <2>1, <2>8, <3>2 DEF TypeOK
      <4>2. index[prev[n]] = -1 /\ dist[prev[n]] < dist[n]
        BY <1>1, <2>8, <4>1 DEF Descends
      <4> QED BY <1>1, <2>6, <3>2, <4>1, <4>2
    <3> QED BY <3>1, <3>2
  <2>9. Descends'
    BY <1>1, <2>8 DEF Descends
  <2> QED BY <2>5, <2>7, <2>9 DEF Sorted
<1>7. CASE ~(~AgainstSwitch /\ Improves(id, alt))
  <2>1. UNCHANGED <<labels, at, pc>>
    BY <1>4, <1>7 DEF Relax
  <2> QED BY <1>1, <2>1, SortedStays DEF labels
<1> QED BY <1>6, <1>7

\* The walk goes to ever closer nodes.
LEMMA WalkSorted ==
  ASSUME IInv, Sorted, Walk
  PROVE  Sorted'
<1>1. /\ TypeOK /\ Walked /\ Placed /\ Heaped /\ Rounds /\ Descends /\ pc = "walk"
      /\ UNCHANGED <<place, size, index, dist, prev, seeds, np>>
  BY DEF IInv, Sorted, Walk, heap, labels, search
<1>2. InHeap' = InHeap /\ \A p : Key(p)' = Key(p)
  BY <1>1 DEF InHeap, Key
<1>3. pc' \in {"walk", "done"}
  BY <1>1 DEF Walk
<1>4. Placed' /\ Heaped'
  BY <1>1, <1>2, <1>3 DEF Placed, Heaped
<1>5. Rounds'
  BY <1>1, <1>2, <1>3 DEF Rounds
<1>6. \A k, l \in 1 .. Len(path') : k < l => dist'[path'[l].node] < dist'[path'[k].node]
  <2>1. CASE at = NoNode
    BY <1>1, <2>1 DEF Walk, Descends
  <2>2. CASE at # NoNode
    <3>1. path' = Append(path, [node |-> at, edge |-> prev_edge[at]])
      BY <2>2 DEF Walk
    <3>2. path \in Seq([node : Nodes, edge : {-1, 0, 1}]) /\ Len(path) \in Nat
      BY <1>1 DEF TypeOK
    <3>3. /\ Len(path') = Len(path) + 1 /\ path'[Len(path) + 1].node = at
          /\ \A k \in 1 .. Len(path) : path'[k] = path[k]
      BY <3>1, <3>2
    <3>4. \A k \in 1 .. Len(path) : path[k].node \in Nodes
      BY <1>1, PathNodes
    <3>5. \A n \in Nodes : dist[n] \in Nat
      BY <1>1, HeapPlaces DEF TypeOK
    <3>6. at \in Nodes
      BY <1>1, <2>2 DEF TypeOK
    <3>7. ASSUME NEW k \in 1 .. Len(path) PROVE dist[at] < dist[path[k].node]
      <4>1. Len(path) \in 1 .. Len(path) /\ path # <<>>
        BY <3>2, <3>7
      <4>2. at = prev[path[Len(path)].node]
        BY <1>1, <4>1 DEF Walked
      <4>3. dist[at] < dist[path[Len(path)].node]
        BY <1>1, <2>2, <3>4, <4>1, <4>2 DEF Descends
      <4>4. k # Len(path) => dist[path[Len(path)].node] < dist[path[k].node]
        BY <1>1, <3>2, <4>1 DEF Descends
      <4>5. dist[at] \in Nat /\ dist[path[Len(path)].node] \in Nat /\ dist[path[k].node] \in Nat
        BY <3>4, <3>5, <3>6, <4>1
      <4> QED BY <4>3, <4>4, <4>5
    <3> SUFFICES ASSUME NEW k \in 1 .. Len(path'), NEW l \in 1 .. Len(path'), k < l
                 PROVE  dist[path'[l].node] < dist[path'[k].node]
      BY <1>1
    <3>8. k \in 1 .. Len(path) /\ path'[k] = path[k]
      BY <3>2, <3>3
    <3>9. CASE l = Len(path) + 1
      BY <3>3, <3>7, <3>8, <3>9
    <3>10. CASE l # Len(path) + 1
      <4>1. l \in 1 .. Len(path)
        BY <3>2, <3>3, <3>10
      <4> QED BY <1>1, <3>3, <3>8, <4>1 DEF Descends
    <3> QED BY <3>9, <3>10
  <2> QED BY <2>1, <2>2
<1>7. Descends'
  BY <1>1, <1>6 DEF Descends
<1> QED BY <1>4, <1>5, <1>7 DEF Sorted

LEMMA NextSorted == IInv /\ Sorted /\ [Next]_vars => Sorted'
<1> SUFFICES ASSUME IInv, Sorted, [Next]_vars PROVE Sorted'
  OBVIOUS
<1>1. TypeOK /\ (pc = "down" => at \in Nodes)
  BY DEF IInv, Control
<1>2. CASE BubbleDown
  BY <1>1, <1>2, BubbleDownSorted DEF BubbleDown
<1>3. CASE UNCHANGED vars
  BY <1>3, SortedStays DEF vars
<1> QED
  BY <1>1, <1>2, <1>3, SeedSorted, ExtractSorted, BubbleUpSorted, RelaxSorted, WalkSorted DEF Next
-----------------------------------------------------------------------------
(***************************************************************************)
(* The theorems.                                                           *)
(***************************************************************************)
\* The invariant of the search: the heap, the labels and the walk of
\* dijkstra_find on any track and for any question.
THEOREM SearchInvariant == Spec => []IInv
BY InitIInv, NextIInv, PTL DEF Spec

\* min_heap_decrease_key changes the distance of the node it was called for and
\* of no other, although min_heap_extract_min leaves stale indices behind.
THEOREM HeapIndexHonest == Spec => []IndexHonest
<1>1. IInv => IndexHonest
  BY DEF IInv
<1> QED BY <1>1, SearchInvariant, PTL

\* The order of the search holds together with its invariant.
THEOREM SearchSorted == Spec => [](IInv /\ Sorted)
<1>1. Init => IInv /\ Sorted
  BY InitIInv, InitSorted
<1>2. IInv /\ Sorted /\ [Next]_vars => (IInv /\ Sorted)'
  BY NextIInv, NextSorted
<1> QED BY <1>1, <1>2, PTL DEF Spec

\* No edge reaches back to an extracted node, so that nothing is ever written
\* before the array of the heap.
THEOREM NeverOutsideHeap == Spec => []NeverWild
<1>1. Sorted => NeverWild
  BY DEF Sorted, Rounds, NeverWild
<1> QED BY <1>1, SearchSorted, PTL

\* The node that min_heap_extract_min gives is one of the closest of the heap,
\* whichever indices it and min_heap_decrease_key left stale.
THEOREM ExtractsClosest == Spec => ClosestFirst
<1>1. IInv /\ Sorted /\ [Next]_vars
      => [np' # np => \A p \in 0 .. size - 1 : dist[np'] <= dist[place[p]]]_vars
  <2> SUFFICES ASSUME IInv, Sorted, Next, np' # np
               PROVE  \A p \in 0 .. size - 1 : dist[np'] <= dist[place[p]]
    OBVIOUS
  <2>1. Extract
    BY DEF Next, Seed, BubbleDown, BubbleUp, Relax, Walk, search
  <2>2. \A p \in InHeap : dist[np'] <= Key(p)
    BY <2>1, ExtractSorted DEF IInv
  <2> QED BY <2>2 DEF InHeap, Key
<1> QED BY <1>1, SearchSorted, PTL DEF Spec, ClosestFirst

\* The path that dijkstra_find answers leads over edges of the track, from an
\* end of the arc to the goal or its reverse, into no reserved node and never
\* twice through a node.
THEOREM PathFoundIsReal == Spec => []PathIsReal
<1>1. IInv /\ Sorted => PathIsReal
  <2> SUFFICES ASSUME IInv, Sorted, pc = "done", path # <<>>
               PROVE  /\ Reached(path[1].node)
                      /\ path[Len(path)].node \in Starts
                      /\ \A k, l \in 1 .. Len(path) : path[k].node = path[l].node => k = l
                      /\ \A k \in 1 .. Len(path) - 1 :
                           /\ path[k].edge + 1 \in DOMAIN edge[path[k + 1].node]
                           /\ edge[path[k + 1].node][path[k].edge + 1].dest = path[k].node
                           /\ path[k].node \notin question.reserved
    BY DEF PathIsReal, Starts
  <2>1. /\ path \in Seq([node : Nodes, edge : {-1, 0, 1}]) /\ Len(path) \in 1 .. Len(path)
        /\ Labels /\ Walked
    BY DEF IInv, TypeOK
  <2>a. \A k \in 1 .. Len(path) : path[k].node \in Nodes
    BY PathNodes DEF IInv
  <2>2. path[Len(path)].node \in Starts
    <3>1. path[Len(path)].node \in Nodes
      BY <2>a, <2>1
    <3>2. prev[path[Len(path)].node] = NoNode /\ dist[path[Len(path)].node] # Far
      BY <2>1 DEF Walked
    <3> QED BY <2>1, <3>1, <3>2 DEF Labels
  <2>3. ASSUME NEW k \in 1 .. Len(path) - 1
        PROVE  /\ path[k].edge + 1 \in DOMAIN edge[path[k + 1].node]
               /\ edge[path[k + 1].node][path[k].edge + 1].dest = path[k].node
               /\ path[k].node \notin question.reserved
    <3>1. k \in 1 .. Len(path) /\ k + 1 \in 1 .. Len(path)
      BY <2>1
    <3>2. path[k].node \in Nodes /\ path[k + 1].node \in Nodes
      BY <2>a, <3>1
    <3>3. path[k].edge = prev_edge[path[k].node] /\ prev[path[k].node] = path[k + 1].node
      BY <2>1, <3>1 DEF Walked
    <3>4. path[k + 1].node # NoNode
      BY <3>2, PathFindingAssumption DEF Nodes, NoNode
    <3>5. Link(path[k].node)
      BY <2>1, <3>2, <3>3, <3>4 DEF Labels
    <3> QED BY <3>3, <3>5 DEF Link
  <2>4. ASSUME NEW k \in 1 .. Len(path), NEW l \in 1 .. Len(path), path[k].node = path[l].node
        PROVE  k = l
    <3>1. dist[path[k].node] \in Nat /\ dist[path[l].node] \in Nat
      <4>1. \A n \in Nodes : dist[n] \in Nat
        BY HeapPlaces DEF IInv, TypeOK
      <4> QED BY <2>a, <4>1
    <3>2. ~(k < l) /\ ~(l < k)
      BY <2>4, <3>1 DEF Sorted, Descends
    <3> QED BY <2>1, <3>2
  <2> QED BY <2>1, <2>2, <2>3, <2>4 DEF Walked
<1> QED BY <1>1, SearchSorted, PTL
=============================================================================
