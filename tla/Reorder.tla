------------------------------ MODULE Reorder ------------------------------
(***************************************************************************)
(* Graph::OriOrder, DegOrder and SampleOrder: the renumbering of the items *)
(* that the packed lists are built with.  mapIndex[v] is the new number of *)
(* item v and oriIndex its inverse, with which the scores are put back.    *)
(*                                                                         *)
(* SampleOrder numbers one item per step.  A window of WindowSize numbers  *)
(* (one slot) starts with the next item of the degree order; the items     *)
(* after it are those that a sample of their users has in common with the  *)
(* window, taken from a priority queue which keeps every outdated entry.   *)
(***************************************************************************)
EXTENDS UsersAndItems, FiniteSets, Sequences

CONSTANTS
    Graphs,                 \* the possible edge files: sequences of <<user, item>>
    Orders,                 \* the possible ReOrderType: "none", "Deg", "Sample"
    WindowSize,             \* window_size (32)
    Lim,                    \* lim (50): users sampled per item
    Pos                     \* rank of the degree limit, from the number of items

ASSUME ParametersOK ==
    /\ Graphs \subseteq Seq(User \X Item)
    /\ Orders \subseteq {"none", "Deg", "Sample"}
    /\ WindowSize \in Nat \ {0} /\ Lim \in Nat
    /\ Pos \in Item

VARIABLES
    edges,          \* the graph
    order,          \* ReOrderType
    pc,             \* "start", "greedy" or "done"
    vertices,       \* the items by degree
    curDll,         \* entries of vertices that were read
    visited,        \* the numbered items
    queue,          \* Q: pairs <<weight, item>>
    weight,         \* temp_weight, 0 for the items the window did not reach
    seen,           \* users counted in this window (vis_user[u] = cur_p_idx)
    curV,           \* cur_v_idx, the next number
    mapIndex, oriIndex

vars == <<edges, order, pc, vertices, curDll, visited, queue, weight, seen,
          curV, mapIndex, oriIndex>>
greedyVars == <<curDll, visited, queue, weight, seen, curV>>

ZeroIndex == [v \in Item |-> 0]

Init ==
    /\ edges \in Graphs /\ order \in Orders
    /\ pc = "start"
    /\ vertices = [k \in Item |-> 0]
    /\ curDll = 0 /\ visited = {} /\ queue = {}
    /\ weight = ZeroIndex /\ seen = {} /\ curV = 0
    /\ mapIndex = ZeroIndex /\ oriIndex = ZeroIndex

EdgesOf(v) == {e \in DOMAIN edges : edges[e][2] = v}
Degree(v)  == Cardinality(EdgesOf(v))

IsBijection(f) ==
    /\ f \in [Item -> Item]
    /\ \A v, w \in Item : f[v] = f[w] => v = w
    /\ \A v \in Item : \E w \in Item : f[w] = v

-----------------------------------------------------------------------------

\* The ids are kept.
OriOrder ==
    /\ pc = "start" /\ order = "none"
    /\ mapIndex' = [v \in Item |-> v]
    /\ oriIndex' = [v \in Item |-> v]
    /\ pc' = "done"
    /\ UNCHANGED <<edges, order, vertices, curDll, visited, queue, weight, seen, curV>>

\* By descending degree, equal degrees in whatever order the sort leaves them.
DegOrder ==
    /\ pc = "start" /\ order = "Deg"
    /\ \E f \in [Item -> Item] :
          /\ IsBijection(f)
          /\ \A k, l \in Item : k < l => Degree(f[k]) >= Degree(f[l])
          /\ oriIndex' = f
          /\ mapIndex' = [v \in Item |-> CHOOSE k \in Item : f[k] = v]
    /\ pc' = "done"
    /\ UNCHANGED <<edges, order, vertices, curDll, visited, queue, weight, seen, curV>>

\* The degree with Pos degrees in front of it in ascending order.
DegLim ==
    CHOOSE d \in {Degree(v) : v \in Item} :
        /\ Cardinality({v \in Item : Degree(v) < d}) <= Pos
        /\ Cardinality({v \in Item : Degree(v) <= d}) > Pos

\* The first part of SampleOrder ranks the items by descending degree.  Degrees
\* above DegLim are sorted, with ties in any order; the others by a counting sort
\* that puts equal degrees in descending order of their ids.
Rank ==
    /\ pc = "start" /\ order = "Sample"
    /\ \E f \in [Item -> Item] :
          /\ IsBijection(f)
          /\ \A k, l \in Item : k < l =>
                \/ Degree(f[k]) > Degree(f[l])
                \/ /\ Degree(f[k]) = Degree(f[l])
                   /\ Degree(f[k]) > DegLim \/ f[k] > f[l]
          /\ vertices' = f
    /\ pc' = "greedy"
    /\ UNCHANGED <<edges, order, curDll, visited, queue, weight, seen, curV,
                   mapIndex, oriIndex>>

\* random_sample: all the edges of v, or Lim of them.
Samples(v) ==
    LET E == EdgesOf(v)
    IN  IF Lim > Cardinality(E) THEN {E}
        ELSE {S \in SUBSET E : Cardinality(S) = Lim}

\* The first unvisited entry of vertices from curDll on.
IsNextRanked(k) ==
    /\ k \in curDll..(NumItems - 1)
    /\ vertices[k] \notin visited
    /\ \A l \in curDll..(k - 1) : vertices[l] \in visited

\* Faulty: a queue with the smallest entry on top.
LighterBefore(x, y) == x[1] < y[1] \/ (x[1] = y[1] /\ x[2] < y[2])

\* The order of the priority queue, largest pair first.
Before(x, y) == x[1] > y[1] \/ (x[1] = y[1] /\ x[2] > y[2])

NumberFromOne == curV + 1      \* faulty: the counter is increased first
NextNumber    == curV

\* Number v; then every user of a sample of its edges that the window has not
\* counted yet adds its edges to the weight of the items that are not numbered,
\* and these items enter the queue with their new weight.  oldQueue, oldWeight
\* and oldSeen are what v's choice leaves of the window.
Number(v, oldQueue, oldWeight, oldSeen) ==
    /\ visited' = visited \cup {v}
    /\ mapIndex' = [mapIndex EXCEPT ![v] = NextNumber]
    /\ curV' = curV + 1
    /\ \E S \in Samples(v) :
          LET new == {edges[e][1] : e \in S} \ oldSeen
              count(w) == Cardinality({e \in EdgesOf(w) : edges[e][1] \in new})
              touched == {w \in Item \ visited' : count(w) > 0}
          IN  /\ seen' = oldSeen \cup new
              /\ weight' = [w \in Item |-> IF w \in touched THEN oldWeight[w] + count(w)
                                           ELSE oldWeight[w]]
              /\ queue' = oldQueue \cup {<<weight'[w], w>> : w \in touched}
    /\ UNCHANGED <<edges, order, pc, vertices, oriIndex>>

Numbering == pc = "greedy" /\ curV < NumItems

WindowEnds == curV % WindowSize = 0 \/ queue = {}

\* A new window forgets the queue, the weights and the users of the old one.
StartWindow ==
    /\ Numbering /\ WindowEnds
    /\ \E k \in Item :
          /\ IsNextRanked(k)
          /\ curDll' = k + 1
          /\ Number(vertices[k], {}, ZeroIndex, {})

\* Faulty: the top of the queue is taken without a look at visited.
TakeOutdated ==
    /\ Numbering /\ ~ WindowEnds
    /\ \E x \in queue :
          /\ \A y \in queue : ~ Before(y, x)
          /\ Number(x[2], queue \ {x}, weight, seen)
    /\ UNCHANGED curDll

\* Faulty: the queue is emptied for every item, not only for a new window.
TakeAndForget ==
    /\ Numbering /\ ~ WindowEnds
    /\ \E x \in queue :
          /\ x[2] \notin visited
          /\ \A y \in queue : Before(y, x) => y[2] \in visited
          /\ Number(x[2], {}, weight, seen)
    /\ UNCHANGED curDll

\* Entries are popped until one is of an unvisited item.
TakeFromQueue ==
    /\ Numbering /\ ~ WindowEnds
    /\ \E x \in queue :
          /\ x[2] \notin visited
          /\ \A y \in queue : Before(y, x) => y[2] \in visited
          /\ Number(x[2], {y \in queue : Before(x, y)}, weight, seen)
    /\ UNCHANGED curDll

\* The queue had only entries of visited items: the window goes on with the next
\* item of the degree order.
TakeRanked ==
    /\ Numbering /\ ~ WindowEnds
    /\ \A x \in queue : x[2] \in visited
    /\ \E k \in Item :
          /\ IsNextRanked(k)
          /\ curDll' = k + 1
          /\ Number(vertices[k], {}, weight, seen)

\* oriIndex is the inverse; an item that was not numbered would keep its id.
Invert ==
    /\ pc = "greedy" /\ ~ Numbering
    /\ mapIndex' = [v \in Item |-> IF v \in visited THEN mapIndex[v] ELSE v]
    /\ oriIndex' = [k \in Item |->
                      IF \E v \in Item : mapIndex'[v] = k
                      THEN CHOOSE v \in Item :
                              /\ mapIndex'[v] = k
                              /\ \A w \in Item : mapIndex'[w] = k => w <= v
                      ELSE oriIndex[k]]
    /\ pc' = "done"
    /\ UNCHANGED <<edges, order, vertices, greedyVars>>

Terminating == pc = "done" /\ UNCHANGED vars

Next ==
    \/ OriOrder \/ DegOrder \/ Rank
    \/ StartWindow \/ TakeFromQueue \/ TakeRanked
    \/ Invert \/ Terminating

Spec == Init /\ [][Next]_vars

-----------------------------------------------------------------------------
(* Properties.                                                             *)

\* Every variable keeps its type.
TypeOK ==
    /\ edges \in Seq(User \X Item) /\ order \in Orders
    /\ pc \in {"start", "greedy", "done"}
    /\ vertices \in [Item -> Item]
    /\ curDll \in 0..NumItems
    /\ visited \subseteq Item
    /\ queue \subseteq (Nat \X Item)
    /\ weight \in [Item -> Nat] /\ seen \subseteq User
    /\ curV \in 0..NumItems
    /\ mapIndex \in [Item -> Item] /\ oriIndex \in [Item -> Item]

\* The numbers given so far are 0, 1, ... without a gap, each to one item: taking
\* an outdated queue entry would number an item twice and leave another out.  What
\* every order leaves at the end is a permutation and its inverse.
NumberedOnce ==
    /\ pc = "greedy" =>
          /\ \A v \in visited : mapIndex[v] < curV
          /\ \A k \in 0..(curV - 1) : \E v \in visited : mapIndex[v] = k
          /\ \A v, w \in visited : mapIndex[v] = mapIndex[w] => v = w
    /\ pc = "done" =>
          /\ IsBijection(mapIndex)
          /\ \A v \in Item : oriIndex[mapIndex[v]] = v

\* The outdated entries of the queue do no harm: every item of the window that
\* waits is in the queue with its current weight, and no entry exceeds it.
CurrentEntryFirst ==
    \A v \in Item \ visited :
        /\ weight[v] > 0 /\ ~ WindowEnds => <<weight[v], v>> \in queue
        /\ \A x \in queue : x[2] = v => x[1] <= weight[v]

\* Inside a window the item numbered next is the heaviest of those the window
\* has reached.
HeaviestNext ==
    [][ ~ WindowEnds /\ pc = "greedy" /\ visited' # visited =>
            \A v \in visited' \ visited, w \in Item \ visited :
                weight[w] <= weight[v]
      ]_vars
=============================================================================
