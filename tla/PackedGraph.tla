---------------------------- MODULE PackedGraph ----------------------------
(***************************************************************************)
(* BPMaximalClique::build and Graph::mapBuild: the neighbour lists of all  *)
(* users are renumbered, sorted and packed into ONE pool of slots, of      *)
(* which each user owns the segment [start, start + deg); the hash maps    *)
(* uedgeMap are then filled from these segments.                           *)
(*                                                                         *)
(* One step is one iteration: of the loop over the users, of the loop over *)
(* a user's items, of mapBuild's loop over a user's slots.  With           *)
(* truncNum smaller than a user's degree this is the truncated overload,  *)
(* which packs a random part of the list.                                  *)
(***************************************************************************)
EXTENDS PackedSlots

CONSTANTS
    NumUsers,       \* m_nu; the users are 1..NumUsers
    ItemIds,        \* the item ids of the edges
    Graphs,         \* the possible m_uedges: a sequence of item ids per user
    Numberings,     \* the possible mapIndex
    Reo,            \* Flag_Reo: were the items renumbered?
    TruncNums       \* the possible TruncNum; one above every degree stands for
                    \* the overload that does not truncate

Users == 1..NumUsers

\* Ids whose base is a base.
Ids == {x \in Nat : x \div PackWidth \in Base}

ASSUME ParametersOK ==
    /\ NumUsers \in Nat
    /\ ItemIds \subseteq Ids
    /\ Graphs \subseteq [Users -> Seq(ItemIds)]
    /\ \A m \in Numberings :
          /\ m \in [ItemIds -> Ids]
          /\ \A x, y \in ItemIds : m[x] = m[y] => x = y
    /\ Reo \in BOOLEAN
    /\ TruncNums \subseteq Nat

VARIABLES
    edges,          \* m_uedges
    mapIndex,
    truncNum,
    loop,           \* "user", "item", "map" or "done"
    u,              \* the user the loop is at
    passed,         \* items of Uedge, or slots of the user, that are behind it
    Uedge,          \* the list being packed, one per user
    pool,           \* pool_base/pool_state up to cur_packnode_idx
    start, deg,     \* graph[u].start, graph[u].deg
    uedgeMap        \* uedgeMap[u]: a function from bases to states

packVars == <<edges, mapIndex, truncNum, loop, u, passed, Uedge, pool, start, deg, uedgeMap>>

EmptyMap == [x \in {} |-> {}]

PackInit ==
    /\ edges \in Graphs
    /\ mapIndex \in Numberings
    /\ truncNum \in TruncNums
    /\ loop = "user" /\ u = 1 /\ passed = 0
    /\ Uedge = [w \in Users |-> << >>]
    /\ pool = << >>
    /\ start = [w \in Users |-> -1]
    /\ deg = [w \in Users |-> 0]
    /\ uedgeMap = [w \in Users |-> EmptyMap]

-----------------------------------------------------------------------------

IsAscending(f) == \A k, l \in DOMAIN f : k < l => f[k] < f[l]
NotSorted(f)   == TRUE         \* faulty: the sort is left out
IsSorted(f)    == \A k, l \in DOMAIN f : k < l => f[k] <= f[l]

IsPermutation(f, len) ==
    /\ f \in [1..len -> 1..len]
    /\ \A k, l \in 1..len : f[k] = f[l] => k = l
    /\ \A k \in 1..len : \E l \in 1..len : f[l] = k

\* The next user's list is copied: all of it, or truncNum positions of it drawn
\* at random and kept in order (random_list).  The copy is renumbered and sorted
\* when the items were reordered, and left as the file has it otherwise.
TakeList ==
    /\ loop = "user" /\ u <= NumUsers
    /\ LET list == edges[u]
           len  == Len(list)
           size == IF len <= truncNum THEN len ELSE truncNum
       IN  \E keep \in [1..size -> 1..len] :
              /\ IsAscending(keep)
              /\ IF Reo
                 THEN \E f \in [1..size -> 1..size] :
                         LET sorted == [k \in 1..size |-> mapIndex[list[keep[f[k]]]]]
                         IN  /\ IsPermutation(f, size)
                             /\ IsSorted(sorted)
                             /\ Uedge' = [Uedge EXCEPT ![u] = sorted]
                 ELSE Uedge' = [Uedge EXCEPT ![u] = [k \in 1..size |-> list[keep[k]]]]
    /\ deg' = [deg EXCEPT ![u] = 0]
    /\ loop' = "item" /\ passed' = 0
    /\ UNCHANGED <<edges, mapIndex, truncNum, u, pool, start, uedgeMap>>

\* Faulty: the bit of an id without the mask.
BitUnmasked(v) == v

BaseOf(v) == v \div PackWidth
BitOf(v)  == v % PackWidth
SlotOf(v) == [base |-> BaseOf(v), state |-> {BitOf(v)}]

\* Faulty: the first item of a user is treated like every other item.
PackFirstShared ==
    /\ loop = "item" /\ passed = 0 /\ Uedge[u] # << >>
    /\ LET v    == Uedge[u][1]
           same == pool # << >> /\ pool[Len(pool)].base = BaseOf(v)
       IN  /\ start' = [start EXCEPT ![u] = IF same THEN Len(pool) - 1 ELSE Len(pool)]
           /\ pool' = IF same
                      THEN [pool EXCEPT ![Len(pool)].state = @ \cup {BitOf(v)}]
                      ELSE Append(pool, SlotOf(v))
    /\ deg' = [deg EXCEPT ![u] = @ + 1]
    /\ passed' = 1
    /\ UNCHANGED <<edges, mapIndex, truncNum, loop, u, Uedge, uedgeMap>>

\* The first item of a user opens a slot whatever the last slot of the pool is.
PackFirst ==
    /\ loop = "item" /\ passed = 0 /\ Uedge[u] # << >>
    /\ start' = [start EXCEPT ![u] = Len(pool)]
    /\ deg' = [deg EXCEPT ![u] = @ + 1]
    /\ pool' = Append(pool, SlotOf(Uedge[u][1]))
    /\ passed' = 1
    /\ UNCHANGED <<edges, mapIndex, truncNum, loop, u, Uedge, uedgeMap>>

\* A later item joins the last slot when it has the same base...
PackSame ==
    /\ loop = "item" /\ passed \in 1..(Len(Uedge[u]) - 1)
    /\ LET v == Uedge[u][passed + 1]
       IN  /\ pool[Len(pool)].base = BaseOf(v)
           /\ pool' = [pool EXCEPT ![Len(pool)].state = @ \cup {BitOf(v)}]
    /\ passed' = passed + 1
    /\ UNCHANGED <<edges, mapIndex, truncNum, loop, u, Uedge, start, deg, uedgeMap>>

\* ... and opens one when it has not.
PackNew ==
    /\ loop = "item" /\ passed \in 1..(Len(Uedge[u]) - 1)
    /\ LET v == Uedge[u][passed + 1]
       IN  /\ pool[Len(pool)].base # BaseOf(v)
           /\ pool' = Append(pool, SlotOf(v))
    /\ deg' = [deg EXCEPT ![u] = @ + 1]
    /\ passed' = passed + 1
    /\ UNCHANGED <<edges, mapIndex, truncNum, loop, u, Uedge, start, uedgeMap>>

NextUser ==
    /\ loop = "item" /\ passed = Len(Uedge[u])
    /\ u' = u + 1 /\ passed' = 0 /\ loop' = "user"
    /\ UNCHANGED <<edges, mapIndex, truncNum, Uedge, pool, start, deg, uedgeMap>>

-----------------------------------------------------------------------------
(* mapBuild, called after build.                                           *)

StartMap ==
    /\ loop = "user" /\ u > NumUsers
    /\ loop' = "map" /\ u' = 1 /\ passed' = 0
    /\ UNCHANGED <<edges, mapIndex, truncNum, Uedge, pool, start, deg, uedgeMap>>

MapSlot ==
    /\ loop = "map" /\ u <= NumUsers /\ passed < deg[u]
    /\ LET slot == pool[start[u] + passed + 1]
       IN  uedgeMap' = [uedgeMap EXCEPT ![u] =
                          [x \in DOMAIN @ \cup {slot.base} |->
                              IF x = slot.base THEN slot.state ELSE @[x]]]
    /\ passed' = passed + 1
    /\ UNCHANGED <<edges, mapIndex, truncNum, loop, u, Uedge, pool, start, deg>>

\* Faulty: the last slot of a user is left out of its map.
MapNextUserEarly ==
    /\ loop = "map" /\ u <= NumUsers /\ passed + 1 >= deg[u]
    /\ u' = u + 1 /\ passed' = 0
    /\ UNCHANGED <<edges, mapIndex, truncNum, loop, Uedge, pool, start, deg, uedgeMap>>

MapNextUser ==
    /\ loop = "map" /\ u <= NumUsers /\ passed = deg[u]
    /\ u' = u + 1 /\ passed' = 0
    /\ UNCHANGED <<edges, mapIndex, truncNum, loop, Uedge, pool, start, deg, uedgeMap>>

PackFinish ==
    /\ loop = "map" /\ u > NumUsers
    /\ loop' = "done"
    /\ UNCHANGED <<edges, mapIndex, truncNum, u, passed, Uedge, pool, start, deg, uedgeMap>>

PackTerminating == loop = "done" /\ UNCHANGED packVars

PackNext ==
    \/ TakeList \/ PackFirst \/ PackSame \/ PackNew \/ NextUser
    \/ StartMap \/ MapSlot \/ MapNextUser \/ PackFinish \/ PackTerminating

PackSpec == PackInit /\ [][PackNext]_packVars

-----------------------------------------------------------------------------
(* Properties.                                                             *)

\* Every variable keeps its type.
PackTypeOK ==
    /\ edges \in [Users -> Seq(ItemIds)]
    /\ mapIndex \in Numberings /\ truncNum \in TruncNums
    /\ loop \in {"user", "item", "map", "done"}
    /\ u \in 1..(NumUsers + 1) /\ passed \in Nat
    /\ loop = "item" => u \in Users
    /\ Uedge \in [Users -> Seq(Ids)]
    /\ pool \in Seq(Slot)
    /\ start \in [Users -> Int] /\ deg \in [Users -> Nat]
    /\ DOMAIN uedgeMap = Users
    /\ \A w \in Users : /\ DOMAIN uedgeMap[w] \subseteq Base
                        /\ \A x \in DOMAIN uedgeMap[w] : uedgeMap[w][x] \in State

\* The segment of the pool a user owns.
Segment(w) == [k \in 1..deg[w] |-> pool[start[w] + k]]

\* How many items of its list a user has in the pool.
PackedCount(w) ==
    IF loop \in {"user", "item"}
    THEN IF w < u THEN Len(Uedge[w]) ELSE IF w = u /\ loop = "item" THEN passed ELSE 0
    ELSE Len(Uedge[w])

\* The neighbours of a user by their new numbers.
NewNeighbours(w) ==
    {IF Reo THEN mapIndex[edges[w][k]] ELSE edges[w][k] : k \in 1..Len(edges[w])}

\* The segments lie inside the pool, one after the other in the order of the
\* users.
SegmentsInOrder ==
    /\ \A w \in Users : deg[w] > 0 => start[w] >= 0 /\ start[w] + deg[w] <= Len(pool)
    /\ \A w, x \in Users : w < x /\ deg[w] > 0 /\ deg[x] > 0 =>
                              start[w] + deg[w] <= start[x]

\* The segments are in order, and whatever is packed of a user's list, and nothing
\* else, is in that user's segment, at every point of the build: a user never writes into the slots of
\* the one before, even when its first item has the base of the last slot.  The
\* segments of the finished users hold all their neighbours, or TruncNum
\* positions' worth of them.
SegmentsHoldLists ==
    /\ SegmentsInOrder
    /\ \A w \in Users :
          /\ Items(Segment(w)) = {Uedge[w][k] : k \in 1..PackedCount(w)}
          /\ w < u \/ loop \in {"map", "done"} =>
                IF Len(edges[w]) <= truncNum
                THEN Items(Segment(w)) = NewNeighbours(w)
                ELSE /\ Items(Segment(w)) \subseteq NewNeighbours(w)
                     /\ Len(Uedge[w]) = truncNum

\* After reordering, every segment is a packed list: what the intersection
\* kernels require of their arguments.
SegmentsPacked == Reo => \A w \in Users : IsPacked(Segment(w))

\* mapBuild makes every user's hash map answer for an item exactly as the list it
\* was built from: for every id, the bit of the id is set under the base of the
\* id if and only if the id is in the list.
MapsHoldLists ==
    loop = "done" /\ Reo =>
        \A w \in Users :
            UNION {{x * PackWidth + bit : bit \in uedgeMap[w][x]} :
                      x \in DOMAIN uedgeMap[w]}
            = {Uedge[w][k] : k \in 1..Len(Uedge[w])}
=============================================================================
