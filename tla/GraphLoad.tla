----------------------------- MODULE GraphLoad -----------------------------
(***************************************************************************)
(* The constructor of Graph: readGraph reads the edge file with            *)
(* fscanf("%d%d"), addEdge enters each pair on both sides, and preprocess  *)
(* derives the lists and sums that the queries use.                        *)
(*                                                                         *)
(* The loop ends at end of file only.  When fscanf converts one number or  *)
(* none, u and v keep what they held, which at first is whatever was in    *)
(* memory, and an edge is added all the same.                              *)
(***************************************************************************)
EXTENDS UsersAndItems, Sums, FiniteSets, Sequences

CONSTANTS
    Files,                  \* the possible edge files: sequences of tokens
    MaxReads                \* bound on readCnt, for files that never end

Junk == -1          \* a token that is not a number

\* The two assertions of readGraph.
FitsLoosely(w, x) == w <= NumUsers /\ x < NumItems      \* faulty: one user too many
Fits(w, x)        == w < NumUsers /\ x < NumItems

\* Numbers above the ranges stand for all that fail the assertions, negative ones
\* included (they are read into unsigned variables).
Token == Nat \cup {Junk}

ASSUME FilesOK == MaxReads \in Nat /\ Files \subseteq Seq(Token)

VARIABLES
    file, pos,              \* the tokens, and how many were read
    uRead, vRead,           \* u and v of readGraph
    readCnt,
    uedges, vedges, udeg, vdeg,
    uSorted, vSorted, uDeg, vDeg, uedgeSet,
    phase                   \* "read", "prep", "sets", "done" or "exit"

reader   == <<file, pos, uRead, vRead, readCnt>>
graph    == <<uedges, vedges, udeg, vdeg>>
derived  == <<uSorted, vSorted, uDeg, vDeg>>
loadVars == <<reader, graph, derived, uedgeSet, phase>>

LoadInit ==
    /\ file \in Files /\ pos = 0
    /\ uRead \in 0..NumUsers /\ vRead \in 0..NumItems
    /\ readCnt = 0
    /\ uedges = [w \in User |-> << >>] /\ vedges = [x \in Item |-> << >>]
    /\ udeg = [w \in User |-> 0] /\ vdeg = [x \in Item |-> 0]
    /\ uSorted = [w \in User |-> << >>] /\ vSorted = [x \in Item |-> << >>]
    /\ uDeg = [w \in User |-> 0] /\ vDeg = [x \in Item |-> 0]
    /\ uedgeSet = [w \in User |-> {}]
    /\ phase = "read"

-----------------------------------------------------------------------------

NeverEnds(k) == FALSE           \* faulty: EOF taken for a conversion
EndOfFile(k) == k = Len(file)
IsNumber(k)  == k <= Len(file) /\ file[k] # Junk

\* What a call of fscanf leaves in u and v, and where it leaves the file.
Scan ==
    /\ uRead' = IF IsNumber(pos + 1) THEN file[pos + 1] ELSE uRead
    /\ vRead' = IF IsNumber(pos + 1) /\ IsNumber(pos + 2) THEN file[pos + 2] ELSE vRead
    /\ pos' = IF ~ IsNumber(pos + 1) THEN pos
              ELSE IF ~ IsNumber(pos + 2) THEN pos + 1 ELSE pos + 2

\* Faulty: the edge is entered on the user's side only.
AddEdgeToUser(w, x) ==
    /\ uedges' = [uedges EXCEPT ![w] = Append(@, x)]
    /\ udeg' = [udeg EXCEPT ![w] = @ + 1]
    /\ UNCHANGED <<vedges, vdeg>>

AddEdge(w, x) ==
    /\ uedges' = [uedges EXCEPT ![w] = Append(@, x)]
    /\ vedges' = [vedges EXCEPT ![x] = Append(@, w)]
    /\ udeg' = [udeg EXCEPT ![w] = @ + 1]
    /\ vdeg' = [vdeg EXCEPT ![x] = @ + 1]

Reading == phase = "read" /\ ~ EndOfFile(pos) /\ readCnt < MaxReads

ReadEdge ==
    /\ Reading
    /\ Scan /\ readCnt' = readCnt + 1
    /\ Fits(uRead', vRead')
    /\ AddEdge(uRead', vRead')
    /\ UNCHANGED <<file, derived, uedgeSet, phase>>

\* An assertion fails, and the program exits.
AssertFails ==
    /\ Reading
    /\ Scan /\ readCnt' = readCnt + 1
    /\ ~ Fits(uRead', vRead')
    /\ phase' = "exit"
    /\ UNCHANGED <<file, graph, derived, uedgeSet>>

EndReading ==
    /\ phase = "read" /\ EndOfFile(pos)
    /\ phase' = "prep"
    /\ UNCHANGED <<reader, graph, derived, uedgeSet>>

-----------------------------------------------------------------------------

\* What sorting the elements of s at the positions P by their rank may leave: equal
\* ranks come in any order.
Sorts(s, P, rank) ==
    {[k \in DOMAIN f |-> s[f[k]]] :
        f \in {g \in [1..Cardinality(P) -> P] :
                 /\ \A p \in P : \E k \in DOMAIN g : g[k] = p
                 /\ \A k, l \in DOMAIN g : k < l => g[k] # g[l] /\ rank[s[g[k]]] <= rank[s[g[l]]]}}

\* A choice of one member of each set.
OneOfEach(S) == {f \in [DOMAIN S -> UNION {S[x] : x \in DOMAIN S}] : \A x \in DOMAIN S : f[x] \in S[x]}

\* The positions of the users of x that have two edges or more.
Kept(x) == {k \in DOMAIN vedges[x] : udeg[vedges[x][k]] >= 2}

Degrees(s, deg) == [k \in DOMAIN s |-> deg[s[k]]]

\* The sums over the users of x: all of them, or those that preprocess kept.
SumOverAll(x)  == Total(Degrees(vedges[x], udeg), DOMAIN vedges[x])
SumOverKept(x) == Total(Degrees(vSorted'[x], udeg), DOMAIN vSorted'[x])

\* The lists sorted by id, and by degree without the users of one edge.
Preprocess ==
    /\ phase = "prep"
    /\ uSorted' \in OneOfEach([w \in User |-> Sorts(uedges[w], DOMAIN uedges[w], [x \in Item |-> x])])
    /\ vSorted' \in OneOfEach([x \in Item |-> Sorts(vedges[x], Kept(x), udeg)])
    /\ uDeg' = [w \in User |-> Total(Degrees(uedges[w], vdeg), DOMAIN uedges[w])]
    /\ vDeg' = [x \in Item |-> SumOverKept(x)]
    /\ phase' = "sets"
    /\ UNCHANGED <<reader, graph, uedgeSet>>

\* setBuild, without the packed lists only.
SetBuild ==
    /\ phase = "sets"
    /\ \/ uedgeSet' = [w \in User |-> {uedges[w][k] : k \in DOMAIN uedges[w]}]
       \/ UNCHANGED uedgeSet
    /\ phase' = "done"
    /\ UNCHANGED <<reader, graph, derived>>

\* The program is done or has exited, or the bound on readCnt is reached.
LoadEnded ==
    /\ phase \in {"done", "exit"} \/ (phase = "read" /\ readCnt = MaxReads)
    /\ UNCHANGED loadVars

LoadNext ==
    \/ ReadEdge \/ AssertFails \/ EndReading
    \/ Preprocess \/ SetBuild \/ LoadEnded

LoadSpec     == LoadInit /\ [][LoadNext]_loadVars
FairLoadSpec == LoadSpec /\ WF_loadVars(LoadNext)

-----------------------------------------------------------------------------
(* Properties.                                                             *)

\* Every variable keeps its type, and no edge with an id out of range is entered.
LoadTypeOK ==
    /\ file \in Files /\ pos \in 0..Len(file)
    /\ uRead \in Nat /\ vRead \in Nat /\ readCnt \in 0..MaxReads
    /\ uedges \in [User -> Seq(Item)] /\ vedges \in [Item -> Seq(User)]
    /\ udeg \in [User -> Nat] /\ vdeg \in [Item -> Nat]
    /\ uSorted \in [User -> Seq(Item)] /\ vSorted \in [Item -> Seq(User)]
    /\ uDeg \in [User -> Nat] /\ vDeg \in [Item -> Nat]
    /\ uedgeSet \in [User -> SUBSET Item]
    /\ phase \in {"read", "prep", "sets", "done", "exit"}

AllNumbers == \A k \in 1..Len(file) : file[k] # Junk

\* The edges that the tokens read so far stand for: pairs, and, when the file ends
\* inside a pair, the last user with the item of the pair before.
Lines ==
    LET whole == pos \div 2
        last  == IF whole > 0 THEN {file[2 * whole]} ELSE 0..NumItems
    IN  {[k \in 1..(whole + (pos % 2)) |->
            IF k <= whole THEN <<file[2 * k - 1], file[2 * k]>> ELSE <<file[pos], x>>] :
         x \in last}

\* The lines up to number l with a user, and with an item.
OfUser(lines, l, w) == {k \in 1..l : lines[k][1] = w}
OfItem(lines, l, x) == {k \in 1..l : lines[k][2] = x}

\* The lists hold the lines in their order: the n-th line of a user is its n-th
\* entry, and the n-th line of an item is the item's.
Holds(lines) ==
    /\ \A w \in User : Len(uedges[w]) = Cardinality(OfUser(lines, Len(lines), w))
    /\ \A x \in Item : Len(vedges[x]) = Cardinality(OfItem(lines, Len(lines), x))
    /\ \A l \in 1..Len(lines) :
          LET w == lines[l][1]
              x == lines[l][2]
          IN  /\ w \in User /\ uedges[w][Cardinality(OfUser(lines, l, w))] = x
              /\ x \in Item /\ vedges[x][Cardinality(OfItem(lines, l, x))] = w

\* A file of numbers is loaded line by line onto both sides, in its order, no line
\* lost or entered twice: users, items and degrees agree at every point.  A file
\* that breaks off after a user gets one edge that it does not hold.
FileLoaded ==
    AllNumbers /\ phase # "exit" =>
        /\ \E lines \in Lines : Holds(lines)
        /\ \A w \in User : udeg[w] = Len(uedges[w])
        /\ \A x \in Item : vdeg[x] = Len(vedges[x])

\* The sum by which the queries choose their branch is the length of all the lists
\* of the users they go over, and no more: at least two per user, so that dividing
\* by it is safe whenever a query has two users.
NeighbourSums ==
    phase \in {"sets", "done"} =>
        \A x \in Item :
            LET kept == {k \in DOMAIN vedges[x] : Len(uedges[vedges[x][k]]) >= 2}
            IN  /\ vDeg[x] = Total([k \in kept |-> Len(uedges[vedges[x][k]])], kept)
                /\ Len(vSorted[x]) = Cardinality(kept)
                /\ vDeg[x] >= 2 * Len(vSorted[x])

\* A file of numbers is read to its end, or an assertion stops the program.
Loads == AllNumbers ~> phase \in {"done", "exit"}

\* The comment at the declaration of vSorted: the edges of each node in v.
VSortedHoldsEdges ==
    phase = "done" =>
        \A x \in Item : Len(vSorted[x]) = Len(vedges[x])
=============================================================================
