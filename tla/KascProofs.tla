----------------------------- MODULE KascProofs -----------------------------
(***************************************************************************)
(* The boundary stage of FastKASC keeps the best items and lists those     *)
(* that reach across the border, and a refinement of the listed items that *)
(* goes over all pairs puts the right K items first: for any number of     *)
(* items, any K and ext_k, any scores, intervals and contents of RfWid.    *)
(***************************************************************************)
EXTENDS Kasc, FiniteSetTheorems, SequenceTheorems, TLAPS

-----------------------------------------------------------------------------
(* Estimates and sequences.                                                *)

\* Scores and bounds are integers, and the score lies inside.
LEMMA EstimateFacts ==
    ASSUME NEW e \in Estimates, NEW v \in DOMAIN e
    PROVE  /\ e[v].score \in Nat \ {0} /\ e[v].score <= Zeta
           /\ e[v].radius \in Nat \ {0}
<1>1. e[v] \in [score : 1..Zeta, radius : Nat \ {0}] /\ Zeta \in Nat
  BY ParametersOK
<1> QED
  BY <1>1

LEMMA BoundFacts ==
    ASSUME est \in Estimates, NEW v \in DOMAIN est
    PROVE  /\ est[v].score \in Nat \ {0} /\ est[v].score <= Zeta
           /\ L(v) \in Int /\ R(v) \in Int
           /\ L(v) < est[v].score /\ est[v].score < R(v)
<1>1. /\ est[v].score \in Nat \ {0} /\ est[v].score <= Zeta
      /\ est[v].radius \in Nat \ {0}
  BY EstimateFacts
<1> QED
  BY <1>1 DEF L, R

\* An item in front of a sequence, or after it.
LEMMA PrependFacts ==
    ASSUME NEW S, NEW s \in Seq(S), NEW x \in S
    PROVE  /\ <<x>> \o s \in Seq(S)
           /\ Len(<<x>> \o s) = Len(s) + 1
           /\ (<<x>> \o s)[1] = x
           /\ \A k \in 1..Len(s) : (<<x>> \o s)[k + 1] = s[k]
           /\ ItemsOf(<<x>> \o s) = {x} \cup ItemsOf(s)
<1> DEFINE t == <<x>> \o s
<1>1. <<x>> \in Seq(S) /\ Len(<<x>>) = 1 /\ <<x>>[1] = x /\ Len(s) \in Nat
  OBVIOUS
<1>2. /\ t \in Seq(S)
      /\ Len(t) = 1 + Len(s)
      /\ \A k \in 1..(1 + Len(s)) : t[k] = IF k <= 1 THEN <<x>>[k] ELSE s[k - 1]
  BY <1>1, ConcatProperties
<1>3. t[1] = x
  BY <1>1, <1>2
<1>4. \A k \in 1..Len(s) : t[k + 1] = s[k]
  <2> TAKE k \in 1..Len(s)
  <2>1. k + 1 \in 1..(1 + Len(s)) /\ ~ (k + 1 <= 1) /\ (k + 1) - 1 = k
    BY <1>1
  <2> QED
    BY <1>2, <2>1
<1> HIDE DEF t
<1>5. ItemsOf(t) = {x} \cup ItemsOf(s)
  <2>1. \A k \in 1..Len(t) : k = 1 \/ \E l \in 1..Len(s) : k = l + 1
    <3> SUFFICES ASSUME NEW k \in 1..Len(t), k # 1
                 PROVE  \E l \in 1..Len(s) : k = l + 1
      OBVIOUS
    <3>1. k - 1 \in 1..Len(s) /\ k = (k - 1) + 1
      <4>1. Len(s) \in Nat /\ Len(t) = 1 + Len(s)
        BY <1>1, <1>2
      <4> QED
        BY ONLY <4>1, k \in 1..Len(t), k # 1
    <3> QED
      BY <3>1
  <2>2. ASSUME NEW k \in 1..Len(t) PROVE t[k] \in {x} \cup ItemsOf(s)
    BY <1>3, <1>4, <2>1 DEF ItemsOf
  <2>3. x \in ItemsOf(t)
    <3>1. 1 \in 1..Len(t)
      BY <1>1, <1>2
    <3> QED
      BY <1>3, <3>1 DEF ItemsOf
  <2>4. ASSUME NEW k \in 1..Len(s) PROVE s[k] \in ItemsOf(t)
    <3>1. k + 1 \in 1..Len(t)
      BY <1>1, <1>2
    <3> QED
      BY <1>4, <3>1 DEF ItemsOf
  <2> QED
    BY <2>2, <2>3, <2>4 DEF ItemsOf
<1> QED
  BY <1>1, <1>2, <1>3, <1>4, <1>5 DEF t

Distinct(s) == \A k, l \in 1..Len(s) : k < l => s[k] # s[l]

LEMMA AppendFacts ==
    ASSUME NEW S, NEW s \in Seq(S), NEW x \in S
    PROVE  /\ Append(s, x) \in Seq(S)
           /\ ItemsOf(Append(s, x)) = ItemsOf(s) \cup {x}
           /\ Distinct(s) /\ x \notin ItemsOf(s) => Distinct(Append(s, x))
<1> DEFINE t == Append(s, x)
<1>1. /\ t \in Seq(S) /\ Len(t) = Len(s) + 1 /\ Len(s) \in Nat
      /\ \A k \in 1..Len(s) : t[k] = s[k]
      /\ t[Len(s) + 1] = x
  BY AppendProperties
<1> HIDE DEF t
<1>2. \A k \in 1..Len(t) : k \in 1..Len(s) \/ k = Len(s) + 1
  BY <1>1
<1>3. 1..Len(s) \subseteq 1..Len(t) /\ Len(s) + 1 \in 1..Len(t)
  BY <1>1
<1>4. ItemsOf(t) = ItemsOf(s) \cup {x}
  BY <1>1, <1>2, <1>3 DEF ItemsOf
<1>5. ASSUME Distinct(s), x \notin ItemsOf(s) PROVE Distinct(t)
  <2> SUFFICES ASSUME NEW k \in 1..Len(t), NEW l \in 1..Len(t), k < l
               PROVE  t[k] # t[l]
    BY DEF Distinct
  <2>1. k \in 1..Len(s)
    BY <1>1
  <2>2. CASE l \in 1..Len(s)
    BY <1>1, <1>5, <2>1, <2>2 DEF Distinct
  <2>3. CASE l = Len(s) + 1
    BY <1>1, <1>5, <2>1, <2>3 DEF ItemsOf
  <2> QED
    BY <1>2, <2>2, <2>3
<1> QED
  BY <1>1, <1>4, <1>5 DEF t

-----------------------------------------------------------------------------
(* The invariant of the boundary stage.                                    *)

Visited == DOMAIN est \ todo

\* The ranks above r, and those of the rest below r, have been looked at.
DownTo(r) ==
    \A k \in 1..K :
        r < k /\ ReachesDown(Bq[k]) /\ K - k < rfWid => Bq[k] \in ItemsOf(Refine)
UpTo(r) ==
    \A k \in (K + 1)..Len(Bq) :
        k < r /\ ReachesUp(Bq[k]) => Bq[k] \in ItemsOf(Refine)
ListedFrom(r, t) ==
    \A v \in ItemsOf(Refine) : \E l \in 1..Len(Bq) : r < l /\ l < t /\ v = Bq[l]

Phases ==
    /\ pc = "visit" => Bq = << >> /\ Refine = << >>
    /\ pc # "visit" => todo = {}
    /\ pc = "pop" => Refine = << >> /\ Cardinality(Q) + Len(Bq) > K
    /\ pc \in {"down", "up", "refine"} => Q = {} /\ Len(Bq) > K
    /\ pc = "down" => rank <= K /\ DownTo(rank) /\ ListedFrom(rank, K + 1)
    /\ pc = "up" => /\ K < rank /\ rank <= Len(Bq) + 1
                    /\ DownTo(0) /\ UpTo(rank) /\ ListedFrom(0, rank)
    /\ pc = "refine" => DownTo(0) /\ UpTo(Len(Bq) + 1)

\* What is left in the heap is better than what was popped.
HeapAbove ==
    \A x \in Q, k \in 1..Len(Bq) : x[2] # Bq[k] /\ est[Bq[k]].score <= x[1]

\* Before it is full, the heap has room for every item.
HeapTakesAll == Cardinality(Q) + Len(Bq) < K + Ext => Visited \subseteq Inside

BInv == TypeOK /\ HeapHoldsBest /\ Phases /\ HeapAbove /\ HeapTakesAll

\* What the types say, in the form the provers need.
LEMMA TypeFacts ==
    ASSUME TypeOK
    PROVE  /\ est \in Estimates /\ IsFiniteSet(DOMAIN est) /\ DOMAIN est \subseteq Nat
           /\ IsFiniteSet(Visited) /\ Cardinality(Visited) \in Nat
           /\ Cardinality(Q) \in Nat /\ Len(Bq) \in Nat /\ Len(Refine) \in Nat
           /\ \A x \in Q : x = <<x[1], x[2]>> /\ x[1] \in Int /\ x[2] \in Visited
           /\ \A k \in 1..Len(Bq) : Bq[k] \in DOMAIN est
           /\ K \in Nat \ {0} /\ Ext \in Nat /\ Zeta \in Nat /\ rfWid \in Int /\ rank \in Nat
           /\ Inside \subseteq DOMAIN est
<1>1. /\ est \in Estimates /\ IsFiniteSet(DOMAIN est) /\ DOMAIN est \subseteq Nat
      /\ K \in Nat \ {0} /\ Ext \in Nat /\ Zeta \in Nat
  BY ParametersOK DEF TypeOK
<1>2. IsFiniteSet(Visited) /\ Cardinality(Visited) \in Nat
  BY <1>1, FS_Subset, FS_CardinalityType DEF Visited
<1>3. Cardinality(Q) \in Nat
  BY FS_CardinalityType DEF TypeOK
<1>4. Len(Bq) \in Nat /\ Len(Refine) \in Nat
  BY DEF TypeOK
<1>5. \A x \in Q : x = <<x[1], x[2]>> /\ x[1] \in Int /\ x[2] \in Visited
  BY DEF TypeOK, Visited
<1>6. \A k \in 1..Len(Bq) : Bq[k] \in DOMAIN est
  BY ElementOfSeq DEF TypeOK
<1>7. rfWid \in Int /\ rank \in Nat
  BY <1>1, ParametersOK DEF TypeOK
<1>8. Inside \subseteq DOMAIN est
  BY <1>5, <1>6 DEF Inside, ItemsOf, Visited
<1> QED
  BY <1>1, <1>2, <1>3, <1>4, <1>5, <1>6, <1>7, <1>8

LEMMA InitBoundary == Init => BInv
<1> SUFFICES ASSUME Init PROVE BInv
  OBVIOUS
<1> USE DEF Init
<1>1. Cardinality(Q) = 0 /\ IsFiniteSet(Q) /\ Len(Bq) = 0 /\ Len(Refine) = 0
  BY FS_EmptySet
<1>2. K \in Nat \ {0} /\ Ext \in Nat
  BY ParametersOK
<1>3. TypeOK
  BY <1>1, <1>2 DEF TypeOK
<1>4. Visited = {} /\ Inside = {}
  BY <1>1 DEF Visited, Inside, ItemsOf
<1>5. HeapHoldsBest
  <2>1. Cardinality(Visited) = 0 /\ Smaller(K + Ext, 0) = 0
    BY <1>2, <1>4, FS_EmptySet DEF Smaller
  <2> QED
    BY <1>1, <1>4, <2>1 DEF HeapHoldsBest, Visited
<1> QED
  BY <1>1, <1>3, <1>4, <1>5 DEF BInv, Phases, HeapAbove, HeapTakesAll

-----------------------------------------------------------------------------
(* The heap is filled and emptied.                                         *)

LEMMA VisitKeeps == BInv /\ Visit => BInv'
<1> SUFFICES ASSUME BInv, Visit PROVE BInv'
  OBVIOUS
<1>1. /\ pc = "visit" /\ pc' = pc /\ est' = est /\ Bq' = Bq /\ rfWid' = rfWid
      /\ rank' = rank /\ Refine' = Refine /\ Bq = << >> /\ Len(Bq) = 0
  BY DEF Visit, BInv, Phases
<1>2. /\ IsFiniteSet(Q) /\ Cardinality(Q) \in Nat /\ Cardinality(Q) <= K + Ext
      /\ IsFiniteSet(Visited) /\ Cardinality(Visited) \in Nat
      /\ K \in Nat \ {0} /\ Ext \in Nat /\ est \in Estimates
      /\ \A y \in Q : y \in Int \X Visited /\ y[1] = est[y[2]].score
  BY <1>1, TypeFacts DEF BInv, TypeOK, Visited
<1>3. Inside = {y[2] : y \in Q} /\ Inside' = {y[2] : y \in Q'}
  BY <1>1 DEF Inside, ItemsOf
<1>4. PICK v \in todo :
        /\ todo' = todo \ {v}
        /\ \/ /\ ~ IsFull
              /\ Q' = Q \cup {<<est[v].score, v>>}
           \/ /\ IsFull
              /\ \E top \in Q :
                    /\ IsTop(top)
                    /\ Q' = IF top[1] < est[v].score
                            THEN (Q \ {top}) \cup {<<est[v].score, v>>} ELSE Q
  BY DEF Visit
<1> DEFINE x == <<est[v].score, v>>
<1>5. v \in DOMAIN est /\ v \notin Visited /\ Visited' = Visited \cup {v}
  BY <1>1, <1>4 DEF BInv, TypeOK, Visited
<1>6. est[v].score \in Int /\ \A w \in Visited : est[w].score \in Int
  BY <1>2, <1>5, EstimateFacts DEF Visited
<1>7. x \notin Q /\ x[1] = est[v].score /\ x[2] = v
  BY <1>2, <1>5
<1>8. Cardinality(Visited') = Cardinality(Visited) + 1
  BY <1>2, <1>5, FS_AddElement
<1>9. /\ Cardinality(Q) = Smaller(K + Ext, Cardinality(Visited))
      /\ \A u \in Visited \ Inside, w \in Inside : est[u].score <= est[w].score
  BY <1>1, <1>2 DEF BInv, HeapHoldsBest, Visited
<1> SUFFICES /\ IsFiniteSet(Q') /\ Cardinality(Q') = Smaller(K + Ext, Cardinality(Visited'))
             /\ \A y \in Q' : y \in Int \X Visited' /\ y[1] = est[y[2]].score
             /\ \A u \in Visited' \ Inside', w \in Inside' : est[u].score <= est[w].score
             /\ Cardinality(Q') < K + Ext => Visited' \subseteq Inside'
  <2>1. ASSUME /\ IsFiniteSet(Q')
               /\ Cardinality(Q') = Smaller(K + Ext, Cardinality(Visited'))
               /\ \A y \in Q' : y \in Int \X Visited' /\ y[1] = est[y[2]].score
        PROVE  TypeOK'
    <3>1. Cardinality(Q') <= K + Ext
      BY <1>2, <1>8, <2>1 DEF Smaller
    <3>2. Cardinality(Q') + Len(Bq) <= K + Ext
      BY <1>1, <2>1, <3>1, FS_CardinalityType
    <3>3. todo' \subseteq DOMAIN est /\ Visited' = DOMAIN est \ todo'
      BY <1>1, <1>4 DEF BInv, TypeOK, Visited
    <3> QED
      BY <1>1, <2>1, <3>2, <3>3 DEF BInv, TypeOK, ItemsOf
  <2> QED
    BY <1>1, <1>2, <1>8, <2>1, FS_CardinalityType
    DEF BInv, HeapHoldsBest, Visited, Phases, HeapAbove, HeapTakesAll
<1>a. CASE ~ IsFull
  <2>1. Q' = Q \cup {x} /\ Cardinality(Q) < K + Ext
    BY <1>2, <1>4, <1>a DEF IsFull
  <2>2. IsFiniteSet(Q') /\ Cardinality(Q') = Cardinality(Q) + 1
    BY <1>2, <1>7, <2>1, FS_AddElement
  <2>3. Cardinality(Q') = Smaller(K + Ext, Cardinality(Visited'))
    BY <1>2, <1>8, <1>9, <2>1, <2>2 DEF Smaller
  <2>4. Visited \subseteq Inside
    BY <1>1, <1>2, <2>1 DEF BInv, HeapTakesAll
  <2>5. Visited' \subseteq Inside'
    BY <1>3, <1>5, <1>7, <2>1, <2>4
  <2>6. \A y \in Q' : y \in Int \X Visited' /\ y[1] = est[y[2]].score
    BY <1>2, <1>5, <1>6, <2>1
  <2> QED
    BY <2>2, <2>3, <2>5, <2>6
<1>b. CASE IsFull
  <2>1. PICK top \in Q :
          IsTop(top) /\ Q' = IF top[1] < est[v].score THEN (Q \ {top}) \cup {x} ELSE Q
    BY <1>4, <1>b
  <2>2. Cardinality(Q) = K + Ext /\ K + Ext <= Cardinality(Visited)
    BY <1>2, <1>9, <1>b DEF IsFull, Smaller
  <2>3. /\ top[1] = est[top[2]].score /\ top[2] \in Inside /\ top[1] \in Int
        /\ \A y \in Q : y[1] \in Int /\ top[1] <= y[1]
    BY <1>2, <1>3, <2>1 DEF IsTop, Less
  <2>4. /\ IsFiniteSet(Q') /\ Cardinality(Q') = Cardinality(Q)
    <3>1. /\ IsFiniteSet(Q \ {top}) /\ Cardinality(Q \ {top}) = Cardinality(Q) - 1
          /\ x \notin Q \ {top}
      BY <1>2, <1>7, <2>1, FS_RemoveElement
    <3>2. /\ IsFiniteSet((Q \ {top}) \cup {x})
          /\ Cardinality((Q \ {top}) \cup {x}) = Cardinality(Q \ {top}) + 1
      BY <3>1, FS_AddElement
    <3> QED
      BY <1>2, <2>1, <3>1, <3>2
  <2>5. Cardinality(Q') = Smaller(K + Ext, Cardinality(Visited'))
    BY <1>2, <1>8, <2>2, <2>4 DEF Smaller
  <2>6. \A y \in Q' : y \in Int \X Visited' /\ y[1] = est[y[2]].score
    BY <1>2, <1>5, <1>6, <2>1
  <2>7. \A y \in Q' : y[1] \in Int /\ top[1] <= y[1]
    BY <1>6, <1>7, <2>1, <2>3
  <2>8. ASSUME NEW u \in Visited' \ Inside' PROVE est[u].score <= top[1]
    <3>1. CASE u \in Visited \ Inside
      BY <1>9, <2>3, <3>1
    <3>2. CASE u \in Inside
      <4>1. PICK y \in Q : u = y[2]
        BY <1>3, <3>2
      <4>2. y = top
        BY <1>3, <2>1, <2>8, <4>1
      <4> QED
        BY <2>3, <4>1, <4>2
    <3>3. CASE u = v
      <4>1. x \notin Q'
        BY <1>3, <1>7, <2>8, <3>3
      <4> QED
        BY <1>6, <2>1, <2>3, <3>3, <4>1
    <3> QED
      BY <1>5, <2>8, <3>1, <3>2, <3>3
  <2>9. ASSUME NEW u \in Visited' \ Inside', NEW w \in Inside'
        PROVE  est[u].score <= est[w].score
    <3>1. PICK y \in Q' : w = y[2]
      BY <1>3
    <3>2. est[u].score \in Int /\ est[w].score \in Int
      BY <1>5, <1>6, <2>6, <3>1
    <3> QED
      BY <2>3, <2>6, <2>7, <2>8, <3>1, <3>2
  <2> QED
    BY <1>2, <2>2, <2>4, <2>5, <2>6, <2>9
<1> QED
  BY <1>a, <1>b

LEMMA LeavesVisit == BInv /\ (ReturnEarly \/ StartPops) => BInv'
<1> SUFFICES ASSUME BInv, ReturnEarly \/ StartPops PROVE BInv'
  OBVIOUS
<1>1. /\ pc = "visit" /\ todo = {} /\ Bq = << >> /\ Refine = << >> /\ Len(Bq) = 0
      /\ UNCHANGED <<est, todo, Q, Bq, rfWid, rank, Refine>>
      /\ pc' \in {"done", "pop"} /\ (pc' = "pop" => Cardinality(Q) > K)
  BY DEF ReturnEarly, StartPops, BInv, Phases
<1>2. Cardinality(Q) \in Nat
  BY TypeFacts DEF BInv
<1> QED
  BY <1>1, <1>2 DEF BInv, TypeOK, HeapHoldsBest, Inside, ItemsOf, Visited, Phases, HeapAbove,
     HeapTakesAll

LEMMA PopKeeps == BInv /\ Pop => BInv'
<1> SUFFICES ASSUME BInv, Pop PROVE BInv'
  OBVIOUS
<1>1. /\ pc = "pop" /\ Refine = << >> /\ todo = {} /\ Cardinality(Q) + Len(Bq) > K
      /\ UNCHANGED <<est, todo, rfWid, rank, Refine, pc>>
  BY DEF Pop, BInv, Phases
<1>2. PICK top \in Q : IsTop(top) /\ Bq' = <<top[2]>> \o Bq /\ Q' = Q \ {top}
  BY DEF Pop, IsTop
<1>3. /\ IsFiniteSet(Q) /\ Cardinality(Q) \in Nat /\ Len(Bq) \in Nat /\ est \in Estimates
      /\ Bq \in Seq(DOMAIN est)
      /\ \A y \in Q : y \in Int \X DOMAIN est /\ y[1] = est[y[2]].score
  BY TypeFacts DEF BInv, TypeOK
<1>4. /\ Bq' \in Seq(DOMAIN est) /\ Len(Bq') = Len(Bq) + 1 /\ Bq'[1] = top[2]
      /\ \A k \in 1..Len(Bq) : Bq'[k + 1] = Bq[k]
      /\ ItemsOf(Bq') = {top[2]} \cup ItemsOf(Bq)
  BY <1>2, <1>3, PrependFacts
<1>5. IsFiniteSet(Q') /\ Cardinality(Q') = Cardinality(Q) - 1
  BY <1>2, <1>3, FS_RemoveElement
<1>6. Cardinality(Q') + Len(Bq') = Cardinality(Q) + Len(Bq)
  BY <1>3, <1>4, <1>5
<1>7. Inside' = Inside
  <2>1. {y[2] : y \in Q} = {y[2] : y \in Q'} \cup {top[2]}
    BY <1>2
  <2> QED
    BY <1>4, <2>1 DEF Inside, ItemsOf
<1>8. \A y \in Q : y[1] \in Int /\ top[1] <= y[1]
  BY <1>2, <1>3 DEF IsTop, Less
<1>9. \A y \in Q' : y[2] # top[2]
  <2> SUFFICES ASSUME NEW y \in Q, y[2] = top[2] PROVE y = top
    BY <1>2
  <2>1. y = <<y[1], y[2]>> /\ top = <<top[1], top[2]>>
    BY <1>3
  <2>2. y[1] = top[1]
    BY <1>3
  <2> QED
    BY <2>1, <2>2
<1>10. \A k \in 1..Len(Bq') : k = 1 \/ \E l \in 1..Len(Bq) : k = l + 1
  <2> SUFFICES ASSUME NEW k \in 1..Len(Bq'), k # 1 PROVE \E l \in 1..Len(Bq) : k = l + 1
    OBVIOUS
  <2>1. k - 1 \in 1..Len(Bq) /\ k = (k - 1) + 1
    BY <1>3, <1>4
  <2> QED
    BY <2>1
<1>11. HeapAbove'
  <2> SUFFICES ASSUME NEW y \in Q', NEW k \in 1..Len(Bq')
               PROVE  y[2] # Bq'[k] /\ est[Bq'[k]].score <= y[1]
    BY <1>1 DEF HeapAbove
  <2>1. CASE k = 1
    BY <1>2, <1>3, <1>4, <1>8, <1>9, <2>1
  <2>2. CASE \E l \in 1..Len(Bq) : k = l + 1
    BY <1>2, <1>4, <2>2 DEF BInv, HeapAbove
  <2> QED
    BY <1>10, <2>1, <2>2
<1>12. ASSUME NEW k \in 1..Len(Bq'), NEW l \in 1..Len(Bq'), k < l
       PROVE  Bq'[k] # Bq'[l] /\ est[Bq'[k]].score >= est[Bq'[l]].score
  <2>1. PICK m \in 1..Len(Bq) : l = m + 1
    BY <1>10, <1>12
  <2>2. Bq'[l] = Bq[m]
    BY <1>4, <2>1
  <2>3. CASE k = 1
    <3>1. top[2] # Bq[m] /\ est[Bq[m]].score <= top[1] /\ top[1] = est[top[2]].score
      BY <1>2, <1>3, <2>1 DEF BInv, HeapAbove
    <3>2. est[Bq[m]].score \in Int /\ top[1] \in Int
      BY <1>2, <1>3, EstimateFacts, ElementOfSeq
    <3> QED
      BY <1>4, <2>2, <2>3, <3>1, <3>2
  <2>4. CASE \E n \in 1..Len(Bq) : k = n + 1
    <3>1. PICK n \in 1..Len(Bq) : k = n + 1
      BY <2>4
    <3>2. n < m /\ Bq'[k] = Bq[n]
      BY <1>4, <1>12, <2>1, <3>1
    <3> QED
      BY <2>2, <3>2 DEF BInv, TypeOK
  <2> QED
    BY <1>10, <2>3, <2>4
<1>13. TypeOK'
  BY <1>1, <1>2, <1>4, <1>5, <1>6, <1>12 DEF BInv, TypeOK, ItemsOf
<1>14. HeapHoldsBest'
  BY <1>1, <1>6, <1>7 DEF BInv, HeapHoldsBest
<1>15. Phases' /\ HeapTakesAll'
  BY <1>1, <1>6, <1>7 DEF BInv, Phases, HeapTakesAll, Visited
<1> QED
  BY <1>11, <1>13, <1>14, <1>15 DEF BInv

LEMMA StartDownKeeps == BInv /\ StartDown => BInv'
<1> SUFFICES ASSUME BInv, StartDown PROVE BInv'
  OBVIOUS
<1>1. /\ pc = "pop" /\ Q = {} /\ pc' = "down" /\ rank' = K /\ rfWid' \in Widths
      /\ Refine = << >> /\ todo = {} /\ Cardinality(Q) + Len(Bq) > K
      /\ UNCHANGED <<est, todo, Q, Bq, Refine>>
  BY DEF StartDown, BInv, Phases, FirstRank
<1>2. Cardinality(Q) = 0 /\ Len(Bq) \in Nat /\ K \in Nat \ {0} /\ Ext \in Nat
  BY <1>1, TypeFacts, FS_EmptySet DEF BInv
<1>3. TypeOK' /\ HeapHoldsBest' /\ HeapAbove' /\ HeapTakesAll'
  BY <1>1, <1>2
  DEF BInv, TypeOK, HeapHoldsBest, HeapAbove, HeapTakesAll, Inside, ItemsOf, Visited
<1>4. DownTo(rank)' /\ ListedFrom(rank, K + 1)'
  BY <1>1, <1>2 DEF DownTo, ListedFrom, ItemsOf
<1> QED
  BY <1>1, <1>2, <1>3, <1>4 DEF BInv, Phases

-----------------------------------------------------------------------------
(* The items at the border are listed.                                     *)

\* One more item of Bq goes to the list, or none; only the list, the rank and pc change.
LEMMA PushKeeps ==
    ASSUME BInv, pc \in {"down", "up"}, pc' = pc, rank' \in 0..(K + Ext + 1),
           UNCHANGED <<est, todo, Q, Bq, rfWid>>,
           rank \in 1..Len(Bq), Bq[rank] \notin ItemsOf(Refine),
           NEW isMet \in BOOLEAN, Push(isMet)
    PROVE  /\ TypeOK' /\ HeapHoldsBest' /\ HeapAbove' /\ HeapTakesAll'
           /\ ItemsOf(Refine') = ItemsOf(Refine) \cup (IF isMet THEN {Bq[rank]} ELSE {})
<1> DEFINE x == Bq[rank]
<1>1. Refine' = IF isMet THEN Append(Refine, x) ELSE Refine
  BY DEF Push
<1>2. Refine \in Seq(ItemsOf(Bq)) /\ x \in ItemsOf(Bq) /\ Distinct(Refine)
  BY DEF BInv, TypeOK, ItemsOf, Distinct
<1>3. /\ Append(Refine, x) \in Seq(ItemsOf(Bq))
      /\ ItemsOf(Append(Refine, x)) = ItemsOf(Refine) \cup {x}
      /\ Distinct(Append(Refine, x))
  BY <1>2, AppendFacts
<1>4. Refine' \in Seq(ItemsOf(Bq)) /\ Distinct(Refine')
  BY <1>1, <1>2, <1>3
<1>5. TypeOK'
  BY <1>4 DEF BInv, TypeOK, Distinct, ItemsOf
<1>6. HeapHoldsBest' /\ HeapAbove' /\ HeapTakesAll'
  BY DEF BInv, HeapHoldsBest, HeapAbove, HeapTakesAll, Inside, ItemsOf, Visited
<1> QED
  BY <1>1, <1>3, <1>5, <1>6

LEMMA LookDownKeeps == BInv /\ LookDown => BInv'
<1> SUFFICES ASSUME BInv, LookDown PROVE BInv'
  OBVIOUS
<1>1. /\ pc = "down" /\ pc' = pc /\ rank' = rank - 1 /\ InWindow
      /\ UNCHANGED <<est, todo, Q, Bq, rfWid>>
      /\ Push(ReachesDown(Bq[rank])) /\ ReachesDown(Bq[rank]) \in BOOLEAN
  BY DEF LookDown, ReachesDown
<1>2. /\ rank \in 1..K /\ rank \in 1..Len(Bq) /\ rank' \in 0..(K + Ext + 1)
      /\ K \in Nat \ {0} /\ Len(Bq) \in Nat /\ Len(Bq) > K /\ Q = {} /\ todo = {}
      /\ rfWid \in Int
  BY <1>1, TypeFacts DEF BInv, Phases, InWindow
<1>3. DownTo(rank) /\ ListedFrom(rank, K + 1)
  BY <1>1 DEF BInv, Phases
<1>4. Bq[rank] \notin ItemsOf(Refine)
  BY <1>2, <1>3 DEF ListedFrom, BInv, TypeOK
<1>5. /\ TypeOK' /\ HeapHoldsBest' /\ HeapAbove' /\ HeapTakesAll'
      /\ ItemsOf(Refine') = ItemsOf(Refine)
                              \cup (IF ReachesDown(Bq[rank]) THEN {Bq[rank]} ELSE {})
  BY <1>1, <1>2, <1>4, PushKeeps
<1>6. ListedFrom(rank, K + 1)'
  <2> SUFFICES ASSUME NEW v \in ItemsOf(Refine')
               PROVE  \E l \in 1..Len(Bq) : rank - 1 < l /\ l < K + 1 /\ v = Bq[l]
    BY <1>1 DEF ListedFrom, ItemsOf
  <2>1. CASE v \in ItemsOf(Refine)
    BY <1>2, <1>3, <2>1 DEF ListedFrom
  <2>2. CASE v = Bq[rank]
    BY <1>2, <2>2
  <2> QED
    BY <1>5, <2>1, <2>2
<1>7. DownTo(rank)'
  <2> SUFFICES ASSUME NEW k \in 1..K, rank - 1 < k, ReachesDown(Bq[k]), K - k < rfWid
               PROVE  Bq[k] \in ItemsOf(Refine')
    BY <1>1 DEF DownTo, ReachesDown, L, R, BetaMax, ItemsOf
  <2>1. CASE k = rank
    BY <1>5, <2>1
  <2>2. CASE rank < k
    BY <1>3, <1>5, <2>2 DEF DownTo
  <2> QED
    BY <1>2, <2>1, <2>2
<1> QED
  BY <1>1, <1>2, <1>5, <1>6, <1>7 DEF BInv, Phases

LEMMA StartUpKeeps == BInv /\ StartUp => BInv'
<1> SUFFICES ASSUME BInv, StartUp PROVE BInv'
  OBVIOUS
<1>1. /\ pc = "down" /\ pc' = "up" /\ rank' = K + 1 /\ ~ InWindow
      /\ UNCHANGED <<est, todo, Q, Bq, rfWid, Refine>>
  BY DEF StartUp
<1>2. /\ rank \in 0..K /\ rfWid \in Int /\ Ext \in Nat
      /\ K \in Nat \ {0} /\ Len(Bq) \in Nat /\ Len(Bq) > K /\ Q = {} /\ todo = {}
      /\ DownTo(rank) /\ ListedFrom(rank, K + 1)
  BY <1>1, TypeFacts DEF BInv, Phases
<1>3. TypeOK' /\ HeapHoldsBest' /\ HeapAbove' /\ HeapTakesAll'
  <2>1. rank' \in 0..(K + Ext + 1)
    BY <1>1, <1>2
  <2>2. TypeOK'
    BY <1>1, <2>1 DEF BInv, TypeOK, ItemsOf
  <2> QED
    BY <1>1, <2>2 DEF BInv, HeapHoldsBest, HeapAbove, HeapTakesAll, Inside, ItemsOf, Visited
<1>4. DownTo(0)
  \* Once the window is left, no rank further up is in it.
  <2> SUFFICES ASSUME NEW k \in 1..K, ReachesDown(Bq[k]), K - k < rfWid
               PROVE  Bq[k] \in ItemsOf(Refine)
    BY DEF DownTo
  <2>1. rank < k
    BY <1>1, <1>2 DEF InWindow
  <2> QED
    BY <1>2, <2>1 DEF DownTo
<1>5. ListedFrom(0, K + 1)
  BY <1>2 DEF ListedFrom
<1>6. DownTo(0)' /\ UpTo(rank)' /\ ListedFrom(0, rank)'
  <2>1. DownTo(0)'
    BY <1>1, <1>4 DEF DownTo, ReachesDown, L, R, BetaMax, ItemsOf
  <2>2. UpTo(rank)'
    BY <1>1, <1>2 DEF UpTo
  <2>3. ListedFrom(0, rank)'
    BY <1>1, <1>5 DEF ListedFrom, ItemsOf
  <2> QED
    BY <2>1, <2>2, <2>3
<1> QED
  BY <1>1, <1>2, <1>3, <1>6 DEF BInv, Phases

LEMMA LookUpKeeps == BInv /\ LookUp => BInv'
<1> SUFFICES ASSUME BInv, LookUp PROVE BInv'
  OBVIOUS
<1>1. /\ pc = "up" /\ pc' = pc /\ rank' = rank + 1 /\ rank <= Len(Bq)
      /\ UNCHANGED <<est, todo, Q, Bq, rfWid>>
      /\ Push(ReachesUp(Bq[rank])) /\ ReachesUp(Bq[rank]) \in BOOLEAN
  BY DEF LookUp, ReachesUp
<1>2. /\ rank \in Nat /\ K < rank /\ K \in Nat \ {0} /\ Len(Bq) \in Nat /\ Ext \in Nat
      /\ Len(Bq) > K /\ Q = {} /\ todo = {}
      /\ DownTo(0) /\ UpTo(rank) /\ ListedFrom(0, rank)
  BY <1>1, TypeFacts DEF BInv, Phases
<1>3. Len(Bq) <= K + Ext
  BY <1>2, FS_EmptySet DEF BInv, TypeOK
<1>4. rank \in 1..Len(Bq) /\ rank' \in 0..(K + Ext + 1)
  BY <1>1, <1>2, <1>3
<1>5. Bq[rank] \notin ItemsOf(Refine)
  BY <1>2, <1>4 DEF ListedFrom, BInv, TypeOK
<1>6. /\ TypeOK' /\ HeapHoldsBest' /\ HeapAbove' /\ HeapTakesAll'
      /\ ItemsOf(Refine') = ItemsOf(Refine)
                              \cup (IF ReachesUp(Bq[rank]) THEN {Bq[rank]} ELSE {})
  BY <1>1, <1>4, <1>5, PushKeeps
<1>7. ListedFrom(0, rank)'
  <2> SUFFICES ASSUME NEW v \in ItemsOf(Refine')
               PROVE  \E l \in 1..Len(Bq) : 0 < l /\ l < rank + 1 /\ v = Bq[l]
    BY <1>1 DEF ListedFrom, ItemsOf
  <2>1. CASE v \in ItemsOf(Refine)
    BY <1>2, <2>1 DEF ListedFrom
  <2>2. CASE v = Bq[rank]
    BY <1>4, <2>2
  <2> QED
    BY <1>6, <2>1, <2>2
<1>8. DownTo(0)'
  BY <1>1, <1>2, <1>6 DEF DownTo, ReachesDown, L, R, BetaMax, ItemsOf
<1>9. UpTo(rank)'
  <2> SUFFICES ASSUME NEW k \in (K + 1)..Len(Bq), k < rank + 1, ReachesUp(Bq[k])
               PROVE  Bq[k] \in ItemsOf(Refine')
    BY <1>1 DEF UpTo, ReachesUp, L, R, BetaMin, ItemsOf
  <2>1. CASE k = rank
    BY <1>6, <2>1
  <2>2. CASE k < rank
    BY <1>2, <1>6, <2>2 DEF UpTo
  <2> QED
    BY <1>2, <2>1, <2>2
<1> QED
  BY <1>1, <1>2, <1>4, <1>6, <1>7, <1>8, <1>9 DEF BInv, Phases

LEMMA FinishKeeps == BInv /\ Finish => BInv'
<1> SUFFICES ASSUME BInv, Finish PROVE BInv'
  OBVIOUS
<1>1. /\ pc = "up" /\ rank > Len(Bq) /\ pc' \in {"done", "refine"}
      /\ UNCHANGED <<est, todo, Q, Bq, rfWid, rank, Refine>>
  BY DEF Finish
<1>2. /\ rank \in Nat /\ rank <= Len(Bq) + 1 /\ Len(Bq) \in Nat /\ Len(Bq) > K
      /\ Q = {} /\ todo = {} /\ DownTo(0) /\ UpTo(rank)
  BY <1>1, TypeFacts DEF BInv, Phases
<1>3. rank = Len(Bq) + 1
  BY <1>1, <1>2
<1>4. TypeOK' /\ HeapHoldsBest' /\ HeapAbove' /\ HeapTakesAll'
  BY <1>1
  DEF BInv, TypeOK, HeapHoldsBest, HeapAbove, HeapTakesAll, Inside, ItemsOf, Visited
<1>5. DownTo(0)' /\ UpTo(Len(Bq) + 1)'
  BY <1>1, <1>2, <1>3 DEF DownTo, UpTo, ReachesDown, ReachesUp, L, R, BetaMax, BetaMin, ItemsOf
<1> QED
  BY <1>1, <1>2, <1>4, <1>5 DEF BInv, Phases

-----------------------------------------------------------------------------
(* The whole: the boundary stage, and the refinement of its list.          *)

\* What a refinement over all pairs has left.
RefinedRight ==
    /\ pc = "done" /\ todo = {} /\ Len(Bq) > K
    /\ DownTo(0) /\ UpTo(Len(Bq) + 1)
    /\ IntervalsHold(truth)
    /\ swing = [v \in Items |-> IF v \in Listed THEN truth[v] ELSE Sampled[v]]

KInv ==
    /\ BInv
    /\ truth \in [Items -> 0..Zeta]
    /\ pc # "done" => swing = Sampled /\ ~ exact
    /\ exact => RefinedRight

LEMMA InitKasc == KInit => KInv
<1>1. Zeta \in Nat
  BY ParametersOK
<1>2. ASSUME KInit PROVE truth \in [Items -> 0..Zeta]
  BY <1>1, <1>2 DEF KInit
<1> QED
  BY <1>2, InitBoundary DEF KInit, KInv, Init

LEMMA BoundaryKeeps == BInv /\ Next => BInv'
<1> SUFFICES ASSUME BInv, Next PROVE BInv'
  OBVIOUS
<1>1. CASE Visit       BY <1>1, VisitKeeps
<1>2. CASE ReturnEarly BY <1>2, LeavesVisit
<1>3. CASE StartPops   BY <1>3, LeavesVisit
<1>4. CASE Pop         BY <1>4, PopKeeps
<1>5. CASE StartDown   BY <1>5, StartDownKeeps
<1>6. CASE LookDown    BY <1>6, LookDownKeeps
<1>7. CASE StartUp     BY <1>7, StartUpKeeps
<1>8. CASE LookUp      BY <1>8, LookUpKeeps
<1>9. CASE Finish      BY <1>9, FinishKeeps
<1> QED
  BY <1>1, <1>2, <1>3, <1>4, <1>5, <1>6, <1>7, <1>8, <1>9 DEF Next

\* The boundary stage works on what the sampling has left and starts only once.
LEMMA BoundaryRuns == Next => pc # "done" /\ est' = est
BY DEF Next, Visit, ReturnEarly, StartPops, Pop, StartDown, LookDown, StartUp, LookUp, Finish

LEMMA KascKeeps == KInv /\ [KNext]_kvars => KInv'
<1> SUFFICES ASSUME KInv, [KNext]_kvars PROVE KInv'
  OBVIOUS
<1>1. CASE Boundary
  <2>1. BInv' /\ pc # "done" /\ est' = est /\ UNCHANGED <<swing, truth, exact>>
    BY <1>1, BoundaryKeeps, BoundaryRuns DEF KInv, Boundary
  <2> QED
    BY <2>1 DEF KInv, Sampled
<1>2. CASE RefineExactly
  <2>1. /\ pc = "refine" /\ pc' = "done" /\ exact'
        /\ truth' \in [Items -> 0..Zeta] /\ IntervalsHold(truth')
        /\ swing' = [v \in Items |-> IF v \in Listed THEN truth'[v] ELSE swing[v]]
        /\ UNCHANGED <<est, todo, Q, Bq, rfWid, rank, Refine>>
    BY <1>2 DEF RefineExactly, Refined
  <2>2. swing = Sampled
    BY <2>1 DEF KInv
  <2>3. BInv'
    BY <2>1 DEF KInv, BInv, TypeOK, HeapHoldsBest, Phases, HeapAbove, HeapTakesAll,
       Inside, ItemsOf, Visited
  <2>4. todo = {} /\ Len(Bq) > K /\ DownTo(0) /\ UpTo(Len(Bq) + 1)
    BY <2>1 DEF KInv, BInv, Phases
  <2>5. DownTo(0)' /\ UpTo(Len(Bq) + 1)'
    BY <2>1, <2>4
    DEF DownTo, UpTo, ReachesDown, ReachesUp, L, R, BetaMax, BetaMin, ItemsOf
  <2>6. IntervalsHold(truth)'
    BY <2>1 DEF IntervalsHold, L, R
  <2>7. swing' = [v \in Items |-> IF v \in Listed' THEN truth'[v] ELSE Sampled'[v]]
    BY <2>1, <2>2 DEF Listed, ItemsOf, Sampled
  <2> QED
    BY <2>1, <2>3, <2>4, <2>5, <2>6, <2>7 DEF KInv, RefinedRight
<1>3. CASE RefineByDraws
  <2>1. /\ pc = "refine" /\ pc' = "done" /\ ~ exact'
        /\ UNCHANGED <<est, todo, Q, Bq, rfWid, rank, Refine, truth>>
    BY <1>3 DEF RefineByDraws
  <2>2. BInv'
    BY <2>1 DEF KInv, BInv, TypeOK, HeapHoldsBest, Phases, HeapAbove, HeapTakesAll,
       Inside, ItemsOf, Visited
  <2> QED
    BY <2>1, <2>2 DEF KInv
<1>4. CASE UNCHANGED kvars
  BY <1>4 DEF KInv, BInv, TypeOK, HeapHoldsBest, Phases, HeapAbove, HeapTakesAll, Inside,
     ItemsOf, Visited, DownTo, UpTo, ListedFrom, ReachesDown, ReachesUp, L, R, BetaMax, BetaMin,
     RefinedRight, IntervalsHold, Listed, Sampled, kvars, vars
<1> QED
  BY <1>1, <1>2, <1>3, <1>4 DEF KNext, Terminating

\* Every variable of the boundary stage keeps its type; heap, Bq and list hold visited
\* items, Bq is in the order of the scores, and no item is in it, or in the list, twice.
THEOREM BoundaryTypes == KSpec => []TypeOK
<1>1. KInv => TypeOK
  BY DEF KInv, BInv
<1> QED
  BY <1>1, InitKasc, KascKeeps, PTL DEF KSpec

\* Whatever the order in which the loop over Act meets the items, the heap and Bq hold
\* the K + Ext best of those it has met.
THEOREM HeapHoldsTheBest == KSpec => []HeapHoldsBest
<1>1. KInv => HeapHoldsBest
  BY DEF KInv, BInv
<1> QED
  BY <1>1, InitKasc, KascKeeps, PTL DEF KSpec

-----------------------------------------------------------------------------
(* Two rankings that put K items first: what one has and the other has     *)
(* not is exchanged for what the other has.                                *)

LEMMA Exchange ==
    ASSUME NEW S, NEW T, IsFiniteSet(S), IsFiniteSet(T), Cardinality(S) = Cardinality(T),
           NEW a \in T \ S
    PROVE  \E x \in S : x \notin T
<1> SUFFICES ASSUME S \subseteq T PROVE FALSE
  OBVIOUS
<1>1. T = S
  BY FS_Subset
<1> QED
  BY <1>1

Tops == {Bq[k] : k \in 1..K}

LEMMA TopsCounted ==
    ASSUME TypeOK, Len(Bq) > K
    PROVE  Tops \subseteq Items /\ IsFiniteSet(Tops) /\ Cardinality(Tops) = K
<1>1. K \in Nat \ {0} /\ Len(Bq) \in Nat /\ \A k \in 1..Len(Bq) : Bq[k] \in DOMAIN est
  BY TypeFacts
<1>2. 1..K \subseteq 1..Len(Bq)
  BY <1>1
<1>3. Tops \subseteq Items /\ IsFiniteSet(Items)
  BY <1>1, <1>2, ItemsOK DEF Tops, TypeOK
<1>4. \A k, l \in 1..K : k < l => Bq[k] # Bq[l]
  BY <1>2 DEF TypeOK
<1> DEFINE f == [k \in 1..K |-> Bq[k]]
<1>5. f \in [1..K -> Tops]
  BY DEF Tops
<1>6. \A k, l \in 1..K : f[k] = f[l] => k = l
  BY <1>1, <1>4
<1>7. \A x \in Tops : \E k \in 1..K : f[k] = x
  BY DEF Tops
<1>8. f \in Bijection(1..K, Tops)
  BY <1>5, <1>6, <1>7 DEF Bijection, Injection, IsInjective, Surjection
<1>9. Cardinality(Tops) = K
  BY <1>1, <1>8, FS_CountingElements DEF ExistsBijection
<1> QED
  BY <1>3, <1>9, FS_Subset

\* An item is certainly above the border, has its true score, or is certainly below.
CertainlyAbove(u) ==
    /\ u \in Tops
    /\ swing[u] > BetaMax /\ swing[u] >= BetaMin
    /\ truth[u] >= BetaMax /\ truth[u] >= BetaMin
Corrected(u) ==
    /\ swing[u] = truth[u]
    /\ u \in Tops => truth[u] >= BetaMin
    /\ u \notin Tops => truth[u] <= BetaMax
CertainlyBelow(u) ==
    /\ u \notin Tops
    /\ truth[u] <= BetaMin
    /\ swing[u] < BetaMin \/ swing[u] = 0

LEMMA Placed ==
    ASSUME KInv, exact, WindowEnough, BorderReachesFarthest, NEW u \in Items
    PROVE  /\ swing[u] \in Int /\ truth[u] \in Nat /\ BetaMin \in Int /\ BetaMax \in Nat
           /\ CertainlyAbove(u) \/ Corrected(u) \/ CertainlyBelow(u)
<1>1. /\ TypeOK /\ truth \in [Items -> 0..Zeta] /\ Len(Bq) > K
      /\ DownTo(0) /\ UpTo(Len(Bq) + 1) /\ IntervalsHold(truth)
      /\ swing = [v \in Items |-> IF v \in Listed THEN truth[v] ELSE Sampled[v]]
  BY DEF KInv, BInv, RefinedRight
<1>2. /\ K \in Nat \ {0} /\ Zeta \in Nat /\ Len(Bq) \in Nat /\ rfWid \in Int
      /\ est \in Estimates /\ \A k \in 1..Len(Bq) : Bq[k] \in DOMAIN est
  BY <1>1, TypeFacts
<1>3. 1..K \subseteq 1..Len(Bq) /\ K \in 1..Len(Bq) /\ K + 1 \in 1..Len(Bq)
  BY <1>1, <1>2
<1>4. \A v \in DOMAIN est : /\ est[v].score \in Nat \ {0} /\ est[v].score <= Zeta
                            /\ L(v) \in Int /\ R(v) \in Int
                            /\ L(v) < est[v].score /\ est[v].score < R(v)
  BY <1>2, BoundFacts
<1>5. /\ L(Bq[K]) \in Int /\ R(Bq[K + 1]) \in Int
      /\ BetaMin \in Int /\ BetaMin <= L(Bq[K])
      /\ BetaMax \in Nat /\ R(Bq[K + 1]) <= BetaMax
  BY <1>2, <1>3, <1>4 DEF BetaMin, BetaMax, Smaller, Larger
<1>6. Listed \subseteq ItemsOf(Bq)
  <2>1. Refine \in Seq(ItemsOf(Bq))
    BY <1>1 DEF TypeOK
  <2>2. \A k \in 1..Len(Refine) : Refine[k] \in ItemsOf(Bq)
    BY <2>1, ElementOfSeq
  <2> QED
    BY <2>2 DEF Listed, ItemsOf
<1>7. /\ truth[u] \in Nat
      /\ swing[u] = IF u \in Listed THEN truth[u] ELSE Sampled[u]
      /\ u \in DOMAIN est => L(u) <= truth[u] /\ truth[u] <= R(u)
      /\ Sampled[u] = IF u \in DOMAIN est THEN est[u].score ELSE 0
  <2>1. truth[u] \in Nat /\ swing[u] = IF u \in Listed THEN truth[u] ELSE Sampled[u]
    BY <1>1, <1>2
  <2>2. truth[u] \in IF u \in DOMAIN est THEN L(u)..R(u) ELSE Unseen
    BY <1>1 DEF IntervalsHold
  <2>3. u \in DOMAIN est => L(u) <= truth[u] /\ truth[u] <= R(u)
    BY <1>4, <2>1, <2>2
  <2> QED
    BY <2>1, <2>3 DEF Sampled
<1>8. swing[u] \in Int
  BY <1>4, <1>7
<1>9. CASE u \in Tops
  <2>1. PICK k \in 1..K : u = Bq[k]
    BY <1>9 DEF Tops
  <2>2. u \in DOMAIN est /\ L(Bq[K]) <= L(u)
    BY <1>2, <1>3, <2>1 DEF BorderReachesFarthest
  <2>3. truth[u] >= BetaMin
    BY <1>4, <1>5, <1>7, <2>2
  <2>4. CASE u \in Listed
    BY <1>5, <1>7, <1>8, <1>9, <2>3, <2>4 DEF Corrected
  <2>5. CASE u \notin Listed
    <3>1. ~ (L(u) < BetaMax)
      BY <1>1, <1>2, <2>1, <2>5 DEF WindowEnough, DownTo, ReachesDown, Listed
    <3>2. swing[u] = est[u].score
      BY <1>7, <2>2, <2>5
    <3> QED
      BY <1>4, <1>5, <1>7, <1>9, <2>2, <2>3, <3>1, <3>2 DEF CertainlyAbove
  <2> QED
    BY <1>5, <1>7, <1>8, <2>4, <2>5
<1>10. CASE u \in ItemsOf(Bq) \ Tops
  <2>1. PICK k \in 1..Len(Bq) : u = Bq[k]
    BY <1>10 DEF ItemsOf
  <2>2. k \in (K + 1)..Len(Bq)
    BY <1>2, <1>10, <2>1 DEF Tops
  <2>3. u \in DOMAIN est /\ R(u) <= R(Bq[K + 1])
    BY <1>2, <2>1, <2>2 DEF BorderReachesFarthest
  <2>4. CASE u \in Listed
    <3>1. truth[u] <= BetaMax
      BY <1>4, <1>5, <1>7, <2>3
    <3> QED
      BY <1>5, <1>7, <1>8, <1>10, <2>4, <3>1 DEF Corrected
  <2>5. CASE u \notin Listed
    <3>1. ~ (R(u) > BetaMin)
      BY <1>1, <1>2, <2>1, <2>2, <2>5 DEF UpTo, ReachesUp, Listed
    <3>2. swing[u] = est[u].score
      BY <1>7, <2>3, <2>5
    <3>3. swing[u] < BetaMin /\ truth[u] <= BetaMin
      BY <1>4, <1>5, <1>7, <2>3, <3>1, <3>2
    <3> QED
      BY <1>5, <1>7, <1>8, <1>10, <3>3 DEF CertainlyBelow
  <2> QED
    BY <2>4, <2>5
<1>11. CASE u \in DOMAIN est \ ItemsOf(Bq)
  <2>1. R(u) <= BetaMin
    BY <1>11 DEF BorderReachesFarthest
  <2>2. swing[u] = est[u].score
    BY <1>6, <1>7, <1>11
  <2>3. swing[u] < BetaMin /\ truth[u] <= BetaMin
    BY <1>4, <1>5, <1>7, <1>11, <2>1, <2>2
  <2>4. u \notin Tops
    BY <1>3, <1>11 DEF Tops, ItemsOf
  <2> QED
    BY <1>5, <1>7, <1>8, <2>3, <2>4 DEF CertainlyBelow
<1>12. CASE u \notin DOMAIN est
  <2>1. truth[u] <= BetaMin
    BY <1>12 DEF BorderReachesFarthest
  <2>2. u \notin ItemsOf(Bq) /\ u \notin Tops
    BY <1>2, <1>3, <1>12 DEF Tops, ItemsOf
  <2>3. swing[u] = 0
    BY <1>6, <1>7, <1>12, <2>2
  <2> QED
    BY <1>5, <1>7, <1>8, <2>1, <2>2, <2>3 DEF CertainlyBelow
<1> QED
  BY <1>9, <1>10, <1>11, <1>12

LEMMA TopKFollows == KInv => TopKRight
<1> SUFFICES ASSUME KInv, exact, WindowEnough, BorderReachesFarthest,
                    NEW S \in BestByScore, NEW v \in S, NEW w \in Items \ S
             PROVE  truth[v] >= truth[w]
  BY DEF TopKRight
<1>1. /\ S \subseteq Items /\ Cardinality(S) = K
      /\ \A x \in S, y \in Items \ S : swing[x] >= swing[y]
  BY DEF BestByScore
<1>2. Tops \subseteq Items /\ IsFiniteSet(Tops) /\ Cardinality(Tops) = K
  BY TopsCounted DEF KInv, BInv, RefinedRight
<1>3. IsFiniteSet(S)
  BY <1>1, ItemsOK, FS_Subset
<1>4. \A u \in Items : /\ swing[u] \in Int /\ truth[u] \in Nat
                       /\ CertainlyAbove(u) \/ Corrected(u) \/ CertainlyBelow(u)
  BY Placed
<1>5. BetaMin \in Int /\ BetaMax \in Nat
  BY Placed
<1>6. swing[v] >= swing[w] /\ v \in Items /\ w \in Items
  BY <1>1
\* A first item outside S leaves room in S for an item that is not among the first.
<1>7. ASSUME w \in Tops
      PROVE  \E x \in S : x \in Items \ Tops /\ swing[x] >= swing[w]
  BY <1>1, <1>2, <1>3, <1>7, Exchange
<1>8. ASSUME v \notin Tops
      PROVE  \E y \in Tops : y \in Items /\ swing[v] >= swing[y]
  BY <1>1, <1>2, <1>3, <1>8, Exchange
<1>9. ASSUME v \notin Tops PROVE swing[v] >= BetaMin
  <2>1. PICK y \in Tops : y \in Items /\ swing[v] >= swing[y]
    BY <1>8, <1>9
  <2>2. swing[y] >= BetaMin
    BY <1>4, <1>5, <2>1 DEF CertainlyAbove, Corrected, CertainlyBelow
  <2> QED
    BY <1>4, <1>5, <1>6, <2>1, <2>2
\* w is an item that the border has surely left above.
<1>10. CASE CertainlyAbove(w)
  <2>1. PICK x \in S : x \in Items \ Tops /\ swing[x] >= swing[w]
    BY <1>7, <1>10 DEF CertainlyAbove
  <2>2. swing[w] > BetaMax /\ swing[w] >= BetaMin /\ swing[w] \in Int /\ swing[x] \in Int
    BY <1>4, <1>6, <1>10, <2>1 DEF CertainlyAbove
  <2>3. ~ (swing[x] < BetaMin \/ swing[x] = 0 \/ swing[x] <= BetaMax)
    BY <1>5, <2>1, <2>2
  <2>4. CASE Corrected(x)
    BY <2>1, <2>3, <2>4 DEF Corrected
  <2>5. CASE CertainlyBelow(x)
    BY <2>3, <2>5 DEF CertainlyBelow
  <2> QED
    BY <1>4, <2>1, <2>4, <2>5 DEF CertainlyAbove
<1>11. CASE CertainlyBelow(w)
  <2>1. truth[w] <= BetaMin
    BY <1>11 DEF CertainlyBelow
  <2>2. CASE CertainlyAbove(v)
    BY <1>4, <1>5, <1>6, <2>1, <2>2 DEF CertainlyAbove
  <2>3. CASE Corrected(v)
    <3>1. truth[v] >= BetaMin
      BY <1>9, <2>3 DEF Corrected
    <3> QED
      BY <1>4, <1>5, <1>6, <2>1, <3>1
  <2>4. CASE CertainlyBelow(v)
    <3>1. swing[v] >= BetaMin /\ (swing[v] < BetaMin \/ swing[v] = 0)
      BY <1>9, <2>4 DEF CertainlyBelow
    <3>2. BetaMin <= 0
      BY <1>4, <1>5, <1>6, <3>1
    <3> QED
      BY <1>4, <1>5, <1>6, <2>1, <3>2
  <2> QED
    BY <1>4, <1>6, <2>2, <2>3, <2>4
<1>12. CASE Corrected(w)
  <2>1. CASE Corrected(v)
    BY <1>6, <1>12, <2>1 DEF Corrected
  <2>2. CASE CertainlyBelow(v)
    <3>1. swing[v] >= BetaMin /\ (swing[v] < BetaMin \/ swing[v] = 0)
      BY <1>9, <2>2 DEF CertainlyBelow
    <3>2. swing[v] = 0
      BY <1>4, <1>5, <1>6, <3>1
    <3>3. truth[w] = swing[w]
      BY <1>12 DEF Corrected
    <3> QED
      BY <1>4, <1>6, <3>2, <3>3
  <2>3. CASE CertainlyAbove(v)
    <3>1. truth[v] >= BetaMax /\ truth[v] >= BetaMin
      BY <2>3 DEF CertainlyAbove
    <3>2. CASE w \notin Tops
      BY <1>4, <1>5, <1>6, <1>12, <3>1, <3>2 DEF Corrected
    <3>3. CASE w \in Tops
      <4>1. PICK x \in S : x \in Items \ Tops /\ swing[x] >= swing[w]
        BY <1>7, <3>3
      <4>2. truth[w] = swing[w] /\ truth[w] >= BetaMin
        BY <1>12, <3>3 DEF Corrected
      <4>3. swing[x] <= BetaMax \/ swing[x] < BetaMin \/ swing[x] = 0
        BY <1>4, <4>1 DEF CertainlyAbove, Corrected, CertainlyBelow
      <4> QED
        BY <1>4, <1>5, <1>6, <3>1, <4>1, <4>2, <4>3
    <3> QED
      BY <3>2, <3>3
  <2> QED
    BY <1>4, <1>6, <2>1, <2>2, <2>3
<1> QED
  BY <1>4, <1>6, <1>10, <1>11, <1>12

\* FastKASC finds the K best items, although it corrects only the scores it lists: if
\* the true scores lie in the intervals, the refinement goes over all pairs, the window
\* is wide enough and the border reaches farthest, no item that is ranked among the
\* first K is truly worse than one that is not.
THEOREM TopKIsRight == KSpec => []TopKRight
BY InitKasc, KascKeeps, TopKFollows, PTL DEF KSpec
=============================================================================
