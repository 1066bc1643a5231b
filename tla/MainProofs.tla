----------------------------- MODULE MainProofs -----------------------------
(***************************************************************************)
(* What main does around the scoring, for every edge file, every choice of *)
(* the sorts and samples, and every series of runs.  Loading (GraphLoad):  *)
(* a file of numbers is entered line by line on both sides, and the sum    *)
(* kept with an item is that of the lists of the users its queries go      *)
(* over.  Renumbering (Reorder): every order of the items is a             *)
(* permutation, and the queue of SampleOrder yields the heaviest item of   *)
(* the window.  Runs (Driver): every query is recorded once, by its own    *)
(* scores, and the rows of all runs fit the headers of the result files.   *)
(***************************************************************************)
EXTENDS GraphLoad, Reorder, Driver, SumsProofs, SequenceTheorems

-----------------------------------------------------------------------------
(* Loading: the invariant.                                                 *)

DegreesFit ==
    /\ \A w \in User : udeg[w] = Len(uedges[w])
    /\ \A x \in Item : vdeg[x] = Len(vedges[x])

\* The lines that are entered so far; u and v hold the last one.
NumEntered == (pos \div 2) + (pos % 2)
Entered ==
    [k \in 1..NumEntered |->
        IF k <= pos \div 2 THEN <<file[2 * k - 1], file[2 * k]>> ELSE <<file[pos], vRead>>]

\* A file of numbers is read by twos, unless it ends inside a pair.
ReadByTwos ==
    /\ pos % 2 = 1 => pos = Len(file)
    /\ vRead \in IF pos \div 2 > 0 THEN {file[2 * (pos \div 2)]} ELSE 0..NumItems

NumbersEntered == AllNumbers /\ phase # "exit" => ReadByTwos /\ Holds(Entered)

LoadInv == LoadTypeOK /\ DegreesFit /\ NumbersEntered /\ NeighbourSums

-----------------------------------------------------------------------------
(* Lists that grow, and sums over them.                                    *)

\* A line behind the others: no earlier line is counted otherwise.
LEMMA LinesUpTo ==
    ASSUME NEW n \in Nat, NEW lines, NEW more, \A k \in 1..n : more[k] = lines[k], NEW l \in 1..n
    PROVE  /\ \A w : OfUser(more, l, w) = OfUser(lines, l, w)
           /\ \A x : OfItem(more, l, x) = OfItem(lines, l, x)
<1>1. \A k \in 1..l : k \in 1..n
  OBVIOUS
<1> QED
  BY <1>1 DEF OfUser, OfItem

LEMMA OneMore ==
    ASSUME NEW n \in Nat, NEW A \in SUBSET (1..n)
    PROVE  /\ IsFiniteSet(A) /\ Cardinality(A) \in Nat
           /\ Cardinality(A \cup {n + 1}) = Cardinality(A) + 1
<1>1. IsFiniteSet(1..n)
  BY FS_Interval
<1>2. IsFiniteSet(A) /\ Cardinality(A) \in Nat
  BY <1>1, FS_Subset, FS_CardinalityType
<1>3. n + 1 \notin A
  OBVIOUS
<1> QED
  BY <1>2, <1>3, FS_AddElement

\* The number of a line among those of its user, and of its item.
LEMMA PlaceOf ==
    ASSUME NEW n \in Nat, NEW lines, NEW l \in 1..n
    PROVE  /\ \A w : /\ Cardinality(OfUser(lines, l, w)) \in Nat
                     /\ Cardinality(OfUser(lines, n, w)) \in Nat
                     /\ Cardinality(OfUser(lines, l, w)) <= Cardinality(OfUser(lines, n, w))
           /\ \A x : /\ Cardinality(OfItem(lines, l, x)) \in Nat
                     /\ Cardinality(OfItem(lines, n, x)) \in Nat
                     /\ Cardinality(OfItem(lines, l, x)) <= Cardinality(OfItem(lines, n, x))
           /\ Cardinality(OfUser(lines, l, lines[l][1])) >= 1
           /\ Cardinality(OfItem(lines, l, lines[l][2])) >= 1
<1>1. IsFiniteSet(1..n)
  BY FS_Interval
<1>2. \A S, T : S \subseteq T /\ T \subseteq 1..n =>
         /\ IsFiniteSet(S) /\ IsFiniteSet(T) /\ Cardinality(S) \in Nat /\ Cardinality(T) \in Nat
         /\ Cardinality(S) <= Cardinality(T)
  <2> TAKE S, T
  <2> HAVE S \subseteq T /\ T \subseteq 1..n
  <2> QED
    BY <1>1, FS_Subset, FS_CardinalityType
<1>3. \A w : OfUser(lines, l, w) \subseteq OfUser(lines, n, w) /\ OfUser(lines, n, w) \subseteq 1..n
  BY DEF OfUser
<1>4. \A x : OfItem(lines, l, x) \subseteq OfItem(lines, n, x) /\ OfItem(lines, n, x) \subseteq 1..n
  BY DEF OfItem
<1>5. \A S, e : IsFiniteSet(S) /\ e \in S => Cardinality(S) >= 1
  <2> TAKE S, e
  <2> HAVE IsFiniteSet(S) /\ e \in S
  <2>1. Cardinality(S) \in Nat /\ Cardinality(S) # 0
    BY FS_CardinalityType, FS_EmptySet
  <2> QED
    BY <2>1
<1>6. l \in OfUser(lines, l, lines[l][1]) /\ l \in OfItem(lines, l, lines[l][2])
  BY DEF OfUser, OfItem
<1>7. /\ IsFiniteSet(OfUser(lines, l, lines[l][1]))
      /\ IsFiniteSet(OfItem(lines, l, lines[l][2]))
  BY <1>2, <1>3, <1>4
<1> QED
  BY <1>2, <1>3, <1>4, <1>5, <1>6, <1>7

\* The entry of a list that one edge makes longer.
LEMMA ListGrows ==
    ASSUME NEW K, NEW L, NEW f \in [K -> Seq(L)], NEW e \in K, NEW y \in L,
           NEW g, g = [f EXCEPT ![e] = Append(@, y)]
    PROVE  /\ g \in [K -> Seq(L)]
           /\ Len(g[e]) = Len(f[e]) + 1 /\ g[e][Len(f[e]) + 1] = y
           /\ \A k \in K : k # e => g[k] = f[k]
           /\ \A k \in K : \A m \in 1..Len(f[k]) : g[k][m] = f[k][m]
<1>1. f[e] \in Seq(L) /\ g[e] = Append(f[e], y) /\ \A k \in K : k # e => g[k] = f[k]
  OBVIOUS
<1>2. /\ Append(f[e], y) \in Seq(L) /\ Len(Append(f[e], y)) = Len(f[e]) + 1
      /\ Append(f[e], y)[Len(f[e]) + 1] = y
      /\ \A m \in 1..Len(f[e]) : Append(f[e], y)[m] = f[e][m]
  BY <1>1, AppendProperties
<1> QED
  BY <1>1, <1>2

\* The lists hold one line more.
LEMMA HoldsGrows ==
    ASSUME LoadTypeOK, NEW w \in User, NEW x \in Item, AddEdge(w, x),
           NEW n \in Nat, NEW lines, Len(lines) = n, NEW more, Len(more) = n + 1,
           \A k \in 1..n : more[k] = lines[k], more[n + 1] = <<w, x>>, Holds(lines)
    PROVE  /\ \A y \in User : Len(uedges'[y]) = Cardinality(OfUser(more, Len(more), y))
           /\ \A y \in Item : Len(vedges'[y]) = Cardinality(OfItem(more, Len(more), y))
           /\ \A l \in 1..Len(more) :
                 /\ more[l][1] \in User
                 /\ uedges'[more[l][1]][Cardinality(OfUser(more, l, more[l][1]))] = more[l][2]
                 /\ more[l][2] \in Item
                 /\ vedges'[more[l][2]][Cardinality(OfItem(more, l, more[l][2]))] = more[l][1]
<1>1. /\ uedges \in [User -> Seq(Item)] /\ vedges \in [Item -> Seq(User)]
      /\ uedges' = [uedges EXCEPT ![w] = Append(@, x)]
      /\ vedges' = [vedges EXCEPT ![x] = Append(@, w)]
  BY DEF LoadTypeOK, AddEdge
<1>2. /\ Len(uedges'[w]) = Len(uedges[w]) + 1 /\ uedges'[w][Len(uedges[w]) + 1] = x
      /\ \A k \in User : k # w => uedges'[k] = uedges[k]
      /\ \A k \in User : \A m \in 1..Len(uedges[k]) : uedges'[k][m] = uedges[k][m]
  BY <1>1, ListGrows
<1>3. /\ Len(vedges'[x]) = Len(vedges[x]) + 1 /\ vedges'[x][Len(vedges[x]) + 1] = w
      /\ \A k \in Item : k # x => vedges'[k] = vedges[k]
      /\ \A k \in Item : \A m \in 1..Len(vedges[k]) : vedges'[k][m] = vedges[k][m]
  BY <1>1, ListGrows
<1>4. /\ \A y \in User : Len(uedges[y]) = Cardinality(OfUser(lines, n, y))
      /\ \A y \in Item : Len(vedges[y]) = Cardinality(OfItem(lines, n, y))
      /\ \A l \in 1..n :
            /\ lines[l][1] \in User
            /\ uedges[lines[l][1]][Cardinality(OfUser(lines, l, lines[l][1]))] = lines[l][2]
            /\ lines[l][2] \in Item
            /\ vedges[lines[l][2]][Cardinality(OfItem(lines, l, lines[l][2]))] = lines[l][1]
  BY DEF Holds
<1>5. /\ \A y : OfUser(more, n + 1, y) = IF y = w THEN OfUser(lines, n, y) \cup {n + 1}
                                                  ELSE OfUser(lines, n, y)
      /\ \A y : OfItem(more, n + 1, y) = IF y = x THEN OfItem(lines, n, y) \cup {n + 1}
                                                  ELSE OfItem(lines, n, y)
  <2>1. \A k \in 1..(n + 1) : k \in 1..n \/ k = n + 1
    OBVIOUS
  <2>2. 1..n \subseteq 1..(n + 1) /\ n + 1 \in 1..(n + 1)
    OBVIOUS
  <2> QED
    BY <2>1, <2>2 DEF OfUser, OfItem
<1>6. /\ \A y : OfUser(lines, n, y) \in SUBSET (1..n)
      /\ \A y : OfItem(lines, n, y) \in SUBSET (1..n)
  BY DEF OfUser, OfItem
<1>7. /\ \A y : Cardinality(OfUser(lines, n, y) \cup {n + 1}) = Cardinality(OfUser(lines, n, y)) + 1
      /\ \A y : Cardinality(OfItem(lines, n, y) \cup {n + 1}) = Cardinality(OfItem(lines, n, y)) + 1
  BY <1>6, OneMore
<1>8. ASSUME NEW y \in User PROVE Len(uedges'[y]) = Cardinality(OfUser(more, n + 1, y))
  <2>1. Len(uedges[y]) = Cardinality(OfUser(lines, n, y))
    BY <1>4
  <2>2. CASE y = w
    <3>1. OfUser(more, n + 1, w) = OfUser(lines, n, w) \cup {n + 1}
      BY <1>5
    <3> QED
      BY ONLY <1>2, <1>7, <2>1, <2>2, <3>1
  <2>3. CASE y # w
    <3>1. OfUser(more, n + 1, y) = OfUser(lines, n, y) /\ uedges'[y] = uedges[y]
      BY <1>2, <1>5, <2>3
    <3> QED
      BY <2>1, <3>1
  <2> QED
    BY <2>2, <2>3
<1>9. ASSUME NEW y \in Item PROVE Len(vedges'[y]) = Cardinality(OfItem(more, n + 1, y))
  <2>1. Len(vedges[y]) = Cardinality(OfItem(lines, n, y))
    BY <1>4
  <2>2. CASE y = x
    <3>1. OfItem(more, n + 1, x) = OfItem(lines, n, x) \cup {n + 1}
      BY <1>5
    <3> QED
      BY ONLY <1>3, <1>7, <2>1, <2>2, <3>1
  <2>3. CASE y # x
    <3>1. OfItem(more, n + 1, y) = OfItem(lines, n, y) /\ vedges'[y] = vedges[y]
      BY <1>3, <1>5, <2>3
    <3> QED
      BY <2>1, <3>1
  <2> QED
    BY <2>2, <2>3
<1>10. ASSUME NEW l \in 1..n
       PROVE  /\ more[l][1] \in User
              /\ uedges'[more[l][1]][Cardinality(OfUser(more, l, more[l][1]))] = more[l][2]
              /\ more[l][2] \in Item
              /\ vedges'[more[l][2]][Cardinality(OfItem(more, l, more[l][2]))] = more[l][1]
  <2> DEFINE a == lines[l][1]
             b == lines[l][2]
  <2>1. /\ \A y : OfUser(more, l, y) = OfUser(lines, l, y)
        /\ \A y : OfItem(more, l, y) = OfItem(lines, l, y)
    BY ONLY n \in Nat, l \in 1..n, \A k \in 1..n : more[k] = lines[k], LinesUpTo
  <2>2. /\ a \in User /\ b \in Item /\ more[l] = lines[l]
        /\ uedges[a][Cardinality(OfUser(lines, l, a))] = b
        /\ vedges[b][Cardinality(OfItem(lines, l, b))] = a
    BY <1>4
  <2>3. /\ Cardinality(OfUser(lines, l, a)) \in 1..Len(uedges[a])
        /\ Cardinality(OfItem(lines, l, b)) \in 1..Len(vedges[b])
    <3>1. /\ Len(uedges[a]) = Cardinality(OfUser(lines, n, a))
          /\ Len(vedges[b]) = Cardinality(OfItem(lines, n, b))
      BY <1>4, <2>2
    <3>2. /\ \A y : /\ Cardinality(OfUser(lines, l, y)) \in Nat
                     /\ Cardinality(OfUser(lines, n, y)) \in Nat
                     /\ Cardinality(OfUser(lines, l, y)) <= Cardinality(OfUser(lines, n, y))
          /\ \A y : /\ Cardinality(OfItem(lines, l, y)) \in Nat
                     /\ Cardinality(OfItem(lines, n, y)) \in Nat
                     /\ Cardinality(OfItem(lines, l, y)) <= Cardinality(OfItem(lines, n, y))
          /\ Cardinality(OfUser(lines, l, a)) >= 1
          /\ Cardinality(OfItem(lines, l, b)) >= 1
      BY ONLY n \in Nat, l \in 1..n, PlaceOf
    <3> HIDE DEF a, b
    <3> QED
      BY ONLY <3>1, <3>2
  <2> DEFINE i == Cardinality(OfUser(lines, l, a))
             j == Cardinality(OfItem(lines, l, b))
  <2>4. uedges[a][i] = b /\ i \in 1..Len(uedges[a]) /\ vedges[b][j] = a /\ j \in 1..Len(vedges[b])
    BY ONLY <2>2, <2>3
  <2>5. /\ more[l] = lines[l] /\ a \in User /\ b \in Item
        /\ Cardinality(OfUser(more, l, a)) = i /\ Cardinality(OfItem(more, l, b)) = j
    BY ONLY <2>1, <2>2
  <2> HIDE DEF i, j
  <2>6. uedges'[a][i] = b
    BY <1>2, <2>4, <2>5
  <2>7. vedges'[b][j] = a
    BY <1>3, <2>4, <2>5
  <2> QED
    BY ONLY <2>5, <2>6, <2>7
<1>11. /\ more[n + 1][1] = w /\ more[n + 1][2] = x
       /\ uedges'[w][Cardinality(OfUser(more, n + 1, w))] = x
       /\ vedges'[x][Cardinality(OfItem(more, n + 1, x))] = w
  <2>1. /\ Len(uedges'[w]) = Cardinality(OfUser(more, n + 1, w))
        /\ Len(vedges'[x]) = Cardinality(OfItem(more, n + 1, x))
    BY <1>8, <1>9
  <2> QED
    BY <1>2, <1>3, <2>1
<1>12. \A l \in 1..(n + 1) : l \in 1..n \/ l = n + 1
  OBVIOUS
<1> QED
  BY <1>8, <1>9, <1>10, <1>11, <1>12

-----------------------------------------------------------------------------
(* Reading.                                                                *)

LEMMA EnteredFacts ==
    ASSUME LoadTypeOK
    PROVE  /\ NumEntered \in Nat /\ Len(Entered) = NumEntered
           /\ \A k \in 1..NumEntered :
                 Entered[k] = IF k <= pos \div 2 THEN <<file[2 * k - 1], file[2 * k]>>
                                                 ELSE <<file[pos], vRead>>
<1>1. pos \in Nat
  BY DEF LoadTypeOK
<1>2. NumEntered \in Nat
  BY <1>1 DEF NumEntered
<1>3. DOMAIN Entered = 1..NumEntered
  BY DEF Entered
<1> QED
  BY <1>2, <1>3 DEF Entered

\* Every token of the file is a number.
LEMMA Tokens ==
    ASSUME LoadTypeOK
    PROVE  /\ Len(file) \in Nat /\ pos \in 0..Len(file)
           /\ \A k \in 1..Len(file) : file[k] \in Token
<1>1. file \in Seq(Token) /\ pos \in 0..Len(file)
  BY FilesOK DEF LoadTypeOK
<1> QED
  BY <1>1, ElementOfSeq

LEMMA LoadInitHolds == LoadInit => LoadInv
<1> SUFFICES ASSUME LoadInit PROVE LoadInv
  OBVIOUS
<1>1. LoadTypeOK
  <2>1. << >> \in Seq(Item) /\ << >> \in Seq(User)
    OBVIOUS
  <2>2. file \in Seq(Token) /\ 0 \in 0..Len(file)
    BY FilesOK DEF LoadInit
  <2>3. 0 \in 0..MaxReads /\ 0..NumUsers \subseteq Nat /\ 0..NumItems \subseteq Nat
    BY FilesOK, SizesOK
  <2> QED
    BY <2>1, <2>2, <2>3 DEF LoadInit, LoadTypeOK
<1>2. DegreesFit
  BY DEF LoadInit, DegreesFit
<1>3. ReadByTwos
  BY DEF LoadInit, ReadByTwos
<1>4. Holds(Entered)
  <2>1. NumEntered = 0
    BY DEF LoadInit, NumEntered
  <2>2. Len(Entered) = 0
    BY <1>1, <2>1, EnteredFacts
  <2>3. \A w : OfUser(Entered, 0, w) = {} /\ OfItem(Entered, 0, w) = {}
    BY DEF OfUser, OfItem
  <2>4. /\ \A w \in User : Len(uedges[w]) = 0
        /\ \A x \in Item : Len(vedges[x]) = 0
    BY DEF LoadInit
  <2>5. \A l \in 1..0 : FALSE
    OBVIOUS
  <2>6. Cardinality({}) = 0
    BY FS_EmptySet
  <2> QED
    BY <2>2, <2>3, <2>4, <2>5, <2>6 DEF Holds
<1>5. NeighbourSums
  BY DEF LoadInit, NeighbourSums
<1> QED
  BY <1>1, <1>2, <1>3, <1>4, <1>5 DEF LoadInv, NumbersEntered

\* What a call of fscanf leaves, of any file.
LEMMA ScanFacts ==
    ASSUME LoadTypeOK, ~ EndOfFile(pos), Scan
    PROVE  /\ pos' \in 0..Len(file)
           /\ uRead' \in Nat /\ vRead' \in Nat
<1>1. /\ Len(file) \in Nat /\ pos \in 0..Len(file) /\ \A k \in 1..Len(file) : file[k] \in Token
  BY Tokens
<1>2. uRead \in Nat /\ vRead \in Nat
  BY DEF LoadTypeOK
<1>3. \A k \in Nat \ {0} : IsNumber(k) => k \in 1..Len(file) /\ file[k] \in Nat
  BY <1>1 DEF IsNumber, Token
<1>4. pos + 1 \in Nat \ {0} /\ pos + 2 \in Nat \ {0} /\ pos < Len(file)
  BY <1>1 DEF EndOfFile
<1> QED
  BY <1>1, <1>2, <1>3, <1>4 DEF Scan

\* Of a file of numbers it leaves one line more, with u and v.
LEMMA LineRead ==
    ASSUME LoadTypeOK, ~ EndOfFile(pos), Scan, UNCHANGED file, AllNumbers, ReadByTwos, LoadTypeOK'
    PROVE  /\ ReadByTwos'
           /\ NumEntered' = NumEntered + 1
           /\ \A k \in 1..NumEntered : Entered'[k] = Entered[k]
           /\ Entered'[NumEntered + 1] = <<uRead', vRead'>>
<1>1. /\ Len(file) \in Nat /\ pos \in Nat /\ pos < Len(file) /\ \A k \in 1..Len(file) : file[k] \in Token
  BY Tokens DEF EndOfFile
<1>2. pos % 2 = 0
  BY <1>1 DEF ReadByTwos
<1> DEFINE n == pos \div 2
<1>3. n \in Nat /\ pos = 2 * n
  BY <1>1, <1>2
<1>4. NumEntered = n
  BY <1>2, <1>3 DEF NumEntered
<1>5. /\ \A k \in 1..n : Entered[k] = <<file[2 * k - 1], file[2 * k]>>
      /\ \A k \in 1..NumEntered' :
            Entered'[k] = IF k <= pos' \div 2 THEN <<file[2 * k - 1], file[2 * k]>>
                                              ELSE <<file[pos'], vRead'>>
  <2>1. \A k \in 1..n : k <= pos \div 2
    BY <1>3
  <2>2. \A k \in 1..n : Entered[k] = <<file[2 * k - 1], file[2 * k]>>
    BY <1>4, <2>1, EnteredFacts
  <2> QED
    BY <2>2 DEF Entered
<1>6. IsNumber(pos + 1)
  BY <1>1 DEF IsNumber, AllNumbers
<1> HIDE DEF n
<1>7. CASE pos + 2 <= Len(file)
  <2>1. IsNumber(pos + 2)
    BY <1>1, <1>7 DEF IsNumber, AllNumbers
  <2>2. pos' = 2 * n + 2 /\ uRead' = file[2 * n + 1] /\ vRead' = file[2 * n + 2]
    BY <1>3, <1>6, <2>1 DEF Scan
  <2>3. pos' \div 2 = n + 1 /\ pos' % 2 = 0
    BY <1>3, <2>2
  <2>4. NumEntered' = n + 1
    BY <1>3, <2>3 DEF NumEntered
  <2>5. ReadByTwos'
    <3>1. 2 * (n + 1) = 2 * n + 2 /\ n + 1 > 0
      BY <1>3
    <3> QED
      BY <2>2, <2>3, <3>1 DEF ReadByTwos
  <2>6. \A k \in 1..(n + 1) : Entered'[k] = <<file[2 * k - 1], file[2 * k]>>
    <3>1. \A k \in 1..(n + 1) : k <= n + 1
      BY <1>3
    <3>2. 1..NumEntered' = 1..(n + 1)
      BY <2>4
    <3> QED
      BY ONLY <1>5, <2>3, <3>1, <3>2
  <2>7. Entered'[n + 1] = <<file[2 * n + 1], file[2 * n + 2]>>
    <3>1. 2 * (n + 1) - 1 = 2 * n + 1 /\ 2 * (n + 1) = 2 * n + 2 /\ n + 1 \in 1..(n + 1)
      BY <1>3
    <3> QED
      BY <2>6, <3>1
  <2>8. \A k \in 1..n : k \in 1..(n + 1)
    BY <1>3
  <2> QED
    BY <1>4, <1>5, <2>2, <2>4, <2>5, <2>6, <2>7, <2>8
<1>8. CASE ~ (pos + 2 <= Len(file))
  <2>1. ~ IsNumber(pos + 2) /\ pos + 1 = Len(file)
    BY <1>1, <1>8 DEF IsNumber
  <2>2. pos' = 2 * n + 1 /\ uRead' = file[2 * n + 1] /\ vRead' = vRead /\ pos' = Len(file)
    BY <1>3, <1>6, <2>1 DEF Scan
  <2>3. pos' \div 2 = n /\ pos' % 2 = 1
    BY <1>3, <2>2
  <2>4. NumEntered' = n + 1
    BY <1>3, <2>3 DEF NumEntered
  <2>5. ReadByTwos'
    BY <2>2, <2>3 DEF ReadByTwos, n
  <2>6. \A k \in 1..n : k \in 1..(n + 1) /\ k <= n
    BY <1>3
  <2>7. n + 1 \in 1..(n + 1) /\ ~ (n + 1 <= n)
    BY <1>3
  <2> QED
    BY <1>4, <1>5, <2>2, <2>3, <2>4, <2>5, <2>6, <2>7
<1> QED
  BY <1>7, <1>8

LEMMA ReadEdgeKeeps == LoadInv /\ ReadEdge => LoadInv'
<1> SUFFICES ASSUME LoadInv, ReadEdge PROVE LoadInv'
  OBVIOUS
<1>1. /\ LoadTypeOK /\ DegreesFit /\ NumbersEntered
      /\ phase = "read" /\ ~ EndOfFile(pos) /\ readCnt < MaxReads /\ Scan
      /\ readCnt' = readCnt + 1 /\ Fits(uRead', vRead') /\ AddEdge(uRead', vRead')
      /\ UNCHANGED <<file, derived, uedgeSet, phase>>
  BY DEF LoadInv, ReadEdge, Reading
<1>2. pos' \in 0..Len(file) /\ uRead' \in Nat /\ vRead' \in Nat
  BY <1>1, ScanFacts
<1>3. uRead' \in User /\ vRead' \in Item
  BY <1>1, <1>2, SizesOK DEF Fits, User, Item
<1>4. /\ uedges \in [User -> Seq(Item)] /\ vedges \in [Item -> Seq(User)]
      /\ udeg \in [User -> Nat] /\ vdeg \in [Item -> Nat]
      /\ readCnt' \in 0..MaxReads
  BY <1>1, FilesOK DEF LoadTypeOK
<1>5. /\ uedges' = [uedges EXCEPT ![uRead'] = Append(@, vRead')]
      /\ vedges' = [vedges EXCEPT ![vRead'] = Append(@, uRead')]
      /\ udeg' = [udeg EXCEPT ![uRead'] = @ + 1]
      /\ vdeg' = [vdeg EXCEPT ![vRead'] = @ + 1]
  BY <1>1 DEF AddEdge
<1>6. /\ uedges' \in [User -> Seq(Item)]
      /\ Len(uedges'[uRead']) = Len(uedges[uRead']) + 1
      /\ \A w \in User : w # uRead' => uedges'[w] = uedges[w]
  BY <1>3, <1>4, <1>5, ListGrows
<1>7. /\ vedges' \in [Item -> Seq(User)]
      /\ Len(vedges'[vRead']) = Len(vedges[vRead']) + 1
      /\ \A x \in Item : x # vRead' => vedges'[x] = vedges[x]
  BY <1>3, <1>4, <1>5, ListGrows
<1>8. /\ udeg' \in [User -> Nat] /\ udeg'[uRead'] = udeg[uRead'] + 1
      /\ \A w \in User : w # uRead' => udeg'[w] = udeg[w]
  BY <1>3, <1>4, <1>5
<1>9. /\ vdeg' \in [Item -> Nat] /\ vdeg'[vRead'] = vdeg[vRead'] + 1
      /\ \A x \in Item : x # vRead' => vdeg'[x] = vdeg[x]
  BY <1>3, <1>4, <1>5
<1>10. LoadTypeOK'
  BY <1>1, <1>2, <1>4, <1>6, <1>7, <1>8, <1>9 DEF LoadTypeOK, derived
<1>11. DegreesFit'
  BY <1>1, <1>3, <1>6, <1>7, <1>8, <1>9 DEF DegreesFit
<1>12. NeighbourSums'
  BY <1>1 DEF NeighbourSums
<1>13. ASSUME AllNumbers, phase # "exit" PROVE ReadByTwos' /\ Holds(Entered)'
  <2>1. ReadByTwos /\ Holds(Entered) /\ UNCHANGED file
    BY <1>1, <1>13 DEF NumbersEntered
  <2>2. /\ ReadByTwos'
        /\ NumEntered' = NumEntered + 1
        /\ \A k \in 1..NumEntered : Entered'[k] = Entered[k]
        /\ Entered'[NumEntered + 1] = <<uRead', vRead'>>
    BY <1>1, <1>10, <1>13, <2>1, LineRead
  <2>3. NumEntered \in Nat /\ Len(Entered) = NumEntered /\ Len(Entered)' = NumEntered'
    <3>1. DOMAIN Entered' = 1..NumEntered'
      BY DEF Entered
    <3>2. NumEntered \in Nat /\ Len(Entered) = NumEntered
      BY <1>1, EnteredFacts
    <3> QED
      BY <2>2, <3>1, <3>2
  <2> DEFINE lines == Entered
             more == Entered'
             n == NumEntered
  <2>4. /\ n \in Nat /\ Len(lines) = n /\ Len(more) = n + 1
        /\ \A k \in 1..n : more[k] = lines[k]
        /\ more[n + 1] = <<uRead', vRead'>> /\ Holds(lines)
    BY <2>1, <2>2, <2>3
  <2>5. Holds(Entered)' <=>
        /\ \A y \in User : Len(uedges'[y]) = Cardinality(OfUser(more, Len(more), y))
        /\ \A y \in Item : Len(vedges'[y]) = Cardinality(OfItem(more, Len(more), y))
        /\ \A l \in 1..Len(more) :
              /\ more[l][1] \in User
              /\ uedges'[more[l][1]][Cardinality(OfUser(more, l, more[l][1]))] = more[l][2]
              /\ more[l][2] \in Item
              /\ vedges'[more[l][2]][Cardinality(OfItem(more, l, more[l][2]))] = more[l][1]
    BY DEF Holds
  <2> HIDE DEF lines, more, n
  <2> DEFINE w == uRead'
             x == vRead'
  <2>6. w \in User /\ x \in Item /\ AddEdge(w, x) /\ more[n + 1] = <<w, x>>
    BY <1>1, <1>3, <2>4
  <2> HIDE DEF w, x
  <2>7. /\ \A y \in User : Len(uedges'[y]) = Cardinality(OfUser(more, Len(more), y))
        /\ \A y \in Item : Len(vedges'[y]) = Cardinality(OfItem(more, Len(more), y))
        /\ \A l \in 1..Len(more) :
              /\ more[l][1] \in User
              /\ uedges'[more[l][1]][Cardinality(OfUser(more, l, more[l][1]))] = more[l][2]
              /\ more[l][2] \in Item
              /\ vedges'[more[l][2]][Cardinality(OfItem(more, l, more[l][2]))] = more[l][1]
    BY <1>1, <2>4, <2>6, HoldsGrows
  <2> QED
    BY <2>2, <2>5, <2>7
<1>14. NumbersEntered'
  <2>1. AllNumbers' <=> AllNumbers
    BY <1>1 DEF AllNumbers
  <2> QED
    BY <1>1, <1>13, <2>1 DEF NumbersEntered
<1> QED
  BY <1>10, <1>11, <1>12, <1>14 DEF LoadInv

LEMMA AssertFailsKeeps == LoadInv /\ AssertFails => LoadInv'
<1> SUFFICES ASSUME LoadInv, AssertFails PROVE LoadInv'
  OBVIOUS
<1>1. /\ LoadTypeOK /\ DegreesFit
      /\ phase = "read" /\ ~ EndOfFile(pos) /\ readCnt < MaxReads /\ Scan
      /\ readCnt' = readCnt + 1 /\ phase' = "exit"
      /\ UNCHANGED <<file, graph, derived, uedgeSet>>
  BY DEF LoadInv, AssertFails, Reading
<1>2. pos' \in 0..Len(file) /\ uRead' \in Nat /\ vRead' \in Nat
  BY <1>1, ScanFacts
<1>3. readCnt' \in 0..MaxReads
  BY <1>1, FilesOK DEF LoadTypeOK
<1>4. LoadTypeOK'
  BY <1>1, <1>2, <1>3 DEF LoadTypeOK, graph, derived
<1>5. DegreesFit'
  BY <1>1 DEF DegreesFit, graph
<1> QED
  BY <1>1, <1>4, <1>5 DEF LoadInv, NumbersEntered, NeighbourSums

\* What is entered does not change after reading.
LEMMA EnteredStays ==
    ASSUME UNCHANGED <<reader, graph>>, NumbersEntered, DegreesFit, phase # "exit"
    PROVE  NumbersEntered' /\ DegreesFit'
<1>1. UNCHANGED <<file, pos, vRead, uedges, vedges, udeg, vdeg>>
  BY DEF reader, graph
<1>2. NumEntered' = NumEntered
  BY <1>1 DEF NumEntered
<1>3. Entered' = Entered
  BY <1>1, <1>2 DEF Entered
<1>4. ReadByTwos' <=> ReadByTwos
  BY <1>1 DEF ReadByTwos
<1>5. Holds(Entered)' <=> Holds(Entered)
  BY <1>1, <1>3 DEF Holds
<1>6. AllNumbers' <=> AllNumbers
  BY <1>1 DEF AllNumbers
<1>7. DegreesFit'
  BY <1>1 DEF DegreesFit
<1> QED
  BY <1>4, <1>5, <1>6, <1>7 DEF NumbersEntered

LEMMA EndReadingKeeps == LoadInv /\ EndReading => LoadInv'
<1> SUFFICES ASSUME LoadInv, EndReading PROVE LoadInv'
  OBVIOUS
<1>1. /\ LoadTypeOK /\ DegreesFit /\ NumbersEntered /\ phase = "read" /\ phase' = "prep"
      /\ UNCHANGED <<reader, graph, derived, uedgeSet>>
  BY DEF LoadInv, EndReading
<1>2. LoadTypeOK'
  BY <1>1 DEF LoadTypeOK, reader, graph, derived
<1>3. NumbersEntered' /\ DegreesFit'
  BY <1>1, EnteredStays
<1> QED
  BY <1>1, <1>2, <1>3 DEF LoadInv, NeighbourSums

-----------------------------------------------------------------------------
(* Preprocessing.                                                          *)

\* A sorted list has the elements of its positions, each once.
SortsTo(t, s, P, L, n) ==
    /\ t \in Seq(L) /\ IsFiniteSet(P) /\ n = Cardinality(P) /\ n \in Nat
    /\ DOMAIN t = 1..n /\ Len(t) = n
    /\ \E g \in [1..n -> P] :
          /\ \A p \in P : \E k \in 1..n : g[k] = p
          /\ \A k, l \in 1..n : g[k] = g[l] => k = l
          /\ \A k \in 1..n : t[k] = s[g[k]]

LEMMA SortFacts ==
    ASSUME NEW L, NEW s \in Seq(L), NEW P \in SUBSET (DOMAIN s), NEW rank, NEW t \in Sorts(s, P, rank)
    PROVE  SortsTo(t, s, P, L, Cardinality(P))
<1> DEFINE n == Cardinality(P)
<1>1. DOMAIN s = 1..Len(s) /\ Len(s) \in Nat /\ \A k \in 1..Len(s) : s[k] \in L
  BY ElementOfSeq
<1>2. IsFiniteSet(P) /\ n \in Nat
  <2>1. IsFiniteSet(1..Len(s))
    BY <1>1, FS_Interval
  <2> QED
    BY <1>1, <2>1, FS_Subset, FS_CardinalityType
<1>3. PICK g \in [1..n -> P] :
         /\ \A p \in P : \E k \in DOMAIN g : g[k] = p
         /\ \A k, l \in DOMAIN g : k < l => g[k] # g[l] /\ rank[s[g[k]]] <= rank[s[g[l]]]
         /\ t = [k \in DOMAIN g |-> s[g[k]]]
  BY DEF Sorts
<1> HIDE DEF n
<1>4. DOMAIN g = 1..n /\ \A k \in 1..n : g[k] \in P
  OBVIOUS
<1>5. t \in [1..n -> L] /\ \A k \in 1..n : t[k] = s[g[k]]
  BY <1>1, <1>3, <1>4
<1>6. \A k, l \in 1..n : g[k] = g[l] => k = l
  <2> TAKE k, l \in 1..n
  <2>1. k < l \/ l < k \/ k = l
    BY <1>2
  <2> QED
    BY <1>3, <1>4, <2>1
<1>7. t \in Seq(L) /\ Len(t) = n
  BY <1>2, <1>5
<1> QED
  BY <1>2, <1>3, <1>4, <1>5, <1>6, <1>7 DEF n, SortsTo

LEMMA OneOfEachFacts ==
    ASSUME NEW D, NEW S, DOMAIN S = D, NEW f \in OneOfEach(S)
    PROVE  DOMAIN f = D /\ \A x \in D : f[x] \in S[x]
BY DEF OneOfEach

\* The degrees of a list of positions are numbers, and so is their sum.
LEMMA DegreeSum ==
    ASSUME NEW L, NEW s \in Seq(L), NEW deg \in [L -> Nat]
    PROVE  /\ IsFiniteSet(DOMAIN s) /\ \A k \in DOMAIN s : Degrees(s, deg)[k] = deg[s[k]] /\ deg[s[k]] \in Nat
           /\ Total(Degrees(s, deg), DOMAIN s) \in Nat
<1>1. DOMAIN s = 1..Len(s) /\ Len(s) \in Nat /\ \A k \in 1..Len(s) : s[k] \in L
  BY ElementOfSeq
<1>2. IsFiniteSet(DOMAIN s)
  BY <1>1, FS_Interval
<1>3. \A k \in DOMAIN s : Degrees(s, deg)[k] = deg[s[k]] /\ deg[s[k]] \in Nat
  BY <1>1 DEF Degrees
<1>4. \A k \in DOMAIN s : Degrees(s, deg)[k] \in Nat
  BY <1>3
<1> QED
  BY <1>2, <1>3, <1>4, TotalStep

LEMMA PreprocessKeeps == LoadInv /\ Preprocess => LoadInv'
<1> SUFFICES ASSUME LoadInv, Preprocess PROVE LoadInv'
  OBVIOUS
<1>1. /\ LoadTypeOK /\ DegreesFit /\ NumbersEntered /\ phase = "prep" /\ phase' = "sets"
      /\ UNCHANGED <<reader, graph, uedgeSet>>
      /\ vDeg' = [x \in Item |-> SumOverKept(x)]
      /\ uDeg' = [w \in User |-> Total(Degrees(uedges[w], vdeg), DOMAIN uedges[w])]
  BY DEF LoadInv, Preprocess
<1>2. /\ uedges \in [User -> Seq(Item)] /\ vedges \in [Item -> Seq(User)]
      /\ udeg \in [User -> Nat] /\ vdeg \in [Item -> Nat]
      /\ uedges' = uedges /\ vedges' = vedges /\ udeg' = udeg /\ vdeg' = vdeg
  BY <1>1 DEF LoadTypeOK, graph
<1>3. uSorted' \in [User -> Seq(Item)]
  <2>1. uSorted' \in OneOfEach([w \in User |-> Sorts(uedges[w], DOMAIN uedges[w], [x \in Item |-> x])])
    BY DEF Preprocess
  <2>2. /\ DOMAIN uSorted' = User
        /\ \A w \in User : uSorted'[w] \in Sorts(uedges[w], DOMAIN uedges[w], [x \in Item |-> x])
    BY <2>1 DEF OneOfEach
  <2>3. \A w \in User : uSorted'[w] \in Seq(Item)
    <3> TAKE w \in User
    <3>1. uedges[w] \in Seq(Item)
      BY <1>2
    <3> QED
      BY <2>2, <3>1, SortFacts DEF SortsTo
  <2>4. uSorted' = [w \in User |-> uSorted'[w]]
    BY <2>1 DEF OneOfEach
  <2> QED
    BY <2>3, <2>4
<1>4. /\ vSorted' = [x \in Item |-> vSorted'[x]]
      /\ \A x \in Item : vSorted'[x] \in Sorts(vedges[x], Kept(x), udeg)
  <2>1. vSorted' \in OneOfEach([x \in Item |-> Sorts(vedges[x], Kept(x), udeg)])
    BY DEF Preprocess
  <2> QED
    BY <2>1 DEF OneOfEach
<1>5. ASSUME NEW x \in Item
      PROVE  /\ vSorted'[x] \in Seq(User) /\ SumOverKept(x) \in Nat
             /\ SumOverKept(x) = Total([k \in Kept(x) |-> udeg[vedges[x][k]]], Kept(x))
             /\ Len(vSorted'[x]) = Cardinality(Kept(x))
             /\ SumOverKept(x) >= 2 * Cardinality(Kept(x))
  <2> DEFINE s == vedges[x]
             P == Kept(x)
             n == Cardinality(P)
             t == vSorted'[x]
  <2>1. s \in Seq(User) /\ P \in SUBSET (DOMAIN s) /\ t \in Sorts(s, P, udeg)
    BY <1>2, <1>4 DEF Kept
  <2> HIDE DEF s, P, t
  <2>2. /\ t \in Seq(User) /\ IsFiniteSet(P) /\ n \in Nat /\ DOMAIN t = 1..n /\ Len(t) = n
        /\ \E g \in [1..n -> P] :
                 /\ \A p \in P : \E k \in 1..n : g[k] = p
                 /\ \A k, l \in 1..n : g[k] = g[l] => k = l
                 /\ \A k \in 1..n : t[k] = s[g[k]]
    <3>1. SortsTo(t, s, P, User, n)
      BY ONLY <2>1, SortFacts
    <3> HIDE DEF n
    <3> QED
      BY <3>1 DEF SortsTo
  <2> HIDE DEF n
  <2>3. PICK g \in [1..n -> P] :
                 /\ \A p \in P : \E k \in 1..n : g[k] = p
                 /\ \A k, l \in 1..n : g[k] = g[l] => k = l
                 /\ \A k \in 1..n : t[k] = s[g[k]]
    BY <2>2
  <2> DEFINE f == Degrees(t, udeg)
             h == [k \in P |-> udeg[s[k]]]
  <2>4. /\ IsFiniteSet(DOMAIN t) /\ \A k \in DOMAIN t : f[k] = udeg[t[k]] /\ udeg[t[k]] \in Nat
        /\ Total(f, DOMAIN t) \in Nat
    BY <1>2, <2>2, DegreeSum
  <2>5. \A p \in P : h[p] \in Nat /\ h[p] >= 2
    <3>1. DOMAIN s = 1..Len(s) /\ \A k \in 1..Len(s) : s[k] \in User
      BY <2>1, ElementOfSeq
    <3>2. \A p \in P : udeg[s[p]] >= 2
      BY DEF P, s, Kept
    <3> QED
      BY <1>2, <2>1, <3>1, <3>2
  <2>6. \A k \in 1..n : f[k] \in Nat /\ g[k] \in P /\ h[g[k]] = f[k]
    BY <2>2, <2>3, <2>4
  <2> HIDE DEF f, h
  <2>7. IsFiniteSet(1..n)
    <3>1. 1 \in Int /\ n \in Int
      BY <2>2
    <3> QED
      BY ONLY <3>1, FS_Interval
  <2>8. Total(f, 1..n) = Total(h, P)
    <3>1. IsFiniteSet(P)
      BY <2>2
    <3>2. \A k, l \in 1..n : g[k] = g[l] => k = l
      BY <2>3
    <3>3. \A p \in P : \E k \in 1..n : g[k] = p
      BY <2>3
    <3>4. Renames(g, f, 1..n, h, P)
      BY ONLY <2>6, <2>7, <3>1, <3>2, <3>3 DEF Renames
    <3> QED
      BY ONLY <3>4, TotalRename
  <2>9. Total(h, P) >= 2 * n
    BY <2>2, <2>5, TotalAtLeast DEF n
  <2>10. SumOverKept(x) = Total(f, 1..n)
    BY <2>2 DEF SumOverKept, f, t
  <2> QED
    BY <2>2, <2>4, <2>8, <2>9, <2>10 DEF f, h, n, P, s, t
<1>6. vSorted' \in [Item -> Seq(User)]
  BY <1>4, <1>5
<1>7. vDeg' \in [Item -> Nat]
  BY <1>1, <1>5
<1>8. uDeg' \in [User -> Nat]
  <2>1. ASSUME NEW w \in User PROVE Total(Degrees(uedges[w], vdeg), DOMAIN uedges[w]) \in Nat
    <3>1. uedges[w] \in Seq(Item)
      BY <1>2
    <3> QED
      BY <1>2, <3>1, DegreeSum
  <2> QED
    BY <1>1, <2>1
<1>9. LoadTypeOK'
  BY <1>1, <1>3, <1>6, <1>7, <1>8 DEF LoadTypeOK, reader, graph
<1>10. NumbersEntered' /\ DegreesFit'
  BY <1>1, EnteredStays
<1>11. NeighbourSums'
  <2> SUFFICES ASSUME NEW x \in Item
               PROVE  LET kept == {k \in DOMAIN vedges'[x] : Len(uedges'[vedges'[x][k]]) >= 2}
                      IN  /\ vDeg'[x] = Total([k \in kept |-> Len(uedges'[vedges'[x][k]])], kept)
                          /\ Len(vSorted'[x]) = Cardinality(kept)
                          /\ vDeg'[x] >= 2 * Len(vSorted'[x])
    BY DEF NeighbourSums
  <2> DEFINE kept == {k \in DOMAIN vedges[x] : Len(uedges[vedges[x][k]]) >= 2}
  <2>1. \A k \in DOMAIN vedges[x] : udeg[vedges[x][k]] = Len(uedges[vedges[x][k]])
    <3>1. vedges[x] \in Seq(User)
      BY <1>2
    <3>2. \A k \in DOMAIN vedges[x] : vedges[x][k] \in User
      BY <3>1, ElementOfSeq
    <3> QED
      BY <1>1, <3>2 DEF DegreesFit
  <2>2. kept = Kept(x)
    BY <2>1 DEF Kept
  <2>3. [k \in kept |-> Len(uedges[vedges[x][k]])] = [k \in Kept(x) |-> udeg[vedges[x][k]]]
    BY <2>1, <2>2
  <2>4. vDeg'[x] = SumOverKept(x)
    BY <1>1
  <2> HIDE DEF kept
  <2>5. /\ vDeg'[x] = Total([k \in kept |-> Len(uedges[vedges[x][k]])], kept)
        /\ Len(vSorted'[x]) = Cardinality(kept)
        /\ vDeg'[x] >= 2 * Len(vSorted'[x])
    BY <1>5, <2>2, <2>3, <2>4
  <2> QED
    BY <1>2, <2>5 DEF kept
<1> QED
  BY <1>9, <1>10, <1>11 DEF LoadInv

\* What a step that leaves the graph and the sums alone keeps.
LEMMA SumsStay ==
    ASSUME NeighbourSums, UNCHANGED <<graph, derived>>, phase \in {"sets", "done"} \/ phase' \notin {"sets", "done"}
    PROVE  NeighbourSums'
<1>1. UNCHANGED <<uedges, vedges, vDeg, vSorted>>
  BY DEF graph, derived
<1> QED
  BY <1>1 DEF NeighbourSums

LEMMA SetBuildKeeps == LoadInv /\ SetBuild => LoadInv'
<1> SUFFICES ASSUME LoadInv, SetBuild PROVE LoadInv'
  OBVIOUS
<1>1. /\ LoadTypeOK /\ DegreesFit /\ NumbersEntered /\ NeighbourSums
      /\ phase = "sets" /\ phase' = "done" /\ UNCHANGED <<reader, graph, derived>>
  BY DEF LoadInv, SetBuild
<1>2. uedgeSet' \in [User -> SUBSET Item]
  <2>1. \A w \in User : {uedges[w][k] : k \in DOMAIN uedges[w]} \subseteq Item
    <3> TAKE w \in User
    <3>1. uedges[w] \in Seq(Item)
      BY <1>1 DEF LoadTypeOK
    <3> QED
      BY <3>1, ElementOfSeq
  <2> QED
    BY <1>1, <2>1 DEF SetBuild, LoadTypeOK
<1>3. LoadTypeOK'
  BY <1>1, <1>2 DEF LoadTypeOK, reader, graph, derived
<1>4. NumbersEntered' /\ DegreesFit'
  BY <1>1, EnteredStays
<1>5. NeighbourSums'
  BY <1>1, SumsStay
<1> QED
  BY <1>3, <1>4, <1>5 DEF LoadInv

LEMMA LoadStutterKeeps == LoadInv /\ UNCHANGED loadVars => LoadInv'
<1> SUFFICES ASSUME LoadInv, UNCHANGED loadVars PROVE LoadInv'
  OBVIOUS
<1>1. UNCHANGED <<reader, graph, derived, uedgeSet, phase>>
  BY DEF loadVars
<1>2. LoadTypeOK'
  BY <1>1 DEF LoadInv, LoadTypeOK, reader, graph, derived
<1>3. DegreesFit'
  BY <1>1 DEF LoadInv, DegreesFit, graph
<1>4. NumbersEntered'
  <2>1. CASE phase = "exit"
    BY <1>1, <2>1 DEF NumbersEntered
  <2>2. CASE phase # "exit"
    BY <1>1, <2>2, EnteredStays DEF LoadInv
  <2> QED
    BY <2>1, <2>2
<1>5. NeighbourSums'
  BY <1>1, SumsStay DEF LoadInv
<1> QED
  BY <1>2, <1>3, <1>4, <1>5 DEF LoadInv

\* The invariant of loading is inductive: degrees are lengths, the lines behind the
\* reader are those the lists hold, and the sums are over the users that are kept.
THEOREM LoadInductive == LoadSpec => []LoadInv
<1>1. LoadInv /\ [LoadNext]_loadVars => LoadInv'
  BY ReadEdgeKeeps, AssertFailsKeeps, EndReadingKeeps, PreprocessKeeps, SetBuildKeeps,
     LoadStutterKeeps DEF LoadNext, LoadEnded
<1> QED
  BY <1>1, LoadInitHolds, PTL DEF LoadSpec

\* Every variable of the constructor keeps its type: no edge with an id out of range is
\* entered, whatever the file.
THEOREM LoadTypes == LoadSpec => []LoadTypeOK
<1>1. LoadInv => LoadTypeOK
  BY DEF LoadInv
<1> QED
  BY <1>1, LoadInductive, PTL

\* A file of numbers is loaded line by line onto both sides, in its order.
THEOREM LinesLoaded == LoadSpec => []FileLoaded
<1>1. ASSUME LoadInv PROVE FileLoaded
  <2> SUFFICES ASSUME AllNumbers, phase # "exit" PROVE \E lines \in Lines : Holds(lines)
    BY <1>1 DEF FileLoaded, LoadInv, DegreesFit
  <2>1. ReadByTwos /\ Holds(Entered)
    BY <1>1 DEF LoadInv, NumbersEntered
  <2>2. Entered \in Lines
    BY <2>1 DEF Lines, Entered, NumEntered, ReadByTwos
  <2> QED
    BY <2>1, <2>2
<1> QED
  BY <1>1, LoadInductive, PTL

\* m_vDeg is the number of edges of the users in vSorted, two or more for each.
THEOREM SumsOverKept == LoadSpec => []NeighbourSums
<1>1. LoadInv => NeighbourSums
  BY DEF LoadInv
<1> QED
  BY <1>1, LoadInductive, PTL

-----------------------------------------------------------------------------
(* Loading: the graph that the scoring and the renumbering start from.     *)

\* The lines of an item, of a user, and how many the user of a line has.
ItemLines(lines, x)  == OfItem(lines, Len(lines), x)
UserLines(lines, w)  == OfUser(lines, Len(lines), w)
LineDegree(lines, l) == Cardinality(UserLines(lines, lines[l][1]))
KeptLines(lines, x)  == {l \in ItemLines(lines, x) : LineDegree(lines, l) >= 2}

\* The users of lines that are taken in some order.
Arranged(S)        == Bijection(1..Cardinality(S), S)
UsersOf(lines, f)  == [k \in DOMAIN f |-> lines[f[k]][1]]
InFileOrder(f)     == \A k, m \in DOMAIN f : k < m => f[k] < f[m]
ByDegree(lines, f) == \A k, m \in DOMAIN f : k < m => LineDegree(lines, f[k]) <= LineDegree(lines, f[m])

ItemSets(lines) ==
    \A w \in User : {uedges[w][k] : k \in DOMAIN uedges[w]} = {lines[l][2] : l \in UserLines(lines, w)}
UserLists(lines) ==
    \A x \in Item : \E f \in Arranged(ItemLines(lines, x)) :
        InFileOrder(f) /\ vedges[x] = UsersOf(lines, f)
SortedLists(lines) ==
    \A x \in Item : \E f \in Arranged(KeptLines(lines, x)) :
        ByDegree(lines, f) /\ vSorted[x] = UsersOf(lines, f)

\* The lists are those of a graph of lines: what the procedures of PairSwing start from.
GraphOf(lines) ==
    /\ ItemSets(lines) /\ UserLists(lines)
    /\ phase \in {"sets", "done"} => SortedLists(lines)

GraphLoaded == AllNumbers /\ phase # "exit" => \E lines \in Lines : GraphOf(lines)

\* What preprocess leaves in vSorted.
Sorted == phase \in {"sets", "done"} => \A x \in Item : vSorted[x] \in Sorts(vedges[x], Kept(x), udeg)

\* A set of lines in the order of the file: the number of a line among them is its place.
Upto(P, l) == {m \in P : m <= l}

LEMMA Placing ==
    ASSUME NEW n \in Nat, NEW P \in SUBSET (1..n)
    PROVE  /\ IsFiniteSet(P) /\ Cardinality(P) \in Nat
           /\ \E f \in Arranged(P) :
                 /\ InFileOrder(f)
                 /\ \A l \in P : /\ Cardinality(Upto(P, l)) \in 1..Cardinality(P)
                                 /\ f[Cardinality(Upto(P, l))] = l
<1> DEFINE c == Cardinality(P)
<1>1. IsFiniteSet(P) /\ c \in Nat
  BY OneMore
<1>0. \A l \in P : l \in Nat
  OBVIOUS
<1>2. ASSUME NEW l \in P
      PROVE  IsFiniteSet(Upto(P, l)) /\ Cardinality(Upto(P, l)) \in 1..c
  <2>1. Upto(P, l) \subseteq P /\ l \in Upto(P, l)
    BY DEF Upto
  <2>2. /\ IsFiniteSet(Upto(P, l)) /\ Cardinality(Upto(P, l)) \in Nat
        /\ Cardinality(Upto(P, l)) <= c
    BY <1>1, <2>1, FS_Subset, FS_CardinalityType
  <2>3. Cardinality(Upto(P, l)) # 0
    BY <2>1, <2>2, FS_EmptySet
  <2> QED
    BY <1>1, <2>2, <2>3
<1>3. ASSUME NEW l \in P, NEW m \in P, l < m
      PROVE  Cardinality(Upto(P, l)) < Cardinality(Upto(P, m))
  <2>1. /\ Upto(P, l) \subseteq Upto(P, m) /\ m \in Upto(P, m) /\ m \notin Upto(P, l)
    <3>1. l \in Nat /\ m \in Nat /\ l < m
      BY <1>0, <1>3
    <3>2. \A e \in P : e <= l => e <= m
      BY <1>0, <3>1
    <3>3. m <= m /\ ~ (m <= l)
      BY <3>1
    <3> QED
      BY ONLY l \in P, m \in P, <3>2, <3>3 DEF Upto
  <2>2. Upto(P, l) \cup {m} \subseteq Upto(P, m)
    BY <2>1
  <2>3. Cardinality(Upto(P, l) \cup {m}) = Cardinality(Upto(P, l)) + 1
    BY <1>2, <2>1, FS_AddElement
  <2>4. Cardinality(Upto(P, l) \cup {m}) <= Cardinality(Upto(P, m))
    BY <1>2, <2>2, FS_Subset
  <2> QED
    BY <1>2, <2>3, <2>4
<1> DEFINE r == [l \in P |-> Cardinality(Upto(P, l))]
<1>4. r \in [P -> 1..c]
  BY <1>2
<1>5. \A l, m \in P : l < m => r[l] < r[m]
  BY <1>3
<1>6. \A l \in P : r[l] = Cardinality(Upto(P, l))
  OBVIOUS
<1> HIDE DEF r, c
<1>7. r \in Injection(P, 1..c)
  <2>1. \A l, m \in P : r[l] = r[m] => l = m
    <3> TAKE l, m \in P
    <3>1. l \in Nat /\ m \in Nat /\ r[l] \in Nat /\ r[m] \in Nat
      BY <1>4
    <3> QED
      BY <1>5, <3>1
  <2> QED
    BY <1>4, <2>1 DEF Injection, IsInjective
<1>8. IsFiniteSet(1..c) /\ Cardinality(1..c) = c
  <2>1. 1 \in Int /\ c \in Int
    BY <1>1
  <2>2. IsFiniteSet(1..c) /\ Cardinality(1..c) = IF 1 > c THEN 0 ELSE c - 1 + 1
    BY ONLY <2>1, FS_Interval
  <2> QED
    BY <1>1, <2>2
<1>9. r \in Surjection(P, 1..c)
  BY <1>7, <1>8, FS_Injection DEF c
<1>10. \A k \in 1..c : \E l \in P : r[l] = k
  BY <1>9 DEF Surjection
<1> DEFINE f == [k \in 1..c |-> CHOOSE l \in P : r[l] = k]
<1>11. \A k \in 1..c : f[k] \in P /\ r[f[k]] = k
  BY <1>10
<1>12. DOMAIN f = 1..c /\ f \in [1..c -> P]
  BY <1>11
<1> HIDE DEF f
<1>13. \A l \in P : r[l] \in 1..c /\ f[r[l]] = l
  BY <1>4, <1>7, <1>11 DEF Injection, IsInjective
<1>14. f \in Arranged(P)
  <2>1. \A k, m \in 1..c : f[k] = f[m] => k = m
    BY <1>11
  <2>2. f \in Injection(1..c, P)
    BY <1>12, <2>1 DEF Injection, IsInjective
  <2>3. f \in Surjection(1..c, P)
    BY <1>12, <1>13 DEF Surjection
  <2> QED
    BY <2>2, <2>3 DEF Arranged, Bijection, c
<1>15. InFileOrder(f)
  <2> SUFFICES ASSUME NEW k \in 1..c, NEW m \in 1..c, k < m PROVE f[k] < f[m]
    BY <1>12 DEF InFileOrder
  <2>1. /\ f[k] \in P /\ f[m] \in P /\ r[f[k]] = k /\ r[f[m]] = m
    BY <1>11
  <2>2. f[k] \in Nat /\ f[m] \in Nat
    BY <1>0, <2>1
  <2>3. f[m] < f[k] => m < k
    BY ONLY <1>5, <2>1
  <2>4. ~ (m < k) /\ m # k
    BY <1>1
  <2> QED
    BY <2>1, <2>2, <2>3, <2>4
<1> QED
  BY <1>1, <1>6, <1>13, <1>14, <1>15 DEF c

\* The lines of a user or an item up to one of them.
LEMMA LinesUpto ==
    ASSUME NEW n \in Nat, NEW lines, Len(lines) = n
    PROVE  /\ \A w : UserLines(lines, w) \subseteq 1..n
           /\ \A x : ItemLines(lines, x) \subseteq 1..n
           /\ \A w : \A l \in 1..n : OfUser(lines, l, w) = Upto(UserLines(lines, w), l)
           /\ \A x : \A l \in 1..n : OfItem(lines, l, x) = Upto(ItemLines(lines, x), l)
<1>1. \A l \in 1..n : \A k : k \in 1..l <=> k \in 1..n /\ k <= l
  OBVIOUS
<1> QED
  BY <1>1 DEF UserLines, ItemLines, OfUser, OfItem, Upto

\* The entries of both sides are the lines, at the places they have among those of
\* the user and of the item.
LEMMA EntriesAreLines ==
    ASSUME LoadTypeOK, NEW lines, Holds(lines), Len(lines) \in Nat
    PROVE  /\ \A w \in User : Len(uedges[w]) = Cardinality(UserLines(lines, w))
           /\ \A x \in Item : Len(vedges[x]) = Cardinality(ItemLines(lines, x))
           /\ \A w \in User : \A l \in UserLines(lines, w) :
                 uedges[w][Cardinality(Upto(UserLines(lines, w), l))] = lines[l][2]
           /\ \A x \in Item : \A l \in ItemLines(lines, x) :
                 vedges[x][Cardinality(Upto(ItemLines(lines, x), l))] = lines[l][1]
           /\ \A l \in 1..Len(lines) : lines[l][1] \in User /\ lines[l][2] \in Item
<1> DEFINE n == Len(lines)
<1>1. /\ \A w : UserLines(lines, w) \subseteq 1..n
      /\ \A x : ItemLines(lines, x) \subseteq 1..n
      /\ \A w : \A l \in 1..n : OfUser(lines, l, w) = Upto(UserLines(lines, w), l)
      /\ \A x : \A l \in 1..n : OfItem(lines, l, x) = Upto(ItemLines(lines, x), l)
  BY LinesUpto
<1>2. /\ \A w : \A l \in UserLines(lines, w) : lines[l][1] = w
      /\ \A x : \A l \in ItemLines(lines, x) : lines[l][2] = x
  BY DEF UserLines, ItemLines, OfUser, OfItem
<1>3. \A l \in 1..n : /\ lines[l][1] \in User /\ lines[l][2] \in Item
                      /\ uedges[lines[l][1]][Cardinality(OfUser(lines, l, lines[l][1]))] = lines[l][2]
                      /\ vedges[lines[l][2]][Cardinality(OfItem(lines, l, lines[l][2]))] = lines[l][1]
  BY DEF Holds
<1>4. /\ \A w \in User : Len(uedges[w]) = Cardinality(UserLines(lines, w))
      /\ \A x \in Item : Len(vedges[x]) = Cardinality(ItemLines(lines, x))
  BY DEF Holds, UserLines, ItemLines
<1> HIDE DEF n
<1>5. ASSUME NEW w \in User, NEW l \in UserLines(lines, w)
      PROVE  uedges[w][Cardinality(Upto(UserLines(lines, w), l))] = lines[l][2]
  <2>1. l \in 1..n /\ lines[l][1] = w /\ OfUser(lines, l, w) = Upto(UserLines(lines, w), l)
    BY <1>1, <1>2
  <2> QED
    BY <1>3, <2>1
<1>6. ASSUME NEW x \in Item, NEW l \in ItemLines(lines, x)
      PROVE  vedges[x][Cardinality(Upto(ItemLines(lines, x), l))] = lines[l][1]
  <2>1. l \in 1..n /\ lines[l][2] = x /\ OfItem(lines, l, x) = Upto(ItemLines(lines, x), l)
    BY <1>1, <1>2
  <2> QED
    BY <1>3, <2>1
<1> QED
  BY <1>3, <1>4, <1>5, <1>6 DEF n

LEMMA ListsOfLines ==
    ASSUME LoadTypeOK, NEW lines, Holds(lines), Len(lines) \in Nat
    PROVE  ItemSets(lines) /\ UserLists(lines)
<1> DEFINE n == Len(lines)
<1>1. /\ \A w : UserLines(lines, w) \subseteq 1..n
      /\ \A x : ItemLines(lines, x) \subseteq 1..n
  BY LinesUpto
<1>2. /\ \A w \in User : Len(uedges[w]) = Cardinality(UserLines(lines, w))
      /\ \A x \in Item : Len(vedges[x]) = Cardinality(ItemLines(lines, x))
      /\ \A w \in User : \A l \in UserLines(lines, w) :
            uedges[w][Cardinality(Upto(UserLines(lines, w), l))] = lines[l][2]
      /\ \A x \in Item : \A l \in ItemLines(lines, x) :
            vedges[x][Cardinality(Upto(ItemLines(lines, x), l))] = lines[l][1]
  BY EntriesAreLines
<1>3. /\ \A w \in User : uedges[w] \in Seq(Item)
      /\ \A x \in Item : vedges[x] \in Seq(User)
  BY DEF LoadTypeOK
<1> HIDE DEF n
<1>4. ItemSets(lines)
  <2> SUFFICES ASSUME NEW w \in User
               PROVE  {uedges[w][k] : k \in DOMAIN uedges[w]} = {lines[l][2] : l \in UserLines(lines, w)}
    BY DEF ItemSets
  <2> DEFINE P == UserLines(lines, w)
             s == uedges[w]
  <2>1. n \in Nat /\ P \in SUBSET (1..n)
    BY <1>1 DEF n
  <2> HIDE DEF P
  <2>2. PICK f \in Arranged(P) :
           \A l \in P : Cardinality(Upto(P, l)) \in 1..Cardinality(P) /\ f[Cardinality(Upto(P, l))] = l
    BY ONLY <2>1, Placing
  <2>3. DOMAIN s = 1..Cardinality(P) /\ \A l \in P : s[Cardinality(Upto(P, l))] = lines[l][2]
    BY <1>2, <1>3 DEF P
  <2> HIDE DEF s
  <2>4. \A k \in 1..Cardinality(P) : f[k] \in P /\ Cardinality(Upto(P, f[k])) = k
    <3>1. /\ f \in [1..Cardinality(P) -> P]
          /\ \A k, m \in 1..Cardinality(P) : f[k] = f[m] => k = m
      BY DEF Arranged, Bijection, Injection, IsInjective
    <3> QED
      BY ONLY <2>2, <3>1
  <2>5. \A k \in DOMAIN s : f[k] \in P /\ s[k] = lines[f[k]][2]
    BY <2>3, <2>4
  <2>6. \A l \in P : \E k \in DOMAIN s : s[k] = lines[l][2]
    BY <2>2, <2>3
  <2>7. {s[k] : k \in DOMAIN s} = {lines[l][2] : l \in P}
    BY ONLY <2>5, <2>6
  <2> QED
    BY <2>7 DEF P, s
<1>5. UserLists(lines)
  <2> SUFFICES ASSUME NEW x \in Item
               PROVE  \E f \in Arranged(ItemLines(lines, x)) : InFileOrder(f) /\ vedges[x] = UsersOf(lines, f)
    BY DEF UserLists
  <2> DEFINE P == ItemLines(lines, x)
             s == vedges[x]
  <2>1. n \in Nat /\ P \in SUBSET (1..n)
    BY <1>1 DEF n
  <2> HIDE DEF P
  <2>2. PICK f \in Arranged(P) :
           /\ InFileOrder(f)
           /\ \A l \in P : Cardinality(Upto(P, l)) \in 1..Cardinality(P) /\ f[Cardinality(Upto(P, l))] = l
    BY ONLY <2>1, Placing
  <2>3. DOMAIN s = 1..Cardinality(P) /\ \A l \in P : s[Cardinality(Upto(P, l))] = lines[l][1]
    BY <1>2, <1>3 DEF P
  <2>4. s \in [1..Cardinality(P) -> User]
    <3>1. s \in Seq(User)
      BY <1>3
    <3>2. s \in [1..Len(s) -> User] /\ DOMAIN s = 1..Len(s)
      BY ONLY <3>1, ElementOfSeq
    <3> QED
      BY ONLY <2>3, <3>2
  <2> HIDE DEF s
  <2>5. /\ f \in [1..Cardinality(P) -> P]
        /\ \A k, m \in 1..Cardinality(P) : f[k] = f[m] => k = m
    BY DEF Arranged, Bijection, Injection, IsInjective
  <2>6. \A k \in 1..Cardinality(P) : f[k] \in P /\ Cardinality(Upto(P, f[k])) = k
    BY ONLY <2>2, <2>5
  <2>7. \A k \in 1..Cardinality(P) : s[k] = lines[f[k]][1]
    BY <2>3, <2>6
  <2>8. s = UsersOf(lines, f)
    BY <2>4, <2>5, <2>7 DEF UsersOf
  <2> QED
    BY <2>2, <2>8 DEF P, s
<1> QED
  BY <1>4, <1>5

\* Sorting the users that are kept gives an order of the lines that are kept.
LEMMA SortedLines ==
    ASSUME LoadTypeOK, DegreesFit, NEW lines, Holds(lines), Len(lines) \in Nat,
           \A x \in Item : vSorted[x] \in Sorts(vedges[x], Kept(x), udeg)
    PROVE  SortedLists(lines)
<1> SUFFICES ASSUME NEW x \in Item
             PROVE  \E h \in Arranged(KeptLines(lines, x)) :
                       ByDegree(lines, h) /\ vSorted[x] = UsersOf(lines, h)
  BY DEF SortedLists
<1> DEFINE P == ItemLines(lines, x)
           Q == KeptLines(lines, x)
           K == Kept(x)
           s == vedges[x]
           t == vSorted[x]
<1>1. PICK f \in Arranged(P) : s = UsersOf(lines, f)
  BY ListsOfLines DEF UserLists
<1>2. /\ f \in [1..Cardinality(P) -> P] /\ \A p \in P : \E k \in 1..Cardinality(P) : f[k] = p
      /\ \A k, m \in 1..Cardinality(P) : f[k] = f[m] => k = m
  BY DEF Arranged, Bijection, Injection, Surjection, IsInjective
<1>3. DOMAIN s = 1..Cardinality(P) /\ \A k \in 1..Cardinality(P) : f[k] \in P /\ s[k] = lines[f[k]][1]
  BY <1>1, <1>2 DEF UsersOf
<1>4. \A k \in 1..Cardinality(P) : udeg[s[k]] = LineDegree(lines, f[k])
  <2> TAKE k \in 1..Cardinality(P)
  <2>1. s[k] = lines[f[k]][1] /\ f[k] \in 1..Len(lines)
    BY <1>3, LinesUpto
  <2>2. s[k] \in User
    BY <2>1, EntriesAreLines
  <2>3. udeg[s[k]] = Len(uedges[s[k]]) /\ Len(uedges[s[k]]) = Cardinality(UserLines(lines, s[k]))
    BY <2>2, EntriesAreLines DEF DegreesFit
  <2> QED
    BY <2>1, <2>3 DEF LineDegree
<1>5. /\ \A k \in K : k \in 1..Cardinality(P) /\ f[k] \in Q
      /\ \A q \in Q : \E k \in K : f[k] = q
  <2>1. \A k : k \in K <=> k \in 1..Cardinality(P) /\ LineDegree(lines, f[k]) >= 2
    <3>1. \A k : k \in K <=> k \in DOMAIN s /\ udeg[s[k]] >= 2
      BY DEF Kept
    <3> HIDE DEF K, s, P
    <3> QED
      BY ONLY <1>3, <1>4, <3>1
  <2>2. \A q : q \in Q <=> q \in P /\ LineDegree(lines, q) >= 2
    BY DEF KeptLines
  <2> HIDE DEF P, Q, K
  <2> QED
    BY <1>2, <1>3, <2>1, <2>2
<1>6. PICK g \in [1..Cardinality(K) -> K] :
         /\ \A p \in K : \E k \in DOMAIN g : g[k] = p
         /\ \A k, l \in DOMAIN g : k < l => g[k] # g[l] /\ udeg[s[g[k]]] <= udeg[s[g[l]]]
         /\ t = [k \in DOMAIN g |-> s[g[k]]]
  BY DEF Sorts
<1> DEFINE h == [k \in 1..Cardinality(K) |-> f[g[k]]]
<1>7. IsFiniteSet(K) /\ Cardinality(K) \in Nat
  <2>1. Cardinality(P) \in Nat
    <3>1. P \in SUBSET (1..Len(lines)) /\ Len(lines) \in Nat
      BY LinesUpto
    <3> QED
      BY <3>1, OneMore
  <2>2. K \in SUBSET (1..Cardinality(P))
    BY <1>5
  <2> HIDE DEF K, P
  <2> QED
    BY ONLY <2>1, <2>2, OneMore
<1> HIDE DEF P, Q, K, s, t
<1>8. /\ DOMAIN g = 1..Cardinality(K) /\ \A k \in 1..Cardinality(K) : g[k] \in K
      /\ \A k, m \in 1..Cardinality(K) : g[k] = g[m] => k = m
  <2>1. \A k, m \in 1..Cardinality(K) : k < m \/ m < k \/ k = m
    BY <1>7
  <2> QED
    BY <1>6, <2>1
<1>9. /\ h \in [1..Cardinality(K) -> Q] /\ \A k \in 1..Cardinality(K) : h[k] = f[g[k]]
      /\ DOMAIN h = 1..Cardinality(K)
  BY <1>5, <1>8
<1> HIDE DEF h
<1>10. \A k, m \in 1..Cardinality(K) : h[k] = h[m] => k = m
  BY <1>2, <1>5, <1>8, <1>9
<1>11. \A q \in Q : \E k \in 1..Cardinality(K) : h[k] = q
  BY <1>5, <1>6, <1>8, <1>9
<1>12. h \in Injection(1..Cardinality(K), Q) /\ h \in Surjection(1..Cardinality(K), Q)
  BY <1>9, <1>10, <1>11 DEF Injection, Surjection, IsInjective
<1>13. Cardinality(Q) = Cardinality(K)
  <2>1. IsFiniteSet(1..Cardinality(K)) /\ Cardinality(1..Cardinality(K)) = Cardinality(K)
    <3>1. 1 \in Int /\ Cardinality(K) \in Int
      BY <1>7
    <3>2. /\ IsFiniteSet(1..Cardinality(K))
          /\ Cardinality(1..Cardinality(K)) = IF 1 > Cardinality(K) THEN 0 ELSE Cardinality(K) - 1 + 1
      BY ONLY <3>1, FS_Interval
    <3> QED
      BY <1>7, <3>2
  <2>2. Cardinality(Q) = Cardinality(1..Cardinality(K))
    BY ONLY <1>12, <2>1, FS_Surjection
  <2> QED
    BY <2>1, <2>2
<1>14. h \in Arranged(Q)
  BY <1>12, <1>13 DEF Arranged, Bijection
<1>15. \A k \in 1..Cardinality(K) : udeg[s[g[k]]] = LineDegree(lines, h[k]) /\ s[g[k]] = lines[h[k]][1]
  BY <1>3, <1>4, <1>5, <1>8, <1>9
<1>16. ByDegree(lines, h)
  BY <1>6, <1>8, <1>9, <1>15 DEF ByDegree
<1>17. t = UsersOf(lines, h)
  BY <1>6, <1>8, <1>9, <1>15 DEF UsersOf
<1> QED
  BY <1>14, <1>16, <1>17 DEF Q, t

LEMMA SortedKeeps == LoadInv /\ Sorted /\ [LoadNext]_loadVars => Sorted'
<1> SUFFICES ASSUME Sorted, LoadNext \/ UNCHANGED loadVars PROVE Sorted'
  OBVIOUS
<1>1. CASE ReadEdge
  BY <1>1 DEF ReadEdge, Reading, Sorted
<1>2. CASE AssertFails
  BY <1>2 DEF AssertFails, Sorted
<1>3. CASE EndReading
  BY <1>3 DEF EndReading, Sorted
<1>4. CASE Preprocess
  <2>1. vSorted' \in OneOfEach([x \in Item |-> Sorts(vedges[x], Kept(x), udeg)])
    BY <1>4 DEF Preprocess
  <2>2. \A x \in Item : vSorted'[x] \in Sorts(vedges[x], Kept(x), udeg)
    BY <2>1 DEF OneOfEach
  <2>3. vedges' = vedges /\ udeg' = udeg
    BY <1>4 DEF Preprocess, graph
  <2>4. \A x : Kept(x)' = Kept(x)
    BY <2>3 DEF Kept
  <2> QED
    BY <2>2, <2>3, <2>4 DEF Sorted
<1>5. ASSUME UNCHANGED <<graph, derived>>, phase \in {"sets", "done"} \/ phase' \notin {"sets", "done"}
      PROVE  Sorted'
  <2>1. vedges' = vedges /\ udeg' = udeg /\ vSorted' = vSorted
    BY <1>5 DEF graph, derived
  <2>2. \A x : Kept(x)' = Kept(x)
    BY <2>1 DEF Kept
  <2> QED
    BY <1>5, <2>1, <2>2 DEF Sorted
<1>6. CASE SetBuild
  BY <1>5, <1>6 DEF SetBuild
<1>7. CASE UNCHANGED loadVars
  BY <1>5, <1>7 DEF loadVars
<1> QED
  BY <1>1, <1>2, <1>3, <1>4, <1>6, <1>7 DEF LoadNext, LoadEnded

\* What a file of numbers leaves is the graph of its lines, with every list in an order
\* that the scoring procedures start from: the users of an item in the order of the
\* file, and those with two edges or more by ascending degree.
THEOREM LoadsTheGraph == LoadSpec => []GraphLoaded
<1>1. LoadInit => Sorted
  BY DEF LoadInit, Sorted
<1>2. ASSUME LoadInv, Sorted PROVE GraphLoaded
  <2> SUFFICES ASSUME AllNumbers, phase # "exit" PROVE \E lines \in Lines : GraphOf(lines)
    BY DEF GraphLoaded
  <2>1. ReadByTwos /\ Holds(Entered) /\ LoadTypeOK /\ DegreesFit
    BY <1>2 DEF LoadInv, NumbersEntered
  <2>2. Entered \in Lines
    BY <2>1 DEF Lines, Entered, NumEntered, ReadByTwos
  <2>3. Len(Entered) \in Nat
    BY <2>1, EnteredFacts
  <2>4. ItemSets(Entered) /\ UserLists(Entered)
    BY <2>1, <2>3, ListsOfLines
  <2>5. ASSUME phase \in {"sets", "done"} PROVE SortedLists(Entered)
    <3>1. \A x \in Item : vSorted[x] \in Sorts(vedges[x], Kept(x), udeg)
      BY <1>2, <2>5 DEF Sorted
    <3> QED
      BY <2>1, <2>3, <3>1, SortedLines
  <2> QED
    BY <2>2, <2>4, <2>5 DEF GraphOf
<1> QED
  BY <1>1, <1>2, SortedKeeps, LoadInductive, PTL DEF LoadSpec

-----------------------------------------------------------------------------
(* Loading: the end.                                                       *)

\* The steps that loading has left at most.
PhasesLeft == IF phase = "read" THEN 3 ELSE IF phase = "prep" THEN 2 ELSE IF phase = "sets" THEN 1 ELSE 0
StepsLeft == Len(file) - pos + PhasesLeft

LoadShrinks == [][AllNumbers => StepsLeft' \in Nat /\ StepsLeft' < StepsLeft]_loadVars

\* One call of fscanf for each line, so that MaxReads calls do for two numbers each.
ReadsCounted == AllNumbers /\ phase # "exit" => readCnt = NumEntered
EnoughReads ==
    AllNumbers /\ phase = "read" /\ Len(file) <= 2 * MaxReads =>
        EndOfFile(pos) \/ readCnt < MaxReads

\* Every step of loading a file of numbers leaves fewer steps: no call of fscanf stands
\* still, and the loop on end of file ends.
THEOREM LoadingEnds == LoadSpec => LoadShrinks
<1> DEFINE Shrinks == AllNumbers => StepsLeft' \in Nat /\ StepsLeft' < StepsLeft
<1>1. ASSUME LoadTypeOK, LoadTypeOK', LoadNext, AllNumbers
      PROVE  UNCHANGED loadVars \/ (StepsLeft' \in Nat /\ StepsLeft' < StepsLeft)
  <2>1. Len(file) \in Nat /\ pos \in 0..Len(file)
    BY <1>1, Tokens
  <2>2. PhasesLeft' \in {0, 1, 2, 3}
    BY <1>1 DEF PhasesLeft, LoadTypeOK
  <2>3. CASE ReadEdge \/ AssertFails
    <3>1. /\ phase = "read" /\ phase' \in {"read", "exit"} /\ file' = file
          /\ ~ EndOfFile(pos) /\ Scan
      BY <2>3 DEF ReadEdge, AssertFails, Reading
    <3>2. IsNumber(pos + 1)
      BY <1>1, <2>1, <3>1 DEF EndOfFile, IsNumber, AllNumbers
    <3>3. pos' > pos /\ pos' \in 0..Len(file)
      <4>1. pos' \in {pos + 1, pos + 2}
        BY <3>1, <3>2 DEF Scan
      <4>2. pos' \in 0..Len(file)
        BY <1>1, <3>1 DEF LoadTypeOK
      <4> QED
        BY <2>1, <4>1, <4>2
    <3>4. PhasesLeft = 3
      BY <3>1 DEF PhasesLeft
    <3> QED
      BY <2>1, <2>2, <3>1, <3>3, <3>4 DEF StepsLeft
  <2>4. CASE EndReading \/ Preprocess \/ SetBuild
    <3>1. file' = file /\ pos' = pos
      BY <2>4 DEF EndReading, Preprocess, SetBuild, reader
    <3>2. PhasesLeft' < PhasesLeft /\ PhasesLeft \in Nat /\ PhasesLeft' \in Nat
      BY <2>4 DEF EndReading, Preprocess, SetBuild, PhasesLeft
    <3> QED
      BY <2>1, <3>1, <3>2 DEF StepsLeft
  <2>5. CASE LoadEnded
    BY <2>5 DEF LoadEnded
  <2> QED
    BY <1>1, <2>3, <2>4, <2>5 DEF LoadNext
<1>2. LoadTypeOK /\ LoadTypeOK' /\ [LoadNext]_loadVars => [Shrinks]_loadVars
  BY <1>1
<1>3. (LoadSpec => LoadShrinks) <=> (LoadSpec => [][Shrinks]_loadVars)
  BY DEF LoadShrinks
<1> HIDE DEF Shrinks
<1>4. LoadSpec => [][Shrinks]_loadVars
  BY <1>2, LoadTypes, PTL DEF LoadSpec
<1> QED
  BY <1>3, <1>4

\* A file of numbers is read with one call of fscanf for each of its lines: the bound
\* on the calls stops no file of twice as many numbers.
THEOREM ReadsSuffice == LoadSpec => []EnoughReads
<1>1. LoadInit => ReadsCounted
  <2> SUFFICES ASSUME LoadInit PROVE ReadsCounted
    OBVIOUS
  <2>1. NumEntered = 0
    BY DEF LoadInit, NumEntered
  <2> QED
    BY <2>1 DEF LoadInit, ReadsCounted
<1>2. LoadInv /\ LoadInv' /\ ReadsCounted /\ [LoadNext]_loadVars => ReadsCounted'
  <2> SUFFICES ASSUME LoadInv, LoadInv', ReadsCounted, LoadNext \/ UNCHANGED loadVars,
                      AllNumbers', phase' # "exit"
               PROVE  readCnt' = NumEntered'
    BY DEF ReadsCounted
  <2>1. CASE ReadEdge
    <3>1. /\ phase = "read" /\ ~ EndOfFile(pos) /\ Scan /\ UNCHANGED file /\ readCnt' = readCnt + 1
      BY <2>1 DEF ReadEdge, Reading
    <3>2. AllNumbers
      BY <3>1 DEF AllNumbers
    <3>3. ReadByTwos /\ readCnt = NumEntered /\ LoadTypeOK /\ LoadTypeOK'
      BY <3>1, <3>2 DEF LoadInv, NumbersEntered, ReadsCounted
    <3>4. NumEntered' = NumEntered + 1
      BY <3>1, <3>2, <3>3, LineRead
    <3> QED
      BY <3>1, <3>3, <3>4
  <2>2. CASE AssertFails
    BY <2>2 DEF AssertFails
  <2>3. ASSUME UNCHANGED reader, phase # "exit"
        PROVE  readCnt' = NumEntered'
    BY <2>3 DEF reader, ReadsCounted, NumEntered, AllNumbers
  <2>4. CASE EndReading \/ Preprocess \/ SetBuild
    BY <2>3, <2>4 DEF EndReading, Preprocess, SetBuild
  <2>5. CASE UNCHANGED loadVars
    BY <2>3, <2>5 DEF loadVars
  <2> QED
    BY <2>1, <2>2, <2>4, <2>5 DEF LoadNext, LoadEnded
<1>3. LoadInv /\ ReadsCounted => EnoughReads
  <2> SUFFICES ASSUME LoadInv, ReadsCounted, AllNumbers, phase = "read",
                      Len(file) <= 2 * MaxReads, ~ EndOfFile(pos), ~ (readCnt < MaxReads)
               PROVE  FALSE
    BY DEF EnoughReads
  <2>1. LoadTypeOK /\ ReadByTwos /\ readCnt = NumEntered
    BY DEF LoadInv, NumbersEntered, ReadsCounted
  <2>2. Len(file) \in Nat /\ pos \in Nat /\ pos < Len(file)
    BY <2>1, Tokens DEF EndOfFile
  <2>3. pos % 2 = 0
    BY <2>1, <2>2 DEF ReadByTwos
  <2>4. pos \div 2 \in Nat /\ pos = 2 * (pos \div 2)
    BY <2>2, <2>3
  <2>5. readCnt = pos \div 2 /\ MaxReads \in Nat /\ readCnt \in 0..MaxReads
    BY <2>1, <2>3, <2>4, FilesOK DEF NumEntered, LoadTypeOK
  <2> QED
    BY <2>2, <2>4, <2>5
<1> QED
  BY <1>1, <1>2, <1>3, LoadInductive, PTL DEF LoadSpec

-----------------------------------------------------------------------------
(* Renumbering: the invariant.                                             *)

\* SampleOrder has numbered as many items as it has visited.
Counted == pc = "greedy" => Cardinality(visited) = curV

Fresh == pc = "start" => visited = {} /\ curV = 0

IInv == TypeOK /\ NumberedOnce /\ Counted /\ Fresh /\ CurrentEntryFirst

LEMMA ItemFacts ==
    /\ NumItems \in Nat /\ NumUsers \in Nat /\ Pos \in Item /\ WindowSize \in Nat \ {0}
    /\ Item \subseteq Nat /\ IsFiniteSet(Item) /\ Cardinality(Item) = NumItems
<1>1. NumItems \in Nat /\ NumUsers \in Nat /\ Pos \in Item /\ WindowSize \in Nat \ {0}
  BY ParametersOK, SizesOK
<1>2. Item \subseteq Nat
  BY <1>1 DEF Item
<1>3. 0 \in Int /\ NumItems - 1 \in Int /\ NumItems > 0
  BY <1>1 DEF Item
<1>4. IsFiniteSet(Item) /\ Cardinality(Item) = NumItems - 1 - 0 + 1
  <2>1. \A m, n \in Int : /\ IsFiniteSet(m..n)
                          /\ Cardinality(m..n) = IF m > n THEN 0 ELSE n - m + 1
    BY FS_Interval
  <2>2. /\ IsFiniteSet(0..(NumItems - 1))
        /\ Cardinality(0..(NumItems - 1)) = IF 0 > NumItems - 1 THEN 0 ELSE NumItems - 1 - 0 + 1
    BY <1>3, <2>1, Zenon
  <2>3. ~ (0 > NumItems - 1)
    BY <1>1, <1>3
  <2> QED
    BY <2>2, <2>3 DEF Item
<1> QED
  BY <1>1, <1>2, <1>4

\* The items that a visited set leaves have a count of edges.
LEMMA EdgesFinite ==
    ASSUME TypeOK, NEW v \in Item
    PROVE  IsFiniteSet(EdgesOf(v)) /\ Cardinality(EdgesOf(v)) \in Nat
<1>1. DOMAIN edges = 1..Len(edges) /\ Len(edges) \in Nat
  BY DEF TypeOK
<1>2. 1 \in Int /\ Len(edges) \in Int
  BY <1>1
<1>3. IsFiniteSet(DOMAIN edges)
  BY <1>1, <1>2, FS_Interval
<1>4. EdgesOf(v) \subseteq DOMAIN edges
  BY DEF EdgesOf
<1> QED
  BY <1>3, <1>4, FS_Subset, FS_CardinalityType

\* An inverse found by choice is a bijection again.
ChosenInverse(f) == [v \in Item |-> CHOOSE k \in Item : f[k] = v]

LEMMA InverseOfBijection ==
    ASSUME NEW f, IsBijection(f)
    PROVE  IsBijection(ChosenInverse(f)) /\ \A v \in Item : f[ChosenInverse(f)[v]] = v
<1> DEFINE g == ChosenInverse(f)
<1>1. \A v \in Item : g[v] \in Item /\ f[g[v]] = v
  BY DEF IsBijection, ChosenInverse
<1>2. \A v, w \in Item : g[v] = g[w] => v = w
  BY <1>1
<1>3. \A v \in Item : g[f[v]] = v
  BY <1>1 DEF IsBijection
<1>4. \A v \in Item : \E w \in Item : g[w] = v
  BY <1>3 DEF IsBijection
<1>5. g \in [Item -> Item]
  BY <1>1 DEF ChosenInverse
<1> QED
  BY <1>1, <1>2, <1>4, <1>5 DEF IsBijection

LEMMA InitHolds == Init => IInv
<1> SUFFICES ASSUME Init PROVE IInv
  OBVIOUS
<1>1. 0 \in Item
  BY ItemFacts DEF Item
<1>2. ZeroIndex \in [Item -> Item] /\ ZeroIndex \in [Item -> Nat]
  BY <1>1 DEF ZeroIndex
<1>3. edges \in Seq(User \X Item) /\ order \in Orders
  BY ParametersOK DEF Init
<1>4. TypeOK
  BY <1>1, <1>2, <1>3, ItemFacts DEF Init, TypeOK
<1>5. CurrentEntryFirst
  BY DEF Init, CurrentEntryFirst, WindowEnds
<1> QED
  BY <1>4, <1>5 DEF Init, IInv, NumberedOnce, Counted, Fresh

-----------------------------------------------------------------------------
(* The two orders that need one step.                                      *)

LEMMA OriOrderKeeps == IInv /\ OriOrder => IInv'
<1> SUFFICES ASSUME IInv, OriOrder PROVE IInv'
  OBVIOUS
<1>1. /\ mapIndex' = [v \in Item |-> v] /\ oriIndex' = [v \in Item |-> v] /\ pc' = "done"
      /\ UNCHANGED <<edges, order, vertices, curDll, visited, queue, weight, seen, curV>>
  BY DEF OriOrder
<1>2. TypeOK' /\ Counted' /\ Fresh' /\ CurrentEntryFirst'
  BY <1>1 DEF IInv, TypeOK, Counted, Fresh, CurrentEntryFirst, WindowEnds
<1>3. NumberedOnce'
  BY <1>1 DEF NumberedOnce, IsBijection
<1> QED
  BY <1>2, <1>3 DEF IInv

LEMMA DegOrderKeeps == IInv /\ DegOrder => IInv'
<1> SUFFICES ASSUME IInv, DegOrder PROVE IInv'
  OBVIOUS
<1>1. PICK f \in [Item -> Item] :
        /\ IsBijection(f) /\ oriIndex' = f
        /\ mapIndex' = ChosenInverse(f)
  BY DEF DegOrder, ChosenInverse
<1>2. /\ pc' = "done"
      /\ UNCHANGED <<edges, order, vertices, curDll, visited, queue, weight, seen, curV>>
  BY DEF DegOrder
<1>3. IsBijection(mapIndex') /\ \A v \in Item : oriIndex'[mapIndex'[v]] = v
  BY <1>1, InverseOfBijection
<1>4. mapIndex' \in [Item -> Item] /\ oriIndex' \in [Item -> Item]
  BY <1>1, <1>3 DEF IsBijection
<1>5. TypeOK' /\ Counted' /\ Fresh' /\ CurrentEntryFirst'
  BY <1>2, <1>4 DEF IInv, TypeOK, Counted, Fresh, CurrentEntryFirst, WindowEnds
<1>6. NumberedOnce'
  BY <1>2, <1>3 DEF NumberedOnce, IsBijection
<1> QED
  BY <1>5, <1>6 DEF IInv

LEMMA RankKeeps == IInv /\ Rank => IInv'
<1> SUFFICES ASSUME IInv, Rank PROVE IInv'
  OBVIOUS
<1>1. vertices' \in [Item -> Item] /\ visited = {} /\ curV = 0
  BY DEF Rank, IInv, Fresh
<1>2. /\ pc' = "greedy"
      /\ UNCHANGED <<edges, order, curDll, visited, queue, weight, seen, curV,
                     mapIndex, oriIndex>>
  BY DEF Rank
<1>3. TypeOK' /\ CurrentEntryFirst'
  BY <1>1, <1>2 DEF IInv, TypeOK, CurrentEntryFirst, WindowEnds
<1>4. Counted' /\ Fresh' /\ NumberedOnce'
  BY <1>1, <1>2, FS_EmptySet DEF Counted, Fresh, NumberedOnce
<1> QED
  BY <1>3, <1>4 DEF IInv

-----------------------------------------------------------------------------
(* The greedy order.                                                       *)

\* The new queue and weights grow out of what a choice left of the old ones.
GrowsFrom(oldQueue, oldWeight) ==
    \E touched \in SUBSET (Item \ visited') :
        /\ queue' = oldQueue \cup {<<weight'[w], w>> : w \in touched}
        /\ \A w \in Item : weight'[w] \in Nat /\ weight'[w] >= oldWeight[w]
        /\ \A w \in Item \ touched : weight'[w] = oldWeight[w]

\* What numbering one more item leaves.
LEMMA NumberFacts ==
    ASSUME IInv, Numbering, NEW v \in Item, v \notin visited,
           NEW oldQueue, oldQueue \subseteq (Nat \X Item),
           NEW oldWeight \in [Item -> Nat], NEW oldSeen, oldSeen \subseteq User,
           Number(v, oldQueue, oldWeight, oldSeen), curDll' \in 0..NumItems
    PROVE  /\ TypeOK' /\ NumberedOnce' /\ Counted' /\ Fresh'
           /\ pc' = pc /\ visited' = visited \cup {v}
           /\ GrowsFrom(oldQueue, oldWeight)
<1>1. /\ pc = "greedy" /\ curV < NumItems /\ TypeOK /\ curV \in Nat
      /\ Cardinality(visited) = curV /\ visited \subseteq Item /\ IsFiniteSet(visited)
      /\ mapIndex \in [Item -> Item]
  <2>1. pc = "greedy" /\ curV < NumItems /\ TypeOK /\ Cardinality(visited) = curV
    BY DEF IInv, Numbering, Counted
  <2>2. visited \subseteq Item /\ curV \in Nat /\ mapIndex \in [Item -> Item]
    BY <2>1, ItemFacts DEF TypeOK
  <2> QED
    BY <2>1, <2>2, ItemFacts, FS_Subset
<1>2. /\ visited' = visited \cup {v} /\ mapIndex' = [mapIndex EXCEPT ![v] = curV]
      /\ curV' = curV + 1 /\ pc' = pc
      /\ UNCHANGED <<edges, order, vertices, oriIndex>>
  BY DEF Number, NextNumber
<1>3. PICK S \in Samples(v) :
        LET new == {edges[e][1] : e \in S} \ oldSeen
            count(w) == Cardinality({e \in EdgesOf(w) : edges[e][1] \in new})
            touched == {w \in Item \ visited' : count(w) > 0}
        IN  /\ seen' = oldSeen \cup new
            /\ weight' = [w \in Item |-> IF w \in touched THEN oldWeight[w] + count(w)
                                         ELSE oldWeight[w]]
            /\ queue' = oldQueue \cup {<<weight'[w], w>> : w \in touched}
  BY DEF Number
<1> DEFINE new == {edges[e][1] : e \in S} \ oldSeen
           count(w) == Cardinality({e \in EdgesOf(w) : edges[e][1] \in new})
           touched == {w \in Item \ visited' : count(w) > 0}
<1>4. /\ seen' = oldSeen \cup new
      /\ weight' = [w \in Item |-> IF w \in touched THEN oldWeight[w] + count(w)
                                   ELSE oldWeight[w]]
      /\ queue' = oldQueue \cup {<<weight'[w], w>> : w \in touched}
  BY <1>3
<1>5. ASSUME NEW w \in Item PROVE count(w) \in Nat
  <2>1. {e \in EdgesOf(w) : edges[e][1] \in new} \subseteq EdgesOf(w)
    OBVIOUS
  <2> QED
    BY <1>1, <2>1, EdgesFinite, FS_Subset, FS_CardinalityType
<1>6. new \subseteq User
  <2>1. S \subseteq EdgesOf(v)
    BY DEF Samples
  <2>2. \A e \in EdgesOf(v) : e \in 1..Len(edges) /\ edges \in Seq(User \X Item)
    BY <1>1 DEF EdgesOf, TypeOK
  <2>3. \A e \in S : edges[e] \in User \X Item
    BY <2>1, <2>2, ElementOfSeq
  <2> QED
    BY <2>3
<1>7. touched \subseteq Item \ visited'
  OBVIOUS
<1> HIDE DEF new, count, touched
<1>8. /\ weight' \in [Item -> Nat]
      /\ \A w \in Item : weight'[w] \in Nat /\ weight'[w] >= oldWeight[w]
      /\ \A w \in Item \ touched : weight'[w] = oldWeight[w]
  BY <1>4, <1>5
<1>9. queue' \subseteq Nat \X Item
  BY <1>4, <1>7, <1>8
<1>10. curV \in Item /\ curV' \in 0..NumItems
  BY <1>1, <1>2, ItemFacts DEF Item
<1>11. mapIndex' \in [Item -> Item] /\ visited' \subseteq Item /\ seen' \subseteq User
  BY <1>1, <1>2, <1>4, <1>6, <1>10
<1>12. TypeOK'
  BY <1>1, <1>2, <1>8, <1>9, <1>10, <1>11 DEF TypeOK
<1>13. Counted' /\ Fresh'
  <2>1. Cardinality(visited \cup {v}) = Cardinality(visited) + 1
    BY <1>1, FS_AddElement
  <2> QED
    BY <1>1, <1>2, <2>1 DEF Counted, Fresh
<1>14. NumberedOnce'
  <2>1. /\ \A w \in visited : mapIndex[w] < curV /\ mapIndex[w] \in Nat
        /\ \A k \in 0..(curV - 1) : \E w \in visited : mapIndex[w] = k
        /\ \A w, x \in visited : mapIndex[w] = mapIndex[x] => w = x
    BY <1>1, ItemFacts DEF IInv, NumberedOnce
  <2>2. mapIndex'[v] = curV /\ \A w \in visited : mapIndex'[w] = mapIndex[w]
    BY <1>1, <1>2
  <2>3. \A w \in visited' : mapIndex'[w] < curV'
    BY <1>1, <1>2, <2>1, <2>2
  <2>4. ASSUME NEW k \in 0..(curV' - 1) PROVE \E w \in visited' : mapIndex'[w] = k
    <3>1. k = curV \/ k \in 0..(curV - 1)
      BY <1>1, <1>2
    <3> QED
      BY <1>2, <2>1, <2>2, <3>1
  <2>5. \A w, x \in visited' : mapIndex'[w] = mapIndex'[x] => w = x
    BY <1>1, <1>2, <2>1, <2>2
  <2>6. pc' = "greedy"
    BY <1>1, <1>2
  <2> QED
    BY <2>3, <2>4, <2>5, <2>6 DEF NumberedOnce
<1>15. GrowsFrom(oldQueue, oldWeight)
  BY <1>4, <1>7, <1>8 DEF GrowsFrom
<1> QED
  BY <1>2, <1>12, <1>13, <1>14, <1>15

\* The entries of unvisited items survive if the old queue and the old weights keep them.
LEMMA EntriesKept ==
    ASSUME NEW oldQueue, oldQueue \subseteq Nat \X Item,
           NEW oldWeight \in [Item -> Nat], GrowsFrom(oldQueue, oldWeight),
           \A w \in Item \ visited' :
               /\ oldWeight[w] > 0 => <<oldWeight[w], w>> \in oldQueue
               /\ \A x \in oldQueue : x[2] = w => x[1] <= oldWeight[w]
    PROVE  CurrentEntryFirst'
<1>0. PICK touched \in SUBSET (Item \ visited') :
        /\ queue' = oldQueue \cup {<<weight'[w], w>> : w \in touched}
        /\ \A w \in Item : weight'[w] \in Nat /\ weight'[w] >= oldWeight[w]
        /\ \A w \in Item \ touched : weight'[w] = oldWeight[w]
  BY DEF GrowsFrom
<1> SUFFICES ASSUME NEW w \in Item \ visited'
             PROVE  /\ weight'[w] > 0 => <<weight'[w], w>> \in queue'
                    /\ \A x \in queue' : x[2] = w => x[1] <= weight'[w]
  BY DEF CurrentEntryFirst
<1>1. weight'[w] > 0 => <<weight'[w], w>> \in queue'
  BY <1>0
<1>2. ASSUME NEW x \in queue', x[2] = w PROVE x[1] <= weight'[w]
  <2>1. CASE x \in oldQueue
    <3>1. x[1] <= oldWeight[w] /\ x[1] \in Nat /\ oldWeight[w] \in Nat
      BY <1>2, <2>1
    <3> QED
      BY <1>0, <3>1
  <2>2. CASE \E y \in touched : x = <<weight'[y], y>>
    <3>1. x[1] = weight'[w] /\ weight'[w] \in Nat
      BY <1>0, <1>2, <2>2
    <3> QED
      BY <3>1
  <2> QED
    BY <1>0, <2>1, <2>2
<1> QED
  BY <1>1, <1>2

LEMMA StartWindowKeeps == IInv /\ StartWindow => IInv'
<1> SUFFICES ASSUME IInv, StartWindow PROVE IInv'
  OBVIOUS
<1>1. PICK k \in Item :
        IsNextRanked(k) /\ curDll' = k + 1 /\ Number(vertices[k], {}, ZeroIndex, {})
  BY DEF StartWindow
<1>2. /\ Numbering /\ vertices[k] \in Item /\ vertices[k] \notin visited
      /\ curDll' \in 0..NumItems /\ ZeroIndex \in [Item -> Nat]
      /\ {} \subseteq Nat \X Item /\ {} \subseteq User
  BY <1>1, ItemFacts DEF StartWindow, IInv, TypeOK, IsNextRanked, Item, ZeroIndex
<1>3. /\ TypeOK' /\ NumberedOnce' /\ Counted' /\ Fresh'
      /\ visited' = visited \cup {vertices[k]}
      /\ GrowsFrom({}, ZeroIndex)
  BY <1>1, <1>2, NumberFacts
<1>4. CurrentEntryFirst'
  <2>1. \A w \in Item \ visited' : ~ (ZeroIndex[w] > 0)
    BY DEF ZeroIndex
  <2> QED
    BY <1>2, <1>3, <2>1, EntriesKept
<1> QED
  BY <1>3, <1>4 DEF IInv

\* Entries that are taken out and thrown away are of visited items; one that comes
\* after the first of an unvisited item stays.
LEMMA TakeFromQueueKeeps == IInv /\ TakeFromQueue => IInv'
<1> SUFFICES ASSUME IInv, TakeFromQueue PROVE IInv'
  OBVIOUS
<1>1. PICK x \in queue :
        /\ x[2] \notin visited
        /\ \A y \in queue : Before(y, x) => y[2] \in visited
        /\ Number(x[2], {y \in queue : Before(x, y)}, weight, seen)
  BY DEF TakeFromQueue
<1>2. /\ Numbering /\ ~ WindowEnds /\ curDll' = curDll
      /\ queue \subseteq Nat \X Item /\ weight \in [Item -> Nat] /\ seen \subseteq User
      /\ curDll \in 0..NumItems
      /\ \A w \in Item \ visited : /\ weight[w] > 0 => <<weight[w], w>> \in queue
                                   /\ \A y \in queue : y[2] = w => y[1] <= weight[w]
  BY DEF TakeFromQueue, IInv, TypeOK, CurrentEntryFirst
<1>3. x[2] \in Item /\ x[1] \in Nat /\ x = <<x[1], x[2]>>
  BY <1>2
<1> DEFINE rest == {y \in queue : Before(x, y)}
<1>4. rest \subseteq Nat \X Item /\ rest \subseteq queue
  BY <1>2
<1>5. /\ TypeOK' /\ NumberedOnce' /\ Counted' /\ Fresh'
      /\ visited' = visited \cup {x[2]}
      /\ GrowsFrom(rest, weight)
  BY <1>1, <1>2, <1>3, <1>4, NumberFacts
<1>6. ASSUME NEW w \in Item \ visited', weight[w] > 0
      PROVE  <<weight[w], w>> \in rest
  <2>1. w \notin visited /\ w # x[2] /\ w \in Nat /\ x[2] \in Nat /\ weight[w] \in Nat
    BY <1>2, <1>3, <1>5, ItemFacts
  <2>2. <<weight[w], w>> \in queue
    BY <1>2, <1>6, <2>1
  <2>3. ~ Before(<<weight[w], w>>, x)
    BY <1>1, <2>1, <2>2
  <2>4. Before(x, <<weight[w], w>>)
    BY <1>3, <2>1, <2>3 DEF Before
  <2> QED
    BY <2>2, <2>4
<1>7. CurrentEntryFirst'
  <2>1. \A w \in Item \ visited' :
           /\ weight[w] > 0 => <<weight[w], w>> \in rest
           /\ \A y \in rest : y[2] = w => y[1] <= weight[w]
    BY <1>2, <1>4, <1>5, <1>6
  <2> HIDE DEF rest
  <2> QED
    BY <1>2, <1>4, <1>5, <2>1, EntriesKept
<1> QED
  BY <1>5, <1>7 DEF IInv

LEMMA TakeRankedKeeps == IInv /\ TakeRanked => IInv'
<1> SUFFICES ASSUME IInv, TakeRanked PROVE IInv'
  OBVIOUS
<1>1. PICK k \in Item :
        IsNextRanked(k) /\ curDll' = k + 1 /\ Number(vertices[k], {}, weight, seen)
  BY DEF TakeRanked
<1>2. /\ Numbering /\ vertices[k] \in Item /\ vertices[k] \notin visited
      /\ weight \in [Item -> Nat] /\ seen \subseteq User
      /\ {} \subseteq Nat \X Item
  BY <1>1 DEF TakeRanked, IInv, TypeOK, IsNextRanked
<1>a. curDll' \in 0..NumItems
  BY <1>1, ItemFacts DEF Item
<1>3. /\ TypeOK' /\ NumberedOnce' /\ Counted' /\ Fresh'
      /\ visited' = visited \cup {vertices[k]}
      /\ GrowsFrom({}, weight)
  BY <1>1, <1>2, <1>a, NumberFacts
<1>4. CurrentEntryFirst'
  <2>1. \A w \in Item \ visited' : ~ (weight[w] > 0)
    <3> SUFFICES ASSUME NEW w \in Item, w \notin visited, weight[w] > 0 PROVE FALSE
      BY <1>3
    <3>1. <<weight[w], w>> \in queue
      BY DEF TakeRanked, IInv, CurrentEntryFirst
    <3> QED
      BY <3>1 DEF TakeRanked
  <2> QED
    BY <1>2, <1>3, <2>1, EntriesKept
<1> QED
  BY <1>3, <1>4 DEF IInv

\* When all numbers are given, all items have one.
LEMMA InvertKeeps == IInv /\ Invert => IInv'
<1> SUFFICES ASSUME IInv, Invert PROVE IInv'
  OBVIOUS
<1>1. /\ pc = "greedy" /\ ~ Numbering /\ pc' = "done"
      /\ mapIndex' = [v \in Item |-> IF v \in visited THEN mapIndex[v] ELSE v]
      /\ oriIndex' = [k \in Item |->
                        IF \E v \in Item : mapIndex'[v] = k
                        THEN CHOOSE v \in Item :
                                /\ mapIndex'[v] = k
                                /\ \A w \in Item : mapIndex'[w] = k => w <= v
                        ELSE oriIndex[k]]
      /\ UNCHANGED <<edges, order, vertices, curDll, visited, queue, weight, seen, curV>>
  BY DEF Invert, greedyVars
<1>2. /\ TypeOK /\ visited \subseteq Item /\ Cardinality(visited) = curV /\ curV = NumItems
      /\ mapIndex \in [Item -> Item] /\ oriIndex \in [Item -> Item]
  <2>1. ~ (curV < NumItems) /\ curV \in 0..NumItems
    BY <1>1 DEF Numbering, IInv, TypeOK
  <2> QED
    BY <1>1, <2>1, ItemFacts DEF IInv, TypeOK, Counted
<1>3. visited = Item
  BY <1>2, ItemFacts, FS_Subset
<1>4. mapIndex' = mapIndex
  BY <1>1, <1>2, <1>3
<1>5. IsBijection(mapIndex')
  <2>1. /\ \A k \in 0..(curV - 1) : \E v \in Item : mapIndex[v] = k
        /\ \A v, w \in Item : mapIndex[v] = mapIndex[w] => v = w
    BY <1>1, <1>3 DEF IInv, NumberedOnce
  <2> QED
    BY <1>2, <1>4, <2>1 DEF IsBijection, Item
<1>6. /\ oriIndex' \in [Item -> Item]
      /\ \A v \in Item : oriIndex'[mapIndex'[v]] = v
  <2> DEFINE Is(v, k) == mapIndex'[v] = k /\ \A w \in Item : mapIndex'[w] = k => w <= v
  <2>1. \A k \in Item : \E v \in Item : mapIndex'[v] = k /\ Is(v, k)
    BY <1>5, ItemFacts DEF IsBijection
  <2>2. \A k \in Item : oriIndex'[k] = CHOOSE v \in Item : Is(v, k)
    BY <1>1, <2>1
  <2>3. DOMAIN oriIndex' = Item /\ oriIndex' = [k \in Item |-> oriIndex'[k]]
    BY <1>1
  <2>4. \A k \in Item : oriIndex'[k] \in Item /\ mapIndex'[oriIndex'[k]] = k
    BY <2>1, <2>2
  <2>5. oriIndex' \in [Item -> Item]
    BY <2>3, <2>4
  <2>6. ASSUME NEW v \in Item PROVE oriIndex'[mapIndex'[v]] = v
    BY <1>5, <2>4 DEF IsBijection
  <2> QED
    BY <2>5, <2>6
<1>7. TypeOK'
  BY <1>1, <1>2, <1>4, <1>6 DEF TypeOK
<1>8. NumberedOnce'
  BY <1>1, <1>5, <1>6 DEF NumberedOnce, IsBijection
<1>9. Counted' /\ Fresh' /\ CurrentEntryFirst'
  BY <1>1 DEF IInv, Counted, Fresh, CurrentEntryFirst, WindowEnds
<1> QED
  BY <1>7, <1>8, <1>9 DEF IInv

LEMMA StutterKeeps == IInv /\ UNCHANGED vars => IInv'
BY DEF IInv, vars, TypeOK, NumberedOnce, IsBijection, Counted, Fresh, CurrentEntryFirst, WindowEnds

LEMMA NextKeeps == IInv /\ [Next]_vars => IInv'
<1> SUFFICES ASSUME IInv, [Next]_vars PROVE IInv'
  OBVIOUS
<1>1. CASE OriOrder      BY <1>1, OriOrderKeeps
<1>2. CASE DegOrder      BY <1>2, DegOrderKeeps
<1>3. CASE Rank          BY <1>3, RankKeeps
<1>4. CASE StartWindow   BY <1>4, StartWindowKeeps
<1>5. CASE TakeFromQueue BY <1>5, TakeFromQueueKeeps
<1>6. CASE TakeRanked    BY <1>6, TakeRankedKeeps
<1>7. CASE Invert        BY <1>7, InvertKeeps
<1>8. CASE Terminating \/ UNCHANGED vars
  BY <1>8, StutterKeeps DEF Terminating
<1> QED
  BY <1>1, <1>2, <1>3, <1>4, <1>5, <1>6, <1>7, <1>8 DEF Next

\* The invariant is inductive: the numbers given so far, that there are as many as
\* numbered items, and the queue entries of the items still waiting.
THEOREM ReorderInductive == Spec => []IInv
BY InitHolds, NextKeeps, PTL DEF Spec

\* Every variable of the renumbering keeps its type; no number is out of range.
THEOREM ReorderTypes == Spec => []TypeOK
<1>1. IInv => TypeOK
  BY DEF IInv
<1> QED
  BY <1>1, ReorderInductive, PTL

\* Each number is given once, although the queue holds outdated entries, and every
\* order ends with a permutation of the items and its inverse.
THEOREM NumbersOnce == Spec => []NumberedOnce
<1>1. IInv => NumberedOnce
  BY DEF IInv
<1> QED
  BY <1>1, ReorderInductive, PTL

\* Every waiting item of the window is in the queue with its current weight.
THEOREM CurrentEntries == Spec => []CurrentEntryFirst
<1>1. IInv => CurrentEntryFirst
  BY DEF IInv
<1> QED
  BY <1>1, ReorderInductive, PTL

\* Inside a window the item numbered next is the heaviest of those the window reached:
\* entries in front of it are of numbered items, and the others are current.
THEOREM TakesHeaviest == Spec => HeaviestNext
<1> DEFINE Heaviest ==
             ~ WindowEnds /\ pc = "greedy" /\ visited' # visited =>
                 \A v \in visited' \ visited, w \in Item \ visited : weight[w] <= weight[v]
<1>1. IInv /\ [Next]_vars => [Heaviest]_vars
  <2> SUFFICES ASSUME IInv, Next, ~ WindowEnds, pc = "greedy", visited' # visited,
                      NEW v \in visited' \ visited, NEW w \in Item \ visited
               PROVE  weight[w] <= weight[v]
    OBVIOUS
  <2>1. TakeFromQueue \/ TakeRanked
    BY DEF Next, OriOrder, DegOrder, Rank, StartWindow, Invert, Terminating, vars, greedyVars
  <2>2. /\ weight \in [Item -> Nat] /\ queue \subseteq Nat \X Item /\ visited \subseteq Item
        /\ vertices \in [Item -> Item]
        /\ \A x \in Item \ visited : /\ weight[x] > 0 => <<weight[x], x>> \in queue
                                     /\ \A y \in queue : y[2] = x => y[1] <= weight[x]
    BY DEF IInv, TypeOK, CurrentEntryFirst
  <2>3. CASE TakeFromQueue
    <3>1. PICK x \in queue :
            /\ x[2] \notin visited
            /\ \A y \in queue : Before(y, x) => y[2] \in visited
            /\ visited' = visited \cup {x[2]}
      BY <2>3 DEF TakeFromQueue, Number
    <3>2. v = x[2] /\ v \in Item /\ x[1] \in Nat /\ weight[v] \in Nat /\ weight[w] \in Nat
      BY <2>2, <3>1
    <3>3. x[1] <= weight[v]
      BY <2>2, <3>1, <3>2
    <3>4. CASE weight[w] > 0
      <4>1. ~ Before(<<weight[w], w>>, x)
        BY <2>2, <3>1, <3>4
      <4>2. ~ (weight[w] > x[1])
        BY <4>1 DEF Before
      <4> QED
        BY <3>2, <3>3, <4>2
    <3> QED
      BY <3>2, <3>4
  <2>4. CASE TakeRanked
    <3>1. v \in Item
      <4>1. PICK k \in Item : visited' = visited \cup {vertices[k]}
        BY <2>4 DEF TakeRanked, Number
      <4> QED
        BY <2>2, <4>1
    <3>2. ~ (weight[w] > 0)
      BY <2>2, <2>4 DEF TakeRanked
    <3> QED
      BY <2>2, <3>1, <3>2
  <2> QED
    BY <2>1, <2>3, <2>4
<1>2. Spec => [][Heaviest]_vars
  BY <1>1, ReorderInductive, PTL DEF Spec
<1> QED
  BY <1>2 DEF HeaviestNext

-----------------------------------------------------------------------------
(* Runs of the program: the invariant.                                     *)

InLoop == step \in {"query", "measure", "view", "open", "close"}

\* The timers that the runs of this algorithm start, and how many counters they have.
AllTimers(fsi) ==
    IF algo \in {"Exact", "Truth"} THEN {0, 1, 2, 3}
    ELSE IF algo = "KASC" /\ fsi THEN {0, 1, 2, 5, 6} ELSE {0, 1, 2}
MostCounters(fsi) == IF algo = "KASC" /\ fsi THEN 5 ELSE 2

\* No timer is started before a smaller one, unless FastKASC comes to the boundary
\* without a round.
InTurn(T, fsi) ==
    /\ T \subseteq AllTimers(fsi)
    /\ \A s \in AllTimers(fsi), t \in T : s < t => s \in T
NoRound == {0, 1, 5}
CallsKasc(fsi) == algo = "KASC" /\ fsi
TurnOK(T, fsi) == InTurn(T, fsi) \/ (CallsKasc(fsi) /\ T = NoRound)

\* The queries whose scores a ground truth run takes from the segments of SimpleBuild.
Unpacked ==
    {v \in Items : algo = "Truth" /\ ~ opt.fsi /\ opt.order = "Simple" /\ VDeg[v] >= 2}

SavesScores == algo = "Truth" \/ (opt.view /\ algo # "Exact")

\* Where a run is, and what it has built and counted there.
RunShape ==
    /\ ~ InLoop => records = << >> /\ saved = << >> /\ reported = {} /\ counters = 0
    /\ ~ InLoop /\ step # "unknown" => next = 0
    /\ (step \in {"filter", "prepare"} \/ InLoop) /\ opt.count >= 1 => queryCount = Len(seeds)
    /\ InLoop => /\ built = Structures /\ Known /\ next >= 1
                 /\ reported \subseteq 1..(next - 1)
                 /\ 0 \in timers /\ TurnOK(timers, opt.fsi) /\ counters \in 0..MostCounters(opt.fsi)
    /\ step \in {"measure", "view"} => /\ next <= Len(seeds)
                                       /\ swing = [of |-> swing.of, own |-> ~ opt.fsi]
                                       /\ swing.of = <<vq>> \/ (vq \in Unpacked /\ swing.of = << >>)
    /\ step = "measure" => algo # "Truth"
    /\ step = "view" => SavesScores
    /\ step \in {"open", "close"} => next = Len(seeds) + 1 /\ algo # "Truth"

Entries == [query : Items, of : Seq(Items), right : BOOLEAN]

\* Every entry is about its query, but for those excused.
Own(s, excused) ==
    \A k \in 1..Len(s) : (s[k].of = <<s[k].query>> /\ s[k].right) \/ s[k].query \in excused

QueriesOf(s) == [k \in 1..Len(s) |-> s[k].query]

\* The positions of the queries that are measured, and of those that are saved.
NumMeasured == IF step = "view" THEN next ELSE next - 1
MeasuredAt  == {k \in 1..NumMeasured : algo # "Truth" /\ seeds[k] \in HasTruth}
SavedAt     == {k \in (1..(next - 1)) \ reported : SavesScores}
Recorded ==
    /\ records \in Seq(Entries) /\ saved \in Seq(Entries)
    /\ Own(records, Unpacked) /\ Own(saved, Unpacked)
    /\ InLoop => /\ QueriesOf(records) = Picked(seeds, MeasuredAt)
                 /\ QueriesOf(saved) = Picked(seeds, SavedAt)

\* The names that a line of f may have.
LineFits(f, names, fsi) ==
    CASE f = "metric" -> names = MetricNames(fsi)
      [] f = "record" -> names = RecordNames(fsi)
      [] f = "count"  -> \E n \in 0..MostCounters(fsi) :
                            names = ResultHeader(fsi) \o CounterNames(fsi, n)
      [] f = "time"   -> \E T \in SUBSET AllTimers(fsi) :
                            TurnOK(T, fsi) /\ names = ResultHeader(fsi) \o TimerNames(T)

Name ==
    {"run", "ReOrder", "CompRatio", "PreTime", "InsTime", "Time", "k", "ID", "deg", "degUsed",
     "Preprocess", "allTime", "intersection", "addition", "Boundary", "Refine",
     "BruteCnt", "TotalRnd", "SampleRnd", "RefineRnd", "RefineSize"}

Line == [header : BOOLEAN, names : Seq(Name)]

OutLine(fsi) == {x \in FileNames \X Seq(Name) : LineFits(x[1], x[2], fsi)}

LinesOut ==
    /\ out # << >> => out \in Seq(OutLine(opt.fsi))
    /\ out # << >> => step \in {"open", "close"}
    /\ needHeader => step = "close"
    /\ step = "close" => out # << >> /\ out[1][1] \in DOMAIN files
    /\ needHeader => out # << >> /\ files[out[1][1]] = << >> /\ out[1][1] \notin torn

LinesIn ==
    /\ files \in [DOMAIN files -> Seq(Line)]
    /\ \A f \in DOMAIN files : \A n \in 1..Len(files[f]) :
          /\ \E fsi \in BOOLEAN : LineFits(f, files[f][n].names, fsi)
          /\ f \notin torn => (files[f][n].header <=> n = 1)

DriverInv == DriverTypeOK /\ RunShape /\ Recorded /\ LinesOut /\ LinesIn

-----------------------------------------------------------------------------
(* The elements of a sequence at some of its positions, in their order.    *)

RankIn(P, k) == Cardinality({l \in P : l < k})

LEMMA NthFacts ==
    ASSUME NEW P \in SUBSET Nat, IsFiniteSet(P), NEW n \in 1..Cardinality(P)
    PROVE  Nth(P, n) \in P /\ RankIn(P, Nth(P, n)) = n - 1
<1> DEFINE N == Cardinality(P)
           below(k) == {l \in P : l < k}
           f == [k \in P |-> RankIn(P, k)]
           T == 0..(N - 1)
<1>1. N \in Nat /\ \A x \in P : x \in Nat
  BY FS_CardinalityType
<1>2. \A k \in P : /\ IsFiniteSet(below(k)) /\ RankIn(P, k) \in Nat
                   /\ IsFiniteSet(below(k) \cup {k}) /\ RankIn(P, k) + 1 = Cardinality(below(k) \cup {k})
                   /\ RankIn(P, k) + 1 <= N
  <2> TAKE k \in P
  <2>1. IsFiniteSet(below(k)) /\ Cardinality(below(k)) \in Nat
    BY FS_Subset, FS_CardinalityType
  <2>2. k \notin below(k) /\ below(k) \cup {k} \in SUBSET P
    OBVIOUS
  <2>3. /\ IsFiniteSet(below(k) \cup {k})
        /\ Cardinality(below(k) \cup {k}) = Cardinality(below(k)) + 1
    BY <2>1, <2>2, FS_AddElement
  <2>4. Cardinality(below(k) \cup {k}) <= N
    BY <2>2, FS_Subset
  <2> QED
    BY <2>1, <2>3, <2>4 DEF RankIn
<1>3. ASSUME NEW k \in P, NEW l \in P, k < l PROVE f[k] < f[l]
  <2>1. below(k) \cup {k} \in SUBSET below(l)
    <3>1. k \in Nat /\ l \in Nat
      BY <1>1
    <3>2. ASSUME NEW z \in P, z < k PROVE z < l
      <4>1. z \in Nat
        BY <1>1
      <4> QED
        BY <1>3, <3>1, <3>2, <4>1
    <3> QED
      BY <1>3, <3>2
  <2>2. IsFiniteSet(below(l)) /\ RankIn(P, l) = Cardinality(below(l))
    BY <1>2 DEF RankIn
  <2>3. Cardinality(below(k) \cup {k}) <= Cardinality(below(l))
    BY <2>1, <2>2, FS_Subset
  <2>4. RankIn(P, k) + 1 <= RankIn(P, l)
    BY <1>2, <2>2, <2>3
  <2>5. f[k] = RankIn(P, k) /\ f[l] = RankIn(P, l) /\ RankIn(P, k) \in Nat /\ RankIn(P, l) \in Nat
    BY <1>2
  <2> QED
    BY <2>4, <2>5
<1>4. f \in [P -> T]
  <2>1. ASSUME NEW k \in P PROVE RankIn(P, k) \in T
    <3>1. RankIn(P, k) \in Nat /\ RankIn(P, k) + 1 <= N
      BY <1>2
    <3> HIDE DEF N
    <3> QED
      BY <1>1, <3>1
  <2> QED
    BY <2>1
<1>5. \A k, l \in P : f[k] = f[l] => k = l
  <2> TAKE k, l \in P
  <2>1. k < l \/ l < k \/ k = l
    OBVIOUS
  <2>2. f[k] \in Nat /\ f[l] \in Nat
    BY <1>1, <1>4
  <2> QED
    BY <1>3, <2>1, <2>2
<1>6. IsFiniteSet(T) /\ Cardinality(T) = N
  <2>1. 0 \in Int /\ N - 1 \in Int
    BY <1>1
  <2>2. IsFiniteSet(0..(N - 1)) /\ Cardinality(0..(N - 1)) = IF 0 > N - 1 THEN 0 ELSE N - 1 - 0 + 1
    BY <2>1, FS_Interval
  <2> QED
    BY <1>1, <2>2
<1>7. f \in Injection(P, T)
  BY <1>4, <1>5 DEF Injection, IsInjective
<1>8. f \in Surjection(P, T)
  BY <1>6, <1>7, FS_Injection
<1>9. \E k \in P : f[k] = n - 1
  <2>1. n - 1 \in T
    BY <1>1
  <2> QED
    BY <1>8, <2>1 DEF Surjection
<1>10. \E k \in P : Cardinality({l \in P : l < k}) = n - 1
  BY <1>9 DEF RankIn
<1> QED
  BY <1>10 DEF Nth, RankIn

\* The rank decides.
LEMMA RankDecides ==
    ASSUME NEW P \in SUBSET Nat, IsFiniteSet(P), NEW k \in P, NEW n \in 1..Cardinality(P),
           RankIn(P, k) = n - 1
    PROVE  Nth(P, n) = k
<1> DEFINE l == Nth(P, n)
           below(x) == {y \in P : y < x}
<1>1. l \in P /\ RankIn(P, l) = n - 1
  BY NthFacts
<1>2. ASSUME NEW x \in P, NEW y \in P, x < y PROVE RankIn(P, x) # RankIn(P, y)
  <2>1. below(x) \in SUBSET below(y) /\ x \in below(y) /\ x \notin below(x)
    <3>1. x \in Nat /\ y \in Nat
      OBVIOUS
    <3>2. ASSUME NEW z \in P, z < x PROVE z < y
      <4>1. z \in Nat
        OBVIOUS
      <4> QED
        BY <1>2, <3>1, <3>2, <4>1
    <3>3. ~ (x < x)
      BY <3>1
    <3> QED
      BY <1>2, <3>2, <3>3, Zenon
  <2>2. IsFiniteSet(below(y))
    BY FS_Subset
  <2> QED
    BY <2>1, <2>2, FS_Subset DEF RankIn
<1>3. k < l \/ l < k \/ k = l
  <2>1. k \in Nat /\ l \in Nat
    BY <1>1
  <2> HIDE DEF l
  <2> QED
    BY <2>1
<1> HIDE DEF l
<1> QED
  BY <1>1, <1>2, <1>3 DEF l

LEMMA PickedFacts ==
    ASSUME NEW L, NEW s \in Seq(L), NEW P \in SUBSET (1..Len(s))
    PROVE  /\ IsFiniteSet(P) /\ Cardinality(P) \in 0..Len(s)
           /\ Picked(s, P) \in Seq(L) /\ Len(Picked(s, P)) = Cardinality(P)
<1>1. Len(s) \in Nat /\ \A k \in 1..Len(s) : s[k] \in L
  BY ElementOfSeq
<1>2. IsFiniteSet(P) /\ Cardinality(P) \in 0..Len(s)
  <2>1. IsFiniteSet(1..Len(s)) /\ Cardinality(1..Len(s)) = Len(s)
    <3>1. 1 \in Int /\ Len(s) \in Int
      BY <1>1
    <3>2. IsFiniteSet(1..Len(s)) /\ Cardinality(1..Len(s)) = IF 1 > Len(s) THEN 0 ELSE Len(s) - 1 + 1
      BY <3>1, FS_Interval
    <3> QED
      BY <1>1, <3>2
  <2>2. IsFiniteSet(P) /\ Cardinality(P) <= Cardinality(1..Len(s))
    BY <2>1, FS_Subset
  <2> QED
    BY <1>1, <2>1, <2>2, FS_CardinalityType
<1>3. ASSUME NEW n \in 1..Cardinality(P) PROVE s[Nth(P, n)] \in L
  <2>1. P \in SUBSET Nat
    BY <1>1
  <2>2. Nth(P, n) \in P
    BY <1>2, <2>1, NthFacts
  <2> QED
    BY <1>1, <2>2
<1> QED
  BY <1>2, <1>3 DEF Picked

\* One position more, behind the others.
LEMMA PickedGrows ==
    ASSUME NEW L, NEW s \in Seq(L), NEW n \in 1..Len(s), NEW P \in SUBSET (1..(n - 1))
    PROVE  Picked(s, P \cup {n}) = Append(Picked(s, P), s[n])
<1> DEFINE Q == P \cup {n}
           N == Cardinality(P)
<1>1. /\ Len(s) \in Nat /\ P \in SUBSET (1..Len(s)) /\ Q \in SUBSET (1..Len(s)) /\ n \notin P
      /\ P \in SUBSET Nat /\ Q \in SUBSET Nat
  OBVIOUS
<1>2. /\ IsFiniteSet(P) /\ N \in Nat /\ Picked(s, P) \in Seq(L) /\ Len(Picked(s, P)) = N
      /\ IsFiniteSet(Q) /\ Picked(s, Q) \in Seq(L) /\ Len(Picked(s, Q)) = Cardinality(Q)
  BY <1>1, PickedFacts
<1>3. Cardinality(Q) = N + 1
  BY <1>1, <1>2, FS_AddElement
<1>4. \A k \in P : {l \in Q : l < k} = {l \in P : l < k}
  OBVIOUS
<1>5. ASSUME NEW m \in 1..N PROVE Nth(Q, m) = Nth(P, m)
  <2>1. Nth(P, m) \in P /\ RankIn(P, Nth(P, m)) = m - 1
    BY <1>1, <1>2, NthFacts
  <2>2. RankIn(Q, Nth(P, m)) = m - 1
    BY <1>4, <2>1 DEF RankIn
  <2>3. m \in 1..Cardinality(Q) /\ Nth(P, m) \in Q
    BY <1>2, <1>3, <2>1
  <2> QED
    BY <1>1, <1>2, <2>2, <2>3, RankDecides
<1>6. Nth(Q, N + 1) = n
  <2>1. {l \in Q : l < n} = P
    <3>1. ASSUME NEW l \in P PROVE l < n
      <4>1. l \in 1..(n - 1) /\ n \in Nat
        OBVIOUS
      <4> QED
        BY <4>1
    <3>2. ~ (n < n)
      OBVIOUS
    <3> QED
      BY <3>1, <3>2
  <2>2. RankIn(Q, n) = N
    BY <2>1 DEF RankIn
  <2>3. N + 1 \in 1..(N + 1) /\ (N + 1) - 1 = N
    BY <1>2
  <2>4. RankIn(Q, n) = (N + 1) - 1 /\ N + 1 \in 1..Cardinality(Q) /\ n \in Q
    BY <1>3, <2>2, <2>3
  <2> QED
    BY <1>1, <1>2, <2>4, RankDecides
<1>7. ASSUME NEW m \in 1..N PROVE Picked(s, Q)[m] = Picked(s, P)[m]
  <2>1. m \in 1..Cardinality(Q) /\ m \in 1..Cardinality(P)
    BY <1>2, <1>3
  <2> HIDE DEF N, Q
  <2> QED
    BY <1>5, <2>1 DEF Picked
<1>8. Picked(s, Q)[N + 1] = s[n]
  <2>1. N + 1 \in 1..Cardinality(Q)
    BY <1>2, <1>3
  <2> HIDE DEF N, Q
  <2> QED
    BY <1>6, <2>1 DEF Picked
<1> DEFINE A == Append(Picked(s, P), s[n])
<1>9. s[n] \in L
  BY ElementOfSeq
<1>10. A \in Seq(L) /\ Len(A) = N + 1 /\ (\A m \in 1..N : A[m] = Picked(s, P)[m]) /\ A[N + 1] = s[n]
  BY <1>2, <1>9
<1>11. \A m \in 1..(N + 1) : m \in 1..N \/ m = N + 1
  BY <1>2
<1>12. \A m \in 1..(N + 1) : Picked(s, Q)[m] = A[m]
  BY <1>7, <1>8, <1>10, <1>11
<1> QED
  BY <1>2, <1>3, <1>10, <1>12, SeqEqual

-----------------------------------------------------------------------------
(* The names of lines.                                                     *)

\* A set without a gap in front of its elements begins the enumeration.
LEMMA NthOfPart ==
    ASSUME NEW Q \in SUBSET Nat, IsFiniteSet(Q), NEW P \in SUBSET Q,
           \A s \in Q, t \in P : s < t => s \in P
    PROVE  /\ IsFiniteSet(P) /\ Cardinality(P) \in Nat /\ Cardinality(Q) \in Nat
           /\ Cardinality(P) <= Cardinality(Q)
           /\ \A n \in 1..Cardinality(P) : Nth(Q, n) = Nth(P, n)
<1>1. /\ IsFiniteSet(P) /\ Cardinality(P) \in Nat /\ Cardinality(Q) \in Nat
      /\ Cardinality(P) <= Cardinality(Q) /\ P \in SUBSET Nat
  BY FS_Subset, FS_CardinalityType
<1>2. ASSUME NEW n \in 1..Cardinality(P) PROVE Nth(Q, n) = Nth(P, n)
  <2> DEFINE k == Nth(P, n)
  <2>1. k \in P /\ RankIn(P, k) = n - 1
    BY <1>1, NthFacts
  <2> HIDE DEF k
  <2>2. {l \in Q : l < k} = {l \in P : l < k}
    BY <2>1
  <2>3. RankIn(Q, k) = n - 1 /\ k \in Q
    BY <2>1, <2>2 DEF RankIn
  <2>4. n \in 1..Cardinality(Q)
    BY <1>1
  <2>5. Nth(Q, n) = k
    BY <2>3, <2>4, RankDecides
  <2> QED
    BY <2>5 DEF k
<1> QED
  BY <1>1, <1>2

\* s is how t begins.
Begins(s, t) == Len(s) <= Len(t) /\ \A k \in 1..Len(s) : s[k] = t[k]

LEMMA BeginsPrefix ==
    ASSUME NEW L, NEW r \in Seq(L), NEW s \in Seq(L), NEW t \in Seq(L), Begins(s, t)
    PROVE  IsPrefix(r \o s, r \o t)
<1> DEFINE a == r \o s
           b == r \o t
<1>1. Len(r) \in Nat /\ Len(s) \in Nat /\ Len(t) \in Nat /\ Len(s) <= Len(t)
  BY DEF Begins
<1>2. /\ a \in Seq(L) /\ Len(a) = Len(r) + Len(s)
      /\ b \in Seq(L) /\ Len(b) = Len(r) + Len(t)
      /\ \A k \in 1..Len(a) : a[k] = IF k <= Len(r) THEN r[k] ELSE s[k - Len(r)]
      /\ \A k \in 1..Len(b) : b[k] = IF k <= Len(r) THEN r[k] ELSE t[k - Len(r)]
  BY ConcatProperties
<1> HIDE DEF a, b
<1>3. Len(a) \in Nat /\ Len(b) \in Nat /\ Len(a) <= Len(b)
  BY <1>1, <1>2
<1>4. ASSUME NEW k \in 1..Len(a) PROVE a[k] = b[k]
  <2>1. k \in 1..Len(b)
    BY <1>3
  <2>2. CASE k <= Len(r)
    BY <1>2, <2>1, <2>2
  <2>3. CASE ~ (k <= Len(r))
    <3>1. k - Len(r) \in 1..Len(s)
      BY <1>1, <1>2, <2>3
    <3>2. s[k - Len(r)] = t[k - Len(r)]
      BY <3>1 DEF Begins
    <3> QED
      BY <1>2, <2>1, <2>3, <3>2
  <2> QED
    BY <2>2, <2>3
<1>5. SubSeq(a, 1, Len(a)) = SubSeq(b, 1, Len(a))
  <2>1. /\ SubSeq(a, 1, Len(a)) = [k \in 1..Len(a) |-> a[k]]
        /\ SubSeq(b, 1, Len(a)) = [k \in 1..Len(a) |-> b[k]]
    BY <1>2, <1>3
  <2> QED
    BY <1>4, <2>1
<1> QED
  BY <1>3, <1>5 DEF IsPrefix, a, b

LEMMA TimersFacts ==
    ASSUME NEW fsi \in BOOLEAN, NEW T, TurnOK(T, fsi)
    PROVE  /\ T \in SUBSET {0, 1, 2, 3, 5, 6} /\ T \in SUBSET Nat /\ IsFiniteSet(T)
           /\ Cardinality(T) \in Nat /\ T \in SUBSET AllTimers(fsi)
<1>1. AllTimers(fsi) \in SUBSET {0, 1, 2, 3, 5, 6}
  BY DEF AllTimers
<1>0. T \in SUBSET AllTimers(fsi)
  <2>1. CASE InTurn(T, fsi)
    BY <2>1 DEF InTurn
  <2>2. CASE CallsKasc(fsi) /\ T = NoRound
    BY <2>2 DEF CallsKasc, AllTimers, NoRound
  <2> QED
    BY <2>1, <2>2 DEF TurnOK
<1>2. T \in SUBSET {0, 1, 2, 3, 5, 6}
  BY <1>0, <1>1
<1>3. T \in SUBSET (0..6)
  BY <1>2
<1>4. IsFiniteSet(0..6)
  <2>1. 0 \in Int /\ 6 \in Int
    OBVIOUS
  <2> QED
    BY ONLY <2>1, FS_Interval
<1>5. IsFiniteSet(T)
  BY <1>3, <1>4, FS_Subset
<1>6. T \in SUBSET Nat
  BY <1>2
<1> QED
  BY <1>0, <1>2, <1>5, <1>6, FS_CardinalityType

LEMMA TimersInOrder ==
    ASSUME NEW fsi \in BOOLEAN, NEW T, InTurn(T, fsi), NEW U, InTurn(U, fsi)
    PROVE  Begins(TimerNames(T), TimerNames(U)) \/ Begins(TimerNames(U), TimerNames(T))
<1>1. ASSUME NEW P, InTurn(P, fsi), NEW Q, InTurn(Q, fsi), P \in SUBSET Q
      PROVE  Begins(TimerNames(P), TimerNames(Q))
  <2>1. Q \in SUBSET Nat /\ IsFiniteSet(Q)
    BY <1>1, TimersFacts DEF TurnOK
  <2>2. \A s \in Q, t \in P : s < t => s \in P
    BY <1>1 DEF InTurn
  <2>3. /\ IsFiniteSet(P) /\ Cardinality(P) \in Nat /\ Cardinality(Q) \in Nat
        /\ Cardinality(P) <= Cardinality(Q)
        /\ \A n \in 1..Cardinality(P) : Nth(Q, n) = Nth(P, n)
    BY <1>1, <2>1, <2>2, NthOfPart
  <2>4. Len(TimerNames(P)) = Cardinality(P) /\ Len(TimerNames(Q)) = Cardinality(Q)
    BY <2>3 DEF TimerNames
  <2>5. \A n \in 1..Cardinality(P) : n \in 1..Cardinality(Q)
    BY <2>3
  <2>6. \A n \in 1..Cardinality(P) : TimerNames(P)[n] = TimerNames(Q)[n]
    BY <2>3, <2>5 DEF TimerNames
  <2> QED
    BY <2>3, <2>4, <2>6 DEF Begins
<1>2. T \in SUBSET U \/ U \in SUBSET T
  <2> SUFFICES ASSUME NEW t \in T, t \notin U, NEW u \in U, u \notin T PROVE FALSE
    OBVIOUS
  <2>1. t \in Nat /\ u \in Nat
    BY TimersFacts DEF TurnOK
  <2>2. t < u \/ u < t \/ t = u
    BY <2>1
  <2> QED
    BY <2>2 DEF InTurn
<1> QED
  BY <1>1, <1>2

LEMMA HeaderFacts ==
    ASSUME NEW fsi \in BOOLEAN
    PROVE  /\ ResultHeader(fsi) \in Seq(Name)
           /\ Len(ResultHeader(fsi)) = IF fsi THEN 3 ELSE 1
           /\ fsi => ResultHeader(fsi)[2] = "ReOrder"
           /\ \A k \in 1..Len(ResultHeader(fsi)) : ResultHeader(fsi)[k] \in {"run", "ReOrder", "CompRatio"}
<1> DEFINE r == <<"run">>
           t == IF fsi THEN <<"ReOrder", "CompRatio">> ELSE << >>
<1>1. r \in Seq(Name) /\ Len(r) = 1 /\ r[1] = "run"
  BY DEF Name
<1>2. t \in Seq(Name) /\ Len(t) = (IF fsi THEN 2 ELSE 0) /\ (fsi => t[1] = "ReOrder" /\ t[2] = "CompRatio")
  <2>1. CASE fsi
    <3>1. t = <<"ReOrder", "CompRatio">>
      BY <2>1
    <3> HIDE DEF t
    <3> QED
      BY <2>1, <3>1 DEF Name
  <2>2. CASE ~ fsi
    <3>1. t = << >>
      BY <2>2
    <3> HIDE DEF t
    <3> QED
      BY <2>2, <3>1
  <2> QED
    BY <2>1, <2>2
<1>3. ResultHeader(fsi) = r \o t
  BY DEF ResultHeader
<1> HIDE DEF r, t
<1>4. /\ r \o t \in Seq(Name) /\ Len(r \o t) = Len(r) + Len(t)
      /\ \A i \in 1 .. Len(r) + Len(t) : (r \o t)[i] = IF i <= Len(r) THEN r[i] ELSE t[i - Len(r)]
  BY <1>1, <1>2, ConcatProperties
<1>5. fsi => (r \o t)[2] = t[1]
  BY <1>1, <1>2, <1>4
<1>6. \A k \in 1..Len(r \o t) : (r \o t)[k] \in {"run", "ReOrder", "CompRatio"}
  <2> TAKE k \in 1..Len(r \o t)
  <2>1. CASE k <= 1
    <3>1. k = 1
      BY <1>1, <1>2, <1>4, <2>1
    <3> QED
      BY <1>1, <1>2, <1>4, <3>1
  <2>2. CASE ~ (k <= 1)
    <3>1. fsi /\ k - 1 \in {1, 2}
      BY <1>1, <1>2, <1>4, <2>2
    <3>2. (r \o t)[k] = t[k - 1]
      BY <1>1, <1>2, <1>4, <2>2
    <3> QED
      BY <1>2, <3>1, <3>2
  <2> QED
    BY <2>1, <2>2
<1> QED
  BY <1>1, <1>2, <1>3, <1>4, <1>5, <1>6

LEMMA CountersFacts ==
    ASSUME NEW fsi \in BOOLEAN, NEW n \in 0..MostCounters(fsi)
    PROVE  /\ n \in 0..5
           /\ CounterNames(fsi, n) \in Seq(Name) /\ Len(CounterNames(fsi, n)) = n
           /\ n >= 1 => CounterNames(fsi, n)[1] = "BruteCnt"
           /\ \A m \in 0..n : \A k \in 1..m : CounterNames(fsi, m)[k] = CounterNames(fsi, n)[k]
<1> DEFINE s == IF algo = "KASC" /\ fsi
                THEN <<"BruteCnt", "TotalRnd", "SampleRnd", "RefineRnd", "RefineSize">>
                ELSE <<"BruteCnt", "SampleRnd">>
<1>1. s \in Seq(Name) /\ Len(s) = MostCounters(fsi) /\ s[1] = "BruteCnt"
  <2>1. CASE algo = "KASC" /\ fsi
    <3>1. s = <<"BruteCnt", "TotalRnd", "SampleRnd", "RefineRnd", "RefineSize">>
      BY <2>1
    <3>2. MostCounters(fsi) = 5
      BY <2>1 DEF MostCounters
    <3> HIDE DEF s
    <3> QED
      BY <3>1, <3>2 DEF Name
  <2>2. CASE ~ (algo = "KASC" /\ fsi)
    <3>1. s = <<"BruteCnt", "SampleRnd">>
      BY <2>2
    <3>2. MostCounters(fsi) = 2
      BY <2>2 DEF MostCounters
    <3> HIDE DEF s
    <3> QED
      BY <3>1, <3>2 DEF Name
  <2> QED
    BY <2>1, <2>2
<1>2. MostCounters(fsi) \in 0..5
  BY DEF MostCounters
<1>3. \A m \in 0..n : CounterNames(fsi, m) = SubSeq(s, 1, m)
  BY DEF CounterNames
<1> HIDE DEF s
<1>4. \A m \in 0..n : SubSeq(s, 1, m) = [k \in 1..m |-> s[k]]
  BY <1>1, <1>2
<1>5. \A m \in 0..n : \A k \in 1..m : s[k] \in Name /\ k \in 1..n
  BY <1>1, <1>2, ElementOfSeq
<1>6. n \in 0..n /\ n \in 0..5
  BY <1>2
<1>7. \A m \in 0..n : CounterNames(fsi, m) = [k \in 1..m |-> s[k]]
  BY <1>3, <1>4
<1>8. CounterNames(fsi, n) = [k \in 1..n |-> s[k]]
  BY ONLY <1>6, <1>7
<1>9. CounterNames(fsi, n) \in Seq(Name) /\ Len(CounterNames(fsi, n)) = n
  BY <1>5, <1>6, <1>8
<1>10. n >= 1 => CounterNames(fsi, n)[1] = "BruteCnt"
  BY <1>1, <1>6, <1>8
<1>11. \A m \in 0..n : \A k \in 1..m : CounterNames(fsi, m)[k] = CounterNames(fsi, n)[k]
  BY ONLY <1>5, <1>7, <1>8
<1> QED
  BY ONLY <1>6, <1>9, <1>10, <1>11

\* The file is one of four; "count" and "time" have lines of several lengths.
LEMMA LineKinds ==
    ASSUME NEW f, NEW names, NEW fsi, LineFits(f, names, fsi)
    PROVE  /\ f = "metric" => names = MetricNames(fsi)
           /\ f = "record" => names = RecordNames(fsi)
           /\ f = "count"  => \E n \in 0..MostCounters(fsi) :
                                names = ResultHeader(fsi) \o CounterNames(fsi, n)
           /\ f = "time"   => \E T \in SUBSET AllTimers(fsi) :
                                TurnOK(T, fsi) /\ names = ResultHeader(fsi) \o TimerNames(T)
BY Zenon DEF LineFits

LEMMA TimeLine ==
    ASSUME NEW names, NEW fsi, LineFits("time", names, fsi)
    PROVE  \E T \in SUBSET AllTimers(fsi) :
              TurnOK(T, fsi) /\ names = ResultHeader(fsi) \o TimerNames(T)
BY LineKinds

\* The boundary was timed, and no intersection.
Skips(names) == /\ \E k \in 1..Len(names) : names[k] = "Boundary"
                /\ \A k \in 1..Len(names) : names[k] # "intersection"

\* The third timer of a run without a round is the boundary's, and none is the
\* intersections'.
LEMMA NoRoundNames ==
    /\ TimerNames(NoRound) \in Seq(Name) /\ Len(TimerNames(NoRound)) = 3
    /\ TimerNames(NoRound)[3] = "Boundary"
    /\ \A k \in 1..3 : TimerNames(NoRound)[k] # "intersection"
<1>1. IsFiniteSet({0}) /\ Cardinality({0}) = 1
  BY FS_Singleton
<1>2. IsFiniteSet({0} \cup {1}) /\ Cardinality({0} \cup {1}) = 2
  <2>1. 1 \notin {0}
    OBVIOUS
  <2> QED
    BY <1>1, <2>1, FS_AddElement
<1>3. IsFiniteSet({0} \cup {1} \cup {5}) /\ Cardinality({0} \cup {1} \cup {5}) = 3
  <2>1. 5 \notin {0} \cup {1}
    OBVIOUS
  <2> QED
    BY <1>2, <2>1, FS_AddElement
<1>4. NoRound = {0} \cup {1} \cup {5}
  BY DEF NoRound
<1>5. IsFiniteSet(NoRound) /\ Cardinality(NoRound) = 3 /\ NoRound \in SUBSET Nat
  BY <1>3, <1>4
<1>6. Nth(NoRound, 3) = 5
  <2>1. {l \in NoRound : l < 5} = {0} \cup {1}
    BY DEF NoRound
  <2>2. RankIn(NoRound, 5) = 2
    BY <1>2, <2>1 DEF RankIn
  <2>3. 5 \in NoRound /\ 3 \in 1..Cardinality(NoRound) /\ RankIn(NoRound, 5) = 3 - 1
    BY <1>5, <2>2 DEF NoRound
  <2> QED
    BY <1>5, <2>3, RankDecides
<1>7. \A k \in 1..3 : Nth(NoRound, k) \in {0, 1, 5}
  BY <1>5, NthFacts DEF NoRound
<1>8. /\ TimerName(0) = "Preprocess" /\ TimerName(1) = "allTime" /\ TimerName(5) = "Boundary"
  <2>1. 1 # 0 /\ 5 # 0 /\ 5 # 1 /\ 5 # 2 /\ 5 # 3
    OBVIOUS
  <2> QED
    BY <2>1, Zenon DEF TimerName
<1>9. TimerNames(NoRound) = [k \in 1..3 |-> TimerName(Nth(NoRound, k))]
  BY <1>5 DEF TimerNames
<1>10. \A k \in 1..3 : TimerName(Nth(NoRound, k)) \in {"Preprocess", "allTime", "Boundary"}
  BY ONLY <1>7, <1>8
<1>11. \A k \in 1..3 : TimerNames(NoRound)[k] \in {"Preprocess", "allTime", "Boundary"}
  BY ONLY <1>9, <1>10
<1>12. TimerNames(NoRound)[3] = "Boundary"
  <2>1. 3 \in 1..3
    OBVIOUS
  <2> QED
    BY ONLY <1>6, <1>8, <1>9, <2>1
<1>13. TimerNames(NoRound) \in Seq(Name) /\ Len(TimerNames(NoRound)) = 3
  BY <1>9, <1>10 DEF Name
<1> QED
  BY <1>11, <1>12, <1>13

\* A line of times that does not skip has its timers in turn.
LEMMA TurnShown ==
    ASSUME NEW fsi \in BOOLEAN, NEW T, TurnOK(T, fsi),
           NEW names, names = ResultHeader(fsi) \o TimerNames(T), ~ Skips(names)
    PROVE  InTurn(T, fsi)
<1> SUFFICES ASSUME CallsKasc(fsi), T = NoRound PROVE FALSE
  BY DEF TurnOK
<1> DEFINE h == ResultHeader(fsi)
           t == TimerNames(NoRound)
<1>1. fsi
  BY DEF CallsKasc
<1>2. h \in Seq(Name) /\ Len(h) = 3 /\ \A k \in 1..3 : h[k] # "intersection"
  BY <1>1, HeaderFacts
<1>3. /\ t \in Seq(Name) /\ Len(t) = 3 /\ t[3] = "Boundary"
      /\ \A k \in 1..3 : t[k] # "intersection"
  BY NoRoundNames
<1>4. names = h \o t
  OBVIOUS
<1> HIDE DEF h, t
<1>5. /\ Len(names) = 6
      /\ \A k \in 1..6 : names[k] = IF k <= 3 THEN h[k] ELSE t[k - 3]
  <2>1. /\ Len(h \o t) = Len(h) + Len(t)
        /\ \A k \in 1 .. Len(h) + Len(t) : (h \o t)[k] = IF k <= Len(h) THEN h[k] ELSE t[k - Len(h)]
    BY <1>2, <1>3, ConcatProperties
  <2> QED
    BY <1>2, <1>3, <1>4, <2>1
<1>6. names[6] = "Boundary" /\ 6 \in 1..Len(names)
  BY <1>3, <1>5
<1>7. \A k \in 1..Len(names) : names[k] # "intersection"
  <2> TAKE k \in 1..Len(names)
  <2>1. k \in 1..6
    BY <1>5
  <2>2. CASE k <= 3
    BY <1>2, <1>5, <2>1, <2>2
  <2>3. CASE ~ (k <= 3)
    <3>1. k - 3 \in 1..3
      BY <2>1, <2>3
    <3> QED
      BY <1>3, <1>5, <2>1, <2>3, <3>1
  <2> QED
    BY <2>2, <2>3
<1> QED
  BY <1>6, <1>7 DEF Skips

LEMMA TimerNamed == \A t : TimerName(t) \in Name /\ TimerName(t) # "ReOrder"
<1> TAKE t
<1>1. TimerName(t) \in {"Preprocess", "allTime", "intersection", "addition", "Boundary", "Refine"}
  BY Zenon DEF TimerName
<1> QED
  BY <1>1 DEF Name

LEMMA LineShape ==
    ASSUME NEW f \in FileNames, NEW names, NEW fsi \in BOOLEAN, LineFits(f, names, fsi)
    PROVE  \E t \in Seq(Name) : /\ names = ResultHeader(fsi) \o t
                                /\ Len(t) >= 1 => t[1] # "ReOrder"
<1>1. CASE f = "metric"
  <2> DEFINE t == <<"PreTime", "InsTime", "Time", "k">>
  <2>1. t \in Seq(Name) /\ t[1] # "ReOrder"
    BY DEF Name
  <2>2. names = ResultHeader(fsi) \o t
    BY <1>1, LineKinds DEF MetricNames
  <2> HIDE DEF t
  <2> QED
    BY <2>1, <2>2
<1>2. CASE f = "record"
  <2> DEFINE t == <<"ID", "Time", "deg", "degUsed", "k">>
  <2>1. t \in Seq(Name) /\ t[1] # "ReOrder"
    BY DEF Name
  <2>2. names = ResultHeader(fsi) \o t
    BY <1>2, LineKinds DEF RecordNames
  <2> HIDE DEF t
  <2> QED
    BY <2>1, <2>2
<1>3. CASE f = "count"
  <2>1. PICK n \in 0..MostCounters(fsi) : names = ResultHeader(fsi) \o CounterNames(fsi, n)
    BY <1>3, LineKinds
  <2> DEFINE t == CounterNames(fsi, n)
  <2>2. t \in Seq(Name) /\ Len(t) = n /\ (n >= 1 => t[1] = "BruteCnt")
    BY CountersFacts
  <2> HIDE DEF t
  <2>3. Len(t) >= 1 => t[1] # "ReOrder"
    BY <2>2
  <2> QED
    BY <2>1, <2>2, <2>3 DEF t
<1>4. CASE f = "time"
  <2>1. PICK T \in SUBSET AllTimers(fsi) : TurnOK(T, fsi) /\ names = ResultHeader(fsi) \o TimerNames(T)
    BY <1>4, LineKinds
  <2> DEFINE t == TimerNames(T)
  <2>2. Cardinality(T) \in Nat
    BY <2>1, TimersFacts
  <2>3. t \in Seq(Name) /\ (Len(t) >= 1 => t[1] # "ReOrder")
    BY <2>2, TimerNamed DEF TimerNames
  <2> HIDE DEF t
  <2> QED
    BY <2>1, <2>3 DEF t
<1> QED
  BY <1>1, <1>2, <1>3, <1>4 DEF FileNames

ShowsFsi(names) == Len(names) > 1 /\ names[2] = "ReOrder"

LEMMA LineFacts ==
    ASSUME NEW f \in FileNames, NEW names, NEW fsi \in BOOLEAN, LineFits(f, names, fsi)
    PROVE  names \in Seq(Name) /\ (ShowsFsi(names) <=> fsi)
<1>1. PICK t \in Seq(Name) : /\ names = ResultHeader(fsi) \o t
                             /\ Len(t) >= 1 => t[1] # "ReOrder"
  BY LineShape
<1> DEFINE r == ResultHeader(fsi)
<1>2. /\ r \in Seq(Name) /\ Len(r) = (IF fsi THEN 3 ELSE 1) /\ (fsi => r[2] = "ReOrder")
  BY HeaderFacts
<1> HIDE DEF r
<1>3. names = r \o t
  BY <1>1 DEF r
<1>4. /\ names \in Seq(Name) /\ Len(names) = Len(r) + Len(t) /\ Len(t) \in Nat
      /\ \A i \in 1 .. Len(r) + Len(t) : names[i] = IF i <= Len(r) THEN r[i] ELSE t[i - Len(r)]
  <2>1. /\ r \o t \in Seq(Name) /\ Len(r \o t) = Len(r) + Len(t)
        /\ \A i \in 1 .. Len(r) + Len(t) : (r \o t)[i] = IF i <= Len(r) THEN r[i] ELSE t[i - Len(r)]
    BY <1>2, ConcatProperties
  <2> QED
    BY <1>3, <2>1
<1>5. CASE fsi
  <2>1. Len(names) > 1 /\ names[2] = r[2]
    BY <1>2, <1>4, <1>5
  <2> QED
    BY <1>2, <1>4, <1>5, <2>1 DEF ShowsFsi
<1>6. CASE ~ fsi
  <2>1. Len(names) > 1 => Len(t) >= 1 /\ names[2] = t[1]
    BY <1>2, <1>4, <1>6
  <2> QED
    BY <1>1, <1>4, <1>6, <2>1 DEF ShowsFsi
<1> QED
  BY <1>5, <1>6

LEMMA CountLine ==
    ASSUME NEW names, NEW fsi, LineFits("count", names, fsi)
    PROVE  \E n \in 0..MostCounters(fsi) : names = ResultHeader(fsi) \o CounterNames(fsi, n)
BY LineKinds

LEMMA LinesMatch ==
    ASSUME NEW f \in FileNames, NEW fsi \in BOOLEAN,
           NEW names, LineFits(f, names, fsi), ~ Skips(names),
           NEW head, LineFits(f, head, fsi), ~ Skips(head)
    PROVE  \/ names = head
           \/ f \in {"count", "time"} /\ (IsPrefix(names, head) \/ IsPrefix(head, names))
<1>1. CASE f = "metric"
  BY <1>1, LineKinds
<1>2. CASE f = "record"
  BY <1>2, LineKinds
<1> DEFINE r == ResultHeader(fsi)
<1>3. r \in Seq(Name)
  BY HeaderFacts
<1>4. CASE f = "count"
  <2>0. LineFits("count", names, fsi) /\ LineFits("count", head, fsi)
    BY <1>4
  <2>1. PICK n \in 0..MostCounters(fsi) : names = r \o CounterNames(fsi, n)
    BY ONLY <2>0, CountLine
  <2>2. PICK m \in 0..MostCounters(fsi) : head = r \o CounterNames(fsi, m)
    BY ONLY <2>0, CountLine
  <2> DEFINE s == CounterNames(fsi, n)
             t == CounterNames(fsi, m)
  <2>3. /\ s \in Seq(Name) /\ Len(s) = n /\ n \in 0..5
        /\ t \in Seq(Name) /\ Len(t) = m /\ m \in 0..5
        /\ \A i \in 0..n : \A k \in 1..i : CounterNames(fsi, i)[k] = s[k]
        /\ \A i \in 0..m : \A k \in 1..i : CounterNames(fsi, i)[k] = t[k]
    BY CountersFacts
  <2>4. m <= n => Begins(t, s)
    <3>1. m <= n => m \in 0..n
      BY <2>3
    <3> QED
      BY <2>3, <3>1 DEF Begins
  <2>5. n <= m => Begins(s, t)
    <3>1. n <= m => n \in 0..m
      BY <2>3
    <3> QED
      BY <2>3, <3>1 DEF Begins
  <2>6. m <= n \/ n <= m
    BY <2>3
  <2> HIDE DEF r, s, t
  <2>7. IsPrefix(r \o s, r \o t) \/ IsPrefix(r \o t, r \o s)
    BY <1>3, <2>3, <2>4, <2>5, <2>6, BeginsPrefix
  <2> QED
    BY <1>4, <2>1, <2>2, <2>7 DEF s, t
<1>5. CASE f = "time"
  <2>1. PICK T \in SUBSET AllTimers(fsi) : InTurn(T, fsi) /\ names = r \o TimerNames(T)
    <3>1. LineFits("time", names, fsi)
      BY <1>5
    <3>2. PICK T \in SUBSET AllTimers(fsi) : TurnOK(T, fsi) /\ names = ResultHeader(fsi) \o TimerNames(T)
      BY ONLY <3>1, TimeLine
    <3> QED
      BY <3>2, TurnShown
  <2>2. PICK U \in SUBSET AllTimers(fsi) : InTurn(U, fsi) /\ head = r \o TimerNames(U)
    <3>1. LineFits("time", head, fsi)
      BY <1>5
    <3>2. PICK U \in SUBSET AllTimers(fsi) : TurnOK(U, fsi) /\ head = ResultHeader(fsi) \o TimerNames(U)
      BY ONLY <3>1, TimeLine
    <3> QED
      BY <3>2, TurnShown
  <2> DEFINE s == TimerNames(T)
             t == TimerNames(U)
  <2>3. Begins(s, t) \/ Begins(t, s)
    BY <2>1, <2>2, TimersInOrder
  <2>4. s \in Seq(Name) /\ t \in Seq(Name)
    <3>1. Cardinality(T) \in Nat /\ Cardinality(U) \in Nat
      BY <2>1, <2>2, TimersFacts DEF TurnOK
    <3> QED
      BY <3>1, TimerNamed DEF TimerNames
  <2> HIDE DEF r, s, t
  <2>5. IsPrefix(r \o s, r \o t) \/ IsPrefix(r \o t, r \o s)
    BY <1>3, <2>3, <2>4, BeginsPrefix
  <2> QED
    BY <1>5, <2>1, <2>2, <2>5 DEF s, t
<1> QED
  BY <1>1, <1>2, <1>4, <1>5 DEF FileNames

LEMMA LinesInFit == DriverTypeOK /\ LinesIn => HeadersFit
<1> SUFFICES ASSUME DriverTypeOK, LinesIn, NEW f \in DOMAIN files \ torn, NEW n \in 1..Len(files[f])
             PROVE  LET head == files[f][1]
                        line == files[f][n]
                        Fsi(x) == Len(x.names) > 1 /\ x.names[2] = "ReOrder"
                        Skipped(x) == /\ \E k \in 1..Len(x.names) : x.names[k] = "Boundary"
                                      /\ \A k \in 1..Len(x.names) : x.names[k] # "intersection"
                    IN  /\ line.header <=> n = 1
                        /\ Fsi(line) = Fsi(head) /\ ~ Skipped(line) /\ ~ Skipped(head) =>
                              \/ line.names = head.names
                              \/ /\ f \in {"count", "time"}
                                 /\ IsPrefix(line.names, head.names) \/ IsPrefix(head.names, line.names)
  BY DEF HeadersFit
<1> DEFINE head == files[f][1].names
           line == files[f][n].names
<1>1. f \in FileNames
  BY DEF DriverTypeOK
<1>2. files[f] \in Seq(Line)
  BY DEF LinesIn
<1>3. 1 \in 1..Len(files[f])
  BY <1>2
<1>4. PICK fsi \in BOOLEAN : LineFits(f, line, fsi)
  BY DEF LinesIn
<1>5. PICK old \in BOOLEAN : LineFits(f, head, old)
  BY <1>3 DEF LinesIn
<1>6. (ShowsFsi(line) <=> fsi) /\ (ShowsFsi(head) <=> old)
  BY <1>1, <1>4, <1>5, LineFacts
<1>7. files[f][n].header <=> n = 1
  BY DEF LinesIn
<1>8. (ShowsFsi(line) <=> ShowsFsi(head)) /\ ~ Skips(line) /\ ~ Skips(head) =>
          \/ line = head
          \/ f \in {"count", "time"} /\ (IsPrefix(line, head) \/ IsPrefix(head, line))
  <2> SUFFICES ASSUME ShowsFsi(line) <=> ShowsFsi(head), ~ Skips(line), ~ Skips(head)
               PROVE  \/ line = head
                      \/ f \in {"count", "time"} /\ (IsPrefix(line, head) \/ IsPrefix(head, line))
    OBVIOUS
  <2>1. fsi = old
    BY <1>6
  <2> HIDE DEF line, head
  <2> QED
    BY <1>1, <1>4, <1>5, <2>1, LinesMatch
<1> QED
  BY <1>7, <1>8 DEF ShowsFsi, Skips

-----------------------------------------------------------------------------
(* Start and end of a run.                                                 *)

LEMMA DriverInitHolds == DriverInit => DriverInv
<1> SUFFICES ASSUME DriverInit PROVE DriverInv
  OBVIOUS
<1> USE DEF DriverInit
<1>1. DriverTypeOK
  <2>1. runs \in 0..MaxRuns
    BY DriverAssumptions
  <2>2. seeds \in Seq(Items) /\ next \in 0..(Len(seeds) + 1)
    OBVIOUS
  <2>3. DOMAIN files = {}
    OBVIOUS
  <2>4. swing.own \in BOOLEAN /\ needHeader \in BOOLEAN
    BY DEF Unread
  <2> QED
    BY <2>1, <2>2, <2>3, <2>4 DEF DriverTypeOK
<1>2. RunShape
  BY DEF RunShape, InLoop
<1>3. Recorded
  <2>1. records \in Seq(Entries) /\ saved \in Seq(Entries) /\ Len(records) = 0 /\ Len(saved) = 0
    OBVIOUS
  <2> QED
    BY <2>1 DEF Recorded, Own, InLoop
<1>4. LinesOut
  BY DEF LinesOut
<1>5. LinesIn
  <2>1. DOMAIN files = {} /\ files = [f \in {} |-> << >>]
    OBVIOUS
  <2> QED
    BY <2>1 DEF LinesIn
<1> QED
  BY <1>1, <1>2, <1>3, <1>4, <1>5 DEF DriverInv

\* What lines may be depends on the algorithm alone.
LEMMA LinesSame ==
    ASSUME algo' = algo
    PROVE  /\ \A f, names, fsi : LineFits(f, names, fsi)' <=> LineFits(f, names, fsi)
           /\ \A fsi : /\ OutLine(fsi)' = OutLine(fsi)
                       /\ MostCounters(fsi)' = MostCounters(fsi)
                       /\ \A T : TurnOK(T, fsi)' <=> TurnOK(T, fsi)
<1>1. \A fsi : AllTimers(fsi)' = AllTimers(fsi) /\ MostCounters(fsi)' = MostCounters(fsi)
  BY DEF AllTimers, MostCounters
<1>2. \A fsi, n : CounterNames(fsi, n)' = CounterNames(fsi, n)
  BY DEF CounterNames
<1>3. \A fsi, T : TurnOK(T, fsi)' <=> TurnOK(T, fsi)
  BY <1>1 DEF TurnOK, InTurn, CallsKasc
<1>4. \A f, names, fsi : LineFits(f, names, fsi)' <=> LineFits(f, names, fsi)
  <2> TAKE f, names, fsi
  <2>1. (\E n \in 0..MostCounters(fsi)' : names = ResultHeader(fsi) \o CounterNames(fsi, n)')
           <=> \E n \in 0..MostCounters(fsi) : names = ResultHeader(fsi) \o CounterNames(fsi, n)
    BY ONLY <1>1, <1>2
  <2>2. (\E T \in SUBSET AllTimers(fsi)' : TurnOK(T, fsi)' /\ names = ResultHeader(fsi) \o TimerNames(T))
           <=> \E T \in SUBSET AllTimers(fsi) : TurnOK(T, fsi) /\ names = ResultHeader(fsi) \o TimerNames(T)
    BY ONLY <1>1, <1>3
  <2> QED
    BY ONLY <2>1, <2>2, Zenon DEF LineFits
<1>5. \A fsi : OutLine(fsi)' = OutLine(fsi)
  BY <1>4 DEF OutLine
<1> QED
  BY <1>1, <1>3, <1>4, <1>5

LEMMA LinesInStay ==
    ASSUME LinesIn, algo' = algo, files' = files, torn \in SUBSET torn'
    PROVE  LinesIn'
<1>1. \A f, names, fsi : LineFits(f, names, fsi)' <=> LineFits(f, names, fsi)
  BY LinesSame
<1>2. \A f \in DOMAIN files : \A n \in 1..Len(files[f]) :
          \E fsi \in BOOLEAN : LineFits(f, files[f][n].names, fsi)'
  BY <1>1 DEF LinesIn
<1>3. files' \in [DOMAIN files' -> Seq(Line)]
  BY DEF LinesIn
<1>4. \A f \in DOMAIN files : \A n \in 1..Len(files[f]) :
          f \notin torn' => (files'[f][n].header <=> n = 1)
  BY DEF LinesIn
<1> QED
  BY <1>2, <1>3, <1>4 DEF LinesIn

LEMMA EndKeeps ==
    ASSUME DriverInv, End, algo' = algo, seedFile' = seedFile, runs' = runs, files' = files,
           torn' \in SUBSET (DOMAIN files), torn \in SUBSET torn',
           \A f \in DOMAIN files \ torn' : files[f] # << >>
    PROVE  DriverInv'
<1> USE DEF End
<1>1. DriverTypeOK'
  <2>1. seeds' \in Seq(Items) /\ next' \in 0..(Len(seeds') + 1)
    OBVIOUS
  <2>2. swing'.own \in BOOLEAN /\ needHeader' \in BOOLEAN
    BY DEF Unread
  <2> QED
    BY <2>1, <2>2 DEF DriverTypeOK, DriverInv
<1>2. RunShape'
  BY DEF RunShape, InLoop
<1>3. Recorded'
  <2>1. records' \in Seq(Entries) /\ saved' \in Seq(Entries) /\ Len(records') = 0 /\ Len(saved') = 0
    OBVIOUS
  <2> QED
    BY <2>1 DEF Recorded, Own, InLoop
<1>4. LinesOut'
  BY DEF LinesOut
<1>5. LinesIn'
  BY LinesInStay DEF DriverInv
<1> QED
  BY <1>1, <1>2, <1>3, <1>4, <1>5 DEF DriverInv

\* The steps that end a run: none of them while a file is being created but Kill.
LEMMA KillKeeps == DriverInv /\ Kill => DriverInv'
<1> SUFFICES ASSUME DriverInv, Kill PROVE DriverInv'
  OBVIOUS
<1>1. /\ End /\ algo' = algo /\ seedFile' = seedFile /\ runs' = runs /\ files' = files
      /\ torn' = IF step = "close" /\ needHeader THEN torn \cup {out[1][1]} ELSE torn
  BY DEF Kill
<1>2. torn' \in SUBSET (DOMAIN files) /\ torn \in SUBSET torn'
  BY <1>1 DEF DriverInv, DriverTypeOK, LinesOut
<1>3. \A f \in DOMAIN files \ torn' : files[f] # << >>
  BY <1>1 DEF DriverInv, DriverTypeOK
<1> QED
  BY <1>1, <1>2, <1>3, EndKeeps

LEMMA EndersKeep ==
    ASSUME DriverInv,
           \/ NoFolder \/ NoSeeds \/ UnknownAlgorithm \/ QueryUnbuilt \/ Return
           \/ (EndQueries /\ End) \/ (StraySeeds /\ End)
    PROVE  DriverInv'
<1>1. /\ End /\ step # "close"
      /\ algo' = algo /\ seedFile' = seedFile /\ runs' = runs /\ files' = files /\ torn' = torn
  BY DEF NoFolder, NoSeeds, UnknownAlgorithm, QueryUnbuilt, AtQuery, Return, EndQueries,
         StraySeeds, disk
<1>2. torn' \in SUBSET (DOMAIN files) /\ torn \in SUBSET torn'
  BY <1>1 DEF DriverInv, DriverTypeOK
<1>3. \A f \in DOMAIN files \ torn' : files[f] # << >>
  BY <1>1 DEF DriverInv, DriverTypeOK
<1> QED
  BY <1>1, <1>2, <1>3, EndKeeps

\* Before and after the loop nothing is recorded.
LEMMA NothingRecorded ==
    ASSUME records' = << >>, saved' = << >>, ~ InLoop'
    PROVE  Recorded'
<1>1. records' \in Seq(Entries) /\ saved' \in Seq(Entries) /\ Len(records') = 0 /\ Len(saved') = 0
  OBVIOUS
<1> QED
  BY <1>1 DEF Recorded, Own

LEMMA StartRunKeeps == DriverInv /\ StartRun => DriverInv'
<1> SUFFICES ASSUME DriverInv, StartRun PROVE DriverInv'
  OBVIOUS
<1>1. /\ step = "ended" /\ step' = "seeds" /\ runs' = runs + 1 /\ runs < MaxRuns
      /\ algo' = algo /\ seedFile' = seedFile /\ files' = files /\ torn' = torn
      /\ seeds' = seeds /\ queryCount' = queryCount /\ built' = built /\ next' = next /\ swing' = swing
      /\ records' = records /\ saved' = saved /\ reported' = reported
      /\ timers' = timers /\ counters' = counters
      /\ out' = out /\ needHeader' = needHeader
  BY DEF StartRun, disk, queries, results, costs, output
<1>2. opt' \in Options
  BY DriverAssumptions DEF StartRun
<1>3. /\ out = << >> /\ needHeader = FALSE /\ records = << >> /\ saved = << >> /\ reported = {}
      /\ counters = 0 /\ next = 0
  BY <1>1 DEF DriverInv, DriverTypeOK, LinesOut, RunShape, InLoop
<1>4. DriverTypeOK'
  <2>1. runs' \in 0..MaxRuns
    BY <1>1, DriverAssumptions DEF DriverInv, DriverTypeOK
  <2>2. \A f \in DOMAIN files \ torn : files[f] # << >>
    BY <1>1 DEF DriverInv, DriverTypeOK
  <2> QED
    BY <1>1, <1>2, <2>1, <2>2 DEF DriverInv, DriverTypeOK
<1>5. RunShape'
  BY <1>1, <1>3 DEF RunShape, InLoop
<1>6. Recorded'
  BY <1>1, <1>3, NothingRecorded DEF InLoop
<1>7. LinesOut'
  BY <1>1, <1>3 DEF LinesOut
<1>8. LinesIn'
  BY <1>1, LinesInStay DEF DriverInv
<1> QED
  BY <1>4, <1>5, <1>6, <1>7, <1>8 DEF DriverInv

-----------------------------------------------------------------------------
(* Seeds.                                                                  *)

LEMMA MinFacts ==
    ASSUME NEW S \in SUBSET Nat, S # {}
    PROVE  Min(S) \in S /\ \A y \in S : Min(S) <= y
<1>1. \E x \in S : \A y \in S : x <= y
  BY LeastNumber
<1> QED
  BY <1>1 DEF Min

LEMMA PairFacts ==
    ASSUME NEW a \in Int, NEW b \in Int
    PROVE  Min({a, b}) = (IF a <= b THEN a ELSE b) /\ Max({a, b}) = (IF a >= b THEN a ELSE b)
<1>1. \E x \in {a, b} : \A y \in {a, b} : x <= y
  OBVIOUS
<1>2. Min({a, b}) \in {a, b} /\ \A y \in {a, b} : Min({a, b}) <= y
  BY <1>1 DEF Min
<1>3. \E x \in {a, b} : \A y \in {a, b} : x >= y
  OBVIOUS
<1>4. Max({a, b}) \in {a, b} /\ \A y \in {a, b} : Max({a, b}) >= y
  BY <1>3 DEF Max
<1> QED
  BY <1>2, <1>4

LEMMA SeedsRead ==
    ASSUME DriverInv, opt \in Options, seedFile # NoFile
    PROVE  /\ NumRead \in Nat /\ CountRead \in Int /\ (opt.count >= 1 => CountRead = NumRead)
           /\ \A k \in 1..NumRead : IF k < FirstWord THEN seedFile[k] \in Items
                                     ELSE FirstWord # 1 => seedFile[FirstWord - 1] \in Items
<1> DEFINE words == {k \in 1..Len(seedFile) : seedFile[k] = Word}
           F == FirstWord
           most == Max({1, opt.count})
           n == NumRead
<1>1. seedFile \in Seq(Items \cup {Word}) /\ Items \in SUBSET Nat
  BY DriverAssumptions DEF DriverInv, DriverTypeOK
<1>2. Len(seedFile) \in Nat /\ \A k \in 1..Len(seedFile) : seedFile[k] \in Items \cup {Word}
  BY <1>1, ElementOfSeq
<1>3. /\ F \in words \cup {Len(seedFile) + 1}
      /\ \A k \in words \cup {Len(seedFile) + 1} : F <= k
  <2>1. words \cup {Len(seedFile) + 1} \in SUBSET Nat /\ words \cup {Len(seedFile) + 1} # {}
    BY <1>2
  <2> QED
    BY <2>1, MinFacts DEF FirstWord
<1>4. F \in 1..(Len(seedFile) + 1) /\ F <= Len(seedFile) + 1
  BY <1>2, <1>3
<1>5. ASSUME NEW k \in 1..Len(seedFile), k < F PROVE seedFile[k] \in Items
  <2>1. k \notin words
    <3>1. k \in words => F <= k
      BY <1>3
    <3> QED
      BY <1>2, <1>4, <1>5, <3>1
  <2> QED
    BY <1>2, <2>1
<1>6. opt.count \in Int
  BY DEF Options
<1>7. most \in Nat /\ most >= 1 /\ most >= opt.count /\ (opt.count >= 1 => most = opt.count)
  <2>1. Max({1, opt.count}) = IF 1 >= opt.count THEN 1 ELSE opt.count
    <3>1. 1 \in Int
      OBVIOUS
    <3> QED
      BY ONLY <1>6, <3>1, PairFacts
  <2> HIDE DEF most
  <2>2. most = IF 1 >= opt.count THEN 1 ELSE opt.count
    BY <2>1 DEF most
  <2> QED
    BY <1>6, <2>2
<1>8. n = IF F <= Len(seedFile) THEN most ELSE Min({most, Len(seedFile)})
  BY DEF NumRead
<1> HIDE DEF most, F
<1>9. n \in Nat /\ n <= most /\ (F > Len(seedFile) => n <= Len(seedFile))
  <2>1. Min({most, Len(seedFile)}) = IF most <= Len(seedFile) THEN most ELSE Len(seedFile)
    BY <1>2, <1>7, PairFacts
  <2> HIDE DEF n
  <2> QED
    BY <1>2, <1>4, <1>7, <1>8, <2>1
<1> HIDE DEF n
<1>10. Min({opt.count, n}) \in Int /\ (opt.count >= 1 => Min({opt.count, n}) = n)
  BY <1>6, <1>7, <1>9, PairFacts
<1>11. ASSUME NEW k \in 1..n
       PROVE  IF k < F THEN seedFile[k] \in Items ELSE F # 1 => seedFile[F - 1] \in Items
  <2>1. CASE k < F
    <3>1. k \in 1..Len(seedFile)
      BY <1>2, <1>4, <1>9, <2>1
    <3> QED
      BY <1>5, <2>1, <3>1
  <2>2. CASE ~ (k < F) /\ F # 1
    <3>1. F - 1 \in 1..Len(seedFile) /\ F - 1 < F
      BY <1>2, <1>4, <2>2
    <3> QED
      BY <1>5, <2>2, <3>1
  <2> QED
    BY <2>1, <2>2
<1> QED
  BY <1>9, <1>10, <1>11 DEF n, F, CountRead

\* A step that leaves the files alone, and has no lines for them.
LEMMA QuietKeeps ==
    ASSUME DriverInv, algo' = algo, seedFile' = seedFile, files' = files, torn' = torn, runs' = runs,
           opt' = opt, out' = out, needHeader' = needHeader,
           step \notin {"open", "close", "ended"},
           step' \in {"filter", "prepare", "unknown", "query", "measure", "view"},
           seeds' \in Seq(Items), queryCount' \in Int, next' \in 0..(Len(seeds') + 1),
           timers' \in SUBSET {0, 1, 2, 3, 5, 6}, counters' \in 0..5, swing'.own \in BOOLEAN,
           reported' \in SUBSET (1..Len(seeds'))
    PROVE  DriverTypeOK' /\ LinesOut' /\ LinesIn'
<1>1. out = << >> /\ needHeader = FALSE /\ opt \in Options
  BY DEF DriverInv, DriverTypeOK, LinesOut
<1>2. \A f \in DOMAIN files \ torn : files[f] # << >>
  BY DEF DriverInv, DriverTypeOK
<1>3. DriverTypeOK'
  BY <1>1, <1>2 DEF DriverInv, DriverTypeOK
<1>4. LinesOut'
  BY <1>1 DEF LinesOut
<1>5. LinesIn'
  BY LinesInStay DEF DriverInv
<1> QED
  BY <1>3, <1>4, <1>5

LEMMA LoadSeedsKeeps == DriverInv /\ LoadSeeds => DriverInv'
<1> SUFFICES ASSUME DriverInv, LoadSeeds PROVE DriverInv'
  OBVIOUS
<1>1. /\ algo' = algo /\ seedFile' = seedFile /\ files' = files /\ torn' = torn /\ runs' = runs
      /\ opt' = opt /\ out' = out /\ needHeader' = needHeader
      /\ step = "seeds" /\ step' = "filter" /\ seedFile # NoFile /\ queryCount' = CountRead
      /\ built' = built /\ next' = next /\ swing' = swing /\ records' = records /\ saved' = saved
      /\ reported' = reported /\ timers' = timers /\ counters' = counters
  BY DEF LoadSeeds, process, disk, results, costs, output
<1>2. PICK memory \in Items :
         seeds' = [k \in 1..NumRead |->
                     IF k < FirstWord THEN seedFile[k]
                     ELSE IF FirstWord = 1 THEN memory ELSE seedFile[FirstWord - 1]]
  BY DEF LoadSeeds
<1>3. opt \in Options /\ records = << >> /\ saved = << >> /\ reported = {} /\ counters = 0 /\ next = 0
  BY <1>1 DEF DriverInv, DriverTypeOK, RunShape, InLoop
<1>4. /\ NumRead \in Nat /\ CountRead \in Int /\ (opt.count >= 1 => CountRead = NumRead)
      /\ \A k \in 1..NumRead : IF k < FirstWord THEN seedFile[k] \in Items
                                ELSE FirstWord # 1 => seedFile[FirstWord - 1] \in Items
  BY <1>1, <1>3, SeedsRead
<1>5. seeds' \in Seq(Items) /\ Len(seeds') = NumRead
  <2>1. \A k \in 1..NumRead :
           (IF k < FirstWord THEN seedFile[k]
            ELSE IF FirstWord = 1 THEN memory ELSE seedFile[FirstWord - 1]) \in Items
    BY <1>4
  <2> QED
    BY <1>2, <1>4, <2>1
<1>6. DriverTypeOK' /\ LinesOut' /\ LinesIn'
  <2>1. /\ next' \in 0..(Len(seeds') + 1) /\ timers' \in SUBSET {0, 1, 2, 3, 5, 6} /\ counters' \in 0..5
        /\ swing'.own \in BOOLEAN /\ reported' \in SUBSET (1..Len(seeds'))
    BY <1>1, <1>3, <1>4, <1>5 DEF DriverInv, DriverTypeOK
  <2> QED
    BY <1>1, <1>4, <1>5, <2>1, QuietKeeps
<1>7. RunShape'
  BY <1>1, <1>3, <1>4, <1>5 DEF RunShape, InLoop
<1>8. Recorded'
  BY <1>1, <1>3, NothingRecorded DEF InLoop
<1> QED
  BY <1>6, <1>7, <1>8 DEF DriverInv

LEMMA FilterSeedsKeeps == DriverInv /\ FilterSeeds => DriverInv'
<1> SUFFICES ASSUME DriverInv, FilterSeeds PROVE DriverInv'
  OBVIOUS
<1>1. /\ algo' = algo /\ seedFile' = seedFile /\ files' = files /\ torn' = torn /\ runs' = runs
      /\ opt' = opt /\ out' = out /\ needHeader' = needHeader
      /\ step = "filter" /\ step' = "prepare"
      /\ built' = built /\ next' = next /\ swing' = swing /\ records' = records /\ saved' = saved
      /\ reported' = reported /\ timers' = timers /\ counters' = counters
  BY DEF FilterSeeds, process, disk, results, costs, output
<1>2. /\ opt \in Options /\ records = << >> /\ saved = << >> /\ reported = {} /\ counters = 0 /\ next = 0
      /\ seeds \in Seq(Items) /\ queryCount \in Int /\ (opt.count >= 1 => queryCount = Len(seeds))
  BY <1>1 DEF DriverInv, DriverTypeOK, RunShape, InLoop
<1>3. /\ seeds' \in Seq(Items) /\ queryCount' \in Int
      /\ opt.count >= 1 => queryCount' = Len(seeds')
  <2>1. CASE opt.limit = -1
    BY <1>2, <2>1 DEF FilterSeeds, queries
  <2>2. CASE opt.limit # -1
    <3> DEFINE P == {k \in 1..Len(seeds) : ~ TooFrequent(seeds[k])}
    <3>1. P \in SUBSET (1..Len(seeds)) /\ seeds' = Picked(seeds, P) /\ queryCount' = Len(seeds')
      BY <2>2 DEF FilterSeeds
    <3> HIDE DEF P
    <3>2. seeds' \in Seq(Items)
      BY <1>2, <3>1, PickedFacts
    <3> QED
      BY <3>1, <3>2
  <2> QED
    BY <2>1, <2>2
<1>4. DriverTypeOK' /\ LinesOut' /\ LinesIn'
  <2>1. /\ next' \in 0..(Len(seeds') + 1) /\ timers' \in SUBSET {0, 1, 2, 3, 5, 6} /\ counters' \in 0..5
        /\ swing'.own \in BOOLEAN /\ reported' \in SUBSET (1..Len(seeds'))
    BY <1>1, <1>2, <1>3 DEF DriverInv, DriverTypeOK
  <2> QED
    BY <1>1, <1>3, <2>1, QuietKeeps
<1>5. RunShape'
  BY <1>1, <1>2, <1>3 DEF RunShape, InLoop
<1>6. Recorded'
  BY <1>1, <1>2, NothingRecorded DEF InLoop
<1> QED
  BY <1>4, <1>5, <1>6 DEF DriverInv

LEMMA StraySeedsKeeps == DriverInv /\ StraySeeds => DriverInv'
<1> SUFFICES ASSUME DriverInv, StraySeeds PROVE DriverInv'
  OBVIOUS
<1>1. CASE End
  BY <1>1, EndersKeep
<1>2. CASE ~ End
  <2>1. /\ algo' = algo /\ seedFile' = seedFile /\ files' = files /\ torn' = torn /\ runs' = runs
        /\ opt' = opt /\ out' = out /\ needHeader' = needHeader
        /\ step = "seeds" /\ step' = "prepare" /\ seeds' = << >> /\ queryCount' = 0
        /\ built' = built /\ next' = next /\ swing' = swing /\ records' = records /\ saved' = saved
        /\ reported' = reported /\ timers' = timers /\ counters' = counters
    BY <1>2 DEF StraySeeds, disk, results, costs, output
  <2>2. /\ records = << >> /\ saved = << >> /\ reported = {} /\ counters = 0 /\ next = 0
        /\ swing.own \in BOOLEAN /\ timers \in SUBSET {0, 1, 2, 3, 5, 6}
    BY <2>1 DEF DriverInv, DriverTypeOK, RunShape, InLoop
  <2>3. seeds' \in Seq(Items) /\ Len(seeds') = 0
    BY <2>1
  <2>4. DriverTypeOK' /\ LinesOut' /\ LinesIn'
    <3>1. /\ next' \in 0..(Len(seeds') + 1) /\ counters' \in 0..5 /\ queryCount' \in Int
          /\ reported' \in SUBSET (1..Len(seeds'))
      BY <2>1, <2>2, <2>3
    <3> QED
      BY <2>1, <2>2, <2>3, <3>1, QuietKeeps
  <2>5. RunShape'
    BY <2>1, <2>2, <2>3 DEF RunShape, InLoop
  <2>6. Recorded'
    BY <2>1, <2>2, NothingRecorded DEF InLoop
  <2> QED
    BY <2>4, <2>5, <2>6 DEF DriverInv
<1> QED
  BY <1>1, <1>2

-----------------------------------------------------------------------------
(* Queries.                                                                *)

LEMMA PrepareKeeps == DriverInv /\ Prepare => DriverInv'
<1> SUFFICES ASSUME DriverInv, Prepare PROVE DriverInv'
  OBVIOUS
<1>1. /\ algo' = algo /\ seedFile' = seedFile /\ files' = files /\ torn' = torn /\ runs' = runs
      /\ opt' = opt /\ out' = out /\ needHeader' = needHeader
      /\ step = "prepare" /\ step' = (IF Known THEN "query" ELSE "unknown")
      /\ built' = Structures /\ next' = 1 /\ swing' = swing /\ records' = records /\ saved' = saved
      /\ reported' = reported
      /\ timers' = {0} /\ counters' = counters /\ seeds' = seeds /\ queryCount' = queryCount
  BY DEF Prepare, process, disk, results, queries, output
<1>2. /\ opt \in Options /\ records = << >> /\ saved = << >> /\ reported = {} /\ counters = 0
      /\ seeds \in Seq(Items) /\ queryCount \in Int /\ (opt.count >= 1 => queryCount = Len(seeds))
      /\ swing.own \in BOOLEAN
  BY <1>1 DEF DriverInv, DriverTypeOK, RunShape, InLoop
<1>3. Structures' = Structures /\ (Known' <=> Known)
  BY <1>1 DEF Structures, Known
<1>4. DriverTypeOK' /\ LinesOut' /\ LinesIn'
  <2>1. /\ next' \in 0..(Len(seeds') + 1) /\ timers' \in SUBSET {0, 1, 2, 3, 5, 6} /\ counters' \in 0..5
        /\ seeds' \in Seq(Items) /\ queryCount' \in Int /\ swing'.own \in BOOLEAN
        /\ reported' \in SUBSET (1..Len(seeds'))
    BY <1>1, <1>2
  <2>2. step' \in {"query", "unknown"}
    BY <1>1
  <2> QED
    BY <1>1, <2>1, <2>2, QuietKeeps
<1>5. RunShape'
  <2>1. InTurn({0}, opt.fsi)
    BY DEF InTurn, AllTimers
  <2>2. TurnOK(timers, opt.fsi)' /\ 0 \in timers'
    BY <1>1, <2>1 DEF TurnOK, InTurn, AllTimers
  <2>3. (counters \in 0..MostCounters(opt.fsi))'
    BY <1>1, <1>2 DEF MostCounters
  <2>4. CASE Known
    <3>1. step' = "query" /\ Known'
      BY <1>1, <1>3, <2>4
    <3>2. InLoop' /\ built' = Structures' /\ next' >= 1 /\ (opt'.count >= 1 => queryCount' = Len(seeds'))
          /\ reported' \subseteq 1..(next' - 1)
      BY <1>1, <1>2, <1>3, <3>1 DEF InLoop
    <3> QED
      BY <2>2, <2>3, <3>1, <3>2 DEF RunShape
  <2>5. CASE ~ Known
    BY <1>1, <1>2, <2>5 DEF RunShape, InLoop
  <2> QED
    BY <2>4, <2>5
<1>6. Recorded'
  <2>1. /\ records' \in Seq(Entries) /\ saved' \in Seq(Entries)
        /\ Own(records', Unpacked') /\ Own(saved', Unpacked')
    <3>1. Len(<< >>) = 0 /\ << >> \in Seq(Entries)
      OBVIOUS
    <3> QED
      BY <1>1, <1>2, <3>1 DEF Own
  <2>2. QueriesOf(<< >>) = << >> /\ \A P : P = {} => Picked(seeds', P) = << >>
    <3>1. QueriesOf(<< >>) = << >>
      BY DEF QueriesOf
    <3>2. ASSUME NEW P, P = {} PROVE Picked(seeds', P) = << >>
      <4>1. Cardinality(P) = 0
        BY ONLY <3>2, FS_EmptySet
      <4>2. 1..Cardinality(P) = {}
        BY ONLY <4>1
      <4> QED
        BY ONLY <4>2 DEF Picked
    <3> QED
      BY ONLY <3>1, <3>2
  <2>3. NumMeasured' = 0 /\ 1..(next' - 1) = {}
    BY <1>1 DEF NumMeasured
  <2>4. MeasuredAt' = {} /\ SavedAt' = {}
    BY <2>3 DEF MeasuredAt, SavedAt
  <2> QED
    BY <1>1, <1>2, <2>1, <2>2, <2>4 DEF Recorded
<1> QED
  BY <1>4, <1>5, <1>6 DEF DriverInv

\* When FastKASC runs, which timers there can be is told timer by timer.
KascTimers(T) ==
    /\ T \subseteq {0, 1, 2, 5, 6}
    /\ 2 \in T \/ 5 \in T => 1 \in T
    /\ 6 \in T => 2 \in T /\ 5 \in T

LEMMA KascTurns ==
    ASSUME NEW fsi, CallsKasc(fsi), NEW T, 0 \in T
    PROVE  TurnOK(T, fsi) <=> KascTimers(T)
<1> DEFINE A == {0, 1, 2, 5, 6}
<1>1. AllTimers(fsi) = A
  BY DEF AllTimers, CallsKasc
<1>2. TurnOK(T, fsi) => KascTimers(T)
  <2>1. CASE InTurn(T, fsi)
    <3>1. T \subseteq A /\ \A s \in A, t \in T : s < t => s \in T
      BY <1>1, <2>1 DEF InTurn
    <3>2. 1 \in A /\ 2 \in A /\ 5 \in A /\ 1 < 2 /\ 1 < 5 /\ 2 < 6 /\ 5 < 6
      OBVIOUS
    <3> QED
      BY <3>1, <3>2 DEF KascTimers
  <2>2. CASE T = NoRound
    BY <2>2 DEF NoRound, KascTimers
  <2> QED
    BY <2>1, <2>2 DEF TurnOK
<1>3. ASSUME KascTimers(T) PROVE TurnOK(T, fsi)
  <2>1. CASE 5 \in T /\ 2 \notin T
    <3>1. T = NoRound
      BY <1>3, <2>1 DEF KascTimers, NoRound
    <3> QED
      BY <3>1 DEF TurnOK
  <2>2. CASE ~ (5 \in T /\ 2 \notin T)
    <3>1. ASSUME NEW s \in A, NEW t \in T, s < t PROVE s \in T
      BY <1>3, <2>2, <3>1 DEF KascTimers
    <3>2. T \subseteq A
      BY <1>3 DEF KascTimers
    <3> QED
      BY <1>1, <3>1, <3>2 DEF TurnOK, InTurn
  <2> QED
    BY <2>1, <2>2
<1> QED
  BY <1>2, <1>3

\* What a query uses comes in turn.
LEMMA UsesFacts ==
    ASSUME Known, opt.fsi \in BOOLEAN, 0 \in timers, TurnOK(timers, opt.fsi),
           counters \in 0..MostCounters(opt.fsi), NEW use \in Uses
    PROVE  /\ 0 \in Started(use) /\ TurnOK(Started(use), opt.fsi)
           /\ CountersOf(use) \in 0..MostCounters(opt.fsi)
<1> DEFINE T == use[1]
           n == use[2]
           A == AllTimers(opt.fsi)
           most == MostCounters(opt.fsi)
<1>1. 0 \in Started(use)
  BY DEF Started
<1>2. CASE CallsKasc(opt.fsi)
  <2>1. algo = "KASC" /\ opt.fsi /\ algo \notin {"Exact", "Truth"}
    BY <1>2 DEF CallsKasc
  <2>2. Uses = {<<{1}, 0>>, <<{1}, 4>>, <<{1, 2}, 4>>} \cup
               IF opt.rounds THEN {<<{1, 2, 5}, 4>>, <<{1, 2, 5, 6}, 5>>} ELSE {<<{1, 5}, 4>>}
    BY <2>1, Zenon DEF Uses
  <2>3. use \in {<<{1}, 0>>, <<{1}, 4>>, <<{1, 2}, 4>>, <<{1, 2, 5}, 4>>, <<{1, 2, 5, 6}, 5>>, <<{1, 5}, 4>>}
    BY <2>2
  <2>4. most = 5
    BY <2>1 DEF MostCounters
  <2>5. n \in 0..5 /\ KascTimers(T)
    BY <2>3 DEF KascTimers
  <2>6. KascTimers(timers)
    BY <1>2, KascTurns
  <2> HIDE DEF T, n, most
  <2>7. KascTimers(timers \cup T)
    BY <2>5, <2>6 DEF KascTimers
  <2>8. KascTimers(Started(use))
    BY <2>7 DEF Started, T
  <2>9. TurnOK(Started(use), opt.fsi)
    BY <1>1, <1>2, <2>8, KascTurns
  <2>10. counters \in 0..5
    BY <2>4 DEF most
  <2>11. CountersOf(use) \in 0..5
    <3>1. counters \in Int /\ n \in Int
      BY <2>5, <2>10
    <3>2. Max({counters, n}) = (IF counters >= n THEN counters ELSE n)
      BY ONLY <3>1, PairFacts
    <3> QED
      BY <2>5, <2>10, <3>2 DEF CountersOf, n
  <2> QED
    BY <1>1, <2>4, <2>9, <2>11 DEF most
<1>3. CASE ~ CallsKasc(opt.fsi)
  <2>1. ~ (algo = "KASC" /\ opt.fsi) /\ InTurn(timers, opt.fsi)
    BY <1>3 DEF CallsKasc, TurnOK
  <2>2. /\ T \in SUBSET A /\ n \in 0..most /\ most = 2
        /\ \A s \in A, t \in T : s < t => s = 0 \/ s \in T
    <3>1. CASE algo \in {"Exact", "Truth"}
      <4>1. Uses = IF NoPairs THEN {<<{1}, 0>>} ELSE {<<{1, 2, 3}, 0>>}
        BY <3>1, Zenon DEF Uses
      <4>2. use \in {<<{1}, 0>>, <<{1, 2, 3}, 0>>}
        BY <4>1
      <4>3. A = {0, 1, 2, 3} /\ most = 2
        BY <3>1 DEF AllTimers, MostCounters
      <4> HIDE DEF A, most
      <4> QED
        BY <4>2, <4>3
    <3>2. CASE algo \notin {"Exact", "Truth"}
      <4>1. Uses = {<<{1}, 0>>, <<{1}, 2>>, <<{1, 2}, 2>>}
        BY <2>1, <3>2, Zenon DEF Uses
      <4>2. A = {0, 1, 2} /\ most = 2
        BY <2>1, <3>2 DEF AllTimers, MostCounters
      <4> HIDE DEF A, most
      <4> QED
        BY <4>1, <4>2
    <3> QED
      BY <3>1, <3>2
  <2>3. /\ timers \in SUBSET A /\ (\A s \in A, t \in timers : s < t => s \in timers)
    BY <2>1 DEF InTurn
  <2>4. counters \in 0..most
    OBVIOUS
  <2> HIDE DEF T, n, A, most
  <2>5. timers \cup T \in SUBSET A /\ \A s \in A, t \in timers \cup T : s < t => s \in timers \cup T
    BY <2>2, <2>3
  <2>6. InTurn(Started(use), opt.fsi)
    BY <2>5 DEF Started, InTurn, T, A
  <2>7. CountersOf(use) \in 0..most
    <3>1. counters \in Int /\ n \in Int
      BY <2>2, <2>4
    <3>2. Max({counters, n}) = (IF counters >= n THEN counters ELSE n)
      BY ONLY <3>1, PairFacts
    <3> QED
      BY <2>2, <2>4, <3>2 DEF CountersOf, n
  <2> QED
    BY <1>1, <2>6, <2>7 DEF TurnOK, most
<1> QED
  BY <1>2, <1>3

\* What the packed and the plain structures are for.
LEMMA NeedsFacts ==
    ASSUME Known, opt.fsi \in BOOLEAN
    PROVE  /\ algo = "Truth" => (Needs \subseteq Structures <=> opt.fsi)
           /\ algo # "Truth" => Needs \subseteq Structures
           /\ "order" \in Structures <=> opt.fsi
<1>1. CASE algo = "Truth"
  <2>1. Needs = {"order", "pool"}
    BY <1>1, Zenon DEF Needs
  <2> QED
    BY <1>1, <2>1 DEF Structures
<1>2. CASE algo # "Truth" /\ ~ opt.fsi
  <2>1. Needs = {"sets"}
    BY <1>2, Zenon DEF Needs
  <2> QED
    BY <1>2, <2>1 DEF Structures
<1>3. CASE algo = "Exact" /\ opt.fsi
  <2>1. Needs = {"order", "pool"}
    BY <1>3, Zenon DEF Needs
  <2> QED
    BY <1>3, <2>1 DEF Structures
<1>4. CASE algo \in {"ASC", "KASC"} /\ opt.fsi
  <2>1. Needs = {"order", "pool", "maps"}
    BY <1>4, Zenon DEF Needs
  <2> QED
    BY <1>4, <2>1 DEF Structures
<1> QED
  BY <1>1, <1>2, <1>3, <1>4 DEF Known

\* A step of the loop over the queries.
LEMMA LoopKeeps ==
    ASSUME DriverInv, step \in {"query", "measure", "view"},
           algo' = algo, seedFile' = seedFile, files' = files, torn' = torn, runs' = runs,
           opt' = opt, out' = out, needHeader' = needHeader,
           seeds' = seeds, queryCount' = queryCount, built' = built,
           step' \in {"query", "measure", "view"}, next' \in 1..(Len(seeds) + 1),
           reported' \in SUBSET (1..(next' - 1)),
           0 \in timers', TurnOK(timers', opt.fsi), counters' \in 0..MostCounters(opt.fsi),
           swing'.own \in BOOLEAN,
           step' \in {"measure", "view"} =>
              /\ next' <= Len(seeds) /\ swing' = [of |-> swing'.of, own |-> ~ opt.fsi]
              /\ swing'.of = <<seeds[next']>> \/ (seeds[next'] \in Unpacked /\ swing'.of = << >>),
           step' = "measure" => algo # "Truth", step' = "view" => SavesScores
    PROVE  DriverTypeOK' /\ RunShape' /\ LinesOut' /\ LinesIn'
<1>1. /\ opt \in Options /\ seeds \in Seq(Items) /\ queryCount \in Int
      /\ (opt.count >= 1 => queryCount = Len(seeds)) /\ built = Structures /\ Known
  BY DEF DriverInv, DriverTypeOK, RunShape, InLoop
<1>2. opt.fsi \in BOOLEAN /\ Len(seeds) \in Nat
  BY <1>1 DEF Options
<1>3. timers' \in SUBSET {0, 1, 2, 3, 5, 6}
  BY <1>2, TimersFacts
<1>4. counters' \in 0..5
  BY DEF MostCounters
<1>5. DriverTypeOK' /\ LinesOut' /\ LinesIn'
  <2>1. seeds' \in Seq(Items) /\ queryCount' \in Int /\ next' \in 0..(Len(seeds') + 1)
    BY <1>1, <1>2
  <2>2. reported' \in SUBSET (1..Len(seeds'))
    BY <1>2
  <2> QED
    BY <1>3, <1>4, <2>1, <2>2, QuietKeeps
<1>6. RunShape'
  <2>1. TurnOK(timers, opt.fsi)' /\ (counters \in 0..MostCounters(opt.fsi))'
    BY DEF TurnOK, CallsKasc, InTurn, AllTimers, MostCounters
  <2>2. Structures' = Structures /\ (Known' <=> Known) /\ (SavesScores' <=> SavesScores)
        /\ Unpacked' = Unpacked
    BY DEF Structures, Known, SavesScores, Unpacked
  <2>3. InLoop' /\ step' \notin {"filter", "prepare", "unknown", "open", "close"}
    BY DEF InLoop
  <2>4. next' >= 1
    BY <1>2
  <2>5. vq' = seeds[next']
    BY DEF vq
  <2> QED
    BY <1>1, <2>1, <2>2, <2>3, <2>4, <2>5 DEF RunShape
<1> QED
  BY <1>5, <1>6

\* One more that is measured or saved.
LEMMA EntryAdded ==
    ASSUME NEW excused, NEW s \in Seq(Entries), Own(s, excused), NEW e \in Entries,
           (e.of = <<e.query>> /\ e.right) \/ e.query \in excused
    PROVE  /\ Append(s, e) \in Seq(Entries) /\ Own(Append(s, e), excused)
           /\ QueriesOf(Append(s, e)) = Append(QueriesOf(s), e.query)
<1> DEFINE t == Append(s, e)
           N == Len(s)
<1>1. /\ N \in Nat /\ t \in Seq(Entries) /\ Len(t) = N + 1
      /\ (\A k \in 1..N : t[k] = s[k]) /\ t[N + 1] = e
  OBVIOUS
<1>2. \A k \in 1..(N + 1) : k \in 1..N \/ k = N + 1
  BY <1>1
<1> HIDE DEF t, N
<1>3. Own(t, excused)
  BY <1>1, <1>2 DEF Own, N
<1>4. QueriesOf(t) = Append(QueriesOf(s), e.query)
  <2> DEFINE a == QueriesOf(t)
             b == Append(QueriesOf(s), e.query)
  <2>1. \A k \in 1..N : s[k] \in Entries
    BY ElementOfSeq DEF N
  <2>2. QueriesOf(s) \in Seq(Items) /\ Len(QueriesOf(s)) = N /\ \A k \in 1..N : QueriesOf(s)[k] = s[k].query
    BY <1>1, <2>1 DEF QueriesOf, Entries, N
  <2>3. \A k \in 1..(N + 1) : t[k] \in Entries
    BY <1>1, ElementOfSeq
  <2>4. a \in Seq(Items) /\ Len(a) = N + 1 /\ \A k \in 1..(N + 1) : a[k] = t[k].query
    BY <1>1, <2>3 DEF QueriesOf, Entries
  <2>5. e.query \in Items
    BY DEF Entries
  <2>6. /\ b \in Seq(Items) /\ Len(b) = N + 1 /\ (\A k \in 1..N : b[k] = QueriesOf(s)[k])
        /\ b[N + 1] = e.query
    BY <2>2, <2>5
  <2> HIDE DEF a, b
  <2>7. \A k \in 1..(N + 1) : a[k] = b[k]
    BY <1>1, <1>2, <2>2, <2>4, <2>6
  <2> QED
    BY <2>4, <2>6, <2>7, SeqEqual DEF a, b
<1> QED
  BY <1>1, <1>3, <1>4 DEF t

\* What was recorded stays while the positions do.
LEMMA RecordedStays ==
    ASSUME DriverInv, InLoop, algo' = algo, opt' = opt, records' = records, saved' = saved,
           seeds' = seeds, MeasuredAt' = MeasuredAt, SavedAt' = SavedAt
    PROVE  Recorded'
<1>1. Unpacked' = Unpacked
  BY DEF Unpacked
<1>2. /\ records' \in Seq(Entries) /\ saved' \in Seq(Entries)
      /\ Own(records', Unpacked') /\ Own(saved', Unpacked')
  BY <1>1 DEF DriverInv, Recorded
<1>3. QueriesOf(records') = Picked(seeds', MeasuredAt') /\ QueriesOf(saved') = Picked(seeds', SavedAt')
  BY DEF DriverInv, Recorded
<1> QED
  BY <1>2, <1>3 DEF Recorded

LEMMA PositionsStay ==
    ASSUME algo' = algo, opt' = opt, seeds' = seeds, next' = next, reported' = reported,
           algo = "Truth" \/ NumMeasured' = NumMeasured
    PROVE  MeasuredAt' = MeasuredAt /\ SavedAt' = SavedAt
<1>1. SavesScores' <=> SavesScores
  BY DEF SavesScores
<1>2. SavedAt' = SavedAt
  BY <1>1 DEF SavedAt
<1>3. MeasuredAt' = MeasuredAt
  BY DEF MeasuredAt
<1> QED
  BY <1>2, <1>3

\* Both ways of calling a scoring procedure: on structures that hold what it reads, and on
\* the segments of SimpleBuild.
LEMMA CallKeeps ==
    ASSUME DriverInv, AtQuery, Calls,
           swing' = [of |-> swing'.of, own |-> ~ opt.fsi],
           swing'.of = <<vq>> \/ (vq \in Unpacked /\ swing'.of = << >>)
    PROVE  DriverInv'
<1>1. /\ algo' = algo /\ seedFile' = seedFile /\ files' = files /\ torn' = torn /\ runs' = runs
      /\ opt' = opt /\ out' = out /\ needHeader' = needHeader
      /\ step = "query" /\ next <= Len(seeds)
      /\ step' = (IF algo = "Truth" THEN "view" ELSE "measure")
      /\ built' = built /\ next' = next /\ records' = records /\ saved' = saved
      /\ reported' = reported /\ seeds' = seeds /\ queryCount' = queryCount
  BY DEF AtQuery, Calls, process, disk, results, queries, output
<1>2. PICK use \in Uses : timers' = Started(use) /\ counters' = CountersOf(use)
  BY DEF Calls
<1>3. /\ opt \in Options /\ seeds \in Seq(Items) /\ built = Structures /\ Known /\ next >= 1
      /\ 0 \in timers /\ TurnOK(timers, opt.fsi) /\ counters \in 0..MostCounters(opt.fsi)
      /\ next \in 0..(Len(seeds) + 1) /\ reported \in SUBSET (1..(next - 1)) /\ InLoop
  BY <1>1 DEF DriverInv, DriverTypeOK, RunShape, InLoop
<1>4. opt.fsi \in BOOLEAN
  BY <1>3 DEF Options
<1>5. 0 \in timers' /\ TurnOK(timers', opt.fsi) /\ counters' \in 0..MostCounters(opt.fsi)
  BY <1>2, <1>3, <1>4, UsesFacts
<1>6. DriverTypeOK' /\ RunShape' /\ LinesOut' /\ LinesIn'
  <2>1. next' \in 1..(Len(seeds) + 1) /\ reported' \in SUBSET (1..(next' - 1))
    BY <1>1, <1>3
  <2>2. swing'.own \in BOOLEAN
    <3>1. swing'.own = ~ opt.fsi
      OBVIOUS
    <3> QED
      BY <1>4, <3>1
  <2>3. step' \in {"query", "measure", "view"} /\ step \in {"query", "measure", "view"}
    BY <1>1
  <2>4. /\ swing'.of = <<seeds[next']>> \/ (seeds[next'] \in Unpacked /\ swing'.of = << >>)
        /\ next' <= Len(seeds)
    BY <1>1 DEF vq
  <2>5. (step' = "measure" => algo # "Truth") /\ (step' = "view" => SavesScores)
    BY <1>1 DEF SavesScores
  <2> QED
    BY <1>1, <1>5, <2>1, <2>2, <2>3, <2>4, <2>5, LoopKeeps
<1>7. Recorded'
  <2>1. algo = "Truth" \/ NumMeasured' = NumMeasured
    BY <1>1 DEF NumMeasured
  <2> QED
    BY <1>1, <1>3, <2>1, PositionsStay, RecordedStays
<1> QED
  BY <1>6, <1>7 DEF DriverInv

LEMMA QueryKeeps == DriverInv /\ Query => DriverInv'
<1> SUFFICES ASSUME DriverInv, Query PROVE DriverInv'
  OBVIOUS
<1>1. AtQuery /\ Calls /\ swing' = [of |-> <<vq>>, own |-> ~ opt.fsi]
  BY DEF Query, Fill
<1>2. swing' = [of |-> swing'.of, own |-> ~ opt.fsi] /\ swing'.of = <<vq>>
  BY <1>1
<1> QED
  BY <1>1, <1>2, CallKeeps

LEMMA QueryUnpackedKeeps == DriverInv /\ QueryUnpacked => DriverInv'
<1> SUFFICES ASSUME DriverInv, QueryUnpacked PROVE DriverInv'
  OBVIOUS
<1>1. /\ AtQuery /\ Calls /\ swing' = [of |-> << >>, own |-> ~ opt.fsi]
      /\ ~ (Needs \subseteq built) /\ ~ NoPairs /\ "simple" \in built
  BY DEF QueryUnpacked, Fill
<1>2. swing' = [of |-> swing'.of, own |-> ~ opt.fsi] /\ swing'.of = << >>
  BY <1>1
<1>3. /\ opt \in Options /\ built = Structures /\ Known /\ next >= 1 /\ next <= Len(seeds)
      /\ seeds \in Seq(Items) /\ next \in 0..(Len(seeds) + 1)
  BY <1>1 DEF AtQuery, DriverInv, DriverTypeOK, RunShape, InLoop
<1>4. opt.fsi \in BOOLEAN
  BY <1>3 DEF Options
<1>5. algo = "Truth" /\ ~ opt.fsi
  BY <1>1, <1>3, <1>4, NeedsFacts
<1>6. opt.order = "Simple"
  BY <1>1, <1>3, <1>5 DEF Structures
<1>7. vq \in Items /\ VDeg[vq] >= 2
  <2>1. vq \in Items
    BY <1>3, ElementOfSeq DEF vq
  <2>2. VDeg[vq] \in Nat
    BY <2>1, DriverAssumptions
  <2> QED
    BY <1>1, <2>1, <2>2 DEF NoPairs
<1>8. vq \in Unpacked
  BY <1>5, <1>6, <1>7 DEF Unpacked
<1> QED
  BY <1>1, <1>2, <1>8, CallKeeps

LEMMA MeasureKeeps == DriverInv /\ Measure => DriverInv'
<1> SUFFICES ASSUME DriverInv, Measure PROVE DriverInv'
  OBVIOUS
<1> DEFINE e == Entry([swing EXCEPT !.own = @ # ("order" \in built)])
<1>1. /\ algo' = algo /\ seedFile' = seedFile /\ files' = files /\ torn' = torn /\ runs' = runs
      /\ opt' = opt /\ out' = out /\ needHeader' = needHeader
      /\ step = "measure"
      /\ records' = (IF vq \notin HasTruth THEN records ELSE Append(records, e))
      /\ step' = (IF opt.view /\ algo # "Exact" THEN "view" ELSE "query")
      /\ next' = (IF step' = "query" THEN next + 1 ELSE next)
      /\ built' = built /\ swing' = swing /\ saved' = saved /\ reported' = reported
      /\ seeds' = seeds /\ queryCount' = queryCount /\ timers' = timers /\ counters' = counters
  BY DEF Measure, process, disk, costs, queries, output
<1>2. /\ opt \in Options /\ seeds \in Seq(Items) /\ built = Structures /\ Known /\ next >= 1
      /\ 0 \in timers /\ TurnOK(timers, opt.fsi) /\ counters \in 0..MostCounters(opt.fsi)
      /\ next \in 0..(Len(seeds) + 1) /\ next <= Len(seeds) /\ reported \in SUBSET (1..(next - 1))
      /\ swing = [of |-> swing.of, own |-> ~ opt.fsi]
      /\ swing.of = <<vq>> \/ vq \in Unpacked
      /\ algo # "Truth" /\ InLoop
  BY <1>1 DEF DriverInv, DriverTypeOK, RunShape, InLoop
<1>3. opt.fsi \in BOOLEAN /\ opt.view \in BOOLEAN /\ next \in 1..Len(seeds) /\ Len(seeds) \in Nat
  BY <1>2 DEF Options
<1>4. vq = seeds[next] /\ vq \in Items /\ swing.of = <<vq>>
  <2>1. vq \notin Unpacked
    BY <1>2 DEF Unpacked
  <2> QED
    BY <1>2, <1>3, <2>1, ElementOfSeq DEF vq
<1>5. DriverTypeOK' /\ RunShape' /\ LinesOut' /\ LinesIn'
  <2>1. next' \in 1..(Len(seeds) + 1) /\ reported' \in SUBSET (1..(next' - 1))
    BY <1>1, <1>2, <1>3
  <2>2. swing'.own \in BOOLEAN
    <3>1. swing' = swing /\ swing.own = ~ opt.fsi
      BY <1>1, <1>2
    <3> QED
      BY <1>3, <3>1
  <2>3. step' \in {"query", "measure", "view"} /\ step \in {"query", "measure", "view"}
    BY <1>1
  <2>4. step' \in {"measure", "view"} =>
           /\ swing' = [of |-> swing'.of, own |-> ~ opt.fsi] /\ swing'.of = <<seeds[next']>>
           /\ next' <= Len(seeds)
    BY <1>1, <1>2, <1>4
  <2>5. 0 \in timers' /\ TurnOK(timers', opt.fsi) /\ counters' \in 0..MostCounters(opt.fsi)
    BY <1>1, <1>2
  <2>6. (step' = "measure" => algo # "Truth") /\ (step' = "view" => SavesScores)
    BY <1>1 DEF SavesScores
  <2> QED
    BY <1>1, <1>2, <2>1, <2>2, <2>3, <2>4, <2>5, <2>6, LoopKeeps
<1>6. e \in Entries /\ e.of = <<e.query>> /\ e.right /\ e.query = vq
  <2>1. e = [query |-> vq, of |-> <<vq>>, right |-> (~ opt.fsi) # ("order" \in built)]
    BY <1>2, <1>4 DEF Entry
  <2>2. ("order" \in built) <=> opt.fsi
    BY <1>2, <1>3, NeedsFacts
  <2> DEFINE right == (~ opt.fsi) # ("order" \in built)
  <2>3. right /\ right \in BOOLEAN
    BY <1>3, <2>2
  <2>4. e = [query |-> vq, of |-> <<vq>>, right |-> right]
    BY <2>1
  <2> HIDE DEF e, right
  <2>5. <<vq>> \in Seq(Items)
    BY <1>4
  <2> QED
    BY <1>4, <2>3, <2>4, <2>5 DEF Entries
<1> HIDE DEF e
<1>7. /\ records \in Seq(Entries) /\ saved \in Seq(Entries)
      /\ Own(records, Unpacked) /\ Own(saved, Unpacked)
      /\ QueriesOf(records) = Picked(seeds, MeasuredAt) /\ QueriesOf(saved) = Picked(seeds, SavedAt)
  BY <1>2 DEF DriverInv, Recorded
<1>8. NumMeasured = next - 1 /\ NumMeasured' = next
  BY <1>1, <1>3 DEF NumMeasured
<1>9. /\ MeasuredAt = {k \in 1..(next - 1) : seeds[k] \in HasTruth}
      /\ MeasuredAt' = {k \in 1..next : seeds[k] \in HasTruth}
  BY <1>1, <1>2, <1>8 DEF MeasuredAt
<1>10. records' \in Seq(Entries) /\ Own(records', Unpacked) /\ QueriesOf(records') = Picked(seeds, MeasuredAt')
  <2>1. CASE vq \notin HasTruth
    <3>1. MeasuredAt' = MeasuredAt
      BY <1>3, <1>4, <1>9, <2>1
    <3> QED
      BY <1>1, <1>7, <2>1, <3>1
  <2>2. CASE vq \in HasTruth
    <3>1. MeasuredAt' = MeasuredAt \cup {next}
      BY <1>3, <1>4, <1>9, <2>2
    <3>2. MeasuredAt \in SUBSET (1..(next - 1))
      BY <1>9
    <3>3. Picked(seeds, MeasuredAt \cup {next}) = Append(Picked(seeds, MeasuredAt), seeds[next])
      BY <1>2, <1>3, <3>2, PickedGrows
    <3>4. /\ Append(records, e) \in Seq(Entries) /\ Own(Append(records, e), Unpacked)
          /\ QueriesOf(Append(records, e)) = Append(QueriesOf(records), e.query)
      BY <1>6, <1>7, EntryAdded
    <3> QED
      BY <1>1, <1>4, <1>6, <1>7, <2>2, <3>1, <3>3, <3>4
  <2> QED
    BY <2>1, <2>2
<1>11. SavedAt' = SavedAt
  <2>1. SavesScores' <=> SavesScores
    BY <1>1 DEF SavesScores
  <2>2. CASE step' = "view"
    BY <1>1, <2>1, <2>2 DEF SavedAt
  <2>3. CASE step' # "view"
    <3>1. ~ SavesScores
      BY <1>1, <1>2, <2>3 DEF SavesScores
    <3> QED
      BY <2>1, <3>1 DEF SavedAt
  <2> QED
    BY <2>2, <2>3
<1>12. Recorded'
  <2>1. Unpacked' = Unpacked
    BY <1>1 DEF Unpacked
  <2>2. saved' \in Seq(Entries) /\ Own(saved', Unpacked') /\ Own(records', Unpacked')
    BY <1>1, <1>7, <1>10, <2>1
  <2>3. QueriesOf(records') = Picked(seeds', MeasuredAt') /\ QueriesOf(saved') = Picked(seeds', SavedAt')
    BY <1>1, <1>7, <1>10, <1>11
  <2> QED
    BY <1>10, <2>2, <2>3 DEF Recorded
<1> QED
  BY <1>5, <1>12 DEF DriverInv

\* The scores are put back and the loop goes on, whether they were saved or not.
GoesOn ==
    /\ step = "view" /\ step' = "query" /\ next' = next + 1 /\ swing' = PutBack
    /\ algo' = algo /\ seedFile' = seedFile /\ files' = files /\ torn' = torn /\ runs' = runs
    /\ opt' = opt /\ out' = out /\ needHeader' = needHeader /\ built' = built
    /\ records' = records /\ seeds' = seeds /\ queryCount' = queryCount
    /\ timers' = timers /\ counters' = counters
    /\ reported' \in SUBSET (reported \cup {next})

AfterView ==
    /\ DriverTypeOK' /\ RunShape' /\ LinesOut' /\ LinesIn'
    /\ MeasuredAt' = MeasuredAt
    /\ next \in 1..Len(seeds) /\ seeds \in Seq(Items) /\ vq = seeds[next] /\ vq \in Items
    /\ reported \in SUBSET (1..(next - 1)) /\ InLoop /\ SavesScores /\ SavesScores'
    /\ swing'.own /\ swing'.own \in BOOLEAN
    /\ swing'.of = <<vq>> \/ (vq \in Unpacked /\ swing'.of = << >>)

LEMMA GoesOnKeeps == DriverInv /\ GoesOn => AfterView
<1> SUFFICES ASSUME DriverInv, GoesOn PROVE AfterView
  OBVIOUS
<1>a. /\ step = "view" /\ step' = "query" /\ next' = next + 1 /\ swing' = PutBack
      /\ algo' = algo /\ seedFile' = seedFile /\ files' = files /\ torn' = torn /\ runs' = runs
      /\ opt' = opt /\ out' = out /\ needHeader' = needHeader /\ built' = built
      /\ records' = records /\ seeds' = seeds /\ queryCount' = queryCount
      /\ timers' = timers /\ counters' = counters
      /\ reported' \in SUBSET (reported \cup {next})
  BY DEF GoesOn
<1>1. /\ opt \in Options /\ seeds \in Seq(Items) /\ built = Structures /\ Known /\ next >= 1
      /\ 0 \in timers /\ TurnOK(timers, opt.fsi) /\ counters \in 0..MostCounters(opt.fsi)
      /\ next \in 0..(Len(seeds) + 1) /\ next <= Len(seeds) /\ reported \in SUBSET (1..(next - 1))
      /\ swing = [of |-> swing.of, own |-> ~ opt.fsi]
      /\ swing.of = <<vq>> \/ (vq \in Unpacked /\ swing.of = << >>)
      /\ InLoop /\ SavesScores
  BY <1>a DEF DriverInv, DriverTypeOK, RunShape, InLoop
<1>2. opt.fsi \in BOOLEAN /\ next \in 1..Len(seeds) /\ Len(seeds) \in Nat
  BY <1>1 DEF Options
<1>3. vq = seeds[next] /\ vq \in Items
  BY <1>1, <1>2, ElementOfSeq DEF vq
<1>4. swing'.of = swing.of /\ swing'.own \in BOOLEAN /\ swing'.own
  <2> DEFINE held == swing.of
  <2>0. swing = [of |-> held, own |-> ~ opt.fsi] /\ held = swing.of
    BY <1>1
  <2> HIDE DEF held
  <2>1. CASE opt.fsi
    BY <1>a, <2>0, <2>1 DEF PutBack
  <2>2. CASE ~ opt.fsi
    BY <1>a, <2>0, <2>2 DEF PutBack
  <2> QED
    BY <1>2, <2>1, <2>2
<1>5. DriverTypeOK' /\ RunShape' /\ LinesOut' /\ LinesIn'
  <2>1. next' \in 1..(Len(seeds) + 1) /\ reported' \in SUBSET (1..(next' - 1))
    BY <1>a, <1>1, <1>2
  <2>2. 0 \in timers' /\ TurnOK(timers', opt.fsi) /\ counters' \in 0..MostCounters(opt.fsi)
    BY <1>a, <1>1
  <2>3. step' \in {"query", "measure", "view"} /\ step \in {"query", "measure", "view"}
        /\ step' \notin {"measure", "view"}
    BY <1>a
  <2> QED
    BY <1>a, <1>4, <2>1, <2>2, <2>3, LoopKeeps
<1>6. MeasuredAt' = MeasuredAt
  <2>1. NumMeasured' = NumMeasured
    BY <1>a, <1>2 DEF NumMeasured
  <2> QED
    BY <1>a, <2>1 DEF MeasuredAt
<1>7. SavesScores'
  BY <1>a, <1>1 DEF SavesScores
<1> QED
  BY <1>1, <1>2, <1>3, <1>4, <1>5, <1>6, <1>7 DEF AfterView

LEMMA ViewKeeps == DriverInv /\ View => DriverInv'
<1> SUFFICES ASSUME DriverInv, View PROVE DriverInv'
  OBVIOUS
<1> DEFINE e == [query |-> vq, of |-> swing'.of, right |-> swing'.own]
<1>1. /\ algo' = algo /\ seedFile' = seedFile /\ files' = files /\ torn' = torn /\ runs' = runs
      /\ opt' = opt /\ out' = out /\ needHeader' = needHeader
      /\ step = "view" /\ step' = "query" /\ next' = next + 1
      /\ swing' = PutBack /\ saved' = Append(saved, e)
      /\ built' = built /\ records' = records /\ reported' = reported
      /\ seeds' = seeds /\ queryCount' = queryCount /\ timers' = timers /\ counters' = counters
  BY DEF View, process, disk, costs, queries, output, Entry
<1>2. /\ DriverTypeOK' /\ RunShape' /\ LinesOut' /\ LinesIn'
      /\ MeasuredAt' = MeasuredAt
      /\ next \in 1..Len(seeds) /\ seeds \in Seq(Items) /\ vq = seeds[next] /\ vq \in Items
      /\ reported \in SUBSET (1..(next - 1)) /\ InLoop /\ SavesScores /\ SavesScores'
      /\ swing'.own /\ swing'.own \in BOOLEAN
      /\ swing'.of = <<vq>> \/ (vq \in Unpacked /\ swing'.of = << >>)
  <2>1. GoesOn
    BY <1>1 DEF GoesOn
  <2>2. AfterView
    BY <2>1, GoesOnKeeps
  <2> QED
    BY <2>2 DEF AfterView
<1>3. e \in Entries /\ e.query = vq /\ ((e.of = <<e.query>> /\ e.right) \/ e.query \in Unpacked)
  <2>1. <<vq>> \in Seq(Items) /\ << >> \in Seq(Items)
    BY <1>2
  <2>2. swing'.of \in Seq(Items)
    BY <1>2, <2>1
  <2>3. e.query = vq /\ e.of = swing'.of /\ e.right = swing'.own
    OBVIOUS
  <2>4. e \in Entries
    BY <1>2, <2>2 DEF Entries
  <2> HIDE DEF e
  <2> QED
    BY <1>2, <2>3, <2>4
<1> HIDE DEF e
<1>4. /\ records \in Seq(Entries) /\ saved \in Seq(Entries)
      /\ Own(records, Unpacked) /\ Own(saved, Unpacked)
      /\ QueriesOf(records) = Picked(seeds, MeasuredAt) /\ QueriesOf(saved) = Picked(seeds, SavedAt)
  BY <1>2 DEF DriverInv, Recorded
<1>5. /\ saved' \in Seq(Entries) /\ Own(saved', Unpacked)
      /\ QueriesOf(saved') = Append(QueriesOf(saved), vq)
  <2>1. /\ Append(saved, e) \in Seq(Entries) /\ Own(Append(saved, e), Unpacked)
        /\ QueriesOf(Append(saved, e)) = Append(QueriesOf(saved), e.query)
    BY <1>3, <1>4, EntryAdded
  <2> QED
    BY <1>1, <1>3, <2>1
<1>6. SavedAt = (1..(next - 1)) \ reported /\ SavedAt' = (1..next) \ reported
  <2>1. next' - 1 = next
    BY <1>1, <1>2
  <2> QED
    BY <1>1, <1>2, <2>1 DEF SavedAt
<1>7. Picked(seeds, SavedAt') = Append(Picked(seeds, SavedAt), vq)
  <2>1. SavedAt' = SavedAt \cup {next} /\ SavedAt \in SUBSET (1..(next - 1))
    BY <1>2, <1>6
  <2>2. Picked(seeds, SavedAt \cup {next}) = Append(Picked(seeds, SavedAt), seeds[next])
    BY <1>2, <2>1, PickedGrows
  <2> QED
    BY <1>2, <2>1, <2>2
<1>8. Recorded'
  <2>1. Unpacked' = Unpacked
    BY <1>1 DEF Unpacked
  <2>2. /\ records' \in Seq(Entries) /\ saved' \in Seq(Entries)
        /\ Own(saved', Unpacked') /\ Own(records', Unpacked')
    BY <1>1, <1>4, <1>5, <2>1
  <2>3. QueriesOf(records') = Picked(seeds', MeasuredAt') /\ QueriesOf(saved') = Picked(seeds', SavedAt')
    BY <1>1, <1>2, <1>4, <1>5, <1>7
  <2> QED
    BY <2>2, <2>3 DEF Recorded
<1> QED
  BY <1>2, <1>8 DEF DriverInv

LEMMA ViewUnopenedKeeps == DriverInv /\ ViewUnopened => DriverInv'
<1> SUFFICES ASSUME DriverInv, ViewUnopened PROVE DriverInv'
  OBVIOUS
<1>1. /\ algo' = algo /\ seedFile' = seedFile /\ files' = files /\ torn' = torn /\ runs' = runs
      /\ opt' = opt /\ out' = out /\ needHeader' = needHeader
      /\ step = "view" /\ step' = "query" /\ next' = next + 1
      /\ swing' = PutBack /\ reported' = reported \cup {next}
      /\ built' = built /\ records' = records /\ saved' = saved
      /\ seeds' = seeds /\ queryCount' = queryCount /\ timers' = timers /\ counters' = counters
  BY DEF ViewUnopened, process, disk, costs, queries, output
<1>2. /\ DriverTypeOK' /\ RunShape' /\ LinesOut' /\ LinesIn'
      /\ MeasuredAt' = MeasuredAt
      /\ next \in 1..Len(seeds) /\ seeds \in Seq(Items)
      /\ reported \in SUBSET (1..(next - 1)) /\ InLoop /\ SavesScores /\ SavesScores'
  <2>1. GoesOn
    BY <1>1 DEF GoesOn
  <2>2. AfterView
    BY <2>1, GoesOnKeeps
  <2> QED
    BY <2>2 DEF AfterView
<1>3. SavedAt' = SavedAt
  <2>1. next' - 1 = next
    BY <1>1, <1>2
  <2>2. (1..next) \ (reported \cup {next}) = (1..(next - 1)) \ reported
    BY <1>2
  <2> QED
    BY <1>1, <1>2, <2>1, <2>2 DEF SavedAt
<1>4. Recorded'
  BY <1>1, <1>2, <1>3, RecordedStays
<1> QED
  BY <1>2, <1>4 DEF DriverInv

-----------------------------------------------------------------------------
(* Result files.                                                           *)

LEMMA LineKindsBack ==
    ASSUME NEW names, NEW fsi
    PROVE  /\ names = MetricNames(fsi) => LineFits("metric", names, fsi)
           /\ names = RecordNames(fsi) => LineFits("record", names, fsi)
           /\ (\E n \in 0..MostCounters(fsi) : names = ResultHeader(fsi) \o CounterNames(fsi, n))
                 => LineFits("count", names, fsi)
           /\ (\E T \in SUBSET AllTimers(fsi) :
                  TurnOK(T, fsi) /\ names = ResultHeader(fsi) \o TimerNames(T))
                 => LineFits("time", names, fsi)
BY Zenon DEF LineFits

LEMMA LinesMade ==
    ASSUME opt.fsi \in BOOLEAN, TurnOK(timers, opt.fsi), counters \in 0..MostCounters(opt.fsi),
           records \in Seq(Entries)
    PROVE  /\ MetricLines \o CostLines \in Seq(OutLine(opt.fsi))
           /\ MetricLines \o CostLines # << >>
<1> DEFINE fsi == opt.fsi
           S == OutLine(fsi)
           N == Len(records)
           a == <<"metric", MetricNames(fsi)>>
           b == <<"record", RecordNames(fsi)>>
           c == <<"count", ResultHeader(fsi) \o CounterNames(fsi, counters)>>
           d == <<"time", ResultHeader(fsi) \o TimerNames(timers)>>
<1>1. ASSUME NEW f \in FileNames, NEW names, LineFits(f, names, fsi) PROVE <<f, names>> \in S
  <2>1. names \in Seq(Name)
    BY <1>1, LineFacts
  <2> QED
    BY <1>1, <2>1 DEF OutLine
<1>2. a \in S
  <2>1. LineFits("metric", MetricNames(fsi), fsi)
    BY LineKindsBack
  <2> QED
    BY <1>1, <2>1 DEF FileNames
<1>3. b \in S
  <2>1. LineFits("record", RecordNames(fsi), fsi)
    BY LineKindsBack
  <2> QED
    BY <1>1, <2>1 DEF FileNames
<1>4. c \in S
  <2>1. LineFits("count", ResultHeader(fsi) \o CounterNames(fsi, counters), fsi)
    BY LineKindsBack
  <2> QED
    BY <1>1, <2>1 DEF FileNames
<1>5. d \in S
  <2>1. timers \in SUBSET AllTimers(fsi) /\ TurnOK(timers, fsi)
    BY TimersFacts
  <2>2. LineFits("time", ResultHeader(fsi) \o TimerNames(timers), fsi)
    BY <2>1, LineKindsBack
  <2> QED
    BY <1>1, <2>2 DEF FileNames
<1>6. N \in Nat
  OBVIOUS
<1>7. MetricLines = <<a>> \o [r \in 1..N |-> b] /\ CostLines = <<c, d>>
  BY DEF MetricLines, CostLines
<1> HIDE DEF S, a, b, c, d, N
<1>8. [r \in 1..N |-> b] \in Seq(S) /\ <<a>> \in Seq(S) /\ <<c, d>> \in Seq(S) /\ Len(<<c, d>>) = 2
  BY <1>2, <1>3, <1>4, <1>5, <1>6
<1>9. MetricLines \in Seq(S) /\ CostLines \in Seq(S) /\ Len(CostLines) = 2
  BY <1>7, <1>8, ConcatProperties
<1>10. /\ MetricLines \o CostLines \in Seq(S)
       /\ Len(MetricLines \o CostLines) = Len(MetricLines) + Len(CostLines)
  BY <1>9, ConcatProperties
<1>11. Len(MetricLines) \in Nat
  BY <1>9
<1>12. MetricLines \o CostLines # << >>
  <2> DEFINE x == MetricLines \o CostLines
  <2>1. Len(x) >= 2
    BY <1>9, <1>10, <1>11
  <2> HIDE DEF x
  <2> QED
    BY <2>1, <1>10 DEF x
<1> QED
  BY <1>10, <1>12 DEF S

LEMMA EndQueriesKeeps == DriverInv /\ EndQueries => DriverInv'
<1> SUFFICES ASSUME DriverInv, EndQueries PROVE DriverInv'
  OBVIOUS
<1>1. CASE algo = "Truth"
  BY <1>1, EndersKeep DEF EndQueries
<1>2. CASE algo # "Truth"
  <2>1. /\ algo' = algo /\ seedFile' = seedFile /\ files' = files /\ torn' = torn /\ runs' = runs
        /\ opt' = opt /\ out' = MetricLines \o CostLines /\ needHeader' = needHeader
        /\ step = "query" /\ next > Len(seeds) /\ step' = "open"
        /\ seeds' = seeds /\ queryCount' = queryCount /\ built' = built /\ next' = next /\ swing' = swing
        /\ records' = records /\ saved' = saved /\ reported' = reported
        /\ timers' = timers /\ counters' = counters
    BY <1>2 DEF EndQueries, disk, queries, results, costs
  <2>2. /\ opt \in Options /\ seeds \in Seq(Items) /\ built = Structures /\ Known /\ next >= 1
        /\ 0 \in timers /\ TurnOK(timers, opt.fsi) /\ counters \in 0..MostCounters(opt.fsi)
        /\ reported \in SUBSET (1..(next - 1)) /\ InLoop
        /\ next \in 0..(Len(seeds) + 1) /\ records \in Seq(Entries) /\ needHeader = FALSE
        /\ (opt.count >= 1 => queryCount = Len(seeds))
    BY <2>1 DEF DriverInv, DriverTypeOK, RunShape, InLoop, Recorded, LinesOut
  <2>3. opt.fsi \in BOOLEAN /\ next = Len(seeds) + 1
    BY <2>1, <2>2 DEF Options
  <2>4. out' \in Seq(OutLine(opt.fsi)) /\ out' # << >>
    BY <2>1, <2>2, <2>3, LinesMade
  <2>5. DriverTypeOK'
    <3>1. \A f \in DOMAIN files \ torn : files[f] # << >>
      BY <2>1 DEF DriverInv, DriverTypeOK
    <3> QED
      BY <2>1, <2>2, <3>1 DEF DriverInv, DriverTypeOK
  <2>6. RunShape'
    <3>1. TurnOK(timers, opt.fsi)' /\ (counters \in 0..MostCounters(opt.fsi))'
      BY <2>1, <2>2 DEF TurnOK, CallsKasc, InTurn, AllTimers, MostCounters
    <3>2. Structures' = Structures /\ (Known' <=> Known)
      BY <2>1 DEF Structures, Known
    <3> QED
      BY <1>2, <2>1, <2>2, <2>3, <3>1, <3>2 DEF RunShape, InLoop
  <2>7. Recorded'
    <3>1. NumMeasured' = NumMeasured
      BY <2>1 DEF NumMeasured
    <3> QED
      BY <2>1, <2>2, <3>1, PositionsStay, RecordedStays
  <2>8. LinesOut'
    <3>1. OutLine(opt.fsi)' = OutLine(opt.fsi)
      BY <2>1, LinesSame
    <3> QED
      BY <2>1, <2>2, <2>4, <3>1 DEF LinesOut
  <2>9. LinesIn'
    BY <2>1, LinesInStay DEF DriverInv
  <2> QED
    BY <2>5, <2>6, <2>7, <2>8, <2>9 DEF DriverInv
<1> QED
  BY <1>1, <1>2

\* While files are written, nothing is measured.
LEMMA WritingKeeps ==
    ASSUME DriverInv, step \in {"open", "close"}, step' \in {"open", "close"},
           algo' = algo, seedFile' = seedFile, torn' = torn, runs' = runs, opt' = opt,
           seeds' = seeds, queryCount' = queryCount, built' = built, next' = next, swing' = swing,
           records' = records, saved' = saved, reported' = reported, timers' = timers,
           counters' = counters
    PROVE  RunShape' /\ Recorded'
<1>1. /\ TurnOK(timers, opt.fsi) /\ counters \in 0..MostCounters(opt.fsi) /\ 0 \in timers
      /\ built = Structures /\ Known /\ next >= 1 /\ next = Len(seeds) + 1 /\ algo # "Truth"
      /\ (opt.count >= 1 => queryCount = Len(seeds)) /\ reported \in SUBSET (1..(next - 1))
      /\ InLoop
  BY DEF DriverInv, RunShape, InLoop
<1>2. RunShape'
  <2>1. TurnOK(timers, opt.fsi)' /\ (counters \in 0..MostCounters(opt.fsi))'
    BY <1>1 DEF TurnOK, CallsKasc, InTurn, AllTimers, MostCounters
  <2>2. Structures' = Structures /\ (Known' <=> Known)
    BY DEF Structures, Known
  <2>3. InLoop' /\ step' \notin {"unknown", "filter", "prepare", "measure", "view"}
    BY DEF InLoop
  <2> QED
    BY <1>1, <2>1, <2>2, <2>3 DEF RunShape
<1>3. Recorded'
  <2>1. NumMeasured' = NumMeasured
    BY DEF NumMeasured
  <2> QED
    BY <1>1, <2>1, PositionsStay, RecordedStays
<1> QED
  BY <1>2, <1>3

\* The first line that is still to be written, and the others.
LEMMA OutFacts ==
    ASSUME DriverInv, out # << >>
    PROVE  /\ out[1] \in OutLine(opt.fsi) /\ out[1][1] \in FileNames /\ out[1][2] \in Seq(Name)
           /\ LineFits(out[1][1], out[1][2], opt.fsi) /\ opt.fsi \in BOOLEAN
           /\ Tail(out) \in Seq(OutLine(opt.fsi))
<1>1. out \in Seq(OutLine(opt.fsi)) /\ step # "ended"
  BY DEF DriverInv, LinesOut
<1>2. Len(out) \in Nat /\ Len(out) >= 1
  BY <1>1
<1>3. out[1] \in OutLine(opt.fsi) /\ Tail(out) \in Seq(OutLine(opt.fsi))
  BY <1>1, <1>2
<1>4. opt.fsi \in BOOLEAN
  BY <1>1 DEF DriverInv, DriverTypeOK, Options
<1> QED
  BY <1>3, <1>4 DEF OutLine

LEMMA CsvUnopenedKeeps == DriverInv /\ CsvUnopened => DriverInv'
<1> SUFFICES ASSUME DriverInv, CsvUnopened PROVE DriverInv'
  OBVIOUS
<1>1. /\ algo' = algo /\ seedFile' = seedFile /\ files' = files /\ torn' = torn /\ runs' = runs
      /\ opt' = opt /\ out' = Tail(out) /\ needHeader' = needHeader
      /\ step = "open" /\ step' = "open" /\ out # << >>
      /\ seeds' = seeds /\ queryCount' = queryCount /\ built' = built /\ next' = next /\ swing' = swing
      /\ records' = records /\ saved' = saved /\ reported' = reported
      /\ timers' = timers /\ counters' = counters
  BY DEF CsvUnopened, process, disk, queries, results, costs
<1>2. RunShape' /\ Recorded'
  BY <1>1, WritingKeeps
<1>3. DriverTypeOK'
  <2>1. \A f \in DOMAIN files \ torn : files[f] # << >>
    BY <1>1 DEF DriverInv, DriverTypeOK
  <2> QED
    BY <1>1, <2>1 DEF DriverInv, DriverTypeOK
<1>4. LinesOut'
  <2>1. OutLine(opt.fsi)' = OutLine(opt.fsi)
    BY <1>1, LinesSame
  <2>2. out' \in Seq(OutLine(opt.fsi))
    BY <1>1, OutFacts
  <2>3. needHeader = FALSE
    BY <1>1 DEF DriverInv, DriverTypeOK, LinesOut
  <2> QED
    BY <1>1, <2>1, <2>2, <2>3 DEF LinesOut
<1>5. LinesIn'
  BY <1>1, LinesInStay DEF DriverInv
<1> QED
  BY <1>2, <1>3, <1>4, <1>5 DEF DriverInv

LEMMA OpenCsvKeeps == DriverInv /\ OpenCsv => DriverInv'
<1> SUFFICES ASSUME DriverInv, OpenCsv PROVE DriverInv'
  OBVIOUS
<1> DEFINE f == out[1][1]
<1>1. /\ algo' = algo /\ seedFile' = seedFile /\ torn' = torn /\ runs' = runs
      /\ opt' = opt /\ out' = out
      /\ files' = [g \in DOMAIN files \cup {f} |-> IF g \in DOMAIN files THEN files[g] ELSE << >>]
      /\ needHeader' = CheckBefore(f)
      /\ step = "open" /\ step' = "close" /\ out # << >>
      /\ seeds' = seeds /\ queryCount' = queryCount /\ built' = built /\ next' = next /\ swing' = swing
      /\ records' = records /\ saved' = saved /\ reported' = reported
      /\ timers' = timers /\ counters' = counters
  BY DEF OpenCsv, process, queries, results, costs
<1>2. RunShape' /\ Recorded'
  BY <1>1, WritingKeeps
<1>3. /\ f \in FileNames /\ out \in Seq(OutLine(opt.fsi))
      /\ torn \subseteq DOMAIN files /\ DOMAIN files \subseteq FileNames
      /\ \A g \in DOMAIN files \ torn : files[g] # << >>
  BY <1>1, OutFacts DEF DriverInv, DriverTypeOK, LinesOut
<1> HIDE DEF f
<1>4. /\ DOMAIN files' = DOMAIN files \cup {f}
      /\ \A g \in DOMAIN files : files'[g] = files[g]
      /\ f \notin DOMAIN files => files'[f] = << >>
  BY <1>1
<1>5. needHeader' = (f \notin DOMAIN files) /\ needHeader' \in BOOLEAN /\ f = out'[1][1]
  BY <1>1 DEF CheckBefore, f
<1>6. DriverTypeOK'
  <2>1. torn' \subseteq DOMAIN files' /\ DOMAIN files' \subseteq FileNames
    BY <1>1, <1>3, <1>4
  <2>2. ASSUME NEW g \in DOMAIN files' \ torn', files'[g] = << >>
        PROVE  step' = "close" /\ g = f /\ needHeader'
    <3>1. g \notin DOMAIN files
      BY <1>1, <1>3, <1>4, <2>2
    <3> QED
      BY <1>1, <1>4, <1>5, <3>1
  <2>3. \A g \in DOMAIN files' \ torn' :
           files'[g] = << >> => step' = "close" /\ g = out'[1][1] /\ needHeader'
    BY <1>5, <2>2
  <2> QED
    BY <1>1, <1>5, <2>1, <2>3 DEF DriverInv, DriverTypeOK
<1>7. LinesOut'
  <2>1. OutLine(opt.fsi)' = OutLine(opt.fsi)
    BY <1>1, LinesSame
  <2>2. f \in DOMAIN files' /\ (needHeader' => files'[f] = << >> /\ f \notin torn')
    BY <1>1, <1>3, <1>4, <1>5
  <2> QED
    BY <1>1, <1>3, <1>5, <2>1, <2>2 DEF LinesOut
<1>8. LinesIn'
  <2>1. files' \in [DOMAIN files' -> Seq(Line)]
    <3>1. \A g \in DOMAIN files : files[g] \in Seq(Line)
      BY DEF DriverInv, LinesIn
    <3>2. << >> \in Seq(Line)
      OBVIOUS
    <3> QED
      BY <1>1, <1>4, <3>1, <3>2
  <2>2. \A g, names, fsi : LineFits(g, names, fsi)' <=> LineFits(g, names, fsi)
    BY <1>1, LinesSame
  <2>3. ASSUME NEW g \in DOMAIN files', NEW n \in 1..Len(files'[g])
        PROVE  /\ \E fsi \in BOOLEAN : LineFits(g, files'[g][n].names, fsi)
               /\ g \notin torn => (files'[g][n].header <=> n = 1)
    <3>1. g \in DOMAIN files
      <4>1. Len(<< >>) = 0
        OBVIOUS
      <4> QED
        BY <1>4, <4>1
    <3> QED
      BY <1>4, <3>1 DEF DriverInv, LinesIn
  <2>4. \A g \in DOMAIN files' : \A n \in 1..Len(files'[g]) :
           \E fsi \in BOOLEAN : LineFits(g, files[g][n].names, fsi)'
    <3> TAKE g \in DOMAIN files'
    <3> TAKE n \in 1..Len(files'[g])
    <3>1. PICK fsi \in BOOLEAN : LineFits(g, files'[g][n].names, fsi)
      BY <2>3
    <3>2. LineFits(g, files[g][n].names, fsi)'
      BY <2>2, <3>1
    <3> QED
      BY <3>2
  <2>5. \A g \in DOMAIN files' : \A n \in 1..Len(files'[g]) :
           g \notin torn' => (files'[g][n].header <=> n = 1)
    <3> TAKE g \in DOMAIN files'
    <3> TAKE n \in 1..Len(files'[g])
    <3>1. g \notin torn => (files'[g][n].header <=> n = 1)
      BY <2>3
    <3> QED
      BY <1>1, <3>1
  <2> QED
    BY <2>1, <2>4, <2>5 DEF LinesIn
<1> QED
  BY <1>2, <1>6, <1>7, <1>8 DEF DriverInv

\* t is s with a line of these names behind it, and a header before that if it is new.
LineAdded(s, t, names, new) ==
    /\ t \in Seq(Line) /\ Len(t) >= 1 /\ Len(t) >= Len(s)
    /\ \A n \in 1..Len(s) : t[n] = s[n]
    /\ \A n \in (Len(s) + 1)..Len(t) : /\ t[n].names = names
                                       /\ t[n].header <=> n = 1 /\ new

LEMMA CsvLine ==
    ASSUME NEW s \in Seq(Line), NEW names \in Seq(Name), NEW new \in BOOLEAN, new => s = << >>,
           NEW head, head = [header |-> TRUE, names |-> names],
           NEW line, line = [header |-> FALSE, names |-> names],
           NEW t, t = (s \o IF new THEN <<head>> ELSE << >>) \o <<line>>
    PROVE  LineAdded(s, t, names, new)
<1> DEFINE h == IF new THEN <<head>> ELSE << >>
           u == s \o h
           l == <<line>>
<1>1. line \in Line /\ head \in Line /\ line.names = names /\ head.names = names
      /\ line.header = FALSE /\ head.header = TRUE
  BY DEF Line
<1>2. t = u \o l
  OBVIOUS
<1>3. h \in Seq(Line) /\ l \in Seq(Line) /\ Len(l) = 1 /\ l[1] = line
      /\ Len(s) \in Nat
  BY <1>1
<1>4. Len(h) = (IF new THEN 1 ELSE 0) /\ (new => h[1] = head)
  OBVIOUS
<1> HIDE DEF h, l
<1>5. /\ u \in Seq(Line) /\ Len(u) = Len(s) + Len(h)
      /\ \A k \in 1..(Len(s) + Len(h)) : u[k] = IF k <= Len(s) THEN s[k] ELSE h[k - Len(s)]
  BY <1>3, ConcatProperties
<1> HIDE DEF u
<1>6. /\ t \in Seq(Line) /\ Len(t) = Len(u) + 1 /\ Len(u) \in Nat
      /\ \A k \in 1..(Len(u) + 1) : t[k] = IF k <= Len(u) THEN u[k] ELSE l[k - Len(u)]
  <2>0. u \in Seq(Line) /\ l \in Seq(Line)
    BY <1>3, <1>5
  <2>1. /\ u \o l \in Seq(Line) /\ Len(u \o l) = Len(u) + Len(l)
        /\ \A k \in 1..(Len(u) + Len(l)) :
              (u \o l)[k] = IF k <= Len(u) THEN u[k] ELSE l[k - Len(u)]
    BY ONLY <2>0, ConcatProperties
  <2>2. Len(l) = 1 /\ Len(u) \in Nat
    BY ONLY <1>3, <2>0
  <2>3. t = u \o l
    BY <1>2
  <2> QED
    BY ONLY <2>1, <2>2, <2>3
<1>7. (\A k \in 1..Len(u) : t[k] = u[k]) /\ t[Len(u) + 1] = line
  <2>1. Len(u) + 1 \in 1..(Len(u) + 1) /\ ~ (Len(u) + 1 <= Len(u)) /\ (Len(u) + 1) - Len(u) = 1
    BY <1>6
  <2>2. t[Len(u) + 1] = l[(Len(u) + 1) - Len(u)]
    BY <1>6, <2>1
  <2>3. \A k \in 1..Len(u) : k \in 1..(Len(u) + 1) /\ k <= Len(u)
    BY <1>6
  <2> QED
    BY <1>3, <1>6, <2>1, <2>2, <2>3
<1>8. CASE new
  <2>1. Len(s) = 0 /\ Len(h) = 1 /\ Len(u) = 1 /\ Len(t) = 2
    BY <1>4, <1>5, <1>6, <1>8
  <2>2. u[1] = head
    <3>1. 1 \in 1..(Len(s) + Len(h)) /\ ~ (1 <= Len(s)) /\ 1 - Len(s) = 1
      BY <2>1
    <3>2. u[1] = h[1 - Len(s)]
      BY <1>5, <3>1
    <3> QED
      BY <1>4, <1>8, <3>1, <3>2
  <2>3. t[1] = head /\ t[2] = line
    <3>1. 1 \in 1..Len(u) /\ Len(u) + 1 = 2
      BY <2>1
    <3>2. t[1] = u[1] /\ t[2] = line
      BY ONLY <1>7, <3>1
    <3> QED
      BY ONLY <2>2, <3>2
  <2>4. \A n \in (Len(s) + 1)..Len(t) : n = 1 \/ n = 2
    BY <2>1
  <2>5. \A n \in 1..Len(s) : t[n] = s[n]
    BY <2>1
  <2>6. \A n \in (Len(s) + 1)..Len(t) : t[n].names = names /\ (t[n].header <=> n = 1 /\ new)
    BY <1>1, <1>8, <2>3, <2>4
  <2> QED
    BY <1>6, <2>1, <2>5, <2>6 DEF LineAdded
<1>9. CASE ~ new
  <2>1. Len(h) = 0 /\ Len(u) = Len(s) /\ Len(t) = Len(s) + 1
    BY <1>3, <1>4, <1>5, <1>6, <1>9
  <2>2. \A k \in 1..Len(s) : u[k] = s[k]
    BY <1>3, <1>5, <2>1
  <2>3. \A k \in 1..Len(s) : t[k] = s[k]
    BY <1>7, <2>1, <2>2
  <2>4. \A n \in (Len(s) + 1)..Len(t) : n = Len(s) + 1
    BY <1>3, <2>1
  <2>5. \A n \in (Len(s) + 1)..Len(t) : t[n].names = names /\ (t[n].header <=> n = 1 /\ new)
    BY <1>1, <1>7, <1>9, <2>1, <2>4
  <2> QED
    BY <1>3, <1>6, <2>1, <2>3, <2>5 DEF LineAdded
<1> QED
  BY <1>8, <1>9

LEMMA CloseCsvKeeps == DriverInv /\ CloseCsv => DriverInv'
<1> SUFFICES ASSUME DriverInv, CloseCsv PROVE DriverInv'
  OBVIOUS
<1> DEFINE f == out[1][1]
           names == out[1][2]
           line == [header |-> FALSE, names |-> names]
           head == [header |-> TRUE, names |-> names]
           t == (files[f] \o IF needHeader THEN <<head>> ELSE << >>) \o <<line>>
<1>1. /\ algo' = algo /\ seedFile' = seedFile /\ torn' = torn /\ runs' = runs
      /\ opt' = opt /\ out' = Tail(out) /\ files' = [files EXCEPT ![f] = t]
      /\ needHeader' = FALSE
      /\ step = "close" /\ step' = "open"
      /\ seeds' = seeds /\ queryCount' = queryCount /\ built' = built /\ next' = next /\ swing' = swing
      /\ records' = records /\ saved' = saved /\ reported' = reported
      /\ timers' = timers /\ counters' = counters
  BY DEF CloseCsv, queries, results, costs
<1>2. RunShape' /\ Recorded'
  BY <1>1, WritingKeeps
<1>3. /\ out # << >> /\ f \in DOMAIN files /\ DOMAIN files \subseteq FileNames /\ torn \subseteq DOMAIN files
      /\ needHeader \in BOOLEAN
      /\ (needHeader => files[f] = << >> /\ f \notin torn)
      /\ (\A g \in DOMAIN files \ torn : files[g] = << >> => g = f /\ needHeader)
      /\ files \in [DOMAIN files -> Seq(Line)]
  BY <1>1 DEF DriverInv, DriverTypeOK, LinesOut, LinesIn
<1>4. /\ names \in Seq(Name) /\ LineFits(f, names, opt.fsi) /\ opt.fsi \in BOOLEAN
      /\ Tail(out) \in Seq(OutLine(opt.fsi))
  BY <1>3, OutFacts
<1> HIDE DEF f, names
<1>5. /\ t \in Seq(Line) /\ Len(t) >= 1 /\ Len(t) >= Len(files[f])
      /\ \A n \in 1..Len(files[f]) : t[n] = files[f][n]
      /\ \A n \in (Len(files[f]) + 1)..Len(t) : /\ t[n].names = names
                                                /\ t[n].header <=> n = 1 /\ needHeader
  <2>1. files[f] \in Seq(Line)
    BY <1>3
  <2>2. head = [header |-> TRUE, names |-> names] /\ line = [header |-> FALSE, names |-> names]
        /\ t = (files[f] \o IF needHeader THEN <<head>> ELSE << >>) \o <<line>>
    OBVIOUS
  <2> HIDE DEF head, line, t
  <2>3. LineAdded(files[f], t, names, needHeader)
    BY <1>3, <1>4, <2>1, <2>2, CsvLine
  <2> QED
    BY <2>3 DEF LineAdded
<1> HIDE DEF t
<1>6. /\ DOMAIN files' = DOMAIN files /\ files'[f] = t
      /\ \A g \in DOMAIN files : g # f => files'[g] = files[g]
  BY <1>1, <1>3
<1>7. t # << >>
  BY <1>5
<1>8. DriverTypeOK'
  <2>1. \A g \in DOMAIN files' \ torn' : files'[g] # << >>
    BY <1>1, <1>3, <1>6, <1>7
  <2> QED
    BY <1>1, <1>3, <1>6, <2>1 DEF DriverInv, DriverTypeOK
<1>9. LinesOut'
  <2>1. OutLine(opt.fsi)' = OutLine(opt.fsi)
    BY <1>1, LinesSame
  <2> QED
    BY <1>1, <1>4, <2>1 DEF LinesOut
<1>10. LinesIn'
  <2>1. files' \in [DOMAIN files' -> Seq(Line)]
    BY <1>1, <1>3, <1>5, <1>6
  <2>2. \A g, x, fsi : LineFits(g, x, fsi)' <=> LineFits(g, x, fsi)
    BY <1>1, LinesSame
  <2>3. \A g \in DOMAIN files : \A n \in 1..Len(files[g]) :
          /\ \E fsi \in BOOLEAN : LineFits(g, files[g][n].names, fsi)
          /\ g \notin torn => (files[g][n].header <=> n = 1)
    BY DEF DriverInv, LinesIn
  <2>4. Len(files[f]) \in Nat /\ Len(t) \in Nat
    BY <1>3, <1>5
  <2>5. ASSUME NEW n \in 1..Len(t)
        PROVE  /\ \E fsi \in BOOLEAN : LineFits(f, t[n].names, fsi)
               /\ f \notin torn => (t[n].header <=> n = 1)
    <3>1. CASE n \in 1..Len(files[f])
      <4>1. t[n] = files[f][n]
        BY <1>5, <3>1
      <4> QED
        BY <1>3, <2>3, <3>1, <4>1
    <3>2. CASE n \notin 1..Len(files[f])
      <4>1. n \in (Len(files[f]) + 1)..Len(t)
        BY <2>4, <3>2
      <4>2. t[n].names = names /\ (t[n].header <=> n = 1 /\ needHeader)
        BY <1>5, <4>1
      <4>3. f \notin torn /\ n = 1 => needHeader
        <5>1. n = 1 => Len(files[f]) = 0
          BY <2>4, <4>1
        <5>2. Len(files[f]) = 0 => files[f] = << >>
          BY <1>3
        <5> QED
          BY <1>3, <5>1, <5>2
      <4> QED
        BY <1>4, <4>2, <4>3
    <3> QED
      BY <3>1, <3>2
  <2>6. ASSUME NEW g \in DOMAIN files', NEW n \in 1..Len(files'[g])
        PROVE  /\ \E fsi \in BOOLEAN : LineFits(g, files'[g][n].names, fsi)
               /\ g \notin torn => (files'[g][n].header <=> n = 1)
    <3>1. CASE g = f
      BY <1>6, <2>5, <3>1
    <3>2. CASE g # f
      BY <1>6, <2>3, <3>2
    <3> QED
      BY <3>1, <3>2
  <2>7. \A g \in DOMAIN files' : \A n \in 1..Len(files'[g]) :
           \E fsi \in BOOLEAN : LineFits(g, files[g][n].names, fsi)'
    <3> TAKE g \in DOMAIN files'
    <3> TAKE n \in 1..Len(files'[g])
    <3>1. PICK fsi \in BOOLEAN : LineFits(g, files'[g][n].names, fsi)
      BY <2>6
    <3>2. LineFits(g, files[g][n].names, fsi)'
      BY <2>2, <3>1
    <3> QED
      BY <3>2
  <2>8. \A g \in DOMAIN files' : \A n \in 1..Len(files'[g]) :
           g \notin torn' => (files'[g][n].header <=> n = 1)
    BY <1>1, <2>6
  <2> QED
    BY <2>1, <2>7, <2>8 DEF LinesIn
<1> QED
  BY <1>2, <1>8, <1>9, <1>10 DEF DriverInv

-----------------------------------------------------------------------------
(* Runs of the program: the theorems.                                      *)

LEMMA NothingKeeps == DriverInv /\ UNCHANGED driverVars => DriverInv'
<1> SUFFICES ASSUME DriverInv, UNCHANGED driverVars PROVE DriverInv'
  OBVIOUS
<1> USE DEF driverVars, disk, queries, results, costs, output
<1>1. DriverTypeOK'
  BY DEF DriverInv, DriverTypeOK
<1>2. RunShape'
  <2>1. Structures' = Structures /\ (Known' <=> Known) /\ (InLoop' <=> InLoop) /\ vq' = vq
    BY DEF Structures, Known, InLoop, vq
  <2>2. TurnOK(timers, opt.fsi)' <=> TurnOK(timers, opt.fsi)
    BY DEF TurnOK, CallsKasc, InTurn, AllTimers
  <2>3. MostCounters(opt.fsi)' = MostCounters(opt.fsi)
    BY DEF MostCounters
  <2>4. Unpacked' = Unpacked /\ (SavesScores' <=> SavesScores)
    BY DEF Unpacked, SavesScores
  <2> QED
    BY <2>1, <2>2, <2>3, <2>4 DEF DriverInv, RunShape
<1>3. Recorded'
  <2>1. NumMeasured' = NumMeasured /\ (InLoop' <=> InLoop)
    BY DEF NumMeasured, InLoop
  <2>2. MeasuredAt' = MeasuredAt /\ SavedAt' = SavedAt
    BY <2>1, PositionsStay
  <2>3. Unpacked' = Unpacked
    BY DEF Unpacked
  <2>4. /\ records' \in Seq(Entries) /\ saved' \in Seq(Entries)
        /\ Own(records', Unpacked') /\ Own(saved', Unpacked')
    BY <2>3 DEF DriverInv, Recorded
  <2>5. InLoop' => /\ QueriesOf(records') = Picked(seeds', MeasuredAt')
                   /\ QueriesOf(saved') = Picked(seeds', SavedAt')
    BY <2>1, <2>2 DEF DriverInv, Recorded
  <2> QED
    BY <2>4, <2>5 DEF Recorded
<1>4. LinesOut'
  <2>1. OutLine(opt.fsi)' = OutLine(opt.fsi)
    BY LinesSame
  <2> QED
    BY <2>1 DEF DriverInv, LinesOut
<1>5. LinesIn'
  BY LinesInStay DEF DriverInv
<1> QED
  BY <1>1, <1>2, <1>3, <1>4, <1>5 DEF DriverInv

\* DriverInv holds in every state of the runs: where a run is decides what it has built,
\* measured, saved, reported and counted, also when a file of scores cannot be opened or a
\* ground truth run reads the segments of SimpleBuild, and every line of a result file,
\* written by whatever run, has the names that some run of the algorithm gives to a line
\* of that file.
THEOREM DriverInductive == DriverSpec => []DriverInv
<1>1. DriverInit => DriverInv
  BY DriverInitHolds
<1>2. DriverInv /\ [DriverNext]_driverVars => DriverInv'
  <2> SUFFICES ASSUME DriverInv, [DriverNext]_driverVars PROVE DriverInv'
    OBVIOUS
  <2>1. CASE StartRun
    BY <2>1, StartRunKeeps
  <2>2. CASE Kill
    BY <2>2, KillKeeps
  <2>3. CASE NoFolder \/ NoSeeds \/ UnknownAlgorithm \/ QueryUnbuilt \/ Return
    BY <2>3, EndersKeep
  <2>4. CASE LoadSeeds
    BY <2>4, LoadSeedsKeeps
  <2>5. CASE StraySeeds
    BY <2>5, StraySeedsKeeps
  <2>6. CASE FilterSeeds
    BY <2>6, FilterSeedsKeeps
  <2>7. CASE Prepare
    BY <2>7, PrepareKeeps
  <2>8. CASE Query
    BY <2>8, QueryKeeps
  <2>9. CASE QueryUnpacked
    BY <2>9, QueryUnpackedKeeps
  <2>10. CASE Measure
    BY <2>10, MeasureKeeps
  <2>11. CASE View
    BY <2>11, ViewKeeps
  <2>12. CASE ViewUnopened
    BY <2>12, ViewUnopenedKeeps
  <2>13. CASE EndQueries
    BY <2>13, EndQueriesKeeps
  <2>14. CASE OpenCsv
    BY <2>14, OpenCsvKeeps
  <2>15. CASE CsvUnopened
    BY <2>15, CsvUnopenedKeeps
  <2>16. CASE CloseCsv
    BY <2>16, CloseCsvKeeps
  <2>17. CASE Stopped \/ UNCHANGED driverVars
    BY <2>17, NothingKeeps DEF Stopped
  <2> QED
    BY <2>1, <2>2, <2>3, <2>4, <2>5, <2>6, <2>7, <2>8, <2>9, <2>10, <2>11, <2>12, <2>13, <2>14,
       <2>15, <2>16, <2>17
       DEF DriverNext
<1> QED
  BY <1>1, <1>2, PTL DEF DriverSpec

\* Every variable of the driver keeps its type, for all command lines, seeds files and
\* numbers of runs, and a result file is empty only while it is being created.
THEOREM DriverTypes == DriverSpec => []DriverTypeOK
<1>1. DriverInv => DriverTypeOK
  BY DEF DriverInv
<1> QED
  BY <1>1, DriverInductive, PTL

\* Whatever the options, a query finds the structures it reads, but for the ground truth
\* when packed lists are switched off (main and Graph's build functions).
THEOREM StructuresThere == DriverSpec => []StructuresBuilt
<1>1. DriverInv => StructuresBuilt
  <2> SUFFICES ASSUME DriverInv, step = "query"
               PROVE  Needs \subseteq built \/ (algo = "Truth" /\ ~ opt.fsi)
    BY DEF StructuresBuilt
  <2>1. built = Structures /\ Known /\ opt \in Options
    BY DEF DriverInv, DriverTypeOK, RunShape, InLoop
  <2>2. opt.fsi \in BOOLEAN
    BY <2>1 DEF Options
  <2> QED
    BY <2>1, <2>2, NeedsFacts
<1> QED
  BY <1>1, DriverInductive, PTL

\* The queries behind the loop were measured once, if they have a ground truth, and saved
\* once or reported, by their own scores under the right items but for the pairs of a
\* ground truth run on the segments of SimpleBuild; times are divided by the number of
\* queries (the loops of main, store_ground_truth and view_ground_truth).
THEOREM QueriesOwn == DriverSpec => []QueriesCounted
<1>1. DriverInv => QueriesCounted
  <2> SUFFICES ASSUME DriverInv PROVE QueriesCounted
    OBVIOUS
  <2>1. ASSUME NEW s \in {records, saved}, NEW k \in 1..Len(s)
        PROVE  \/ s[k].of = <<s[k].query>> /\ s[k].right
               \/ algo = "Truth" /\ ~ opt.fsi /\ opt.order = "Simple" /\ VDeg[s[k].query] >= 2
    <3>1. Own(s, Unpacked)
      BY DEF DriverInv, Recorded
    <3>2. (s[k].of = <<s[k].query>> /\ s[k].right) \/ s[k].query \in Unpacked
      BY <3>1 DEF Own
    <3> QED
      BY <3>2 DEF Unpacked
  <2>2. step = "open" => next = Len(seeds) + 1
    BY DEF DriverInv, RunShape
  <2>3. ASSUME step \in {"query", "open"}
        PROVE  /\ opt.count >= 1 => queryCount = Len(seeds)
               /\ [k \in 1..Len(records) |-> records[k].query]
                     = Picked(seeds, {k \in 1..(next - 1) : algo # "Truth" /\ seeds[k] \in HasTruth})
               /\ [k \in 1..Len(saved) |-> saved[k].query]
                     = Picked(seeds, {k \in (1..(next - 1)) \ reported :
                                        algo = "Truth" \/ (opt.view /\ algo # "Exact")})
    <3>1. InLoop /\ (opt.count >= 1 => queryCount = Len(seeds))
      BY <2>3 DEF DriverInv, RunShape, InLoop
    <3>2. QueriesOf(records) = Picked(seeds, MeasuredAt) /\ QueriesOf(saved) = Picked(seeds, SavedAt)
      BY <3>1 DEF DriverInv, Recorded
    <3>3. MeasuredAt = {k \in 1..(next - 1) : algo # "Truth" /\ seeds[k] \in HasTruth}
      BY <2>3 DEF MeasuredAt, NumMeasured
    <3>4. SavedAt = {k \in (1..(next - 1)) \ reported : algo = "Truth" \/ (opt.view /\ algo # "Exact")}
      BY DEF SavedAt, SavesScores
    <3> QED
      BY ONLY <3>1, <3>2, <3>3, <3>4 DEF QueriesOf
  <2> QED
    BY ONLY <2>1, <2>2, <2>3 DEF QueriesCounted
<1> QED
  BY <1>1, DriverInductive, PTL

\* Every result file that was not torn by a killed run begins with its only header, and a
\* row of a run with the same FSI_opt has its cells under their names, unless FastKASC
\* came to the boundary without a round (save_csv_row).
THEOREM HeadersMatch == DriverSpec => []HeadersFit
<1>1. DriverInv => HeadersFit
  BY LinesInFit DEF DriverInv
<1> QED
  BY <1>1, DriverInductive, PTL
=============================================================================
