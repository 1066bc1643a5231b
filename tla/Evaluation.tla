----------------------------- MODULE Evaluation -----------------------------
(***************************************************************************)
(* Ground truth files and the metrics computed from them, for one query.   *)
(* A truth run ranks the other items by their exact scores and writes the  *)
(* best MaxLines of them; it may break off at any byte, and may be run     *)
(* again.  An evaluating run reads whatever the file holds and compares    *)
(* its own ranking with it.                                                *)
(*                                                                         *)
(* Scores are numbers whose order and equality matter.  Items with equal   *)
(* scores may be ranked in any order: the code breaks ties by id, but sums *)
(* of the same terms in another order differ in their last digits.         *)
(***************************************************************************)
EXTENDS Sums, FiniteSets, Sequences

CONSTANTS
    NumItems, Vq,
    Scores,         \* the possible exact scores: functions from items to Nat
    Numberings,     \* the possible oriIndex
    MaxLines,       \* 500: lines of a ground truth file
    Ks, Ext,        \* k_list, ext_k
    Stored(_),      \* a score written with six digits and read again
    Discount        \* the weights 1 / log2(position + 1), in thousandths

Item  == 0..(NumItems - 1)
Other == Item \ {Vq}
TopK  == 1 + Ext + Max(Ks)

\* No more ranks are sorted than there are items.
ASSUME ParametersOK ==
    /\ NumItems \in Nat /\ Vq \in Item
    /\ Scores \subseteq [Item -> Nat]
    /\ \A m \in Numberings : /\ m \in [Item -> Item]
                             /\ \A x \in Item : \E i \in Item : m[i] = x
    /\ IsFiniteSet(Ks) /\ Ks # {} /\ Ks \subseteq Nat \ {0} /\ Ext \in Nat
    /\ MaxLines \in Nat /\ MaxLines < NumItems /\ TopK < NumItems
    /\ \A s \in Scores : \A x \in Item :
          /\ Stored(s[x]) \in Nat
          /\ Stored(s[x]) = 0 <=> s[x] = 0
          /\ \A y \in Item : s[x] <= s[y] => Stored(s[x]) <= Stored(s[y])
    /\ Discount \in [1..TopK -> Nat \ {0}]
    /\ \A p, q \in 1..TopK : p < q => Discount[p] > Discount[q]

VARIABLES
    score,          \* the exact scores
    oriIndex,
    exact,          \* does the evaluated run compute all scores exactly?
    pc,             \* "none", "write", "closed", "broken", "metrics" or "done"
    order,          \* the ranking of the truth run
    written,        \* lines it has written
    file,           \* pairs <<item, value>>
    cut,            \* was the last value of the file cut off inside?
    swing,          \* the evaluated run's scores, by new numbers
    est,            \* est_lue_items, best first
    record          \* the metrics for each k, or NoRecord

vars == <<score, oriIndex, exact, pc, order, written, file, cut, swing, est, record>>

NoRecord == <<>>

Init ==
    /\ score \in Scores /\ oriIndex \in Numberings /\ exact \in BOOLEAN
    /\ pc = "none" /\ order = << >> /\ written = 0
    /\ file = << >> /\ cut = FALSE
    /\ swing = [i \in Item |-> 0] /\ est = << >> /\ record = NoRecord

\* The len first items of a ranking by value, the query item left out.
IsRanking(s, len, value) ==
    /\ \A k, l \in 1..len : k < l => s[k] # s[l] /\ value[s[k]] >= value[s[l]]
    /\ \A x \in Other \ {s[k] : k \in 1..len}, k \in 1..len : value[x] <= value[s[k]]

-----------------------------------------------------------------------------
(* The truth run.                                                          *)

\* Opening the file for writing empties it.
ReopenAtEnd == file             \* faulty: the lines of the last run are kept
Reopen      == << >>

StartTruth ==
    /\ pc \in {"none", "broken"}
    /\ order' \in {s \in [1..MaxLines -> Other] : IsRanking(s, MaxLines, score)}
    /\ file' = Reopen /\ cut' = FALSE /\ written' = 0
    /\ pc' = "write"
    /\ UNCHANGED <<score, oriIndex, exact, swing, est, record>>

WriteLine ==
    /\ pc = "write" /\ written < MaxLines
    /\ LET x == order[written + 1]
       IN  file' = Append(file, <<x, Stored(score[x])>>)
    /\ written' = written + 1
    /\ UNCHANGED <<score, oriIndex, exact, pc, order, cut, swing, est, record>>

CloseFile ==
    /\ pc = "write" /\ written = MaxLines
    /\ pc' = "closed"
    /\ UNCHANGED <<score, oriIndex, exact, order, written, file, cut, swing, est, record>>

\* The run breaks off: between two lines, inside an item's id or before its value
\* (then the reader finds no pair), or inside a value, which reads as another one.
BreakOff ==
    /\ pc = "write"
    /\ pc' = "broken"
    /\ \/ UNCHANGED <<file, cut>>
       \/ /\ written < MaxLines
          /\ \E value \in 0..Max({score[x] : x \in Item}) :
                file' = Append(file, <<order[written + 1], value>>)
          /\ cut' = TRUE
    /\ UNCHANGED <<score, oriIndex, exact, order, written, swing, est, record>>

-----------------------------------------------------------------------------
(* The evaluated run.                                                      *)

\* The item that new number i stands for, and the scores by item.
ItemOf(i)   == oriIndex[i]
RealValues  == [x \in Item |-> IF x = Vq THEN 0
                               ELSE swing'[CHOOSE i \in Item : ItemOf(i) = x]]

\* The best items by the scores of the run.  A sampled run may rank the items in any
\* way, for which equal scores stand.
Query ==
    /\ pc \in {"none", "closed", "broken"}
    /\ swing' = IF exact THEN [i \in Item |-> score[oriIndex[i]]]
                ELSE [i \in Item |-> 1]
    /\ est' \in {s \in [1..TopK -> Other] : IsRanking(s, TopK, RealValues)}
    /\ pc' = "metrics"
    /\ UNCHANGED <<score, oriIndex, exact, order, written, file, cut, record>>

\* read_ground_truth: the pairs in front of the first value 0.
GroundTruth ==
    LET zeros == {k \in 1..Len(file) : file[k][2] = 0}
    IN  IF zeros = {} THEN file ELSE SubSeq(file, 1, Min(zeros) - 1)

CurK(gt, k)  == Min({k, Len(gt)})

\* Line p of the file counts as relevant for k: among the first k, or with the same
\* value as line k.  Faulty: without the latter.
RelevantFirst(gt, k, p) == p <= k
Relevant(gt, k, p) ==
    p <= k \/ \A l \in k..p : gt[l][2] = gt[k][2]

GtSet(gt, k) == {gt[p][1] : p \in {q \in 1..Len(gt) : Relevant(gt, k, q)}}

Hits(gt, k, n) == {p \in 1..Min({n, Len(est)}) : est[p] \in GtSet(gt, k)}

\* The ranks that Precision and NDCG look at.  Faulty: those that Recall does.
ReachExt(k) == k + Ext
Reach(k)    == k

Precision(gt, k) == Frac(Cardinality(Hits(gt, k, Reach(k))), CurK(gt, k))

Recall(gt, k) ==
    LET r == Frac(Cardinality(Hits(gt, k, k + Ext)), CurK(gt, k))
    IN  IF Less(Whole(1), r) THEN Whole(1) ELSE r

Gains(S) == Total(Discount, S)

Ndcg(gt, k) ==
    Frac(Gains(Hits(gt, k, Reach(k))),
         Gains(1..Min({k, Cardinality(GtSet(gt, k))})))

Abs(n) == IF n < 0 THEN -n ELSE n

\* real_values, by the scores that Query left.
Estimate(x) == swing[CHOOSE i \in Item : ItemOf(i) = x]

\* The mean of the fractions error[p] over the lines that count.
MeanOf(error, gt, k) == DividedBy(SumOf(error, 1..CurK(gt, k)), CurK(gt, k))

AvgError(gt, k) ==
    MeanOf([p \in 1..Len(gt) |-> Frac(Abs(gt[p][2] - Estimate(gt[p][1])), gt[p][2])], gt, k)

\* quality_metrics: without a ground truth there is no record.
Measure ==
    /\ pc = "metrics"
    /\ record' = IF GroundTruth = << >> THEN NoRecord
                 ELSE [k \in Ks |-> [precision |-> Precision(GroundTruth, k),
                                     recall    |-> Recall(GroundTruth, k),
                                     ndcg      |-> Ndcg(GroundTruth, k),
                                     error     |-> AvgError(GroundTruth, k)]]
    /\ pc' = "done"
    /\ UNCHANGED <<score, oriIndex, exact, order, written, file, cut, swing, est>>

Terminating == pc = "done" /\ UNCHANGED vars

Next ==
    \/ StartTruth \/ WriteLine \/ CloseFile \/ BreakOff
    \/ Query \/ Measure \/ Terminating

Spec == Init /\ [][Next]_vars

-----------------------------------------------------------------------------
(* Properties.                                                             *)

\* Every variable keeps its type; a file never has more lines than one run writes,
\* nor an item twice, however often runs broke off before.
TypeOK ==
    /\ score \in Scores /\ oriIndex \in Numberings
    /\ exact \in BOOLEAN /\ cut \in BOOLEAN
    /\ pc \in {"none", "write", "closed", "broken", "metrics", "done"}
    /\ order \in Seq(Other) /\ written \in 0..MaxLines
    /\ file \in Seq(Other \X Nat) /\ Len(file) <= MaxLines
    /\ \A k, l \in 1..Len(file) : file[k][1] = file[l][1] => k = l
    /\ swing \in [Item -> Nat] /\ est \in Seq(Other)
    /\ record # NoRecord => DOMAIN record = Ks

\* Every item as good as line k of the ground truth (or as its last line) is in it.
Covers(gt, k) ==
    \A x \in Other :
        Stored(score[x]) >= gt[CurK(gt, k)][2] => \E p \in 1..Len(gt) : gt[p][1] = x

\* What writing six digits loses of the scores of the first lines.
Rounding(gt, k) ==
    LET lost(s) == Frac(Abs(Stored(s) - s), Stored(s))
    IN  MeanOf([p \in 1..Len(gt) |-> lost(score[gt[p][1]])], gt, k)

\* A run that computes exact scores gets the best marks, in whatever order it and
\* the truth run rank equal scores, whether or not it numbers the items anew, and
\* although rounding makes unequal scores equal: unless the end of the file falls
\* among equal values that count, or a value was cut.  A file that lost whole lines
\* passes unnoticed.
ExactIsPerfect ==
    record # NoRecord /\ exact /\ ~ cut =>
        \A k \in Ks :
            Covers(GroundTruth, k) =>
                record[k] = [precision |-> Whole(1), recall |-> Whole(1),
                             ndcg |-> Whole(1), error |-> Rounding(GroundTruth, k)]

\* No metric exceeds 1, whatever the run's ranking and the file; Recall, which looks
\* further, is not below Precision; and NDCG is 1 only when Precision is.
MetricsBounded ==
    record # NoRecord =>
        \A k \in Ks :
            LET r == record[k]
            IN  /\ ~ Less(Whole(1), r.precision) /\ ~ Less(Whole(1), r.recall)
                /\ ~ Less(Whole(1), r.ndcg)
                /\ ~ Less(r.recall, r.precision)
                /\ r.ndcg = Whole(1) => r.precision = Whole(1)
=============================================================================
