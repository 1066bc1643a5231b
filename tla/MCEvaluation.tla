---------------------------- MODULE MCEvaluation ----------------------------
(***************************************************************************)
(* An instance of Evaluation: four items besides the query, files of three *)
(* lines, the first one and two of which count.  The scores have ties, a   *)
(* tie across the end of the file, neighbours that are stored as equal,    *)
(* and items without a score.                                              *)
(***************************************************************************)
EXTENDS Evaluation

\* 1 and 2 are stored as 1, 3 and 4 as 3.
MCStored(x) == IF x = 0 THEN 0 ELSE x - ((x - 1) % 2)

\* By item; item 1 is the query.
ScoreOf(a, b, c, d) == [x \in 0..4 |-> <<a, 4, b, c, d>>[x + 1]]

MCScores == {ScoreOf(a, b, c, d) : a \in {0, 2, 4}, b \in {1, 3}, c \in 0..3, d \in {0, 1, 3}}

MCNumberings == {[i \in 0..4 |-> i], [i \in 0..4 |-> (i + 2) % 5]}

MCDiscount == <<1000, 631, 500, 431>>
=============================================================================
