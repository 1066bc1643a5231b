------------------------------ MODULE MCDriver ------------------------------
(***************************************************************************)
(* An instance of Driver: three items, one without a ground truth and      *)
(* bought by one user only, and one that a limit of degrees leaves out;    *)
(* seed files that are short, empty, missing, or hold a word; options on   *)
(* and off, also with no query asked for, a limit below zero and no round  *)
(* sampled; two runs, of which any may be killed.                          *)
(***************************************************************************)
EXTENDS Driver

MCItems == 1..3
MCVDeg  == <<2, 1, 5>>

MCSeedFiles == {NoFile, << >>, <<1, 2, 1>>, <<3, 1>>, <<2, Word, 1>>, <<Word>>}

MCCommandLines ==
    {<< >>, [fsi |-> FALSE, limit |-> -2], [count |-> 0],
     [order |-> "Deg", limit |-> 4, count |-> 3, view |-> TRUE, rounds |-> FALSE],
     [fsi |-> FALSE, order |-> "Simple", view |-> TRUE]}
=============================================================================
