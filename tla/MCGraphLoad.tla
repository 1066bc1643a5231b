---------------------------- MODULE MCGraphLoad ----------------------------
(* The instances of GraphLoad for TLC. *)
EXTENDS GraphLoad

Row(w, x) == <<w, x>>

\* Every file of one or two lines, ids one past the ranges included.
ShortFiles ==
    LET rows == {Row(w, x) : w \in 0..NumUsers, x \in 0..NumItems}
    IN  {<< >>} \cup rows \cup {r \o s : r \in rows, s \in rows}

\* Four lines on three users: shared items, a repeated line, an item of users of one
\* edge only.
LongFiles == {
    <<0, 0, 1, 0, 0, 1, 1, 1>>,
    <<0, 0, 0, 1, 1, 0, 2, 1>>,
    <<1, 1, 1, 1, 0, 1, 2, 0>>,
    <<2, 0, 1, 0, 0, 0, 0, 1>>,
    <<2, 1, 2, 0, 1, 1, 0, 1>> }

\* A file that breaks off inside a line, and files with a word in them.
BrokenFiles == {
    <<0, 0, 1>>, <<2>>, <<0, 1, 1, 0, 2>>,
    <<Junk>>, <<0, Junk>>, <<0, 1, Junk, 1, 0>>, <<0, 1, 1, Junk, 1>> }

MCFiles == ShortFiles \cup LongFiles \cup BrokenFiles
=============================================================================
