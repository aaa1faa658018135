----------------------------- MODULE PageLists ------------------------------
(***************************************************************************)
(* What the pages of the web client do to the lists they are given.        *)
(***************************************************************************)
EXTENDS Integers, Sequences, FiniteSets, SequencesExt

(* A text field that is left out, or null.                                 *)
Unnamed == ""

(* The elements of s that are in S, as they stand (filter).                *)
Keep(s, S) == FlattenSeq([k \in 1..Len(s) |-> IF s[k] \in S THEN <<s[k]>> ELSE <<>>])

(* At most the first n of them.                                            *)
Fewest(a, b)  == IF a < b THEN a ELSE b
Leading(n, s) == SubSeq(s, 1, Fewest(Len(s), n))

(* The rows of a list by their day; rows of one day stay as they stand     *)
(* (sort).                                                                 *)
ByAge(rows) ==
  LET before(n) == {m \in 1..Len(rows) : \/ rows[m].day < rows[n].day
                                         \/ rows[m].day = rows[n].day /\ m <= n}
  IN [k \in 1..Len(rows) |->
        rows[CHOOSE n \in 1..Len(rows) : Cardinality(before(n)) = k]]

=============================================================================
