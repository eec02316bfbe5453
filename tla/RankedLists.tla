----------------------------- MODULE RankedLists -----------------------------
(***************************************************************************)
(* Lists as the queries of the catalogue return them: ranked by a pair of  *)
(* columns from the greatest down, cut to a limit, filtered.  They are     *)
(* defined here without the sorting and filtering operators of the         *)
(* standard modules, which the proof system cannot expand.                 *)
(***************************************************************************)
EXTENDS Integers, SequencesExt

\* Pairs in descending order.
Above(c, d) == c[1] > d[1] \/ (c[1] = d[1] /\ c[2] > d[2])

\* S ORDER BY key DESC; no two members have the same key.
Ranked(S, key) ==
    [n \in 1..Cardinality(S) |->
        CHOOSE x \in S : Cardinality({y \in S : Above(key[y], key[x])}) = n - 1]

\* s LIMIT n.
Upto(s, n) == SubSeq(s, 1, Min({n, Len(s)}))

\* The members of s that are in S, and those that are not, in their order.
Among(s, S) == FoldLeft(LAMBDA kept, x : IF x \in S THEN Append(kept, x) ELSE kept, <<>>, s)
Without(s, S) == Among(s, ToSet(s) \ S)
=============================================================================
