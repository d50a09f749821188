----------------------------- MODULE SortedSets ------------------------------
(***************************************************************************)
(* Sets of numbers in ascending order, as the keys of a QMap, and what is  *)
(* left of a list when entries are removed from it.  Both could be written *)
(* with SetToSortSeq and SelectSeq of SequencesExt; these definitions are  *)
(* not recursive, so that SortedSetsProofs can state what they return.     *)
(***************************************************************************)
EXTENDS Integers, Sequences, FiniteSets

Contents(s) == {s[i] : i \in DOMAIN s}

\* The k-th element is the one with k - 1 elements below it.
Sorted(ids) ==
    [k \in 1 .. Cardinality(ids) |-> CHOOSE i \in ids : Cardinality({j \in ids : j < i}) = k - 1]

\* The entries of a sequence that are in a set, in their order.
Kept(s, set) ==
    LET at == Sorted({i \in DOMAIN s : s[i] \in set}) IN [k \in DOMAIN at |-> s[at[k]]]
=============================================================================
