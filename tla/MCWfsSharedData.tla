--------------------------- MODULE MCWfsSharedData ---------------------------
(***************************************************************************)
(* Instances of WfsSharedData for TLC.                                     *)
(***************************************************************************)
EXTENDS WfsSharedData, TLC

CONSTANTS f1, f2, r1, r2

\* A rectangle inside another.
Nested == {{f1}, {f1, f2}}

\* All of them in full, and one feature of the larger one.
Asked == {<<Whole, FALSE>>, <<{f1}, FALSE>>, <<{f1, f2}, FALSE>>, <<{f1, f2}, TRUE>>}

ReaderSymmetry == Permutations(Readers)
=============================================================================
