----------------------------- MODULE MCMapCanvas ------------------------------
(* A canvas with up to two layers and two extents. *)
EXTENDS MapCanvas, TLC

CONSTANTS l1, l2, e1, e2, j1, j2

\* Jobs and extents are interchangeable; no temporal property is checked with this.
Interchangeable == Permutations(Jobs) \union Permutations(Extents)
=============================================================================
