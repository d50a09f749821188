-------------------------- MODULE MCConnectionPool --------------------------
(* Model values and symmetry for the runs of ConnectionPool. *)
EXTENDS ConnectionPool, TLC

CONSTANTS t1, t2, t3, c1, c2, c3

TwoThreads == {t1, t2}
ThreeThreads == {t1, t2, t3}
TwoConns == {c1, c2}
ThreeConns == {c1, c2, c3}
Workers == Threads \ {Main}
Sym == Permutations(Workers) \union Permutations(Conns)
=============================================================================
