---------------------------- MODULE MCEsIntfPtr ----------------------------
EXTENDS EsIntfPtr, TLC

CONSTANTS a, b, c, t1, t2, o1, o2

\* Pointers are assigned in one direction only.
MCSources == (a :> {}) @@ (b :> {a}) @@ (c :> {a, b})

MCSymmetry == Permutations(Threads) \cup Permutations(Objects)
=============================================================================
