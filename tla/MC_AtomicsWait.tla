--------------------------- MODULE MC_AtomicsWait ---------------------------
(* Small instances of AtomicsWait.                                         *)
EXTENDS AtomicsWait, TLC

\* Records and locations are interchangeable identities.
IdSymmetry == Permutations(Waiter) \cup Permutations(Loc)
=============================================================================
