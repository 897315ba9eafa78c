--------------------------- MODULE MemoryIndexMC ---------------------------
(* Instances of the memory index: t1 and t2 have the same clause.          *)
EXTENDS MemoryIndex, TLC

CONSTANTS w1, w2, w3, t1, t2, t3, x, y

SharedClause == t1 :> x @@ t2 :> x @@ t3 :> y

Callers == Permutations(Writers)

=============================================================================
