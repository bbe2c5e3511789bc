-------------------------- MODULE MCDeferredPool --------------------------
(* Small instances of DeferredPool for TLC. *)
EXTENDS DeferredPool, TLC

CONSTANTS t1, t2, d1, d2, d3, d4, k1, k2, k3, null

\* Made one after the other.
MCDate ==
  [d \in Deferreds |-> IF d = d1 THEN 1 ELSE IF d = d2 THEN 2 ELSE IF d = d3 THEN 3 ELSE 4]

\* Keys are never compared.
KeySymmetry == Permutations(Keys)

\* Nor are threads.
Symmetry == KeySymmetry \cup Permutations(Threads)
===========================================================================
