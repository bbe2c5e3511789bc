------------------------------ MODULE MCCache ------------------------------
(* Small instances of Cache for TLC. *)
EXTENDS Cache, TLC

\* Keys are never compared, nor are threads.
Symmetry == Permutations(Keys) \cup Permutations(Threads)
=============================================================================
