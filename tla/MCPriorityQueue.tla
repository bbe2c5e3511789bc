-------------------------- MODULE MCPriorityQueue --------------------------
(* Small instances of PriorityQueue for TLC. *)
EXTENDS PriorityQueue, TLC

CONSTANTS k1, k2, k3, k4, k5, k6, k7, o1, o2, o3, null

\* Three objects of different dates, each of which may wait under many keys.
MCDate == [o \in Objects |-> IF o = o1 THEN 1 ELSE IF o = o2 THEN 2 ELSE 3]

\* Keys are never compared themselves.
KeySymmetry == Permutations(Keys)
=============================================================================
