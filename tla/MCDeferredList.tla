--------------------------- MODULE MCDeferredList ---------------------------
(* Small instances of DeferredList for TLC. *)
EXTENDS DeferredList

CONSTANTS m1, m2, m3

\* Of none, of one twice, of two and of three, a wrapper first, last, beside the
\* deferred it may hand on, and after it twice
MCLists ==
  {<<>>, <<m1, m1>>, <<m3, m1>>, <<m2, m3>>, <<m3, m2, m1>>, <<m1, m1, m3>>}
=============================================================================
