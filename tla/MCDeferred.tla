----------------------------- MODULE MCDeferred -----------------------------
(* Small instances of Deferred for TLC. *)
EXTENDS Deferred, TLC

CONSTANTS d1, d2, d3, plain, special, v, error, null

\* d1 is a plain DKDeferred; the others are of a subclass, so that d1 chains
\* them and they take d1, when a callback returns it, for a plain value.
MCClass == [d \in Deferreds |-> IF d = d1 THEN plain ELSE special]
MCOneClass == [d \in Deferreds |-> plain]
=============================================================================
