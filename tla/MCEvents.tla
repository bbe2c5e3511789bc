------------------------------ MODULE MCEvents ------------------------------
(* Small instances of Events for TLC. *)
EXTENDS Events

CONSTANTS c, w, l
=============================================================================
