---------------------------- MODULE KeyedQueue ----------------------------
(***************************************************************************)
(* What DKMappedPriorityQueue promises: a mapping from keys to objects     *)
(* that ignores a key it already holds and gives its objects back by       *)
(* priority (the MappedPriorityQueue protocol).                            *)
(***************************************************************************)
EXTENDS Naturals, Functions

CONSTANTS
  Keys,
  Objects,
  Null,         \* the answer nil
  Before(_, _)  \* Before(a, b): a is to be given back before b

VARIABLES
  held,    \* the objects waiting, by key
  answer   \* what the last call returned

vars == <<held, answer>>

Init == held = [k \in {} |-> Null] /\ answer = Null

Enqueue(k, o) ==
  IF k \in DOMAIN held
  THEN answer' = Null /\ UNCHANGED held
  ELSE /\ held' = [j \in DOMAIN held \cup {k} |-> IF j = k THEN o ELSE held[j]]
       /\ answer' = o

\* No other object held goes before k's; of equal ones any may be given.
First(k) == \A j \in DOMAIN held : ~Before(held[j], held[k])

Dequeue ==
  \/ DOMAIN held = {} /\ answer' = Null /\ UNCHANGED held
  \/ \E k \in DOMAIN held :
       /\ First(k)
       /\ answer' = <<held[k], k>>
       /\ held' = Restrict(held, DOMAIN held \ {k})

Next == Dequeue \/ \E k \in Keys, o \in Objects : Enqueue(k, o)

Spec == Init /\ [][Next]_vars
=============================================================================
