--------------------------- MODULE CallbackChain ---------------------------
(***************************************************************************)
(* What a DKDeferred promises about its callbacks, and nothing of how it   *)
(* keeps the promise: the callbacks added to a deferred are taken off in   *)
(* the order in which they were added, each of them once, and only while   *)
(* the deferred has an outcome and nobody holds it.                        *)
(***************************************************************************)
EXTENDS Naturals, Sequences

CONSTANTS Deferreds

VARIABLES
  issued,   \* callbacks added so far, over all deferreds: the next one's number
  pending,  \* pending[d]: the callbacks added to d and not yet taken
  ran,      \* ran[d]: the callbacks of d that were taken, oldest first
  settled,  \* settled[d]: d has an outcome
  held      \* held[d]: d is paused, by its user or by a deferred it awaits

vars == <<issued, pending, ran, settled, held>>

TypeOK ==
  /\ issued \in Nat
  /\ pending \in [Deferreds -> Seq(Nat)]
  /\ ran \in [Deferreds -> Seq(Nat)]
  /\ settled \in [Deferreds -> BOOLEAN]
  /\ held \in [Deferreds -> BOOLEAN]

Init ==
  /\ issued = 0
  /\ pending = [d \in Deferreds |-> <<>>]
  /\ ran = [d \in Deferreds |-> <<>>]
  /\ settled = [d \in Deferreds |-> FALSE]
  /\ held = [d \in Deferreds |-> FALSE]

\* An outcome may be replaced, never taken back; holds come and go.
Control ==
  /\ settled' \in [Deferreds -> BOOLEAN]
  /\ held' \in [Deferreds -> BOOLEAN]
  /\ \A d \in Deferreds : settled[d] => settled'[d]

Add(d) ==
  /\ pending' = [pending EXCEPT ![d] = Append(@, issued)]
  /\ issued' = issued + 1
  /\ UNCHANGED <<ran, settled, held>>

Take(d) ==
  /\ settled[d]
  /\ ~held[d]
  /\ pending[d] # <<>>
  /\ ran' = [ran EXCEPT ![d] = Append(@, Head(pending[d]))]
  /\ pending' = [pending EXCEPT ![d] = Tail(@)]
  /\ UNCHANGED issued
  /\ Control

Steer ==
  /\ Control
  /\ UNCHANGED <<issued, pending, ran>>

Next ==
  \/ \E d \in Deferreds : Add(d) \/ Take(d)
  \/ Steer

Spec == Init /\ [][Next]_vars
=============================================================================
