------------------------------ MODULE Deferred ------------------------------
(***************************************************************************)
(* DKDeferred: the callback chain, its two outcomes, pausing, chaining a   *)
(* callback's deferred result, cancelling and the finalizer.               *)
(*                                                                         *)
(* Everything runs on one thread, but the class is re-entrant: a callback, *)
(* a finalizer or a canceller is client code and may call any method of    *)
(* any deferred before it returns.  The call stack is therefore part of    *)
(* the state: a frame for each method body that has called out, the last   *)
(* one running.  The client calls when the stack is empty (the run loop)   *)
(* or when client code is on top.                                          *)
(***************************************************************************)
EXTENDS Integers, Sequences, FiniteSets

CONSTANTS
  Deferreds,      \* the DKDeferred objects
  Class,          \* Class[d]: the class of d
  Root,           \* the class DKDeferred, which every other class extends
  HasCanceller,   \* the deferreds made with initWithCanceller: of a canceller
  Values,         \* results that are neither errors nor deferreds
  Errors,         \* NSError objects
  Null,           \* [NSNull null]
  CanceledError,  \* the NSError of DKDeferredCanceledError
  GenericError,   \* the NSError of DKDeferredGenericError
  Liberties,      \* what the client does beyond orderly use, see below
  MaxAdds,        \* bound: callbacks the client adds, over all deferreds
  MaxPause,       \* bound: pauses of one deferred not yet resumed
  MaxDepth        \* bound: frames on the stack when client code makes a call

(***************************************************************************)
(* An orderly client resumes what it paused, returns from its callbacks    *)
(* only deferreds that can still be chained, and does not touch a deferred *)
(* from inside that deferred's own callbacks.  With                        *)
(*   "reenter"     it does touch it,                                       *)
(*   "unbalanced"  it resumes what it did not pause,                       *)
(*   "reuse"       it returns a deferred that is chained or finalized      *)
(*                 already, or that awaits the one whose callback returns, *)
(*   "raise"       its callbacks raise exceptions.                         *)
(***************************************************************************)
AllLiberties == {"reenter", "unbalanced", "reuse", "raise"}

Results == Values \cup Errors \cup Deferreds \cup {Null}
Slots == Deferreds \cup {"client", "nil"}
Outcomes == {-1, 0, 1}

ASSUME ResultAssumption ==
  /\ {CanceledError, GenericError} \subseteq Errors
  /\ Values \cap Errors = {}
  /\ Deferreds \cap (Values \cup Errors) = {}
  /\ Null \notin Values \cup Errors \cup Deferreds
  /\ "client" \notin Deferreds
  /\ "nil" \notin Results
  /\ HasCanceller \subseteq Deferreds
ASSUME BoundAssumption == {MaxAdds, MaxPause, MaxDepth} \subseteq Nat
ASSUME LibertyAssumption == Liberties \subseteq AllLiberties

VARIABLES
  \* the object's fields
  chain,              \* chain[d]: pairs [id, fn], fn[0] a callback, fn[1] an errback
  fired,              \* fired[d]: -1, or the index of the outcome
  result,             \* result[d]: [results objectAtIndex:fired]
  paused,
  silentlyCancelled,
  chained,
  finalizer,          \* finalizer[d]: one is set
  finalized,
  \* the call stack
  stack,
  \* history: read by properties and by the client's discipline only
  added,              \* pairs added so far, over all deferreds: the next one's id
  ran,                \* ran[d]: ids of the pairs taken off d's chain, in order
  settled,            \* settled[d]: who gave d the outcomes it accepted, in order
  owed,               \* owed[d]: pauses of the client not yet resumed
  latest              \* latest[d]: the newest result d was given or produced

fields == <<chain, fired, result, paused, silentlyCancelled, chained,
            finalizer, finalized>>
history == <<added, ran, settled, owed, latest>>
vars == <<fields, stack, history>>

ClientPCs == {"callback", "finalizer", "canceller"}
Frames == [pc : {"loop", "link", "chain", "cancel"} \cup ClientPCs,
           d : Deferreds, result : Results, linking : BOOLEAN]
Pairs == [id : Nat, fn : [{0, 1} -> Slots]]

\* "answer" is a callback: or errback: of the client, "cancel" the errback: in cancel
Settlers == {"answer", "cancel"}

\* Every field, frame and history variable has its type.
TypeOK ==
  /\ chain \in [Deferreds -> Seq(Pairs)]
  /\ fired \in [Deferreds -> Outcomes]
  /\ result \in [Deferreds -> Results]
  /\ paused \in [Deferreds -> Int]
  /\ silentlyCancelled \in [Deferreds -> BOOLEAN]
  /\ chained \in [Deferreds -> BOOLEAN]
  /\ finalizer \in [Deferreds -> BOOLEAN]
  /\ finalized \in [Deferreds -> BOOLEAN]
  /\ stack \in Seq(Frames)
  /\ added \in Nat
  /\ ran \in [Deferreds -> Seq(Nat)]
  /\ settled \in [Deferreds -> Seq(Settlers)]
  /\ owed \in [Deferreds -> Nat]
  /\ latest \in [Deferreds -> Results]

Init ==
  /\ chain = [d \in Deferreds |-> <<>>]
  /\ fired = [d \in Deferreds |-> -1]
  /\ result = [d \in Deferreds |-> Null]
  /\ paused = [d \in Deferreds |-> 0]
  /\ silentlyCancelled = [d \in Deferreds |-> FALSE]
  /\ chained = [d \in Deferreds |-> FALSE]
  /\ finalizer = [d \in Deferreds |-> FALSE]
  /\ finalized = [d \in Deferreds |-> FALSE]
  /\ stack = <<>>
  /\ added = 0
  /\ ran = [d \in Deferreds |-> <<>>]
  /\ settled = [d \in Deferreds |-> <<>>]
  /\ owed = [d \in Deferreds |-> 0]
  /\ latest = [d \in Deferreds |-> Null]

-----------------------------------------------------------------------------
(* The stack *)

Running == stack # <<>>
Top == stack[Len(stack)]
Below == SubSeq(stack, 1, Len(stack) - 1)
Replaced(f) == [stack EXCEPT ![Len(stack)] = f]

TopIs(pc) == Running /\ Top.pc = pc

\* [d _fire] called with result x from the frames of s
Fire(s, d, x) ==
  Append(s, [pc |-> "loop", d |-> d, result |-> x, linking |-> FALSE])

\* An exception unwinds to some frame of client code that catches it, or to
\* the run loop; the library has no handler of its own.
Unwind ==
  \E k \in 0..Len(stack) :
    /\ k > 0 => stack[k].pc \in ClientPCs
    /\ stack' = SubSeq(stack, 1, k)

-----------------------------------------------------------------------------
(* Results *)

\* [result isKindOfClass:[self class]] for self = d
IsKind(x, d) == x \in Deferreds /\ (Class[d] = Root \/ Class[x] = Class[d])

\* [result isKindOfClass:[NSError class]] ? 1 : 0
Outcome(x) == IF x \in Errors THEN 1 ELSE 0

\* Mutant of Boxed: nil is stored as it is.
Unboxed(x) == x

\* nil is stored and passed on as [NSNull null]
Boxed(x) == IF x = "nil" THEN Null ELSE x

Inputs == (Results \ {Null}) \cup {"nil"}

\* [d _resback:x] called from the frames of s, d's pause count being p
Resback(d, x, p, s) ==
  /\ fired' = [fired EXCEPT ![d] = Outcome(x)]
  /\ result' = [result EXCEPT ![d] = x]
  /\ stack' = IF p = 0 THEN Fire(s, d, x) ELSE s

-----------------------------------------------------------------------------
(* The client's calls *)

ClientRuns ==
  /\ Running => Top.pc \in ClientPCs
  /\ Len(stack) < MaxDepth

Firing(d) ==
  \E i \in 1..Len(stack) : stack[i].d = d /\ stack[i].pc \notin {"cancel", "canceller"}

MayTouch(d) == "reenter" \in Liberties \/ ~Firing(d)

\* [self _check] lets the call through
CanFire(d) == fired[d] = -1 \/ silentlyCancelled[d]

\* Mutant of CheckedFlag: _check leaves the flag up.
FlagKept(d) == silentlyCancelled[d]

\* ... and forgives a silently cancelled deferred one late call
CheckedFlag(d) == fired[d] = -1 /\ silentlyCancelled[d]

Settle(d, x) ==
  /\ ClientRuns
  /\ MayTouch(d)
  /\ CanFire(d)
  /\ ~IsKind(x, d)
  /\ silentlyCancelled' = [silentlyCancelled EXCEPT ![d] = CheckedFlag(d)]
  /\ settled' = [settled EXCEPT ![d] = Append(@, "answer")]
  /\ latest' = [latest EXCEPT ![d] = Boxed(x)]
  /\ Resback(d, Boxed(x), paused[d], stack)
  /\ UNCHANGED <<chain, paused, chained, finalizer, finalized, added, ran, owed>>

\* errback: wraps what is not an NSError
AsError(x) == IF x \in Errors THEN x ELSE GenericError

Callback(d, x) == Settle(d, x)
Errback(d, x) == ~IsKind(x, d) /\ Settle(d, AsError(x))

\* callback: or errback: with a deferred: _check has run before the exception
RejectChained(d, x) ==
  /\ ClientRuns
  /\ "raise" \in Liberties
  /\ CanFire(d)
  /\ IsKind(x, d)
  /\ silentlyCancelled' = [silentlyCancelled EXCEPT ![d] = CheckedFlag(d)]
  /\ Unwind
  /\ UNCHANGED <<chain, fired, result, paused, chained, finalizer, finalized, history>>

\* Mutant of Reusable: only a chained deferred refuses callbacks.
ReusableFinalized(d) == ~chained[d]

\* the guards of addCallbacks:: and setFinalizer:
Reusable(d) == ~chained[d] /\ ~finalized[d]

\* Mutant of FireIfFired: a failed deferred does not call late callbacks.
FireIfSucceeded(d, s) == IF fired[d] = 0 THEN Fire(s, d, result[d]) ELSE s

\* if (fired >= 0) [self _fire]; results is read as it is stored
FireIfFired(d, s) == IF fired[d] >= 0 THEN Fire(s, d, result[d]) ELSE s

Chain(d, fn) == [chain EXCEPT ![d] = Append(@, [id |-> added, fn |-> fn])]

AddCallbacks(d, fn) ==
  /\ ClientRuns
  /\ MayTouch(d)
  /\ Reusable(d)
  /\ added < MaxAdds
  /\ chain' = Chain(d, fn)
  /\ added' = added + 1
  /\ stack' = FireIfFired(d, stack)
  /\ UNCHANGED <<fired, result, paused, silentlyCancelled, chained, finalizer,
                 finalized, ran, settled, owed, latest>>

SetFinalizer(d) ==
  /\ ClientRuns
  /\ MayTouch(d)
  /\ Reusable(d)
  /\ finalizer' = [finalizer EXCEPT ![d] = TRUE]
  /\ stack' = FireIfFired(d, stack)
  /\ UNCHANGED <<chain, fired, result, paused, silentlyCancelled, chained,
                 finalized, history>>

Pause(d) ==
  /\ ClientRuns
  /\ owed[d] < MaxPause
  /\ paused' = [paused EXCEPT ![d] = @ + 1]
  /\ owed' = [owed EXCEPT ![d] = @ + 1]
  /\ UNCHANGED <<chain, fired, result, silentlyCancelled, chained, finalizer,
                 finalized, stack, added, ran, settled, latest>>

ResumedPause(p) == IF p >= 0 THEN p - 1 ELSE p

Resume(d) ==
  /\ ClientRuns
  /\ MayTouch(d)
  /\ owed[d] > 0 \/ "unbalanced" \in Liberties
  /\ paused' = [paused EXCEPT ![d] = ResumedPause(@)]
  /\ owed' = [owed EXCEPT ![d] = IF @ > 0 THEN @ - 1 ELSE 0]
  /\ stack' = IF ResumedPause(paused[d]) = 0 THEN FireIfFired(d, stack) ELSE stack
  /\ UNCHANGED <<chain, fired, result, silentlyCancelled, chained, finalizer,
                 finalized, added, ran, settled, latest>>

Cancel(d) ==
  /\ ClientRuns
  /\ stack' = Append(stack, [pc |-> "cancel", d |-> d, result |-> Null, linking |-> FALSE])
  /\ UNCHANGED <<fields, history>>

-----------------------------------------------------------------------------
(* Client code returns *)

\* The deferreds reached by following results from x: what awaits what
Closed(S) == \A y \in S : result[y] \in Deferreds => result[y] \in S
Awaits(x, d) == \A S \in SUBSET Deferreds : (x \in S /\ Closed(S)) => d \in S

BeingChained(x) == \E i \in 1..Len(stack) : stack[i].linking /\ stack[i].result = x

Returnable(x, d) ==
  IsKind(x, d) =>
    \/ "reuse" \in Liberties
    \/ Reusable(x) /\ MayTouch(x) /\ ~BeingChained(x) /\ ~Awaits(x, d)

\* the body of _fire's loop from the callback's return on
Return(x) ==
  /\ TopIs("callback")
  /\ Returnable(x, Top.d)
  /\ LET d == Top.d
         kind == IsKind(x, d)
     IN /\ stack' = Replaced([Top EXCEPT !.pc = "loop", !.result = Boxed(x),
                                         !.linking = @ \/ kind])
        /\ paused' = IF kind THEN [paused EXCEPT ![d] = @ + 1] ELSE paused
        /\ latest' = [latest EXCEPT ![d] = Boxed(x)]
  /\ UNCHANGED <<chain, fired, result, silentlyCancelled, chained, finalizer,
                 finalized, added, ran, settled, owed>>

\* Mutant of FinalizerReturns: the loop is entered again.
FinalizerLoops ==
  /\ TopIs("finalizer")
  /\ stack' = Replaced([Top EXCEPT !.pc = "loop"])
  /\ UNCHANGED <<fields, history>>

FinalizerReturns ==
  /\ TopIs("finalizer")
  /\ stack' = Replaced([Top EXCEPT !.pc = "link"])
  /\ UNCHANGED <<fields, history>>

\* errback: with the cancelled error, from the frames of s, in cancel
CancelErrback(d, s) ==
  /\ Resback(d, CanceledError, paused[d], s)
  /\ settled' = [settled EXCEPT ![d] = Append(@, "cancel")]
  /\ latest' = [latest EXCEPT ![d] = CanceledError]

CancellerReturns ==
  /\ TopIs("canceller")
  /\ IF fired[Top.d] = -1
     THEN CancelErrback(Top.d, Below)
     ELSE /\ stack' = Below
          /\ UNCHANGED <<fired, result, settled, latest>>
  /\ UNCHANGED <<chain, paused, silentlyCancelled, chained, finalizer,
                 finalized, added, ran, owed>>

Raise ==
  /\ "raise" \in Liberties
  /\ Running /\ Top.pc \in ClientPCs
  /\ Unwind
  /\ UNCHANGED <<fields, history>>

-----------------------------------------------------------------------------
(* _fire *)

\* Mutant of Continues: the loop ignores a pause.
ContinuesPaused(d) == chain[d] # <<>>

\* while ([chain count] > 0 && paused == 0)
Continues(d) == chain[d] # <<>> /\ paused[d] = 0

Selected(d, x) == Head(chain[d]).fn[Outcome(x)]

\* [chain removeObjectAtIndex:0], common to the three kinds of callback
TakePair(d) ==
  /\ TopIs("loop")
  /\ Top.d = d
  /\ Continues(d)
  /\ chain' = [chain EXCEPT ![d] = Tail(@)]
  /\ ran' = [ran EXCEPT ![d] = Append(@, Head(chain[d]).id)]
  /\ UNCHANGED <<silentlyCancelled, chained, finalizer, finalized, added,
                 settled, owed>>

Skip(d) ==
  /\ TakePair(d)
  /\ Selected(d, Top.result) = "nil"
  /\ UNCHANGED <<fired, result, paused, stack, latest>>

CallClient(d) ==
  /\ TakePair(d)
  /\ Selected(d, Top.result) = "client"
  /\ stack' = Replaced([Top EXCEPT !.pc = "callback"])
  /\ UNCHANGED <<fired, result, paused, latest>>

\* Mutant of ContinuedPause: the awaited deferred does not release the pause.
PauseKept(p) == p

ContinuedPause(p) == p - 1

\* the callback is [o _continueChain:], which returns nil
ContinueChain(d, o) ==
  /\ TakePair(d)
  /\ Selected(d, Top.result) = o
  /\ paused' = [paused EXCEPT ![o] = ContinuedPause(@)]
  /\ Resback(o, Top.result, paused'[o], Replaced([Top EXCEPT !.result = Boxed("nil")]))
  /\ latest' = [latest EXCEPT ![o] = Top.result, ![d] = Boxed("nil")]

\* if ([chain count] == 0 && paused == 0 && !(finalizer == nil))
Finalizes(d) == chain[d] = <<>> /\ paused[d] = 0 /\ finalizer[d]

\* Mutant of Store: the outcome of the last callback is dropped.
StoreNothing(d, x) == UNCHANGED <<fired, result>>

Store(d, x) ==
  /\ fired' = [fired EXCEPT ![d] = Outcome(x)]
  /\ result' = [result EXCEPT ![d] = x]

\* the loop is over: the outcome is stored and the finalizer called
Exit(d) ==
  /\ TopIs("loop")
  /\ Top.d = d
  /\ ~Continues(d)
  /\ Store(d, Top.result)
  /\ finalized' = [finalized EXCEPT ![d] = @ \/ Finalizes(d)]
  /\ stack' = Replaced([Top EXCEPT !.pc = IF Finalizes(d) THEN "finalizer" ELSE "link"])
  /\ UNCHANGED <<chain, paused, silentlyCancelled, chained, finalizer, history>>

\* if (! (cb == nil) && paused)
Links(d) == Top.linking /\ paused[d] # 0

Continuation(d) == [i \in {0, 1} |-> d]

\* [result addBoth:cb]
Link(d) ==
  /\ TopIs("link")
  /\ Top.d = d
  /\ Links(d)
  /\ LET x == Top.result
     IN IF x \in Deferreds /\ Reusable(x)
        THEN /\ chain' = Chain(x, Continuation(d))
             /\ added' = added + 1
             /\ stack' = FireIfFired(x, Replaced([Top EXCEPT !.pc = "chain",
                                                             !.linking = FALSE]))
        ELSE /\ Unwind
             /\ UNCHANGED <<chain, added>>
  /\ UNCHANGED <<fired, result, paused, silentlyCancelled, chained, finalizer,
                 finalized, ran, settled, owed, latest>>

FireReturns(d) ==
  /\ TopIs("link")
  /\ Top.d = d
  /\ ~Links(d)
  /\ stack' = Below
  /\ UNCHANGED <<fields, history>>

\* [result setChained:YES]
SetChained(d) ==
  /\ TopIs("chain")
  /\ Top.d = d
  /\ chained' = [chained EXCEPT ![Top.result] = TRUE]
  /\ stack' = Below
  /\ UNCHANGED <<chain, fired, result, paused, silentlyCancelled, finalizer,
                 finalized, history>>

-----------------------------------------------------------------------------
(* cancel *)

CancelUnfired(d) ==
  /\ TopIs("cancel")
  /\ Top.d = d
  /\ fired[d] = -1
  /\ IF d \in HasCanceller
     THEN /\ stack' = Replaced([Top EXCEPT !.pc = "canceller"])
          /\ UNCHANGED <<fired, result, silentlyCancelled, settled, latest>>
     ELSE /\ silentlyCancelled' = [silentlyCancelled EXCEPT ![d] = TRUE]
          /\ CancelErrback(d, Below)
  /\ UNCHANGED <<chain, paused, chained, finalizer, finalized, added, ran, owed>>

\* the last call of cancel: its frame becomes the awaited deferred's
CancelFired(d) ==
  /\ TopIs("cancel")
  /\ Top.d = d
  /\ fired[d] # -1
  /\ stack' = IF fired[d] = 0 /\ IsKind(result[d], d)
              THEN Replaced([Top EXCEPT !.d = result[d]])
              ELSE Below
  /\ UNCHANGED <<fields, history>>

-----------------------------------------------------------------------------
ClientSlots == [{0, 1} -> {"client", "nil"}]

ClientCalls ==
  \E d \in Deferreds :
    \/ \E x \in Inputs : Callback(d, x) \/ Errback(d, x) \/ RejectChained(d, x)
    \/ \E fn \in ClientSlots : AddCallbacks(d, fn)
    \/ SetFinalizer(d)
    \/ Pause(d)
    \/ Resume(d)
    \/ Cancel(d)

ClientReturns ==
  \/ \E x \in Inputs : Return(x)
  \/ FinalizerReturns
  \/ CancellerReturns

TakeStep(d) ==
  \/ Skip(d)
  \/ CallClient(d)
  \/ \E o \in Deferreds : ContinueChain(d, o)

LibraryStep(d) ==
  \/ TakeStep(d)
  \/ Exit(d)
  \/ Link(d)
  \/ FireReturns(d)
  \/ SetChained(d)
  \/ CancelUnfired(d)
  \/ CancelFired(d)

Next == ClientCalls \/ ClientReturns \/ Raise \/ \E d \in Deferreds : LibraryStep(d)

Spec == Init /\ [][Next]_vars

\* The deepest a stack can get: past MaxDepth each frame is pushed by taking a
\* pair or by adding a continuation.
Deepest == MaxDepth + 2 * MaxAdds + 1

\* The library's thread keeps running, and the client code in each frame returns.
Fairness ==
  /\ WF_vars(\E d \in Deferreds : LibraryStep(d))
  /\ \A n \in 1..Deepest : SF_vars(ClientReturns /\ Len(stack) = n)

FairSpec == Spec /\ Fairness

-----------------------------------------------------------------------------
(* Properties *)

\* A deferred accepts one outcome, from an answer or from a cancel.  Only when
\* it was cancelled without a canceller does it accept a second, one late answer
\* of the work it stood for, and the flag that lets it in is up only between
\* the two (_check, cancel).
OneOutcome ==
  \A d \in Deferreds :
    /\ \/ Len(settled[d]) <= 1
       \/ settled[d] = <<"cancel", "answer">> /\ d \notin HasCanceller
    /\ silentlyCancelled[d] => settled[d] = <<"cancel">> /\ d \notin HasCanceller
    /\ fired[d] = -1 <=> settled[d] = <<>>

\* Once the finalizer has been called no callback is left behind and none can
\* be added, whatever the finalizer and later callers do (_fire, addCallbacks).
FinalizedChainEmpty == \A d \in Deferreds : finalized[d] => chain[d] = <<>>

\* A deferred is paused for as many reasons as can still resume it: the
\* client's own pauses, the continuations waiting in other chains (here by
\* their ids), and the activations about to add one (pause, resume, _fire,
\* _continueChain).
Continuations(d) ==
  {n \in 0..added - 1 :
     \E e \in Deferreds : \E k \in 1..Len(chain[e]) :
       chain[e][k].id = n /\ chain[e][k].fn[0] = d}
Linking(d) == {i \in 1..Len(stack) : stack[i].linking /\ stack[i].d = d}
PauseAccounting ==
  \A d \in Deferreds :
    paused[d] = owed[d] + Cardinality(Continuations(d)) + Cardinality(Linking(d))

\* A deferred that has fired and is not paused leaves callbacks in its chain
\* only while an activation of its _fire is there to call them.
NoneStranded ==
  \A d \in Deferreds :
    (fired[d] # -1 /\ paused[d] = 0 /\ chain[d] # <<>>) =>
      \E i \in 1..Len(stack) : stack[i].d = d /\ stack[i].pc \in {"loop", "callback"}

\* Every activation of _fire works on the newest result, and the newest result
\* is what is stored once they are gone ("the last callback added will be
\* called with the result returned by the previous callback").
Activations(d) ==
  {i \in 1..Len(stack) : stack[i].d = d /\ stack[i].pc \in {"loop", "callback"}}
FreshResult ==
  \A d \in Deferreds :
    IF Activations(d) = {} THEN result[d] = latest[d]
    ELSE \A i \in Activations(d) : stack[i].result = latest[d]

\* Callbacks are taken in the order they were added, each once, and only from
\* a deferred that has fired and is not paused.
Ids(c) == [i \in 1..Len(c) |-> c[i].id]
Promise == INSTANCE CallbackChain WITH
  issued <- added,
  pending <- [d \in Deferreds |-> Ids(chain[d])],
  ran <- ran,
  settled <- [d \in Deferreds |-> fired[d] # -1],
  held <- [d \in Deferreds |-> paused[d] # 0]
InOrder == Promise!Spec

\* Every call into the library comes back to the run loop.
CallsReturn == Running ~> ~Running

\* A callback of a deferred that has fired and stays unpaused is called.
Delivered ==
  \A d \in Deferreds :
    (fired[d] # -1 /\ paused[d] = 0 /\ chain[d] # <<>>) ~> (chain[d] = <<>> \/ paused[d] # 0)
=============================================================================
