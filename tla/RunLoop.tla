------------------------------ MODULE RunLoop ------------------------------
(***************************************************************************)
(* The run loop of one thread, the deferreds that its events answer, the   *)
(* client that cancels them, and DKWaitForDeferred, which runs the loop    *)
(* again from inside client code until its own deferred has answered.      *)
(*                                                                         *)
(* Events are delivered while the loop runs: with an empty stack, or on    *)
(* top of a wait.  Of a deferred only what its source touches is kept      *)
(* here; its chain is the client's callbacks and the _get: of the waits.   *)
(***************************************************************************)
EXTENDS Integers, Sequences, FiniteSets

CONSTANTS
  Sources,        \* the deferreds that events answer
  Liberties,      \* what sources do beyond their contract, see below
  Null,
  MaxDepth        \* bound: frames on the stack when the client makes a call

(***************************************************************************)
(* With "late" a source sends an event that was on its way when it ended,  *)
(* or fails twice.                                                         *)
(***************************************************************************)
ASSUME RunLoopAssumption ==
  Null \notin Sources /\ Liberties \subseteq {"late"} /\ MaxDepth \in Nat

VARIABLES
  fired,
  silentlyCancelled,
  hasCanceller,   \* the sources made with a canceller
  stack,
  \* history
  cancelled,      \* the sources that cancel has fired
  raisedBy        \* the sources whose event has raised an exception

deferreds == <<fired, silentlyCancelled, hasCanceller>>
history == <<cancelled, raisedBy>>
loopVars == <<deferreds, stack, history>>

ClientPCs == {"client", "callback", "progress"}
Frames ==
  [pc : ClientPCs \cup {"wait", "uncount"}, s : Sources \cup {Null},
   running : BOOLEAN,   \* of a wait: its own running
   after : {"nothing", "get", "fail", "finish"}]  \* what follows client code

LoopTypeOK ==
  /\ fired \in [Sources -> {-1, 0, 1}]
  /\ silentlyCancelled \in [Sources -> BOOLEAN]
  /\ hasCanceller \subseteq Sources
  /\ stack \in Seq(Frames)
  /\ cancelled \subseteq Sources
  /\ raisedBy \subseteq Sources

\* C: the sources that may have a canceller
LoopInit(C) ==
  /\ fired = [s \in Sources |-> -1]
  /\ silentlyCancelled = [s \in Sources |-> FALSE]
  /\ hasCanceller \in SUBSET C
  /\ stack = <<>>
  /\ cancelled = {}
  /\ raisedBy = {}

-----------------------------------------------------------------------------
(* The stack *)

Top == stack[Len(stack)]
TopIs(pc) == stack # <<>> /\ Top.pc = pc
Below == SubSeq(stack, 1, Len(stack) - 1)
Frame(pc, s, after) == [pc |-> pc, s |-> s, running |-> pc = "wait", after |-> after]

Spinning == stack # <<>> => Top.pc = "wait"
ClientRuns == stack # <<>> /\ Top.pc \in ClientPCs

\* An event of s raises: the frames down to some client code that catches it,
\* or to the outermost run loop, are gone.
Raise(s) ==
  /\ \E k \in 0..Len(stack) :
       /\ k > 0 => stack[k].pc \in ClientPCs
       /\ stack' = SubSeq(stack, 1, k)
  /\ raisedBy' = raisedBy \cup {s}

-----------------------------------------------------------------------------
(* callback: and errback: *)

\* Mutant of Woken: a wait that another one lies above is not told.
WokenTop(s, st) ==
  [i \in DOMAIN st |-> IF i = Len(st) /\ st[i].s = s THEN [st[i] EXCEPT !.running = FALSE] ELSE st[i]]

\* _get: of every wait for s in the frames st
Woken(s, st) ==
  [i \in DOMAIN st |->
     IF st[i].pc = "wait" /\ st[i].s = s THEN [st[i] EXCEPT !.running = FALSE] ELSE st[i]]

\* The chain of s is run from the frames st: the client's callbacks, and the
\* waits' _get: after or before them.  A second outcome finds of it at most the
\* _get: that a callback of the first keeps waiting.
RunChain(s, st) ==
  IF fired[s] # -1 THEN stack' = Woken(s, st)
  ELSE \/ stack' = Append(Woken(s, st), Frame("callback", s, "nothing"))
       \/ /\ Woken(s, st) # st
          /\ stack' = Append(st, Frame("callback", s, "get"))

Accepts(s) == fired[s] = -1 \/ silentlyCancelled[s]

\* The source answers s with outcome o, called from the frames st.
Answer(s, o, st) ==
  IF Accepts(s)
  THEN /\ fired' = [fired EXCEPT ![s] = o]
       /\ silentlyCancelled' = [silentlyCancelled EXCEPT ![s] = fired[s] = -1 /\ @]
       /\ RunChain(s, st)
       /\ UNCHANGED <<hasCanceller, cancelled, raisedBy>>
  ELSE Raise(s) /\ UNCHANGED <<deferreds, cancelled>>

\* The frames are now st, and nothing else of the loop has changed.
Proceed(st) == stack' = st /\ UNCHANGED <<deferreds, history>>

-----------------------------------------------------------------------------
(* The client *)

\* Something outside the model calls the client from the run loop.
Event ==
  /\ Spinning
  /\ Len(stack) < MaxDepth
  /\ Proceed(Append(stack, Frame("client", Null, "nothing")))

\* cancel; a canceller, the source's own, stops what it can, calls nobody and
\* leaves the answer to cancel.
Cancel(s) ==
  /\ ClientRuns
  /\ fired[s] = -1
  /\ fired' = [fired EXCEPT ![s] = 1]
  /\ silentlyCancelled' = [silentlyCancelled EXCEPT ![s] = s \notin hasCanceller]
  /\ cancelled' = cancelled \cup {s}
  /\ RunChain(s, stack)
  /\ UNCHANGED <<hasCanceller, raisedBy>>

\* The client does not wait for a connection whose progress callback is below:
\* the delegate call that made it may be the one that answers, and never would.
Answerable(s) == \A i \in DOMAIN stack : ~(stack[i].pc = "progress" /\ stack[i].s = s)

\* waitForDeferred(s).  If s has fired its chain is run at once, with the _get:
\* of the waits below that client code has kept waiting.
Wait(s) ==
  /\ ClientRuns
  /\ Answerable(s)
  /\ IF fired[s] = -1
     THEN Len(stack) < MaxDepth /\ Proceed(Append(stack, Frame("wait", s, "nothing")))
     ELSE Proceed(Woken(s, stack))

\* Mutant of WaitOver: the loop ends after one round.
WaitOverAtOnce == TRUE

\* while (running)
WaitOver == ~Top.running

WaitReturns ==
  /\ TopIs("wait")
  /\ WaitOver
  /\ Proceed(Below)

EventReturns ==
  /\ TopIs("client")
  /\ Proceed(Below)

CallbackReturns ==
  /\ TopIs("callback")
  /\ Proceed(IF Top.after = "get" THEN Woken(Top.s, Below) ELSE Below)

LoopStep == WaitReturns \/ EventReturns \/ CallbackReturns

-----------------------------------------------------------------------------
(* Properties *)

\* A wait sleeps only while its own deferred has no answer, or while client
\* code that runs above it, on its deferred's own chain, comes before its
\* _get:; an exception that unwinds that chain leaves it asleep for ever.
NoLostWakeup ==
  raisedBy = {} =>
    \A i \in DOMAIN stack :
      stack[i].pc = "wait" /\ stack[i].running =>
        \/ fired[stack[i].s] = -1
        \/ \E j \in i + 1..Len(stack) :
             stack[j].pc = "callback" /\ stack[j].s = stack[i].s /\ stack[j].after = "get"

\* waitForDeferred never returns without an answer (DKWaitForDeferred).
AnsweredWait ==
  [][WaitReturns => fired[Top.s] # -1]_loopVars
=============================================================================
