------------------------------- MODULE Events -------------------------------
(***************************************************************************)
(* Connections, threads and locations that answer on one run loop, and a   *)
(* client that waits for them from inside their own callbacks.             *)
(***************************************************************************)
EXTENDS URLConnection, ThreadedDeferred, Location

CONSTANT MaxMade    \* bound: the sources that the client makes

ASSUME EventsAssumption ==
  /\ Sources = Connections \cup Workers \cup Locations
  /\ Connections \cap Workers = {}
  /\ Connections \cap Locations = {}
  /\ Workers \cap Locations = {}
  /\ MaxMade \in Nat

vars == <<loopVars, connectionVars, worker, locationVars>>

\* Only threaded deferreds take a canceller.
Init ==
  /\ LoopInit(Workers)
  /\ ConnectionInit
  /\ WorkerInit
  /\ LocationInit

Made ==
  {c \in Connections : connection[c] # "none"}
    \cup {w \in Workers : worker[w] # "none"}
    \cup {l \in Locations : manager[l] # "none"}

\* Of a connection that is paused the client holds only the gate.
Cancellable == {s \in Made : s \in Connections => connection[s] # "paused"}

\* Something will answer s; and addBoth: does not raise, as it does for a
\* connection that a timer has started.
Waitable ==
  {s \in Cancellable : s \notin chained /\ (s \in Workers => worker[s] # "made")}

Client == Event \/ (\E s \in Cancellable : Cancel(s)) \/ (\E s \in Waitable : Wait(s))

\* A step of one part, which leaves the others alone
OfLoop(A) == A /\ UNCHANGED <<connectionVars, worker, locationVars>>
OfConnections(A) == A /\ UNCHANGED <<worker, locationVars>>
OfWorkers(A) == A /\ UNCHANGED <<connectionVars, locationVars>>
OfLocations(A) == A /\ UNCHANGED <<connectionVars, worker>>

Makes ==
  \/ \E c \in Connections : OfConnections(Make(c) \/ MakePaused(c))
  \/ \E w \in Workers : OfWorkers(MakeThread(w))
  \/ \E l \in Locations : OfLocations(GetLocation(l))

Next ==
  \/ OfLoop(Client \/ LoopStep)
  \/ Cardinality(Made) < MaxMade /\ Makes
  \/ \E c \in Connections : OfConnections(ConnectionNext(c) \/ ConnectionStep(c))
  \/ \E w \in Workers : OfWorkers(WorkerNext(w))
  \/ \E l \in Locations : OfLocations(LocationNext(l))

Spec == Init /\ [][Next]_vars

\* Client code, and the code that called it, returns.
Returns ==
  \/ OfLoop(EventReturns \/ CallbackReturns)
  \/ \E c \in Connections : OfConnections(ConnectionStep(c))

\* What the run loop serves is only now and then enabled: other events come,
\* and their client code is on top, between two of its rounds.
Fairness ==
  /\ WF_vars(Returns)
  /\ SF_vars(OfLoop(WaitReturns))
  /\ \A c \in Connections : SF_vars(OfConnections(ConnectionEnds(c)))
  /\ \A w \in Workers :
       WF_vars(OfWorkers(FunctionReturns(w))) /\ SF_vars(OfWorkers(ReturnFromThread(w)))
  /\ \A l \in Locations : SF_vars(OfLocations(Timeout(l)))

FairSpec == Spec /\ Fairness

-----------------------------------------------------------------------------
(* Properties *)

TypeOK == LoopTypeOK /\ ConnectionTypeOK /\ WorkerTypeOK /\ LocationTypeOK

\* AlreadyCalledError, and the error for a deferred as a result, reach the run
\* loop only from a thread whose function outlived a canceller or returned a
\* deferred, and from a location manager that reports after it was stopped:
\* never from a connection, however often it fails ("could be multiple errors,
\* only errback on the first") and whatever was cancelled before.
RaisesOnly ==
  \A s \in raisedBy :
    \/ s \in Workers /\ (s \in cancelled \cap hasCanceller \/ worker[s] = "rejected")
    \/ s \in Locations /\ "late" \in Liberties

Waiting(s) == \E i \in DOMAIN stack : stack[i].pc = "wait" /\ stack[i].s = s

\* Every waitForDeferred returns, whatever is waited for above it, unless an
\* exception has unwound what it was waiting for (DKWaitForDeferred result).
WaitsEnd ==
  \A s \in Sources : Waiting(s) ~> (~Waiting(s) \/ raisedBy # {})
=============================================================================
