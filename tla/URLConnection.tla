--------------------------- MODULE URLConnection ---------------------------
(***************************************************************************)
(* DKDeferredURLConnection: how a connection is started, the calls that    *)
(* NSURLConnection makes to its delegate, and the count of requests.       *)
(***************************************************************************)
EXTENDS RunLoop

CONSTANT Connections

ASSUME ConnectionsAssumption == IsFiniteSet(Connections)

VARIABLES
  connection,           \* connection[c]: where the request of c is
  chained,              \* the connections that the deferred of a timer awaits
  urlConnectionCount    \* __urlConnectionCount

connectionVars == <<connection, chained, urlConnectionCount>>

ConnectionTypeOK ==
  /\ connection \in [Connections -> {"none", "delayed", "paused", "loading", "ended", "failed"}]
  /\ chained \subseteq Connections
  /\ urlConnectionCount \in Nat

ConnectionInit ==
  /\ connection = [c \in Connections |-> "none"]
  /\ chained = {}
  /\ urlConnectionCount = 0

-----------------------------------------------------------------------------

\* The connection starts to load, ...
Loads(c) ==
  /\ connection' = [connection EXCEPT ![c] = "loading"]
  /\ urlConnectionCount' = urlConnectionCount + 1
  /\ UNCHANGED loopVars

\* ... or cannot be made.
Ends(c) ==
  /\ connection' = [connection EXCEPT ![c] = "ended"]
  /\ UNCHANGED urlConnectionCount

\* errback: before the initializer returns, when there are no callbacks yet
MakeFails(c) ==
  /\ Ends(c)
  /\ fired' = [fired EXCEPT ![c] = 1]
  /\ UNCHANGED <<silentlyCancelled, hasCanceller, history, stack>>

\* initWithRequest:pauseFor:decodeFunction: and initRequest:decodeFunction:paused:
\* without a pause
Make(c) ==
  /\ ClientRuns
  /\ connection[c] = "none"
  /\ Loads(c) \/ MakeFails(c)
  /\ UNCHANGED chained

\* ... and with one, or with a gate that the client resumes
MakePaused(c) ==
  /\ ClientRuns
  /\ connection[c] = "none"
  /\ \E p \in {"delayed", "paused"} : connection' = [connection EXCEPT ![c] = p]
  /\ UNCHANGED <<chained, urlConnectionCount, loopVars>>

\* _cbStartLoading: from the timer of callLater:func:, whose deferred is given
\* the connection as a result and chains it: nobody can add callbacks to it now.
StartLoading(c) ==
  /\ Spinning
  /\ connection[c] = "delayed"
  /\ Loads(c) \/ (Ends(c) /\ Answer(c, 1, stack))
  /\ chained' = chained \cup {c}

\* _cbStartLoading: from the gate.  The client holds the gate, which awaits c.
ResumeLoading(c) ==
  /\ ClientRuns
  /\ connection[c] = "paused"
  /\ Loads(c) \/ (Ends(c) /\ Answer(c, 1, stack))
  /\ UNCHANGED chained

\* Each delegate call first reports to the progress callback, client code.
Report(c, after) == Proceed(Append(stack, Frame("progress", c, after)))

\* connection:didReceiveResponse: and connection:didReceiveData:
DidReceive(c) ==
  /\ Spinning
  /\ connection[c] = "loading"
  /\ Len(stack) < MaxDepth
  /\ Report(c, "nothing")
  /\ UNCHANGED connectionVars

\* connection:didFailWithError:
DidFail(c) ==
  /\ Spinning
  /\ connection[c] = "loading" \/ ("late" \in Liberties /\ connection[c] = "failed")
  /\ connection' = [connection EXCEPT ![c] = "failed"]
  /\ Report(c, "fail")
  /\ UNCHANGED <<chained, urlConnectionCount>>

DidFinish(c) ==
  /\ Spinning
  /\ connection[c] = "loading"
  /\ connection' = [connection EXCEPT ![c] = "ended"]
  /\ Report(c, "finish")
  /\ UNCHANGED <<chained, urlConnectionCount>>

ReceiveReturns(c) ==
  /\ TopIs("progress") /\ Top.s = c /\ Top.after = "nothing"
  /\ Proceed(Below)
  /\ UNCHANGED connectionVars

\* Mutant of FirstError: every error is passed on.
FirstErrorAny(c) == TRUE

\* "could be multiple errors, only errback on the first"
FirstError(c) == fired[c] = -1

\* Mutant of FailReturns: every error counts down, also one that is not passed on.
FailReturnsUncounting(c) ==
  /\ TopIs("progress") /\ Top.s = c /\ Top.after = "fail"
  /\ LET st == Append(Below, Frame("uncount", c, "nothing"))
     IN IF FirstError(c) THEN Answer(c, 1, st) ELSE Proceed(st)
  /\ UNCHANGED connectionVars

\* ... and the count goes down once errback: has run the callbacks.
FailReturns(c) ==
  /\ TopIs("progress") /\ Top.s = c /\ Top.after = "fail"
  /\ IF FirstError(c)
     THEN Answer(c, 1, Append(Below, Frame("uncount", c, "nothing")))
     ELSE Proceed(Below)
  /\ UNCHANGED connectionVars

Uncount(c) ==
  /\ TopIs("uncount") /\ Top.s = c
  /\ urlConnectionCount' = urlConnectionCount - 1
  /\ Proceed(Below)
  /\ UNCHANGED <<connection, chained>>

\* Mutant of CountFinished: only one that nobody has cancelled counts down.
CountFinishedUncancelled(c) == IF fired[c] = -1 THEN urlConnectionCount - 1 ELSE urlConnectionCount

CountFinished(c) == urlConnectionCount - 1

\* The decode function may make an error of the data; it calls nothing back.
FinishReturns(c) ==
  /\ TopIs("progress") /\ Top.s = c /\ Top.after = "finish"
  /\ urlConnectionCount' = CountFinished(c)
  /\ \E o \in {0, 1} : Answer(c, o, Below)
  /\ UNCHANGED <<connection, chained>>

\* The end of a request is NSURLConnection's to deliver.
ConnectionEnds(c) == StartLoading(c) \/ DidFail(c) \/ DidFinish(c)

ConnectionStep(c) ==
  ReceiveReturns(c) \/ FailReturns(c) \/ Uncount(c) \/ FinishReturns(c)

ConnectionNext(c) ==
  StartLoading(c) \/ ResumeLoading(c) \/ DidReceive(c) \/ DidFail(c) \/ DidFinish(c)

-----------------------------------------------------------------------------
(* Properties *)

Loading == {c \in Connections : connection[c] = "loading"}

\* The request is over, and what is on the stack will count it down
Ending ==
  {c \in Connections :
     \E i \in DOMAIN stack :
       /\ stack[i].s = c
       /\ \/ stack[i].pc = "uncount"
          \/ stack[i].pc = "progress" /\ stack[i].after = "finish"
          \/ stack[i].pc = "progress" /\ stack[i].after = "fail" /\ fired[c] = -1}

\* A request that fails after its deferred was cancelled is never counted down.
Leaked == {c \in cancelled \cap Connections : connection[c] = "failed"}

\* The count of requests is exact but for those: every path a request can take,
\* at any depth of waits, counts it up once and down once
\* (initRequest:, _cbStartLoading:, didFailWithError:, connectionDidFinishLoading:).
CountExact ==
  raisedBy = {} => urlConnectionCount = Cardinality(Loading \cup Ending \cup Leaked)

\* requestCount "tracks how many DKDeferredURLConnections are currently active"
\* (DKDeferred.h): once the stack has unwound, only requests that load count.
RequestCount ==
  raisedBy = {} /\ stack = <<>> => urlConnectionCount = Cardinality(Loading)
=============================================================================
