-------------------------- MODULE ThreadedDeferred --------------------------
(***************************************************************************)
(* DKThreadedDeferred and DKDeferredOperation: a function that runs in     *)
(* another thread and whose result is delivered to the thread that made    *)
(* the deferred, by its run loop.                                          *)
(***************************************************************************)
EXTENDS RunLoop

CONSTANT Workers

VARIABLE
  worker     \* worker[w]: what has become of its function

Results == {"value", "error", "deferred"}

\* "none": not made yet; a member of Results: what the function returned is
\* posted to the parent thread; "rejected": it was a deferred.
WorkerTypeOK ==
  worker \in [Workers -> {"none", "made", "running", "done", "rejected"} \cup Results]

WorkerInit == worker = [w \in Workers |-> "none"]

-----------------------------------------------------------------------------

\* The initializer starts the thread; a paused deferred and an operation wait.
MakeThread(w) ==
  /\ ClientRuns
  /\ worker[w] = "none"
  /\ \E st \in {"made", "running"} : worker' = [worker EXCEPT ![w] = st]
  /\ UNCHANGED loopVars

\* _cbStartThread: when the client resumes the gate, or the client has a queue
\* start the operation, _cbStartOperation: among the ways.
StartThread(w) ==
  /\ ClientRuns
  /\ worker[w] = "made"
  /\ worker' = [worker EXCEPT ![w] = "running"]
  /\ UNCHANGED loopVars

\* In its own thread, the function returns and performSelector: posts what it
\* returned to the parent thread.
FunctionReturns(w) ==
  /\ worker[w] = "running"
  /\ \E r \in Results : worker' = [worker EXCEPT ![w] = r]
  /\ UNCHANGED loopVars

\* The function returned a value (0) or an error (1).
Delivers(w, o) == worker[w] = (IF o = 1 THEN "error" ELSE "value")

\* _cbReturnFromThread: and _cbReturnFromOp:
ReturnFromThread(w) ==
  /\ Spinning
  /\ \/ /\ \E o \in {0, 1} : Delivers(w, o) /\ Answer(w, o, stack)
        /\ worker' = [worker EXCEPT ![w] = "done"]
     \/ /\ worker[w] = "deferred"
        /\ Raise(w) /\ UNCHANGED <<deferreds, cancelled>>
        /\ worker' = [worker EXCEPT ![w] = "rejected"]

WorkerNext(w) == StartThread(w) \/ FunctionReturns(w) \/ ReturnFromThread(w)
=============================================================================
