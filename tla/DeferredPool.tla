---------------------------- MODULE DeferredPool ----------------------------
(***************************************************************************)
(* DKDeferredPool: a queue of deferreds that wait for callback:nil, and a  *)
(* table of those that got it and have not finished, limited to a number   *)
(* of entries.  The queue is the KeyedQueue that PriorityQueue implements, *)
(* under the pool's default selector.                                      *)
(*                                                                         *)
(* A pooled deferred is a gate: when the pool fires it, its first callback *)
(* (client code) starts the real work and returns the deferred that stands *)
(* for it.  A gate of class DKDeferred then awaits that one; a gate of     *)
(* class DKDeferredWrapper, which the work is not, passes it on as a plain *)
(* value, and the pool hooks itself to the work instead.  The pool's       *)
(* methods run on any thread; each thread has a call stack, whose last     *)
(* frame is running.                                                       *)
(***************************************************************************)
EXTENDS Integers, Sequences, FiniteSets, Functions

CONSTANTS
  Threads,
  Deferreds,  \* the gates
  Wrappers,   \* the gates of class DKDeferredWrapper
  Keys,
  Null,
  Date,       \* Date[d]: when d was made; the newest goes first
  Limits,     \* the values concurrency can take
  Liberties,  \* what the client does beyond orderly use, see below
  MaxDepth    \* bound: frames of a thread when client code makes a call

(***************************************************************************)
(* An orderly client adds under keys that are not in use, leaves a gate    *)
(* alone until the pool has fired it, and calls no pool from its finalizer.*)
(* With                                                                    *)
(*   "duplicate"  it adds under a key that waits,                          *)
(*   "reuse"      it adds under a key whose gate has been fired,           *)
(*   "cancel"     it cancels gates that still wait,                        *)
(*   "drain"      it drains the pool,                                      *)
(*   "limit"      it changes the concurrency while the pool is at work,    *)
(*   "finalize"   its finalizer calls the pool,                            *)
(*   "raise"      its callbacks raise.                                     *)
(***************************************************************************)
AllLiberties == {"duplicate", "reuse", "cancel", "drain", "limit", "finalize", "raise"}

ASSUME PoolAssumption ==
  /\ Wrappers \subseteq Deferreds
  /\ Date \in [Deferreds -> Nat]
  /\ Limits \subseteq Nat
  /\ Liberties \subseteq AllLiberties
  /\ MaxDepth \in Nat
  /\ Null \notin Threads \cup Keys \cup Deferreds

VARIABLES
  queue,        \* _queue: key -> gate
  running,      \* _runningDeferreds: key -> [d, part], the gate or its work
  concurrency,
  finalizeFunc, \* one is set
  wLock,        \* the thread that holds it, or Null
  state,        \* state[d]: of gate d and the work behind it
  hook,         \* hook[d]: the key _cbRemoveDeferred waits with on d or its work
  stack,        \* stack[t]
  keyOf,        \* history: the key d was added under, or Null
  drained       \* history: gates waiting or at work when the last drain began

pool == <<queue, running, concurrency, finalizeFunc, wLock>>
gates == <<state, hook>>
history == <<keyOf, drained>>
vars == <<pool, gates, stack, history>>

(***************************************************************************)
(* "idle"       not fired                                                  *)
(* "starting"   fired by the pool, its first callback has not returned     *)
(* "started"    awaits its work                                            *)
(* "handed"     passed its work on, which is not done                      *)
(* "done"       fired by the pool, and its work is done                    *)
(* "cancelled"  cancelled instead, which forgives one callback:            *)
(* "spent"      cancelled, then fired by the pool, to no effect            *)
(***************************************************************************)
States == {"idle", "starting", "started", "handed", "done", "cancelled", "spent"}
Active == {"starting", "started", "handed"}

Slots == [d : Deferreds, part : {"gate", "work"}]
ClientPCs == {"callback", "finalize"}
CodePCs == {"enqueue", "hook", "reject", "resume", "fill", "start",
            "handover", "rehook", "remove", "drain", "drainqueue"}
Frames == [pc : ClientPCs \cup CodePCs,
           d : Deferreds \cup {Null}, k : Keys \cup {Null},
           list : Seq(Deferreds), todo : SUBSET Slots]

Frame(pc, d, k) == [pc |-> pc, d |-> d, k |-> k, list |-> <<>>, todo |-> {}]

Partial(S, T) == UNION {[D -> T] : D \in SUBSET S}

\* Every variable has its type.
TypeOK ==
  /\ queue \in Partial(Keys, Deferreds)
  /\ running \in Partial(Keys, Slots)
  /\ concurrency \in Nat
  /\ finalizeFunc \in BOOLEAN
  /\ wLock \in Threads \cup {Null}
  /\ state \in [Deferreds -> States]
  /\ hook \in [Deferreds -> Keys \cup {Null}]
  /\ stack \in [Threads -> Seq(Frames)]
  /\ keyOf \in [Deferreds -> Keys \cup {Null}]
  /\ drained \subseteq Deferreds

Init ==
  /\ queue = [k \in {} |-> Null]
  /\ running = [k \in {} |-> Null]
  /\ concurrency \in Limits
  /\ finalizeFunc = FALSE
  /\ wLock = Null
  /\ state = [d \in Deferreds |-> "idle"]
  /\ hook = [d \in Deferreds |-> Null]
  /\ stack = [t \in Threads |-> <<>>]
  /\ keyOf = [d \in Deferreds |-> Null]
  /\ drained = {}

-----------------------------------------------------------------------------
(* Stacks *)

Busy(t) == stack[t] # <<>>
Top(t) == stack[t][Len(stack[t])]
TopIs(t, pc) == Busy(t) /\ Top(t).pc = pc
Below(t) == SubSeq(stack[t], 1, Len(stack[t]) - 1)
Replaced(t, f) == [stack[t] EXCEPT ![Len(stack[t])] = f]
Goto(t, pc) == Replaced(t, [Top(t) EXCEPT !.pc = pc])
Set(t, s) == stack' = [stack EXCEPT ![t] = s]


ClientRuns(t) ==
  /\ Busy(t) => Top(t).pc \in ClientPCs
  /\ Len(stack[t]) < MaxDepth
  /\ "finalize" \notin Liberties => ~TopIs(t, "finalize")

AllFrames == UNION {{stack[t][i] : i \in 1..Len(stack[t])} : t \in Threads}

Bind(f, k, x) == [j \in DOMAIN f \cup {k} |-> IF j = k THEN x ELSE f[j]]
Unbind(f, k) == Restrict(f, DOMAIN f \ {k})

\* wLock is not recursive: its own holder waits for it like any other thread.
Unlocked == wLock = Null

Resuming == Frame("resume", Null, Null)

\* d's chain, or its work's, has run up to the pool's callback, which is taken
\* and called from the frames s.  The client's own callbacks before it in that
\* chain call no pool.
Settle(t, d, new, s) ==
  /\ state' = [state EXCEPT ![d] = new]
  /\ hook' = [hook EXCEPT ![d] = Null]
  /\ Set(t, IF hook[d] = Null THEN s ELSE Append(s, Frame("remove", d, hook[d])))

\* [x cancel] for a gate or its work, from the frames s.  A gate follows only
\* the work it awaits; what has finished, or is still starting, does nothing.
CancelSlot(t, x, s) ==
  IF state[x.d] = "idle" THEN Settle(t, x.d, "cancelled", s)
  ELSE IF state[x.d] = "started" \/ (state[x.d] = "handed" /\ x.part = "work")
  THEN Settle(t, x.d, "done", s)
  ELSE Set(t, s) /\ UNCHANGED gates

-----------------------------------------------------------------------------
(* add:key: *)

\* A gate that was added under k has been fired and not removed.  The orderly
\* client knows; the code asks the queue only.
Fired(k) == k \in DOMAIN running \/ \E f \in AllFrames : f.k = k

Add(t, d, k) ==
  /\ ClientRuns(t)
  /\ state[d] = "idle"
  /\ keyOf[d] = Null
  /\ \A f \in AllFrames : f.pc \in {"enqueue", "reject"} => f.d # d
  /\ "duplicate" \notin Liberties => k \notin DOMAIN queue
  /\ "reuse" \notin Liberties => ~Fired(k)
  /\ Set(t, Append(stack[t], Frame("enqueue", d, k)))
  /\ UNCHANGED <<pool, gates, history>>

Enqueue(t) ==
  LET d == Top(t).d
      k == Top(t).k
  IN
  /\ TopIs(t, "enqueue")
  /\ Unlocked
  /\ IF k \in DOMAIN queue
     THEN Set(t, Goto(t, "reject")) /\ UNCHANGED <<queue, keyOf>>
     ELSE /\ queue' = Bind(queue, k, d)
          /\ keyOf' = [keyOf EXCEPT ![d] = k]
          /\ Set(t, Goto(t, "hook"))
  /\ UNCHANGED <<running, concurrency, finalizeFunc, wLock, gates, drained>>

\* addBoth: finds the chain waiting, or calls the pool's callback at once: with
\* the work if that is the gate's result, and ahead of the result if the gate's
\* first callback is still running on another thread.
Hook(t) ==
  LET d == Top(t).d
      k == Top(t).k
      called == IF state[d] = "handed" \/ (state[d] = "done" /\ d \in Wrappers)
                THEN "handover" ELSE "remove"
  IN
  /\ TopIs(t, "hook")
  /\ IF state[d] \in {"idle", "started"}
     THEN hook' = [hook EXCEPT ![d] = k] /\ Set(t, Replaced(t, Resuming))
     ELSE /\ Set(t, Append(Replaced(t, Resuming), Frame(called, d, k)))
          /\ UNCHANGED hook
  /\ UNCHANGED <<pool, state, history>>

Reject(t) ==
  /\ TopIs(t, "reject")
  /\ CancelSlot(t, [d |-> Top(t).d, part |-> "gate"], Replaced(t, Resuming))
  /\ UNCHANGED <<pool, history>>

-----------------------------------------------------------------------------
(* _resumeWaiting *)

ResumeLock(t) ==
  /\ TopIs(t, "resume")
  /\ Unlocked
  /\ wLock' = t
  /\ Set(t, Goto(t, "fill"))
  /\ UNCHANGED <<queue, running, concurrency, finalizeFunc, gates, history>>

\* What compareDates: puts first in the queue.
Firsts ==
  {k \in DOMAIN queue : \A j \in DOMAIN queue : Date[queue[j]] <= Date[queue[k]]}

\* Mutant of SlotFree: one too many.
SlotFreeOffByOne == Cardinality(DOMAIN running) <= concurrency

SlotFree == Cardinality(DOMAIN running) < concurrency

\* Mutant of Dequeued: the gate is looked at and stays in the queue.
Peeked(k) == queue

Dequeued(k) == Unbind(queue, k)

Fill(t) ==
  /\ TopIs(t, "fill")
  /\ SlotFree
  /\ \E k \in Firsts :
       /\ queue' = Dequeued(k)
       /\ running' = Bind(running, k, [d |-> queue[k], part |-> "gate"])
       /\ Set(t, Replaced(t, [Top(t) EXCEPT !.list = Append(@, queue[k])]))
  /\ UNCHANGED <<concurrency, finalizeFunc, wLock, gates, history>>

\* _checkFinalization
Finalizes == finalizeFunc /\ DOMAIN queue = {} /\ DOMAIN running = {}

\* Mutant of Release: the gates are fired before the lock is given up.
ReleaseNever == wLock

Release == Null

Filled(t) ==
  /\ TopIs(t, "fill")
  /\ ~SlotFree \/ DOMAIN queue = {}
  /\ IF Finalizes
     THEN Set(t, Goto(t, "finalize")) /\ UNCHANGED wLock
     ELSE Set(t, Goto(t, "start")) /\ wLock' = Release
  /\ UNCHANGED <<queue, running, concurrency, finalizeFunc, gates, history>>

\* [finalizeFunc :self] was client code, run with the lock held.
FinalizeReturns(t) ==
  /\ TopIs(t, "finalize")
  /\ Set(t, Goto(t, "start"))
  /\ wLock' = Release
  /\ UNCHANGED <<queue, running, concurrency, finalizeFunc, gates, history>>

\* [d callback:nil] for the next of the gates taken from the queue.  One that
\* was cancelled meanwhile swallows the call.
Start(t) ==
  LET d == Head(Top(t).list)
      left == Replaced(t, [Top(t) EXCEPT !.list = Tail(@)])
  IN
  /\ TopIs(t, "start")
  /\ Top(t).list # <<>>
  /\ \/ /\ state[d] = "idle"
        /\ state' = [state EXCEPT ![d] = "starting"]
        /\ Set(t, Append(left, Frame("callback", d, Null)))
     \/ /\ state[d] = "cancelled"
        /\ state' = [state EXCEPT ![d] = "spent"]
        /\ Set(t, left)
  /\ UNCHANGED <<pool, hook, history>>

ResumeReturns(t) ==
  /\ TopIs(t, "start")
  /\ Top(t).list = <<>>
  /\ Set(t, Below(t))
  /\ UNCHANGED <<pool, gates, history>>

-----------------------------------------------------------------------------
(* The gate's first callback, the work, and _cbRemoveDeferred *)

\* Mutant of PassedOn: what the callback is given is never taken for a deferred.
PassedOnNever(d) == FALSE

\* isDeferred(results): a wrapper's result is its work, done or not.
PassedOn(d) == d \in Wrappers

\* The gate's first callback returns: a value or work that is done, or work
\* that is not.
StartReturns(t) ==
  LET d == Top(t).d
      given == Append(Below(t), Frame("handover", d, hook[d]))
  IN
  /\ TopIs(t, "callback")
  /\ \E done \in BOOLEAN :
       IF d \in Wrappers
       THEN /\ state' = [state EXCEPT ![d] = IF done THEN "done" ELSE "handed"]
            /\ hook' = [hook EXCEPT ![d] = Null]
            /\ Set(t, IF hook[d] = Null THEN Below(t)
                      ELSE IF PassedOn(d) THEN given
                      ELSE Append(Below(t), Frame("remove", d, hook[d])))
       ELSE IF done THEN Settle(t, d, "done", Below(t))
       ELSE /\ state' = [state EXCEPT ![d] = "started"]
            /\ Set(t, Below(t))
            /\ UNCHANGED hook
  /\ UNCHANGED <<pool, history>>

\* The work ends, from the run loop.
Finish(t, d) ==
  /\ ~Busy(t)
  /\ state[d] \in {"started", "handed"}
  /\ Settle(t, d, "done", <<>>)
  /\ UNCHANGED <<pool, history>>

\* Mutant of Handover: the pool does not add itself to the work.
HandoverForgets(t) ==
  LET d == Top(t).d
      k == Top(t).k
  IN
  /\ TopIs(t, "handover")
  /\ Unlocked
  /\ running' = Bind(running, k, [d |-> d, part |-> "work"])
  /\ Set(t, Below(t))
  /\ UNCHANGED <<queue, concurrency, finalizeFunc, wLock, gates, history>>

\* _cbRemoveDeferred is given a deferred: its slot is now the work's, ...
Handover(t) ==
  LET d == Top(t).d
      k == Top(t).k
  IN
  /\ TopIs(t, "handover")
  /\ Unlocked
  /\ running' = Bind(running, k, [d |-> d, part |-> "work"])
  /\ Set(t, Goto(t, "rehook"))
  /\ UNCHANGED <<queue, concurrency, finalizeFunc, wLock, gates, history>>

\* ... and the pool adds itself to the work, which may be done.
Rehook(t) ==
  LET d == Top(t).d
      k == Top(t).k
  IN
  /\ TopIs(t, "rehook")
  /\ IF state[d] = "done"
     THEN Set(t, Goto(t, "remove")) /\ UNCHANGED hook
     ELSE Set(t, Below(t)) /\ hook' = [hook EXCEPT ![d] = k]
  /\ UNCHANGED <<pool, state, history>>

\* Mutant of RemoveThen: nothing waiting is resumed.
RemoveThenReturn(t) == Below(t)

RemoveThen(t) == Replaced(t, Resuming)

\* Mutant of Removed: the key stays, without a deferred.
RemovedToNull(k) == Bind(running, k, Null)

Removed(k) == Unbind(running, k)

\* _cbRemoveDeferred is given anything else.
Remove(t) ==
  /\ TopIs(t, "remove")
  /\ Unlocked
  /\ running' = Removed(Top(t).k)
  /\ Set(t, RemoveThen(t))
  /\ UNCHANGED <<queue, concurrency, finalizeFunc, wLock, gates, history>>

-----------------------------------------------------------------------------
(* drain, and the rest of the client *)

\* One at a time: the client does not drain from inside a drain.
Drain(t) ==
  /\ "drain" \in Liberties
  /\ ClientRuns(t)
  /\ \A f \in AllFrames : f.pc \notin {"drain", "drainqueue"}
  /\ Set(t, Append(stack[t], [Frame("drain", Null, Null) EXCEPT
                                !.todo = {running[k] : k \in DOMAIN running}]))
  /\ drained' = {queue[k] : k \in DOMAIN queue}
                  \cup {d \in Deferreds : state[d] \in {"started", "handed"}}
  /\ UNCHANGED <<pool, gates, keyOf>>

DrainRunning(t) ==
  /\ TopIs(t, "drain")
  /\ \/ \E x \in Top(t).todo :
          CancelSlot(t, x, Replaced(t, [Top(t) EXCEPT !.todo = @ \ {x}]))
     \/ /\ Top(t).todo = {}
        /\ Set(t, Goto(t, "drainqueue"))
        /\ UNCHANGED gates
  /\ UNCHANGED <<pool, history>>

\* The queue is emptied without wLock.
DrainQueue(t) ==
  /\ TopIs(t, "drainqueue")
  /\ \E k \in Firsts :
       /\ queue' = Dequeued(k)
       /\ CancelSlot(t, [d |-> queue[k], part |-> "gate"], stack[t])
  /\ UNCHANGED <<running, concurrency, finalizeFunc, wLock, history>>

DrainReturns(t) ==
  /\ TopIs(t, "drainqueue")
  /\ DOMAIN queue = {}
  /\ Set(t, Below(t))
  /\ UNCHANGED <<pool, gates, history>>

\* [d cancel], or [w cancel] on the work of a wrapper.
Cancel(t, d) ==
  /\ ClientRuns(t)
  /\ \/ state[d] = "idle" /\ "cancel" \in Liberties
     \/ state[d] \in {"started", "handed"}
  /\ CancelSlot(t, [d |-> d, part |-> "work"], stack[t])
  /\ UNCHANGED <<pool, history>>

SetFinalizeFunc(t) ==
  /\ ClientRuns(t)
  /\ ~finalizeFunc
  /\ finalizeFunc' = TRUE
  /\ UNCHANGED <<queue, running, concurrency, wLock, gates, stack, history>>

SetConcurrency(t) ==
  /\ "limit" \in Liberties
  /\ ClientRuns(t)
  /\ concurrency' \in Limits \ {concurrency}
  /\ UNCHANGED <<queue, running, finalizeFunc, wLock, gates, stack, history>>

\* Client code raises, to be caught by some client code below it or by the run
\* loop: the frames between are gone, and a lock held is not given up.
Raise(t) ==
  /\ "raise" \in Liberties
  /\ Busy(t)
  /\ Top(t).pc \in ClientPCs
  /\ \E i \in 0..Len(stack[t]) - 1 :
       /\ i > 0 => stack[t][i].pc \in ClientPCs
       /\ Set(t, SubSeq(stack[t], 1, i))
  /\ UNCHANGED <<pool, gates, history>>

-----------------------------------------------------------------------------

\* The code's own steps, and client code that returns
Step(t) ==
  \/ Enqueue(t) \/ Hook(t) \/ Reject(t)
  \/ ResumeLock(t) \/ Fill(t) \/ Filled(t) \/ FinalizeReturns(t)
  \/ Start(t) \/ ResumeReturns(t) \/ StartReturns(t)
  \/ Handover(t) \/ Rehook(t) \/ Remove(t)
  \/ DrainRunning(t) \/ DrainQueue(t) \/ DrainReturns(t)

Next ==
  \E t \in Threads :
    \/ Step(t)
    \/ \E d \in Deferreds : Finish(t, d) \/ Cancel(t, d)
    \/ \E d \in Deferreds, k \in Keys : Add(t, d, k)
    \/ Drain(t) \/ SetFinalizeFunc(t) \/ SetConcurrency(t) \/ Raise(t)

Spec == Init /\ [][Next]_vars

\* Threads are scheduled, client code returns, and work ends.  Nothing is said
\* of who is granted wLock when several threads wait for it.
FairSpec ==
  /\ Spec
  /\ \A t \in Threads : WF_vars(Step(t))
  /\ \A d \in Deferreds : WF_vars(\E t \in Threads : Finish(t, d))

-----------------------------------------------------------------------------
(* Properties *)

\* The table never holds more than concurrency deferreds (_resumeWaiting).
Bounded == Cardinality(DOMAIN running) <= concurrency

\* A gate that was fired and is at work holds the slot of its own key, from
\* before it is fired until its work is done, whoever removes what meanwhile.
ActiveHoldsSlot ==
  \A d \in Deferreds :
    state[d] \in Active =>
      keyOf[d] \in DOMAIN running /\ running[keyOf[d]].d = d

\* No slot is lost: for each the pool still waits to be called back, or a call
\* that will free or rehook it is under way.
SlotIsFreed ==
  \A k \in DOMAIN running :
    \/ hook[running[k].d] = k
    \/ \E f \in AllFrames :
         f.pc \in {"hook", "handover", "rehook", "remove"} /\ f.k = k /\ f.d = running[k].d

\* No slot stays empty while a gate waits, unless a thread is on its way to
\* fill it.
Resumers == {"hook", "reject", "resume", "fill", "handover", "rehook", "remove"}
WorkConserving ==
  \/ DOMAIN queue = {}
  \/ ~SlotFree
  \/ \E f \in AllFrames : f.pc \in Resumers

\* A gate is in one place only: it waits under one key, or is about to be fired
\* by one thread, once; the pool never fires a gate that has fired.
FiredOnce ==
  LET Waiting(d) == {k \in DOMAIN queue : queue[k] = d}
      Listed(d, t, i) == {<<t, i, j>> : j \in {j \in DOMAIN stack[t][i].list :
                                                stack[t][i].list[j] = d}}
      AllListed(d) == UNION {UNION {Listed(d, t, i) : i \in DOMAIN stack[t]} : t \in Threads}
  IN \A d \in Deferreds :
       /\ Cardinality(Waiting(d)) + Cardinality(AllListed(d)) <= 1
       /\ AllListed(d) # {} => state[d] \in {"idle", "cancelled"}

\* The holder of wLock never comes to wait for it: "a callback can return in
\* the same thread and invoke _resumeWaiting here" (_resumeWaiting).
Lockers == {"enqueue", "resume", "handover", "remove"}
NoSelfDeadlock ==
  \A t \in Threads : wLock = t => \A pc \in Lockers : ~TopIs(t, pc)

\* When drain returns, all that waited or was active when it was called has
\* been cancelled or is done.
Drained ==
  [][\A t \in Threads :
       DrainReturns(t) => \A d \in drained : state[d] \notin Active \cup {"idle"}]_vars

\* A gate in the queue is eventually fired or cancelled.
Served ==
  \A d \in Deferreds :
    (\E k \in DOMAIN queue : queue[k] = d) ~> state[d] # "idle"
=============================================================================
