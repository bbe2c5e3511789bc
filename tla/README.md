# Verification of DeferredKit

TLA+ models of DeferredKit (`src/CocoaDeferred/Source/DeferredKit`), model-checked with TLC. Every
invariant and action property that TLC checks is also proved with TLAPS, for all values of the
constants, under the liberties named with each theorem; liveness is checked only. Lines are those of `DKDeferred.m` unless another file is named.

## The system

DeferredKit is an Objective-C port of Twisted's and MochiKit's Deferred. A `DKDeferred` holds a chain
of callback pairs and the outcome they will be called with. Everything else in the kit either
*produces* an outcome (a thread, a URL connection, a timer, a location manager) or *manages* several
deferreds (a list, a pool, a wait in a nested run loop, a cache in front of a connection).

| component | state | operations | talks to | what is hard | what makes it correct |
|---|---|---|---|---|---|
| `DKDeferred` (186–376) | chain, results, fired, paused, silentlyCancelled, chained, finalizer, finalized | addCallbacks and shorthands, callback:, errback:, cancel, pause, resume, setFinalizer: | client code in every callback, canceller and finalizer; other deferreds through `_continueChain:` | re-entrance at every call-out; the pause count shared by client and chaining; exceptions that unwind | one outcome; callbacks once and in order; balanced pauses; nothing stranded; results passed on |
| `DKDeferredList` (381–464) | resultList, finishedCount, three flags | init, `_cbDeferred:…` | fires itself from its members' chains | members that have fired already; nested deferreds; early firing | fires once, with every member's own outcome |
| `DKWaitForDeferred`, `DKDeferredWrapper` (467–527) | running, result | result, `_get:`, `_cbStart:` | the run loop; the gate of a pool | nested waits | returns when its own deferred has |
| `DKThreadedDeferred`, `DKDeferredOperation` (530–660) | thread or operation, parent thread | start, return on the parent's run loop | a worker thread | late answers after cancel | one answer, on the parent thread |
| `DKDeferredURLConnection` (663–859) | connection, data, percentComplete, `__urlConnectionCount` | delegate calls, progress | NSURLConnection (external) | failure after cancel, double failure | the count of requests; one outcome |
| `DKDeferredCache` (865–1028) | files in a directory | get, set, many, incr, delete, cull | an NSOperationQueue | operations that race on files | bounded size; an entry that has not expired is kept, up to the race at 940 |
| `DKMappedPriorityQueue` (1030–1172) | heap of keys, dictionary of entries | enqueue, dequeue, peek | objects' comparison methods | heap boundaries, mixed selectors | priority order; heap and dictionary agree |
| `DKDeferredPool` (1174–1321) | queue, running table, concurrency, finalizeFunc, wLock | add:key:, drain, `_cbRemoveDeferred::`, `_resumeWaiting` | the queue; gates and wrappers; any thread | a lock that is not recursive around client code; racing threads; hand-over of slots | bounded; work-conserving; no slot lost; no gate fired twice |
| `DKDeferredLocation` | updates, failed, manager | update, failure, timeout | CLLocationManager (external) | races between the three | one outcome |
| `DKJSONServiceProxy` | serviceName | call, forward | URL connection | a call renames the proxy | a method is sent under its own name |
| `DKCallback`, macros | none | — | — | — | — |
| SBJSON (third party), google-toolbox (vendored), UIKit additions | — | — | — | — | not part of the core |

Except in the pool, the cache and the functions of the threaded deferreds, everything runs on one
thread; what makes the code hard is not parallelism but re-entrance: client code runs inside the
library's methods and may call any of them again before it returns.

## Modules

| module | what it is |
|---|---|
| `CallbackChain` | abstract: what a set of deferreds promises about its callbacks |
| `Deferred` | DKDeferred, 186–364, with its call stack |
| `DeferredProofs`, `OrderlyProofs` | theorems about `Deferred`: for any client, and for one that keeps some rules |
| `KeyedQueue` | abstract: what the `MappedPriorityQueue` protocol promises |
| `PriorityQueue`, `PriorityQueueProofs` | DKMappedPriorityQueue, 1033–1171; theorems about it |
| `DeferredPool` | DKDeferredPool, 1182–1289, with gates of class DKDeferred and DKDeferredWrapper |
| `DeferredPoolProofs`, `PoolSlotsProofs` | theorems about `DeferredPool`: lock, queue and gates; the slots of its table |
| `DeferredList`, `DeferredListProofs` | DKDeferredList, 403–462, and gatherResults: (22–28); theorems about it |
| `Cache`, `CacheProofs` | DKDeferredCache, 871–1026, and loadURL:cached: in front of it (121–160); theorems about it |
| `RunLoop` | one thread's run loop, its deferreds as far as sources touch them, and DKWaitForDeferred (467–497) |
| `URLConnection`, `ThreadedDeferred`, `Location` | each EXTENDS `RunLoop` with one kind of source: 663–857, 530–660, `DKDeferred+CoreLocation.m` |
| `Events`, `EventsProofs` | the composition of those three on one run loop; theorems about it |
| `MCDeferred`, `MCPriorityQueue`, `MCDeferredPool`, `MCDeferredList`, `MCCache`, `MCEvents` | instances for TLC |

Each property is preceded by the behaviour of the code it is about. Next to some definitions stands a
second one with a plausible bug ("Mutant of …"); under it the property named in `PROJECT.json` fails.

### Deferred

State: the object's fields, one function per field, and `stack`, a sequence of frames. A frame is one
body of `_fire` (`loop`, then `link` when it adds its continuation and `chain` when it sets the
chained flag), one `cancel` that called its canceller (`cancel`), or one piece of client code
(`callback`, `finalizer`, `canceller`) that the frame below it called. The last frame runs. The client
makes calls when the stack is empty (the run loop) or when a client frame is on top, so every
re-entrance the code allows, up to `MaxDepth` frames, is a behaviour of the model.

Five variables are history, for the properties: among them `settled`, from whom a deferred got each outcome it
accepted ("answer" for callback: and errback:, "cancel" for the errback of `cancel`).

`_fire` (336–364) is cut at its call-outs only: `TakePair`, `Skip`/`CallClient`/`ContinueChain`,
`Return` for the client's answer, `Store` or `Exit` at the end of the loop, then `Link` and
`SetChained`. `ContinueChain` is the library's own callback `_continueChain:`, which resumes the outer
deferred and fires it one frame up. `callback:`, `errback:`, `cancel`, `addCallbacks::` and `resume` each
push the `_fire` they call in the step that makes the call. An exception (AlreadyCalledError, a chained or finalized
deferred given callbacks, a callback that raises) unwinds to some client frame or to the run loop.

Results are model values of four sorts (plain value, error, deferred, null), since these are all the code tells
apart; `isKindOfClass:` is a comparison of classes (`IsKind`), with one level of subclasses below
DKDeferred. Retain counts and logging are left out.

`Liberties` says how disorderly the client is, in every module that has it. A property holds under the
liberties of its run, which the table of runs names.

### PriorityQueue

The heap as a sequence of keys (from 1, so that children are 2p and 2p + 1), the dictionary beside it,
and the answer of the last call. `SiftDown` and `SiftUp` give the array the code's loops leave: the
path the item climbs (`Rest`, `AncestorOf`), and the path of smaller children it sinks along first (`Child`).
A comparison sends the left key's selector, as `compareKeys::` does.

### DeferredPool

State: the pool's fields (queue and running table as functions on keys), per thread a stack of frames
as in `Deferred`, and for each gate where it is in its life (`state`) and under which key the pool's
`_cbRemoveDeferred` waits on it (`hook`). The chain of a gate is not repeated here: its first callback is the client's, its
next is the pool's, and `Settle` is the moment the chain runs up to the pool's.

| action | code |
|---|---|
| `Add`, `Enqueue`, `Hook`, `Reject` | add:key: up to its lock, the locked enqueue, addBoth: or cancel, each a step of its own because other threads and callbacks come between |
| `ResumeLock`, `Fill`, `Filled`, `Start`, `ResumeReturns` | `_resumeWaiting`: lock, dequeue while there is room, finalization and unlock, one callback:nil per gate taken |
| `FinalizeReturns`, `StartReturns` | the client's finalizer and the gate's first callback return |
| `Handover`, `Rehook`, `Remove` | `_cbRemoveDeferred` given a deferred (a wrapper's result) or anything else |
| `Drain`, `DrainRunning`, `DrainQueue`, `DrainReturns` | drain: the snapshot, each cancel in it, each dequeue and cancel |
| `Finish`, `Cancel`, `Raise`, `SetFinalizeFunc`, `SetConcurrency` | the work ends; the client |

A gate is of class DKDeferred, which awaits the deferred its callback returns (`started`), or a
`DKDeferredWrapper`, of which that deferred is no kind: it passes it on as a plain result (`handed`) and the pool hooks
itself to it. `addBoth:` on a gate whose first callback is running on another thread calls the pool at
once; a gate itself is not safe for threads and this is the one outcome of the race that is modelled.

### DeferredList

State: the list's fields and outcome, `chain` and `outcome` of each member, and the stack again:
`initWithList:` may be interrupted by the `_fire` of a member that has answered already, and that one
by the list's own callbacks. The members' chains hold the list's pairs only; a pair is
its index and the `succeeded:` its branches are curried with.

| action | code |
|---|---|
| `AddMember`, `InitReturns` | one round of initWithList:, and its end with the empty list and gatherResults: |
| `Skip`, `Follow`, `Record`, `FireReturns` | a member's `_fire`: no branch for its result; `_cbDeferred:` given a deferred, given anything else; the end |
| `Settle`, `Cancel`, `CancellerReturns`, `ClientReturns` | a member answers; the client cancels the list; client code returns |

A member whose class takes a deferred for a plain result (`Foreign`, e.g. a DKDeferredWrapper over
a DKDeferred) is what makes `_cbDeferred:` see a deferred at all.

### Cache

State: `files`, the expiry of each file; the clock; and per thread the operation it runs, with what it
has read. Each file system call is a step: `HasKey`, `FileExists`, `Read`, `Remove`, `Count`, `List`, `Cull`
(one file), `Stamp` (the date) and `Write`. The listing of a directory is in no order, so a cull may pick any
files. A `Write` marks the operations that have read the file it replaces and have not acted on it yet
(`overtaken`, a history field). `Crash` ends every operation and leaves the files. Archiving replaces a file as a whole.
`load` is loadURL:cached:, which writes back whatever it got, a hit included. A set of a value
that cannot be archived does nothing and is not made.

### RunLoop, URLConnection, ThreadedDeferred, Location, Events

A source is a deferred that events answer. Of it `RunLoop` keeps the fields `_check` and `cancel` read, and of its
chain that client callbacks run when it fires, before or after the `_get:` of the waits on it. The
stack holds client code (`client`, `callback`, `progress`), waits, and the rest of
`didFailWithError:` (`uncount`). An event is delivered when the stack is empty or a wait is on top
(`Spinning`): this is what the nested `runUntilDate:` does. An exception that an event raises unwinds to client code that catches it or to the outermost loop.

`Answer` is callback: or errback: called by a source, `Cancel` the client's; each source adds what it
does before and after: the progress callback of every delegate call (`Report`, `…Returns`) and the
count; the thread that posts to its parent; the updates and the timer of a location. With the liberty
`late` a manager reports once it was stopped, and a connection fails twice.

Of a connection that is paused the client holds the gate and not the connection. One that a
timer starts is chained by the timer's deferred (`chained`), and nobody can add callbacks, or wait, from then
on. A client does not wait for a connection inside that connection's own progress callback: the delegate
call below is the one that would answer, and the wait would not end. Callbacks return plain values here; what
deferreds they could return is `Deferred`'s subject.

## Runs

Bounds are in the cfgs. "Liberties" as in the modules.

| run | instance and liberties | shows |
|---|---|---|
| `deferred_core` | 2 deferreds, one with a canceller, 2 added callbacks, 1 pause each, 3 frames; reenter | `TypeOK`; `PauseAccounting`: the pause count is the holds that will be released, no more; `NoneStranded`: no callback is left in a fired, unpaused deferred without an activation to call it |
| `deferred_wild` | 2 deferreds of different classes, 2 callbacks, 2 frames; all | `OneOutcome`, `FinalizedChainEmpty`, and `InOrder`: Deferred implements CallbackChain |
| `deferred_orderly` | as core, with plain values; none | `FreshResult`: every activation works on the newest result |
| `deferred_live` | 1 callback, 1 pause, 2 frames; none; fair | `CallsReturn`, `Delivered` |
| `queue_priority` | 7 keys, 3 dates, one selector | `KeysAgree`: nothing lost or doubled; `HeapOrdered`; `ByPriority`: PriorityQueue implements KeyedQueue |
| `pool_main` | 1 thread, 3 gates, one a wrapper, limits 1 and 2; duplicate, drain, limit; fair | `TypeOK`, `ActiveHoldsSlot`, `SlotIsFreed`, `NoSelfDeadlock`, and `Served`: what is queued is eventually fired |
| `pool_threads` | 2 threads, 3 gates; cancel, finalize, raise | `Bounded`, `WorkConserving`, `FiredOnce` |
| `pool_drain` (violation) | 2 gates; drain | drain leaves running what its own cancels start, `Drained` |
| `list` | lists of 0 to 3 deferreds, one of them twice, also beside one that ends in it; all flags; fair | `TypeOK`; `EachOnce`: no answer lost or counted twice, but for one kind of list (see below); `Prompt`: fired as soon as the flags ask for it; `Truthful`: with what each member came to; `Once`; `Fires` |
| `cache` | 5 keys, 2 threads, limit 2, every 2nd culled, 2 moments | `TypeOK`; `Bounded`: over the limit by one entry per running operation at most; `KeptUntilExpiry`: an entry that has not expired is lost only to a delete, a cull, or a reader it was written behind (940) |
| `run_loop` | a connection, a thread and a location, two of them made, 4 frames, 2 updates; late; fair | `TypeOK`, `NoLostWakeup`, `CountExact`, `LocationStops`, `RaisesOnly`, `AnsweredWait`, `WaitsEnd` |
| `requests` (violation) | a connection; none | a request that fails after a cancel is counted for ever, `RequestCount` |

Why the bounds are enough: two deferreds chain each other in both directions, a chain of two pairs has
a first and a later one, and three frames hold an activation inside a callback of another one. Seven
keys make a heap of three full levels, so that every shape of last parent and every path of a sift
occurs. Three gates with one or two slots give a full table, a queue of two and a hand-over at once.
Three members give an entry before, at and after the one that fires the list. Two operations are a race
and five keys are one more than `Bounded` allows; two moments are before and after an expiry. Two
sources and four frames nest one wait in the other with client code between and on top; two updates are the one
that answers and the one before it.

The runs of `Deferred`, `DeferredPool`, `DeferredList` and `Events` have CHECK_DEADLOCK FALSE: their
counters and sources are finite and the client may stop. A lock nobody gives up is looked for by
`NoSelfDeadlock` and `Served`, a wait nobody answers by `WaitsEnd`.

Symmetry is used for keys (never compared) and threads, in safety runs only; `KeptUntilExpiry` speaks of
each thread alike.

### Where the properties of the pool stop

Each holds under the liberties of its run and fails under others, for reasons in the code: `ActiveHoldsSlot` with two
threads (1223: addBoth: while the other thread is inside the gate's first callback); it and `Bounded` (1243) when the key of a
gate that has been fired is used again ("reuse", in no run; 1221 looks for the key in the queue only);
`SlotIsFreed` when a waiting gate is cancelled (1265: its hook is used up); `NoSelfDeadlock` with a
finalizer that calls the pool (1268); `WorkConserving` when the limit is raised (1287). `PROJECT.json` lists them as hazards.

### Where those of the others stop

`EachOnce` excepts a list that consumes errors, holds a deferred twice and beside it a member that hands
that deferred on (`Recounts`, 437). Once the error of its first entry has been turned to nil, the second entry's
branch still has the error; if it fires the list, and a callback of the list has the other member hand the deferred on, `addBoth:`
enters that deferred's `_fire` again with the error it stores, and an entry that was counted is counted again. The list has fired
by then: only `finishedCount` and `resultList` are wrong afterwards.

`FreshResult` fails with a client that adds a callback to a deferred from inside that deferred's own
callback (316): `_fire` is entered again on the stored result. `Prompt` and `Fires` except a list of none that
fires on one callback, which never does (426). `Truthful` says of a member that handed on a deferred that it
succeeded, however that deferred ended (440). `CountExact` counts the requests that failed after a
cancel (803). `LocationStops` excepts a location that was cancelled, whose manager goes on (38).
`NoLostWakeup`, `CountExact` and `WaitsEnd` are about runs without an exception: one that
unwinds a chain leaves the wait below it spinning. `RaisesOnly` names where exceptions come from.

### Fairness

`deferred_live`: each stack depth's step is strongly fair. A body of code that has begun goes on, and
client code returns; the client need not call anything. Strong, because the client may call in between
at the same depth. `pool_main`: weak fairness of a thread's own steps (one thread, never blocked by another)
and of the end of each work. Which thread is granted NSLock is not promised by the code, so no
liveness is claimed for two threads. `list`: weak fairness of what has begun; members need
not answer, `Fires` is about when all have.

`run_loop`: client code returns and functions in their threads do (weak). What the run loop serves is
strongly fair: a wait that can return, an answer that was posted, a timer that is due, the end that
NSURLConnection delivers to every request (its timeout is 15 seconds) are disabled only while
client code of other events is on top, and the loop comes back to them. Location updates are not fair:
the timer alone must be enough.

## Proofs

All of it is checked by TLAPS. Each theorem states a property that a run checks, for every value of the
constants that the assumptions admit: any number of deferreds, threads, gates or entries, any depth of
re-entrance. An invariant seldom holds by its own strength; what it rests on is the interesting part.

### Deferred, any client (`DeferredProofs`)

- `TypeCorrect`: one lemma per group of actions (the client's calls, what client
  code returns, the library's steps), with lemmas about pushing, replacing and cutting frames.
- `AcceptsOneOutcome` (`OneOutcome`): one outcome, or two when the first came from a `cancel` without a canceller
  and the second from its source. That an accepted outcome is never taken back needs that only fired deferreds are ever active on the stack or awaited.
  `OutcomeInv` is TypeOK, `FiredInv` (which outcomes, from whom, go with `fired` and with the silent-cancel flag),
  `Active` (every frame but a canceller's belongs to a deferred that has fired) and `AwaitInv` (a
  deferred with a continuation in another's chain has fired).
- `FinalizedStaysEmpty` (`FinalizedChainEmpty`), from `OutcomeInv` and the guard of `addCallbacks::`.
- `KeepsPromise`: `Spec => InOrder`, the refinement of CallbackChain; each step maps to adding a pair,
  taking the first pair of a fired, unpaused deferred, a change of what holds it, or a stutter.

### Deferred, a client with rules (`OrderlyProofs`)

- `PausesBalance` (`PauseAccounting`), when the client is `Balanced`: it resumes only what it paused, returns what can be
  chained, and raises nothing. The account is kept by a count of continuations in all chains and
  of frames about to add one, so the induction (`HoldInv`) needs that ids of pairs are not used twice (`IdsOnce`), that a
  continuation is on both sides of its pair, so that it runs whatever the result is (`WholePairs`), and that only the
  running frame is about to link, to a deferred that stays open until it has (`LinkTop`).
- `NothingIsStranded` (`NoneStranded`), under the same rules: a deferred that was paused and is no more was resumed by someone who
  has pushed its `_fire`, or will when the pause is over.
- `ResultsAreFresh` (`FreshResult`), with no liberties at all. `FreshInv` says that a deferred has one activation at a time
  (`One`), that what is active is not awaited (`Unawaited`), that what is about to be awaited is not being fired itself (`LinkFree`), and that an
  activation holds, and a deferred at rest stores, the newest result.

### PriorityQueue (`PriorityQueueProofs`)

What the recursive functions of the sifts compute needs induction, which is done by sets of positions: a
set that is everything if each position is in it when all before are (`Upwards`), from a least element (`FirstOf`).
That a recursive function exists at all is shown by closed sets of positions (`Iterates`, `UpIs`).
From there: `Ancestors` (the path to the top is a chain of parents), `Rests` (where an item stops), `Sinks` (the smaller children
lead to a leaf); then what the two sifts do to the contents and to the order. The induction over the calls is short.

- `KeysStayTogether` (`KeysAgree`), for any mix of selectors: that the first key is in the array once
  follows from the array being as long as the dictionary is large.
- `HeapStaysOrdered` (`HeapOrdered`) and `GivesByPriority` (`ByPriority`), when one selector is in use (`OneSelector`). The
  refinement needs that nothing in a heap goes before its root, which is one more induction (`RootFirst`).

### DeferredList (`DeferredListProofs`)

`Inv` holds for lists of any length. `StackInv`: what runs on what: the list's own callbacks above the
`_fire` of a deferred that hands nothing on, and never while the list is made. `ResultInv`, `ChainInv`: what a member came to and what its `_fire` still carries is the same, or nil where an error
was consumed. `OnceInv`: of the pairs that have an entry's index at most one will still record it, and
exactly while one will the entry is empty; with `Recounts` as the one way out, which is stable once it is true. `NotYet`: a list that has not fired has nothing recorded that its flags ask for.
`GatherInv`, `TruthInv`: what it was fired with. From these `TypeCorrect`, `FiredOnce` (`Once`), `EveryAnswerOnce` (`EachOnce`),
`FiresInTime` (`Prompt`) and `TellsTheTruth` (`Truthful`).

### DeferredPool (`DeferredPoolProofs`, `PoolSlotsProofs`)

The client's liberties are as few as the theorem bears; where it bears no more is told below the table of runs.

| theorem | property | assumed | along |
|---|---|---|---|
| `TypeCorrect` | `TypeOK` | — | the shape of each frame, by its pc |
| `OwnLockIsFree` | `NoSelfDeadlock` | no "finalize", "raise" | `KeepsLock`: who has the lock is filling or finalizing, on top of its stack |
| `SlotsAreFilled` | `WorkConserving` | no "limit" | `Conserved`: a free slot and a waiting gate, and a frame that is to resume |
| `GatesFireOnce` | `FiredOnce` | — | `PlaceInv`: a gate is entering, queued, listed, called or done, one of them at a time, on one thread |
| `TableIsBounded` | `Bounded` | `Orderly`, no "limit" | `KeyInv` over the tokens below: a slot is given to its own gate, and freed by it |
| `SlotsAreFreed` | `SlotIsFreed` | `Orderly`, no "cancel" | `FreedInv`: each slot has its token |
| `WorkHoldsSlot` | `ActiveHoldsSlot` | one thread, no "reuse" | `SoloInv`: what is at work, or listed to be, has its slot |

`Orderly` is: no "reuse", and "duplicate" on one thread only. A token is the pool's callback for a gate: it is hooked to the gate
or what it handed on, or a frame of one thread has it (`TokInv`, `HookInv`); `StageInv` relates where it is to how far the gate is.
`WorkHoldsSlot` is for one thread because with two the callback is called ahead of the result (1223).

### Cache (`CacheProofs`)

- `TypeCorrect`.
- `StaysBounded` (`Bounded`), for any finite number of threads and with crashes. `Room` speaks of every set of
  operations that cull: the files left when these have removed what they listed, and all that is still to be written, are within the
  bound. A bound on the files alone would not do, since operations list the same files and write one after the other. It needs
  that one cull makes room for what all threads can add (`CacheAssumption`): the 300 entries of the shared cache, of which every
  third goes, do for 101 operations at once. How many run is NSOperationQueue's choice; with more nothing is claimed.
- `LosesOnlyOvertaken` (`KeptUntilExpiry`), from `AllCurrent`: until it is overtaken, what an operation has read of a
  file is what the file still holds, or the file is gone; so what it is about to remove has expired.

### Events (`EventsProofs`)

One invariant of the composition, `Inv`: `ShapeInv` (types), `SourceInv` (how far each connection, thread and location is, and what
that says of its outcome), `FrameInv` (what a frame says of its source, and that a connection is counted down by
one frame at most) and `CountInv` (the count is the cardinality of the connections that owe a decrement, as long as nothing was
raised). From it `TypeCorrect`, `RequestsAreCounted` (`CountExact`), `LocationsAreStopped` (`LocationStops`), `WaitsAreAnswered`
(`AnsweredWait`), `OnlyTheseRaise` (`RaisesOnly`) and, with a lemma per shape of step for the stack, `NoWaitIsLost` (`NoLostWakeup`).

### Assumptions

Those of the modules, named there: the sorts of results are disjoint, the errors the code makes are errors, bounds are naturals;
threads and connections are finite; a list's `Null` is not one of its entries; a cull makes room. Liberties are hypotheses
of the theorems that need fewer.

### Model-checked only

Liveness (`CallsReturn`, `Delivered`, `Served`, `Fires`, `WaitsEnd`), which is out of the prover's reach.
The two runs that expect a violation have no theorem.

## What the models leave out

Memory management; the data race on a gate beyond the outcome named above; drain against another
thread (it reads the table and the queue without the lock, which has no defined outcome);
`timeout` of the pool, which the code stores and never uses; the order under mixed selectors
in one queue, for which the comparison is none; peek, count and the other readers. A client that calls
callback: on a list, a connection or a thread itself. Which value a cached file holds, and so lost increments. The
gate of a paused connection or thread that is cancelled before it is resumed.

Some call-outs and clients are narrower than the code's:

- Pool: one drain at a time. The client's callbacks that run ahead of the pool's on the chain of a gate or of its
  work call no pool (the gate's first callback and the finalizer do). Gates have no canceller; with one
  that answers its gate, the callback:nil at 1271 of a gate that is cancelled would raise. `Fired`, the guard on using a
  key again, is the orderly client's discipline: the code looks in the queue only (1221), and "reuse" lifts it.
- Events: the cancellers of connections, threads and locations call nobody, so a `cancel` is one step with the
  errback after it (235). The function that decodes a connection's data (810) calls nothing back.

## Small things met in the code that no property is about

Anything that fires again after finalization calls the finalizer a second time (356). A date set while
its deferred is queued changes the comparison under the heap (370, `started` is readwrite). A get that
finds its entry expired removes the file by name, after a set may have replaced it (940): `KeptUntilExpiry`
says when, and that no other operation does so. A cached load
writes its hit back with a new timeout (156). A client that adds callbacks to a connection after its timer has
started it gets an exception (741). A list may go on counting after it has fired (`Recounts`, above).
`initWithURL:pauseFor:` passes on 0 (695); an operation ignores `startPaused` (616); two `incr:` at once
may count once, and the number is kept for no time at all (912); percentComplete may divide by 0 (820);
`+pool` answers what the class object returns for `init` (1179); `_timeout:` of a location returns void and
is called for a result; UIKit.m:69 takes the width for the height.

## Not modelled

- `DKCallback`: function objects without state. A curried one keeps an NSInvocation that two threads would
  share, a data race inside Foundation.
- `DKJSONServiceProxy`: puts names together by message forwarding and makes one connection per call; its
  one piece of state is the name, and a call changes it (JSON.m:116), so that a second method called on the same proxy
  is sent under the first one's name.
- UIKit and UIImage additions: drawing; the cached image load is loadURL:cached: once more.
- SBJSON and google-toolbox-for-mac: third-party and vendored.

## Plan

Done: 1. `CallbackChain`, `Deferred`, its proofs; 2. `KeyedQueue`, `PriorityQueue`; 3. `DeferredPool`;
4. `DeferredList`; 5. `Cache`; 6. `RunLoop`, `URLConnection`, `ThreadedDeferred`, `Location`, `Events`.

Proofs done: 7. `DeferredList`; 8. `Events`; 9. `DeferredPool`; 10. `Cache`; 11. `Deferred` with a client
that keeps rules; 12. `PriorityQueue`.

Left: an abstract specification of what the pool promises, and the list's, with the refinement proved; shorter proofs
where an action's steps repeat those of another.
