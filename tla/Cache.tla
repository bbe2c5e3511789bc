------------------------------- MODULE Cache -------------------------------
(***************************************************************************)
(* DKDeferredCache, and loadURL:cached: in front of it.  The cache is a    *)
(* directory with a file per key, and every operation a series of file     *)
(* system calls that nothing locks: those of the operation queue run in    *)
(* its threads, incr: and deleteValueForKey: in the caller's.  A file      *)
(* outlives the process, an operation does not.                            *)
(*                                                                         *)
(* Which value a file holds makes no difference to the code; only when it  *)
(* expires does.                                                           *)
(***************************************************************************)
EXTENDS Integers, Sequences, FiniteSets, FiniteSetsExt, Functions

CONSTANTS
  Keys,
  Threads,        \* as many operations run at once
  MaxEntries,
  CullFrequency,
  Timeout,        \* defaultTimeout, and the timeout of every set
  Null,
  MaxTime         \* bound: the clock stops here

\* A cull makes room for all the operations that may run at once, as that of
\* the shared cache does with 300 entries of which every third goes.
ASSUME CacheAssumption ==
  /\ IsFiniteSet(Threads)
  /\ {MaxEntries, CullFrequency} \subseteq Nat \ {0}
  /\ {Timeout, MaxTime} \subseteq Nat
  /\ MaxEntries + CullFrequency >= CullFrequency * Cardinality(Threads)
  /\ Null \notin Nat

VARIABLES
  files,          \* files[k]: when the entry of k expires, if k has a file
  now,
  thread          \* thread[t]: the operation t runs, see Operations

vars == <<files, now, thread>>

\* "get" is valueForKey: and getManyValues:, which goes on to another key.
Ops == {"get", "load", "incr", "set"}
PCs == {"idle", "has", "exists", "read", "check", "remove", "fetch",
        "count", "list", "cull", "stamp", "write"}

\* content: the expiry read or to be written; doomed: files still to be culled;
\* overtaken, a history field: the file was written since it was read
Operations ==
  [pc : PCs, op : Ops, key : Keys \cup {Null}, content : Nat \cup {Null},
   doomed : SUBSET Keys, overtaken : BOOLEAN]

Idle == [pc |-> "idle", op |-> "get", key |-> Null, content |-> Null,
         doomed |-> {}, overtaken |-> FALSE]

\* Files, clock and operations have their types.
TypeOK ==
  /\ \E K \in SUBSET Keys : files \in [K -> Nat]
  /\ now \in 0..MaxTime
  /\ thread \in [Threads -> Operations]

Init ==
  /\ files = [k \in {} |-> 0]
  /\ now = 0
  /\ thread = [t \in Threads |-> Idle]

-----------------------------------------------------------------------------

At(t, pc) == thread[t].pc = pc
Key(t) == thread[t].key
Goto(t, pc) == thread' = [thread EXCEPT ![t].pc = pc]
Return(t) == thread' = [thread EXCEPT ![t] = Idle]

Exists(k) == k \in DOMAIN files

\* Mutant of Removed: the file stays, without an expiry.
RemovedToEmpty(k) == [j \in DOMAIN files |-> IF j = k THEN Null ELSE files[j]]

Removed(k) == Restrict(files, DOMAIN files \ {k})

First(op) == CASE op = "set" -> "count" [] op = "incr" -> "has" [] OTHER -> "exists"

Call(t, op, k) ==
  /\ At(t, "idle")
  /\ thread' = [thread EXCEPT ![t] = [Idle EXCEPT !.pc = First(op), !.op = op, !.key = k]]
  /\ UNCHANGED <<files, now>>

\* _getValue: has answered: a load and an increment go on to their set, if
\* there is something to set.
Answered(t, after) ==
  IF thread[t].op \in {"load", "incr"} /\ after # "idle"
  THEN thread' = [thread EXCEPT ![t] = [Idle EXCEPT !.pc = after, !.op = thread[t].op, !.key = Key(t)]]
  ELSE \/ Return(t)
       \/ /\ thread[t].op = "get"
          /\ \E k \in Keys :
               thread' = [thread EXCEPT ![t] = [@ EXCEPT !.pc = "exists", !.key = k,
                                                         !.content = Null, !.overtaken = FALSE]]

\* A load that finds nothing goes to the connection, incr: returns an error.
Missed(t) == Answered(t, IF thread[t].op = "load" THEN "fetch" ELSE "idle")

-----------------------------------------------------------------------------
(* incr:delta:'s hasKey:, and _getValue: *)

HasKey(t) ==
  /\ At(t, "has")
  /\ IF Exists(Key(t)) THEN Goto(t, "exists") ELSE Return(t)
  /\ UNCHANGED <<files, now>>

FileExists(t) ==
  /\ At(t, "exists")
  /\ IF Exists(Key(t)) THEN Goto(t, "read") ELSE Missed(t)
  /\ UNCHANGED <<files, now>>

\* Unarchiving a file that is gone gives nil, and nil answers nil.
Read(t) ==
  /\ At(t, "read")
  /\ IF Exists(Key(t))
     THEN thread' = [thread EXCEPT ![t].pc = "check", ![t].content = files[Key(t)]]
     ELSE Missed(t)
  /\ UNCHANGED <<files, now>>

\* Mutant of Expired: an entry is gone in its last moment.
ExpiredEarly(e) == e <= now

Expired(e) == e < now

Hit(t) ==
  /\ At(t, "check")
  /\ ~Expired(thread[t].content)
  /\ Answered(t, "count")
  /\ UNCHANGED <<files, now>>

Stale(t) ==
  /\ At(t, "check")
  /\ Expired(thread[t].content)
  /\ thread' = [thread EXCEPT ![t].pc = "remove", ![t].content = Null]
  /\ UNCHANGED <<files, now>>

\* ... removed by name, whatever the file holds by now
Remove(t) ==
  /\ At(t, "remove")
  /\ files' = Removed(Key(t))
  /\ Missed(t)
  /\ UNCHANGED now

\* The connection answers _cachedLoadURLCallback, with data or an error.
Fetch(t) ==
  /\ At(t, "fetch")
  /\ Goto(t, "count")
  /\ UNCHANGED <<files, now>>

-----------------------------------------------------------------------------
(* _setValue:forKey:timeout: and _cull *)

\* Mutant of Overfull: one too many.
OverfullOffByOne == Cardinality(DOMAIN files) > MaxEntries + 1

Overfull == Cardinality(DOMAIN files) > MaxEntries

Count(t) ==
  /\ At(t, "count")
  /\ Goto(t, IF Overfull THEN "list" ELSE "stamp")
  /\ UNCHANGED <<files, now>>

\* Every CullFrequency-th of the listing from the first, which is in no order
DoomedCount(n) == (n + CullFrequency - 1) \div CullFrequency

\* What is doomed is removed one by one, and then comes the write.
Dooms(t, D) ==
  thread' = [thread EXCEPT ![t].doomed = D, ![t].pc = IF D = {} THEN "stamp" ELSE "cull"]

List(t) ==
  /\ At(t, "list")
  /\ \E D \in kSubset(DoomedCount(Cardinality(DOMAIN files)), DOMAIN files) : Dooms(t, D)
  /\ UNCHANGED <<files, now>>

Cull(t) ==
  /\ At(t, "cull")
  /\ \E k \in thread[t].doomed :
       /\ files' = Removed(k)
       /\ Dooms(t, thread[t].doomed \ {k})
  /\ UNCHANGED now

\* incr: keeps its number for no time at all.
Stamp(t) ==
  /\ At(t, "stamp")
  /\ thread' = [thread EXCEPT ![t].pc = "write",
                  ![t].content = IF thread[t].op = "incr" THEN now ELSE now + Timeout]
  /\ UNCHANGED <<files, now>>

\* What has read the file of k and has not yet acted on what it read
Readers(k) == {t \in Threads : Key(t) = k /\ thread[t].pc \in {"check", "remove"}}

\* The archiver replaces the file as a whole, whoever has read it.
Write(t) ==
  /\ At(t, "write")
  /\ files' = [k \in DOMAIN files \cup {Key(t)} |->
                 IF k = Key(t) THEN thread[t].content ELSE files[k]]
  /\ thread' = [u \in Threads |->
                  IF u = t THEN Idle
                  ELSE [thread[u] EXCEPT !.overtaken = @ \/ u \in Readers(Key(t))]]
  /\ UNCHANGED now

-----------------------------------------------------------------------------

DeleteValue(k) ==
  /\ Exists(k)
  /\ files' = Removed(k)
  /\ UNCHANGED <<now, thread>>

Tick ==
  /\ now < MaxTime
  /\ now' = now + 1
  /\ UNCHANGED <<files, thread>>

\* The process ends wherever it is, and is started again.
Crash ==
  /\ thread' = [t \in Threads |-> Idle]
  /\ UNCHANGED <<files, now>>

Step(t) ==
  \/ HasKey(t) \/ FileExists(t) \/ Read(t) \/ Hit(t) \/ Stale(t) \/ Remove(t)
  \/ Fetch(t)
  \/ Count(t) \/ List(t) \/ Cull(t) \/ Stamp(t) \/ Write(t)

Next ==
  \/ \E t \in Threads :
       \/ Step(t)
       \/ \E k \in Keys, op \in Ops : Call(t, op, k)
  \/ \E k \in Keys : DeleteValue(k)
  \/ Tick
  \/ Crash

Spec == Init /\ [][Next]_vars

-----------------------------------------------------------------------------
(* Properties *)

\* The look before the write leaves the directory over its limit by one entry
\* per operation that runs at once and no more, in whatever order the sets
\* look, cull each other's files and write, and whenever the process ends in
\* the middle of one (_setValue:forKey:timeout: and _cull).
Bounded == Cardinality(DOMAIN files) <= MaxEntries + Cardinality(Threads)

\* An entry that has not expired is lost only to deleteValueForKey:, to a cull,
\* or to a reader that had read an expired one before this one was written over
\* it: the removal by name (_getValue:) costs nothing that was there when the
\* reader looked, or that was written before it began.
KeptUntilExpiry ==
  [][\A k \in DOMAIN files \ DOMAIN files' :
       \/ files[k] < now
       \/ DeleteValue(k)
       \/ \E t \in Threads : Cull(t) /\ k \in thread[t].doomed
       \/ \E t \in Threads : Remove(t) /\ Key(t) = k /\ thread[t].overtaken]_vars
=============================================================================
