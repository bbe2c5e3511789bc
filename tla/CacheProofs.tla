----------------------------- MODULE CacheProofs -----------------------------
(* Theorems about Cache, for every set of keys, number of operations that  *)
(* run at once, limit and timeout.                                         *)
EXTENDS Cache, FiniteSetTheorems, TLAPS

-----------------------------------------------------------------------------
(* Types *)

\* An operation that runs has its key, and what it compares or writes is there.
Sound ==
  {o \in Operations :
     /\ o.pc # "idle" => o.key \in Keys
     /\ o.pc \in {"check", "write"} => o.content \in Nat}

TypeInv == TypeOK /\ thread \in [Threads -> Sound]

LEMMA IdleSound == Idle \in Sound
BY DEF Idle, Sound, Operations, PCs, Ops

LEMMA InitType == Init => TypeInv
<1> SUFFICES ASSUME Init PROVE TypeInv
  OBVIOUS
<1>1. \E K \in SUBSET Keys : files \in [K -> Nat]
  BY DEF Init
<1>2. now \in 0..MaxTime
  BY CacheAssumption DEF Init
<1>3. thread \in [Threads -> Sound] /\ thread \in [Threads -> Operations]
  BY IdleSound DEF Init, Sound
<1> QED
  BY <1>1, <1>2, <1>3 DEF TypeOK, TypeInv

\* Removing a file leaves the others as they are.
LEMMA RemovedType ==
  ASSUME TypeOK, NEW k
  PROVE  /\ \E K \in SUBSET Keys : Removed(k) \in [K -> Nat]
         /\ DOMAIN Removed(k) = DOMAIN files \ {k}
<1>1. PICK K \in SUBSET Keys : files \in [K -> Nat]
  BY DEF TypeOK
<1>2. Removed(k) \in [K \ {k} -> Nat]
  BY <1>1 DEF Removed, Restrict
<1> QED
  BY <1>1, <1>2

LEMMA ExpiryType ==
  ASSUME TypeOK, NEW k, Exists(k)
  PROVE  files[k] \in Nat
BY DEF TypeOK, Exists

LEMMA AnsweredType ==
  ASSUME TypeInv, NEW t \in Threads, thread[t].pc # "idle",
         NEW after \in {"idle", "count", "fetch"}, Answered(t, after)
  PROVE  thread' \in [Threads -> Sound]
<1>1. thread \in [Threads -> Sound] /\ thread[t] \in Sound /\ Key(t) \in Keys
  BY DEF TypeInv, Sound, Key
<1>2. CASE thread' = [thread EXCEPT ![t] = [Idle EXCEPT !.pc = after, !.op = thread[t].op, !.key = Key(t)]]
  <2>1. [Idle EXCEPT !.pc = after, !.op = thread[t].op, !.key = Key(t)] \in Sound
    BY <1>1 DEF Sound, Operations, Idle, PCs, Ops
  <2> QED
    BY <1>1, <1>2, <2>1
<1>3. CASE Return(t)
  BY <1>1, <1>3, IdleSound DEF Return
<1>4. ASSUME NEW k \in Keys,
             thread' = [thread EXCEPT ![t] = [@ EXCEPT !.pc = "exists", !.key = k,
                                                       !.content = Null, !.overtaken = FALSE]]
      PROVE  thread' \in [Threads -> Sound]
  <2>1. [thread[t] EXCEPT !.pc = "exists", !.key = k, !.content = Null, !.overtaken = FALSE] \in Sound
    BY <1>1 DEF Sound, Operations, PCs
  <2> QED
    BY <1>1, <1>4, <2>1
<1> QED
  BY <1>2, <1>3, <1>4 DEF Answered

\* The step of one operation leaves it, and the others, well formed.
LEMMA StepType ==
  ASSUME TypeInv, NEW t \in Threads, Step(t)
  PROVE  TypeInv'
<1>1. thread \in [Threads -> Sound] /\ thread[t] \in Sound /\ now \in 0..MaxTime
  BY DEF TypeInv, TypeOK
<1>2. now \in Nat /\ now + Timeout \in Nat
  BY <1>1, CacheAssumption
<1>3. ASSUME thread' \in [Threads -> Sound], now' = now,
             \E K \in SUBSET Keys : files' \in [K -> Nat]
      PROVE  TypeInv'
  BY <1>1, <1>3 DEF TypeInv, TypeOK, Sound
<1>4. ASSUME UNCHANGED <<files, now>>, thread' \in [Threads -> Sound]
      PROVE  TypeInv'
  BY <1>3, <1>4 DEF TypeInv, TypeOK
<1>5. ASSUME NEW pc \in PCs \ {"check", "write"}, thread[t].pc # "idle", Goto(t, pc)
      PROVE  thread' \in [Threads -> Sound]
  BY <1>1, <1>5 DEF Goto, Sound, Operations
<1>6. ASSUME Return(t)
      PROVE  thread' \in [Threads -> Sound]
  BY <1>1, <1>6, IdleSound DEF Return
<1>7. ASSUME Missed(t), thread[t].pc # "idle"
      PROVE  thread' \in [Threads -> Sound]
  BY <1>7, AnsweredType DEF Missed
<1>8. ASSUME NEW D \in SUBSET Keys, Dooms(t, D), thread[t].pc # "idle"
      PROVE  thread' \in [Threads -> Sound]
  BY <1>1, <1>8 DEF Dooms, Sound, Operations, PCs
<1>9. CASE HasKey(t)
  BY <1>4, <1>5, <1>6, <1>9 DEF HasKey, PCs, At
<1>10. CASE FileExists(t)
  BY <1>4, <1>5, <1>7, <1>10 DEF FileExists, PCs, At
<1>11. CASE Read(t)
  <2>1. ASSUME Exists(Key(t)),
               thread' = [thread EXCEPT ![t].pc = "check", ![t].content = files[Key(t)]]
        PROVE  thread' \in [Threads -> Sound]
    <3>1. files[Key(t)] \in Nat
      BY <2>1, ExpiryType DEF TypeInv
    <3>2. thread[t].pc # "idle"
      BY <1>11 DEF Read, At
    <3> QED
      BY <1>1, <2>1, <3>1, <3>2 DEF Sound, Operations, PCs
  <2> QED
    BY <1>4, <1>7, <1>11, <2>1 DEF Read, At
<1>12. CASE Hit(t)
  BY <1>4, <1>12, AnsweredType DEF Hit, At
<1>13. CASE Stale(t)
  BY <1>1, <1>4, <1>13 DEF Stale, At, PCs, Sound, Operations
<1>14. CASE Remove(t)
  BY <1>3, <1>7, <1>14, RemovedType DEF Remove, At, TypeInv
<1>15. CASE Fetch(t)
  BY <1>4, <1>5, <1>15 DEF Fetch, PCs, At
<1>16. CASE Count(t)
  BY <1>4, <1>5, <1>16 DEF Count, PCs, At
<1>17. CASE List(t)
  <2>1. DOMAIN files \subseteq Keys
    BY DEF TypeInv, TypeOK
  <2> QED
    BY <1>4, <1>8, <1>17, <2>1 DEF List, kSubset, At
<1>18. CASE Cull(t)
  <2>1. PICK k \in thread[t].doomed : files' = Removed(k) /\ Dooms(t, thread[t].doomed \ {k})
    BY <1>18 DEF Cull
  <2>2. thread[t].doomed \ {k} \in SUBSET Keys
    BY <1>1 DEF Operations, Sound
  <2>3. now' = now /\ thread[t].pc # "idle"
    BY <1>18 DEF Cull, At
  <2> QED
    BY <1>3, <1>8, <2>1, <2>2, <2>3, RemovedType DEF TypeInv
<1>19. CASE Stamp(t)
  <2>1. PICK e \in Nat : thread' = [thread EXCEPT ![t].pc = "write", ![t].content = e]
    BY <1>2, <1>19 DEF Stamp
  <2>2. thread[t].pc # "idle"
    BY <1>19 DEF Stamp, At
  <2>3. thread' \in [Threads -> Sound]
    BY <1>1, <2>1, <2>2 DEF Operations, PCs, Sound
  <2> QED
    BY <1>4, <1>19, <2>3 DEF Stamp
<1>20. CASE Write(t)
  <2>1. PICK K \in SUBSET Keys : files \in [K -> Nat]
    BY DEF TypeInv, TypeOK
  <2>2. Key(t) \in Keys /\ thread[t].content \in Nat
    BY <1>1, <1>20 DEF Write, At, Key, Sound
  <2>3. files' \in [K \cup {Key(t)} -> Nat]
    BY <1>20, <2>1, <2>2 DEF Write
  <2>4. thread' \in [Threads -> Sound]
    <3>1. \A o \in Sound, b \in BOOLEAN : [o EXCEPT !.overtaken = @ \/ b] \in Sound
      BY DEF Sound, Operations
    <3>2. \A u \in Threads :
            [thread[u] EXCEPT !.overtaken = @ \/ u \in Readers(Key(t))] \in Sound
      BY <1>1, <3>1
    <3> QED
      BY <1>20, <3>2, IdleSound DEF Write
  <2> QED
    BY <1>3, <1>20, <2>2, <2>3, <2>4 DEF Write
<1> QED
  BY <1>9, <1>10, <1>11, <1>12, <1>13, <1>14, <1>15, <1>16, <1>17, <1>18, <1>19, <1>20 DEF Step

LEMMA CallType ==
  ASSUME TypeInv, NEW t \in Threads, NEW op \in Ops, NEW k \in Keys, Call(t, op, k)
  PROVE  TypeInv'
<1> DEFINE o == [Idle EXCEPT !.pc = First(op), !.op = op, !.key = k]
<1>1. o \in Sound
  BY DEF Sound, Operations, Idle, PCs, First, Ops
<1>2. thread' = [thread EXCEPT ![t] = o]
  BY DEF Call
<1> HIDE DEF o
<1>3. thread' \in [Threads -> Sound]
  BY <1>1, <1>2 DEF TypeInv
<1> QED
  BY <1>3 DEF Call, TypeInv, TypeOK, Sound

\* Every step keeps the types, whatever is in the way of it.
LEMMA NextType == TypeInv /\ [Next]_vars => TypeInv'
<1> SUFFICES ASSUME TypeInv, [Next]_vars PROVE TypeInv'
  OBVIOUS
<1>1. ASSUME NEW t \in Threads, NEW k \in Keys, NEW op \in Ops, Call(t, op, k)
      PROVE  TypeInv'
  BY <1>1, CallType
<1>2. ASSUME NEW k \in Keys, DeleteValue(k)
      PROVE  TypeInv'
  BY <1>2, RemovedType DEF DeleteValue, TypeInv, TypeOK
<1>3. CASE Tick
  BY <1>3, CacheAssumption DEF Tick, TypeInv, TypeOK
<1>4. CASE Crash
  BY <1>4, IdleSound DEF Crash, TypeInv, TypeOK, Sound
<1>5. CASE UNCHANGED vars
  BY <1>5 DEF vars, TypeInv, TypeOK
<1> QED
  BY <1>1, <1>2, <1>3, <1>4, <1>5, StepType DEF Next

LEMMA TypeInvariant == Spec => []TypeInv
BY InitType, NextType, PTL DEF Spec

\* Files, clock and operations have their types, in every run.
THEOREM TypeCorrect == Spec => []TypeOK
<1>1. TypeInv => TypeOK
  BY DEF TypeInv
<1> QED
  BY <1>1, TypeInvariant, PTL

-----------------------------------------------------------------------------
(* The limit *)

\* The operations that are past their look, and those that cull
Writers == {t \in Threads : thread[t].pc \in {"stamp", "write"}}
Cullers == {t \in Threads : thread[t].pc = "cull"}
Doomed(S) == UNION {thread[t].doomed : t \in S}

\* Whoever of those that cull comes to its end first: the files that are left
\* then, with what will be written, are within the limit and its allowance.
\* For no operation that culls at all this bounds the files there are.
Room ==
  /\ IsFiniteSet(DOMAIN files)
  /\ \A S \in SUBSET Cullers :
       Cardinality(DOMAIN files \ Doomed(S)) + Cardinality(Writers) + Cardinality(S)
         <= MaxEntries + Cardinality(Threads)

LEMMA InitRoom == Init => Room
<1> SUFFICES ASSUME Init PROVE Room
  OBVIOUS
<1>1. DOMAIN files = {} /\ Writers = {} /\ Cullers = {}
  BY DEF Init, Writers, Cullers, Idle
<1>2. MaxEntries \in Nat /\ Cardinality(Threads) \in Nat
  BY CacheAssumption, FS_CardinalityType
<1>3. ASSUME NEW S \in SUBSET Cullers
      PROVE  Cardinality(DOMAIN files \ Doomed(S)) = 0 /\ Cardinality(Writers) = 0 /\ Cardinality(S) = 0
  <2>1. DOMAIN files \ Doomed(S) = {} /\ S = {}
    BY <1>1
  <2> QED
    BY <1>1, <2>1, FS_EmptySet
<1> QED
  BY <1>1, <1>2, <1>3, FS_EmptySet DEF Room

\* The cardinalities in question are those of finite sets.
LEMMA Counted ==
  ASSUME Room, NEW S \in SUBSET Threads
  PROVE  /\ Cardinality(DOMAIN files) \in Nat
         /\ Cardinality(DOMAIN files \ Doomed(S)) \in Nat
         /\ Cardinality(DOMAIN files \ Doomed(S)) <= Cardinality(DOMAIN files)
         /\ Cardinality(Writers) \in Nat
         /\ Cardinality(Threads) \in Nat
         /\ Cardinality(S) \in Nat
         /\ IsFiniteSet(S) /\ IsFiniteSet(Writers)
         /\ S \cap Writers = {} =>
              Cardinality(Writers) + Cardinality(S) <= Cardinality(Threads)
<1>1. IsFiniteSet(DOMAIN files) /\ IsFiniteSet(Threads)
  BY CacheAssumption DEF Room
<1>2. Writers \in SUBSET Threads /\ Writers \cup S \in SUBSET Threads
  BY DEF Writers
<1>3. DOMAIN files \ Doomed(S) \in SUBSET DOMAIN files
  OBVIOUS
<1>4. IsFiniteSet(S) /\ IsFiniteSet(Writers) /\ IsFiniteSet(DOMAIN files \ Doomed(S))
  BY <1>1, <1>2, <1>3, FS_Subset
<1>5. Cardinality(DOMAIN files \ Doomed(S)) <= Cardinality(DOMAIN files)
  BY <1>1, <1>3, FS_Subset
<1>6. Cardinality(Writers \cup S) <= Cardinality(Threads)
  BY <1>1, <1>2, FS_Subset
<1>7. Cardinality(Writers \cup S)
        = Cardinality(Writers) + Cardinality(S) - Cardinality(Writers \cap S)
  BY <1>4, FS_Union
<1>8. S \cap Writers = {} => Cardinality(Writers \cap S) = 0
  BY FS_EmptySet
<1>9. /\ Cardinality(Writers) \in Nat /\ Cardinality(S) \in Nat
      /\ Cardinality(Threads) \in Nat /\ Cardinality(DOMAIN files) \in Nat
      /\ Cardinality(DOMAIN files \ Doomed(S)) \in Nat
  BY <1>1, <1>4, FS_CardinalityType
<1> QED
  BY <1>4, <1>5, <1>6, <1>7, <1>8, <1>9

\* A step that adds no file, no writer and nothing to cull keeps the room.
LEMMA NoMore ==
  ASSUME Room, DOMAIN files' \subseteq DOMAIN files,
         Writers' \subseteq Writers, Cullers' \subseteq Cullers,
         \A t \in Cullers' : thread'[t].doomed = thread[t].doomed
  PROVE  Room'
<1>1. IsFiniteSet(DOMAIN files) /\ IsFiniteSet(DOMAIN files')
  BY FS_Subset DEF Room
<1>2. ASSUME NEW S \in SUBSET Cullers'
      PROVE  Cardinality(DOMAIN files' \ Doomed(S)') + Cardinality(Writers') + Cardinality(S)
               <= MaxEntries + Cardinality(Threads)
  <2>1. S \in SUBSET Cullers /\ S \in SUBSET Threads /\ Doomed(S)' = Doomed(S)
    BY <1>2 DEF Doomed, Cullers
  <2>2. IsFiniteSet(DOMAIN files \ Doomed(S))
    BY <1>1, FS_Subset
  <2>3. /\ Cardinality(DOMAIN files' \ Doomed(S)') <= Cardinality(DOMAIN files \ Doomed(S))
        /\ Cardinality(DOMAIN files' \ Doomed(S)') \in Nat
    <3>1. DOMAIN files' \ Doomed(S)' \in SUBSET (DOMAIN files \ Doomed(S))
      BY <2>1
    <3> QED
      BY <2>2, <3>1, FS_Subset, FS_CardinalityType
  <2>4. Cardinality(Writers') <= Cardinality(Writers) /\ Cardinality(Writers') \in Nat
    BY <2>1, Counted, FS_Subset, FS_CardinalityType
  <2>5. Cardinality(DOMAIN files \ Doomed(S)) + Cardinality(Writers) + Cardinality(S)
          <= MaxEntries + Cardinality(Threads)
    BY <2>1 DEF Room
  <2> QED
    BY <2>1, <2>3, <2>4, <2>5, Counted, CacheAssumption
<1> QED
  BY <1>1, <1>2 DEF Room

\* A cull that has seen an overfull directory dooms as many files as
\* operations can run at once.
LEMMA EnoughDoomed ==
  ASSUME NEW n \in Nat, n > MaxEntries
  PROVE  DoomedCount(n) \in Nat /\ DoomedCount(n) >= Cardinality(Threads)
<1>1. MaxEntries \in Nat /\ CullFrequency \in Nat \ {0} /\ Cardinality(Threads) \in Nat
  BY CacheAssumption, FS_CardinalityType
<1>2. MaxEntries + CullFrequency >= CullFrequency * Cardinality(Threads)
  BY CacheAssumption
<1> DEFINE a == n + CullFrequency - 1
           d == a \div CullFrequency
<1>3. a \in Nat /\ a >= CullFrequency * Cardinality(Threads)
  <2>1. CullFrequency * Cardinality(Threads) \in Nat
    BY <1>1
  <2> QED
    BY <1>1, <1>2, <2>1
<1>4. d \in Int /\ CullFrequency * d <= a /\ a < CullFrequency * (d + 1)
  BY <1>1, <1>3
<1>5. d >= 0 /\ d + 1 > Cardinality(Threads)
  <2> HIDE DEF a, d
  <2> QED
    BY <1>1, <1>3, <1>4
<1> QED
  BY <1>1, <1>4, <1>5 DEF DoomedCount
\* ... as does a step of an operation that is, and stays, before its look or
\* goes on from its date to the write.
LEMMA BeforeLook ==
  ASSUME Room, NEW t \in Threads,
         DOMAIN files' \subseteq DOMAIN files,
         \A u \in Threads \ {t} : thread'[u] = thread[u],
         \/ thread'[t].pc \notin {"stamp", "write", "cull"}
         \/ thread[t].pc \in {"stamp", "write"} /\ thread'[t].pc \in {"stamp", "write"}
  PROVE  Room'
<1>1. Writers' \subseteq Writers
  BY DEF Writers
<1>2. Cullers' \subseteq Cullers /\ \A u \in Cullers' : thread'[u].doomed = thread[u].doomed
  BY DEF Cullers
<1> QED
  BY <1>1, <1>2, NoMore

LEMMA QuietStep ==
  ASSUME TypeInv, Room, NEW t \in Threads,
         \/ HasKey(t) \/ FileExists(t) \/ Read(t) \/ Hit(t) \/ Stale(t) \/ Remove(t)
         \/ Fetch(t) \/ Stamp(t)
         \/ Overfull /\ Count(t)
  PROVE  Room'
<1>1. thread \in [Threads -> Sound]
  BY DEF TypeInv
<1>2. ASSUME NEW pc, Goto(t, pc), pc \notin {"stamp", "write", "cull"}
      PROVE  /\ \A u \in Threads \ {t} : thread'[u] = thread[u]
             /\ thread'[t].pc \notin {"stamp", "write", "cull"}
  BY <1>1, <1>2 DEF Goto, Sound, Operations
<1>3. ASSUME Return(t)
      PROVE  /\ \A u \in Threads \ {t} : thread'[u] = thread[u]
             /\ thread'[t].pc \notin {"stamp", "write", "cull"}
  BY <1>1, <1>3 DEF Return, Idle
<1>4. ASSUME NEW after \in {"idle", "count", "fetch"}, Answered(t, after)
      PROVE  /\ \A u \in Threads \ {t} : thread'[u] = thread[u]
             /\ thread'[t].pc \notin {"stamp", "write", "cull"}
  BY <1>1, <1>3, <1>4 DEF Answered, Idle, Sound, Operations
<1>5. ASSUME Missed(t)
      PROVE  /\ \A u \in Threads \ {t} : thread'[u] = thread[u]
             /\ thread'[t].pc \notin {"stamp", "write", "cull"}
  BY <1>4, <1>5 DEF Missed
<1>6. CASE HasKey(t)
  BY <1>2, <1>3, <1>6, BeforeLook DEF HasKey
<1>7. CASE FileExists(t)
  BY <1>2, <1>5, <1>7, BeforeLook DEF FileExists
<1>8. CASE Read(t)
  <2>1. ASSUME thread' = [thread EXCEPT ![t].pc = "check", ![t].content = files[Key(t)]]
        PROVE  /\ \A u \in Threads \ {t} : thread'[u] = thread[u]
               /\ thread'[t].pc = "check"
    BY <1>1, <2>1 DEF Sound, Operations
  <2> QED
    BY <1>5, <1>8, <2>1, BeforeLook DEF Read
<1>9. CASE Hit(t)
  BY <1>4, <1>9, BeforeLook DEF Hit
<1>10. CASE Stale(t)
  <2>1. /\ \A u \in Threads \ {t} : thread'[u] = thread[u]
        /\ thread'[t].pc = "remove"
    BY <1>1, <1>10 DEF Stale, Sound, Operations
  <2> QED
    BY <1>10, <2>1, BeforeLook DEF Stale
<1>11. CASE Remove(t)
  BY <1>5, <1>11, BeforeLook, RemovedType DEF Remove, TypeInv
<1>12. CASE Fetch(t)
  BY <1>2, <1>12, BeforeLook DEF Fetch
<1>13. CASE Stamp(t)
  <2>1. PICK e : thread' = [thread EXCEPT ![t].pc = "write", ![t].content = e]
    BY <1>13 DEF Stamp
  <2>2. /\ \A u \in Threads \ {t} : thread'[u] = thread[u]
        /\ thread'[t].pc = "write"
    BY <1>1, <2>1 DEF Sound, Operations
  <2> QED
    BY <1>13, <2>2, BeforeLook DEF Stamp, At
<1>14. CASE Overfull /\ Count(t)
  BY <1>2, <1>14, BeforeLook DEF Count
<1> QED
  BY <1>6, <1>7, <1>8, <1>9, <1>10, <1>11, <1>12, <1>13, <1>14

\* Within the limit, there is room for one file of every operation.
LEMMA LookRoom ==
  ASSUME TypeInv, Room, NEW t \in Threads, Count(t), ~Overfull
  PROVE  Room'
<1>1. thread' = [thread EXCEPT ![t].pc = "stamp"] /\ files' = files
  BY DEF Count, Goto
<1>2. /\ \A u \in Threads \ {t} : thread'[u] = thread[u]
      /\ thread'[t].pc = "stamp"
  BY <1>1 DEF TypeInv, Sound, Operations
<1>3. Cullers' \subseteq Cullers /\ \A u \in Cullers' : thread'[u].doomed = thread[u].doomed
  BY <1>2 DEF Cullers
<1>4. Writers' \subseteq Threads /\ Writers' \cap Cullers' = {} /\ IsFiniteSet(Threads)
  BY CacheAssumption DEF Writers, Cullers
<1>5. ASSUME NEW S \in SUBSET Cullers'
      PROVE  Cardinality(DOMAIN files' \ Doomed(S)') + Cardinality(Writers') + Cardinality(S)
               <= MaxEntries + Cardinality(Threads)
  <2>1. S \in SUBSET Threads /\ Doomed(S)' = Doomed(S) /\ Writers' \cap S = {}
    BY <1>3, <1>4 DEF Doomed, Cullers
  <2>2. /\ Cardinality(DOMAIN files \ Doomed(S)) <= Cardinality(DOMAIN files)
        /\ Cardinality(DOMAIN files \ Doomed(S)) \in Nat
        /\ Cardinality(DOMAIN files) \in Nat
    BY <2>1, Counted
  <2>3. Cardinality(DOMAIN files) <= MaxEntries
    BY <2>2, CacheAssumption DEF Overfull
  <2>4. IsFiniteSet(Writers') /\ IsFiniteSet(S)
    BY <1>4, <2>1, FS_Subset
  <2>5. Cardinality(Writers' \cup S) <= Cardinality(Threads)
    BY <1>4, <2>1, FS_Subset
  <2>6. Cardinality(Writers' \cup S) = Cardinality(Writers') + Cardinality(S)
    <3>1. Cardinality(Writers' \cap S) = 0
      BY <2>1, FS_EmptySet
    <3>2. Cardinality(Writers') \in Nat /\ Cardinality(S) \in Nat
      BY <2>4, FS_CardinalityType
    <3>3. Cardinality(Writers' \cup S)
            = Cardinality(Writers') + Cardinality(S) - Cardinality(Writers' \cap S)
      BY <2>4, FS_Union
    <3> QED
      BY <3>1, <3>2, <3>3
  <2>7. Cardinality(Writers') \in Nat /\ Cardinality(S) \in Nat /\ Cardinality(Threads) \in Nat
    BY <1>4, <2>4, FS_CardinalityType
  <2> QED
    BY <1>1, <2>1, <2>2, <2>3, <2>5, <2>6, <2>7, CacheAssumption
<1> QED
  BY <1>1, <1>5 DEF Room

\* What is doomed is more than the files that are there above the limit.
LEMMA ListRoom ==
  ASSUME TypeInv, Room, NEW t \in Threads, List(t)
  PROVE  Room'
<1>1. PICK D \in kSubset(DoomedCount(Cardinality(DOMAIN files)), DOMAIN files) : Dooms(t, D)
  BY DEF List
<1>2. /\ D \in SUBSET DOMAIN files
      /\ Cardinality(D) = DoomedCount(Cardinality(DOMAIN files))
      /\ IsFiniteSet(DOMAIN files) /\ IsFiniteSet(D)
      /\ Cardinality(DOMAIN files) \in Nat
  BY <1>1, FS_Subset, FS_CardinalityType DEF kSubset, Room
<1>3. files' = files /\ thread[t].pc = "list"
  BY DEF List, At
<1>4. /\ \A u \in Threads \ {t} : thread'[u] = thread[u]
      /\ thread'[t].doomed = D
      /\ thread'[t].pc = IF D = {} THEN "stamp" ELSE "cull"
  BY <1>1 DEF Dooms, TypeInv, Sound, Operations
<1>5. MaxEntries \in Nat
  BY CacheAssumption
<1>6. CASE D = {}
  <2>1. DOMAIN files = {}
    <3>1. DoomedCount(Cardinality(DOMAIN files)) = 0
      BY <1>2, <1>6, FS_EmptySet
    <3>2. CullFrequency \in Nat \ {0}
      BY CacheAssumption
    <3> DEFINE n == Cardinality(DOMAIN files)
               q == (n + CullFrequency - 1) \div CullFrequency
    <3>3. n \in Nat /\ q = 0
      BY <1>2, <3>1 DEF DoomedCount
    <3>4. n + CullFrequency - 1 < CullFrequency * (q + 1)
      BY <3>2, <3>3
    <3>5. n = 0
      <4> HIDE DEF n, q
      <4> QED
        BY <3>2, <3>3, <3>4
    <3> QED
      BY <1>2, <3>5, FS_EmptySet
  <2>2. ASSUME NEW S \in SUBSET Cullers'
        PROVE  Cardinality(DOMAIN files' \ Doomed(S)') + Cardinality(Writers') + Cardinality(S)
                 <= MaxEntries + Cardinality(Threads)
    <3>1. Writers' \subseteq Threads /\ S \subseteq Threads /\ Writers' \cap S = {}
      BY DEF Writers, Cullers
    <3>2. IsFiniteSet(Writers') /\ IsFiniteSet(S) /\ IsFiniteSet(Threads)
      BY <3>1, CacheAssumption, FS_Subset
    <3>3. Cardinality(Writers' \cap S) = 0 /\ Cardinality(DOMAIN files' \ Doomed(S)') = 0
      <4>1. DOMAIN files' \ Doomed(S)' = {}
        BY <1>3, <2>1
      <4> QED
        BY <3>1, <4>1, FS_EmptySet
    <3>4. Cardinality(Writers' \cup S) <= Cardinality(Threads)
      BY <3>1, <3>2, FS_Subset
    <3>5. /\ Cardinality(Writers') \in Nat /\ Cardinality(S) \in Nat /\ Cardinality(Threads) \in Nat
          /\ Cardinality(Writers' \cup S)
               = Cardinality(Writers') + Cardinality(S) - Cardinality(Writers' \cap S)
      BY <3>2, FS_CardinalityType, FS_Union
    <3> QED
      BY <1>5, <3>3, <3>4, <3>5
  <2> QED
    BY <1>2, <1>3, <2>2 DEF Room
<1>7. CASE D # {}
  <2>1. Writers' = Writers /\ Cullers' = Cullers \cup {t} /\ t \notin Cullers /\ t \notin Writers
    BY <1>3, <1>4, <1>7 DEF Writers, Cullers
  <2>2. ASSUME NEW S \in SUBSET Cullers'
        PROVE  Cardinality(DOMAIN files' \ Doomed(S)') + Cardinality(Writers') + Cardinality(S)
                 <= MaxEntries + Cardinality(Threads)
    <3> DEFINE R == S \ {t}
               n == Cardinality(DOMAIN files)
    <3>1. R \in SUBSET Cullers /\ R \in SUBSET Threads /\ R \cap Writers = {}
      BY <2>1 DEF Cullers, Writers
    <3>2. Doomed(R)' = Doomed(R)
      BY <1>4, <3>1 DEF Doomed
    <3>3. n + Cardinality(Writers) <= MaxEntries + Cardinality(Threads)
      <4>1. {} \in SUBSET Cullers /\ DOMAIN files \ Doomed({}) = DOMAIN files
        BY DEF Doomed
      <4>2. Cardinality(DOMAIN files \ Doomed({})) + Cardinality(Writers) + Cardinality({})
              <= MaxEntries + Cardinality(Threads)
        BY <4>1 DEF Room
      <4> QED
        BY <1>2, <1>5, <3>1, <4>1, <4>2, FS_EmptySet, Counted
    <3>4. CASE t \notin S
      <4>1. R = S
        BY <3>4
      <4> QED
        BY <1>3, <2>1, <3>1, <3>2, <4>1 DEF Room
    <3>5. CASE t \in S
      <4>1. S \in SUBSET Threads /\ S \cap Writers = {} /\ IsFiniteSet(R)
        BY <2>1, <3>1, <3>5, Counted DEF Cullers
      <4>2. Cardinality(S) = Cardinality(R) + 1
        <5>1. S = R \cup {t} /\ t \notin R
          BY <3>5
        <5> QED
          BY <4>1, <5>1, FS_AddElement
      <4>3. Cardinality(Writers) + Cardinality(S) <= Cardinality(Threads)
        BY <4>1, Counted
      <4>4. DOMAIN files' \ Doomed(S)' \in SUBSET (DOMAIN files \ D)
        BY <1>3, <1>4, <3>5 DEF Doomed
      <4>5. /\ Cardinality(DOMAIN files' \ Doomed(S)') <= n - Cardinality(D)
            /\ Cardinality(DOMAIN files' \ Doomed(S)') \in Nat
            /\ Cardinality(D) \in Nat
        <5>1. DOMAIN files \cap D = D
          BY <1>2
        <5>2. IsFiniteSet(DOMAIN files \ D) /\ Cardinality(DOMAIN files \ D) = n - Cardinality(D)
          <6>1. /\ IsFiniteSet(DOMAIN files \ D)
                /\ Cardinality(DOMAIN files \ D) = n - Cardinality(DOMAIN files \cap D)
            BY <1>2, FS_Difference
          <6> QED
            BY <5>1, <6>1
        <5>3. /\ Cardinality(DOMAIN files' \ Doomed(S)') <= Cardinality(DOMAIN files \ D)
              /\ IsFiniteSet(DOMAIN files' \ Doomed(S)')
          BY <4>4, <5>2, FS_Subset
        <5> QED
          BY <1>2, <5>2, <5>3, FS_CardinalityType
      <4>6. /\ Cardinality(S) \in Nat /\ Cardinality(Writers) \in Nat
            /\ Cardinality(Threads) \in Nat /\ n \in Nat
        BY <4>1, Counted
      <4>7. CASE n <= MaxEntries
        BY <1>5, <2>1, <4>3, <4>5, <4>6, <4>7
      <4>8. CASE n > MaxEntries
        <5>1. Cardinality(D) >= Cardinality(Threads)
          BY <1>2, <4>6, <4>8, EnoughDoomed
        <5>2. Cardinality(S) <= Cardinality(Threads)
          BY <4>3, <4>6
        <5> QED
          BY <1>5, <2>1, <3>3, <4>5, <4>6, <5>1, <5>2
      <4> QED
        BY <1>5, <4>6, <4>7, <4>8
    <3> QED
      BY <3>4, <3>5
  <2> QED
    BY <1>2, <1>3, <2>2 DEF Room
<1> QED
  BY <1>6, <1>7

\* One file less; or the last one, and the operation goes on to its write.
LEMMA CullRoom ==
  ASSUME TypeInv, Room, NEW t \in Threads, Cull(t)
  PROVE  Room'
<1>1. PICK k \in thread[t].doomed : files' = Removed(k) /\ Dooms(t, thread[t].doomed \ {k})
  BY DEF Cull
<1>2. thread[t].pc = "cull"
  BY DEF Cull, At
<1> DEFINE D == thread[t].doomed \ {k}
<1>3. /\ \A u \in Threads \ {t} : thread'[u] = thread[u]
      /\ thread'[t].doomed = D
      /\ thread'[t].pc = IF D = {} THEN "stamp" ELSE "cull"
  BY <1>1 DEF Dooms, TypeInv, Sound, Operations
<1>4. DOMAIN files' = DOMAIN files \ {k} /\ IsFiniteSet(DOMAIN files) /\ IsFiniteSet(DOMAIN files')
  <2>1. DOMAIN files' = DOMAIN files \ {k}
    BY <1>1, RemovedType DEF TypeInv
  <2>2. IsFiniteSet(DOMAIN files \ {k}) /\ IsFiniteSet(DOMAIN files)
    BY FS_RemoveElement DEF Room
  <2> QED
    BY <2>1, <2>2
<1>5. MaxEntries \in Nat
  BY CacheAssumption
<1>6. ASSUME NEW S \in SUBSET Cullers'
      PROVE  Cardinality(DOMAIN files' \ Doomed(S)') + Cardinality(Writers') + Cardinality(S)
               <= MaxEntries + Cardinality(Threads)
  <2>1. CASE D # {}
    <3>1. Writers' = Writers /\ Cullers' = Cullers /\ S \in SUBSET Cullers /\ S \in SUBSET Threads
      BY <1>2, <1>3, <2>1 DEF Writers, Cullers
    <3>2. DOMAIN files' \ Doomed(S)' \in SUBSET (DOMAIN files \ Doomed(S))
      <4>1. Doomed(S) \subseteq Doomed(S)' \cup {k}
        BY <1>3, <3>1 DEF Doomed
      <4> QED
        BY <1>4, <4>1
    <3>3. IsFiniteSet(DOMAIN files \ Doomed(S))
      BY <1>4, FS_Subset
    <3>4. /\ Cardinality(DOMAIN files' \ Doomed(S)') <= Cardinality(DOMAIN files \ Doomed(S))
          /\ Cardinality(DOMAIN files' \ Doomed(S)') \in Nat
      BY <3>2, <3>3, FS_Subset, FS_CardinalityType
    <3>5. Cardinality(DOMAIN files \ Doomed(S)) + Cardinality(Writers) + Cardinality(S)
            <= MaxEntries + Cardinality(Threads)
      BY <3>1 DEF Room
    <3> QED
      BY <1>5, <3>1, <3>4, <3>5, Counted
  <2>2. CASE D = {}
    <3>1. /\ Writers' = Writers \cup {t} /\ t \notin Writers
          /\ t \in Cullers /\ t \notin S /\ S \in SUBSET Cullers
          /\ thread[t].doomed = {k}
      BY <1>1, <1>2, <1>3, <2>2 DEF Writers, Cullers
    <3>2. S \cup {t} \in SUBSET Cullers /\ S \cup {t} \in SUBSET Threads /\ S \in SUBSET Threads
      BY <3>1 DEF Cullers
    <3>3. DOMAIN files' \ Doomed(S)' = DOMAIN files \ Doomed(S \cup {t})
      <4>1. Doomed(S)' = Doomed(S) /\ Doomed(S \cup {t}) = Doomed(S) \cup {k}
        BY <1>3, <3>1, <3>2 DEF Doomed
      <4> QED
        BY <1>4, <4>1
    <3>4. Cardinality(Writers') = Cardinality(Writers) + 1
      BY <3>1, <3>2, Counted, FS_AddElement
    <3>5. Cardinality(S \cup {t}) = Cardinality(S) + 1
      BY <3>1, <3>2, Counted, FS_AddElement
    <3>6. Cardinality(DOMAIN files \ Doomed(S \cup {t})) + Cardinality(Writers) + Cardinality(S \cup {t})
            <= MaxEntries + Cardinality(Threads)
      BY <3>2 DEF Room
    <3>7. /\ Cardinality(DOMAIN files \ Doomed(S \cup {t})) \in Nat
          /\ Cardinality(Writers) \in Nat /\ Cardinality(S) \in Nat /\ Cardinality(Threads) \in Nat
      BY <3>2, Counted
    <3>8. Cardinality(DOMAIN files' \ Doomed(S)') = Cardinality(DOMAIN files \ Doomed(S \cup {t}))
      BY <3>3
    <3> QED
      BY <1>5, <3>4, <3>5, <3>6, <3>7, <3>8
  <2> QED
    BY <2>1, <2>2
<1> QED
  BY <1>4, <1>6 DEF Room

\* A writer becomes a file, or rewrites one.
LEMMA WriteRoom ==
  ASSUME TypeInv, Room, NEW t \in Threads, Write(t)
  PROVE  Room'
<1>1. thread[t].pc = "write"
  BY DEF Write, At
<1>2. /\ \A u \in Threads \ {t} : thread'[u].pc = thread[u].pc /\ thread'[u].doomed = thread[u].doomed
      /\ thread'[t].pc = "idle"
  BY DEF Write, TypeInv, Sound, Operations, Idle
<1>3. DOMAIN files' = DOMAIN files \cup {Key(t)}
  BY DEF Write
<1>4. IsFiniteSet(DOMAIN files) /\ IsFiniteSet(DOMAIN files')
  BY <1>3, FS_AddElement DEF Room
<1>5. Writers' = Writers \ {t} /\ t \in Writers /\ Cullers' = Cullers
  BY <1>1, <1>2 DEF Writers, Cullers
<1>6. ASSUME NEW S \in SUBSET Cullers'
      PROVE  Cardinality(DOMAIN files' \ Doomed(S)') + Cardinality(Writers') + Cardinality(S)
               <= MaxEntries + Cardinality(Threads)
  <2>1. S \in SUBSET Cullers /\ S \in SUBSET Threads /\ Doomed(S)' = Doomed(S)
    BY <1>1, <1>2, <1>5 DEF Doomed, Cullers
  <2>2. Cardinality(Writers') = Cardinality(Writers) - 1
    BY <1>5, <2>1, Counted, FS_RemoveElement
  <2>3. DOMAIN files' \ Doomed(S)' \in SUBSET ((DOMAIN files \ Doomed(S)) \cup {Key(t)})
    BY <1>3, <2>1
  <2>4. IsFiniteSet(DOMAIN files \ Doomed(S))
    BY <1>4, FS_Subset
  <2>5. /\ IsFiniteSet((DOMAIN files \ Doomed(S)) \cup {Key(t)})
        /\ Cardinality((DOMAIN files \ Doomed(S)) \cup {Key(t)})
             <= Cardinality(DOMAIN files \ Doomed(S)) + 1
    <3>1. Cardinality(DOMAIN files \ Doomed(S)) \in Nat
      BY <2>1, Counted
    <3> QED
      BY <2>4, <3>1, FS_AddElement
  <2>6. /\ Cardinality(DOMAIN files' \ Doomed(S)') <= Cardinality((DOMAIN files \ Doomed(S)) \cup {Key(t)})
        /\ Cardinality(DOMAIN files' \ Doomed(S)') \in Nat
        /\ Cardinality((DOMAIN files \ Doomed(S)) \cup {Key(t)}) \in Nat
    BY <2>3, <2>5, FS_Subset, FS_CardinalityType
  <2>7. Cardinality(DOMAIN files \ Doomed(S)) + Cardinality(Writers) + Cardinality(S)
          <= MaxEntries + Cardinality(Threads)
    BY <2>1 DEF Room
  <2> QED
    BY <2>1, <2>2, <2>5, <2>6, <2>7, Counted, CacheAssumption
<1> QED
  BY <1>4, <1>6 DEF Room

LEMMA NextRoom == TypeInv /\ Room /\ [Next]_vars => Room'
<1> SUFFICES ASSUME TypeInv, Room, [Next]_vars PROVE Room'
  OBVIOUS
<1>1. ASSUME NEW t \in Threads, Step(t) PROVE Room'
  BY <1>1, QuietStep, LookRoom, ListRoom, CullRoom, WriteRoom DEF Step
<1>2. ASSUME NEW t \in Threads, NEW k \in Keys, NEW op \in Ops, Call(t, op, k)
      PROVE  Room'
  <2>1. /\ \A u \in Threads \ {t} : thread'[u] = thread[u]
        /\ thread'[t].pc = First(op)
    BY <1>2 DEF Call, TypeInv, Sound, Operations, Idle
  <2>2. First(op) \in {"count", "has", "exists"} /\ files' = files
    BY <1>2 DEF First, Ops, Call
  <2> QED
    BY <2>1, <2>2, BeforeLook
<1>3. ASSUME NEW k \in Keys, DeleteValue(k) PROVE Room'
  <2>1. DOMAIN files' \subseteq DOMAIN files /\ thread' = thread
    BY <1>3, RemovedType DEF DeleteValue, TypeInv
  <2> QED
    BY <2>1, NoMore DEF Writers, Cullers
<1>4. CASE Tick \/ UNCHANGED vars
  <2>1. files' = files /\ thread' = thread
    BY <1>4 DEF Tick, vars
  <2> QED
    BY <2>1, NoMore DEF Writers, Cullers
<1>5. CASE Crash
  <2>1. Writers' = {} /\ Cullers' = {} /\ files' = files
    BY <1>5 DEF Crash, Writers, Cullers, Idle
  <2> QED
    BY <2>1, NoMore
<1> QED
  BY <1>1, <1>2, <1>3, <1>4, <1>5 DEF Next

\* However many operations look, cull each other's files and write, and
\* whenever the process ends in between, the directory holds at most one file
\* per operation that runs at once above its limit: the look before the write
\* (_cull) loses no more than that.
THEOREM StaysBounded == Spec => []Bounded
<1>1. Room => Bounded
  <2> SUFFICES ASSUME Room PROVE Bounded
    OBVIOUS
  <2>1. {} \in SUBSET Cullers /\ {} \in SUBSET Threads /\ DOMAIN files \ Doomed({}) = DOMAIN files
    BY DEF Doomed
  <2>2. Cardinality(DOMAIN files \ Doomed({})) + Cardinality(Writers) + Cardinality({})
          <= MaxEntries + Cardinality(Threads)
    BY <2>1 DEF Room
  <2> QED
    BY <2>1, <2>2, Counted, FS_EmptySet, CacheAssumption DEF Bounded
<1> QED
  BY <1>1, InitRoom, NextRoom, TypeInvariant, PTL DEF Spec

-----------------------------------------------------------------------------
(* What a reader loses *)

\* Until it is overtaken, what an operation has read is what is there, if
\* anything is, and what it is about to remove has expired.
Current(t) ==
  ~thread[t].overtaken /\ Exists(Key(t)) =>
    /\ thread[t].pc = "check" => files[Key(t)] = thread[t].content
    /\ thread[t].pc = "remove" => files[Key(t)] < now

AllCurrent == \A t \in Threads : Current(t)

\* No file is added or replaced.
Shrinks ==
  /\ DOMAIN files' \subseteq DOMAIN files
  /\ \A k \in DOMAIN files' : files'[k] = files[k]

LEMMA RemovedShrinks ==
  ASSUME NEW k, files' = Removed(k)
  PROVE  Shrinks
BY DEF Removed, Restrict, Shrinks

\* The clock does not go back.
LEMMA Later ==
  ASSUME TypeInv, [Next]_vars
  PROVE  now \in Nat /\ now' \in Nat /\ now' >= now
<1>1. now \in Nat
  BY CacheAssumption DEF TypeInv, TypeOK
<1>2. now' = now \/ now' = now + 1
  BY DEF Next, Step, HasKey, FileExists, Read, Hit, Stale, Remove, Fetch,
     Count, List, Cull, Stamp, Write, Call, DeleteValue, Tick, Crash, vars
<1> QED
  BY <1>1, <1>2

\* Time and the removals of others do an operation no harm ...
LEMMA CurrentKept ==
  ASSUME TypeInv, [Next]_vars, NEW t \in Threads, Current(t),
         thread'[t] = thread[t], Shrinks
  PROVE  Current(t)'
<1>1. now \in Nat /\ now' \in Nat /\ now' >= now
  BY Later
<1>2. Exists(Key(t))' => Exists(Key(t)) /\ files'[Key(t)'] = files[Key(t)]
  BY DEF Exists, Key, Shrinks
<1>3. Exists(Key(t)) => files[Key(t)] \in Nat
  BY ExpiryType DEF TypeInv
<1>4. Key(t)' = Key(t)
  BY DEF Key
<1> QED
  BY <1>1, <1>2, <1>3, <1>4 DEF Current

\* ... nor, to most steps, its own.
LEMMA NotReading ==
  ASSUME NEW t \in Threads, thread'[t].pc \notin {"check", "remove"}
  PROVE  Current(t)'
BY DEF Current

LEMMA AnsweredElsewhere ==
  ASSUME TypeInv, NEW t \in Threads, NEW after \in {"idle", "count", "fetch"},
         Answered(t, after)
  PROVE  /\ \A u \in Threads \ {t} : thread'[u] = thread[u]
         /\ thread'[t].pc \notin {"check", "remove"}
<1>1. thread \in [Threads -> Sound]
  BY DEF TypeInv
<1>2. ASSUME Return(t)
      PROVE  /\ \A u \in Threads \ {t} : thread'[u] = thread[u]
             /\ thread'[t].pc \notin {"check", "remove"}
  BY <1>1, <1>2 DEF Return, Idle
<1> QED
  BY <1>1, <1>2 DEF Answered, Idle, Sound, Operations

\* The steps that neither read, nor act on what was read, nor write
LEMMA QuietCurrent ==
  ASSUME TypeInv, NEW t \in Threads,
         \/ HasKey(t) \/ FileExists(t) \/ Hit(t) \/ Remove(t) \/ Fetch(t)
         \/ Count(t) \/ List(t) \/ Cull(t) \/ Stamp(t)
  PROVE  /\ \A u \in Threads \ {t} : thread'[u] = thread[u]
         /\ thread'[t].pc \notin {"check", "remove"}
         /\ Shrinks
<1>1. thread \in [Threads -> Sound] /\ thread[t] \in Sound
  BY DEF TypeInv
<1> DEFINE Moves == /\ \A u \in Threads \ {t} : thread'[u] = thread[u]
                    /\ thread'[t].pc \notin {"check", "remove"}
<1>2. ASSUME NEW pc \in PCs \ {"check", "remove"}, Goto(t, pc) PROVE Moves
  BY <1>1, <1>2 DEF Goto, Sound, Operations
<1>3. ASSUME Return(t) PROVE Moves
  BY <1>1, <1>3 DEF Return, Idle
<1>4. ASSUME NEW after \in {"idle", "count", "fetch"}, Answered(t, after) PROVE Moves
  BY <1>4, AnsweredElsewhere
<1>5. ASSUME NEW D, Dooms(t, D) PROVE Moves
  BY <1>1, <1>5 DEF Dooms, Sound, Operations
<1>6. Moves
  <2>1. CASE Stamp(t)
    <3>1. PICK e : thread' = [thread EXCEPT ![t].pc = "write", ![t].content = e]
      BY <2>1 DEF Stamp
    <3> QED
      BY <1>1, <3>1 DEF Sound, Operations
  <2>2. CASE HasKey(t)
    BY <1>2, <1>3, <2>2 DEF HasKey, PCs
  <2>3. CASE FileExists(t)
    BY <1>2, <1>4, <2>3 DEF FileExists, Missed, PCs
  <2>4. CASE Hit(t) \/ Remove(t)
    BY <1>4, <2>4 DEF Hit, Remove, Missed
  <2>5. CASE Fetch(t) \/ Count(t)
    BY <1>2, <2>5 DEF Fetch, Count, PCs
  <2>6. CASE List(t) \/ Cull(t)
    BY <1>5, <2>6 DEF List, Cull
  <2> QED
    BY <2>1, <2>2, <2>3, <2>4, <2>5, <2>6
<1>7. Shrinks
  <2>1. files' = files \/ \E k : files' = Removed(k)
    BY DEF HasKey, FileExists, Hit, Remove, Fetch, Count, List, Cull, Stamp
  <2> QED
    BY <2>1, RemovedShrinks DEF Shrinks
<1> QED
  BY <1>6, <1>7

LEMMA StepCurrent ==
  ASSUME TypeInv, \A u \in Threads : Current(u), [Next]_vars,
         NEW t \in Threads, Step(t), NEW u \in Threads
  PROVE  Current(u)'
<1>1. thread \in [Threads -> Sound] /\ thread[t] \in Sound /\ thread[u] \in Sound
  BY DEF TypeInv
<1>2. CASE \/ HasKey(t) \/ FileExists(t) \/ Hit(t) \/ Remove(t) \/ Fetch(t)
           \/ Count(t) \/ List(t) \/ Cull(t) \/ Stamp(t)
  BY <1>2, QuietCurrent, CurrentKept, NotReading
<1>3. ASSUME \A w \in Threads \ {t} : thread'[w] = thread[w], files' = files, u # t
      PROVE  Current(u)'
  BY <1>3, CurrentKept DEF Shrinks
<1>4. CASE Read(t)
  <2>1. CASE Exists(Key(t))
    <3>1. /\ thread' = [thread EXCEPT ![t].pc = "check", ![t].content = files[Key(t)]]
          /\ files' = files
      BY <1>4, <2>1 DEF Read
    <3>2. \A w \in Threads \ {t} : thread'[w] = thread[w]
      BY <1>1, <3>1
    <3>3. /\ thread'[t].key = thread[t].key /\ thread'[t].pc = "check"
          /\ thread'[t].content = files[Key(t)]
      BY <1>1, <3>1 DEF Sound, Operations
    <3>4. Current(t)'
      BY <3>1, <3>3 DEF Current, Key
    <3> QED
      BY <1>3, <3>1, <3>2, <3>4
  <2>2. CASE ~Exists(Key(t))
    <3>1. Missed(t) /\ files' = files
      BY <1>4, <2>2 DEF Read
    <3>2. /\ \A w \in Threads \ {t} : thread'[w] = thread[w]
          /\ thread'[t].pc \notin {"check", "remove"}
      BY <3>1, AnsweredElsewhere DEF Missed
    <3> QED
      BY <1>3, <3>1, <3>2, NotReading
  <2> QED
    BY <2>1, <2>2
<1>5. CASE Stale(t)
  <2>1. /\ thread' = [thread EXCEPT ![t].pc = "remove", ![t].content = Null]
        /\ files' = files /\ now' = now
        /\ thread[t].pc = "check" /\ thread[t].content < now
    BY <1>5 DEF Stale, At, Expired
  <2>2. \A w \in Threads \ {t} : thread'[w] = thread[w]
    BY <1>1, <2>1
  <2>3. /\ thread'[t].key = thread[t].key /\ thread'[t].pc = "remove"
        /\ thread'[t].overtaken = thread[t].overtaken
    BY <1>1, <2>1 DEF Sound, Operations
  <2>4. Current(t)'
    BY <2>1, <2>3 DEF Current, Key, Exists
  <2> QED
    BY <1>3, <2>1, <2>2, <2>4
<1>6. CASE Write(t)
  <2>1. CASE u = t
    BY <1>1, <1>6, <2>1, NotReading DEF Write, Idle
  <2>2. CASE u # t /\ u \in Readers(Key(t))
    <3>1. thread'[u].overtaken
      BY <1>1, <1>6, <2>2 DEF Write, Sound, Operations
    <3> QED
      BY <3>1 DEF Current
  <2>3. CASE u # t /\ u \notin Readers(Key(t))
    <3>1. /\ thread'[u].pc = thread[u].pc /\ thread'[u].key = thread[u].key
          /\ thread'[u].content = thread[u].content
          /\ thread'[u].overtaken = thread[u].overtaken
      BY <1>1, <1>6, <2>3 DEF Write, Sound, Operations
    <3>2. CASE thread[u].pc \notin {"check", "remove"}
      BY <3>1, <3>2, NotReading
    <3>3. CASE Key(u) # Key(t)
      <4>1. Exists(Key(u))' => Exists(Key(u)) /\ files'[Key(u)] = files[Key(u)]
        BY <1>6, <3>1, <3>3 DEF Write, Exists, Key
      <4>2. Key(u)' = Key(u) /\ now' = now
        BY <1>6, <3>1 DEF Write, Key
      <4> QED
        BY <3>1, <4>1, <4>2 DEF Current
    <3> QED
      BY <2>3, <3>2, <3>3 DEF Readers
  <2> QED
    BY <2>1, <2>2, <2>3
<1> QED
  BY <1>2, <1>4, <1>5, <1>6 DEF Step

LEMMA NextCurrent ==
  TypeInv /\ AllCurrent /\ [Next]_vars => AllCurrent'
<1> SUFFICES ASSUME TypeInv, \A u \in Threads : Current(u), [Next]_vars, NEW u \in Threads
             PROVE  Current(u)'
  BY DEF AllCurrent
<1>1. ASSUME NEW t \in Threads, Step(t) PROVE Current(u)'
  BY <1>1, StepCurrent
<1>2. ASSUME NEW t \in Threads, NEW k \in Keys, NEW op \in Ops, Call(t, op, k)
      PROVE  Current(u)'
  <2>1. /\ u # t => thread'[u] = thread[u]
        /\ u = t => thread'[u].pc = First(op)
        /\ files' = files
    BY <1>2 DEF Call, TypeInv, Idle
  <2>2. First(op) \notin {"check", "remove"}
    BY DEF First, Ops
  <2> QED
    BY <2>1, <2>2, CurrentKept, NotReading DEF Shrinks
<1>3. ASSUME NEW k \in Keys, DeleteValue(k) PROVE Current(u)'
  BY <1>3, RemovedShrinks, CurrentKept DEF DeleteValue
<1>4. CASE Tick \/ UNCHANGED vars
  BY <1>4, CurrentKept DEF Tick, vars, Shrinks
<1>5. CASE Crash
  BY <1>5, NotReading DEF Crash, Idle
<1> QED
  BY <1>1, <1>2, <1>3, <1>4, <1>5 DEF Next

\* Which entries are lost before they expire, and which are not: an operation
\* that removes by name (_getValue:) takes away an entry that has not expired
\* only if that entry was written after the operation had read another, expired
\* one; all other losses are a cull's or a deleteValueForKey:'s.
THEOREM LosesOnlyOvertaken == Spec => KeptUntilExpiry
<1>1. Init => AllCurrent
  BY DEF Init, AllCurrent, Current, Exists
<1>2. TypeInv /\ AllCurrent /\ [Next]_vars
        => [\A k \in DOMAIN files \ DOMAIN files' :
              \/ files[k] < now
              \/ DeleteValue(k)
              \/ \E t \in Threads : Cull(t) /\ k \in thread[t].doomed
              \/ \E t \in Threads : Remove(t) /\ Key(t) = k /\ thread[t].overtaken]_vars
  <2> SUFFICES ASSUME TypeInv, \A t \in Threads : Current(t), Next,
                      NEW k \in DOMAIN files \ DOMAIN files'
               PROVE  \/ files[k] < now
                      \/ DeleteValue(k)
                      \/ \E t \in Threads : Cull(t) /\ k \in thread[t].doomed
                      \/ \E t \in Threads : Remove(t) /\ Key(t) = k /\ thread[t].overtaken
    BY DEF vars, AllCurrent
  <2>1. ASSUME NEW j, files' = Removed(j) PROVE k = j
    BY <2>1, RemovedType DEF TypeInv
  <2>2. ASSUME NEW j \in Keys, DeleteValue(j) PROVE DeleteValue(k)
    BY <2>1, <2>2 DEF DeleteValue
  <2>3. ASSUME NEW t \in Threads, Cull(t)
        PROVE  k \in thread[t].doomed
    BY <2>1, <2>3 DEF Cull
  <2>4. ASSUME NEW t \in Threads, Remove(t)
        PROVE  Key(t) = k /\ (thread[t].overtaken \/ files[k] < now)
    BY <2>1, <2>4 DEF Remove, At, Current, Exists
  <2>5. DOMAIN files' # DOMAIN files /\ ~(DOMAIN files \subseteq DOMAIN files')
    OBVIOUS
  <2>6. \/ \E j \in Keys : DeleteValue(j)
        \/ \E t \in Threads : Cull(t) \/ Remove(t)
    BY <2>5 DEF Next, Step, HasKey, FileExists, Read, Hit, Stale, Fetch, Count, List,
       Stamp, Write, Call, Tick, Crash
  <2> QED
    BY <2>2, <2>3, <2>4, <2>6
<1> QED
  BY <1>1, <1>2, NextCurrent, TypeInvariant, PTL DEF Spec, KeptUntilExpiry
=============================================================================
