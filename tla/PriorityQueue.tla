--------------------------- MODULE PriorityQueue ---------------------------
(***************************************************************************)
(* DKMappedPriorityQueue: a binary heap of keys beside a dictionary from   *)
(* keys to [selector, object].  Two keys are compared by sending the left  *)
(* one's selector to its object.  Positions count from 1 here, so that the *)
(* children of p are 2p and 2p + 1.                                        *)
(***************************************************************************)
EXTENDS Naturals, Sequences, FiniteSets, Functions

CONSTANTS
  Keys,
  Objects,
  Date,       \* Date[o]: when object o was started
  Selectors,  \* the comparison selectors in use
  Null,
  MaxCount    \* bound: objects in the queue

AllSelectors == {"compareDates:", "reverseCompareDates:"}

ASSUME QueueAssumption ==
  /\ Date \in [Objects -> Nat]
  /\ Selectors \subseteq AllSelectors
  /\ MaxCount \in Nat

VARIABLES
  queue,      \* _queue: the heap of keys
  queueKeys,  \* _queueKeys: key -> [sel, obj]
  answer      \* what the last enqueue or dequeue returned

vars == <<queue, queueKeys, answer>>

Entries == [sel : Selectors, obj : Objects]

Init ==
  /\ queue = <<>>
  /\ queueKeys = [k \in {} |-> Null]
  /\ answer = Null

-----------------------------------------------------------------------------
(* The heap.  e is the dictionary the comparisons look keys up in. *)

\* [a sel:b] == NSOrderedAscending; compareDates: puts the newest first
Ascends(sel, a, b) ==
  IF sel = "compareDates:" THEN Date[a] > Date[b] ELSE Date[a] < Date[b]

\* Mutant of Less: the right key's selector is sent to the right object.
LessSwapped(e, l, r) == Ascends(e[r].sel, e[r].obj, e[l].obj)

\* [self compareKeys:l :r] == NSOrderedAscending
Less(e, l, r) == Ascends(e[l].sel, e[l].obj, e[r].obj)

Parent(p) == p \div 2

\* Where the item at pos comes to rest when it climbs past greater parents.
Rest(e, q, start, pos) ==
  LET climb[p \in 1..pos] ==
        IF p > start /\ Less(e, q[pos], q[Parent(p)]) THEN climb[Parent(p)] ELSE p
  IN climb[pos]

\* p is an ancestor of d, or d itself
AncestorOf(d) ==
  LET up[p \in 1..d] == IF p = 1 THEN {1} ELSE {p} \cup up[Parent(p)]
  IN up[d]

\* The item at pos moves up, the parents it passed move down.
SiftDown(e, q, start, pos) ==
  LET rest == Rest(e, q, start, pos)
  IN [p \in 1..Len(q) |->
        IF p = rest THEN q[pos]
        ELSE IF p \in AncestorOf(pos) /\ p > rest THEN q[Parent(p)]
        ELSE q[p]]

\* Mutant of Child: the left child is taken although the right one goes first.
LeftChild(e, q, p) == 2 * p

\* The child that moves up: the right one unless the left one is less.
Child(e, q, p) ==
  IF 2 * p < Len(q) /\ ~Less(e, q[2 * p], q[2 * p + 1]) THEN 2 * p + 1 ELSE 2 * p

\* The smaller children move up along a path to a leaf, where the item that
\* was at pos is put, to climb back as far as it belongs.
SiftUp(e, q, pos) ==
  LET leaf[p \in 1..Len(q)] == IF 2 * p <= Len(q) THEN leaf[Child(e, q, p)] ELSE p
      end == leaf[pos]
      sunk == [p \in 1..Len(q) |->
                 IF p = end THEN q[pos]
                 ELSE IF p \in AncestorOf(end) /\ p >= pos THEN q[Child(e, q, p)]
                 ELSE q[p]]
  IN SiftDown(e, sunk, pos, end)

-----------------------------------------------------------------------------
(* The operations *)

Enqueue(k, o, sel) ==
  IF k \in DOMAIN queueKeys
  THEN answer' = Null /\ UNCHANGED <<queue, queueKeys>>
  ELSE /\ Len(queue) < MaxCount
       /\ queueKeys' = [j \in DOMAIN queueKeys \cup {k} |->
                          IF j = k THEN [sel |-> sel, obj |-> o] ELSE queueKeys[j]]
       /\ queue' = SiftDown(queueKeys', Append(queue, k), 1, Len(queue) + 1)
       /\ answer' = o

\* Mutant of Reheaped: the last key replaces the first one and stays there.
Unsifted(e, q) == [SubSeq(q, 1, Len(q) - 1) EXCEPT ![1] = q[Len(q)]]

\* The last key replaces the first and is sifted to its place.
Reheaped(e, q) ==
  IF Len(q) = 1 THEN <<>>
  ELSE SiftUp(e, [SubSeq(q, 1, Len(q) - 1) EXCEPT ![1] = q[Len(q)]], 1)

\* Mutant of Dequeue: the key stays in the dictionary.
DequeueLeaves ==
  IF queue = <<>>
  THEN answer' = Null /\ UNCHANGED <<queue, queueKeys>>
  ELSE /\ answer' = <<queueKeys[Head(queue)].obj, Head(queue)>>
       /\ queue' = Reheaped(queueKeys, queue)
       /\ UNCHANGED queueKeys

Dequeue ==
  IF queue = <<>>
  THEN answer' = Null /\ UNCHANGED <<queue, queueKeys>>
  ELSE /\ answer' = <<queueKeys[Head(queue)].obj, Head(queue)>>
       /\ queue' = Reheaped(queueKeys, queue)
       /\ queueKeys' = Restrict(queueKeys, DOMAIN queueKeys \ {Head(queue)})

Next ==
  \/ \E k \in Keys, o \in Objects, sel \in Selectors : Enqueue(k, o, sel)
  \/ Dequeue

Spec == Init /\ [][Next]_vars

-----------------------------------------------------------------------------
(* Properties *)

\* The array and the dictionary hold the same keys, each once.
KeysAgree ==
  /\ queue \in Seq(Keys)
  /\ queueKeys \in [{queue[p] : p \in 1..Len(queue)} -> Entries]
  /\ Len(queue) = Cardinality(DOMAIN queueKeys)

\* No key goes before its parent, as long as one selector is in use.
HeapOrdered ==
  \A p \in 2..Len(queue) : ~Less(queueKeys, queue[p], queue[Parent(p)])

\* With one selector the heap is a KeyedQueue: dequeue answers an object that
\* no other goes before, and neither loses nor invents one.
TheSelector == CHOOSE sel \in Selectors : TRUE
Abstract == INSTANCE KeyedQueue WITH
  held <- [k \in DOMAIN queueKeys |-> queueKeys[k].obj],
  Before <- LAMBDA a, b : Ascends(TheSelector, a, b)
ByPriority == Abstract!Spec
=============================================================================
