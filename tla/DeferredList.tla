---------------------------- MODULE DeferredList ----------------------------
(***************************************************************************)
(* DKDeferredList and gatherResults: over deferreds that answer in any     *)
(* order, before the list is made or after, from the run loop or from a    *)
(* callback of the list itself.  A member whose class takes a deferred for *)
(* a plain result (Foreign) hands it to _cbDeferred:, which follows it.    *)
(*                                                                         *)
(* As in Deferred the call stack is part of the state: initWithList:, the  *)
(* _fire of a member, and the client code that the list has called.        *)
(***************************************************************************)
EXTENDS Integers, Sequences, FiniteSets

CONSTANTS
  Things,         \* the deferreds other than the list
  Foreign,        \* those of them that may end in a deferred of another class
  Lists,          \* the arrays a list may be made of
  Values,
  Errors,         \* NSError objects
  Null,           \* [NSNull null], also an entry that is not recorded yet
  Pending         \* no answer yet

Plain == Values \cup Errors
Answers(x) == Plain \cup (IF x \in Foreign THEN Things \ Foreign ELSE {})
Results == Plain \cup Things \cup {Null}

ASSUME ListAssumption ==
  /\ Foreign \subseteq Things
  /\ Lists \subseteq Seq(Things)
  /\ Values \cap Errors = {}
  /\ Things \cap Plain = {}
  /\ {Null, Pending} \cap (Things \cup Plain) = {}
  /\ Null # Pending

VARIABLES
  list,
  flags,          \* the flags that are up
  hasCanceller,
  resultList,
  finishedCount,
  fired,          \* the list's own outcome
  result,         \* what it was fired with: [by, what]
  chain,          \* chain[x]: the list's pairs in the chain of x
  outcome,        \* outcome[x]: Pending, or the result x stores
  stack,
  ended           \* history: ended[x], Pending or what x was given

made == <<list, flags, hasCanceller>>
fields == <<resultList, finishedCount, fired, result>>
vars == <<made, fields, chain, outcome, stack, ended>>

\* "gather" is the callback that gatherResults: adds to its list.
Flags == {"fireOnOneCallback", "fireOnOneErrback", "consumeErrors", "gather"}

\* The succeeded: that each branch of a pair is curried with; "nil", no branch
Branches == {"YES", "NO", "nil"}
Pairs == [i : Nat, cb : Branches, eb : Branches]
Entries == [succeeded : {"YES", "NO"}, result : Plain \cup {Null}]

ASSUME EntryAssumption == Null \notin Entries

ClientPCs == {"client", "canceller"}
Frames == [pc : {"init", "fire"} \cup ClientPCs, x : Things \cup {Null}, result : Results]
Frame(pc, x, r) == [pc |-> pc, x |-> x, result |-> r]

\* Every field, frame and history variable has its type.
TypeOK ==
  /\ list \in Lists /\ flags \subseteq Flags /\ hasCanceller \in BOOLEAN
  /\ resultList \in Seq(Entries \cup {Null})
  /\ finishedCount \in Nat
  /\ fired \in {-1, 0, 1}
  /\ result.by \in {"none", "all", "first", "error", "cancel", "gathered"}
  /\ chain \in [Things -> Seq(Pairs)]
  /\ outcome \in [Things -> Results \cup {Pending}]
  /\ stack \in Seq(Frames)
  /\ ended \in [Things -> Results \cup {Pending}]

\* gatherResults: makes its list with one flag and no canceller.
Init ==
  /\ list \in Lists
  /\ \/ flags \in SUBSET (Flags \ {"gather"}) /\ hasCanceller \in BOOLEAN
     \/ flags = {"gather", "fireOnOneErrback"} /\ hasCanceller = FALSE
  /\ resultList = <<>>
  /\ finishedCount = 0
  /\ fired = -1
  /\ result = [by |-> "none", what |-> <<>>]
  /\ chain = [x \in Things |-> <<>>]
  /\ outcome \in {f \in [Things -> Results \cup {Pending}] :
                    \A x \in Things : f[x] \in Answers(x) \cup {Pending}}
  /\ stack = <<Frame("init", Null, Null)>>
  /\ ended = outcome

-----------------------------------------------------------------------------
(* The stack *)

Top == stack[Len(stack)]
TopIs(pc) == stack # <<>> /\ Top.pc = pc
Below == SubSeq(stack, 1, Len(stack) - 1)
Replaced(f) == [stack EXCEPT ![Len(stack)] = f]

ClientRuns == stack # <<>> => Top.pc \in ClientPCs
Initialising == stack # <<>> /\ stack[1].pc = "init"

\* addCallbacks:: on x, or callback: and errback: : [x _fire], from the frames s
FireIfFired(x, r, s) == IF r = Pending THEN s ELSE Append(s, Frame("fire", x, r))

-----------------------------------------------------------------------------
(* initWithList: *)

\* Mutant of MemberPairs: both branches report a success.
MemberPairsBothYes(i) == <<[i |-> i, cb |-> "YES", eb |-> "YES"]>>

\* addCallback: with YES, then addErrback: with NO
MemberPairs(i) ==
  <<[i |-> i, cb |-> "YES", eb |-> "nil"], [i |-> i, cb |-> "nil", eb |-> "NO"]>>

AddMember ==
  LET i == Len(resultList) + 1
      x == list[i]
  IN
  /\ TopIs("init")
  /\ i <= Len(list)
  /\ resultList' = Append(resultList, Null)
  /\ chain' = [chain EXCEPT ![x] = @ \o MemberPairs(i)]
  /\ stack' = FireIfFired(x, outcome[x], stack)
  /\ UNCHANGED <<made, finishedCount, fired, result, outcome, ended>>

\* _gatherResultsCallback
Gather(r) ==
  IF "gather" \in flags /\ r.by = "all"
  THEN [by |-> "gathered", what |-> [i \in DOMAIN r.what |-> r.what[i].result]]
  ELSE r

\* gatherResults: adds its callback once the list is made.
InitReturns ==
  /\ TopIs("init")
  /\ Len(resultList) = Len(list)
  /\ IF list = <<>> /\ "fireOnOneCallback" \notin flags
     THEN fired' = 0 /\ result' = Gather([by |-> "all", what |-> resultList])
     ELSE result' = Gather(result) /\ UNCHANGED fired
  /\ stack' = <<>>
  /\ UNCHANGED <<made, resultList, finishedCount, chain, outcome, ended>>

-----------------------------------------------------------------------------
(* A member's _fire, and _cbDeferred: *)

Branch(p, r) == IF r \in Errors THEN p.eb ELSE p.cb

TakePair(x) ==
  /\ TopIs("fire")
  /\ Top.x = x
  /\ chain[x] # <<>>

Skip(x) ==
  /\ TakePair(x)
  /\ Branch(Head(chain[x]), Top.result) = "nil"
  /\ chain' = [chain EXCEPT ![x] = Tail(@)]
  /\ UNCHANGED <<made, fields, outcome, stack, ended>>

\* Mutant of FollowingPair: an error of the deferred followed is let go.
FollowingPairCallback(i, b) == [i |-> i, cb |-> b, eb |-> "nil"]

\* addBoth: keeps the succeeded: of the branch that was given the deferred.
FollowingPair(i, b) == [i |-> i, cb |-> b, eb |-> b]

\* _cbDeferred: is given the deferred n and returns it.
Follow(x) ==
  /\ TakePair(x)
  /\ Top.result \in Things
  /\ LET n == Top.result
         p == Head(chain[x])
         b == Branch(p, n)
     IN /\ b # "nil"
        /\ chain' = [chain EXCEPT ![x] = Tail(@), ![n] = Append(@, FollowingPair(p.i, b))]
        /\ stack' = FireIfFired(n, outcome[n], stack)
  /\ UNCHANGED <<made, fields, outcome, ended>>

\* Mutant of Unfired: the list fires again for a later member.
UnfiredNever == TRUE

Unfired == fired = -1

\* Mutant of AllFinished: the count is compared before it goes up.
AllFinishedLate(n) == n - 1 = Len(list)

AllFinished(n) == n = Len(list)

\* Which of the list's callback: and errback: the recording of r for index i
\* calls, as [o, r], the entries being recorded and n of them counted
FiresWith(i, b, r, recorded, n) ==
  IF ~Unfired THEN [o |-> fired, r |-> result]
  ELSE IF b = "YES" /\ "fireOnOneCallback" \in flags
  THEN [o |-> 0, r |-> [by |-> "first", what |-> <<i, r>>]]
  ELSE IF b = "NO" /\ "fireOnOneErrback" \in flags
  THEN [o |-> 1, r |-> [by |-> "error", what |-> <<i, r>>]]
  ELSE IF AllFinished(n)
  THEN [o |-> 0, r |-> [by |-> "all", what |-> recorded]]
  ELSE [o |-> -1, r |-> result]

\* Mutant of Consumed: nil is passed on as it is.
ConsumedToNil(b, r) == IF b = "NO" /\ "consumeErrors" \in flags THEN "nil" ELSE r

\* nil, once boxed by _fire, for an error that is consumed
Consumed(b, r) == IF b = "NO" /\ "consumeErrors" \in flags THEN Null ELSE r

\* _cbDeferred: is given anything else.  If it fires the list, the list's
\* callbacks run before it returns; while the list is made it has none.
Record(x) ==
  LET p == Head(chain[x])
      r == Top.result
      b == Branch(p, r)
      then == FiresWith(p.i, b, r, resultList', finishedCount')
      returned == Replaced([Top EXCEPT !.result = Consumed(b, r)])
  IN
  /\ TakePair(x)
  /\ b # "nil"
  /\ r \notin Things
  /\ chain' = [chain EXCEPT ![x] = Tail(@)]
  /\ resultList' = [resultList EXCEPT ![p.i] = [succeeded |-> b, result |-> r]]
  /\ finishedCount' = finishedCount + 1
  /\ fired' = then.o
  /\ result' = IF Initialising THEN then.r ELSE Gather(then.r)
  /\ stack' = IF then.o = fired \/ Initialising THEN returned
              ELSE Append(returned, Frame("client", Null, Null))
  /\ UNCHANGED <<made, outcome, ended>>

\* The end of _fire stores what the last callback returned.
FireReturns(x) ==
  /\ TopIs("fire")
  /\ Top.x = x
  /\ chain[x] = <<>>
  /\ outcome' = [outcome EXCEPT ![x] = Top.result]
  /\ stack' = Below
  /\ UNCHANGED <<made, fields, chain, ended>>

-----------------------------------------------------------------------------
(* The client *)

\* A deferred answers, or is cancelled, which is an answer with an error.
Settle(x) ==
  /\ ClientRuns
  /\ outcome[x] = Pending
  /\ \E r \in Answers(x) :
       /\ outcome' = [outcome EXCEPT ![x] = r]
       /\ ended' = [ended EXCEPT ![x] = r]
       /\ stack' = FireIfFired(x, r, stack)
  /\ UNCHANGED <<made, fields, chain>>

\* cancel's own errback: with the cancelled error, from the frames s
CancelErrback(s) ==
  /\ fired' = 1
  /\ result' = [by |-> "cancel", what |-> <<>>]
  /\ stack' = Append(s, Frame("client", Null, Null))

Cancel ==
  /\ ClientRuns
  /\ fired = -1
  /\ \A i \in DOMAIN stack : stack[i].pc # "canceller"
  /\ IF hasCanceller
     THEN /\ stack' = Append(stack, Frame("canceller", Null, Null))
          /\ UNCHANGED <<fired, result>>
     ELSE CancelErrback(stack)
  /\ UNCHANGED <<made, resultList, finishedCount, chain, outcome, ended>>

CancellerReturns ==
  /\ TopIs("canceller")
  /\ IF fired = -1 THEN CancelErrback(Below)
     ELSE stack' = Below /\ UNCHANGED <<fired, result>>
  /\ UNCHANGED <<made, resultList, finishedCount, chain, outcome, ended>>

ClientReturns ==
  /\ TopIs("client")
  /\ stack' = Below
  /\ UNCHANGED <<made, fields, chain, outcome, ended>>

-----------------------------------------------------------------------------

Step ==
  \/ AddMember \/ InitReturns
  \/ \E x \in Things : Skip(x) \/ Follow(x) \/ Record(x) \/ FireReturns(x)
  \/ CancellerReturns \/ ClientReturns

Next == Step \/ Cancel \/ \E x \in Things : Settle(x)

Spec == Init /\ [][Next]_vars

\* Code that has begun goes on, and client code returns.
FairSpec == Spec /\ WF_vars(Step)

-----------------------------------------------------------------------------
(* Properties *)

\* What x came to in the end, through the deferred it may have ended in
Final(x) == IF ended[x] \in Things THEN ended[ended[x]] ELSE ended[x]

\* A pair for index i waits, and is not passed over by the _fire under way
Owed(i) ==
  \E x \in Things, k \in 0..Len(stack) :
    /\ IF k = 0 THEN \A j \in DOMAIN stack : stack[j].x # x
       ELSE stack[k].x = x /\ \A j \in k + 1..Len(stack) : stack[j].x # x
    /\ \E j \in DOMAIN chain[x] :
         /\ chain[x][j].i = i
         /\ k > 0 => Branch(chain[x][j], stack[k].result) # "nil"

\* The one list that may count an answer twice, after it has fired: it has
\* consumed the error of a member that it has twice, and so its callback can
\* have another member hand that one on while the second is being called; the
\* member's _fire begins again with the error (_fire).
Recounts ==
  /\ "consumeErrors" \in flags
  /\ fired # -1
  /\ \E i, j, k \in DOMAIN list :
       i # j /\ list[i] = list[j] /\ list[i] \notin Foreign /\ list[k] \in Foreign

\* No answer is counted twice or lost (_cbDeferred:succeeded:result:): each
\* member added is recorded and counted, or else a branch that will do so
\* still waits, in its own chain or that of the deferred it handed on.
EachOnce ==
  Recounts
    \/ /\ finishedCount = Cardinality({i \in DOMAIN resultList : resultList[i] # Null})
       /\ \A i \in DOMAIN resultList : resultList[i] = Null <=> Owed(i)

\* What the list has to fire for has not happened while it has not fired, in
\* any state the client can see; a list of none that fires on one callback is
\* the exception, it waits for ever (initWithList:).
Prompt ==
  fired = -1 /\ ClientRuns =>
    LET Recorded(b) ==
          {i \in DOMAIN resultList : resultList[i] # Null /\ resultList[i].succeeded = b}
    IN /\ "fireOnOneCallback" \in flags => Recorded("YES") = {}
       /\ "fireOnOneErrback" \in flags => Recorded("NO") = {}
       /\ finishedCount < Len(list) \/ (list = <<>> /\ "fireOnOneCallback" \in flags)

\* A list that calls back with all its results has one of every member, and one
\* that fires early has one of a member: what the member came to, or Null if
\* the list has consumed its error before, with NO exactly if the member
\* failed.  A failure of the deferred that a member handed on counts as a
\* success (_cbDeferred:succeeded:result:).
Entry(e, x) ==
  \/ e.result = Final(x) /\ (e.succeeded = "NO" <=> ended[x] \in Errors)
  \/ "consumeErrors" \in flags /\ e.result = Null /\ e.succeeded = "YES" /\ Final(x) \in Errors

Truthful ==
  /\ result.by = "all" =>
       /\ DOMAIN result.what = DOMAIN list
       /\ \A i \in DOMAIN list : Entry(result.what[i], list[i])
  /\ result.by = "gathered" =>
       /\ DOMAIN result.what = DOMAIN list
       /\ \A i \in DOMAIN list : ended[list[i]] \notin Errors /\ result.what[i] = Final(list[i])
  /\ result.by \in {"first", "error"} =>
       Entry([succeeded |-> IF result.by = "first" THEN "YES" ELSE "NO",
              result |-> result.what[2]], list[result.what[1]])

\* The list fires once: whatever its members still answer, and whatever its
\* callbacks do, its outcome stays (_cbDeferred:succeeded:result:).
Once == [][fired # -1 => fired' = fired /\ (result' = result \/ Initialising)]_vars

\* When all deferreds have answered the list fires, with the one exception.
Fires ==
  (\A x \in Things : outcome[x] # Pending)
    ~> (fired # -1 \/ (list = <<>> /\ "fireOnOneCallback" \in flags))
=============================================================================
