--------------------------- MODULE DeferredProofs ---------------------------
(* Theorems about Deferred, for every set of deferreds, class hierarchy,   *)
(* client and bound.                                                       *)
EXTENDS Deferred, TLAPS

-----------------------------------------------------------------------------
(* The stack *)

\* Cutting a stack down leaves a stack.
LEMMA CutType ==
  ASSUME NEW S, NEW s \in Seq(S), NEW k \in 0..Len(s)
  PROVE  /\ SubSeq(s, 1, k) \in Seq(S)
         /\ Len(SubSeq(s, 1, k)) = k
         /\ \A i \in 1..k : SubSeq(s, 1, k)[i] = s[i]
OBVIOUS

LEMMA ReplaceType ==
  ASSUME NEW S, NEW s \in Seq(S), s # <<>>, NEW f \in S
  PROVE  /\ [s EXCEPT ![Len(s)] = f] \in Seq(S)
         /\ [s EXCEPT ![Len(s)] = f] # <<>>
         /\ Len([s EXCEPT ![Len(s)] = f]) = Len(s)
         /\ [s EXCEPT ![Len(s)] = f][Len(s)] = f
         /\ \A i \in 1..Len(s) : i # Len(s) => [s EXCEPT ![Len(s)] = f][i] = s[i]
OBVIOUS

LEMMA PushType ==
  ASSUME NEW S, NEW s \in Seq(S), NEW f \in S
  PROVE  /\ Append(s, f) \in Seq(S)
         /\ Len(Append(s, f)) = Len(s) + 1
         /\ Append(s, f)[Len(s) + 1] = f
         /\ \A i \in 1..Len(s) : Append(s, f)[i] = s[i]
OBVIOUS

LEMMA TopType ==
  ASSUME TypeOK, Running
  PROVE  /\ Top \in Frames
         /\ Len(stack) \in Nat \ {0}
         /\ Below \in Seq(Frames)
         /\ \A f \in Frames : Replaced(f) \in Seq(Frames)
<1>1. stack \in Seq(Frames) /\ stack # <<>>
  BY DEF TypeOK, Running
<1>2. Len(stack) \in Nat \ {0} /\ Top \in Frames
  BY <1>1 DEF Top
<1>3. Below \in Seq(Frames)
  BY <1>1, <1>2, CutType, Len(stack) - 1 \in 0..Len(stack) DEF Below
<1>4. \A f \in Frames : Replaced(f) \in Seq(Frames)
  BY <1>1, ReplaceType DEF Replaced
<1> QED
  BY <1>2, <1>3, <1>4

LEMMA FireType ==
  ASSUME NEW s \in Seq(Frames), NEW d \in Deferreds, NEW x \in Results
  PROVE  Fire(s, d, x) \in Seq(Frames)
<1>1. [pc |-> "loop", d |-> d, result |-> x, linking |-> FALSE] \in Frames
  BY DEF Frames
<1> QED
  BY <1>1, PushType DEF Fire

LEMMA UnwindType ==
  ASSUME TypeOK, Unwind
  PROVE  stack' \in Seq(Frames)
BY CutType DEF TypeOK, Unwind

LEMMA FireIfFiredType ==
  ASSUME TypeOK, NEW d \in Deferreds, NEW s \in Seq(Frames)
  PROVE  FireIfFired(d, s) \in Seq(Frames)
BY FireType DEF TypeOK, FireIfFired

LEMMA ResbackType ==
  ASSUME TypeOK, NEW d \in Deferreds, NEW x \in Results, NEW p \in Int,
         NEW s \in Seq(Frames), Resback(d, x, p, s)
  PROVE  /\ fired' \in [Deferreds -> Outcomes]
         /\ result' \in [Deferreds -> Results]
         /\ stack' \in Seq(Frames)
BY FireType DEF TypeOK, Resback, Outcome, Outcomes

LEMMA CancelErrbackType ==
  ASSUME TypeOK, NEW d \in Deferreds, NEW s \in Seq(Frames), CancelErrback(d, s)
  PROVE  /\ fired' \in [Deferreds -> Outcomes]
         /\ result' \in [Deferreds -> Results]
         /\ stack' \in Seq(Frames)
         /\ settled' \in [Deferreds -> Seq(Settlers)]
         /\ latest' \in [Deferreds -> Results]
<1>1. CanceledError \in Results
  BY ResultAssumption DEF Results
<1>2. /\ fired' \in [Deferreds -> Outcomes]
      /\ result' \in [Deferreds -> Results]
      /\ stack' \in Seq(Frames)
  BY <1>1, ResbackType DEF CancelErrback, TypeOK
<1>3. settled' \in [Deferreds -> Seq(Settlers)] /\ latest' \in [Deferreds -> Results]
  BY <1>1 DEF CancelErrback, TypeOK, Settlers
<1> QED
  BY <1>2, <1>3

LEMMA BoxedType ==
  /\ \A x \in Inputs : Boxed(x) \in Results
  /\ Boxed("nil") \in Results
BY DEF Inputs, Boxed, Results

-----------------------------------------------------------------------------
(* Type correctness *)

LEMMA InitType == Init => TypeOK
BY DEF Init, TypeOK, Outcomes, Results

LEMMA SettleType ==
  ASSUME TypeOK, NEW d \in Deferreds, NEW x \in Inputs \cup Results, Settle(d, x)
  PROVE  TypeOK'
<1>1. Boxed(x) \in Results
  BY BoxedType DEF Boxed, Results
<1>2. /\ fired' \in [Deferreds -> Outcomes]
      /\ result' \in [Deferreds -> Results]
      /\ stack' \in Seq(Frames)
  BY <1>1, ResbackType DEF Settle, TypeOK
<1>3. silentlyCancelled' \in [Deferreds -> BOOLEAN]
  BY DEF Settle, TypeOK, CheckedFlag
<1>4. /\ settled' \in [Deferreds -> Seq(Settlers)]
      /\ latest' \in [Deferreds -> Results]
  BY <1>1 DEF Settle, TypeOK, Settlers
<1> QED
  BY <1>2, <1>3, <1>4 DEF Settle, TypeOK

LEMMA ClientCallsType ==
  ASSUME TypeOK, ClientCalls
  PROVE  TypeOK'
<1> SUFFICES ASSUME NEW d \in Deferreds,
                    \/ \E x \in Inputs : Callback(d, x) \/ Errback(d, x) \/ RejectChained(d, x)
                    \/ \E fn \in ClientSlots : AddCallbacks(d, fn)
                    \/ SetFinalizer(d)
                    \/ Pause(d)
                    \/ Resume(d)
                    \/ Cancel(d)
             PROVE  TypeOK'
  BY DEF ClientCalls
<1>1. ASSUME NEW x \in Inputs, Callback(d, x) PROVE TypeOK'
  BY <1>1, SettleType DEF Callback
<1>2. ASSUME NEW x \in Inputs, Errback(d, x) PROVE TypeOK'
  <2>1. AsError(x) \in Results
    BY ResultAssumption DEF AsError, Results
  <2> QED
    BY <1>2, <2>1, SettleType DEF Errback
<1>3. ASSUME NEW x \in Inputs, RejectChained(d, x) PROVE TypeOK'
  BY <1>3, UnwindType DEF RejectChained, TypeOK, history, CheckedFlag
<1>4. ASSUME NEW fn \in ClientSlots, AddCallbacks(d, fn) PROVE TypeOK'
  <2>1. [id |-> added, fn |-> fn] \in Pairs
    BY DEF Pairs, Slots, ClientSlots, TypeOK
  <2>2. chain' \in [Deferreds -> Seq(Pairs)]
    BY <1>4, <2>1, PushType DEF AddCallbacks, Chain, TypeOK
  <2>3. stack' \in Seq(Frames)
    BY <1>4, FireIfFiredType DEF AddCallbacks, TypeOK
  <2> QED
    BY <1>4, <2>2, <2>3 DEF AddCallbacks, TypeOK
<1>5. ASSUME SetFinalizer(d) PROVE TypeOK'
  <2>1. stack' \in Seq(Frames)
    BY <1>5, FireIfFiredType DEF SetFinalizer, TypeOK
  <2> QED
    BY <1>5, <2>1 DEF SetFinalizer, TypeOK, history
<1>6. ASSUME Pause(d) PROVE TypeOK'
  BY <1>6 DEF Pause, TypeOK
<1>7. ASSUME Resume(d) PROVE TypeOK'
  <2>1. stack' \in Seq(Frames)
    BY <1>7, FireIfFiredType DEF Resume, TypeOK
  <2>2. paused' \in [Deferreds -> Int] /\ owed' \in [Deferreds -> Nat]
    BY <1>7 DEF Resume, ResumedPause, TypeOK
  <2> QED
    BY <1>7, <2>1, <2>2 DEF Resume, TypeOK
<1>8. ASSUME Cancel(d) PROVE TypeOK'
  <2>1. [pc |-> "cancel", d |-> d, result |-> Null, linking |-> FALSE] \in Frames
    BY DEF Frames, Results
  <2>2. stack' \in Seq(Frames)
    BY <1>8, <2>1, PushType DEF Cancel, TypeOK
  <2> QED
    BY <1>8, <2>2 DEF Cancel, TypeOK, fields, history
<1> QED
  BY <1>1, <1>2, <1>3, <1>4, <1>5, <1>6, <1>7, <1>8

LEMMA ClientReturnsType ==
  ASSUME TypeOK, ClientReturns
  PROVE  TypeOK'
<1>1. ASSUME NEW x \in Inputs, Return(x) PROVE TypeOK'
  <2>1. Boxed(x) \in Results
    BY BoxedType
  <2>2. Top \in Frames /\ \A f \in Frames : Replaced(f) \in Seq(Frames)
    BY <1>1, TopType DEF Return, TopIs
  <2>3. [Top EXCEPT !.pc = "loop", !.result = Boxed(x),
                    !.linking = Top.linking \/ IsKind(x, Top.d)] \in Frames
    BY <2>1, <2>2 DEF Frames
  <2>4. stack' \in Seq(Frames)
    BY <1>1, <2>2, <2>3 DEF Return
  <2>5. /\ paused' \in [Deferreds -> Int]
        /\ latest' \in [Deferreds -> Results]
    BY <1>1, <2>1, <2>2 DEF Return, TypeOK, Frames
  <2> QED
    BY <1>1, <2>4, <2>5 DEF Return, TypeOK
<1>2. ASSUME FinalizerReturns PROVE TypeOK'
  <2>1. [Top EXCEPT !.pc = "link"] \in Frames
    BY <1>2, TopType DEF FinalizerReturns, TopIs, Frames
  <2>2. stack' \in Seq(Frames)
    BY <1>2, <2>1, TopType DEF FinalizerReturns, TopIs
  <2> QED
    BY <1>2, <2>2 DEF FinalizerReturns, TypeOK, fields, history
<1>3. ASSUME CancellerReturns PROVE TypeOK'
  <2>1. Top.d \in Deferreds /\ Below \in Seq(Frames)
    BY <1>3, TopType DEF CancellerReturns, TopIs, Frames
  <2>2. CASE fired[Top.d] = -1
    BY <1>3, <2>1, <2>2, CancelErrbackType DEF CancellerReturns, TypeOK
  <2>3. CASE fired[Top.d] # -1
    BY <1>3, <2>1, <2>3 DEF CancellerReturns, TypeOK
  <2> QED
    BY <2>2, <2>3
<1> QED
  BY <1>1, <1>2, <1>3 DEF ClientReturns

LEMMA TakeType ==
  ASSUME TypeOK, NEW d \in Deferreds, TakeStep(d)
  PROVE  TypeOK'
<1>1. TakePair(d)
  BY DEF TakeStep, Skip, CallClient, ContinueChain
<1>2. chain[d] \in Seq(Pairs) /\ chain[d] # <<>>
  BY <1>1 DEF TakePair, Continues, TypeOK
<1>3. Head(chain[d]) \in Pairs /\ Tail(chain[d]) \in Seq(Pairs)
  BY <1>2
<1>4. /\ chain' \in [Deferreds -> Seq(Pairs)]
      /\ ran' \in [Deferreds -> Seq(Nat)]
  <2>1. chain' \in [Deferreds -> Seq(Pairs)]
    BY <1>1, <1>3 DEF TakePair, TypeOK
  <2>2. Head(chain[d]).id \in Nat
    BY <1>3 DEF Pairs
  <2>3. ran' \in [Deferreds -> Seq(Nat)]
    BY <1>1, <2>2, PushType DEF TakePair, TypeOK
  <2> QED
    BY <2>1, <2>3
<1>5. Top \in Frames /\ \A f \in Frames : Replaced(f) \in Seq(Frames)
  BY <1>1, TopType DEF TakePair, TopIs
<1>6. ASSUME Skip(d) PROVE TypeOK'
  BY <1>1, <1>4, <1>6 DEF Skip, TakePair, TypeOK
<1>7. ASSUME CallClient(d) PROVE TypeOK'
  <2>1. [Top EXCEPT !.pc = "callback"] \in Frames
    BY <1>5 DEF Frames, ClientPCs
  <2> QED
    BY <1>1, <1>4, <1>5, <1>7, <2>1 DEF CallClient, TakePair, TypeOK
<1>8. ASSUME NEW o \in Deferreds, ContinueChain(d, o) PROVE TypeOK'
  <2>1. [Top EXCEPT !.result = Boxed("nil")] \in Frames /\ Top.result \in Results
    BY <1>5, BoxedType DEF Frames
  <2>2. paused' \in [Deferreds -> Int]
    BY <1>8 DEF ContinueChain, ContinuedPause, TypeOK
  <2>3. /\ fired' \in [Deferreds -> Outcomes]
        /\ result' \in [Deferreds -> Results]
        /\ stack' \in Seq(Frames)
    BY <1>5, <1>8, <2>1, <2>2, ResbackType DEF ContinueChain
  <2>4. latest' \in [Deferreds -> Results]
    BY <1>8, <2>1, BoxedType DEF ContinueChain, TypeOK
  <2> QED
    BY <1>1, <1>4, <2>2, <2>3, <2>4 DEF TakePair, TypeOK
<1> QED
  BY <1>6, <1>7, <1>8 DEF TakeStep

LEMMA LibraryType ==
  ASSUME TypeOK, NEW d \in Deferreds, LibraryStep(d)
  PROVE  TypeOK'
<1> USE DEF TopIs
<1>1. ASSUME Exit(d) PROVE TypeOK'
  <2>1. Top \in Frames /\ \A f \in Frames : Replaced(f) \in Seq(Frames)
    BY <1>1, TopType DEF Exit
  <2>2. stack' \in Seq(Frames)
    BY <1>1, <2>1 DEF Exit, Frames, ClientPCs
  <2>3. /\ fired' \in [Deferreds -> Outcomes]
        /\ result' \in [Deferreds -> Results]
    BY <1>1, <2>1 DEF Exit, Store, Outcome, Outcomes, Frames, TypeOK
  <2>4. finalized' \in [Deferreds -> BOOLEAN]
    BY <1>1 DEF Exit, Finalizes, TypeOK
  <2> QED
    BY <1>1, <2>2, <2>3, <2>4 DEF Exit, TypeOK, history
<1>2. ASSUME Link(d) PROVE TypeOK'
  <2>1. Top \in Frames /\ \A f \in Frames : Replaced(f) \in Seq(Frames)
    BY <1>2, TopType DEF Link
  <2>2. CASE Top.result \in Deferreds /\ Reusable(Top.result)
    <3>1. [id |-> added, fn |-> Continuation(d)] \in Pairs
      BY DEF Pairs, Slots, Continuation, TypeOK
    <3>2. chain' \in [Deferreds -> Seq(Pairs)]
      <4>1. chain' = [chain EXCEPT ![Top.result] =
                        Append(@, [id |-> added, fn |-> Continuation(d)])]
        BY <1>2, <2>2 DEF Link, Chain
      <4> QED
        BY <2>2, <3>1, <4>1, PushType DEF TypeOK
    <3>3. [Top EXCEPT !.pc = "chain", !.linking = FALSE] \in Frames
      BY <2>1 DEF Frames
    <3>4. stack' \in Seq(Frames)
      BY <1>2, <2>1, <2>2, <3>3, FireIfFiredType DEF Link
    <3>5. added' \in Nat
      BY <1>2, <2>2 DEF Link, TypeOK
    <3> QED
      BY <1>2, <3>2, <3>4, <3>5 DEF Link, TypeOK
  <2>3. CASE ~(Top.result \in Deferreds /\ Reusable(Top.result))
    <3>1. stack' \in Seq(Frames)
      BY <1>2, <2>3, UnwindType DEF Link
    <3> QED
      BY <1>2, <2>3, <3>1 DEF Link, TypeOK
  <2> QED
    BY <2>2, <2>3
<1>3. ASSUME FireReturns(d) PROVE TypeOK'
  BY <1>3, TopType DEF FireReturns, TypeOK, fields, history
<1>4. ASSUME SetChained(d) PROVE TypeOK'
  BY <1>4, TopType DEF SetChained, TypeOK, history
<1>5. ASSUME CancelUnfired(d) PROVE TypeOK'
  <2>1. /\ Top \in Frames
        /\ Below \in Seq(Frames)
        /\ \A f \in Frames : Replaced(f) \in Seq(Frames)
    BY <1>5, TopType DEF CancelUnfired
  <2>2. CASE d \in HasCanceller
    <3>1. [Top EXCEPT !.pc = "canceller"] \in Frames
      BY <2>1 DEF Frames, ClientPCs
    <3> QED
      BY <1>5, <2>1, <2>2, <3>1 DEF CancelUnfired, TypeOK
  <2>3. CASE d \notin HasCanceller
    <3>1. CancelErrback(d, Below)
      BY <1>5, <2>3 DEF CancelUnfired
    <3>2. silentlyCancelled' \in [Deferreds -> BOOLEAN]
      BY <1>5, <2>3 DEF CancelUnfired, TypeOK
    <3> QED
      BY <1>5, <2>1, <3>1, <3>2, CancelErrbackType DEF CancelUnfired, TypeOK
  <2> QED
    BY <2>2, <2>3
<1>6. ASSUME CancelFired(d) PROVE TypeOK'
  <2>1. /\ Top \in Frames
        /\ Below \in Seq(Frames)
        /\ \A f \in Frames : Replaced(f) \in Seq(Frames)
    BY <1>6, TopType DEF CancelFired
  <2>2. IsKind(result[d], d) => [Top EXCEPT !.d = result[d]] \in Frames
    BY <2>1 DEF IsKind, Frames
  <2> QED
    BY <1>6, <2>1, <2>2 DEF CancelFired, TypeOK, fields, history
<1> QED
  BY <1>1, <1>2, <1>3, <1>4, <1>5, <1>6, TakeType DEF LibraryStep

LEMMA StepType == TypeOK /\ [Next]_vars => TypeOK'
<1> SUFFICES ASSUME TypeOK, [Next]_vars PROVE TypeOK'
  OBVIOUS
<1>1. ASSUME Raise PROVE TypeOK'
  BY <1>1, UnwindType DEF Raise, TypeOK, fields, history
<1>2. ASSUME UNCHANGED vars PROVE TypeOK'
  BY <1>2 DEF vars, TypeOK, fields, history
<1> QED
  BY <1>1, <1>2, ClientCallsType, ClientReturnsType, LibraryType DEF Next

\* Every field, frame and history variable keeps its type, whatever the client
\* does: the pause count is an integer, the outcome -1, 0 or 1, and results
\* holds boxed results only.
THEOREM TypeCorrect == Spec => []TypeOK
BY InitType, StepType, PTL DEF Spec

-----------------------------------------------------------------------------
(* Outcomes *)

\* A deferred has fired exactly when it accepted an outcome; one that was
\* cancelled silently, and only it, may add the late answer of its work.
FiredInv ==
  \A d \in Deferreds :
    /\ settled[d] = <<>> <=> fired[d] = -1
    /\ \/ settled[d] \in {<<>>, <<"answer">>, <<"cancel">>}
       \/ settled[d] = <<"cancel", "answer">> /\ d \notin HasCanceller
    /\ silentlyCancelled[d] => settled[d] = <<"cancel">> /\ d \notin HasCanceller

\* Only a deferred that has fired has activations of _fire ...
Active(s, f) ==
  \A i \in 1..Len(s) : s[i].pc \notin {"cancel", "canceller"} => f[s[i].d] # -1

\* ... and only such a deferred awaits another one.
AwaitInv ==
  \A d \in Deferreds : \A k \in 1..Len(chain[d]) : \A j \in {0, 1} :
    chain[d][k].fn[j] \in Deferreds => fired[chain[d][k].fn[j]] # -1

OutcomeInv == TypeOK /\ FiredInv /\ Active(stack, fired) /\ AwaitInv

\* fired is never set back to -1.
FiredStays == \A d \in Deferreds : fired[d] # -1 => fired'[d] # -1

LEMMA ActiveLater ==
  ASSUME TypeOK, FiredStays, NEW s \in Seq(Frames), Active(s, fired)
  PROVE  Active(s, fired')
<1>1. \A i \in 1..Len(s) : s[i].d \in Deferreds
  <2>1. \A i \in 1..Len(s) : s[i] \in Frames
    OBVIOUS
  <2> QED
    BY <2>1 DEF Frames
<1> QED
  BY <1>1 DEF FiredStays, Active

LEMMA ActiveCut ==
  ASSUME NEW s \in Seq(Frames), NEW f, NEW k \in 0..Len(s), Active(s, f)
  PROVE  Active(SubSeq(s, 1, k), f)
BY CutType DEF Active

LEMMA ActivePush ==
  ASSUME NEW s \in Seq(Frames), NEW f, NEW g \in Frames, Active(s, f),
         g.pc \notin {"cancel", "canceller"} => f[g.d] # -1
  PROVE  Active(Append(s, g), f)
BY PushType DEF Active

LEMMA ActiveFire ==
  ASSUME NEW s \in Seq(Frames), NEW f, NEW d \in Deferreds, NEW x \in Results,
         Active(s, f), f[d] # -1
  PROVE  Active(Fire(s, d, x), f)
<1>1. [pc |-> "loop", d |-> d, result |-> x, linking |-> FALSE] \in Frames
  BY DEF Frames
<1> QED
  BY <1>1, ActivePush DEF Fire

LEMMA ActiveReplace ==
  ASSUME TypeOK, Running, NEW f, NEW g \in Frames, Active(stack, f),
         g.pc \notin {"cancel", "canceller"} => f[g.d] # -1
  PROVE  Active(Replaced(g), f)
<1>1. /\ Len(Replaced(g)) = Len(stack)
      /\ \A i \in 1..Len(stack) : Replaced(g)[i] = IF i = Len(stack) THEN g ELSE stack[i]
  BY ReplaceType DEF Replaced, Running, TypeOK
<1> QED
  BY <1>1 DEF Active

LEMMA ActiveBelow ==
  ASSUME TypeOK, Running, NEW f, Active(stack, f)
  PROVE  Active(Below, f)
<1>1. Len(stack) - 1 \in 0..Len(stack)
  BY TopType
<1> QED
  BY <1>1, ActiveCut DEF Below, TypeOK

LEMMA ActiveTop ==
  ASSUME TypeOK, Running, Active(stack, fired), Top.pc \notin {"cancel", "canceller"}
  PROVE  fired[Top.d] # -1
<1>1. Len(stack) \in 1..Len(stack)
  BY TopType
<1> QED
  BY <1>1 DEF Active, Top

LEMMA ActiveFireIfFired ==
  ASSUME TypeOK, NEW s \in Seq(Frames), Active(s, fired), NEW d \in Deferreds
  PROVE  Active(FireIfFired(d, s), fired)
BY ActiveFire DEF FireIfFired, TypeOK, Outcomes

LEMMA ActiveUnwind ==
  ASSUME TypeOK, Unwind, Active(stack, fired)
  PROVE  Active(stack', fired)
BY ActiveCut DEF Unwind, TypeOK

LEMMA ActiveResback ==
  ASSUME TypeOK, NEW d \in Deferreds, NEW x \in Results, NEW p \in Int,
         NEW s \in Seq(Frames), Active(s, fired), Resback(d, x, p, s)
  PROVE  /\ FiredStays
         /\ fired'[d] # -1
         /\ \A e \in Deferreds : e # d => fired'[e] = fired[e]
         /\ Active(stack', fired')
<1>1. /\ FiredStays
      /\ fired'[d] # -1
      /\ \A e \in Deferreds : e # d => fired'[e] = fired[e]
  BY DEF Resback, Outcome, FiredStays, TypeOK
<1>2. Active(s, fired')
  BY <1>1, ActiveLater
<1>3. Active(Fire(s, d, x), fired')
  BY <1>1, <1>2, ActiveFire
<1> QED
  BY <1>1, <1>2, <1>3 DEF Resback

\* Continuations are the only pairs that name a deferred, and they are added
\* for one that has fired.
LEMMA AwaitChain ==
  ASSUME TypeOK, AwaitInv, FiredStays, NEW d \in Deferreds,
         NEW p \in Pairs, chain' = [chain EXCEPT ![d] = Append(@, p)],
         \A j \in {0, 1} : p.fn[j] \in Deferreds => fired'[p.fn[j]] # -1
  PROVE  AwaitInv'
<1> SUFFICES ASSUME NEW e \in Deferreds, NEW k \in 1..Len(chain'[e]), NEW j \in {0, 1},
                    chain'[e][k].fn[j] \in Deferreds
             PROVE  fired'[chain'[e][k].fn[j]] # -1
  BY DEF AwaitInv
<1>1. CASE e # d
  <2>1. chain'[e] = chain[e]
    BY <1>1 DEF TypeOK
  <2> QED
    BY <2>1 DEF AwaitInv, FiredStays
<1>2. CASE e = d
  <2>1. chain'[d] = Append(chain[d], p) /\ chain[d] \in Seq(Pairs)
    BY DEF TypeOK
  <2>2. CASE k \in 1..Len(chain[d])
    <3>1. chain'[e][k] = chain[e][k]
      BY <1>2, <2>1, <2>2, PushType
    <3> QED
      BY <1>2, <2>2, <3>1 DEF AwaitInv, FiredStays
  <2>3. CASE k \notin 1..Len(chain[d])
    <3>1. chain'[e][k] = p
      BY <1>2, <2>1, <2>3, PushType
    <3> QED
      BY <3>1
  <2> QED
    BY <2>2, <2>3
<1> QED
  BY <1>1, <1>2

LEMMA AwaitTake ==
  ASSUME TypeOK, AwaitInv, FiredStays, NEW d \in Deferreds,
         chain[d] # <<>>, chain' = [chain EXCEPT ![d] = Tail(@)]
  PROVE  AwaitInv'
<1>1. /\ Len(Tail(chain[d])) = Len(chain[d]) - 1
      /\ \A k \in 1..Len(chain[d]) - 1 : Tail(chain[d])[k] = chain[d][k + 1]
  BY DEF TypeOK
<1>2. \A e \in Deferreds : \A k \in 1..Len(chain'[e]) :
        \E m \in 1..Len(chain[e]) : chain'[e][k] = chain[e][m]
  <2> TAKE e \in Deferreds
  <2> TAKE k \in 1..Len(chain'[e])
  <2>1. CASE e = d
    <3>1. k + 1 \in 1..Len(chain[e]) /\ chain'[e][k] = chain[e][k + 1]
      BY <1>1, <2>1 DEF TypeOK
    <3> QED
      BY <3>1
  <2>2. CASE e # d
    BY <2>2 DEF TypeOK
  <2> QED
    BY <2>1, <2>2
<1> QED
  BY <1>2 DEF AwaitInv, FiredStays

LEMMA AwaitKept ==
  ASSUME AwaitInv, FiredStays, UNCHANGED chain
  PROVE  AwaitInv'
BY DEF AwaitInv, FiredStays

LEMMA InitOutcome == Init => OutcomeInv
<1> SUFFICES ASSUME Init PROVE OutcomeInv
  OBVIOUS
<1>1. TypeOK
  BY InitType
<1>2. FiredInv /\ Active(stack, fired) /\ AwaitInv
  BY DEF Init, FiredInv, Active, AwaitInv
<1> QED
  BY <1>1, <1>2 DEF OutcomeInv

LEMMA LateAnswer ==
  ASSUME NEW s \in Seq(Settlers), s = <<"cancel">>
  PROVE  Append(s, "answer") = <<"cancel", "answer">>
<1> DEFINE late == Append(s, "answer")
<1>1. Len(s) = 1 /\ s[1] = "cancel"
  OBVIOUS
<1>2. late \in Seq(Settlers) /\ Len(late) = 2 /\ late[1] = "cancel" /\ late[2] = "answer"
  BY <1>1 DEF Settlers
<1> HIDE DEF late
<1>3. \A r \in Seq(Settlers) :
        Len(r) = 2 /\ r[1] = "cancel" /\ r[2] = "answer" => r = <<"cancel", "answer">>
  OBVIOUS
<1> QED
  BY <1>2, <1>3 DEF late

\* An accepted callback: or errback: is the first, or the second of a deferred
\* that was cancelled silently, and takes the flag down.
LEMMA SettleOutcome ==
  ASSUME OutcomeInv, NEW d \in Deferreds, NEW x \in Inputs \cup Results, Settle(d, x)
  PROVE  /\ FiredInv'
         /\ Active(stack, fired)'
         /\ AwaitInv'
         /\ FiredStays
<1>1. TypeOK /\ FiredInv /\ Active(stack, fired) /\ AwaitInv
  BY DEF OutcomeInv
<1>2. Boxed(x) \in Results
  BY BoxedType DEF Boxed, Results
<1>3. /\ FiredStays
      /\ fired'[d] # -1
      /\ \A e \in Deferreds : e # d => fired'[e] = fired[e]
      /\ Active(stack', fired')
  BY <1>1, <1>2, ActiveResback DEF Settle, TypeOK
<1>4. AwaitInv'
  BY <1>1, <1>3, AwaitKept DEF Settle
<1>5. FiredInv'
  <2> SUFFICES ASSUME NEW e \in Deferreds
               PROVE  /\ settled'[e] = <<>> <=> fired'[e] = -1
                      /\ \/ settled'[e] \in {<<>>, <<"answer">>, <<"cancel">>}
                         \/ settled'[e] = <<"cancel", "answer">> /\ e \notin HasCanceller
                      /\ silentlyCancelled'[e] => settled'[e] = <<"cancel">> /\ e \notin HasCanceller
    BY DEF FiredInv
  <2>1. CASE e # d
    <3>1. /\ settled'[e] = settled[e]
          /\ silentlyCancelled'[e] = silentlyCancelled[e]
          /\ fired'[e] = fired[e]
      BY <1>1, <1>3, <2>1 DEF Settle, TypeOK
    <3> QED
      BY <1>1, <3>1 DEF FiredInv
  <2>2. CASE e = d
    <3>1. settled'[d] = Append(settled[d], "answer")
      BY <1>1 DEF Settle, TypeOK
    <3>2. silentlyCancelled'[d] = (fired[d] = -1 /\ silentlyCancelled[d])
      BY <1>1 DEF Settle, CheckedFlag, TypeOK
    <3>3. fired[d] = -1 \/ silentlyCancelled[d]
      BY DEF Settle, CanFire
    <3>4. ~silentlyCancelled'[d]
      <4>1. ~(fired[d] = -1 /\ silentlyCancelled[d])
        BY <1>1 DEF FiredInv
      <4> QED
        BY <3>2, <4>1, Zenon
    <3>5. CASE fired[d] = -1
      <4>1. settled'[d] = <<"answer">>
        <5>1. settled[d] = <<>>
          BY <1>1, <3>5 DEF FiredInv
        <5> QED
          BY <3>1, <5>1
      <4> QED
        BY <1>3, <2>2, <3>4, <4>1
    <3>6. CASE silentlyCancelled[d]
      <4>1. settled[d] = <<"cancel">> /\ d \notin HasCanceller
        BY <1>1, <3>6, Zenon DEF FiredInv
      <4>2. settled'[d] = <<"cancel", "answer">>
        BY <1>1, <3>1, <4>1, LateAnswer DEF TypeOK
      <4>3. settled'[d] # <<>>
        BY <4>2
      <4> QED
        BY <1>3, <2>2, <3>4, <4>1, <4>2, <4>3, Zenon
    <3> QED
      BY <3>3, <3>5, <3>6
  <2> QED
    BY <2>1, <2>2
<1> QED
  BY <1>3, <1>4, <1>5

\* cancel's own errback: is the first outcome.
LEMMA CancelErrbackOutcome ==
  ASSUME OutcomeInv, NEW d \in Deferreds, NEW s \in Seq(Frames), Active(s, fired),
         CancelErrback(d, s), fired[d] = -1, UNCHANGED chain,
         \A e \in Deferreds : e # d => silentlyCancelled'[e] = silentlyCancelled[e],
         d \in HasCanceller => silentlyCancelled'[d] = silentlyCancelled[d]
  PROVE  /\ FiredInv'
         /\ Active(stack, fired)'
         /\ AwaitInv'
         /\ FiredStays
<1>1. TypeOK /\ FiredInv /\ Active(stack, fired) /\ AwaitInv
  BY DEF OutcomeInv
<1>2. CanceledError \in Results
  BY ResultAssumption DEF Results
<1>3. /\ FiredStays
      /\ fired'[d] # -1
      /\ \A e \in Deferreds : e # d => fired'[e] = fired[e]
      /\ Active(stack', fired')
  BY <1>1, <1>2, ActiveResback DEF CancelErrback, TypeOK
<1>4. AwaitInv'
  BY <1>1, <1>3, AwaitKept
<1>5. /\ settled'[d] = <<"cancel">>
      /\ \A e \in Deferreds : e # d => settled'[e] = settled[e]
  <2>1. settled[d] = <<>>
    BY <1>1 DEF FiredInv
  <2>2. settled' = [settled EXCEPT ![d] = Append(@, "cancel")] /\ settled \in [Deferreds -> Seq(Settlers)]
    BY <1>1 DEF CancelErrback, TypeOK
  <2> QED
    BY <2>1, <2>2
<1>6. FiredInv'
  <2> SUFFICES ASSUME NEW e \in Deferreds
               PROVE  /\ settled'[e] = <<>> <=> fired'[e] = -1
                      /\ \/ settled'[e] \in {<<>>, <<"answer">>, <<"cancel">>}
                         \/ settled'[e] = <<"cancel", "answer">> /\ e \notin HasCanceller
                      /\ silentlyCancelled'[e] => settled'[e] = <<"cancel">> /\ e \notin HasCanceller
    BY DEF FiredInv
  <2>1. CASE e # d
    <3>1. /\ settled'[e] = settled[e]
          /\ silentlyCancelled'[e] = silentlyCancelled[e]
          /\ fired'[e] = fired[e]
      BY <1>3, <1>5, <2>1
    <3> QED
      BY <1>1, <3>1 DEF FiredInv
  <2>2. CASE e = d
    <3>1. settled'[d] = <<"cancel">> /\ settled'[d] # <<>>
      BY <1>5
    <3>2. silentlyCancelled'[d] => d \notin HasCanceller
      BY <1>1 DEF FiredInv
    <3> QED
      BY <1>3, <2>2, <3>1, <3>2, Zenon
  <2> QED
    BY <2>1, <2>2
<1> QED
  BY <1>3, <1>4, <1>6

\* What most steps do: no outcome is accepted.
LEMMA QuietOutcome ==
  ASSUME FiredInv, UNCHANGED <<settled, silentlyCancelled>>,
         \A d \in Deferreds : fired[d] = -1 <=> fired'[d] = -1
  PROVE  FiredInv' /\ FiredStays
BY DEF FiredInv, FiredStays

LEMMA ClientCallsOutcome ==
  ASSUME OutcomeInv, ClientCalls
  PROVE  FiredInv' /\ Active(stack, fired)' /\ AwaitInv' /\ FiredStays
<1> DEFINE Kept == FiredInv' /\ Active(stack, fired)' /\ AwaitInv' /\ FiredStays
<1> SUFFICES ASSUME NEW d \in Deferreds,
                    \/ \E x \in Inputs : Callback(d, x) \/ Errback(d, x) \/ RejectChained(d, x)
                    \/ \E fn \in ClientSlots : AddCallbacks(d, fn)
                    \/ SetFinalizer(d)
                    \/ Pause(d)
                    \/ Resume(d)
                    \/ Cancel(d)
             PROVE  Kept
  BY DEF ClientCalls
<1>0. TypeOK /\ FiredInv /\ Active(stack, fired) /\ AwaitInv /\ stack \in Seq(Frames)
  BY DEF OutcomeInv, TypeOK
<1>1. ASSUME NEW x \in Inputs, Callback(d, x) PROVE Kept
  BY <1>1, SettleOutcome DEF Callback
<1>2. ASSUME NEW x \in Inputs, Errback(d, x) PROVE Kept
  <2>1. AsError(x) \in Results
    BY ResultAssumption DEF AsError, Results
  <2> QED
    BY <1>2, <2>1, SettleOutcome DEF Errback
<1>3. ASSUME NEW x \in Inputs, RejectChained(d, x) PROVE Kept
  <2>1. UNCHANGED <<fired, chain, settled>> /\ FiredStays
    BY <1>3 DEF RejectChained, history, FiredStays
  <2>2. Active(stack', fired) /\ AwaitInv'
    BY <1>0, <1>3, <2>1, ActiveUnwind, AwaitKept DEF RejectChained
  <2>3. FiredInv'
    <3>1. \A e \in Deferreds : silentlyCancelled'[e] => silentlyCancelled[e]
      BY <1>0, <1>3 DEF RejectChained, CheckedFlag, TypeOK
    <3> QED
      BY <1>0, <2>1, <3>1 DEF FiredInv
  <2> QED
    BY <2>1, <2>2, <2>3
<1>4. ASSUME NEW fn \in ClientSlots, AddCallbacks(d, fn) PROVE Kept
  <2>1. UNCHANGED <<fired, settled, silentlyCancelled>> /\ FiredStays
    BY <1>4 DEF AddCallbacks, FiredStays
  <2>2. /\ [id |-> added, fn |-> fn] \in Pairs
        /\ \A j \in {0, 1} : fn[j] \notin Deferreds
    BY <1>0, ResultAssumption DEF Pairs, Slots, ClientSlots, TypeOK, Results
  <2>3. AwaitInv'
    BY <1>0, <1>4, <2>1, <2>2, AwaitChain DEF AddCallbacks, Chain
  <2>4. Active(stack', fired)
    BY <1>0, <1>4, ActiveFireIfFired DEF AddCallbacks
  <2> QED
    BY <1>0, <2>1, <2>3, <2>4, QuietOutcome
<1>5. ASSUME SetFinalizer(d) PROVE Kept
  <2>1. UNCHANGED <<fired, chain, settled, silentlyCancelled>> /\ FiredStays
    BY <1>5 DEF SetFinalizer, FiredStays, history
  <2>2. Active(stack', fired)
    BY <1>0, <1>5, ActiveFireIfFired DEF SetFinalizer
  <2> QED
    BY <1>0, <2>1, <2>2, QuietOutcome, AwaitKept
<1>6. ASSUME Pause(d) PROVE Kept
  <2>1. UNCHANGED <<fired, chain, stack, settled, silentlyCancelled>> /\ FiredStays
    BY <1>6 DEF Pause, FiredStays
  <2> QED
    BY <1>0, <2>1, QuietOutcome, AwaitKept
<1>7. ASSUME Resume(d) PROVE Kept
  <2>1. UNCHANGED <<fired, chain, settled, silentlyCancelled>> /\ FiredStays
    BY <1>7 DEF Resume, FiredStays
  <2>2. Active(stack', fired)
    BY <1>0, <1>7, ActiveFireIfFired DEF Resume
  <2> QED
    BY <1>0, <2>1, <2>2, QuietOutcome, AwaitKept
<1>8. ASSUME Cancel(d) PROVE Kept
  <2>1. UNCHANGED <<fired, chain, settled, silentlyCancelled>> /\ FiredStays
    BY <1>8 DEF Cancel, FiredStays, fields, history
  <2>2. [pc |-> "cancel", d |-> d, result |-> Null, linking |-> FALSE] \in Frames
    BY DEF Frames, Results
  <2>3. Active(stack', fired)
    BY <1>0, <1>8, <2>2, ActivePush DEF Cancel
  <2> QED
    BY <1>0, <2>1, <2>3, QuietOutcome, AwaitKept
<1> QED
  BY <1>1, <1>2, <1>3, <1>4, <1>5, <1>6, <1>7, <1>8

LEMMA ClientReturnsOutcome ==
  ASSUME OutcomeInv, ClientReturns
  PROVE  FiredInv' /\ Active(stack, fired)' /\ AwaitInv' /\ FiredStays
<1> DEFINE Kept == FiredInv' /\ Active(stack, fired)' /\ AwaitInv' /\ FiredStays
<1>0. TypeOK /\ FiredInv /\ Active(stack, fired) /\ AwaitInv /\ stack \in Seq(Frames)
  BY DEF OutcomeInv, TypeOK
<1>1. ASSUME NEW x \in Inputs, Return(x) PROVE Kept
  <2>1. UNCHANGED <<fired, chain, settled, silentlyCancelled>> /\ FiredStays
    BY <1>1 DEF Return, FiredStays
  <2>2. Running /\ Top \in Frames /\ fired[Top.d] # -1
    BY <1>0, <1>1, TopType, ActiveTop DEF Return, TopIs
  <2> DEFINE g == [Top EXCEPT !.pc = "loop", !.result = Boxed(x),
                              !.linking = Top.linking \/ IsKind(x, Top.d)]
  <2>3. g \in Frames /\ g.d = Top.d
    BY <2>2, BoxedType DEF Frames
  <2>4. Active(Replaced(g), fired)
    BY <1>0, <2>2, <2>3, ActiveReplace
  <2>5. stack' = Replaced(g)
    BY <1>1 DEF Return
  <2> QED
    BY <1>0, <2>1, <2>4, <2>5, QuietOutcome, AwaitKept
<1>2. ASSUME FinalizerReturns PROVE Kept
  <2>1. UNCHANGED <<fired, chain, settled, silentlyCancelled>> /\ FiredStays
    BY <1>2 DEF FinalizerReturns, FiredStays, fields, history
  <2>2. Running /\ Top \in Frames /\ fired[Top.d] # -1
    BY <1>0, <1>2, TopType, ActiveTop DEF FinalizerReturns, TopIs
  <2>3. /\ [Top EXCEPT !.pc = "link"] \in Frames
        /\ [Top EXCEPT !.pc = "link"].d = Top.d
    BY <2>2 DEF Frames
  <2>4. Active(stack', fired)
    BY <1>0, <1>2, <2>2, <2>3, ActiveReplace DEF FinalizerReturns
  <2> QED
    BY <1>0, <2>1, <2>4, QuietOutcome, AwaitKept
<1>3. ASSUME CancellerReturns PROVE Kept
  <2>1. Running /\ Top.d \in Deferreds /\ Below \in Seq(Frames) /\ Active(Below, fired)
    BY <1>0, <1>3, TopType, ActiveBelow DEF CancellerReturns, TopIs, Frames
  <2>2. UNCHANGED <<chain, silentlyCancelled>>
    BY <1>3 DEF CancellerReturns
  <2>3. CASE fired[Top.d] = -1
    <3>1. CancelErrback(Top.d, Below)
      BY <1>3, <2>3 DEF CancellerReturns
    <3> QED
      BY <2>1, <2>2, <2>3, <3>1, CancelErrbackOutcome
  <2>4. CASE fired[Top.d] # -1
    <3>1. UNCHANGED <<fired, settled>> /\ stack' = Below
      BY <1>3, <2>4 DEF CancellerReturns
    <3> QED
      BY <1>0, <2>1, <2>2, <3>1, QuietOutcome, AwaitKept
  <2> QED
    BY <2>3, <2>4
<1> QED
  BY <1>1, <1>2, <1>3 DEF ClientReturns

LEMMA TakeOutcome ==
  ASSUME OutcomeInv, NEW d \in Deferreds, TakeStep(d)
  PROVE  FiredInv' /\ Active(stack, fired)' /\ AwaitInv' /\ FiredStays
<1> DEFINE Kept == FiredInv' /\ Active(stack, fired)' /\ AwaitInv' /\ FiredStays
<1>0. TypeOK /\ FiredInv /\ Active(stack, fired) /\ AwaitInv /\ stack \in Seq(Frames)
  BY DEF OutcomeInv, TypeOK
<1>1. TakePair(d)
  BY DEF TakeStep, Skip, CallClient, ContinueChain
<1>2. /\ Running /\ Top \in Frames /\ Top.d = d /\ fired[d] # -1
      /\ chain[d] # <<>> /\ chain' = [chain EXCEPT ![d] = Tail(@)]
      /\ UNCHANGED <<settled, silentlyCancelled>>
  BY <1>0, <1>1, TopType, ActiveTop DEF TakePair, TopIs, Continues
<1>3. FiredStays => AwaitInv'
  BY <1>0, <1>2, AwaitTake
<1>4. ASSUME Skip(d) PROVE Kept
  <2>1. UNCHANGED <<fired, stack>> /\ FiredStays
    BY <1>4 DEF Skip, FiredStays
  <2> QED
    BY <1>0, <1>2, <1>3, <2>1, QuietOutcome
<1>5. ASSUME CallClient(d) PROVE Kept
  <2>1. UNCHANGED fired /\ FiredStays
    BY <1>5 DEF CallClient, FiredStays
  <2>2. /\ [Top EXCEPT !.pc = "callback"] \in Frames
        /\ [Top EXCEPT !.pc = "callback"].d = d
    BY <1>2 DEF Frames, ClientPCs
  <2>3. Active(stack', fired)
    BY <1>0, <1>2, <1>5, <2>2, ActiveReplace DEF CallClient
  <2> QED
    BY <1>0, <1>2, <1>3, <2>1, <2>3, QuietOutcome
<1>6. ASSUME NEW o \in Deferreds, ContinueChain(d, o) PROVE Kept
  <2>1. fired[o] # -1
    <3>1. Head(chain[d]) = chain[d][1] /\ 1 \in 1..Len(chain[d])
      BY <1>0, <1>2 DEF TypeOK
    <3>2. chain[d][1].fn[Outcome(Top.result)] = o /\ Outcome(Top.result) \in {0, 1}
      BY <1>6, <3>1 DEF ContinueChain, Selected, Outcome
    <3> QED
      BY <1>0, <3>1, <3>2 DEF AwaitInv
  <2> DEFINE g == [Top EXCEPT !.result = Boxed("nil")]
  <2>2. g \in Frames /\ g.pc = Top.pc /\ g.d = d /\ Top.result \in Results
    BY <1>2, BoxedType DEF Frames
  <2>3. Replaced(g) \in Seq(Frames) /\ Active(Replaced(g), fired)
    BY <1>0, <1>2, <2>2, TopType, ActiveReplace
  <2>4. paused'[o] \in Int
    BY <1>0, <1>6 DEF ContinueChain, ContinuedPause, TypeOK
  <2>5. Resback(o, Top.result, paused'[o], Replaced(g))
    BY <1>6 DEF ContinueChain
  <2>6. /\ FiredStays
        /\ fired'[o] # -1
        /\ \A e \in Deferreds : e # o => fired'[e] = fired[e]
        /\ Active(stack', fired')
    BY <1>0, <2>2, <2>3, <2>4, <2>5, ActiveResback
  <2> QED
    BY <1>0, <1>2, <1>3, <2>1, <2>6, QuietOutcome
<1> QED
  BY <1>4, <1>5, <1>6 DEF TakeStep

LEMMA LibraryOutcome ==
  ASSUME OutcomeInv, NEW d \in Deferreds, LibraryStep(d)
  PROVE  FiredInv' /\ Active(stack, fired)' /\ AwaitInv' /\ FiredStays
<1> DEFINE Kept == FiredInv' /\ Active(stack, fired)' /\ AwaitInv' /\ FiredStays
<1>0. TypeOK /\ FiredInv /\ Active(stack, fired) /\ AwaitInv /\ stack \in Seq(Frames)
  BY DEF OutcomeInv, TypeOK
<1>1. ASSUME Exit(d) PROVE Kept
  <2>1. Running /\ Top \in Frames /\ Top.d = d /\ fired[d] # -1
    BY <1>0, <1>1, TopType, ActiveTop DEF Exit, TopIs
  <2>2. /\ UNCHANGED <<chain, settled, silentlyCancelled>>
        /\ fired' = [fired EXCEPT ![d] = Outcome(Top.result)]
    BY <1>1 DEF Exit, Store, history
  <2>3. /\ \A e \in Deferreds : fired[e] = -1 <=> fired'[e] = -1
        /\ FiredStays
    BY <1>0, <2>1, <2>2 DEF Outcome, FiredStays, TypeOK
  <2> DEFINE g == [Top EXCEPT !.pc = IF Finalizes(d) THEN "finalizer" ELSE "link"]
  <2>4. g \in Frames /\ g.d = d
    BY <2>1 DEF Frames, ClientPCs
  <2>5. Active(Replaced(g), fired)
    BY <1>0, <2>1, <2>4, ActiveReplace
  <2>6. stack' = Replaced(g) /\ Replaced(g) \in Seq(Frames)
    BY <1>0, <1>1, <2>1, <2>4, TopType DEF Exit
  <2>7. Active(stack', fired')
    BY <1>0, <2>3, <2>5, <2>6, ActiveLater
  <2> QED
    BY <1>0, <2>2, <2>3, <2>7, QuietOutcome, AwaitKept
<1>2. ASSUME Link(d) PROVE Kept
  <2>1. Running /\ Top \in Frames /\ Top.d = d /\ fired[d] # -1
    BY <1>0, <1>2, TopType, ActiveTop DEF Link, TopIs
  <2>2. UNCHANGED <<fired, settled, silentlyCancelled>> /\ FiredStays
    BY <1>2 DEF Link, FiredStays
  <2>3. CASE Top.result \in Deferreds /\ Reusable(Top.result)
    <3>1. chain' = [chain EXCEPT ![Top.result] =
                      Append(@, [id |-> added, fn |-> Continuation(d)])]
      BY <1>2, <2>3 DEF Link, Chain
    <3>2. /\ [id |-> added, fn |-> Continuation(d)] \in Pairs
          /\ \A j \in {0, 1} : Continuation(d)[j] = d
      BY <1>0 DEF Pairs, Slots, Continuation, TypeOK
    <3>3. AwaitInv'
      BY <1>0, <2>1, <2>2, <2>3, <3>1, <3>2, AwaitChain
    <3> DEFINE g == [Top EXCEPT !.pc = "chain", !.linking = FALSE]
    <3>4. g \in Frames /\ g.d = d
      BY <2>1 DEF Frames
    <3>5. Replaced(g) \in Seq(Frames) /\ Active(Replaced(g), fired)
      BY <1>0, <2>1, <3>4, TopType, ActiveReplace
    <3>6. stack' = FireIfFired(Top.result, Replaced(g))
      BY <1>2, <2>3 DEF Link
    <3>7. Active(stack', fired)
      BY <1>0, <2>3, <3>5, <3>6, ActiveFireIfFired
    <3> QED
      BY <1>0, <2>2, <3>3, <3>7, QuietOutcome
  <2>4. CASE ~(Top.result \in Deferreds /\ Reusable(Top.result))
    <3>1. Unwind /\ UNCHANGED chain
      BY <1>2, <2>4 DEF Link
    <3> QED
      BY <1>0, <2>2, <3>1, ActiveUnwind, QuietOutcome, AwaitKept
  <2> QED
    BY <2>3, <2>4
<1>3. ASSUME FireReturns(d) PROVE Kept
  <2>1. UNCHANGED <<fired, chain, settled, silentlyCancelled>> /\ FiredStays
    BY <1>3 DEF FireReturns, FiredStays, fields, history
  <2>2. Active(stack', fired)
    BY <1>0, <1>3, ActiveBelow DEF FireReturns, TopIs
  <2> QED
    BY <1>0, <2>1, <2>2, QuietOutcome, AwaitKept
<1>4. ASSUME SetChained(d) PROVE Kept
  <2>1. UNCHANGED <<fired, chain, settled, silentlyCancelled>> /\ FiredStays
    BY <1>4 DEF SetChained, FiredStays, history
  <2>2. Active(stack', fired)
    BY <1>0, <1>4, ActiveBelow DEF SetChained, TopIs
  <2> QED
    BY <1>0, <2>1, <2>2, QuietOutcome, AwaitKept
<1>5. ASSUME CancelUnfired(d) PROVE Kept
  <2>1. Running /\ Top \in Frames /\ Below \in Seq(Frames) /\ Active(Below, fired)
    BY <1>0, <1>5, TopType, ActiveBelow DEF CancelUnfired, TopIs
  <2>2. CASE d \in HasCanceller
    <3>1. UNCHANGED <<fired, chain, settled, silentlyCancelled>> /\ FiredStays
      BY <1>5, <2>2 DEF CancelUnfired, FiredStays
    <3>2. /\ [Top EXCEPT !.pc = "canceller"] \in Frames
          /\ [Top EXCEPT !.pc = "canceller"].pc = "canceller"
      BY <2>1 DEF Frames, ClientPCs
    <3>3. Active(stack', fired)
      BY <1>0, <1>5, <2>1, <2>2, <3>2, ActiveReplace DEF CancelUnfired
    <3> QED
      BY <1>0, <3>1, <3>3, QuietOutcome, AwaitKept
  <2>3. CASE d \notin HasCanceller
    <3>1. /\ CancelErrback(d, Below) /\ fired[d] = -1 /\ UNCHANGED chain
          /\ \A e \in Deferreds : e # d => silentlyCancelled'[e] = silentlyCancelled[e]
      BY <1>0, <1>5, <2>3 DEF CancelUnfired, TypeOK
    <3> QED
      BY <2>1, <2>3, <3>1, CancelErrbackOutcome
  <2> QED
    BY <2>2, <2>3
<1>6. ASSUME CancelFired(d) PROVE Kept
  <2>1. UNCHANGED <<fired, chain, settled, silentlyCancelled>> /\ FiredStays
    BY <1>6 DEF CancelFired, FiredStays, fields, history
  <2>2. Running /\ Top \in Frames /\ Top.pc = "cancel"
    BY <1>0, <1>6, TopType DEF CancelFired, TopIs
  <2>3. IsKind(result[d], d) => /\ [Top EXCEPT !.d = result[d]] \in Frames
                                /\ [Top EXCEPT !.d = result[d]].pc = "cancel"
    BY <2>2 DEF IsKind, Frames
  <2>4. Active(stack', fired)
    BY <1>0, <1>6, <2>2, <2>3, ActiveReplace, ActiveBelow DEF CancelFired
  <2> QED
    BY <1>0, <2>1, <2>4, QuietOutcome, AwaitKept
<1> QED
  BY <1>1, <1>2, <1>3, <1>4, <1>5, <1>6, TakeOutcome DEF LibraryStep

LEMMA StepOutcome == OutcomeInv /\ [Next]_vars => OutcomeInv' /\ FiredStays
<1> SUFFICES ASSUME OutcomeInv, [Next]_vars PROVE OutcomeInv' /\ FiredStays
  OBVIOUS
<1>0. TypeOK /\ FiredInv /\ Active(stack, fired) /\ AwaitInv /\ TypeOK'
  BY StepType DEF OutcomeInv
<1>1. ASSUME Raise PROVE FiredInv' /\ Active(stack, fired)' /\ AwaitInv' /\ FiredStays
  <2>1. UNCHANGED <<fired, chain, settled, silentlyCancelled>> /\ FiredStays
    BY <1>1 DEF Raise, FiredStays, fields, history
  <2>2. Active(stack', fired)
    BY <1>0, <1>1, ActiveUnwind DEF Raise
  <2> QED
    BY <1>0, <2>1, <2>2, QuietOutcome, AwaitKept
<1>2. ASSUME UNCHANGED vars PROVE FiredInv' /\ Active(stack, fired)' /\ AwaitInv' /\ FiredStays
  <2>1. UNCHANGED <<fired, chain, stack, settled, silentlyCancelled>> /\ FiredStays
    BY <1>2 DEF vars, FiredStays, fields, history
  <2> QED
    BY <1>0, <2>1, QuietOutcome, AwaitKept
<1> QED
  BY <1>0, <1>1, <1>2, ClientCallsOutcome, ClientReturnsOutcome, LibraryOutcome
  DEF Next, OutcomeInv

LEMMA OutcomeInvariant == Spec => []OutcomeInv
BY InitOutcome, StepOutcome, PTL DEF Spec

\* A deferred accepts one outcome, and a second only after a cancel that found
\* no canceller: the one late answer that the cancel left the flag up for
\* (_check, cancel).  Nothing the client does, raising from its callbacks
\* included, makes it accept another.
THEOREM AcceptsOneOutcome == Spec => []OneOutcome
<1>1. OutcomeInv => OneOutcome
  <2> SUFFICES ASSUME OutcomeInv, NEW d \in Deferreds
               PROVE  /\ \/ Len(settled[d]) <= 1
                         \/ settled[d] = <<"cancel", "answer">> /\ d \notin HasCanceller
                      /\ silentlyCancelled[d] => settled[d] = <<"cancel">> /\ d \notin HasCanceller
                      /\ fired[d] = -1 <=> settled[d] = <<>>
    BY DEF OneOutcome
  <2>1. /\ \/ settled[d] \in {<<>>, <<"answer">>, <<"cancel">>}
           \/ settled[d] = <<"cancel", "answer">> /\ d \notin HasCanceller
        /\ silentlyCancelled[d] => settled[d] = <<"cancel">> /\ d \notin HasCanceller
        /\ settled[d] = <<>> <=> fired[d] = -1
    BY DEF OutcomeInv, FiredInv
  <2>2. ASSUME settled[d] \in {<<>>, <<"answer">>, <<"cancel">>} PROVE Len(settled[d]) <= 1
    <3>1. CASE settled[d] = <<>>
      BY <3>1
    <3>2. CASE settled[d] = <<"answer">>
      BY <3>2
    <3>3. CASE settled[d] = <<"cancel">>
      BY <3>3
    <3> QED
      BY <2>2, <3>1, <3>2, <3>3
  <2> QED
    BY <2>1, <2>2, Zenon
<1> QED
  BY <1>1, OutcomeInvariant, PTL

-----------------------------------------------------------------------------
(* The callback chain *)

\* What a step does to the chains: a pair is added to a deferred that still
\* takes callbacks, the first pair of a running activation is taken, or none.
Added(d) ==
  /\ Reusable(d)
  /\ added' = added + 1
  /\ UNCHANGED <<ran, fired, paused, finalized>>
  /\ \E fn \in [{0, 1} -> Slots] : chain' = Chain(d, fn)

LEMMA ChainStep ==
  ASSUME OutcomeInv, [Next]_vars
  PROVE  \/ \E d \in Deferreds : Added(d)
         \/ \E d \in Deferreds : TakePair(d) /\ fired[d] # -1
         \/ /\ UNCHANGED <<chain, added, ran>>
            /\ \A d \in Deferreds : finalized'[d] => finalized[d] \/ chain[d] = <<>>
<1>0. TypeOK /\ Active(stack, fired)
  BY DEF OutcomeInv
<1> USE DEF history, fields
<1>1. ASSUME NEW d \in Deferreds, NEW fn \in ClientSlots, AddCallbacks(d, fn) PROVE Added(d)
  <2>1. fn \in [{0, 1} -> Slots]
    BY DEF ClientSlots, Slots
  <2> QED
    BY <1>1, <2>1 DEF AddCallbacks, Added
<1>2. ASSUME NEW d \in Deferreds, Link(d)
      PROVE  \/ \E x \in Deferreds : Added(x)
             \/ UNCHANGED <<chain, added, ran, finalized>>
  <2>1. CASE Top.result \in Deferreds /\ Reusable(Top.result)
    <3>1. Continuation(d) \in [{0, 1} -> Slots]
      BY DEF Continuation, Slots
    <3> QED
      BY <1>2, <2>1, <3>1 DEF Link, Added
  <2>2. CASE ~(Top.result \in Deferreds /\ Reusable(Top.result))
    BY <1>2, <2>2 DEF Link
  <2> QED
    BY <2>1, <2>2
<1>3. ASSUME NEW d \in Deferreds, TakeStep(d) PROVE TakePair(d) /\ fired[d] # -1
  <2>1. TakePair(d)
    BY <1>3 DEF TakeStep, Skip, CallClient, ContinueChain
  <2> QED
    BY <1>0, <2>1, ActiveTop DEF TakePair, TopIs
<1>4. ASSUME NEW d \in Deferreds, Exit(d)
      PROVE  /\ UNCHANGED <<chain, added, ran>>
             /\ \A e \in Deferreds : finalized'[e] => finalized[e] \/ chain[e] = <<>>
  BY <1>0, <1>4 DEF Exit, Finalizes, TypeOK
<1>5. ASSUME NEW d \in Deferreds, LibraryStep(d), ~TakeStep(d), ~Exit(d), ~Link(d)
      PROVE  UNCHANGED <<chain, added, ran, finalized>>
  BY <1>5 DEF LibraryStep, FireReturns, SetChained, CancelUnfired, CancelFired
<1>6. ASSUME NEW d \in Deferreds,
             \/ \E x \in Inputs : Callback(d, x) \/ Errback(d, x) \/ RejectChained(d, x)
             \/ SetFinalizer(d) \/ Pause(d) \/ Resume(d) \/ Cancel(d)
      PROVE  UNCHANGED <<chain, added, ran, finalized>>
  BY <1>6 DEF Callback, Errback, Settle, RejectChained, SetFinalizer, Pause, Resume, Cancel
<1>7. ASSUME ClientReturns PROVE UNCHANGED <<chain, added, ran, finalized>>
  BY <1>7 DEF ClientReturns, Return, FinalizerReturns, CancellerReturns
<1>8. ASSUME Raise \/ UNCHANGED vars PROVE UNCHANGED <<chain, added, ran, finalized>>
  BY <1>8 DEF Raise, vars
<1> QED
  BY <1>1, <1>2, <1>3, <1>4, <1>5, <1>6, <1>7, <1>8 DEF Next, ClientCalls, LibraryStep

\* A finalized deferred has no callback left and gets none: addCallbacks: and
\* setFinalizer: refuse it, and _fire finalizes only with an empty chain.
THEOREM FinalizedStaysEmpty == Spec => []FinalizedChainEmpty
<1>1. Init => FinalizedChainEmpty
  BY DEF Init, FinalizedChainEmpty
<1>2. OutcomeInv /\ FinalizedChainEmpty /\ [Next]_vars => FinalizedChainEmpty'
  <2> SUFFICES ASSUME OutcomeInv, FinalizedChainEmpty, [Next]_vars,
                      NEW e \in Deferreds, finalized'[e]
               PROVE  chain'[e] = <<>>
    BY DEF FinalizedChainEmpty
  <2>1. ASSUME NEW d \in Deferreds, Added(d) PROVE chain'[e] = <<>>
    <3>1. finalized[e] /\ chain[e] = <<>> /\ e # d
      BY <2>1 DEF Added, Reusable, FinalizedChainEmpty
    <3> QED
      BY <2>1, <3>1 DEF Added, Chain, OutcomeInv, TypeOK
  <2>2. ASSUME NEW d \in Deferreds, TakePair(d) PROVE chain'[e] = <<>>
    <3>1. chain[e] = <<>> /\ e # d
      BY <2>2 DEF TakePair, Continues, FinalizedChainEmpty
    <3> QED
      BY <2>2, <3>1 DEF TakePair, OutcomeInv, TypeOK
  <2>3. ASSUME UNCHANGED chain, finalized[e] \/ chain[e] = <<>> PROVE chain'[e] = <<>>
    BY <2>3 DEF FinalizedChainEmpty
  <2> QED
    BY <2>1, <2>2, <2>3, ChainStep
<1> QED
  BY <1>1, <1>2, OutcomeInvariant, PTL DEF Spec

-----------------------------------------------------------------------------
(* Deferred implements CallbackChain *)

LEMMA IdsSeq ==
  ASSUME NEW c \in Seq(Pairs)
  PROVE  /\ Ids(c) \in Seq(Nat)
         /\ Len(Ids(c)) = Len(c)
         /\ \A i \in 1..Len(c) : Ids(c)[i] = c[i].id
<1>1. \A i \in 1..Len(c) : c[i] \in Pairs
  OBVIOUS
<1>2. \A i \in 1..Len(c) : c[i].id \in Nat
  BY <1>1 DEF Pairs
<1>3. Len(c) \in Nat
  OBVIOUS
<1> QED
  BY <1>2, <1>3 DEF Ids

LEMMA SameSequence ==
  ASSUME NEW s \in Seq(Nat), NEW t \in Seq(Nat), Len(s) = Len(t),
         \A i \in 1..Len(s) : s[i] = t[i]
  PROVE  s = t
OBVIOUS

LEMMA IdsAppend ==
  ASSUME NEW c \in Seq(Pairs), NEW p \in Pairs
  PROVE  Ids(Append(c, p)) = Append(Ids(c), p.id)
<1>1. /\ Append(c, p) \in Seq(Pairs)
      /\ Len(Append(c, p)) = Len(c) + 1
      /\ Append(c, p)[Len(c) + 1] = p
      /\ \A i \in 1..Len(c) : Append(c, p)[i] = c[i]
  BY PushType
<1>2. /\ Ids(Append(c, p)) \in Seq(Nat)
      /\ Len(Ids(Append(c, p))) = Len(c) + 1
      /\ \A i \in 1..Len(c) + 1 : Ids(Append(c, p))[i] = Append(c, p)[i].id
  BY <1>1, IdsSeq
<1>3. p.id \in Nat
  BY DEF Pairs
<1>4. /\ Append(Ids(c), p.id) \in Seq(Nat)
      /\ Len(Append(Ids(c), p.id)) = Len(c) + 1
      /\ Append(Ids(c), p.id)[Len(c) + 1] = p.id
      /\ \A i \in 1..Len(c) : Append(Ids(c), p.id)[i] = c[i].id
  BY <1>3, IdsSeq, PushType
<1>5. \A i \in 1..Len(c) + 1 : i \in 1..Len(c) \/ i = Len(c) + 1
  OBVIOUS
<1>6. \A i \in 1..Len(c) + 1 : Ids(Append(c, p))[i] = Append(Ids(c), p.id)[i]
  <2> TAKE i \in 1..Len(c) + 1
  <2>1. CASE i \in 1..Len(c)
    BY <1>1, <1>2, <1>4, <2>1
  <2>2. CASE i = Len(c) + 1
    BY <1>1, <1>2, <1>4, <2>2
  <2> QED
    BY <1>5, <2>1, <2>2
<1> QED
  BY <1>2, <1>4, <1>6, SameSequence

LEMMA TailType ==
  ASSUME NEW S, NEW s \in Seq(S), s # <<>>
  PROVE  /\ Tail(s) \in Seq(S)
         /\ Len(Tail(s)) = Len(s) - 1
         /\ Head(s) = s[1]
         /\ \A i \in 1..Len(s) - 1 : Tail(s)[i] = s[i + 1]
OBVIOUS

LEMMA IdsTake ==
  ASSUME NEW c \in Seq(Pairs), c # <<>>
  PROVE  /\ Ids(c) # <<>>
         /\ Head(Ids(c)) = Head(c).id
         /\ Ids(Tail(c)) = Tail(Ids(c))
<1>1. Len(c) \in Nat \ {0}
  OBVIOUS
<1>2. Ids(c) # <<>>
  BY <1>1, IdsSeq
<1>3. Head(Ids(c)) = Head(c).id
  BY <1>1, <1>2, IdsSeq, TailType
<1>4. /\ Tail(Ids(c)) \in Seq(Nat)
      /\ Len(Tail(Ids(c))) = Len(c) - 1
      /\ \A i \in 1..Len(c) - 1 : Tail(Ids(c))[i] = c[i + 1].id
  BY <1>1, <1>2, IdsSeq, TailType
<1>5. /\ Ids(Tail(c)) \in Seq(Nat)
      /\ Len(Ids(Tail(c))) = Len(c) - 1
      /\ \A i \in 1..Len(c) - 1 : Ids(Tail(c))[i] = c[i + 1].id
  <2>1. /\ Tail(c) \in Seq(Pairs)
        /\ Len(Tail(c)) = Len(c) - 1
        /\ \A i \in 1..Len(c) - 1 : Tail(c)[i] = c[i + 1]
    BY TailType
  <2>2. /\ Ids(Tail(c)) \in Seq(Nat)
        /\ Len(Ids(Tail(c))) = Len(Tail(c))
        /\ \A i \in 1..Len(Tail(c)) : Ids(Tail(c))[i] = Tail(c)[i].id
    BY <2>1, IdsSeq
  <2> QED
    BY <2>1, <2>2
<1> QED
  BY <1>2, <1>3, <1>4, <1>5, SameSequence

LEMMA InitPromise == Init => Promise!Init
<1> SUFFICES ASSUME Init PROVE Promise!Init
  OBVIOUS
<1>1. Ids(<<>>) = <<>>
  BY DEF Ids
<1>2. \A d \in Deferreds : chain[d] = <<>> /\ fired[d] = -1 /\ paused[d] = 0
  BY DEF Init
<1> QED
  BY <1>1, <1>2 DEF Init, Promise!Init

\* Outcomes are never taken back, whatever happens to the holds.
LEMMA ControlStep ==
  ASSUME FiredStays
  PROVE  Promise!Control
BY DEF FiredStays, Promise!Control

LEMMA AddStep ==
  ASSUME TypeOK, NEW d \in Deferreds, Added(d)
  PROVE  Promise!Add(d)
<1>1. PICK fn \in [{0, 1} -> Slots] : chain' = Chain(d, fn)
  BY DEF Added
<1> DEFINE p == [id |-> added, fn |-> fn]
<1>2. p \in Pairs /\ p.id = added
  BY DEF Pairs, TypeOK
<1>3. chain' = [chain EXCEPT ![d] = Append(@, p)]
  BY <1>1 DEF Chain
<1>4. \A e \in Deferreds :
        Ids(chain'[e]) = IF e = d THEN Append(Ids(chain[d]), added) ELSE Ids(chain[e])
  BY <1>2, <1>3, IdsAppend DEF TypeOK
<1> HIDE DEF p
<1>5. [e \in Deferreds |-> Ids(chain[e])]'
        = [[e \in Deferreds |-> Ids(chain[e])] EXCEPT ![d] = Append(@, added)]
  BY <1>4
<1> QED
  BY <1>5 DEF Added, Promise!Add

LEMMA TakeAStep ==
  ASSUME TypeOK, NEW d \in Deferreds, TakePair(d), fired[d] # -1, FiredStays
  PROVE  Promise!Take(d)
<1>1. chain[d] \in Seq(Pairs) /\ chain[d] # <<>> /\ paused[d] = 0
  BY DEF TakePair, Continues, TypeOK
<1>2. /\ Ids(chain[d]) # <<>>
      /\ Head(Ids(chain[d])) = Head(chain[d]).id
      /\ Ids(Tail(chain[d])) = Tail(Ids(chain[d]))
  BY <1>1, IdsTake
<1>3. /\ chain' = [chain EXCEPT ![d] = Tail(@)]
      /\ ran' = [ran EXCEPT ![d] = Append(@, Head(chain[d]).id)]
      /\ UNCHANGED added
  BY DEF TakePair
<1>4. \A e \in Deferreds :
        Ids(chain'[e]) = IF e = d THEN Tail(Ids(chain[d])) ELSE Ids(chain[e])
  BY <1>2, <1>3 DEF TypeOK
<1>5. [e \in Deferreds |-> Ids(chain[e])]'
        = [[e \in Deferreds |-> Ids(chain[e])] EXCEPT ![d] = Tail(@)]
  BY <1>4
<1> QED
  BY <1>1, <1>2, <1>3, <1>5, ControlStep DEF Promise!Take

\* The library keeps the promise of CallbackChain: callbacks are taken in the
\* order they were added, each once, and only from a deferred that has fired
\* and that nobody holds, re-entrant and raising callbacks included.
THEOREM KeepsPromise == Spec => InOrder
<1>1. OutcomeInv /\ [Next]_vars => [Promise!Next]_(Promise!vars)
  <2> SUFFICES ASSUME OutcomeInv, [Next]_vars
               PROVE  Promise!Next \/ UNCHANGED Promise!vars
    OBVIOUS
  <2>1. TypeOK /\ FiredStays
    BY StepOutcome DEF OutcomeInv
  <2>2. ASSUME NEW d \in Deferreds, Added(d) PROVE Promise!Next
    BY <2>1, <2>2, AddStep DEF Promise!Next
  <2>3. ASSUME NEW d \in Deferreds, TakePair(d), fired[d] # -1 PROVE Promise!Next
    BY <2>1, <2>3, TakeAStep DEF Promise!Next
  <2>4. ASSUME UNCHANGED <<chain, added, ran>> PROVE Promise!Next
    BY <2>1, <2>4, ControlStep DEF Promise!Next, Promise!Steer
  <2> QED
    BY <2>2, <2>3, <2>4, ChainStep
<1> QED
  BY <1>1, InitPromise, OutcomeInvariant, PTL DEF Spec, InOrder, Promise!Spec
=============================================================================
