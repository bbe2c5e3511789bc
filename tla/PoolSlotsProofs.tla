--------------------------- MODULE PoolSlotsProofs ---------------------------
(* Theorems about the slots of DeferredPool, for every number of threads and *)
(* gates, every concurrency and any depth of calls.                          *)
EXTENDS DeferredPoolProofs

-----------------------------------------------------------------------------
(* Who has the pool's callback for a gate: the gate's chain, or its work's, or *)
(* one thread that called it or is about to hook it                            *)

Tok(t, d) == Busy(t) /\ Top(t).pc \in TokenPCs /\ Top(t).d = d
Token(d) == hook[d] # Null \/ \E t \in Threads : Tok(t, d)

\* One thread has it, if the chain has not, for the key the gate was given.
TokInv ==
  \A d \in Deferreds, t \in Threads :
    Tok(t, d) => /\ keyOf[d] = Top(t).k /\ hook[d] = Null
                 /\ \A u \in Threads : Tok(u, d) => u = t
HookInv == \A d \in Deferreds : hook[d] # Null => hook[d] = keyOf[d]

NoTok(t) == \A d : ~Tok(t, d)
Has(t, d, k) == Tok(t, d) /\ Top(t).k = k

\* How a step of t moves it: not at all, ...
TokNone(t) == NoTok(t) /\ NoTok(t)' /\ UNCHANGED <<hook, keyOf>>
\* it stays with t, ...
TokOn(t, d, k) == Has(t, d, k) /\ Has(t, d, k)' /\ UNCHANGED <<hook, keyOf>>
\* t hooks it, ...
TokHooked(t, d, k) ==
  Has(t, d, k) /\ NoTok(t)' /\ hook' = [hook EXCEPT ![d] = k] /\ UNCHANGED keyOf
\* t takes it from the chain, ...
TokTaken(t, d, k) ==
  /\ NoTok(t) /\ hook[d] = k /\ Has(t, d, k)' /\ hook' = [hook EXCEPT ![d] = Null]
  /\ UNCHANGED keyOf
\* there is a new one, ...
TokNew(t, d, k) ==
  /\ NoTok(t) /\ Has(t, d, k)' /\ UNCHANGED hook
  /\ keyOf[d] = Null /\ keyOf' = [keyOf EXCEPT ![d] = k]
\* or it has served.
TokGone(t, d, k) == Has(t, d, k) /\ NoTok(t)' /\ UNCHANGED <<hook, keyOf>>

TokMove(t) ==
  \/ TokNone(t)
  \/ \E d \in Deferreds, k \in Keys :
       TokOn(t, d, k) \/ TokHooked(t, d, k) \/ TokTaken(t, d, k) \/ TokNew(t, d, k) \/ TokGone(t, d, k)

LEMMA HasIs ==
  ASSUME NEW t, NEW d, NEW k, Has(t, d, k), NEW e, Tok(t, e)
  PROVE  e = d /\ Top(t).k = k
BY DEF Has, Tok

LEMMA HasNextIs ==
  ASSUME NEW t, NEW d, NEW k, Has(t, d, k)', NEW e, Tok(t, e)'
  PROVE  e = d /\ Top(t)'.k = k
BY DEF Has, Tok

LEMMA OtherTok ==
  ASSUME NEW t \in Threads, Elsewhere(t), NEW u \in Threads \ {t}, NEW d
  PROVE  (Tok(u, d)' <=> Tok(u, d)) /\ Top(u)' = Top(u)
BY DEF Elsewhere, Tok, Busy, Top

LEMMA TokKept ==
  ASSUME TypeInv, TokInv, HookInv, NEW t \in Threads, Elsewhere(t), TokMove(t)
  PROVE  TokInv' /\ HookInv'
<1>n. Null \notin Keys
  BY PoolAssumption
<1>h. hook \in [Deferreds -> Keys \cup {Null}] /\ keyOf \in [Deferreds -> Keys \cup {Null}]
  BY Now
<1>o. \A u \in Threads \ {t} : \A e : (Tok(u, e)' <=> Tok(u, e)) /\ Top(u)' = Top(u)
  BY OtherTok
<1>i. \A e \in Deferreds, u \in Threads :
        Tok(u, e) => /\ keyOf[e] = Top(u).k /\ hook[e] = Null
                     /\ \A v \in Threads : Tok(v, e) => v = u
  BY DEF TokInv
<1>j. \A e \in Deferreds : hook[e] # Null => hook[e] = keyOf[e]
  BY DEF HookInv
<1>1. CASE TokNone(t)
  <2>1. NoTok(t) /\ NoTok(t)' /\ UNCHANGED <<hook, keyOf>>
    BY <1>1 DEF TokNone
  <2>2. HookInv'
    BY <1>j, <2>1 DEF HookInv
  <2>3. TokInv'
    <3> SUFFICES ASSUME NEW e \in Deferreds, NEW u \in Threads, Tok(u, e)'
                 PROVE  /\ keyOf'[e] = Top(u)'.k /\ hook'[e] = Null
                        /\ \A v \in Threads : Tok(v, e)' => v = u
      BY DEF TokInv
    <3>1. u # t
      BY <2>1 DEF NoTok
    <3>2. \A v \in Threads : Tok(v, e)' => v # t
      BY <2>1 DEF NoTok
    <3> QED
      BY <1>i, <1>o, <2>1, <3>1, <3>2
  <2> QED
    BY <2>2, <2>3
<1>2. CASE \E d \in Deferreds, k \in Keys : TokOn(t, d, k)
  <2>1. PICK d \in Deferreds, k \in Keys : TokOn(t, d, k)
    BY <1>2
  <2>2. Has(t, d, k) /\ Has(t, d, k)' /\ UNCHANGED <<hook, keyOf>>
    BY <2>1 DEF TokOn
  <2>3. HookInv'
    BY <1>j, <2>2 DEF HookInv
  <2>4. Tok(t, d) /\ Top(t).k = k
    BY <2>2 DEF Has
  <2>5. TokInv'
    <3> SUFFICES ASSUME NEW e \in Deferreds, NEW u \in Threads, Tok(u, e)'
                 PROVE  /\ keyOf'[e] = Top(u)'.k /\ hook'[e] = Null
                        /\ \A v \in Threads : Tok(v, e)' => v = u
      BY DEF TokInv
    <3>1. \A v \in Threads : Tok(v, e)' => Tok(v, e) /\ Top(v)'.k = Top(v).k
      <4> SUFFICES ASSUME NEW v \in Threads, Tok(v, e)' PROVE Tok(v, e) /\ Top(v)'.k = Top(v).k
        OBVIOUS
      <4>1. CASE v # t
        BY <1>o, <4>1
      <4>2. CASE v = t
        <5>1. e = d /\ Top(t)'.k = k
          BY <2>2, <4>2, HasNextIs
        <5> QED
          BY <2>4, <4>2, <5>1
      <4> QED
        BY <4>1, <4>2
    <3> QED
      BY <1>i, <2>2, <3>1
  <2> QED
    BY <2>3, <2>5
<1>3. CASE \E d \in Deferreds, k \in Keys : TokHooked(t, d, k) \/ TokGone(t, d, k)
  <2>1. PICK d \in Deferreds, k \in Keys : TokHooked(t, d, k) \/ TokGone(t, d, k)
    BY <1>3
  <2>2. /\ Has(t, d, k) /\ NoTok(t)' /\ (hook' = [hook EXCEPT ![d] = k] \/ hook' = hook)
        /\ UNCHANGED keyOf
    BY <2>1 DEF TokHooked, TokGone
  <2>3. Tok(t, d) /\ Top(t).k = k /\ keyOf[d] = k
    BY <1>i, <2>2 DEF Has
  <2>4. HookInv'
    BY <1>h, <1>j, <2>2, <2>3 DEF HookInv
  <2>5. TokInv'
    <3> SUFFICES ASSUME NEW e \in Deferreds, NEW u \in Threads, Tok(u, e)'
                 PROVE  /\ keyOf'[e] = Top(u)'.k /\ hook'[e] = Null
                        /\ \A v \in Threads : Tok(v, e)' => v = u
      BY DEF TokInv
    <3>1. \A v \in Threads : Tok(v, e)' => v # t
      BY <2>2 DEF NoTok
    <3>2. u # t /\ Tok(u, e) /\ Top(u)' = Top(u) /\ \A v \in Threads : Tok(v, e)' => Tok(v, e)
      BY <1>o, <3>1
    <3>3. e # d
      BY <1>i, <2>3, <3>2
    <3>4. hook'[e] = hook[e]
      BY <1>h, <2>2, <3>3
    <3> QED
      BY <1>i, <2>2, <3>2, <3>4
  <2> QED
    BY <2>4, <2>5
<1>4. CASE \E d \in Deferreds, k \in Keys : TokTaken(t, d, k)
  <2>1. PICK d \in Deferreds, k \in Keys : TokTaken(t, d, k)
    BY <1>4
  <2>2. /\ NoTok(t) /\ hook[d] = k /\ Has(t, d, k)' /\ hook' = [hook EXCEPT ![d] = Null]
        /\ UNCHANGED keyOf
    BY <2>1 DEF TokTaken
  <2>3. keyOf[d] = k /\ \A u \in Threads : ~Tok(u, d)
    BY <1>i, <1>j, <1>n, <2>2
  <2>4. HookInv'
    BY <1>h, <1>j, <2>2 DEF HookInv
  <2>5. TokInv'
    <3> SUFFICES ASSUME NEW e \in Deferreds, NEW u \in Threads, Tok(u, e)'
                 PROVE  /\ keyOf'[e] = Top(u)'.k /\ hook'[e] = Null
                        /\ \A v \in Threads : Tok(v, e)' => v = u
      BY DEF TokInv
    <3>1. \A v \in Threads : Tok(v, e)' =>
            (v = t /\ e = d /\ Top(v)'.k = k) \/ (v # t /\ Tok(v, e) /\ Top(v)' = Top(v))
      BY <1>o, <2>2, HasNextIs
    <3>2. CASE e = d
      BY <1>h, <2>2, <2>3, <3>1, <3>2
    <3>3. CASE e # d
      BY <1>h, <1>i, <2>2, <3>1, <3>3
    <3> QED
      BY <3>2, <3>3
  <2> QED
    BY <2>4, <2>5
<1>5. CASE \E d \in Deferreds, k \in Keys : TokNew(t, d, k)
  <2>1. PICK d \in Deferreds, k \in Keys : TokNew(t, d, k)
    BY <1>5
  <2>2. /\ NoTok(t) /\ Has(t, d, k)' /\ UNCHANGED hook
        /\ keyOf[d] = Null /\ keyOf' = [keyOf EXCEPT ![d] = k]
    BY <2>1 DEF TokNew
  <2>3. hook[d] = Null
    BY <1>j, <2>2
  <2>4. \A u \in Threads : ~Tok(u, d)
    <3> SUFFICES ASSUME NEW u \in Threads, Tok(u, d) PROVE FALSE
      OBVIOUS
    <3>1. Top(u).k = Null
      BY <1>i, <2>2
    <3>2. Busy(u) /\ Top(u).pc \in KeyPCs /\ TopIs(u, Top(u).pc)
      BY DEF Tok, KeyPCs, TopIs
    <3>3. Top(u).k \in Keys
      BY <3>2, TopKeys
    <3> QED
      BY <1>n, <3>1, <3>3
  <2>5. HookInv'
    BY <1>h, <1>j, <2>2, <2>3 DEF HookInv
  <2>6. TokInv'
    <3> SUFFICES ASSUME NEW e \in Deferreds, NEW u \in Threads, Tok(u, e)'
                 PROVE  /\ keyOf'[e] = Top(u)'.k /\ hook'[e] = Null
                        /\ \A v \in Threads : Tok(v, e)' => v = u
      BY DEF TokInv
    <3>1. \A v \in Threads : Tok(v, e)' =>
            (v = t /\ e = d /\ Top(v)'.k = k) \/ (v # t /\ Tok(v, e) /\ Top(v)' = Top(v))
      BY <1>o, <2>2, HasNextIs
    <3>2. CASE e = d
      BY <1>h, <2>2, <2>3, <2>4, <3>1, <3>2
    <3>3. CASE e # d
      BY <1>h, <1>i, <2>2, <3>1, <3>3
    <3> QED
      BY <3>2, <3>3
  <2> QED
    BY <2>5, <2>6
<1> QED
  BY <1>1, <1>2, <1>3, <1>4, <1>5 DEF TokMove

\* What a step makes of the tokens, gate by gate
LEMMA TokenFlow ==
  ASSUME TypeInv, TokInv, HookInv, NEW t \in Threads, Elsewhere(t), TokMove(t)
  PROVE  \A e \in Deferreds :
           /\ Token(e)' => Token(e) \/ \E k \in Keys : TokNew(t, e, k)
           /\ Token(e) => Token(e)' \/ \E k \in Keys : TokGone(t, e, k)
           /\ (\E k \in Keys : TokGone(t, e, k)) => ~Token(e)'
<1>n. Null \notin Keys
  BY PoolAssumption
<1>h. hook \in [Deferreds -> Keys \cup {Null}]
  BY Now
<1>o. \A u \in Threads \ {t} : \A e : Tok(u, e)' <=> Tok(u, e)
  BY OtherTok
<1>i. \A e \in Deferreds, u \in Threads :
        Tok(u, e) => hook[e] = Null /\ \A v \in Threads : Tok(v, e) => v = u
  BY DEF TokInv
<1> SUFFICES ASSUME NEW e \in Deferreds
             PROVE  /\ Token(e)' => Token(e) \/ \E k \in Keys : TokNew(t, e, k)
                    /\ Token(e) => Token(e)' \/ \E k \in Keys : TokGone(t, e, k)
                    /\ (\E k \in Keys : TokGone(t, e, k)) => ~Token(e)'
  OBVIOUS
<1>1. Token(e)' => Token(e) \/ \E k \in Keys : TokNew(t, e, k)
  <2> SUFFICES ASSUME Token(e)', ~Token(e) PROVE \E k \in Keys : TokNew(t, e, k)
    OBVIOUS
  <2>1. hook[e] = Null /\ \A u \in Threads : ~Tok(u, e)
    BY DEF Token
  <2>2. CASE hook'[e] # Null
    <3>1. hook' # hook
      BY <2>1, <2>2
    <3>2. PICK d \in Deferreds, k \in Keys : TokHooked(t, d, k) \/ TokTaken(t, d, k)
      BY <3>1 DEF TokMove, TokNone, TokOn, TokNew, TokGone
    <3>3. (hook' = [hook EXCEPT ![d] = k] /\ Tok(t, d)) \/ hook' = [hook EXCEPT ![d] = Null]
      BY <3>2 DEF TokHooked, TokTaken, Has
    <3> QED
      BY <1>h, <2>1, <2>2, <3>3
  <2>3. CASE \E u \in Threads : Tok(u, e)'
    <3>1. Tok(t, e)'
      BY <1>o, <2>1, <2>3
    <3>2. ~NoTok(t)'
      BY <3>1 DEF NoTok
    <3>3. PICK d \in Deferreds, k \in Keys : TokOn(t, d, k) \/ TokTaken(t, d, k) \/ TokNew(t, d, k)
      BY <3>2 DEF TokMove, TokNone, TokHooked, TokGone
    <3>4. e = d
      BY <3>1, <3>3, HasNextIs DEF TokOn, TokTaken, TokNew
    <3>5. ~Tok(t, d) /\ hook[d] = Null
      BY <2>1, <3>4
    <3> QED
      BY <1>n, <3>3, <3>4, <3>5 DEF TokOn, TokTaken, Has
  <2>4. hook'[e] # Null \/ \E u \in Threads : Tok(u, e)'
    BY DEF Token
  <2> QED
    BY <2>2, <2>3, <2>4
<1>2. Token(e) => Token(e)' \/ \E k \in Keys : TokGone(t, e, k)
  <2> SUFFICES ASSUME Token(e), ~Token(e)' PROVE \E k \in Keys : TokGone(t, e, k)
    OBVIOUS
  <2>1. hook'[e] = Null /\ \A u \in Threads : ~Tok(u, e)'
    BY DEF Token
  <2>2. CASE hook[e] # Null
    <3>1. hook' # hook
      BY <2>1, <2>2
    <3>2. PICK d \in Deferreds, k \in Keys : TokHooked(t, d, k) \/ TokTaken(t, d, k)
      BY <3>1 DEF TokMove, TokNone, TokOn, TokNew, TokGone
    <3>3. hook' = [hook EXCEPT ![d] = k] \/ (hook' = [hook EXCEPT ![d] = Null] /\ Tok(t, d)')
      BY <3>2 DEF TokHooked, TokTaken, Has
    <3> QED
      BY <1>h, <1>n, <2>1, <2>2, <3>3
  <2>3. CASE \E u \in Threads : Tok(u, e)
    <3>1. Tok(t, e)
      BY <1>o, <2>1, <2>3
    <3>2. ~NoTok(t)
      BY <3>1 DEF NoTok
    <3>3. PICK d \in Deferreds, k \in Keys : TokOn(t, d, k) \/ TokHooked(t, d, k) \/ TokGone(t, d, k)
      BY <3>2 DEF TokMove, TokNone, TokTaken, TokNew
    <3>4. e = d
      BY <3>1, <3>3, HasIs DEF TokOn, TokHooked, TokGone
    <3>5. ~Tok(t, d)' /\ hook'[d] = Null
      BY <2>1, <3>4
    <3> QED
      BY <1>h, <1>n, <3>3, <3>4, <3>5 DEF TokOn, TokHooked, Has
  <2>4. hook[e] # Null \/ \E u \in Threads : Tok(u, e)
    BY DEF Token
  <2> QED
    BY <2>2, <2>3, <2>4
<1>3. ASSUME NEW k \in Keys, TokGone(t, e, k) PROVE ~Token(e)'
  <2>1. Tok(t, e) /\ NoTok(t)' /\ hook' = hook
    BY <1>3 DEF TokGone, Has
  <2>2. hook'[e] = Null /\ \A u \in Threads : ~Tok(u, e)'
    BY <1>i, <1>o, <2>1 DEF NoTok
  <2> QED
    BY <2>2 DEF Token
<1> QED
  BY <1>1, <1>2, <1>3

LEMMA RestsNoTok ==
  ASSUME TypeInv, NEW t \in Threads, Rests(t)
  PROVE  NoTok(t)'
<1>1. Ground(t, stack'[t])
  BY RestsShape
<1>2. stack'[t] \in Seq(Frames)
  BY <1>1 DEF Ground
<1>3. Busy(t)' => Len(stack'[t]) \in 1..Len(stack'[t])
  BY <1>2 DEF Busy
<1>4. Busy(t)' => Top(t)'.pc \in Lower
  BY <1>1, <1>3 DEF Ground, Top
<1> QED
  BY <1>4 DEF NoTok, Tok, Lower, TokenPCs, ClientPCs

LEMMA TopsNoTok ==
  ASSUME TypeInv, NEW t \in Threads, NEW f, Tops(t, f), f.pc \notin TokenPCs
  PROVE  NoTok(t)'
BY TopsShape DEF NoTok, Tok

LEMMA GoesTok ==
  ASSUME TypeInv, NEW t \in Threads, NEW pc, NEW d, NEW k, Goes(t, pc, d, k)
  PROVE  /\ pc \in TokenPCs => Has(t, d, k)'
         /\ pc \notin TokenPCs => NoTok(t)'
<1>1. PICK f : Tops(t, f) /\ f.pc = pc /\ f.d = d /\ f.k = k
  BY DEF Goes
<1>2. Busy(t)' /\ Top(t)' = f
  BY <1>1, TopsShape
<1> QED
  BY <1>1, <1>2 DEF NoTok, Tok, Has

LEMMA NoTokNow ==
  ASSUME NEW t, Busy(t) => Top(t).pc \notin TokenPCs
  PROVE  NoTok(t)
BY DEF NoTok, Tok

LEMMA ClientNoTok ==
  ASSUME NEW t, ClientRuns(t)
  PROVE  NoTok(t)
BY DEF ClientRuns, NoTok, Tok, ClientPCs, TokenPCs

\* d's token is taken from its chain, if it is there.
TokSettled(t, d) == TokNone(t) \/ \E k \in Keys : TokTaken(t, d, k)

LEMMA SettlesTok ==
  ASSUME TypeInv, NEW t \in Threads, NoTok(t), NEW d \in Deferreds, NEW new, Settles(t, d, new),
         UNCHANGED keyOf
  PROVE  TokSettled(t, d)
<1>h. hook \in [Deferreds -> Keys \cup {Null}]
  BY Now
<1>1. CASE hook[d] = Null
  <2>1. Rests(t) /\ hook' = [hook EXCEPT ![d] = Null]
    BY <1>1 DEF Settles
  <2>2. NoTok(t)' /\ hook' = hook
    BY <1>h, <1>1, <2>1, RestsNoTok
  <2> QED
    BY <2>2 DEF TokSettled, TokNone
<1>2. CASE hook[d] # Null
  <2>1. Tops(t, Frame("remove", d, hook[d])) /\ hook' = [hook EXCEPT ![d] = Null]
    BY <1>2 DEF Settles
  <2>2. PICK k \in Keys : k = hook[d]
    BY <1>2, Waits
  <2> DEFINE f == Frame("remove", d, k)
  <2>3. Tops(t, f) /\ f.pc = "remove" /\ f.d = d /\ f.k = k
    BY <2>1, <2>2 DEF Frame
  <2> HIDE DEF f
  <2>4. Has(t, d, k)'
    BY <2>3, TopsShape DEF Has, Tok, TokenPCs
  <2> QED
    BY <2>1, <2>2, <2>4 DEF TokSettled, TokTaken
<1> QED
  BY <1>1, <1>2

LEMMA CancelsTok ==
  ASSUME TypeInv, NEW t \in Threads, NoTok(t), NEW d \in Deferreds, Cancels(t, d), UNCHANGED keyOf
  PROVE  TokSettled(t, d)
<1>1. CASE Rests(t) /\ UNCHANGED gates
  BY <1>1, RestsNoTok DEF TokSettled, TokNone, gates
<1> QED
  BY <1>1, SettlesTok DEF Cancels

LEMMA TokAdding ==
  ASSUME TypeInv, NEW t \in Threads
  PROVE  /\ \A d \in Deferreds, k \in Keys : Add(t, d, k) => TokNone(t)
         /\ Drain(t) \/ SetFinalizeFunc(t) \/ SetConcurrency(t) \/ Raise(t) => TokNone(t)
         /\ ResumeLock(t) \/ Fill(t) \/ Filled(t) \/ FinalizeReturns(t) => TokNone(t)
         /\ Start(t) \/ ResumeReturns(t) \/ DrainReturns(t) => TokNone(t)
<1>1. ASSUME NEW d \in Deferreds, NEW k \in Keys, Add(t, d, k) PROVE TokNone(t)
  <2>1. NoTok(t)' /\ NoTok(t)
    BY <1>1, AddView, GoesTok, ClientNoTok DEF TokenPCs, Add
  <2> QED
    BY <1>1, <2>1 DEF Add, TokNone, gates, history
<1>2. Drain(t) => TokNone(t)
  <2> SUFFICES ASSUME Drain(t) PROVE TokNone(t)
    OBVIOUS
  <2>1. NoTok(t)' /\ NoTok(t)
    BY DrainView, TopsNoTok, ClientNoTok DEF TokenPCs, Drain
  <2> QED
    BY <2>1 DEF Drain, TokNone, gates
<1>3. SetFinalizeFunc(t) \/ SetConcurrency(t) => TokNone(t)
  <2> SUFFICES ASSUME SetFinalizeFunc(t) \/ SetConcurrency(t) PROVE TokNone(t)
    OBVIOUS
  <2>1. NoTok(t) /\ UNCHANGED <<stack, gates, history>>
    BY ClientNoTok DEF SetFinalizeFunc, SetConcurrency
  <2> QED
    BY <2>1 DEF TokNone, gates, history, NoTok, Tok, Busy, Top
<1>4. Raise(t) => TokNone(t)
  <2> SUFFICES ASSUME Raise(t) PROVE TokNone(t)
    OBVIOUS
  <2>1. NoTok(t)' /\ UNCHANGED <<hook, keyOf>> /\ Top(t).pc \in ClientPCs
    BY RaiseView, RestsNoTok DEF gates, history
  <2> QED
    BY <2>1, NoTokNow DEF TokNone, ClientPCs, TokenPCs
<1>5. ResumeLock(t) => TokNone(t)
  <2> SUFFICES ASSUME ResumeLock(t) PROVE TokNone(t)
    OBVIOUS
  <2>1. NoTok(t)' /\ UNCHANGED <<hook, keyOf>> /\ Top(t).pc = "resume"
    BY ResumeLockView, GoesTok DEF TokenPCs, gates, history, TopIs
  <2> QED
    BY <2>1, NoTokNow DEF TokNone, TokenPCs
<1>6. Fill(t) => TokNone(t)
  <2> SUFFICES ASSUME Fill(t) PROVE TokNone(t)
    OBVIOUS
  <2>1. NoTok(t)' /\ UNCHANGED <<hook, keyOf>> /\ Top(t).pc = "fill"
    BY FillView, ListsTops, TopsNoTok DEF TokenPCs, gates, history, TopIs
  <2> QED
    BY <2>1, NoTokNow DEF TokNone, TokenPCs
<1>7. Filled(t) => TokNone(t)
  <2> SUFFICES ASSUME Filled(t) PROVE TokNone(t)
    OBVIOUS
  <2>1. NoTok(t)' /\ UNCHANGED <<hook, keyOf>> /\ Top(t).pc = "fill"
    BY FilledView, CarriesTops, TopsNoTok DEF TokenPCs, gates, history, TopIs
  <2> QED
    BY <2>1, NoTokNow DEF TokNone, TokenPCs
<1>8. FinalizeReturns(t) => TokNone(t)
  <2> SUFFICES ASSUME FinalizeReturns(t) PROVE TokNone(t)
    OBVIOUS
  <2>1. NoTok(t)' /\ UNCHANGED <<hook, keyOf>> /\ Top(t).pc = "finalize"
    BY FinalizeReturnsView, CarriesTops, TopsNoTok DEF TokenPCs, gates, history, TopIs
  <2> QED
    BY <2>1, NoTokNow DEF TokNone, TokenPCs
<1>9. ResumeReturns(t) \/ DrainReturns(t) => TokNone(t)
  <2> SUFFICES ASSUME ResumeReturns(t) \/ DrainReturns(t) PROVE TokNone(t)
    OBVIOUS
  <2>1. NoTok(t)' /\ UNCHANGED <<hook, keyOf>> /\ Top(t).pc \in {"start", "drainqueue"}
    BY ResumeReturnsView, DrainReturnsView, RestsNoTok DEF gates, history, TopIs
  <2> QED
    BY <2>1, NoTokNow DEF TokNone, TokenPCs
<1>10. Start(t) => TokNone(t)
  <2> SUFFICES ASSUME Start(t) PROVE TokNone(t)
    OBVIOUS
  <2>1. UNCHANGED <<hook, keyOf>> /\ Busy(t) /\ Top(t).pc = "start"
    BY StartView DEF TopIs, history
  <2>2. NoTok(t)'
    <3>1. CASE \E f : FrameOK(f) /\ f.pc = "start" /\ stack' = [stack EXCEPT ![t] = Append(Below(t), f)]
      BY <2>1, <3>1, GroundBelow, TopsNoTok DEF Tops, TokenPCs
    <3>2. CASE \E f, g : /\ FrameOK(f) /\ FrameOK(g) /\ g.pc = "callback"
                         /\ stack' = [stack EXCEPT ![t] = Append(Append(Below(t), f), g)]
      <4>1. PICK f, g : /\ FrameOK(f) /\ FrameOK(g) /\ g.pc = "callback"
                        /\ stack' = [stack EXCEPT ![t] = Append(Append(Below(t), f), g)]
        BY <3>2
      <4>2. f \in Frames /\ g \in Frames
        BY <4>1 DEF FrameOK
      <4> DEFINE s == Append(Append(Below(t), f), g)
                 n == Len(stack[t])
      <4>3. Len(s) = n + 1 /\ s[n + 1] = g
        BY <2>1, <4>2, TwoFrames
      <4>4. stack'[t] = s
        BY <4>1, Stacked
      <4> HIDE DEF s
      <4>5. Top(t)'.pc = "callback"
        BY <4>1, <4>3, <4>4 DEF Top
      <4> QED
        BY <4>5 DEF NoTok, Tok, TokenPCs
    <3> QED
      BY <3>1, <3>2, StartView
  <2> QED
    BY <2>1, <2>2, NoTokNow DEF TokNone, TokenPCs
<1> QED
  BY <1>1, <1>2, <1>3, <1>4, <1>5, <1>6, <1>7, <1>8, <1>9, <1>10

LEMMA TokWorking ==
  ASSUME TypeInv, NEW t \in Threads
  PROVE  /\ Hook(t) => \E d \in Deferreds, k \in Keys :
                         /\ d = Top(t).d /\ k = Top(t).k /\ UNCHANGED state
                         /\ \/ state[d] \in {"idle", "started"} /\ TokHooked(t, d, k)
                            \/ /\ state[d] \notin {"idle", "started"} /\ TokOn(t, d, k)
                               /\ Top(t)'.pc \in {"handover", "remove"}
                               /\ Top(t)'.pc = "handover" => state[d] \in {"handed", "done"}
         /\ Handover(t) => \E d \in Deferreds, k \in Keys :
              d = Top(t).d /\ k = Top(t).k /\ TokOn(t, d, k) /\ Top(t)'.pc = "rehook"
         /\ Rehook(t) => \E d \in Deferreds, k \in Keys :
                           /\ d = Top(t).d /\ k = Top(t).k
                           /\ \/ state[d] # "done" /\ TokHooked(t, d, k)
                              \/ state[d] = "done" /\ TokOn(t, d, k) /\ Top(t)'.pc = "remove"
         /\ Remove(t) => \E d \in Deferreds, k \in Keys :
              d = Top(t).d /\ k = Top(t).k /\ TokGone(t, d, k)
<1>t. "hook" \in TokenPCs /\ "handover" \in TokenPCs /\ "rehook" \in TokenPCs
      /\ "remove" \in TokenPCs /\ "resume" \notin TokenPCs
  BY DEF TokenPCs
<1>g. ASSUME NEW pc, NEW d, NEW k, Goes(t, pc, d, k) PROVE Top(t)'.pc = pc
  BY <1>g, TopsShape DEF Goes
<1>1. ASSUME Hook(t)
      PROVE  \E d \in Deferreds, k \in Keys :
               /\ d = Top(t).d /\ k = Top(t).k /\ UNCHANGED state
               /\ \/ state[d] \in {"idle", "started"} /\ TokHooked(t, d, k)
                  \/ /\ state[d] \notin {"idle", "started"} /\ TokOn(t, d, k)
                     /\ Top(t)'.pc \in {"handover", "remove"}
                     /\ Top(t)'.pc = "handover" => state[d] \in {"handed", "done"}
  <2>1. PICK d \in Deferreds, k \in Keys : d = Top(t).d /\ k = Top(t).k
    BY <1>1, HookView
  <2>2. Has(t, d, k) /\ UNCHANGED <<keyOf, state>>
    BY <1>1, <1>t, <2>1, HookView DEF Has, Tok, TopIs, history
  <2>3. CASE state[d] \in {"idle", "started"}
    <3>1. hook' = [hook EXCEPT ![d] = k] /\ Goes(t, "resume", Null, Null)
      BY <1>1, <2>1, <2>3, HookView
    <3>2. TokHooked(t, d, k)
      BY <1>t, <2>2, <3>1, GoesTok DEF TokHooked
    <3> QED
      BY <2>1, <2>2, <2>3, <3>2
  <2>4. CASE state[d] \notin {"idle", "started"}
    <3>1. PICK pc \in {"handover", "remove"} :
            /\ pc = IF state[d] = "handed" \/ (state[d] = "done" /\ d \in Wrappers)
                    THEN "handover" ELSE "remove"
            /\ Goes(t, pc, d, k) /\ UNCHANGED hook
      BY <1>1, <2>1, <2>4, HookView
    <3>2. TokOn(t, d, k) /\ Top(t)'.pc = pc
      BY <1>t, <1>g, <2>2, <3>1, GoesTok DEF TokOn
    <3> QED
      BY <2>1, <2>2, <2>4, <3>1, <3>2
  <2> QED
    BY <2>3, <2>4
<1>2. ASSUME Handover(t)
      PROVE  \E d \in Deferreds, k \in Keys :
               d = Top(t).d /\ k = Top(t).k /\ TokOn(t, d, k) /\ Top(t)'.pc = "rehook"
  <2>1. PICK d \in Deferreds, k \in Keys : d = Top(t).d /\ k = Top(t).k
    BY <1>2, HandoverView
  <2>2. Has(t, d, k) /\ UNCHANGED <<hook, keyOf>>
    BY <1>2, <1>t, <2>1, HandoverView DEF Has, Tok, TopIs, gates, history
  <2>3. Goes(t, "rehook", d, k)
    BY <1>2, <2>1, HandoverView
  <2> QED
    BY <1>g, <1>t, <2>1, <2>2, <2>3, GoesTok DEF TokOn
<1>3. ASSUME Rehook(t)
      PROVE  \E d \in Deferreds, k \in Keys :
               /\ d = Top(t).d /\ k = Top(t).k
               /\ \/ state[d] # "done" /\ TokHooked(t, d, k)
                  \/ state[d] = "done" /\ TokOn(t, d, k) /\ Top(t)'.pc = "remove"
  <2>1. PICK d \in Deferreds, k \in Keys : d = Top(t).d /\ k = Top(t).k
    BY <1>3, RehookView
  <2>2. Has(t, d, k) /\ UNCHANGED keyOf
    BY <1>3, <1>t, <2>1, RehookView DEF Has, Tok, TopIs, history
  <2>3. \/ state[d] = "done" /\ UNCHANGED hook /\ Goes(t, "remove", d, k)
        \/ state[d] # "done" /\ Rests(t) /\ hook' = [hook EXCEPT ![d] = k]
    BY <1>3, <2>1, RehookView
  <2>4. CASE state[d] = "done" /\ UNCHANGED hook /\ Goes(t, "remove", d, k)
    BY <1>g, <1>t, <2>1, <2>2, <2>4, GoesTok DEF TokOn
  <2>5. CASE state[d] # "done" /\ Rests(t) /\ hook' = [hook EXCEPT ![d] = k]
    BY <2>1, <2>2, <2>5, RestsNoTok DEF TokHooked
  <2> QED
    BY <2>3, <2>4, <2>5
<1>4. ASSUME Remove(t)
      PROVE  \E d \in Deferreds, k \in Keys : d = Top(t).d /\ k = Top(t).k /\ TokGone(t, d, k)
  <2>1. PICK d \in Deferreds, k \in Keys : d = Top(t).d /\ k = Top(t).k
    BY <1>4, RemoveView
  <2>2. Has(t, d, k) /\ UNCHANGED <<hook, keyOf>>
    BY <1>4, <1>t, <2>1, RemoveView DEF Has, Tok, TopIs, gates, history
  <2>3. Goes(t, "resume", Null, Null)
    BY <1>4, RemoveView
  <2> QED
    BY <1>t, <2>1, <2>2, <2>3, GoesTok DEF TokGone
<1> QED
  BY <1>1, <1>2, <1>3, <1>4

LEMMA TokEnding ==
  ASSUME TypeInv, NEW t \in Threads
  PROVE  /\ StartReturns(t) => \E d \in Deferreds : d = Top(t).d /\ TokSettled(t, d)
         /\ \A d \in Deferreds : Finish(t, d) \/ Cancel(t, d) => TokSettled(t, d)
         /\ Reject(t) => \E d \in Deferreds : TokSettled(t, d)
         /\ DrainRunning(t) => TokNone(t) \/ \E d \in Deferreds : TokSettled(t, d)
         /\ DrainQueue(t) => \E k \in DOMAIN queue, d \in Deferreds :
              /\ d = queue[k] /\ queue' = Unbind(queue, k) /\ Cancels(t, d) /\ TokSettled(t, d)
<1>1. ASSUME StartReturns(t) PROVE \E d \in Deferreds : d = Top(t).d /\ TokSettled(t, d)
  <2>1. PICK d \in Deferreds : d = Top(t).d
    BY <1>1, StartReturnsView
  <2>2. NoTok(t) /\ UNCHANGED keyOf
    BY <1>1, StartReturnsView, NoTokNow DEF TopIs, TokenPCs, history
  <2>3. PICK new :
          \/ /\ hook[d] # Null /\ hook' = [hook EXCEPT ![d] = Null]
             /\ Goes(t, "handover", d, hook[d])
          \/ Settles(t, d, new)
          \/ Rests(t) /\ UNCHANGED hook
    BY <1>1, <2>1, StartReturnsView
  <2>4. CASE /\ hook[d] # Null /\ hook' = [hook EXCEPT ![d] = Null]
             /\ Goes(t, "handover", d, hook[d])
    <3>1. PICK k \in Keys : k = hook[d]
      BY <2>4, Waits
    <3>2. Goes(t, "handover", d, k)
      BY <2>4, <3>1
    <3>3. Has(t, d, k)'
      BY <3>2, GoesTok DEF TokenPCs
    <3> QED
      BY <2>1, <2>2, <2>4, <3>1, <3>3 DEF TokSettled, TokTaken
  <2>5. CASE Settles(t, d, new)
    BY <2>1, <2>2, <2>5, SettlesTok
  <2>6. CASE Rests(t) /\ UNCHANGED hook
    BY <2>1, <2>2, <2>6, RestsNoTok DEF TokSettled, TokNone
  <2> QED
    BY <2>3, <2>4, <2>5, <2>6
<1>2. ASSUME NEW d \in Deferreds, Finish(t, d) PROVE TokSettled(t, d)
  BY <1>2, FinishView, NoTokNow, SettlesTok DEF history
<1>3. ASSUME NEW d \in Deferreds, Cancel(t, d) PROVE TokSettled(t, d)
  BY <1>3, CancelActView, ClientNoTok, CancelsTok DEF history
<1>4. ASSUME Reject(t) PROVE \E d \in Deferreds : TokSettled(t, d)
  BY <1>4, RejectView, NoTokNow, CancelsTok DEF history, TopIs, TokenPCs
<1>5. ASSUME DrainRunning(t) PROVE TokNone(t) \/ \E d \in Deferreds : TokSettled(t, d)
  <2>1. NoTok(t) /\ UNCHANGED keyOf
    BY <1>5, DrainRunningView, NoTokNow DEF TopIs, TokenPCs, history
  <2>2. CASE \E d \in Deferreds : Cancels(t, d)
    BY <2>1, <2>2, CancelsTok
  <2>3. CASE Goes(t, "drainqueue", Top(t).d, Null) /\ UNCHANGED gates
    <3>1. TokNone(t)
      BY <2>1, <2>3, GoesTok DEF TokNone, TokenPCs, gates
    <3> QED
      BY <3>1
  <2> QED
    BY <1>5, <2>2, <2>3, DrainRunningView
<1>6. ASSUME DrainQueue(t)
      PROVE  \E k \in DOMAIN queue, d \in Deferreds :
               /\ d = queue[k] /\ queue' = Unbind(queue, k) /\ Cancels(t, d) /\ TokSettled(t, d)
  <2>1. NoTok(t) /\ UNCHANGED keyOf
    BY <1>6, DrainQueueView, NoTokNow DEF TopIs, TokenPCs, history
  <2>2. PICK k \in DOMAIN queue :
          queue[k] \in Deferreds /\ queue' = Unbind(queue, k) /\ Cancels(t, queue[k])
    BY <1>6, DrainQueueView
  <2>3. TokSettled(t, queue[k])
    BY <2>1, <2>2, CancelsTok
  <2> QED
    BY <2>2, <2>3
<1> QED
  BY <1>1, <1>2, <1>3, <1>4, <1>5, <1>6

LEMMA TokEnqueue ==
  ASSUME TypeInv, PlaceInv, NEW t \in Threads, Enqueue(t)
  PROVE  \E d \in Deferreds, k \in Keys :
           /\ d = Top(t).d /\ k = Top(t).k
           /\ \/ k \in DOMAIN queue /\ TokNone(t) /\ UNCHANGED queue
              \/ k \notin DOMAIN queue /\ TokNew(t, d, k) /\ queue' = Bind(queue, k, d)
<1>1. PICK d \in Deferreds, k \in Keys : d = Top(t).d /\ k = Top(t).k
  BY EnqueueView
<1>2. NoTok(t) /\ UNCHANGED hook /\ Entering(t, d)
  BY <1>1, EnqueueView, NoTokNow DEF TopIs, TokenPCs, gates, Entering
<1>3. keyOf[d] = Null
  BY <1>2 DEF PlaceInv, EnterInv
<1>4. \/ k \in DOMAIN queue /\ Goes(t, "reject", d, k) /\ UNCHANGED <<queue, keyOf>>
      \/ /\ k \notin DOMAIN queue /\ Goes(t, "hook", d, k)
         /\ queue' = Bind(queue, k, d) /\ keyOf' = [keyOf EXCEPT ![d] = k]
  BY <1>1, EnqueueView
<1>5. "hook" \in TokenPCs /\ "reject" \notin TokenPCs
  BY DEF TokenPCs
<1>6. CASE k \in DOMAIN queue /\ Goes(t, "reject", d, k) /\ UNCHANGED <<queue, keyOf>>
  BY <1>1, <1>2, <1>5, <1>6, GoesTok DEF TokNone
<1>7. CASE /\ k \notin DOMAIN queue /\ Goes(t, "hook", d, k)
           /\ queue' = Bind(queue, k, d) /\ keyOf' = [keyOf EXCEPT ![d] = k]
  BY <1>1, <1>2, <1>3, <1>5, <1>7, GoesTok DEF TokNew
<1> QED
  BY <1>4, <1>6, <1>7

\* A step that makes and spends no token
Steady(t) ==
  \/ TokNone(t)
  \/ \E d \in Deferreds, k \in Keys : TokOn(t, d, k) \/ TokHooked(t, d, k) \/ TokTaken(t, d, k)

LEMMA SteadyFlow ==
  ASSUME TypeInv, TokInv, HookInv, NEW t \in Threads, Elsewhere(t), Steady(t)
  PROVE  UNCHANGED keyOf /\ \A e \in Deferreds : Token(e)' <=> Token(e)
<1>1. TokMove(t) /\ UNCHANGED keyOf
  BY DEF Steady, TokMove, TokNone, TokOn, TokHooked, TokTaken
<1>n. Null \notin Keys /\ hook \in [Deferreds -> Keys \cup {Null}]
      /\ keyOf \in [Deferreds -> Keys \cup {Null}]
  BY PoolAssumption, Now
<1>2. \A e \in Deferreds, k \in Keys : ~TokNew(t, e, k)
  BY <1>1, <1>n DEF TokNew
<1>3. \A e \in Deferreds, k \in Keys : ~TokGone(t, e, k)
  <2> SUFFICES ASSUME NEW e \in Deferreds, NEW k \in Keys, TokGone(t, e, k) PROVE FALSE
    OBVIOUS
  <2>1. Tok(t, e) /\ NoTok(t)' /\ hook' = hook
    BY DEF TokGone, Has
  <2>2. PICK d \in Deferreds, j \in Keys : TokHooked(t, d, j)
    BY <2>1 DEF Steady, TokNone, TokOn, TokTaken, NoTok, Has
  <2>3. Tok(t, d) /\ hook' = [hook EXCEPT ![d] = j]
    BY <2>2 DEF TokHooked, Has
  <2>4. hook[d] = Null
    BY <2>3 DEF TokInv
  <2> QED
    BY <1>n, <2>1, <2>3, <2>4
<1> QED
  BY <1>1, <1>2, <1>3, TokenFlow

-----------------------------------------------------------------------------
(* How far a gate has come while its token is out *)

\* The pool's callback waits only in a chain that has not run past it.
HookState == \A d \in Deferreds : hook[d] # Null => state[d] \in {"idle", "starting", "started", "handed"}

\* A slot is handed over to work, and freed by a gate that is not idle any more.
Fits(pc, st) ==
  /\ pc \in {"handover", "rehook"} => st \in {"handed", "done"}
  /\ pc = "remove" => st # "idle"
PassState == \A d \in Deferreds, t \in Threads : Tok(t, d) => Fits(Top(t).pc, state[d])

StageInv == HookState /\ PassState

\* d's state becomes new, once the pool's callback is taken from where it was.
Ends(t, d, new) ==
  /\ state' = [state EXCEPT ![d] = new]
  /\ TokSettled(t, d)
  /\ hook'[d] = Null \/ new = "started"
  /\ \/ state[d] = "idle" /\ new = "cancelled"
     \/ state[d] \in {"started", "handed"} /\ new = "done"
     \/ state[d] = "starting" /\ new \in {"started", "handed", "done"}
  /\ \A e : Tok(t, e)' => \/ Top(t)'.pc = "remove" /\ new \in {"done", "cancelled"}
                          \/ Top(t)'.pc = "handover" /\ new \in {"handed", "done"}

LEMMA SettlesEnds ==
  ASSUME TypeInv, NEW t \in Threads, NoTok(t), NEW d \in Deferreds, NEW new, Settles(t, d, new),
         UNCHANGED keyOf,
         \/ state[d] = "idle" /\ new = "cancelled"
         \/ state[d] \in {"started", "handed"} /\ new = "done"
         \/ state[d] = "starting" /\ (new = "done" \/ (new = "handed" /\ hook[d] = Null))
  PROVE  Ends(t, d, new)
<1>1. TokSettled(t, d)
  BY SettlesTok
<1>2. state' = [state EXCEPT ![d] = new] /\ hook'[d] = Null
  BY Now DEF Settles
<1>3. \A e : Tok(t, e)' => Top(t)'.pc = "remove" /\ new \in {"done", "cancelled"}
  <2>1. CASE Rests(t)
    BY <2>1, RestsNoTok DEF NoTok
  <2>2. CASE hook[d] # Null /\ Tops(t, Frame("remove", d, hook[d]))
    <3>1. Frame("remove", d, hook[d]).pc = "remove"
      BY DEF Frame
    <3> QED
      BY <2>2, <3>1, TopsShape
  <2> QED
    BY <2>1, <2>2 DEF Settles
<1> QED
  BY <1>1, <1>2, <1>3 DEF Ends

LEMMA CancelsEnds ==
  ASSUME TypeInv, NEW t \in Threads, NoTok(t), NEW d \in Deferreds, Cancels(t, d), UNCHANGED keyOf
  PROVE  \/ Ends(t, d, "cancelled")
         \/ Ends(t, d, "done")
         \/ state[d] # "idle" /\ TokNone(t) /\ UNCHANGED state
<1>1. CASE state[d] = "idle" /\ Settles(t, d, "cancelled")
  BY <1>1, SettlesEnds
<1>2. CASE state[d] \in {"started", "handed"} /\ Settles(t, d, "done")
  BY <1>2, SettlesEnds
<1>3. CASE state[d] # "idle" /\ Rests(t) /\ UNCHANGED gates
  BY <1>3, RestsNoTok DEF TokNone, gates
<1> QED
  BY <1>1, <1>2, <1>3 DEF Cancels

LEMMA EndsView ==
  ASSUME TypeInv, PlaceInv, NEW t \in Threads
  PROVE  /\ StartReturns(t) => \E d \in Deferreds, new \in States :
              d = Top(t).d /\ Ends(t, d, new) /\ state[d] = "starting"
         /\ \A d \in Deferreds : Finish(t, d) => Ends(t, d, "done")
         /\ (\E d \in Deferreds : Cancel(t, d)) \/ Reject(t) \/ DrainRunning(t) \/ DrainQueue(t) =>
              (\E d \in Deferreds, new \in States : Ends(t, d, new)) \/ (TokNone(t) /\ UNCHANGED state)
<1>1. ASSUME StartReturns(t)
      PROVE  \E d \in Deferreds, new \in States :
               d = Top(t).d /\ Ends(t, d, new) /\ state[d] = "starting"
  <2>1. PICK d \in Deferreds : d = Top(t).d
    BY <1>1, StartReturnsView
  <2>2. NoTok(t) /\ UNCHANGED keyOf /\ TopIs(t, "callback") /\ TokSettled(t, d)
    BY <1>1, <2>1, StartReturnsView, TokEnding, NoTokNow DEF TopIs, TokenPCs, history
  <2>3. state[d] = "starting"
    <3>1. Calls(d, t, Len(stack[t])) /\ Len(stack[t]) \in Nat
      BY <2>1, <2>2, BelowIs DEF TopIs, Calls, Top
    <3> QED
      BY <3>1 DEF PlaceInv, CallInv
  <2>4. PICK new \in {"done", "handed", "started"} :
          \/ /\ new # "started" /\ hook[d] # Null
             /\ state' = [state EXCEPT ![d] = new]
             /\ hook' = [hook EXCEPT ![d] = Null]
             /\ Goes(t, "handover", d, hook[d])
          \/ new # "started" /\ (new = "handed" => hook[d] = Null) /\ Settles(t, d, new)
          \/ new = "started" /\ state' = [state EXCEPT ![d] = new] /\ Rests(t)
    BY <1>1, <2>1, StartReturnsView
  <2>5. new \in States
    BY DEF States
  <2>6. CASE /\ new # "started" /\ hook[d] # Null
             /\ state' = [state EXCEPT ![d] = new]
             /\ hook' = [hook EXCEPT ![d] = Null]
             /\ Goes(t, "handover", d, hook[d])
    <3>1. Top(t)'.pc = "handover"
      BY <2>6, TopsShape DEF Goes
    <3>2. hook'[d] = Null
      BY <2>6, Now
    <3>3. Ends(t, d, new)
      BY <2>2, <2>3, <2>6, <3>1, <3>2 DEF Ends
    <3> QED
      BY <2>1, <2>3, <2>5, <3>3
  <2>7. CASE new # "started" /\ (new = "handed" => hook[d] = Null) /\ Settles(t, d, new)
    BY <2>1, <2>2, <2>3, <2>5, <2>7, SettlesEnds
  <2>8. CASE new = "started" /\ state' = [state EXCEPT ![d] = new] /\ Rests(t)
    <3>1. \A e : ~Tok(t, e)'
      BY <2>8, RestsNoTok DEF NoTok
    <3>2. Ends(t, d, new)
      BY <2>2, <2>3, <2>8, <3>1 DEF Ends
    <3> QED
      BY <2>1, <2>3, <2>5, <3>2
  <2> QED
    BY <2>4, <2>6, <2>7, <2>8
<1>2. ASSUME NEW d \in Deferreds, Finish(t, d) PROVE Ends(t, d, "done")
  BY <1>2, FinishView, NoTokNow, SettlesEnds DEF history
<1>3. ASSUME (\E d \in Deferreds : Cancel(t, d)) \/ Reject(t) \/ DrainRunning(t) \/ DrainQueue(t)
      PROVE  (\E d \in Deferreds, new \in States : Ends(t, d, new)) \/ (TokNone(t) /\ UNCHANGED state)
  <2>1. NoTok(t) /\ UNCHANGED keyOf
    BY <1>3, ClientNoTok, NoTokNow
    DEF Cancel, Reject, DrainRunning, DrainQueue, TopIs, TokenPCs, history
  <2>2. "done" \in States /\ "cancelled" \in States
    BY DEF States
  <2>3. CASE \E d \in Deferreds : Cancels(t, d)
    BY <2>1, <2>2, <2>3, CancelsEnds
  <2>4. CASE Goes(t, "drainqueue", Top(t).d, Null) /\ UNCHANGED gates
    BY <2>1, <2>4, GoesTok DEF TokNone, TokenPCs, gates
  <2> QED
    BY <1>3, <2>3, <2>4, CancelActView, RejectView, DrainRunningView, DrainQueueView
<1> QED
  BY <1>1, <1>2, <1>3

LEMMA StageQuiet ==
  ASSUME TypeInv, StageInv, NEW t \in Threads, Elsewhere(t), TokNone(t), UNCHANGED state
  PROVE  StageInv'
<1>1. HookState'
  BY DEF StageInv, HookState, TokNone
<1>2. PassState'
  <2> SUFFICES ASSUME NEW e \in Deferreds, NEW u \in Threads, Tok(u, e)'
               PROVE  Fits(Top(u)'.pc, state'[e])
    BY DEF PassState
  <2>1. u # t
    BY DEF TokNone, NoTok
  <2> QED
    BY <2>1, OtherTok DEF StageInv, PassState
<1> QED
  BY <1>1, <1>2 DEF StageInv

LEMMA StageEnds ==
  ASSUME TypeInv, StageInv, NEW t \in Threads, Elsewhere(t), NEW d \in Deferreds, NEW new \in States,
         Ends(t, d, new)
  PROVE  StageInv'
<1>1. /\ state' = [state EXCEPT ![d] = new]
      /\ hook'[d] = Null \/ new = "started"
      /\ \/ state[d] = "idle" /\ new = "cancelled"
         \/ state[d] \in {"started", "handed"} /\ new = "done"
         \/ state[d] = "starting" /\ new \in {"started", "handed", "done"}
  BY DEF Ends
<1>2. \A e \in Deferreds : hook'[e] = hook[e] \/ hook'[e] = Null
  BY Now DEF Ends, TokSettled, TokNone, TokTaken
<1>3. state'[d] = new /\ \A e \in Deferreds \ {d} : state'[e] = state[e]
  BY <1>1, Now
<1>4. HookState'
  BY <1>1, <1>2, <1>3 DEF StageInv, HookState
<1>5. PassState'
  <2> SUFFICES ASSUME NEW e \in Deferreds, NEW u \in Threads, Tok(u, e)'
               PROVE  Fits(Top(u)'.pc, state'[e])
    BY DEF PassState
  <2>1. CASE u # t
    <3>1. Fits(Top(u)'.pc, state[e])
      BY <2>1, OtherTok DEF StageInv, PassState
    <3> QED
      BY <1>1, <1>3, <3>1 DEF Fits
  <2>2. CASE u = t
    <3>1. Fits(Top(t)'.pc, new)
      BY <1>1, <2>2 DEF Ends, Fits
    <3>2. e = d
      BY <2>2, HasNextIs DEF Ends, TokSettled, TokNone, NoTok, TokTaken
    <3> QED
      BY <1>3, <2>2, <3>1, <3>2
  <2> QED
    BY <2>1, <2>2
<1> QED
  BY <1>4, <1>5 DEF StageInv

LEMMA StageStart ==
  ASSUME TypeInv, StageInv, NEW t \in Threads, Elsewhere(t), Start(t)
  PROVE  StageInv'
<1>1. PICK d \in Deferreds :
        \/ state[d] = "idle" /\ state' = [state EXCEPT ![d] = "starting"]
        \/ state[d] = "cancelled" /\ state' = [state EXCEPT ![d] = "spent"]
  BY StartView
<1>2. TokNone(t)
  BY TokAdding
<1>3. \A e \in Deferreds \ {d} : state'[e] = state[e]
  BY <1>1, Now
<1>4. \/ state[d] = "idle" /\ state'[d] = "starting"
      \/ state[d] = "cancelled" /\ state'[d] = "spent"
  BY <1>1, Now
<1>5. HookState'
  BY <1>2, <1>3, <1>4 DEF StageInv, HookState, TokNone
<1>6. PassState'
  <2> SUFFICES ASSUME NEW e \in Deferreds, NEW u \in Threads, Tok(u, e)'
               PROVE  Fits(Top(u)'.pc, state'[e])
    BY DEF PassState
  <2>1. u # t
    BY <1>2 DEF TokNone, NoTok
  <2>2. Fits(Top(u)'.pc, state[e])
    BY <2>1, OtherTok DEF StageInv, PassState
  <2> QED
    BY <1>3, <1>4, <2>2 DEF Fits
<1> QED
  BY <1>5, <1>6 DEF StageInv

\* The steps that have the token, or make it
LEMMA StageWorking ==
  ASSUME TypeInv, StageInv, NEW t \in Threads, Elsewhere(t), UNCHANGED state,
         NEW d \in Deferreds, NEW k \in Keys,
         \/ TokHooked(t, d, k) /\ state[d] \in {"idle", "started", "handed"}
         \/ TokOn(t, d, k) /\ Fits(Top(t)'.pc, state[d])
         \/ TokNew(t, d, k) /\ Top(t)'.pc \notin {"handover", "rehook", "remove"}
         \/ TokGone(t, d, k)
  PROVE  StageInv'
<1>1. \A e \in Deferreds : hook'[e] = hook[e] \/ (e = d /\ state[d] \in {"idle", "started", "handed"})
  BY Now DEF TokHooked, TokOn, TokNew, TokGone
<1>2. HookState'
  BY <1>1 DEF StageInv, HookState
<1>3. PassState'
  <2> SUFFICES ASSUME NEW e \in Deferreds, NEW u \in Threads, Tok(u, e)'
               PROVE  Fits(Top(u)'.pc, state'[e])
    BY DEF PassState
  <2>1. CASE u # t
    BY <2>1, OtherTok DEF StageInv, PassState
  <2>2. CASE u = t
    <3>1. CASE TokNew(t, d, k) /\ Top(t)'.pc \notin {"handover", "rehook", "remove"}
      <4>1. e = d
        BY <2>2, <3>1, HasNextIs DEF TokNew
      <4> QED
        BY <2>2, <3>1, <4>1 DEF Fits
    <3>2. CASE TokOn(t, d, k) /\ Fits(Top(t)'.pc, state[d])
      <4>1. e = d
        BY <2>2, <3>2, HasNextIs DEF TokOn
      <4> QED
        BY <2>2, <3>2, <4>1
    <3> QED
      BY <2>2, <3>1, <3>2 DEF TokHooked, TokGone, NoTok
  <2> QED
    BY <2>1, <2>2
<1> QED
  BY <1>2, <1>3 DEF StageInv

LEMMA StageStep ==
  ASSUME TypeInv, PlaceInv, StageInv, NEW t \in Threads, Act(t)
  PROVE  StageInv'
<1>e. Elsewhere(t)
  BY ActElsewhere
<1>1. ASSUME \E d \in Deferreds, k \in Keys : Add(t, d, k) PROVE StageInv'
  BY <1>e, <1>1, TokAdding, StageQuiet DEF Add, gates
<1>2. ASSUME Drain(t) \/ SetFinalizeFunc(t) \/ SetConcurrency(t) \/ Raise(t) PROVE StageInv'
  BY <1>e, <1>2, TokAdding, StageQuiet DEF Drain, SetFinalizeFunc, SetConcurrency, Raise, gates
<1>3. ASSUME ResumeLock(t) \/ Fill(t) \/ Filled(t) \/ FinalizeReturns(t) \/ ResumeReturns(t) \/ DrainReturns(t)
      PROVE  StageInv'
  BY <1>e, <1>3, TokAdding, StageQuiet
  DEF ResumeLock, Fill, Filled, FinalizeReturns, ResumeReturns, DrainReturns, gates
<1>4. ASSUME Enqueue(t) PROVE StageInv'
  <2>1. UNCHANGED state
    BY <1>4 DEF Enqueue, gates
  <2>2. PICK d \in Deferreds, k \in Keys : TokNone(t) \/ TokNew(t, d, k)
    BY <1>4, TokEnqueue
  <2>3. Top(t)'.pc \in {"reject", "hook"}
    BY <1>4, EnqueueView, TopsShape DEF Goes
  <2> QED
    BY <1>e, <2>1, <2>2, <2>3, StageQuiet, StageWorking
<1>5. ASSUME Hook(t) PROVE StageInv'
  <2>1. PICK d \in Deferreds, k \in Keys :
          /\ UNCHANGED state
          /\ \/ state[d] \in {"idle", "started"} /\ TokHooked(t, d, k)
             \/ /\ TokOn(t, d, k) /\ Top(t)'.pc \in {"handover", "remove"}
                /\ state[d] \notin {"idle", "started"}
                /\ Top(t)'.pc = "handover" => state[d] \in {"handed", "done"}
    BY <1>5, TokWorking
  <2>2. TokOn(t, d, k) /\ Top(t)'.pc \in {"handover", "remove"} /\ state[d] \notin {"idle", "started"}
        /\ (Top(t)'.pc = "handover" => state[d] \in {"handed", "done"})
        => TokOn(t, d, k) /\ Fits(Top(t)'.pc, state[d])
    BY DEF Fits
  <2> QED
    BY <1>e, <2>1, <2>2, StageWorking
<1>6. ASSUME Handover(t) PROVE StageInv'
  <2>1. PICK d \in Deferreds, k \in Keys : TokOn(t, d, k) /\ Top(t)'.pc = "rehook"
    BY <1>6, TokWorking
  <2>2. UNCHANGED state /\ Top(t).pc = "handover"
    BY <1>6 DEF Handover, gates, TopIs
  <2>3. state[d] \in {"handed", "done"}
    BY <2>1, <2>2 DEF StageInv, PassState, Fits, TokOn, Has
  <2>4. Fits(Top(t)'.pc, state[d])
    BY <2>1, <2>3 DEF Fits
  <2> QED
    BY <1>e, <2>1, <2>2, <2>3, <2>4, StageWorking
<1>7. ASSUME Rehook(t) PROVE StageInv'
  <2>1. PICK d \in Deferreds, k \in Keys :
          \/ state[d] # "done" /\ TokHooked(t, d, k)
          \/ state[d] = "done" /\ TokOn(t, d, k)
    BY <1>7, TokWorking
  <2>2. UNCHANGED state /\ Top(t).pc = "rehook"
    BY <1>7 DEF Rehook, TopIs
  <2>3. state[d] \in {"handed", "done"}
    BY <2>1, <2>2 DEF StageInv, PassState, Fits, TokOn, TokHooked, Has
  <2>4. state[d] = "done" => Fits(Top(t)'.pc, state[d])
    BY DEF Fits
  <2> QED
    BY <1>e, <2>1, <2>2, <2>3, <2>4, StageWorking
<1>8. ASSUME Remove(t) PROVE StageInv'
  <2>1. PICK d \in Deferreds, k \in Keys : TokGone(t, d, k)
    BY <1>8, TokWorking
  <2>2. UNCHANGED state
    BY <1>8 DEF Remove, gates
  <2> QED
    BY <1>e, <2>1, <2>2, StageWorking
<1>9. ASSUME Start(t) PROVE StageInv'
  BY <1>e, <1>9, StageStart
<1>10. ASSUME StartReturns(t) PROVE StageInv'
  BY <1>e, <1>10, EndsView, StageEnds
<1>11. ASSUME NEW d \in Deferreds, Finish(t, d) PROVE StageInv'
  BY <1>e, <1>11, EndsView, StageEnds DEF States
<1>12. ASSUME (\E d \in Deferreds : Cancel(t, d)) \/ Reject(t) \/ DrainRunning(t) \/ DrainQueue(t)
       PROVE  StageInv'
  BY <1>e, <1>12, EndsView, StageEnds, StageQuiet
<1> QED
  BY <1>1, <1>2, <1>3, <1>4, <1>5, <1>6, <1>7, <1>8, <1>9, <1>10, <1>11, <1>12 DEF Act, Step

-----------------------------------------------------------------------------
(* What each step does to the queue and the table, and to whose slots *)

\* Nothing, ...
Quiet(t) == Steady(t) /\ UNCHANGED <<queue, running>>
\* d comes to wait under k, ...
Joins(t, d, k) ==
  /\ TopIs(t, "enqueue") /\ Top(t).d = d /\ Top(t).k = k /\ k \notin DOMAIN queue
  /\ TokNew(t, d, k) /\ queue' = Bind(queue, k, d) /\ UNCHANGED running
\* the gate that waits under k takes a slot, ...
Takes(t, k) ==
  /\ k \in DOMAIN queue /\ TokNone(t) /\ queue' = Unbind(queue, k)
  /\ running' = Bind(running, k, [d |-> queue[k], part |-> "gate"])
\* d's slot is now its work's, ...
Passes(t, d, k) ==
  /\ TokOn(t, d, k) /\ Top(t).pc = "handover"
  /\ running' = Bind(running, k, [d |-> d, part |-> "work"]) /\ UNCHANGED queue
\* d's slot is free, ...
Frees(t, d, k) ==
  /\ TokGone(t, d, k) /\ Top(t).pc = "remove"
  /\ running' = Unbind(running, k) /\ UNCHANGED queue
\* or d is taken from the queue and cancelled.
Drops(t, d, k) ==
  /\ k \in DOMAIN queue /\ queue[k] = d /\ queue' = Unbind(queue, k) /\ Cancels(t, d)
  /\ Steady(t) /\ UNCHANGED running

Moves(t) ==
  \/ Quiet(t)
  \/ \E d \in Deferreds, k \in Keys :
       Joins(t, d, k) \/ Takes(t, k) \/ Passes(t, d, k) \/ Frees(t, d, k) \/ Drops(t, d, k)

LEMMA SettledSteady ==
  ASSUME NEW t, NEW d \in Deferreds, TokSettled(t, d)
  PROVE  Steady(t)
BY DEF TokSettled, Steady

LEMMA QuietActs ==
  ASSUME TypeInv, NEW t \in Threads
  PROVE  /\ (\E d \in Deferreds, k \in Keys : Add(t, d, k)) => Quiet(t)
         /\ Drain(t) \/ SetFinalizeFunc(t) \/ SetConcurrency(t) \/ Raise(t) => Quiet(t)
         /\ ResumeLock(t) \/ Filled(t) \/ FinalizeReturns(t) => Quiet(t)
         /\ Start(t) \/ ResumeReturns(t) \/ DrainReturns(t) => Quiet(t)
         /\ Hook(t) \/ Rehook(t) => Quiet(t)
         /\ StartReturns(t) \/ Reject(t) \/ DrainRunning(t) => Quiet(t)
         /\ (\E d \in Deferreds : Finish(t, d) \/ Cancel(t, d)) => Quiet(t)
<1>1. (\E d \in Deferreds, k \in Keys : Add(t, d, k)) => Quiet(t)
  BY TokAdding DEF Add, Quiet, Steady, pool
<1>2. Drain(t) \/ SetFinalizeFunc(t) \/ SetConcurrency(t) \/ Raise(t) => Quiet(t)
  BY TokAdding DEF Drain, SetFinalizeFunc, SetConcurrency, Raise, Quiet, Steady, pool
<1>3. ResumeLock(t) \/ Filled(t) \/ FinalizeReturns(t) => Quiet(t)
  BY TokAdding DEF ResumeLock, Filled, FinalizeReturns, Quiet, Steady
<1>4. Start(t) \/ ResumeReturns(t) \/ DrainReturns(t) => Quiet(t)
  BY TokAdding DEF Start, ResumeReturns, DrainReturns, Quiet, Steady, pool
<1>5. Hook(t) \/ Rehook(t) => Quiet(t)
  <2>1. Hook(t) \/ Rehook(t) => Steady(t)
    BY TokWorking DEF Steady
  <2> QED
    BY <2>1 DEF Hook, Rehook, Quiet, pool
<1>6. StartReturns(t) \/ Reject(t) \/ DrainRunning(t) => Quiet(t)
  <2>1. StartReturns(t) \/ Reject(t) \/ DrainRunning(t) => Steady(t)
    BY TokEnding, SettledSteady DEF Steady
  <2> QED
    BY <2>1 DEF StartReturns, Reject, DrainRunning, Quiet, pool
<1>7. (\E d \in Deferreds : Finish(t, d) \/ Cancel(t, d)) => Quiet(t)
  <2>1. (\E d \in Deferreds : Finish(t, d) \/ Cancel(t, d)) => Steady(t)
    BY TokEnding, SettledSteady
  <2> QED
    BY <2>1 DEF Finish, Cancel, Quiet, pool
<1> QED
  BY <1>1, <1>2, <1>3, <1>4, <1>5, <1>6, <1>7

LEMMA MovesTable ==
  ASSUME TypeInv, PlaceInv, NEW t \in Threads
  PROVE  /\ Enqueue(t) => Moves(t)
         /\ Fill(t) => \E k \in Keys : Takes(t, k)
         /\ Handover(t) => \E d \in Deferreds, k \in Keys : Passes(t, d, k)
         /\ Remove(t) => \E d \in Deferreds, k \in Keys : Frees(t, d, k)
         /\ DrainQueue(t) => \E d \in Deferreds, k \in Keys : Drops(t, d, k)
<1>q. DOMAIN queue \subseteq Keys /\ \A k \in DOMAIN queue : queue[k] \in Deferreds
  BY Now, PartialIs
<1>1. ASSUME Enqueue(t) PROVE Moves(t)
  <2>1. PICK d \in Deferreds, k \in Keys :
           /\ d = Top(t).d /\ k = Top(t).k
           /\ \/ k \in DOMAIN queue /\ TokNone(t) /\ UNCHANGED queue
              \/ k \notin DOMAIN queue /\ TokNew(t, d, k) /\ queue' = Bind(queue, k, d)
    BY <1>1, TokEnqueue
  <2>2. UNCHANGED running /\ TopIs(t, "enqueue")
    BY <1>1, EnqueueView
  <2> QED
    BY <2>1, <2>2 DEF Moves, Joins, Quiet, Steady
<1>2. ASSUME Fill(t) PROVE \E k \in Keys : Takes(t, k)
  <2>1. TokNone(t)
    BY <1>2, TokAdding
  <2> QED
    BY <1>q, <1>2, <2>1, FillView DEF Takes
<1>3. ASSUME Handover(t) PROVE \E d \in Deferreds, k \in Keys : Passes(t, d, k)
  <2>1. PICK d \in Deferreds, k \in Keys : d = Top(t).d /\ k = Top(t).k /\ TokOn(t, d, k)
    BY <1>3, TokWorking
  <2>2. /\ running' = Bind(running, Top(t).k, [d |-> Top(t).d, part |-> "work"])
        /\ UNCHANGED queue /\ Top(t).pc = "handover"
    BY <1>3, HandoverView DEF TopIs
  <2> QED
    BY <2>1, <2>2 DEF Passes
<1>4. ASSUME Remove(t) PROVE \E d \in Deferreds, k \in Keys : Frees(t, d, k)
  <2>1. PICK d \in Deferreds, k \in Keys : d = Top(t).d /\ k = Top(t).k /\ TokGone(t, d, k)
    BY <1>4, TokWorking
  <2>2. running' = Unbind(running, Top(t).k) /\ UNCHANGED queue /\ Top(t).pc = "remove"
    BY <1>4, RemoveView DEF TopIs
  <2> QED
    BY <2>1, <2>2 DEF Frees
<1>5. ASSUME DrainQueue(t) PROVE \E d \in Deferreds, k \in Keys : Drops(t, d, k)
  <2>1. PICK k \in DOMAIN queue, d \in Deferreds :
          d = queue[k] /\ queue' = Unbind(queue, k) /\ Cancels(t, d) /\ TokSettled(t, d)
    BY <1>5, TokEnding
  <2>2. UNCHANGED running
    BY <1>5 DEF DrainQueue
  <2> QED
    BY <1>q, <2>1, <2>2, SettledSteady DEF Drops
<1> QED
  BY <1>1, <1>2, <1>3, <1>4, <1>5

LEMMA ActMoves ==
  ASSUME TypeInv, PlaceInv, NEW t \in Threads, Act(t)
  PROVE  Moves(t)
<1>1. Quiet(t) => Moves(t)
  BY DEF Moves
<1>2. Fill(t) \/ Handover(t) \/ Remove(t) \/ DrainQueue(t) \/ Enqueue(t) => Moves(t)
  <2>1. ASSUME NEW d \in Deferreds, NEW k \in Keys,
               Takes(t, k) \/ Passes(t, d, k) \/ Frees(t, d, k) \/ Drops(t, d, k)
        PROVE  Moves(t)
    BY <2>1 DEF Moves
  <2>2. ASSUME NEW k \in Keys, Takes(t, k) PROVE Moves(t)
    <3>1. CASE \E d \in Deferreds : TRUE
      BY <2>1, <2>2, <3>1
    <3>2. CASE Deferreds = {}
      BY <2>2, <3>2, Now, PartialIs DEF Takes
    <3> QED
      BY <3>1, <3>2
  <2> QED
    BY <2>1, <2>2, MovesTable
<1> QED
  BY <1>1, <1>2, QuietActs DEF Act, Step

LEMMA MovesTok ==
  ASSUME NEW t, Moves(t)
  PROVE  TokMove(t)
<1>1. Steady(t) => TokMove(t)
  BY DEF Steady, TokMove
<1>2. ASSUME NEW d \in Deferreds, NEW k \in Keys,
             Joins(t, d, k) \/ Takes(t, k) \/ Passes(t, d, k) \/ Frees(t, d, k) \/ Drops(t, d, k)
      PROVE  TokNew(t, d, k) \/ TokNone(t) \/ TokOn(t, d, k) \/ TokGone(t, d, k) \/ Steady(t)
  BY <1>2 DEF Joins, Takes, Passes, Frees, Drops
<1> QED
  BY <1>1, <1>2 DEF Moves, Quiet, TokMove

-----------------------------------------------------------------------------
(* Whose a key is *)

\* d waits under k, or has its slot.
Holds(d, k) ==
  \/ k \in DOMAIN queue /\ queue[k] = d
  \/ k \in DOMAIN running /\ running[k].d = d

\* A key is d's as long as d holds it, or the pool's callback for d is out.
Claims(d, k) == keyOf[d] = k /\ (Holds(d, k) \/ Token(d))

\* d was cancelled, and will not be fired any more.
Gone(d) == state[d] = "cancelled" /\ \A t \in Threads : \A i, j \in Nat : ~LAt(d, t, i, j)

\* What has a slot has that of its own key, and no other gate waits under it.
TableInv == \A k \in DOMAIN running : keyOf[running[k].d] = k /\ k \notin DOMAIN queue

\* Whatever the pool will be called back for has its key, or is gone.
HeldInv == \A d \in Deferreds : Token(d) => Holds(d, keyOf[d]) \/ Gone(d)

\* A key is one gate's.
ClaimInv == \A d, e \in Deferreds, k \in Keys : Claims(d, k) /\ Claims(e, k) => d = e

\* A gate that enters finds its key free when it waits for the lock, unless the
\* key is taken by one that waits and will not be fired in between.
Enters(t, k) == TopIs(t, "enqueue") /\ Top(t).k = k
EntryInv ==
  \A t \in Threads, k \in Keys :
    Enters(t, k) =>
      \/ /\ \A d \in Deferreds : ~Claims(d, k)
         /\ \A u \in Threads : Enters(u, k) => u = t
      \/ k \in DOMAIN queue /\ Threads = {t}

KeyInv == TableInv /\ HeldInv /\ ClaimInv /\ EntryInv

\* A client that uses no key again while it is in use by a gate that was fired,
\* and, unless it has one thread only, none that waits.
Orderly ==
  /\ "reuse" \notin Liberties
  /\ "duplicate" \in Liberties => \E t : Threads = {t}

LEMMA Bound ==
  ASSUME NEW f, NEW k, NEW x
  PROVE  /\ \A j : j \in DOMAIN Bind(f, k, x) <=> j \in DOMAIN f \/ j = k
         /\ Bind(f, k, x)[k] = x
         /\ \A j : j \in DOMAIN f /\ j # k => Bind(f, k, x)[j] = f[j]
BY DEF Bind

LEMMA Unbound ==
  ASSUME NEW f, NEW k
  PROVE  /\ \A j : j \in DOMAIN Unbind(f, k) <=> j \in DOMAIN f /\ j # k
         /\ \A j : j \in DOMAIN f /\ j # k => Unbind(f, k)[j] = f[j]
BY DEF Unbind, Restrict

LEMMA Tables ==
  ASSUME TypeInv
  PROVE  /\ \A k \in DOMAIN queue : k \in Keys /\ queue[k] \in Deferreds
         /\ \A k \in DOMAIN running : k \in Keys /\ running[k] \in Slots /\ running[k].d \in Deferreds
<1>1. queue \in Partial(Keys, Deferreds) /\ running \in Partial(Keys, Slots)
  BY Now
<1>2. queue \in [DOMAIN queue -> Deferreds] /\ DOMAIN queue \subseteq Keys
  BY <1>1, PartialIs
<1>3. running \in [DOMAIN running -> Slots] /\ DOMAIN running \subseteq Keys
  BY <1>1, PartialIs
<1>4. \A x \in Slots : x.d \in Deferreds
  BY DEF Slots
<1> QED
  BY <1>2, <1>3, <1>4

LEMMA QuietHolds ==
  ASSUME NEW t, Quiet(t)
  PROVE  \A e, j : Holds(e, j)' <=> Holds(e, j)
BY DEF Quiet, Holds

LEMMA JoinsHolds ==
  ASSUME NEW t, NEW d, NEW k, Joins(t, d, k)
  PROVE  \A e, j : Holds(e, j)' <=> Holds(e, j) \/ (e = d /\ j = k)
<1>1. queue' = Bind(queue, k, d) /\ running' = running /\ k \notin DOMAIN queue
  BY DEF Joins
<1>2. /\ \A j : j \in DOMAIN queue' <=> j \in DOMAIN queue \/ j = k
      /\ queue'[k] = d
      /\ \A j : j \in DOMAIN queue /\ j # k => queue'[j] = queue[j]
  BY <1>1, Bound
<1> QED
  BY <1>1, <1>2 DEF Holds

LEMMA TakesHolds ==
  ASSUME TableInv, NEW t, NEW k, Takes(t, k)
  PROVE  \A e, j : Holds(e, j)' <=> Holds(e, j)
<1>1. /\ queue' = Unbind(queue, k) /\ k \in DOMAIN queue /\ k \notin DOMAIN running
      /\ running' = Bind(running, k, [d |-> queue[k], part |-> "gate"])
  BY DEF Takes, TableInv
<1>2. /\ \A j : j \in DOMAIN queue' <=> j \in DOMAIN queue /\ j # k
      /\ \A j : j \in DOMAIN queue /\ j # k => queue'[j] = queue[j]
  BY <1>1, Unbound
<1>3. /\ \A j : j \in DOMAIN running' <=> j \in DOMAIN running \/ j = k
      /\ running'[k] = [d |-> queue[k], part |-> "gate"]
      /\ \A j : j \in DOMAIN running /\ j # k => running'[j] = running[j]
  BY <1>1, Bound
<1>4. running'[k].d = queue[k]
  BY <1>3
<1> QED
  BY <1>1, <1>2, <1>3, <1>4 DEF Holds

\* The slot that is passed on is the gate's own: what was cancelled while it
\* waited hands nothing on.
LEMMA PassedOwn ==
  ASSUME PlaceInv, TokInv, StageInv, HeldInv, NEW t \in Threads, NEW d \in Deferreds,
         NEW k \in Keys, Passes(t, d, k)
  PROVE  keyOf[d] = k /\ k \in DOMAIN running /\ running[k].d = d
<1>1. Tok(t, d) /\ Top(t).k = k /\ Top(t).pc = "handover"
  BY DEF Passes, TokOn, Has
<1>2. keyOf[d] = k /\ Token(d) /\ state[d] \in {"handed", "done"}
  BY <1>1 DEF TokInv, Token, StageInv, PassState, Fits
<1>3. Holds(d, k)
  BY <1>2 DEF HeldInv, Gone
<1> QED
  BY <1>2, <1>3 DEF Holds, PlaceInv, QueueInv

LEMMA PassesHolds ==
  ASSUME NEW t, NEW d, NEW k, Passes(t, d, k), k \in DOMAIN running, running[k].d = d
  PROVE  /\ \A e, j : Holds(e, j)' <=> Holds(e, j)
         /\ DOMAIN running' = DOMAIN running
<1>1. queue' = queue /\ running' = Bind(running, k, [d |-> d, part |-> "work"])
  BY DEF Passes
<1>2. /\ \A j : j \in DOMAIN running' <=> j \in DOMAIN running \/ j = k
      /\ running'[k] = [d |-> d, part |-> "work"]
      /\ \A j : j \in DOMAIN running /\ j # k => running'[j] = running[j]
  BY <1>1, Bound
<1>3. running'[k].d = d
  BY <1>2
<1> QED
  BY <1>1, <1>2, <1>3 DEF Holds

LEMMA FreesHolds ==
  ASSUME NEW t, NEW d, NEW k, Frees(t, d, k)
  PROVE  /\ \A e, j : Holds(e, j)' => Holds(e, j)
         /\ \A e, j : Holds(e, j) /\ j # k => Holds(e, j)'
         /\ \A j : j \in DOMAIN running' <=> j \in DOMAIN running /\ j # k
         /\ \A j \in DOMAIN running' : running'[j] = running[j]
<1>1. queue' = queue /\ running' = Unbind(running, k)
  BY DEF Frees
<1>2. /\ \A j : j \in DOMAIN running' <=> j \in DOMAIN running /\ j # k
      /\ \A j : j \in DOMAIN running /\ j # k => running'[j] = running[j]
  BY <1>1, Unbound
<1> QED
  BY <1>1, <1>2 DEF Holds

LEMMA DropsHolds ==
  ASSUME NEW t, NEW d, NEW k, Drops(t, d, k)
  PROVE  /\ \A e, j : Holds(e, j)' => Holds(e, j)
         /\ \A e, j : Holds(e, j) /\ j # k => Holds(e, j)'
         /\ \A j : j \in DOMAIN queue' <=> j \in DOMAIN queue /\ j # k
         /\ \A j \in DOMAIN queue' : queue'[j] = queue[j]
         /\ queue[k] = d /\ k \in DOMAIN queue
<1>1. running' = running /\ queue' = Unbind(queue, k) /\ queue[k] = d /\ k \in DOMAIN queue
  BY DEF Drops
<1>2. /\ \A j : j \in DOMAIN queue' <=> j \in DOMAIN queue /\ j # k
      /\ \A j : j \in DOMAIN queue /\ j # k => queue'[j] = queue[j]
  BY <1>1, Unbound
<1> QED
  BY <1>1, <1>2 DEF Holds

-----------------------------------------------------------------------------
(* What is gone stays so *)

LEMMA FillLists ==
  ASSUME TypeInv, NEW t \in Threads, Elsewhere(t), NEW k, Lists(t, k),
         NEW d, NEW u \in Threads, NEW i \in Nat, NEW j \in Nat, LAt(d, u, i, j)'
  PROVE  d = queue[k] \/ LAt(d, u, i, j)
<1>1. CASE u # t
  <2>1. stack'[u] = stack[u]
    BY <1>1 DEF Elsewhere
  <2> QED
    BY <2>1 DEF LAt
<1>2. CASE u = t
  <2>1. PICK f : /\ FrameOK(f) /\ f.list = Append(Top(t).list, queue[k]) /\ Busy(t)
                 /\ stack' = [stack EXCEPT ![t] = Append(Below(t), f)]
    BY DEF Lists
  <2> DEFINE n == Len(stack[t])
  <2>2. f \in Frames
    BY <2>1 DEF FrameOK
  <2>3. /\ n \in Nat /\ n > 0 /\ Len(stack'[t]) = n /\ stack'[t][n] = f
        /\ \A l \in 1..n - 1 : stack'[t][l] = stack[t][l]
    BY <2>1, <2>2, BelowIs, OnBelow
  <2>4. CASE i = n
    <3>1. j \in 1..Len(f.list) /\ f.list[j] = d
      BY <1>2, <2>3, <2>4 DEF LAt
    <3>2. Top(t).list \in Seq(Deferreds)
      BY <2>1, TopOK DEF Frames
    <3>3. j \in 1..Len(Top(t).list) + 1
          /\ (j <= Len(Top(t).list) => Top(t).list[j] = d) /\ (j = Len(Top(t).list) + 1 => d = queue[k])
      BY <2>1, <3>1, <3>2
    <3>4. CASE j = Len(Top(t).list) + 1
      BY <3>3, <3>4
    <3>5. CASE j <= Len(Top(t).list)
      <4>1. j \in 1..Len(Top(t).list) /\ Top(t).list[j] = d
        BY <3>2, <3>3, <3>5
      <4>2. i \in 1..Len(stack[u]) /\ stack[u][i] = Top(t)
        BY <1>2, <2>3, <2>4 DEF Top
      <4> QED
        BY <4>1, <4>2 DEF LAt
    <3> QED
      BY <3>2, <3>3, <3>4, <3>5
  <2>5. CASE i # n
    BY <1>2, <2>3, <2>5 DEF LAt
  <2> QED
    BY <2>4, <2>5
<1> QED
  BY <1>1, <1>2

LEMMA TailAt ==
  ASSUME NEW q \in Seq(Deferreds), q # <<>>, NEW j \in 1..Len(Tail(q))
  PROVE  j + 1 \in 1..Len(q) /\ Tail(q)[j] = q[j + 1]
OBVIOUS

LEMMA StartLists ==
  ASSUME TypeInv, NEW t \in Threads, Elsewhere(t), Start(t),
         NEW d, NEW u \in Threads, NEW i \in Nat, NEW j \in Nat, LAt(d, u, i, j)'
  PROVE  \E m \in Nat : LAt(d, u, i, m)
<1>1. CASE u # t
  <2>1. stack'[u] = stack[u]
    BY <1>1 DEF Elsewhere
  <2> QED
    BY <2>1 DEF LAt
<1>2. CASE u = t
  <2> DEFINE n == Len(stack[t])
  <2>1. Busy(t) /\ Top(t).list # <<>> /\ Top(t) \in Frames /\ Top(t).list \in Seq(Deferreds)
    BY StartView, TopOK DEF TopIs, Frames
  <2>2. PICK f : /\ FrameOK(f) /\ f.list = Tail(Top(t).list)
                 /\ \/ \E g : /\ FrameOK(g) /\ g.pc = "callback"
                             /\ stack' = [stack EXCEPT ![t] = Append(Append(Below(t), f), g)]
                    \/ stack' = [stack EXCEPT ![t] = Append(Below(t), f)]
    BY StartView
  <2>3. f \in Frames /\ n \in Nat /\ n > 0 /\ stack[t][n] = Top(t)
    BY <2>1, <2>2, BelowIs DEF FrameOK, Top
  <2>4. i \in 1..Len(stack'[t]) /\ j \in 1..Len(stack'[t][i].list) /\ stack'[t][i].list[j] = d
    BY <1>2 DEF LAt
  <2>5. \/ i = n /\ stack'[t][i] = f
        \/ i \in 1..n - 1 /\ stack'[t][i] = stack[t][i]
    <3>1. ASSUME NEW g, FrameOK(g), g.pc = "callback",
                 stack' = [stack EXCEPT ![t] = Append(Append(Below(t), f), g)]
          PROVE  <2>5
      <4>1. g \in Frames /\ g.list = <<>>
        BY <3>1 DEF FrameOK
      <4> DEFINE s == Append(Append(Below(t), f), g)
      <4>2. /\ Len(s) = n + 1 /\ s[n] = f /\ s[n + 1] = g
            /\ \A l \in 1..n - 1 : s[l] = stack[t][l]
        BY <2>1, <2>3, <4>1, TwoFrames
      <4>3. stack'[t] = s
        BY <3>1, Stacked
      <4> HIDE DEF s
      <4>4. i # n + 1
        BY <2>4, <4>1, <4>2, <4>3
      <4> QED
        BY <2>3, <2>4, <4>2, <4>3, <4>4
    <3>2. ASSUME stack' = [stack EXCEPT ![t] = Append(Below(t), f)] PROVE <2>5
      <4>1. /\ Len(stack'[t]) = n /\ stack'[t][n] = f
            /\ \A l \in 1..n - 1 : stack'[t][l] = stack[t][l]
        BY <2>1, <2>3, <3>2, OnBelow
      <4> QED
        BY <2>3, <2>4, <4>1
    <3> QED
      BY <2>2, <3>1, <3>2
  <2>6. CASE i = n /\ stack'[t][i] = f
    <3>1. j + 1 \in 1..Len(Top(t).list) /\ Top(t).list[j + 1] = d
      <4>1. j \in 1..Len(Tail(Top(t).list)) /\ Tail(Top(t).list)[j] = d
        BY <2>2, <2>4, <2>6
      <4> QED
        BY <2>1, <4>1, TailAt
    <3>2. LAt(d, u, i, j + 1)
      BY <1>2, <2>3, <2>6, <3>1 DEF LAt
    <3> QED
      BY <3>2
  <2>7. CASE i \in 1..n - 1 /\ stack'[t][i] = stack[t][i]
    <3>1. LAt(d, u, i, j)
      BY <1>2, <2>3, <2>4, <2>7 DEF LAt
    <3> QED
      BY <3>1
  <2> QED
    BY <2>5, <2>6, <2>7
<1> QED
  BY <1>1, <1>2

\* What is started is listed.
LEMMA StartListed ==
  ASSUME TypeInv, NEW t \in Threads, Start(t)
  PROVE  LAt(Head(Top(t).list), t, Len(stack[t]), 1) /\ Len(stack[t]) \in Nat
<1>1. Busy(t) /\ Top(t).list # <<>> /\ Top(t).list \in Seq(Deferreds)
  BY StartView, TopOK DEF TopIs, Frames
<1>2. Len(stack[t]) \in Nat /\ Len(stack[t]) \in 1..Len(stack[t])
  BY <1>1, BelowIs
<1>3. Len(Top(t).list) > 0 /\ Head(Top(t).list) = Top(t).list[1]
  BY <1>1
<1> QED
  BY <1>1, <1>2, <1>3 DEF LAt, Top

LEMMA ClientGoneKept ==
  ASSUME TypeInv, PlaceInv, NEW t \in Threads, Elsewhere(t), StartReturns(t), NEW e \in Deferreds, Gone(e)
  PROVE  Gone(e)'
<1>1. PICK d \in Deferreds, new \in States : d = Top(t).d /\ Ends(t, d, new) /\ state[d] = "starting"
  BY EndsView
<1>2. state'[e] = state[e]
  BY <1>1 DEF Ends, Gone
<1>3. NoNewListed
  BY StartReturnsView, SettlesPlain, PlainCalm, GoesQuiet DEF Plain
<1> QED
  BY <1>2, <1>3 DEF Gone, NoNewListed

\* What is gone stays gone, and out of every list.
LEMMA GoneKept ==
  ASSUME TypeInv, PlaceInv, NEW t \in Threads, Act(t), NEW e \in Deferreds, Gone(e),
         \A k \in DOMAIN queue : queue[k] # e
  PROVE  Gone(e)'
<1>e. Elsewhere(t)
  BY ActElsewhere
<1>1. Calm => Gone(e)'
  BY DEF Calm, NoNewListed, NoNewStart, Gone
<1>2. ASSUME NoNewListed, UNCHANGED state PROVE Gone(e)'
  BY <1>2 DEF NoNewListed, Gone
<1>3. ASSUME NEW d \in Deferreds, NEW k \in Keys, Add(t, d, k) PROVE Gone(e)'
  <2>1. NoNewListed
    BY <1>e, <1>3, AddView, GoesQuiet
  <2>2. UNCHANGED state
    BY <1>3 DEF Add, gates
  <2> QED
    BY <1>2, <2>1, <2>2
<1>4. ASSUME Enqueue(t) PROVE Gone(e)'
  <2>1. NoNewListed
    BY <1>e, <1>4, EnqueueView, GoesQuiet
  <2>2. UNCHANGED state
    BY <1>4 DEF Enqueue, gates
  <2> QED
    BY <1>2, <2>1, <2>2
<1>5. ASSUME Fill(t) PROVE Gone(e)'
  <2>1. PICK k \in DOMAIN queue : Lists(t, k)
    BY <1>5, FillView
  <2>2. UNCHANGED state
    BY <1>5 DEF Fill, gates
  <2>3. ASSUME NEW u \in Threads, NEW i \in Nat, NEW j \in Nat, LAt(e, u, i, j)' PROVE FALSE
    BY <1>e, <2>1, <2>3, FillLists DEF Gone
  <2> QED
    BY <2>2, <2>3 DEF Gone
<1>6. ASSUME Start(t) PROVE Gone(e)'
  <2>1. ASSUME NEW u \in Threads, NEW i \in Nat, NEW j \in Nat, LAt(e, u, i, j)' PROVE FALSE
    BY <1>e, <1>6, <2>1, StartLists DEF Gone
  <2>2. Head(Top(t).list) # e
    BY <1>6, StartListed DEF Gone
  <2>3. state'[e] = state[e]
    <3>1. PICK new : state' = [state EXCEPT ![Head(Top(t).list)] = new]
      BY <1>6, StartView
    <3>2. state \in [Deferreds -> States]
      BY Now
    <3> QED
      BY <2>2, <3>1, <3>2
  <2> QED
    BY <2>1, <2>3 DEF Gone
<1>7. ASSUME StartReturns(t) PROVE Gone(e)'
  BY <1>e, <1>7, ClientGoneKept
<1> QED
  BY <1>1, <1>3, <1>4, <1>5, <1>6, <1>7, CalmActs DEF Act, Step

\* A gate that is dropped from the queue is gone.
LEMMA DroppedGone ==
  ASSUME TypeInv, PlaceInv, NEW t \in Threads, Elsewhere(t), NEW d \in Deferreds,
         NEW k \in Keys, Drops(t, d, k)
  PROVE  Gone(d)'
<1>1. state[d] \in {"idle", "cancelled"} /\ \A u \in Threads : \A i, j \in Nat : ~LAt(d, u, i, j)
  BY DEF Drops, PlaceInv, QueueInv, ListInv
<1>2. NoNewListed
  BY CancelsPlain, PlainCalm DEF Drops
<1>3. state'[d] = "cancelled"
  <2>1. state \in [Deferreds -> States]
    BY Now
  <2> QED
    BY <1>1, <2>1 DEF Drops, Cancels, Settles, gates
<1> QED
  BY <1>1, <1>2, <1>3 DEF Gone, NoNewListed

-----------------------------------------------------------------------------
(* Keys stay with their gates *)

LEMMA SteadyMoves ==
  ASSUME NEW t, NEW d \in Deferreds, NEW k \in Keys,
         Quiet(t) \/ Takes(t, k) \/ Passes(t, d, k) \/ Drops(t, d, k)
  PROVE  Steady(t)
BY DEF Quiet, Takes, Passes, Drops, Steady

LEMMA FreesTokens ==
  ASSUME TypeInv, TokInv, HookInv, NEW t \in Threads, Elsewhere(t),
         NEW d \in Deferreds, NEW k \in Keys, Frees(t, d, k)
  PROVE  /\ UNCHANGED keyOf /\ keyOf[d] = k /\ Token(d)
         /\ \A e \in Deferreds : Token(e)' => Token(e) /\ e # d
         /\ \A e \in Deferreds : Token(e) /\ e # d => Token(e)'
<1>1. TokGone(t, d, k)
  BY DEF Frees
<1>2. TokMove(t)
  BY <1>1 DEF TokMove
<1>3. UNCHANGED keyOf /\ Tok(t, d) /\ Top(t).k = k
  BY <1>1 DEF TokGone, Has
<1>4. ~Token(d)'
  BY <1>1, <1>2, TokenFlow
<1>5. \A e \in Deferreds, j \in Keys : ~TokNew(t, e, j)
  BY <1>3 DEF TokNew, NoTok
<1>6. \A e \in Deferreds, j \in Keys : TokGone(t, e, j) => e = d
  BY <1>1, HasIs DEF TokGone, Has
<1>7. \A e \in Deferreds : (Token(e)' => Token(e)) /\ (Token(e) /\ e # d => Token(e)')
  BY <1>2, <1>5, <1>6, TokenFlow
<1> QED
  BY <1>3, <1>4, <1>7 DEF TokInv, Token

LEMMA JoinsTokens ==
  ASSUME TypeInv, TokInv, HookInv, NEW t \in Threads, Elsewhere(t),
         NEW d \in Deferreds, NEW k \in Keys, Joins(t, d, k)
  PROVE  /\ keyOf[d] = Null /\ keyOf' = [keyOf EXCEPT ![d] = k] /\ Token(d)'
         /\ \A e \in Deferreds : Token(e)' => Token(e) \/ e = d
         /\ \A e \in Deferreds : Token(e) => Token(e)'
<1>1. TokNew(t, d, k)
  BY DEF Joins
<1>2. TokMove(t)
  BY <1>1 DEF TokMove
<1>3. keyOf[d] = Null /\ keyOf' = [keyOf EXCEPT ![d] = k] /\ Tok(t, d)' /\ NoTok(t)
  BY <1>1 DEF TokNew, Has
<1>4. \A e \in Deferreds, j \in Keys : ~TokGone(t, e, j)
  BY <1>3 DEF TokGone, Has, NoTok
<1>5. \A e \in Deferreds, j \in Keys : TokNew(t, e, j) => e = d
  BY <1>1, HasNextIs DEF TokNew, Has
<1>6. Token(d)'
  BY <1>3 DEF Token
<1> QED
  BY <1>2, <1>3, <1>4, <1>5, <1>6, TokenFlow

\* No step but an add gives a key to a gate.
LEMMA ClaimsFlow ==
  ASSUME TypeInv, PlaceInv, TokInv, HookInv, StageInv, TableInv, HeldInv,
         NEW t \in Threads, Elsewhere(t), NEW d \in Deferreds, NEW k \in Keys,
         Quiet(t) \/ Takes(t, k) \/ Passes(t, d, k) \/ Frees(t, d, k) \/ Drops(t, d, k)
  PROVE  /\ UNCHANGED keyOf
         /\ \A e \in Deferreds : Token(e)' => Token(e)
         /\ \A e, j : Holds(e, j)' => Holds(e, j)
         /\ \A e \in Deferreds, j \in Keys : Claims(e, j)' => Claims(e, j)
<1>1. UNCHANGED keyOf /\ \A e \in Deferreds : Token(e)' => Token(e)
  <2>1. CASE Frees(t, d, k)
    BY <2>1, FreesTokens
  <2>2. CASE ~Frees(t, d, k)
    BY <2>2, SteadyMoves, SteadyFlow
  <2> QED
    BY <2>1, <2>2
<1>2. \A e, j : Holds(e, j)' => Holds(e, j)
  <2>1. CASE Quiet(t)
    BY <2>1, QuietHolds
  <2>2. CASE Takes(t, k)
    BY <2>2, TakesHolds
  <2>3. CASE Passes(t, d, k)
    BY <2>3, PassedOwn, PassesHolds
  <2>4. CASE Frees(t, d, k)
    BY <2>4, FreesHolds
  <2>5. CASE Drops(t, d, k)
    BY <2>5, DropsHolds
  <2> QED
    BY <2>1, <2>2, <2>3, <2>4, <2>5
<1>3. \A e \in Deferreds, j \in Keys : Claims(e, j)' => Claims(e, j)
  BY <1>1, <1>2 DEF Claims
<1> QED
  BY <1>1, <1>2, <1>3

LEMMA JoinsClaims ==
  ASSUME TypeInv, TokInv, HookInv, NEW t \in Threads, Elsewhere(t),
         NEW d \in Deferreds, NEW k \in Keys, Joins(t, d, k)
  PROVE  \A e \in Deferreds, j \in Keys : Claims(e, j)' => Claims(e, j) \/ (e = d /\ j = k)
<1> SUFFICES ASSUME NEW e \in Deferreds, NEW j \in Keys, Claims(e, j)'
             PROVE  Claims(e, j) \/ (e = d /\ j = k)
  OBVIOUS
<1>1. keyOf' = [keyOf EXCEPT ![d] = k] /\ keyOf \in [Deferreds -> Keys \cup {Null}]
  BY JoinsTokens, Now
<1>2. keyOf'[e] = j /\ (Holds(e, j)' \/ Token(e)')
  BY DEF Claims
<1>3. CASE e = d
  BY <1>1, <1>2, <1>3
<1>4. CASE e # d
  BY <1>1, <1>2, <1>4, JoinsTokens, JoinsHolds DEF Claims
<1> QED
  BY <1>3, <1>4

\* d finds its key free when it is put into the queue.
LEMMA JoinsFree ==
  ASSUME EntryInv, NEW t \in Threads, NEW d \in Deferreds, NEW k \in Keys, Joins(t, d, k)
  PROVE  /\ \A e \in Deferreds : ~Claims(e, k)
         /\ \A u \in Threads : Enters(u, k) => u = t
<1>1. Enters(t, k) /\ k \notin DOMAIN queue
  BY DEF Joins, Enters
<1> QED
  BY <1>1 DEF EntryInv

LEMMA RunningClaims ==
  ASSUME TypeInv, TableInv, NEW k \in DOMAIN running
  PROVE  k \in Keys /\ running[k].d \in Deferreds /\ Claims(running[k].d, k)
BY Tables DEF TableInv, Claims, Holds

LEMMA TableKey ==
  ASSUME TypeInv, PlaceInv, TokInv, HookInv, StageInv, KeyInv,
         NEW t \in Threads, Act(t)
  PROVE  TableInv'
<1>e. Elsewhere(t) /\ TableInv /\ HeldInv /\ EntryInv
  BY ActElsewhere DEF KeyInv
<1>1. ASSUME NEW d \in Deferreds, NEW k \in Keys, Joins(t, d, k) PROVE TableInv'
  <2>1. keyOf[d] = Null /\ keyOf' = [keyOf EXCEPT ![d] = k] /\ keyOf \in [Deferreds -> Keys \cup {Null}]
    BY <1>e, <1>1, JoinsTokens, Now
  <2>2. running' = running /\ queue' = Bind(queue, k, d)
    BY <1>1 DEF Joins
  <2>3. \A j \in DOMAIN queue' : j \in DOMAIN queue \/ j = k
    BY <2>2, Bound
  <2>4. k \notin DOMAIN running
    BY <1>e, <1>1, JoinsFree, RunningClaims
  <2>5. ASSUME NEW j \in DOMAIN running PROVE keyOf'[running[j].d] = j
    <3>1. running[j].d \in Deferreds /\ keyOf[running[j].d] = j /\ j \in Keys
      BY <1>e, <2>5, Tables DEF TableInv
    <3> QED
      BY <2>1, <3>1, PoolAssumption
  <2> QED
    BY <1>e, <2>2, <2>3, <2>4, <2>5 DEF TableInv
<1>2. ASSUME NEW d \in Deferreds, NEW k \in Keys,
             Quiet(t) \/ Takes(t, k) \/ Passes(t, d, k) \/ Frees(t, d, k) \/ Drops(t, d, k)
      PROVE  TableInv'
  <2>1. UNCHANGED keyOf
    BY <1>e, <1>2, ClaimsFlow
  <2>2. CASE Quiet(t)
    BY <1>e, <2>1, <2>2 DEF Quiet, TableInv
  <2>3. CASE Takes(t, k)
    <3>1. /\ k \in DOMAIN queue /\ queue' = Unbind(queue, k)
          /\ running' = Bind(running, k, [d |-> queue[k], part |-> "gate"])
      BY <2>3 DEF Takes
    <3>2. \A j : j \in DOMAIN queue' <=> j \in DOMAIN queue /\ j # k
      BY <3>1, Unbound
    <3>3. /\ \A j : j \in DOMAIN running' <=> j \in DOMAIN running \/ j = k
          /\ running'[k] = [d |-> queue[k], part |-> "gate"]
          /\ \A j : j \in DOMAIN running /\ j # k => running'[j] = running[j]
      BY <3>1, Bound
    <3>4. running'[k].d = queue[k] /\ keyOf[queue[k]] = k
      BY <3>1, <3>3 DEF PlaceInv, QueueInv
    <3> QED
      BY <1>e, <2>1, <3>2, <3>3, <3>4 DEF TableInv
  <2>4. CASE Passes(t, d, k)
    <3>1. keyOf[d] = k /\ k \in DOMAIN running
      BY <1>e, <2>4, PassedOwn
    <3>2. queue' = queue /\ running' = Bind(running, k, [d |-> d, part |-> "work"])
      BY <2>4 DEF Passes
    <3>3. /\ \A j : j \in DOMAIN running' <=> j \in DOMAIN running \/ j = k
          /\ running'[k] = [d |-> d, part |-> "work"]
          /\ \A j : j \in DOMAIN running /\ j # k => running'[j] = running[j]
      BY <3>2, Bound
    <3>4. running'[k].d = d
      BY <3>3
    <3> QED
      BY <1>e, <2>1, <3>1, <3>2, <3>3, <3>4 DEF TableInv
  <2>5. CASE Frees(t, d, k)
    <3>1. queue' = queue
      BY <2>5 DEF Frees
    <3> QED
      BY <1>e, <2>1, <2>5, <3>1, FreesHolds DEF TableInv
  <2>6. CASE Drops(t, d, k)
    <3>1. running' = running
      BY <2>6 DEF Drops
    <3> QED
      BY <1>e, <2>1, <2>6, <3>1, DropsHolds DEF TableInv
  <2> QED
    BY <1>2, <2>2, <2>3, <2>4, <2>5, <2>6
<1>3. Moves(t)
  BY ActMoves
<1>4. CASE Quiet(t)
  <2>1. ASSUME Deferreds = {} \/ Keys = {} PROVE TableInv'
    <3>1. DOMAIN running = {}
      BY <2>1, Tables
    <3> QED
      BY <1>4, <3>1 DEF Quiet, TableInv
  <2> QED
    BY <1>2, <1>4, <2>1
<1> QED
  BY <1>1, <1>2, <1>3, <1>4 DEF Moves

LEMMA HeldKey ==
  ASSUME TypeInv, PlaceInv, TokInv, HookInv, StageInv, KeyInv,
         NEW t \in Threads, Act(t)
  PROVE  HeldInv'
<1>e. Elsewhere(t) /\ TableInv /\ HeldInv /\ ClaimInv
  BY ActElsewhere DEF KeyInv
<1> SUFFICES ASSUME NEW e \in Deferreds, Token(e)', NEW j, j = keyOf'[e]
             PROVE  Holds(e, j)' \/ Gone(e)'
  BY DEF HeldInv, Holds
<1>g. CASE Gone(e) /\ \A k \in DOMAIN queue : queue[k] # e
  BY <1>g, GoneKept
<1>h. Token(e) => Holds(e, keyOf[e]) \/ (Gone(e) /\ \A k \in DOMAIN queue : queue[k] # e)
  BY <1>e DEF HeldInv, Holds, PlaceInv, QueueInv
<1>1. CASE Quiet(t)
  <2>1. Token(e) /\ keyOf' = keyOf
    BY <1>e, <1>1, SteadyFlow DEF Quiet
  <2> QED
    BY <1>1, <1>g, <1>h, <2>1, QuietHolds
<1>2. ASSUME NEW d \in Deferreds, NEW k \in Keys, Joins(t, d, k) PROVE Holds(e, j)' \/ Gone(e)'
  <2>1. /\ keyOf' = [keyOf EXCEPT ![d] = k] /\ keyOf \in [Deferreds -> Keys \cup {Null}]
        /\ Token(e) \/ e = d
    BY <1>e, <1>2, JoinsTokens, Now
  <2>2. CASE e = d
    BY <1>2, <2>1, <2>2, JoinsHolds
  <2>3. CASE e # d
    <3>1. j = keyOf[e]
      BY <2>1, <2>3
    <3>4. Token(e)
      BY <2>1, <2>3
    <3>2. ASSUME Holds(e, j) PROVE Holds(e, j)'
      BY <1>2, <3>2, JoinsHolds
    <3>3. CASE Holds(e, keyOf[e])
      <4>1. Holds(e, j)
        BY <3>1, <3>3
      <4> QED
        BY <3>2, <4>1
    <3> QED
      BY <1>g, <1>h, <3>3, <3>4
  <2> QED
    BY <2>2, <2>3
<1>3. ASSUME NEW d \in Deferreds, NEW k \in Keys,
             Takes(t, k) \/ Passes(t, d, k) \/ Frees(t, d, k) \/ Drops(t, d, k)
      PROVE  Holds(e, j)' \/ Gone(e)'
  <2>1. keyOf' = keyOf /\ Token(e)
    BY <1>e, <1>3, ClaimsFlow
  <2>2. CASE Holds(e, keyOf[e])
    <3>1. Holds(e, j) /\ j = keyOf[e]
      BY <2>1, <2>2
    <3>2. CASE Takes(t, k)
      BY <1>e, <3>1, <3>2, TakesHolds
    <3>3. CASE Passes(t, d, k)
      <4>1. k \in DOMAIN running /\ running[k].d = d
        BY <1>e, <3>3, PassedOwn
      <4> QED
        BY <3>1, <3>3, <4>1, PassesHolds
    <3>4. CASE Frees(t, d, k)
      <4>1. keyOf[d] = k /\ Token(d) /\ e # d
        BY <1>e, <3>4, FreesTokens
      <4>2. j # k
        BY <1>e, <2>1, <3>1, <4>1 DEF ClaimInv, Claims
      <4> QED
        BY <3>1, <3>4, <4>2, FreesHolds
    <3>5. CASE Drops(t, d, k)
      <4>1. CASE j # k
        BY <3>1, <3>5, <4>1, DropsHolds
      <4>2. CASE j = k
        <5>1. k \in DOMAIN queue /\ queue[k] = d
          BY <3>5, DropsHolds
        <5>2. e = d
          BY <1>e, <3>1, <4>2, <5>1 DEF Holds, TableInv
        <5> QED
          BY <1>e, <3>5, <5>2, DroppedGone
      <4> QED
        BY <4>1, <4>2
    <3> QED
      BY <1>3, <3>2, <3>3, <3>4, <3>5
  <2> QED
    BY <1>g, <1>h, <2>1, <2>2
<1> QED
  BY <1>1, <1>2, <1>3, ActMoves DEF Moves

LEMMA ClaimKey ==
  ASSUME TypeInv, PlaceInv, TokInv, HookInv, StageInv, KeyInv,
         NEW t \in Threads, Act(t)
  PROVE  ClaimInv'
<1>e. Elsewhere(t) /\ TableInv /\ HeldInv /\ ClaimInv /\ EntryInv
  BY ActElsewhere DEF KeyInv
<1>1. CASE Quiet(t)
  <2>1. \A e \in Deferreds, j \in Keys : Claims(e, j)' => Claims(e, j)
    BY <1>e, <1>1, SteadyFlow, QuietHolds DEF Quiet, Claims
  <2> QED
    BY <1>e, <2>1 DEF ClaimInv
<1>2. ASSUME NEW d \in Deferreds, NEW k \in Keys, Joins(t, d, k) PROVE ClaimInv'
  <2>1. \A e \in Deferreds, j \in Keys : Claims(e, j)' => Claims(e, j) \/ (e = d /\ j = k)
    BY <1>e, <1>2, JoinsClaims
  <2>2. \A e \in Deferreds : ~Claims(e, k)
    BY <1>e, <1>2, JoinsFree
  <2> QED
    BY <1>e, <2>1, <2>2 DEF ClaimInv
<1>3. ASSUME NEW d \in Deferreds, NEW k \in Keys,
             Takes(t, k) \/ Passes(t, d, k) \/ Frees(t, d, k) \/ Drops(t, d, k)
      PROVE  ClaimInv'
  <2>1. \A e \in Deferreds, j \in Keys : Claims(e, j)' => Claims(e, j)
    BY <1>e, <1>3, ClaimsFlow
  <2> QED
    BY <1>e, <2>1 DEF ClaimInv
<1> QED
  BY <1>1, <1>2, <1>3, ActMoves DEF Moves

-----------------------------------------------------------------------------
(* Who enters *)

LEMMA PlainNoEntry ==
  ASSUME TypeInv, NEW t \in Threads, Plain(t)
  PROVE  ~TopIs(t, "enqueue")'
<1>1. CASE Rests(t)
  <2>1. PICK s : Ground(t, s) /\ stack'[t] = s
    BY <1>1, RestsShape
  <2> QED
    BY <2>1 DEF TopIs, Busy, Top, Ground, Lower, ClientPCs
<1>2. CASE \E f : Tops(t, f) /\ f.pc # "enqueue"
  BY <1>2, TopsShape DEF TopIs
<1> QED
  BY <1>1, <1>2 DEF Plain

\* Only an add leaves a thread about to enqueue.
LEMMA EntersByAdd ==
  ASSUME TypeInv, PlaceInv, NEW t \in Threads, Act(t), TopIs(t, "enqueue")'
  PROVE  \E d \in Deferreds, k \in Keys : Add(t, d, k)
<1>e. Elsewhere(t)
  BY ActElsewhere
<1>1. ~Enqueue(t)
  BY EnqueueView, TopsShape DEF Goes, TopIs
<1>2. ~Fill(t)
  BY FillView, ListsTops, TopsShape DEF TopIs
<1>3. ~Start(t)
  <2>1. ASSUME Start(t) PROVE Top(t)'.pc \in {"start", "callback"}
    <3>1. PICK f : /\ FrameOK(f) /\ f.pc = "start"
                   /\ \/ \E g : /\ FrameOK(g) /\ g.pc = "callback"
                                /\ stack' = [stack EXCEPT ![t] = Append(Append(Below(t), f), g)]
                      \/ stack' = [stack EXCEPT ![t] = Append(Below(t), f)]
      BY <2>1, StartView
    <3>2. Below(t) \in Seq(Frames) /\ f \in Frames
      BY <2>1, <3>1, StartView, BelowIs DEF FrameOK, TopIs
    <3>3. PICK s \in Seq(Frames), h \in Frames :
            h.pc \in {"start", "callback"} /\ stack' = [stack EXCEPT ![t] = Append(s, h)]
      <4>1. ASSUME NEW g, FrameOK(g), g.pc = "callback",
                   stack' = [stack EXCEPT ![t] = Append(Append(Below(t), f), g)]
            PROVE  \E s \in Seq(Frames), h \in Frames :
                     h.pc \in {"start", "callback"} /\ stack' = [stack EXCEPT ![t] = Append(s, h)]
        <5>1. Append(Below(t), f) \in Seq(Frames) /\ g \in Frames
          BY <3>2, <4>1 DEF FrameOK
        <5> QED
          BY <4>1, <5>1
      <4> QED
        BY <3>1, <3>2, <4>1
    <3>4. stack'[t] = Append(s, h)
      BY <3>3, Stacked
    <3> QED
      BY <3>3, <3>4 DEF Top
  <2> QED
    BY <2>1 DEF TopIs
<1>4. ~StartReturns(t)
  BY StartReturnsView, SettlesPlain, GoesPlain, PlainNoEntry DEF Plain
<1>5. ~Reject(t)
  BY RejectView, CancelsPlain, PlainNoEntry
<1>6. ASSUME Calm, Busy(t) => Top(t).pc \notin {"enqueue", "reject"} PROVE FALSE
  <2>1. PICK d \in Deferreds : Entering(t, d)'
    <3>1. FramesInv' /\ stack' \in [Threads -> Seq(Frames)]
      BY TypeStep DEF Act, Next, TypeInv, TypeOK
    <3>2. Top(t)'.d \in Deferreds
      <4>1. Len(stack'[t]) \in 1..Len(stack'[t])
        BY <3>1 DEF TopIs, Busy
      <4>2. FrameOK(stack'[t][Len(stack'[t])])
        BY <3>1, <4>1 DEF FramesInv
      <4> QED
        BY <4>2 DEF FrameOK, KeyPCs, TopIs, Top
    <3> QED
      BY <3>2 DEF Entering
  <2>2. Entering(t, d)
    BY <1>6, <2>1 DEF Calm, NoNewEntry
  <2> QED
    BY <1>6, <2>2 DEF Entering, TopIs
<1>7. ASSUME \/ Hook(t) \/ ResumeLock(t) \/ Filled(t) \/ FinalizeReturns(t) \/ ResumeReturns(t)
             \/ Handover(t) \/ Rehook(t) \/ Remove(t) \/ DrainRunning(t) \/ DrainQueue(t)
             \/ DrainReturns(t) \/ Drain(t) \/ Raise(t) \/ SetFinalizeFunc(t) \/ SetConcurrency(t)
             \/ \E d \in Deferreds : Finish(t, d) \/ Cancel(t, d)
      PROVE  Busy(t) => Top(t).pc \notin {"enqueue", "reject"}
  BY <1>7 DEF Hook, ResumeLock, Filled, FinalizeReturns, ResumeReturns, Handover, Rehook, Remove, DrainRunning,
         DrainQueue, DrainReturns, Drain, Raise, Finish, Cancel, SetFinalizeFunc, SetConcurrency, ClientRuns,
         ClientPCs, TopIs
<1> QED
  BY <1>1, <1>2, <1>3, <1>4, <1>5, <1>6, <1>7, CalmActs DEF Act, Step


\* No frame names a key, unless it is that of its gate that enters or whose
\* callback is out.
LEMMA FreshKey ==
  ASSUME TypeInv, TokInv, StageInv, HeldInv, NEW k \in Keys, k \notin DOMAIN queue, ~Fired(k),
         NEW d \in Deferreds
  PROVE  ~Claims(d, k)
<1> SUFFICES ASSUME Claims(d, k) PROVE FALSE
  OBVIOUS
<1>1. keyOf[d] = k /\ ~Holds(d, k)
  BY DEF Claims, Holds, Fired
<1>2. Token(d) /\ Gone(d)
  BY <1>1 DEF Claims, HeldInv
<1>3. hook[d] = Null
  BY <1>2 DEF StageInv, HookState, Gone
<1>4. PICK t \in Threads : Tok(t, d)
  BY <1>2, <1>3 DEF Token
<1>5. Top(t).k = k /\ Top(t) \in AllFrames
  BY <1>1, <1>4, TopInFrames DEF TokInv, Tok
<1> QED
  BY <1>5 DEF Fired

LEMMA EntryKey ==
  ASSUME Orderly, TypeInv, PlaceInv, TokInv, HookInv, StageInv, KeyInv,
         NEW t \in Threads, Act(t)
  PROVE  EntryInv'
<1>e. Elsewhere(t) /\ TableInv /\ HeldInv /\ EntryInv
  BY ActElsewhere DEF KeyInv
<1> SUFFICES ASSUME NEW u \in Threads, NEW k \in Keys, Enters(u, k)'
             PROVE  \/ /\ \A d \in Deferreds : ~Claims(d, k)'
                       /\ \A w \in Threads : Enters(w, k)' => w = u
                    \/ k \in DOMAIN queue' /\ Threads = {u}
  BY DEF EntryInv
<1>o. \A w \in Threads \ {t} : Enters(w, k)' <=> Enters(w, k)
  BY <1>e DEF Elsewhere, Enters, TopIs, Busy, Top
<1>1. CASE u = t
  <2>1. PICK d \in Deferreds, j \in Keys : Add(t, d, j)
    BY <1>1, EntersByAdd DEF Enters
  <2>2. j = k
    BY <1>e, <1>1, <2>1, AddView, GoesQuiet DEF Enters
  <2>3. Quiet(t) /\ UNCHANGED queue
    BY <2>1, QuietActs DEF Quiet
  <2>4. ~Fired(k) /\ ("duplicate" \notin Liberties => k \notin DOMAIN queue)
    BY <2>1, <2>2 DEF Add, Orderly
  <2>5. CASE k \in DOMAIN queue
    <3>1. Threads = {u}
      BY <1>1, <2>4, <2>5 DEF Orderly
    <3> QED
      BY <2>3, <2>5, <3>1
  <2>6. CASE k \notin DOMAIN queue
    <3>1. \A e \in Deferreds : ~Claims(e, k)
      BY <1>e, <2>4, <2>6, FreshKey
    <3>2. \A e \in Deferreds : ~Claims(e, k)'
      BY <1>e, <2>3, <3>1, SteadyFlow, QuietHolds DEF Quiet, Claims
    <3>3. \A w \in Threads \ {t} : ~Enters(w, k)
      BY <2>4, TopInFrames DEF Enters, TopIs, Fired
    <3> QED
      BY <1>1, <1>o, <3>2, <3>3
  <2> QED
    BY <2>5, <2>6
<1>2. CASE u # t
  <2>1. Enters(u, k) /\ Threads # {u}
    BY <1>2, <1>o
  <2>2. (\A d \in Deferreds : ~Claims(d, k)) /\ \A w \in Threads : Enters(w, k) => w = u
    BY <2>1, <1>e DEF EntryInv
  <2>3. ~Enters(t, k)'
    <3> SUFFICES ASSUME Enters(t, k)' PROVE FALSE
      OBVIOUS
    <3>1. PICK d \in Deferreds, j \in Keys : Add(t, d, j)
      BY EntersByAdd DEF Enters
    <3>2. j = k
      BY <1>e, <3>1, AddView, GoesQuiet DEF Enters
    <3>3. ~Fired(k)
      BY <3>1, <3>2 DEF Add, Orderly
    <3>4. Top(u) \in AllFrames /\ Top(u).k = k
      BY <2>1, TopInFrames DEF Enters, TopIs
    <3> QED
      BY <3>3, <3>4 DEF Fired
  <2>4. \A d \in Deferreds : ~Claims(d, k)'
    <3>1. CASE Quiet(t)
      BY <1>e, <2>2, <3>1, SteadyFlow, QuietHolds DEF Quiet, Claims
    <3>2. ASSUME NEW d \in Deferreds, NEW j \in Keys, Joins(t, d, j)
          PROVE  \A e \in Deferreds : ~Claims(e, k)'
      <4>1. j # k
        BY <1>2, <2>2, <3>2 DEF Joins, Enters
      <4> QED
        BY <1>e, <2>2, <3>2, <4>1, JoinsClaims
    <3>3. ASSUME NEW d \in Deferreds, NEW j \in Keys,
                 Takes(t, j) \/ Passes(t, d, j) \/ Frees(t, d, j) \/ Drops(t, d, j)
          PROVE  \A e \in Deferreds : ~Claims(e, k)'
      BY <1>e, <2>2, <3>3, ClaimsFlow
    <3> QED
      BY <3>1, <3>2, <3>3, ActMoves DEF Moves
  <2> QED
    BY <1>o, <2>2, <2>3, <2>4
<1> QED
  BY <1>1, <1>2

-----------------------------------------------------------------------------
(* The invariant that the theorems about slots rest on *)

SlotsInv == TypeInv /\ PlaceInv /\ TokInv /\ HookInv /\ StageInv /\ KeyInv

LEMMA SlotsInit == Init => SlotsInv
<1> SUFFICES ASSUME Init PROVE SlotsInv
  OBVIOUS
<1>1. /\ DOMAIN queue = {} /\ DOMAIN running = {} /\ \A d \in Deferreds : hook[d] = Null
      /\ \A t \in Threads : stack[t] = <<>>
  BY DEF Init
<1>2. \A t \in Threads : ~Busy(t)
  BY <1>1 DEF Busy
<1>3. PlaceInv
  BY PlaceInit
<1>4. TokInv /\ HookInv /\ StageInv
  BY <1>1, <1>2 DEF TokInv, HookInv, StageInv, HookState, PassState, Tok
<1>5. KeyInv
  BY <1>1, <1>2 DEF KeyInv, TableInv, HeldInv, ClaimInv, EntryInv, Claims, Holds, Token, Tok, Enters, TopIs
<1> QED
  BY <1>3, <1>4, <1>5, TypeInit DEF SlotsInv

LEMMA SlotsStep ==
  ASSUME Orderly, SlotsInv, NEW t \in Threads, Act(t)
  PROVE  SlotsInv'
<1>1. TypeInv /\ PlaceInv /\ TokInv /\ HookInv /\ StageInv /\ KeyInv
  BY DEF SlotsInv
<1>2. TypeInv'
  BY <1>1, TypeStep DEF Act, Next
<1>3. PlaceInv' /\ StageInv'
  BY <1>1, PlaceStep, StageStep
<1>4. TokInv' /\ HookInv'
  BY <1>1, ActElsewhere, ActMoves, MovesTok, TokKept
<1>5. KeyInv'
  BY <1>1, TableKey, HeldKey, ClaimKey, EntryKey DEF KeyInv
<1> QED
  BY <1>2, <1>3, <1>4, <1>5 DEF SlotsInv

LEMMA SlotsStutter ==
  ASSUME SlotsInv, UNCHANGED vars
  PROVE  SlotsInv'
<1>1. /\ UNCHANGED <<queue, running, state, hook, stack, keyOf>>
      /\ TypeInv /\ PlaceInv /\ TokInv /\ HookInv /\ StageInv /\ KeyInv
  BY DEF SlotsInv, vars, pool, gates, history
<1>2. TypeInv'
  BY <1>1, TypeStep
<1>3. PlaceInv'
  BY <1>1, PlaceStutter
<1>4. /\ \A t, d : Tok(t, d)' <=> Tok(t, d)
      /\ \A t : Top(t)' = Top(t)
  BY <1>1 DEF Tok, Busy, Top
<1>5. TokInv' /\ HookInv' /\ StageInv'
  BY <1>1, <1>4 DEF TokInv, HookInv, StageInv, HookState, PassState
<1>6. /\ \A d, k : Holds(d, k)' <=> Holds(d, k)
      /\ \A d : Token(d)' <=> Token(d)
      /\ \A d : Gone(d)' <=> Gone(d)
      /\ \A t, k : Enters(t, k)' <=> Enters(t, k)
  BY <1>1, <1>4 DEF Holds, Token, Gone, LAt, Enters, TopIs, Busy, Top
<1>7. KeyInv'
  <2>1. TableInv'
    BY <1>1 DEF KeyInv, TableInv
  <2>2. HeldInv'
    BY <1>1, <1>6 DEF KeyInv, HeldInv, Holds
  <2>3. ClaimInv'
    BY <1>1, <1>6 DEF KeyInv, ClaimInv, Claims
  <2>4. EntryInv'
    BY <1>1, <1>6 DEF KeyInv, EntryInv, Claims
  <2> QED
    BY <2>1, <2>2, <2>3, <2>4 DEF KeyInv
<1> QED
  BY <1>2, <1>3, <1>5, <1>7 DEF SlotsInv

LEMMA SlotsKept ==
  ASSUME Orderly
  PROVE  Spec => []SlotsInv
<1>1. SlotsInv /\ [Next]_vars => SlotsInv'
  <2> SUFFICES ASSUME SlotsInv, [Next]_vars PROVE SlotsInv'
    OBVIOUS
  <2>1. CASE Next
    <3>1. PICK t \in Threads : Act(t)
      BY <2>1 DEF Next, Act
    <3> QED
      BY <3>1, SlotsStep
  <2> QED
    BY <2>1, SlotsStutter
<1> QED
  BY <1>1, SlotsInit, PTL DEF Spec


-----------------------------------------------------------------------------
(* The limit *)

LEMMA LimitKept ==
  ASSUME "limit" \notin Liberties, NEW t \in Threads, Act(t)
  PROVE  UNCHANGED concurrency
<1>1. ~SetConcurrency(t)
  BY DEF SetConcurrency
<1>2. Enqueue(t) \/ Hook(t) \/ Reject(t) \/ ResumeLock(t) \/ Fill(t) \/ Filled(t) \/ FinalizeReturns(t)
        => UNCHANGED concurrency
  BY DEF Enqueue, Hook, Reject, ResumeLock, Fill, Filled, FinalizeReturns, pool
<1>3. Start(t) \/ ResumeReturns(t) \/ StartReturns(t) \/ Handover(t) \/ Rehook(t) \/ Remove(t)
        => UNCHANGED concurrency
  BY DEF Start, ResumeReturns, StartReturns, Handover, Rehook, Remove, pool
<1>4. DrainRunning(t) \/ DrainQueue(t) \/ DrainReturns(t) \/ Drain(t) \/ SetFinalizeFunc(t) \/ Raise(t)
        => UNCHANGED concurrency
  BY DEF DrainRunning, DrainQueue, DrainReturns, Drain, SetFinalizeFunc, Raise, pool
<1>5. /\ \A d \in Deferreds : Finish(t, d) \/ Cancel(t, d) => UNCHANGED concurrency
      /\ \A d \in Deferreds, k \in Keys : Add(t, d, k) => UNCHANGED concurrency
  BY DEF Finish, Cancel, Add, pool
<1> QED
  BY <1>1, <1>2, <1>3, <1>4, <1>5 DEF Act, Step

LEMMA BoundedStep ==
  ASSUME "limit" \notin Liberties, SlotsInv, Bounded, NEW t \in Threads, Act(t)
  PROVE  Bounded'
<1>1. /\ TypeInv /\ PlaceInv /\ TokInv /\ StageInv /\ TableInv /\ HeldInv
      /\ IsFiniteSet(DOMAIN running) /\ concurrency \in Nat
  BY Now DEF SlotsInv, KeyInv
<1>2. UNCHANGED concurrency
  BY LimitKept
<1>3. Cardinality(DOMAIN running) \in Nat
  BY <1>1, FS_CardinalityType
<1>4. UNCHANGED running => Bounded'
  BY <1>2 DEF Bounded
<1>5. ASSUME Fill(t) PROVE Bounded'
  <2>1. PICK k \in DOMAIN queue : running' = Bind(running, k, [d |-> queue[k], part |-> "gate"])
    BY <1>1, <1>5, FillView
  <2>2. DOMAIN running' = DOMAIN running \cup {k}
    BY <2>1 DEF Bind
  <2>3. Cardinality(DOMAIN running') <= Cardinality(DOMAIN running) + 1
    BY <1>1, <1>3, <2>2, FS_AddElement
  <2>4. Cardinality(DOMAIN running') \in Nat
    BY <1>1, <2>2, FS_AddElement, FS_CardinalityType
  <2> QED
    BY <1>1, <1>2, <1>3, <1>5, <2>3, <2>4 DEF Bounded, Fill, SlotFree
<1>6. ASSUME Handover(t) PROVE Bounded'
  <2>1. PICK d \in Deferreds, k \in Keys : Passes(t, d, k)
    BY <1>1, <1>6, MovesTable
  <2>2. k \in DOMAIN running /\ running[k].d = d
    BY <1>1, <2>1, PassedOwn
  <2>3. DOMAIN running' = DOMAIN running
    BY <2>1, <2>2, PassesHolds
  <2> QED
    BY <1>2, <2>3 DEF Bounded
<1>7. ASSUME Remove(t) PROVE Bounded'
  <2>1. running' = Unbind(running, Top(t).k)
    BY <1>1, <1>7, RemoveView
  <2>2. DOMAIN running' \subseteq DOMAIN running
    BY <2>1, Unbound
  <2>3. Cardinality(DOMAIN running') <= Cardinality(DOMAIN running) /\ Cardinality(DOMAIN running') \in Nat
    BY <1>1, <2>2, FS_Subset, FS_CardinalityType
  <2> QED
    BY <1>1, <1>2, <1>3, <2>3 DEF Bounded
<1>8. Enqueue(t) \/ DrainQueue(t) => UNCHANGED running
  BY DEF Enqueue, DrainQueue
<1>9. Quiet(t) => UNCHANGED running
  BY DEF Quiet
<1> QED
  BY <1>1, <1>4, <1>5, <1>6, <1>7, <1>8, <1>9, QuietActs DEF Act, Step

\* A client that uses keys once at a time, and leaves the limit alone, never
\* finds the table over it, whatever it cancels, drains and raises
\* (_resumeWaiting, _cbRemoveDeferred).
THEOREM TableIsBounded ==
  ASSUME Orderly, "limit" \notin Liberties
  PROVE  Spec => []Bounded
<1>1. Init => Bounded
  BY PoolAssumption, FS_EmptySet DEF Init, Bounded
<1>2. SlotsInv /\ Bounded /\ [Next]_vars => Bounded'
  <2> SUFFICES ASSUME SlotsInv, Bounded, [Next]_vars PROVE Bounded'
    OBVIOUS
  <2>1. CASE UNCHANGED vars
    BY <2>1 DEF Bounded, vars, pool
  <2>2. CASE Next
    <3>1. PICK t \in Threads : Act(t)
      BY <2>2 DEF Next, Act
    <3> QED
      BY <3>1, BoundedStep
  <2> QED
    BY <2>1, <2>2
<1> QED
  BY <1>1, <1>2, SlotsKept, PTL DEF Spec

-----------------------------------------------------------------------------
(* Every slot is freed *)

\* x is among the slots that frame i of t has still to cancel.
TodoAt(x, t, i) == i \in 1..Len(stack[t]) /\ x \in stack[t][i].todo

NoNewTodo == \A x : \A u \in Threads : \A i \in Nat : TodoAt(x, u, i)' => TodoAt(x, u, i)

LEMMA TodoGround ==
  ASSUME TypeInv, NEW t \in Threads, NEW s, Ground(t, s), NEW i \in 1..Len(s), NEW x \in s[i].todo
  PROVE  TodoAt(x, t, i)
BY Stacked DEF Ground, TodoAt

\* What a step does to the stack of t, unless it starts a gate or a drain
Undrained(t) == Rests(t) \/ \E f : Tops(t, f) /\ f.pc # "drain"

LEMMA TodoKept ==
  ASSUME TypeInv, NEW t \in Threads, Elsewhere(t), Undrained(t)
  PROVE  NoNewTodo
<1> SUFFICES ASSUME NEW x, NEW u \in Threads, NEW i \in Nat, TodoAt(x, u, i)'
             PROVE  TodoAt(x, u, i)
  BY DEF NoNewTodo
<1>1. CASE u # t
  BY <1>1 DEF Elsewhere, TodoAt
<1>2. CASE u = t /\ Rests(t)
  <2>1. PICK s : Ground(t, s) /\ stack'[t] = s
    BY <1>2, RestsShape
  <2> QED
    BY <1>2, <2>1, TodoGround DEF TodoAt
<1>3. ASSUME u = t, NEW f, Tops(t, f), f.pc # "drain" PROVE TodoAt(x, u, i)
  <2>1. PICK s : Ground(t, s) /\ FrameOK(f) /\ stack'[t] = Append(s, f)
    BY <1>3, TopsShape
  <2>2. f.todo = {} /\ f \in Frames /\ s \in Seq(Frames)
    BY <1>3, <2>1 DEF FrameOK, Ground
  <2>3. /\ Len(Append(s, f)) = Len(s) + 1 /\ Append(s, f)[Len(s) + 1] = f
        /\ \A j \in 1..Len(s) : Append(s, f)[j] = s[j]
    BY <2>2, AppendFrame
  <2>4. i \in 1..Len(Append(s, f)) /\ x \in Append(s, f)[i].todo
    BY <1>3, <2>1 DEF TodoAt
  <2>5. i \in 1..Len(s) /\ x \in s[i].todo
    BY <2>2, <2>3, <2>4
  <2> QED
    BY <1>3, <2>1, <2>5, TodoGround
<1> QED
  BY <1>1, <1>2, <1>3 DEF Undrained

LEMMA GoesUndrained ==
  ASSUME NEW t, NEW pc, pc # "drain", NEW d, NEW k, Goes(t, pc, d, k)
  PROVE  Undrained(t)
BY DEF Goes, Undrained

LEMMA SettlesUndrained ==
  ASSUME NEW t, NEW d, NEW new, Settles(t, d, new)
  PROVE  Undrained(t)
<1>1. Frame("remove", d, hook[d]).pc # "drain"
  BY DEF Frame
<1> QED
  BY <1>1 DEF Settles, Undrained

LEMMA CancelsUndrained ==
  ASSUME NEW t, NEW d, Cancels(t, d)
  PROVE  Undrained(t)
BY SettlesUndrained DEF Cancels, Undrained

LEMMA MostUndrained ==
  ASSUME TypeInv, NEW t \in Threads, Act(t), ~Start(t), ~Drain(t)
  PROVE  Undrained(t) \/ UNCHANGED stack
<1>1. Enqueue(t) \/ Hook(t) \/ ResumeLock(t) => Undrained(t)
  BY EnqueueView, HookView, ResumeLockView, GoesUndrained
<1>2. Handover(t) \/ Rehook(t) \/ Remove(t) => Undrained(t)
  BY HandoverView, RehookView, RemoveView, GoesUndrained DEF Undrained
<1>3. Fill(t) => Undrained(t)
  BY FillView, ListsTops DEF Undrained
<1>4. Filled(t) \/ FinalizeReturns(t) => Undrained(t)
  BY FilledView, FinalizeReturnsView, CarriesTops DEF Undrained
<1>5. Reject(t) \/ DrainRunning(t) \/ DrainQueue(t) => Undrained(t)
  BY RejectView, DrainRunningView, DrainQueueView, CancelsUndrained, GoesUndrained
<1>6. StartReturns(t) => Undrained(t)
  BY StartReturnsView, SettlesUndrained, GoesUndrained DEF Undrained
<1>7. ResumeReturns(t) \/ DrainReturns(t) \/ Raise(t) => Undrained(t)
  BY ResumeReturnsView, DrainReturnsView, RaiseView DEF Undrained
<1>8. ASSUME NEW d \in Deferreds PROVE Finish(t, d) \/ Cancel(t, d) => Undrained(t)
  BY FinishView, CancelActView, CancelsUndrained, SettlesUndrained
<1>9. ASSUME NEW d \in Deferreds, NEW k \in Keys PROVE Add(t, d, k) => Undrained(t)
  BY AddView, GoesUndrained
<1>10. SetFinalizeFunc(t) \/ SetConcurrency(t) => UNCHANGED stack
  BY DEF SetFinalizeFunc, SetConcurrency
<1> QED
  BY <1>1, <1>2, <1>3, <1>4, <1>5, <1>6, <1>7, <1>8, <1>9, <1>10 DEF Act, Step

LEMMA StartTodo ==
  ASSUME TypeInv, NEW t \in Threads, Elsewhere(t), Start(t)
  PROVE  NoNewTodo
<1> SUFFICES ASSUME NEW x, NEW u \in Threads, NEW i \in Nat, TodoAt(x, u, i)'
             PROVE  TodoAt(x, u, i)
  BY DEF NoNewTodo
<1>1. CASE u # t
  BY <1>1 DEF Elsewhere, TodoAt
<1>2. CASE u = t
  <2>1. PICK f : /\ FrameOK(f) /\ f.pc = "start"
                 /\ \/ \E g : /\ FrameOK(g) /\ g.pc = "callback"
                              /\ stack' = [stack EXCEPT ![t] = Append(Append(Below(t), f), g)]
                    \/ stack' = [stack EXCEPT ![t] = Append(Below(t), f)]
    BY StartView
  <2>2. f \in Frames /\ f.todo = {} /\ Busy(t)
    BY <2>1, StartView DEF FrameOK, TopIs
  <2>3. Ground(t, Below(t)) /\ Below(t) \in Seq(Frames)
    BY <2>2, GroundBelow DEF Ground
  <2> DEFINE s == Append(Below(t), f)
  <2>4. /\ s \in Seq(Frames) /\ Len(s) = Len(Below(t)) + 1 /\ s[Len(s)] = f
        /\ \A j \in 1..Len(Below(t)) : s[j] = Below(t)[j]
    BY <2>2, <2>3, AppendFrame
  <2>5. \A j \in 1..Len(s) : x \in s[j].todo => TodoAt(x, t, j)
    <3>1. \A j \in 1..Len(s) : j = Len(s) \/ j \in 1..Len(Below(t))
      BY <2>3, <2>4
    <3> HIDE DEF s
    <3> QED
      BY <2>2, <2>3, <2>4, <3>1, TodoGround
  <2> HIDE DEF s
  <2>6. CASE stack' = [stack EXCEPT ![t] = s]
    BY <1>2, <2>5, <2>6, Stacked DEF TodoAt
  <2>7. ASSUME NEW g, FrameOK(g), g.pc = "callback", stack' = [stack EXCEPT ![t] = Append(s, g)]
        PROVE  TodoAt(x, u, i)
    <3>1. g \in Frames /\ g.todo = {} /\ stack'[t] = Append(s, g)
      BY <2>7, Stacked DEF FrameOK
    <3>2. /\ Len(Append(s, g)) = Len(s) + 1 /\ Append(s, g)[Len(s) + 1] = g
          /\ \A j \in 1..Len(s) : Append(s, g)[j] = s[j]
      BY <2>4, <3>1, AppendFrame
    <3>3. i \in 1..Len(Append(s, g)) /\ x \in Append(s, g)[i].todo
      BY <1>2, <3>1 DEF TodoAt
    <3>4. i \in 1..Len(s) /\ x \in s[i].todo
      BY <2>4, <3>1, <3>2, <3>3
    <3> QED
      BY <1>2, <2>5, <3>4
  <2> QED
    BY <2>1, <2>6, <2>7 DEF s
<1> QED
  BY <1>1, <1>2

\* A drain is about to cancel what has slots now.
LEMMA DrainTodo ==
  ASSUME TypeInv, NEW t \in Threads, Elsewhere(t), Drain(t),
         NEW x, NEW u \in Threads, NEW i \in Nat, TodoAt(x, u, i)'
  PROVE  TodoAt(x, u, i) \/ \E k \in DOMAIN running : x = running[k]
<1>1. CASE u # t
  BY <1>1 DEF Elsewhere, TodoAt
<1>2. CASE u = t
  <2>1. PICK f : Tops(t, f) /\ f.todo = {running[k] : k \in DOMAIN running}
    BY DrainView
  <2>2. PICK s : Ground(t, s) /\ FrameOK(f) /\ stack'[t] = Append(s, f)
    BY <2>1, TopsShape
  <2>3. f \in Frames /\ s \in Seq(Frames)
    BY <2>2 DEF FrameOK, Ground
  <2>4. /\ Len(Append(s, f)) = Len(s) + 1 /\ Append(s, f)[Len(s) + 1] = f
        /\ \A j \in 1..Len(s) : Append(s, f)[j] = s[j]
    BY <2>3, AppendFrame
  <2>5. i \in 1..Len(Append(s, f)) /\ x \in Append(s, f)[i].todo
    BY <1>2, <2>2 DEF TodoAt
  <2>6. CASE i = Len(s) + 1
    BY <2>1, <2>4, <2>5, <2>6
  <2>7. CASE i # Len(s) + 1
    <3>1. i \in 1..Len(s) /\ x \in s[i].todo
      BY <2>3, <2>4, <2>5, <2>7
    <3> QED
      BY <1>2, <2>2, <3>1, TodoGround
  <2> QED
    BY <2>6, <2>7
<1> QED
  BY <1>1, <1>2

LEMMA TodoFlow ==
  ASSUME TypeInv, NEW t \in Threads, Act(t),
         NEW x, NEW u \in Threads, NEW i \in Nat, TodoAt(x, u, i)'
  PROVE  TodoAt(x, u, i) \/ \E k \in DOMAIN running : x = running[k]
<1>e. Elsewhere(t)
  BY ActElsewhere
<1>1. CASE Drain(t)
  BY <1>e, <1>1, DrainTodo
<1>2. CASE ~Drain(t)
  <2>1. NoNewTodo \/ UNCHANGED stack
    BY <1>e, <1>2, StartTodo, MostUndrained, TodoKept
  <2> QED
    BY <2>1 DEF NoNewTodo, TodoAt
<1> QED
  BY <1>1, <1>2

\* Why e is idle no more after a step of t: it was listed, it is refused, it is
\* cancelled by a drain that found it at work, or waiting.
Leaves(t, e) ==
  \/ \E i, j \in Nat : LAt(e, t, i, j)
  \/ TopIs(t, "reject") /\ Top(t).d = e
  \/ TopIs(t, "drain") /\ \E x \in Top(t).todo : x.d = e
  \/ TopIs(t, "drainqueue") /\ \E k \in DOMAIN queue : queue[k] = e /\ queue' = Unbind(queue, k)

\* Only e's state changes, and not back to idle.
Advances(e) ==
  \A c \in Deferreds :
    /\ state[c] # "idle" => state'[c] # "idle"
    /\ state'[c] # state[c] => c = e

LEMMA CancelAdvances ==
  ASSUME TypeInv, NEW t, NEW d \in Deferreds, Cancels(t, d)
  PROVE  Advances(d)
<1>1. state \in [Deferreds -> States]
  BY Now
<1>2. state' = [state EXCEPT ![d] = "cancelled"] \/ state' = [state EXCEPT ![d] = "done"] \/ state' = state
  BY DEF Cancels, Settles, gates
<1> QED
  BY <1>1, <1>2 DEF Advances

\* A client that cancels no gate that waits
LEMMA IdleFlow ==
  ASSUME "cancel" \notin Liberties, TypeInv, PlaceInv, NEW t \in Threads, Act(t), NEW e \in Deferreds
  PROVE  /\ state[e] # "idle" => state'[e] # "idle"
         /\ state[e] = "idle" /\ state'[e] # "idle" => Leaves(t, e)
<1>t. state \in [Deferreds -> States]
  BY Now
<1>1. Enqueue(t) \/ Hook(t) \/ ResumeLock(t) \/ Fill(t) \/ Filled(t) \/ FinalizeReturns(t) => UNCHANGED state
  BY DEF Enqueue, Hook, ResumeLock, Fill, Filled, FinalizeReturns, gates
<1>2. ResumeReturns(t) \/ Handover(t) \/ Rehook(t) \/ Remove(t) \/ DrainReturns(t) \/ Drain(t) => UNCHANGED state
  BY DEF ResumeReturns, Handover, Rehook, Remove, DrainReturns, Drain, gates
<1>3. SetFinalizeFunc(t) \/ SetConcurrency(t) \/ Raise(t) => UNCHANGED state
  BY DEF SetFinalizeFunc, SetConcurrency, Raise, gates
<1>4. \A d \in Deferreds, k \in Keys : Add(t, d, k) => UNCHANGED state
  BY DEF Add, gates
<1>5. ASSUME Start(t)
      PROVE  /\ state[e] # "idle" => state'[e] # "idle"
             /\ state[e] = "idle" /\ state'[e] # "idle" => Leaves(t, e)
  <2>1. LAt(Head(Top(t).list), t, Len(stack[t]), 1) /\ Len(stack[t]) \in Nat
    BY <1>5, StartListed
  <2>2. PICK d \in Deferreds :
          /\ d = Head(Top(t).list)
          /\ \/ state' = [state EXCEPT ![d] = "starting"]
             \/ state' = [state EXCEPT ![d] = "spent"]
    BY <1>5, StartView
  <2>3. state[e] # "idle" => state'[e] # "idle"
    BY <1>t, <2>2
  <2>4. state'[e] # state[e] => e = d
    BY <1>t, <2>2
  <2> QED
    BY <2>1, <2>2, <2>3, <2>4 DEF Leaves
<1>6. ASSUME StartReturns(t)
      PROVE  UNCHANGED state \/ \E d \in Deferreds : state[d] # "idle" /\ Advances(d)
  <2>1. PICK d \in Deferreds, new \in States : Ends(t, d, new) /\ state[d] = "starting"
    BY <1>6, EndsView
  <2>2. state' = [state EXCEPT ![d] = new] /\ new # "idle"
    BY <2>1 DEF Ends
  <2> QED
    BY <1>t, <2>1, <2>2 DEF Advances
<1>7. ASSUME NEW d \in Deferreds, Finish(t, d) PROVE state[d] # "idle" /\ Advances(d)
  <2>1. state[d] # "idle" /\ state' = [state EXCEPT ![d] = "done"]
    BY <1>7, FinishView DEF Settles
  <2> QED
    BY <1>t, <2>1 DEF Advances
<1>8. ASSUME NEW d \in Deferreds, Cancel(t, d) PROVE state[d] # "idle" /\ Advances(d)
  BY <1>8, CancelActView, CancelAdvances
<1>9. ASSUME Reject(t) PROVE TopIs(t, "reject") /\ Top(t).d \in Deferreds /\ Advances(Top(t).d)
  BY <1>9, RejectView, CancelAdvances
<1>10. ASSUME DrainRunning(t)
       PROVE  UNCHANGED state \/ \E x \in Top(t).todo : TopIs(t, "drain") /\ Advances(x.d)
  BY <1>10, DrainRunningView, CancelAdvances DEF gates
<1>11. ASSUME DrainQueue(t)
       PROVE  \E k \in DOMAIN queue :
                TopIs(t, "drainqueue") /\ queue' = Unbind(queue, k) /\ Advances(queue[k])
  BY <1>11, DrainQueueView, CancelAdvances
<1> QED
  BY <1>1, <1>2, <1>3, <1>4, <1>5, <1>6, <1>7, <1>8, <1>9, <1>10, <1>11 DEF Act, Step, Advances, Leaves

\* For each slot and each gate that waits, the pool will be called back.
SlotTokens == \A k \in DOMAIN running : Token(running[k].d)

\* A gate is cancelled before it is fired only by a drain or a refusal, and
\* neither finds it waiting afterwards.
WaitTokens == \A k \in DOMAIN queue : Token(queue[k]) /\ state[queue[k]] = "idle"
EnterIdle == \A t \in Threads : TopIs(t, "enqueue") => state[Top(t).d] = "idle"
TodoInv ==
  \A x : \A t \in Threads : \A i \in Nat :
    TodoAt(x, t, i) => /\ x.d \in Deferreds /\ keyOf[x.d] # Null
                       /\ \A k \in DOMAIN queue : queue[k] # x.d

FreedInv == SlotTokens /\ WaitTokens /\ EnterIdle /\ TodoInv

\* A gate keeps its key, and comes to wait only with it.
LEMMA KeyFlow ==
  ASSUME SlotsInv, NEW t \in Threads, Act(t), NEW e \in Deferreds, keyOf[e] # Null
  PROVE  /\ keyOf'[e] = keyOf[e]
         /\ \A k \in DOMAIN queue' : queue'[k] = e => k \in DOMAIN queue /\ queue[k] = e
<1>i. TypeInv /\ PlaceInv /\ TokInv /\ HookInv /\ StageInv /\ TableInv /\ HeldInv /\ Elsewhere(t)
  BY ActElsewhere DEF SlotsInv, KeyInv
<1>1. CASE Quiet(t)
  <2>1. UNCHANGED <<keyOf, queue>>
    BY <1>i, <1>1, SteadyFlow DEF Quiet
  <2> QED
    BY <2>1
<1>2. ASSUME NEW d \in Deferreds, NEW k \in Keys, Joins(t, d, k)
      PROVE  /\ keyOf'[e] = keyOf[e]
             /\ \A j \in DOMAIN queue' : queue'[j] = e => j \in DOMAIN queue /\ queue[j] = e
  <2>1. keyOf[d] = Null /\ keyOf' = [keyOf EXCEPT ![d] = k] /\ queue' = Bind(queue, k, d)
    BY <1>i, <1>2, JoinsTokens DEF Joins
  <2>2. e # d /\ keyOf'[e] = keyOf[e]
    BY <2>1
  <2>3. \A j \in DOMAIN queue' : (j \in DOMAIN queue /\ queue'[j] = queue[j]) \/ queue'[j] = d
    BY <2>1, Bound
  <2> QED
    BY <2>2, <2>3
<1>3. ASSUME NEW d \in Deferreds, NEW k \in Keys,
             Takes(t, k) \/ Passes(t, d, k) \/ Frees(t, d, k) \/ Drops(t, d, k)
      PROVE  /\ keyOf'[e] = keyOf[e]
             /\ \A j \in DOMAIN queue' : queue'[j] = e => j \in DOMAIN queue /\ queue[j] = e
  <2>1. UNCHANGED keyOf
    BY <1>i, <1>3, ClaimsFlow
  <2>2. queue' = queue \/ queue' = Unbind(queue, k)
    BY <1>3 DEF Takes, Passes, Frees, Drops
  <2>3. \A j \in DOMAIN queue' : j \in DOMAIN queue /\ queue'[j] = queue[j]
    BY <2>2, Unbound
  <2> QED
    BY <2>1, <2>3
<1> QED
  BY <1>i, <1>1, <1>2, <1>3, ActMoves DEF Moves

LEMMA TodoStep ==
  ASSUME SlotsInv, TodoInv, NEW t \in Threads, Act(t)
  PROVE  TodoInv'
<1>i. TypeInv /\ PlaceInv /\ TableInv
  BY DEF SlotsInv, KeyInv
<1> SUFFICES ASSUME NEW x, NEW u \in Threads, NEW i \in Nat, TodoAt(x, u, i)'
             PROVE  /\ x.d \in Deferreds /\ keyOf'[x.d] # Null
                    /\ \A k \in DOMAIN queue' : queue'[k] # x.d
  BY DEF TodoInv
<1>1. /\ x.d \in Deferreds /\ keyOf[x.d] # Null
      /\ \A k \in DOMAIN queue : queue[k] # x.d
  <2>1. CASE TodoAt(x, u, i)
    BY <2>1 DEF TodoInv
  <2>2. ASSUME NEW k \in DOMAIN running, x = running[k]
        PROVE  /\ x.d \in Deferreds /\ keyOf[x.d] # Null
               /\ \A j \in DOMAIN queue : queue[j] # x.d
    <3>1. x.d \in Deferreds /\ k \in Keys /\ keyOf[x.d] = k /\ k \notin DOMAIN queue
      BY <1>i, <2>2, Tables DEF TableInv
    <3>2. \A j \in DOMAIN queue : keyOf[queue[j]] = j
      BY <1>i DEF PlaceInv, QueueInv
    <3> QED
      BY <3>1, <3>2, PoolAssumption
  <2> QED
    BY <1>i, <2>1, <2>2, TodoFlow
<1> QED
  BY <1>1, KeyFlow

\* A gate that has just entered, or waits, is not cancelled.
LEMMA FreshStays ==
  ASSUME "cancel" \notin Liberties, SlotsInv, TodoInv, NEW t \in Threads, Act(t), NEW e \in Deferreds,
         state[e] = "idle", keyOf[e] = Null, ~(TopIs(t, "reject") /\ Top(t).d = e)
  PROVE  state'[e] = "idle"
<1>i. TypeInv /\ PlaceInv
  BY DEF SlotsInv
<1>1. ~\E i, j \in Nat : LAt(e, t, i, j)
  BY <1>i DEF PlaceInv, ListInv
<1>2. ~\E k \in DOMAIN queue : queue[k] = e
  <2>1. \A k \in DOMAIN queue : k \in Keys /\ keyOf[queue[k]] = k
    BY <1>i, Tables DEF PlaceInv, QueueInv
  <2> QED
    BY <2>1, PoolAssumption
<1>3. ASSUME TopIs(t, "drain"), NEW x \in Top(t).todo, x.d = e PROVE FALSE
  <2>1. TodoAt(x, t, Len(stack[t])) /\ Len(stack[t]) \in Nat
    BY <1>i, <1>3, TopOK, Stacked DEF TodoAt, TopIs, Top
  <2> QED
    BY <1>3, <2>1 DEF TodoInv
<1>4. ~Leaves(t, e)
  BY <1>1, <1>2, <1>3 DEF Leaves
<1> QED
  BY <1>i, <1>4, IdleFlow

LEMMA WaiterStays ==
  ASSUME "cancel" \notin Liberties, SlotsInv, TodoInv, NEW t \in Threads, Act(t), NEW k \in DOMAIN queue,
         state[queue[k]] = "idle", k \in DOMAIN queue'
  PROVE  state'[queue[k]] = "idle"
<1>i. TypeInv /\ PlaceInv
  BY DEF SlotsInv
<1> DEFINE e == queue[k]
<1>e. e \in Deferreds /\ k \in Keys /\ k # Null
  BY <1>i, Tables, PoolAssumption
<1>k. \A j \in DOMAIN queue : keyOf[queue[j]] = j
  BY <1>i DEF PlaceInv, QueueInv
<1>1. ~\E i, j \in Nat : LAt(e, t, i, j)
  BY <1>i, <1>e DEF PlaceInv, ListInv
<1>2. ~(TopIs(t, "reject") /\ Top(t).d = e)
  <2>1. keyOf[e] = k
    BY <1>k
  <2> QED
    BY <1>i, <1>e, <2>1 DEF PlaceInv, EnterInv, Entering
<1>3. ASSUME TopIs(t, "drain"), NEW x \in Top(t).todo, x.d = e PROVE FALSE
  <2>1. TodoAt(x, t, Len(stack[t])) /\ Len(stack[t]) \in Nat
    BY <1>i, <1>3, TopOK, Stacked DEF TodoAt, TopIs, Top
  <2> QED
    BY <1>3, <2>1 DEF TodoInv
<1>4. ASSUME NEW j \in DOMAIN queue, queue[j] = e, queue' = Unbind(queue, j) PROVE FALSE
  <2>1. j = k
    BY <1>k, <1>4
  <2> QED
    BY <1>4, <2>1, Unbound
<1>5. ~Leaves(t, e)
  BY <1>1, <1>2, <1>3, <1>4 DEF Leaves
<1> QED
  BY <1>i, <1>e, <1>5, IdleFlow

LEMMA EnterStep ==
  ASSUME "cancel" \notin Liberties, SlotsInv, EnterIdle, TodoInv, NEW t \in Threads, Act(t)
  PROVE  EnterIdle'
<1>i. TypeInv /\ PlaceInv /\ Elsewhere(t)
  BY ActElsewhere DEF SlotsInv
<1> SUFFICES ASSUME NEW u \in Threads, TopIs(u, "enqueue")' PROVE state'[Top(u)'.d] = "idle"
  BY DEF EnterIdle
<1>1. CASE u = t
  <2>1. PICK d \in Deferreds, k \in Keys : Add(t, d, k)
    BY <1>i, <1>1, EntersByAdd
  <2>2. Top(t)'.d = d
    BY <1>i, <2>1, AddView, GoesQuiet
  <2>3. state[d] = "idle" /\ UNCHANGED state
    BY <2>1 DEF Add, gates
  <2> QED
    BY <1>1, <2>2, <2>3
<1>2. CASE u # t
  <2>1. TopIs(u, "enqueue") /\ Top(u)' = Top(u)
    BY <1>i, <1>2 DEF Elsewhere, TopIs, Busy, Top
  <2> DEFINE d == Top(u).d
  <2>2. d \in Deferreds /\ Entering(u, d)
    BY <1>i, <2>1, TopKeys DEF KeyPCs, Entering
  <2>3. keyOf[d] = Null /\ ~Entering(t, d)
    BY <1>i, <1>2, <2>2 DEF PlaceInv, EnterInv
  <2>4. ~(TopIs(t, "reject") /\ Top(t).d = d)
    BY <2>3 DEF Entering
  <2>5. state[d] = "idle"
    BY <2>1 DEF EnterIdle
  <2> HIDE DEF d
  <2>6. state'[d] = "idle"
    BY <2>2, <2>3, <2>4, <2>5, FreshStays
  <2> QED
    BY <2>1, <2>6 DEF d
<1> QED
  BY <1>1, <1>2

\* A step that frees a slot has a gate that is not idle.
LEMMA FreesOther ==
  ASSUME SlotsInv, NEW t \in Threads, NEW d \in Deferreds, NEW k \in Keys, Frees(t, d, k)
  PROVE  state[d] # "idle"
<1>1. Tok(t, d) /\ Top(t).pc = "remove"
  BY DEF Frees, TokGone, Has
<1> QED
  BY <1>1 DEF SlotsInv, StageInv, PassState, Fits

LEMMA WaitStep ==
  ASSUME "cancel" \notin Liberties, SlotsInv, FreedInv, NEW t \in Threads, Act(t)
  PROVE  WaitTokens'
<1>i. TypeInv /\ PlaceInv /\ TokInv /\ HookInv /\ StageInv /\ Elsewhere(t)
      /\ WaitTokens /\ EnterIdle /\ TodoInv
  BY ActElsewhere DEF SlotsInv, FreedInv
<1>q. \A k \in DOMAIN queue : queue[k] \in Deferreds /\ state[queue[k]] = "idle" /\ Token(queue[k])
  BY <1>i, Tables DEF WaitTokens
\* What waited
<1>1. ASSUME \A e \in Deferreds : Token(e) /\ state[e] = "idle" => Token(e)',
             NEW k \in DOMAIN queue, k \in DOMAIN queue', NEW c, c = queue[k]
      PROVE  Token(c)' /\ state'[c] = "idle"
  <2>1. state'[c] = "idle"
    BY <1>i, <1>q, <1>1, WaiterStays
  <2>2. Token(c)'
    BY <1>q, <1>1
  <2> QED
    BY <2>1, <2>2
<1>w. ASSUME \A k \in DOMAIN queue' : \A c : c = queue'[k] => Token(c)' /\ state'[c] = "idle"
      PROVE  WaitTokens'
  BY <1>w DEF WaitTokens
<1>s. Steady(t) => \A e \in Deferreds : Token(e) /\ state[e] = "idle" => Token(e)'
  BY <1>i, SteadyFlow
<1>2. CASE Quiet(t)
  <2>1. queue' = queue /\ Steady(t)
    BY <1>2 DEF Quiet
  <2> QED
    BY <1>1, <1>s, <1>w, <2>1
<1>3. ASSUME NEW d \in Deferreds, NEW k \in Keys, Joins(t, d, k) PROVE WaitTokens'
  <2>1. /\ keyOf[d] = Null /\ Token(d)' /\ queue' = Bind(queue, k, d)
        /\ \A e \in Deferreds : Token(e) => Token(e)'
        /\ TopIs(t, "enqueue") /\ Top(t).d = d /\ k \notin DOMAIN queue
    BY <1>i, <1>3, JoinsTokens DEF Joins
  <2>2. state[d] = "idle"
    BY <1>i, <2>1 DEF EnterIdle
  <2>3. state'[d] = "idle"
    BY <1>i, <2>1, <2>2, FreshStays DEF TopIs
  <2>4. /\ \A j : j \in DOMAIN queue' <=> j \in DOMAIN queue \/ j = k
        /\ queue'[k] = d
        /\ \A j : j \in DOMAIN queue /\ j # k => queue'[j] = queue[j]
    BY <2>1, Bound
  <2> SUFFICES ASSUME NEW j \in DOMAIN queue', NEW c, c = queue'[j] PROVE Token(c)' /\ state'[c] = "idle"
    BY <1>w
  <2>5. CASE j = k
    BY <2>1, <2>3, <2>4, <2>5
  <2>6. CASE j # k
    BY <1>1, <2>1, <2>4, <2>6
  <2> QED
    BY <2>5, <2>6
<1>4. ASSUME NEW d \in Deferreds, NEW k \in Keys,
             Takes(t, k) \/ Passes(t, d, k) \/ Frees(t, d, k) \/ Drops(t, d, k)
      PROVE  WaitTokens'
  <2>1. \A e \in Deferreds : Token(e) /\ state[e] = "idle" => Token(e)'
    <3>1. CASE Frees(t, d, k)
      <4>1. state[d] # "idle"
        BY <3>1, FreesOther
      <4>2. \A e \in Deferreds : Token(e) /\ e # d => Token(e)'
        BY <1>i, <3>1, FreesTokens
      <4> QED
        BY <4>1, <4>2
    <3>2. CASE ~Frees(t, d, k)
      BY <1>4, <1>s, <3>2, SteadyMoves
    <3> QED
      BY <3>1, <3>2
  <2>2. queue' = queue \/ queue' = Unbind(queue, k)
    BY <1>4 DEF Takes, Passes, Frees, Drops
  <2>3. \A j \in DOMAIN queue' : j \in DOMAIN queue /\ queue'[j] = queue[j]
    BY <2>2, Unbound
  <2> QED
    BY <1>1, <1>w, <2>1, <2>3
<1> QED
  BY <1>i, <1>2, <1>3, <1>4, ActMoves DEF Moves

LEMMA SlotStep ==
  ASSUME SlotsInv, SlotTokens, WaitTokens, NEW t \in Threads, Act(t)
  PROVE  SlotTokens'
<1>i. TypeInv /\ PlaceInv /\ TokInv /\ HookInv /\ StageInv /\ TableInv /\ Elsewhere(t)
  BY ActElsewhere DEF SlotsInv, KeyInv
<1>r. \A k \in DOMAIN running : running[k].d \in Deferreds /\ Token(running[k].d) /\ keyOf[running[k].d] = k
  BY <1>i, Tables DEF SlotTokens, TableInv
<1>s. Steady(t) => \A e \in Deferreds : Token(e) => Token(e)'
  BY <1>i, SteadyFlow
<1>w. ASSUME \A k \in DOMAIN running' : \A c : c = running'[k].d => Token(c)' PROVE SlotTokens'
  BY <1>w DEF SlotTokens
<1>1. ASSUME running' = running, \A e \in Deferreds : Token(e) => Token(e)' PROVE SlotTokens'
  BY <1>r, <1>w, <1>1
<1>2. CASE Quiet(t)
  BY <1>1, <1>2, <1>s DEF Quiet
<1>3. ASSUME NEW d \in Deferreds, NEW k \in Keys, Joins(t, d, k) PROVE SlotTokens'
  <2>1. running' = running
    BY <1>3 DEF Joins
  <2> QED
    BY <1>i, <1>1, <1>3, <2>1, JoinsTokens
<1>4. ASSUME NEW d \in Deferreds, NEW k \in Keys, Drops(t, d, k) PROVE SlotTokens'
  BY <1>1, <1>4, <1>s DEF Drops
<1>5. ASSUME NEW c \in Deferreds, NEW k \in Keys, NEW x, x.d = c, Token(c), Steady(t), running' = Bind(running, k, x)
      PROVE  SlotTokens'
  <2>1. /\ \A j : j \in DOMAIN running' <=> j \in DOMAIN running \/ j = k
        /\ running'[k] = x
        /\ \A j : j \in DOMAIN running /\ j # k => running'[j] = running[j]
    BY <1>5, Bound
  <2> SUFFICES ASSUME NEW j \in DOMAIN running', NEW e, e = running'[j].d PROVE Token(e)'
    BY <1>w
  <2>2. CASE j = k
    BY <1>5, <1>s, <2>1, <2>2
  <2>3. CASE j # k
    BY <1>r, <1>s, <1>5, <2>1, <2>3
  <2> QED
    BY <2>2, <2>3
<1>6. ASSUME NEW k \in Keys, Takes(t, k) PROVE SlotTokens'
  <2>1. k \in DOMAIN queue /\ running' = Bind(running, k, [d |-> queue[k], part |-> "gate"]) /\ Steady(t)
    BY <1>6 DEF Takes, Steady
  <2>2. queue[k] \in Deferreds /\ Token(queue[k])
    BY <1>i, <2>1, Tables DEF WaitTokens
  <2> QED
    BY <1>5, <2>1, <2>2
<1>7. ASSUME NEW d \in Deferreds, NEW k \in Keys, Passes(t, d, k) PROVE SlotTokens'
  <2>1. running' = Bind(running, k, [d |-> d, part |-> "work"]) /\ Tok(t, d) /\ Steady(t)
    BY <1>7 DEF Passes, TokOn, Has, Steady
  <2>2. Token(d)
    BY <2>1 DEF Token
  <2> QED
    BY <1>5, <2>1, <2>2
<1>8. ASSUME NEW d \in Deferreds, NEW k \in Keys, Frees(t, d, k) PROVE SlotTokens'
  <2>1. keyOf[d] = k /\ \A e \in Deferreds : Token(e) /\ e # d => Token(e)'
    BY <1>i, <1>8, FreesTokens
  <2>2. /\ \A j : j \in DOMAIN running' <=> j \in DOMAIN running /\ j # k
        /\ \A j \in DOMAIN running' : running'[j] = running[j]
    BY <1>8, FreesHolds
  <2> SUFFICES ASSUME NEW j \in DOMAIN running', NEW e, e = running'[j].d PROVE Token(e)'
    BY <1>w
  <2>3. running[j].d # d
    BY <1>r, <2>1, <2>2
  <2> QED
    BY <1>r, <2>1, <2>2, <2>3
<1> QED
  BY <1>i, <1>2, <1>3, <1>4, <1>6, <1>7, <1>8, ActMoves DEF Moves

LEMMA FreedInit == Init => FreedInv
<1> SUFFICES ASSUME Init PROVE FreedInv
  OBVIOUS
<1>1. DOMAIN queue = {} /\ DOMAIN running = {} /\ \A t \in Threads : stack[t] = <<>>
  BY DEF Init
<1> QED
  BY <1>1 DEF FreedInv, SlotTokens, WaitTokens, EnterIdle, TodoInv, TodoAt, TopIs, Busy

LEMMA FreedStutter ==
  ASSUME FreedInv, UNCHANGED vars
  PROVE  FreedInv'
<1>1. UNCHANGED <<queue, running, state, hook, stack, keyOf>>
  BY DEF vars, pool, gates, history
<1>2. /\ \A d : Token(d)' <=> Token(d)
      /\ \A t : Top(t)' = Top(t) /\ (TopIs(t, "enqueue")' <=> TopIs(t, "enqueue"))
      /\ \A x, t, i : TodoAt(x, t, i)' <=> TodoAt(x, t, i)
  BY <1>1 DEF Token, Tok, TopIs, Top, Busy, TodoAt
<1>3. SlotTokens' /\ WaitTokens'
  BY <1>1, <1>2 DEF FreedInv, SlotTokens, WaitTokens
<1>4. EnterIdle' /\ TodoInv'
  BY <1>1, <1>2 DEF FreedInv, EnterIdle, TodoInv
<1> QED
  BY <1>3, <1>4 DEF FreedInv

LEMMA FreedShows == SlotsInv /\ FreedInv => SlotIsFreed
<1> SUFFICES ASSUME SlotsInv, FreedInv, NEW k \in DOMAIN running
             PROVE  \/ hook[running[k].d] = k
                    \/ \E f \in AllFrames :
                         f.pc \in {"hook", "handover", "rehook", "remove"} /\ f.k = k /\ f.d = running[k].d
  BY DEF SlotIsFreed
<1> DEFINE d == running[k].d
<1>1. TypeInv /\ TokInv /\ HookInv /\ d \in Deferreds /\ keyOf[d] = k /\ Token(d)
  BY Tables DEF SlotsInv, KeyInv, TableInv, FreedInv, SlotTokens
<1>2. CASE hook[d] # Null
  BY <1>1, <1>2 DEF HookInv
<1>3. ASSUME NEW t \in Threads, Tok(t, d)
      PROVE  \E f \in AllFrames : f.pc \in {"hook", "handover", "rehook", "remove"} /\ f.k = k /\ f.d = d
  <2>1. Busy(t) /\ Top(t).pc \in TokenPCs /\ Top(t).d = d /\ Top(t).k = k
    BY <1>1, <1>3 DEF TokInv, Tok
  <2>2. Top(t) \in AllFrames
    BY <1>1, <2>1, TopInFrames
  <2> QED
    BY <2>1, <2>2 DEF TokenPCs
<1> QED
  BY <1>1, <1>2, <1>3 DEF Token

\* As long as no gate that waits is cancelled by the client, no slot is lost:
\* whatever work is cancelled, drained or raises, for each slot the pool still
\* waits to be called back, or is about to free or rehook it (_resumeWaiting,
\* _cbRemoveDeferred, drain).
THEOREM SlotsAreFreed ==
  ASSUME Orderly, "cancel" \notin Liberties
  PROVE  Spec => []SlotIsFreed
<1>1. SlotsInv /\ FreedInv /\ [Next]_vars => FreedInv'
  <2> SUFFICES ASSUME SlotsInv, FreedInv, [Next]_vars PROVE FreedInv'
    OBVIOUS
  <2>1. CASE UNCHANGED vars
    BY <2>1, FreedStutter
  <2>2. CASE Next
    <3>1. PICK t \in Threads : Act(t)
      BY <2>2 DEF Next, Act
    <3>2. SlotTokens /\ WaitTokens /\ EnterIdle /\ TodoInv
      BY DEF FreedInv
    <3>3. SlotTokens' /\ WaitTokens'
      BY <3>1, <3>2, SlotStep, WaitStep
    <3>4. EnterIdle' /\ TodoInv'
      BY <3>1, <3>2, EnterStep, TodoStep
    <3> QED
      BY <3>3, <3>4 DEF FreedInv
  <2> QED
    BY <2>1, <2>2
<1> QED
  BY <1>1, FreedInit, FreedShows, SlotsKept, PTL DEF Spec

-----------------------------------------------------------------------------
(* One thread: what is at work has its slot *)

HoldsSlot(d) == keyOf[d] \in DOMAIN running /\ running[keyOf[d]].d = d
Listed(d) == \E t \in Threads : \E i, j \in Nat : LAt(d, t, i, j)

\* d is at work, or about to be.
Needs(d) == state[d] \in Active \/ (state[d] = "idle" /\ Listed(d))
NeedInv == \A d \in Deferreds : Needs(d) => HoldsSlot(d)

\* The pool adds its callback to a gate before it is fired, and frees the slot
\* of one that is not at work any more.
Late(pc, st) == (pc = "hook" => st = "idle") /\ (pc = "remove" => st \notin Active \cup {"idle"})
LateInv == \A d \in Deferreds, t \in Threads : Tok(t, d) => Late(Top(t).pc, state[d])

SoloInv == EnterIdle /\ LateInv /\ NeedInv

\* Only the callback for a gate frees its slot.
LEMMA SlotKept ==
  ASSUME SlotsInv, NEW t \in Threads, Act(t), NEW e \in Deferreds, HoldsSlot(e)
  PROVE  HoldsSlot(e)' \/ \E k \in Keys : Frees(t, e, k)
<1>i. TypeInv /\ PlaceInv /\ TokInv /\ HookInv /\ StageInv /\ TableInv /\ HeldInv /\ ClaimInv /\ Elsewhere(t)
  BY ActElsewhere DEF SlotsInv, KeyInv
<1>1. PICK k \in Keys : k = keyOf[e] /\ k \in DOMAIN running /\ running[k].d = e /\ k # Null
  BY <1>i, Tables, PoolAssumption DEF HoldsSlot
<1>2. keyOf'[e] = k
  BY <1>1, KeyFlow
<1>3. k \in DOMAIN running' /\ running'[k].d = e => HoldsSlot(e)'
  BY <1>2 DEF HoldsSlot
<1>4. Claims(e, k) /\ k \notin DOMAIN queue
  BY <1>i, <1>1 DEF Claims, Holds, TableInv
<1>5. Quiet(t) => running' = running
  BY DEF Quiet
<1>6. ASSUME NEW d \in Deferreds, NEW j \in Keys PROVE Joins(t, d, j) \/ Drops(t, d, j) => running' = running
  BY DEF Joins, Drops
<1>7. ASSUME NEW j \in Keys, Takes(t, j) PROVE k \in DOMAIN running' /\ running'[k].d = e
  <2>1. running' = Bind(running, j, [d |-> queue[j], part |-> "gate"]) /\ j # k
    BY <1>4, <1>7 DEF Takes
  <2> QED
    BY <1>1, <2>1, Bound
<1>8. ASSUME NEW d \in Deferreds, NEW j \in Keys, Passes(t, d, j) PROVE k \in DOMAIN running' /\ running'[k].d = e
  <2>1. running' = Bind(running, j, [d |-> d, part |-> "work"]) /\ running[j].d = d
    BY <1>i, <1>8, PassedOwn DEF Passes
  <2>2. CASE j = k
    BY <1>1, <2>1, <2>2, Bound
  <2>3. CASE j # k
    BY <1>1, <2>1, <2>3, Bound
  <2> QED
    BY <2>2, <2>3
<1>9. ASSUME NEW d \in Deferreds, NEW j \in Keys, Frees(t, d, j)
      PROVE  (k \in DOMAIN running' /\ running'[k].d = e) \/ Frees(t, e, k)
  <2>1. CASE j = k
    <3>1. Claims(d, k)
      BY <1>i, <1>9, <2>1, FreesTokens DEF Claims
    <3>2. d = e
      BY <1>i, <1>4, <3>1 DEF ClaimInv
    <3> QED
      BY <1>9, <2>1, <3>2
  <2>2. CASE j # k
    BY <1>1, <1>9, <2>2, FreesHolds
  <2> QED
    BY <2>1, <2>2
<1> QED
  BY <1>i, <1>1, <1>3, <1>5, <1>6, <1>7, <1>8, <1>9, ActMoves DEF Moves

\* What comes to need a slot has been given it.
LEMMA NeedsFlow ==
  ASSUME SlotsInv, NEW t \in Threads, Act(t), NEW e \in Deferreds, Needs(e)'
  PROVE  Needs(e) \/ HoldsSlot(e)'
<1>i. TypeInv /\ PlaceInv /\ Elsewhere(t)
  BY ActElsewhere DEF SlotsInv
<1>t. state \in [Deferreds -> States]
  BY <1>i, Now
<1>n. state'[e] \in Active \/ (state'[e] = "idle" /\ Listed(e)')
  BY DEF Needs
<1>l. NoNewListed => (Listed(e)' => Listed(e))
  BY DEF NoNewListed, Listed
<1>1. ASSUME Calm PROVE Needs(e)
  <2>1. state'[e] = state[e]
    BY <1>n, <1>1 DEF Calm, NoNewStart, Active
  <2> QED
    BY <1>n, <1>l, <1>1, <2>1 DEF Calm, Needs
<1>2. ASSUME NoNewListed, UNCHANGED state PROVE Needs(e)
  BY <1>n, <1>l, <1>2 DEF Needs
<1>3. ASSUME NEW d \in Deferreds, NEW k \in Keys, Add(t, d, k) PROVE Needs(e)
  <2>1. NoNewListed
    BY <1>i, <1>3, AddView, GoesQuiet
  <2>2. UNCHANGED state
    BY <1>3 DEF Add, gates
  <2> QED
    BY <1>2, <2>1, <2>2
<1>4. ASSUME Enqueue(t) PROVE Needs(e)
  <2>1. NoNewListed
    BY <1>i, <1>4, EnqueueView, GoesQuiet
  <2>2. UNCHANGED state
    BY <1>4 DEF Enqueue, gates
  <2> QED
    BY <1>2, <2>1, <2>2
<1>5. ASSUME Fill(t) PROVE Needs(e) \/ HoldsSlot(e)'
  <2>1. PICK k \in DOMAIN queue : Lists(t, k) /\ running' = Bind(running, k, [d |-> queue[k], part |-> "gate"])
    BY <1>i, <1>5, FillView
  <2>2. UNCHANGED <<state, keyOf>>
    BY <1>5 DEF Fill, gates, history
  <2>3. Listed(e)' => Listed(e) \/ e = queue[k]
    BY <1>i, <2>1, FillLists DEF Listed
  <2>4. ASSUME e = queue[k] PROVE HoldsSlot(e)'
    <3>1. keyOf'[e] = k
      BY <1>i, <2>2, <2>4 DEF PlaceInv, QueueInv
    <3>2. k \in DOMAIN running' /\ running'[k].d = e
      BY <2>1, <2>4, Bound
    <3> QED
      BY <3>1, <3>2 DEF HoldsSlot
  <2> QED
    BY <1>n, <2>2, <2>3, <2>4 DEF Needs
<1>6. ASSUME Start(t) PROVE Needs(e)
  <2>1. Listed(e)' => Listed(e)
    BY <1>i, <1>6, StartLists DEF Listed
  <2>2. Listed(Head(Top(t).list))
    BY <1>i, <1>6, StartListed DEF Listed
  <2>3. PICK d \in Deferreds :
          /\ d = Head(Top(t).list)
          /\ \/ state[d] = "idle" /\ state' = [state EXCEPT ![d] = "starting"]
             \/ state[d] = "cancelled" /\ state' = [state EXCEPT ![d] = "spent"]
    BY <1>i, <1>6, StartView
  <2>4. CASE e = d
    BY <1>t, <1>n, <2>2, <2>3, <2>4 DEF Needs, Active
  <2>5. CASE e # d
    BY <1>t, <1>n, <2>1, <2>3, <2>5 DEF Needs
  <2> QED
    BY <2>4, <2>5
<1>7. ASSUME StartReturns(t) PROVE Needs(e)
  <2>1. NoNewListed
    BY <1>i, <1>7, StartReturnsView, SettlesPlain, PlainCalm, GoesQuiet DEF Plain
  <2>2. PICK d \in Deferreds, new \in States : Ends(t, d, new) /\ state[d] = "starting"
    BY <1>i, <1>7, EndsView
  <2>3. state' = [state EXCEPT ![d] = new]
    BY <2>2 DEF Ends
  <2> QED
    BY <1>t, <1>n, <1>l, <2>1, <2>2, <2>3 DEF Needs, Active
<1> QED
  BY <1>i, <1>1, <1>3, <1>4, <1>5, <1>6, <1>7, CalmActs DEF Act, Step

LEMMA NeedStep ==
  ASSUME SlotsInv, LateInv, NeedInv, NEW t \in Threads, Act(t)
  PROVE  NeedInv'
<1> SUFFICES ASSUME NEW e \in Deferreds, Needs(e)' PROVE HoldsSlot(e)'
  BY DEF NeedInv
<1>1. CASE Needs(e)
  <2>1. HoldsSlot(e)
    BY <1>1 DEF NeedInv
  <2>2. ASSUME NEW k \in Keys, Frees(t, e, k) PROVE FALSE
    <3>1. Tok(t, e) /\ Top(t).pc = "remove"
      BY <2>2 DEF Frees, TokGone, Has
    <3> QED
      BY <1>1, <3>1 DEF LateInv, Late, Needs
  <2> QED
    BY <2>1, <2>2, SlotKept
<1>2. CASE ~Needs(e)
  BY <1>2, NeedsFlow
<1> QED
  BY <1>1, <1>2

\* With one thread, a gate that enters waits, and is hooked, before anything
\* can happen to it.
LEMMA LateEnds ==
  ASSUME TypeInv, NEW t \in Threads, Threads = {t}, NEW d \in Deferreds, NEW new \in States, Ends(t, d, new)
  PROVE  LateInv'
<1> SUFFICES ASSUME NEW e \in Deferreds, Tok(t, e)' PROVE Late(Top(t)'.pc, state'[e])
  BY DEF LateInv
<1>1. e = d
  BY HasNextIs DEF Ends, TokSettled, TokNone, NoTok, TokTaken
<1>2. state' = [state EXCEPT ![d] = new]
  BY DEF Ends
<1>3. state'[d] = new
  BY <1>2, Now
<1>4. Late(Top(t)'.pc, new)
  BY DEF Ends, Late, Active
<1> QED
  BY <1>1, <1>3, <1>4

LEMMA LateStep ==
  ASSUME SlotsInv, EnterIdle, LateInv, NEW t \in Threads, Threads = {t}, Act(t)
  PROVE  LateInv'
<1>i. TypeInv /\ PlaceInv
  BY DEF SlotsInv
<1>n. NoTok(t)' => LateInv'
  BY DEF NoTok, LateInv
<1>g. ASSUME NEW d \in Deferreds, NEW k \in Keys, Has(t, d, k)', Late(Top(t)'.pc, state'[d]) PROVE LateInv'
  <2> SUFFICES ASSUME NEW e \in Deferreds, Tok(t, e)' PROVE Late(Top(t)'.pc, state'[e])
    BY DEF LateInv
  <2>1. e = d
    BY <1>g, HasNextIs
  <2> QED
    BY <1>g, <2>1
<1>1. ASSUME \/ \E d \in Deferreds, k \in Keys : Add(t, d, k)
             \/ Drain(t) \/ SetFinalizeFunc(t) \/ SetConcurrency(t) \/ Raise(t)
             \/ ResumeLock(t) \/ Fill(t) \/ Filled(t) \/ FinalizeReturns(t)
             \/ Start(t) \/ ResumeReturns(t) \/ DrainReturns(t)
      PROVE  LateInv'
  BY <1>i, <1>n, <1>1, TokAdding DEF TokNone
<1>2. ASSUME Enqueue(t) PROVE LateInv'
  <2>1. PICK d \in Deferreds, k \in Keys : d = Top(t).d /\ (TokNone(t) \/ TokNew(t, d, k))
    BY <1>i, <1>2, TokEnqueue
  <2>2. Top(t)'.pc \in {"reject", "hook"} /\ TopIs(t, "enqueue") /\ UNCHANGED state
    BY <1>i, <1>2, EnqueueView, TopsShape DEF Goes, gates
  <2>3. Late(Top(t)'.pc, state'[d])
    BY <2>1, <2>2 DEF EnterIdle, Late
  <2> QED
    BY <1>n, <1>g, <2>1, <2>3 DEF TokNone, TokNew
<1>3. ASSUME Hook(t) PROVE LateInv'
  <2>1. PICK d \in Deferreds, k \in Keys :
          (state[d] \in {"idle", "started"} /\ TokHooked(t, d, k)) \/ (state[d] \notin {"idle", "started"} /\ TokOn(t, d, k))
    BY <1>i, <1>3, TokWorking
  <2>2. Tok(t, d) /\ Top(t).pc = "hook"
    BY <1>3, <2>1 DEF Hook, TopIs, TokHooked, TokOn, Has
  <2>3. state[d] = "idle"
    BY <2>2 DEF LateInv, Late
  <2> QED
    BY <1>n, <2>1, <2>3 DEF TokHooked
<1>4. ASSUME Handover(t) PROVE LateInv'
  <2>1. PICK d \in Deferreds, k \in Keys : TokOn(t, d, k) /\ Top(t)'.pc = "rehook"
    BY <1>i, <1>4, TokWorking
  <2> QED
    BY <1>g, <2>1 DEF TokOn, Late
<1>5. ASSUME Rehook(t) PROVE LateInv'
  <2>1. PICK d \in Deferreds, k \in Keys :
          TokHooked(t, d, k) \/ (state[d] = "done" /\ TokOn(t, d, k) /\ Top(t)'.pc = "remove")
    BY <1>i, <1>5, TokWorking
  <2>2. UNCHANGED state
    BY <1>5 DEF Rehook
  <2> QED
    BY <1>n, <1>g, <2>1, <2>2 DEF TokHooked, TokOn, Late, Active
<1>6. ASSUME Remove(t) PROVE LateInv'
  BY <1>i, <1>n, <1>6, TokWorking DEF TokGone
<1>7. ASSUME StartReturns(t) PROVE LateInv'
  BY <1>i, <1>7, EndsView, LateEnds
<1>8. ASSUME NEW d \in Deferreds, Finish(t, d) PROVE LateInv'
  BY <1>i, <1>8, EndsView, LateEnds DEF States
<1>9. ASSUME (\E d \in Deferreds : Cancel(t, d)) \/ Reject(t) \/ DrainRunning(t) \/ DrainQueue(t) PROVE LateInv'
  BY <1>i, <1>n, <1>9, EndsView, LateEnds DEF TokNone
<1> QED
  BY <1>1, <1>2, <1>3, <1>4, <1>5, <1>6, <1>7, <1>8, <1>9 DEF Act, Step

LEMMA SoloEnter ==
  ASSUME TypeInv, PlaceInv, NEW t \in Threads, Threads = {t}, Act(t)
  PROVE  EnterIdle'
<1>e. Elsewhere(t)
  BY ActElsewhere
<1> SUFFICES ASSUME TopIs(t, "enqueue")' PROVE state'[Top(t)'.d] = "idle"
  BY DEF EnterIdle
<1>1. PICK d \in Deferreds, k \in Keys : Add(t, d, k)
  BY EntersByAdd
<1>2. Top(t)'.d = d
  BY <1>e, <1>1, AddView, GoesQuiet
<1>3. state[d] = "idle" /\ UNCHANGED state
  BY <1>1 DEF Add, gates
<1> QED
  BY <1>2, <1>3

LEMMA SoloInit == Init => SoloInv
<1> SUFFICES ASSUME Init PROVE SoloInv
  OBVIOUS
<1>1. (\A t \in Threads : stack[t] = <<>>) /\ \A d \in Deferreds : state[d] = "idle"
  BY DEF Init
<1>2. \A d \in Deferreds : ~Needs(d)
  BY <1>1 DEF Needs, Listed, LAt, Active
<1> QED
  BY <1>1, <1>2 DEF SoloInv, EnterIdle, LateInv, NeedInv, Tok, TopIs, Busy

LEMMA SoloStutter ==
  ASSUME SoloInv, UNCHANGED vars
  PROVE  SoloInv'
<1>1. UNCHANGED <<running, state, stack, keyOf>>
  BY DEF vars, pool, gates, history
<1>2. /\ \A t : Top(t)' = Top(t) /\ (TopIs(t, "enqueue")' <=> TopIs(t, "enqueue"))
      /\ \A t, d : Tok(t, d)' <=> Tok(t, d)
      /\ \A d : (Needs(d)' <=> Needs(d)) /\ (HoldsSlot(d)' <=> HoldsSlot(d))
  BY <1>1 DEF Top, TopIs, Busy, Tok, Needs, Listed, LAt, HoldsSlot
<1> QED
  BY <1>1, <1>2 DEF SoloInv, EnterIdle, LateInv, NeedInv

\* On one thread, a gate that was fired and is at work holds the slot of its
\* own key until its work is done, whatever is cancelled, drained or refused
\* meanwhile (_resumeWaiting, _cbRemoveDeferred).
THEOREM WorkHoldsSlot ==
  ASSUME "reuse" \notin Liberties, \E t : Threads = {t}
  PROVE  Spec => []ActiveHoldsSlot
<1>o. Orderly
  BY DEF Orderly
<1>1. SlotsInv /\ SoloInv /\ [Next]_vars => SoloInv'
  <2> SUFFICES ASSUME SlotsInv, SoloInv, [Next]_vars PROVE SoloInv'
    OBVIOUS
  <2>1. CASE UNCHANGED vars
    BY <2>1, SoloStutter
  <2>2. CASE Next
    <3>1. PICK t \in Threads : Act(t)
      BY <2>2 DEF Next, Act
    <3>2. Threads = {t} /\ TypeInv /\ PlaceInv /\ EnterIdle /\ LateInv /\ NeedInv
      BY DEF SlotsInv, SoloInv
    <3>3. EnterIdle'
      BY <3>1, <3>2, SoloEnter
    <3>4. LateInv'
      BY <3>1, <3>2, LateStep
    <3>5. NeedInv'
      BY <3>1, <3>2, NeedStep
    <3> QED
      BY <3>3, <3>4, <3>5 DEF SoloInv
  <2> QED
    BY <2>1, <2>2
<1>2. SoloInv => ActiveHoldsSlot
  BY DEF SoloInv, NeedInv, Needs, HoldsSlot, ActiveHoldsSlot
<1> QED
  BY <1>o, <1>1, <1>2, SoloInit, SlotsKept, PTL DEF Spec
=============================================================================
