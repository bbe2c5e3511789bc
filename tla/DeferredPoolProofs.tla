-------------------------- MODULE DeferredPoolProofs --------------------------
(* Theorems about DeferredPool, for every number of threads and gates, every *)
(* concurrency and any depth of calls.                                       *)
EXTENDS DeferredPool, FiniteSetTheorems, TLAPS

-----------------------------------------------------------------------------
(* Types and stacks *)

\* A frame that holds the pool's callback, or the add that will hook it
TokenPCs == {"hook", "handover", "rehook", "remove"}
KeyPCs == TokenPCs \cup {"enqueue", "reject"}

\* What can call something
Lower == {"resume", "start", "drain", "drainqueue"} \cup ClientPCs

\* A gate's callback is called for that gate; only a frame that fills or starts
\* has gates listed, and only one that drains has slots to do.
FrameOK(f) ==
  /\ f \in Frames
  /\ f.pc \in KeyPCs => f.d \in Deferreds /\ f.k \in Keys
  /\ f.pc \notin KeyPCs => f.k = Null
  /\ f.pc = "callback" => f.d \in Deferreds
  /\ f.pc \notin {"fill", "finalize", "start"} => f.list = <<>>
  /\ f.pc # "drain" => f.todo = {}

FramesInv ==
  \A t \in Threads : \A i \in 1..Len(stack[t]) :
    FrameOK(stack[t][i]) /\ (i < Len(stack[t]) => stack[t][i].pc \in Lower)

TypeInv == TypeOK /\ FramesInv /\ IsFiniteSet(DOMAIN running)

LEMMA Stacked ==
  ASSUME TypeInv, NEW t \in Threads
  PROVE  /\ stack[t] \in Seq(Frames) /\ stack \in [Threads -> Seq(Frames)]
         /\ \A i \in 1..Len(stack[t]) :
              FrameOK(stack[t][i]) /\ (i < Len(stack[t]) => stack[t][i].pc \in Lower)
BY DEF TypeInv, TypeOK, FramesInv

LEMMA TopOK ==
  ASSUME TypeInv, NEW t \in Threads, Busy(t)
  PROVE  FrameOK(Top(t)) /\ Top(t) \in Frames /\ Len(stack[t]) > 0
<1>1. Len(stack[t]) \in 1..Len(stack[t]) /\ Len(stack[t]) > 0
  BY Stacked DEF Busy
<1>2. FrameOK(stack[t][Len(stack[t])])
  BY <1>1, Stacked
<1> QED
  BY <1>1, <1>2 DEF Top, FrameOK

\* s is what stays of the stack of t: no gate is listed or called anew.
Ground(t, s) ==
  /\ s \in Seq(Frames)
  /\ \A i \in 1..Len(s) :
       /\ FrameOK(s[i]) /\ s[i].pc \in Lower
       /\ s[i].list # <<>> => i <= Len(stack[t]) /\ s[i].list = stack[t][i].list
       /\ s[i].todo # {} => i <= Len(stack[t]) /\ s[i].todo \subseteq stack[t][i].todo
       /\ s[i].pc = "callback" =>
            i <= Len(stack[t]) /\ stack[t][i].pc = "callback" /\ s[i].d = stack[t][i].d

LEMMA GroundAll ==
  ASSUME TypeInv, NEW t \in Threads, Busy(t) => Top(t).pc \in Lower
  PROVE  Ground(t, stack[t])
<1>1. stack[t] \in Seq(Frames) /\ Len(stack[t]) \in Nat
  BY Stacked
<1>2. \A i \in 1..Len(stack[t]) : FrameOK(stack[t][i]) /\ stack[t][i].pc \in Lower
  BY <1>1, Stacked DEF Busy, Top
<1> QED
  BY <1>1, <1>2 DEF Ground

LEMMA SubFrames ==
  ASSUME NEW s \in Seq(Frames), NEW n \in 0..Len(s)
  PROVE  /\ SubSeq(s, 1, n) \in Seq(Frames) /\ Len(SubSeq(s, 1, n)) = n
         /\ \A i \in 1..n : SubSeq(s, 1, n)[i] = s[i]
OBVIOUS

LEMMA GroundSub ==
  ASSUME TypeInv, NEW t \in Threads, NEW n \in 0..Len(stack[t]), n < Len(stack[t])
  PROVE  Ground(t, SubSeq(stack[t], 1, n)) /\ Len(SubSeq(stack[t], 1, n)) = n
<1> DEFINE s == SubSeq(stack[t], 1, n)
<1>1. stack[t] \in Seq(Frames) /\ Len(stack[t]) \in Nat
  BY Stacked
<1>2. s \in Seq(Frames) /\ Len(s) = n /\ \A i \in 1..n : s[i] = stack[t][i]
  BY <1>1, SubFrames
<1> HIDE DEF s
<1>3. Ground(t, s)
  BY <1>1, <1>2, Stacked DEF Ground
<1> QED
  BY <1>2, <1>3 DEF s

LEMMA GroundBelow ==
  ASSUME TypeInv, NEW t \in Threads, Busy(t)
  PROVE  Ground(t, Below(t)) /\ Len(Below(t)) = Len(stack[t]) - 1
<1>1. Len(stack[t]) - 1 \in 0..Len(stack[t]) /\ Len(stack[t]) - 1 < Len(stack[t])
  BY TopOK, Stacked
<1> QED
  BY <1>1, GroundSub DEF Below

LEMMA AppendFrame ==
  ASSUME NEW s \in Seq(Frames), NEW f \in Frames
  PROVE  /\ Append(s, f) \in Seq(Frames) /\ Len(Append(s, f)) = Len(s) + 1
         /\ Append(s, f)[Len(s) + 1] = f
         /\ \A i \in 1..Len(s) : Append(s, f)[i] = s[i]
OBVIOUS

LEMMA ReplacedSeq ==
  ASSUME NEW s \in Seq(Frames), s # <<>>, NEW f \in Frames
  PROVE  [s EXCEPT ![Len(s)] = f] = Append(SubSeq(s, 1, Len(s) - 1), f)
<1> DEFINE a == [s EXCEPT ![Len(s)] = f]
           b == SubSeq(s, 1, Len(s) - 1)
<1>1. Len(s) \in Nat /\ Len(s) > 0 /\ Len(s) - 1 \in 0..Len(s)
  OBVIOUS
<1>2. b \in Seq(Frames) /\ Len(b) = Len(s) - 1 /\ \A i \in 1..Len(s) - 1 : b[i] = s[i]
  BY <1>1, SubFrames
<1>3. a \in Seq(Frames) /\ Len(a) = Len(s)
      /\ \A i \in 1..Len(s) : a[i] = IF i = Len(s) THEN f ELSE s[i]
  BY <1>1
<1> HIDE DEF a, b
<1>4. /\ Append(b, f) \in Seq(Frames) /\ Len(Append(b, f)) = Len(s)
      /\ \A i \in 1..Len(s) : Append(b, f)[i] = IF i = Len(s) THEN f ELSE s[i]
  <2>1. /\ Append(b, f) \in Seq(Frames) /\ Len(Append(b, f)) = Len(b) + 1
        /\ Append(b, f)[Len(b) + 1] = f
        /\ \A i \in 1..Len(b) : Append(b, f)[i] = b[i]
    BY <1>2, AppendFrame
  <2> QED
    BY <1>1, <1>2, <2>1
<1>5. a = Append(b, f)
  BY <1>3, <1>4
<1> QED
  BY <1>5 DEF a, b

LEMMA ReplacedIs ==
  ASSUME TypeInv, NEW t \in Threads, Busy(t), NEW f \in Frames
  PROVE  Replaced(t, f) = Append(Below(t), f)
BY Stacked, ReplacedSeq DEF Replaced, Below, Busy

LEMMA GroundAppend ==
  ASSUME TypeInv, NEW t \in Threads, NEW s, Ground(t, s), NEW f, FrameOK(f), f.pc \in Lower, f.pc # "callback",
         f.list = <<>>,
         f.todo # {} => Len(s) < Len(stack[t]) /\ f.todo \subseteq stack[t][Len(s) + 1].todo
  PROVE  Ground(t, Append(s, f))
<1>1. s \in Seq(Frames) /\ f \in Frames
  BY DEF Ground, FrameOK
<1>2. /\ Append(s, f) \in Seq(Frames) /\ Len(Append(s, f)) = Len(s) + 1
      /\ Append(s, f)[Len(s) + 1] = f
      /\ \A i \in 1..Len(s) : Append(s, f)[i] = s[i]
  BY <1>1, AppendFrame
<1> DEFINE r == Append(s, f)
<1> HIDE DEF r
<1>3. /\ r \in Seq(Frames) /\ Len(r) = Len(s) + 1 /\ r[Len(s) + 1] = f
      /\ \A i \in 1..Len(s) : r[i] = s[i]
  BY <1>2 DEF r
<1>4. Len(s) \in Nat /\ \A i \in 1..Len(r) : i = Len(s) + 1 \/ i \in 1..Len(s)
  BY <1>1, <1>3
<1>6. r[Len(s) + 1].todo # {} =>
        Len(s) + 1 <= Len(stack[t]) /\ r[Len(s) + 1].todo \subseteq stack[t][Len(s) + 1].todo
  <2>1. Len(stack[t]) \in Int \/ f.todo = {}
    BY <1>1, Stacked
  <2> QED
    BY <1>3, <1>4, <2>1
<1>5. Ground(t, r)
  BY <1>3, <1>4, <1>6 DEF Ground
<1> QED
  BY <1>5 DEF r

\* The stack of t is left with what stays, or f on top of it.
Rests(t) == \E s : Ground(t, s) /\ stack' = [stack EXCEPT ![t] = s]
Tops(t, f) == \E s : Ground(t, s) /\ FrameOK(f) /\ stack' = [stack EXCEPT ![t] = Append(s, f)]

LEMMA RestsShape ==
  ASSUME TypeInv, NEW t \in Threads, Rests(t)
  PROVE  /\ stack' \in [Threads -> Seq(Frames)] /\ \A u \in Threads \ {t} : stack'[u] = stack[u]
         /\ Ground(t, stack'[t])
BY Stacked DEF Rests, Ground

LEMMA TopsShape ==
  ASSUME TypeInv, NEW t \in Threads, NEW f, Tops(t, f)
  PROVE  /\ stack' \in [Threads -> Seq(Frames)] /\ \A u \in Threads \ {t} : stack'[u] = stack[u]
         /\ \E s : Ground(t, s) /\ FrameOK(f) /\ stack'[t] = Append(s, f)
         /\ Busy(t)' /\ Top(t)' = f
<1>1. PICK s : Ground(t, s) /\ FrameOK(f) /\ stack' = [stack EXCEPT ![t] = Append(s, f)]
  BY DEF Tops
<1>2. s \in Seq(Frames) /\ f \in Frames /\ stack \in [Threads -> Seq(Frames)]
  BY <1>1, Stacked DEF Ground, FrameOK
<1>3. Append(s, f) \in Seq(Frames) /\ Append(s, f) # <<>> /\ Append(s, f)[Len(Append(s, f))] = f
  <2>1. Append(s, f) \in Seq(Frames) /\ Len(Append(s, f)) = Len(s) + 1
        /\ Append(s, f)[Len(s) + 1] = f /\ Len(s) + 1 > 0
    BY <1>2, AppendFrame
  <2>2. Append(s, f) # <<>>
    BY <2>1
  <2> QED
    BY <2>1, <2>2
<1>4. stack'[t] = Append(s, f) /\ stack' \in [Threads -> Seq(Frames)]
      /\ \A u \in Threads \ {t} : stack'[u] = stack[u]
  BY <1>1, <1>2, <1>3
<1>5. Busy(t)' /\ Top(t)' = f
  BY <1>3, <1>4 DEF Busy, Top
<1> QED
  BY <1>1, <1>4, <1>5

LEMMA FramesRest ==
  ASSUME TypeInv, NEW t \in Threads, Rests(t)
  PROVE  FramesInv'
<1>1. /\ \A u \in Threads \ {t} : stack'[u] = stack[u]
      /\ \A i \in 1..Len(stack'[t]) : FrameOK(stack'[t][i]) /\ stack'[t][i].pc \in Lower
  BY RestsShape DEF Ground
<1> QED
  BY <1>1 DEF TypeInv, FramesInv

LEMMA FramesTop ==
  ASSUME TypeInv, NEW t \in Threads, NEW f, Tops(t, f)
  PROVE  FramesInv'
<1>1. PICK s : Ground(t, s) /\ FrameOK(f) /\ stack'[t] = Append(s, f)
  BY TopsShape
<1>2. s \in Seq(Frames) /\ f \in Frames
  BY <1>1 DEF Ground, FrameOK
<1>3. /\ Len(stack'[t]) = Len(s) + 1 /\ stack'[t][Len(s) + 1] = f /\ Len(s) \in Nat
      /\ \A i \in 1..Len(s) : stack'[t][i] = s[i]
  BY <1>1, <1>2, AppendFrame
<1>4. \A i \in 1..Len(stack'[t]) :
        FrameOK(stack'[t][i]) /\ (i < Len(stack'[t]) => stack'[t][i].pc \in Lower)
  BY <1>1, <1>3 DEF Ground
<1>5. \A u \in Threads \ {t} : stack'[u] = stack[u]
  BY TopsShape
<1> QED
  BY <1>4, <1>5 DEF TypeInv, FramesInv

-----------------------------------------------------------------------------
(* The table and the queue as partial functions *)

LEMMA PartialIs ==
  ASSUME NEW S, NEW T, NEW f
  PROVE  f \in Partial(S, T) <=> f \in [DOMAIN f -> T] /\ DOMAIN f \subseteq S
BY DEF Partial

LEMMA BindType ==
  ASSUME NEW S, NEW T, NEW f \in Partial(S, T), NEW k \in S, NEW x \in T
  PROVE  /\ Bind(f, k, x) \in Partial(S, T) /\ DOMAIN Bind(f, k, x) = DOMAIN f \cup {k}
         /\ \A j \in DOMAIN f \cup {k} : Bind(f, k, x)[j] = IF j = k THEN x ELSE f[j]
<1>1. f \in [DOMAIN f -> T] /\ DOMAIN f \subseteq S
  BY PartialIs
<1>2. DOMAIN Bind(f, k, x) = DOMAIN f \cup {k}
  BY DEF Bind
<1>3. Bind(f, k, x) \in [DOMAIN f \cup {k} -> T]
  BY <1>1 DEF Bind
<1>4. Bind(f, k, x) \in Partial(S, T)
  BY <1>1, <1>2, <1>3, PartialIs
<1> QED
  BY <1>2, <1>4 DEF Bind

LEMMA UnbindType ==
  ASSUME NEW S, NEW T, NEW f \in Partial(S, T), NEW k
  PROVE  /\ Unbind(f, k) \in Partial(S, T) /\ DOMAIN Unbind(f, k) = DOMAIN f \ {k}
         /\ \A j \in DOMAIN f \ {k} : Unbind(f, k)[j] = f[j]
<1>1. f \in [DOMAIN f -> T] /\ DOMAIN f \subseteq S
  BY PartialIs
<1>2. DOMAIN Unbind(f, k) = DOMAIN f \ {k} /\ \A j \in DOMAIN f \ {k} : Unbind(f, k)[j] = f[j]
  BY DEF Unbind, Restrict
<1>3. Unbind(f, k) \in [DOMAIN f \ {k} -> T]
  BY <1>1 DEF Unbind, Restrict
<1>4. Unbind(f, k) \in Partial(S, T)
  BY <1>1, <1>2, <1>3, PartialIs
<1> QED
  BY <1>2, <1>4

-----------------------------------------------------------------------------
(* What each operation does to the stacks *)

LEMMA Waits ==
  ASSUME TypeInv, NEW d \in Deferreds, hook[d] # Null
  PROVE  FrameOK(Frame("remove", d, hook[d])) /\ hook[d] \in Keys
BY DEF TypeInv, TypeOK, FrameOK, Frames, Frame, KeyPCs, TokenPCs, CodePCs, Lower, ClientPCs

LEMMA ResumingOK == FrameOK(Resuming) /\ Resuming.pc = "resume" /\ Resuming.list = <<>>
BY DEF FrameOK, Frames, Frame, Resuming, KeyPCs, TokenPCs, CodePCs, ClientPCs

LEMMA KeyFrameOK ==
  ASSUME NEW pc \in KeyPCs, NEW d \in Deferreds, NEW k \in Keys
  PROVE  /\ FrameOK(Frame(pc, d, k)) /\ Frame(pc, d, k).pc = pc /\ Frame(pc, d, k).list = <<>>
         /\ Frame(pc, d, k).d = d /\ Frame(pc, d, k).k = k
BY DEF FrameOK, Frames, Frame, KeyPCs, TokenPCs, CodePCs, ClientPCs

LEMMA RestsBy ==
  ASSUME NEW t, NEW s, Ground(t, s), Set(t, s)
  PROVE  Rests(t)
BY DEF Rests, Set

LEMMA TopsBy ==
  ASSUME NEW t, NEW s, Ground(t, s), NEW f, FrameOK(f), Set(t, Append(s, f))
  PROVE  Tops(t, f)
BY DEF Tops, Set

LEMMA ReplacedTops ==
  ASSUME TypeInv, NEW t \in Threads, Busy(t), NEW f, FrameOK(f), Set(t, Replaced(t, f))
  PROVE  Tops(t, f)
<1>1. f \in Frames /\ Replaced(t, f) = Append(Below(t), f)
  BY ReplacedIs DEF FrameOK
<1> QED
  BY <1>1, GroundBelow, TopsBy

LEMMA GotoTops ==
  ASSUME TypeInv, NEW t \in Threads, Busy(t), NEW pc, FrameOK([Top(t) EXCEPT !.pc = pc]),
         Set(t, Goto(t, pc))
  PROVE  Tops(t, [Top(t) EXCEPT !.pc = pc])
BY ReplacedTops DEF Goto

LEMMA GroundResuming ==
  ASSUME TypeInv, NEW t \in Threads, Busy(t)
  PROVE  Ground(t, Replaced(t, Resuming)) /\ Replaced(t, Resuming) = Append(Below(t), Resuming)
<1>1. Replaced(t, Resuming) = Append(Below(t), Resuming)
  BY ResumingOK, ReplacedIs DEF FrameOK
<1>2. Resuming.pc \in Lower /\ Resuming.pc # "callback" /\ Resuming.todo = {}
  BY ResumingOK DEF Lower, FrameOK
<1> QED
  BY <1>1, <1>2, ResumingOK, GroundBelow, GroundAppend

\* The pool's callback is taken from d's chain, if it is there, and called.
Settles(t, d, new) ==
  /\ state' = [state EXCEPT ![d] = new]
  /\ hook' = [hook EXCEPT ![d] = Null]
  /\ \/ hook[d] = Null /\ Rests(t)
     \/ hook[d] # Null /\ Tops(t, Frame("remove", d, hook[d]))

LEMMA SettleView ==
  ASSUME TypeInv, NEW t \in Threads, NEW d \in Deferreds, NEW new, NEW s, Ground(t, s),
         Settle(t, d, new, s)
  PROVE  Settles(t, d, new)
<1>1. CASE hook[d] = Null
  BY <1>1, RestsBy DEF Settle, Settles
<1>2. CASE hook[d] # Null
  <2>1. FrameOK(Frame("remove", d, hook[d]))
    BY <1>2, Waits
  <2>2. Set(t, Append(s, Frame("remove", d, hook[d])))
    BY <1>2 DEF Settle
  <2> QED
    BY <1>2, <2>1, <2>2, TopsBy DEF Settle, Settles
<1> QED
  BY <1>1, <1>2

\* A gate that has not been fired, or work under way, is cancelled; or nothing
\* happens.
Cancels(t, d) ==
  \/ state[d] = "idle" /\ Settles(t, d, "cancelled")
  \/ state[d] \in {"started", "handed"} /\ Settles(t, d, "done")
  \/ state[d] # "idle" /\ Rests(t) /\ UNCHANGED gates

LEMMA CancelView ==
  ASSUME TypeInv, NEW t \in Threads, NEW x \in Slots, NEW s, Ground(t, s), CancelSlot(t, x, s)
  PROVE  Cancels(t, x.d)
<1> DEFINE d == x.d
<1>1. d \in Deferreds
  BY DEF Slots
<1>2. \/ state[d] = "idle" /\ Settle(t, d, "cancelled", s)
      \/ state[d] \in {"started", "handed"} /\ Settle(t, d, "done", s)
      \/ state[d] # "idle" /\ Set(t, s) /\ UNCHANGED gates
  BY DEF CancelSlot
<1> HIDE DEF d
<1> SUFFICES Cancels(t, d)
  BY DEF d
<1> QED
  BY <1>1, <1>2, SettleView, RestsBy DEF Cancels

\* The thread goes on with a frame for d under k, and nothing is listed in it.
Goes(t, pc, d, k) ==
  \E f : Tops(t, f) /\ f.pc = pc /\ f.d = d /\ f.k = k /\ f.list = <<>>

\* The frame goes on as pc, with the gates it lists.
Carries(t, pc) ==
  /\ Busy(t)
  /\ \E f : /\ FrameOK(f) /\ f.pc = pc /\ f.list = Top(t).list
            /\ stack' = [stack EXCEPT ![t] = Append(Below(t), f)]

LEMMA KeyGoto ==
  ASSUME TypeInv, NEW t \in Threads, Busy(t), Top(t).pc \in KeyPCs, NEW pc \in KeyPCs,
         Set(t, Goto(t, pc))
  PROVE  Goes(t, pc, Top(t).d, Top(t).k)
<1> DEFINE f == [Top(t) EXCEPT !.pc = pc]
<1>1. FrameOK(Top(t)) /\ Top(t) \in Frames
  BY TopOK
<1>2. pc \in CodePCs /\ pc # "callback" /\ pc \notin {"fill", "finalize", "start"}
      /\ Top(t).pc \notin {"fill", "finalize", "start"}
  BY DEF KeyPCs, TokenPCs, CodePCs
<1>3. f \in Frames /\ f.pc = pc /\ f.d = Top(t).d /\ f.k = Top(t).k /\ f.list = Top(t).list
      /\ f.todo = Top(t).todo
  BY <1>1, <1>2 DEF Frames
<1>4. FrameOK(f) /\ f.list = <<>>
  <2> HIDE DEF f
  <2>1. Top(t).pc # "drain" /\ pc # "drain"
    BY <1>2 DEF KeyPCs, TokenPCs
  <2> QED
    BY <1>1, <1>2, <1>3, <2>1 DEF FrameOK
<1>5. Tops(t, f)
  BY <1>4, GotoTops
<1> HIDE DEF f
<1> QED
  BY <1>3, <1>4, <1>5 DEF Goes

LEMMA PlainGoto ==
  ASSUME TypeInv, NEW t \in Threads, Busy(t), Top(t).pc \in {"resume", "drain"},
         Top(t).pc = "drain" => Top(t).todo = {},
         NEW pc \in {"fill", "drainqueue"}, Set(t, Goto(t, pc))
  PROVE  Goes(t, pc, Top(t).d, Null)
<1> DEFINE f == [Top(t) EXCEPT !.pc = pc]
<1>1. FrameOK(Top(t)) /\ Top(t) \in Frames
  BY TopOK
<1>2. pc \in CodePCs /\ pc # "callback" /\ pc \notin KeyPCs /\ Top(t).pc \notin KeyPCs
      /\ Top(t).pc \notin {"fill", "finalize", "start"}
  BY DEF KeyPCs, TokenPCs, CodePCs
<1>3. f \in Frames /\ f.pc = pc /\ f.d = Top(t).d /\ f.k = Top(t).k /\ f.list = Top(t).list
      /\ f.todo = Top(t).todo
  BY <1>1, <1>2 DEF Frames
<1>4. FrameOK(f) /\ f.list = <<>> /\ f.k = Null
  <2> HIDE DEF f
  <2> QED
    BY <1>1, <1>2, <1>3 DEF FrameOK
<1>5. Tops(t, f)
  BY <1>4, GotoTops
<1> HIDE DEF f
<1> QED
  BY <1>3, <1>4, <1>5 DEF Goes

LEMMA CarryGoto ==
  ASSUME TypeInv, NEW t \in Threads, Busy(t), Top(t).pc \in {"fill", "finalize"},
         NEW pc \in {"finalize", "start"}, Set(t, Goto(t, pc))
  PROVE  Carries(t, pc)
<1> DEFINE f == [Top(t) EXCEPT !.pc = pc]
<1>1. FrameOK(Top(t)) /\ Top(t) \in Frames
  BY TopOK
<1>2. pc \in CodePCs \cup ClientPCs /\ pc # "callback" /\ pc \notin KeyPCs
      /\ Top(t).pc \notin KeyPCs
  BY DEF KeyPCs, TokenPCs, CodePCs, ClientPCs
<1>3. f \in Frames /\ f.pc = pc /\ f.d = Top(t).d /\ f.k = Top(t).k /\ f.list = Top(t).list
      /\ f.todo = Top(t).todo
  BY <1>1, <1>2 DEF Frames
<1>4. FrameOK(f)
  <2> HIDE DEF f
  <2> QED
    BY <1>1, <1>2, <1>3 DEF FrameOK
<1>5. Replaced(t, f) = Append(Below(t), f)
  BY <1>3, ReplacedIs
<1>6. stack' = [stack EXCEPT ![t] = Append(Below(t), f)]
  BY <1>5 DEF Set, Goto
<1> HIDE DEF f
<1> QED
  BY <1>3, <1>4, <1>6 DEF Carries

LEMMA GoesBy ==
  ASSUME TypeInv, NEW t \in Threads, NEW s, Ground(t, s), NEW pc \in KeyPCs,
         NEW d \in Deferreds, NEW k \in Keys, Set(t, Append(s, Frame(pc, d, k)))
  PROVE  Goes(t, pc, d, k)
<1> DEFINE f == Frame(pc, d, k)
<1>1. FrameOK(f) /\ f.pc = pc /\ f.list = <<>> /\ f.d = d /\ f.k = k
  BY KeyFrameOK
<1>2. Tops(t, f)
  BY <1>1, TopsBy
<1> HIDE DEF f
<1> QED
  BY <1>1, <1>2 DEF Goes

LEMMA ResumingGoes ==
  ASSUME TypeInv, NEW t \in Threads, Busy(t), Set(t, Replaced(t, Resuming))
  PROVE  Goes(t, "resume", Null, Null)
<1>1. Tops(t, Resuming)
  BY ResumingOK, ReplacedTops
<1> QED
  BY <1>1, ResumingOK DEF Goes, Resuming, Frame

LEMMA ClientGround ==
  ASSUME TypeInv, NEW t \in Threads, ClientRuns(t)
  PROVE  Ground(t, stack[t])
<1>1. Busy(t) => Top(t).pc \in Lower
  BY DEF ClientRuns, Lower
<1> QED
  BY <1>1, GroundAll

LEMMA AddView ==
  ASSUME TypeInv, NEW t \in Threads, NEW d \in Deferreds, NEW k \in Keys, Add(t, d, k)
  PROVE  Goes(t, "enqueue", d, k)
<1>1. "enqueue" \in KeyPCs
  BY DEF KeyPCs
<1> QED
  BY <1>1, ClientGround, GoesBy DEF Add

LEMMA TopKeys ==
  ASSUME TypeInv, NEW t \in Threads, NEW pc \in KeyPCs, TopIs(t, pc)
  PROVE  Busy(t) /\ Top(t).pc = pc /\ Top(t).d \in Deferreds /\ Top(t).k \in Keys
         /\ Top(t).list = <<>>
BY TopOK DEF TopIs, FrameOK, KeyPCs, TokenPCs

LEMMA TopPlain ==
  ASSUME TypeInv, NEW t \in Threads, NEW pc, pc \notin KeyPCs, TopIs(t, pc)
  PROVE  Busy(t) /\ Top(t).pc = pc /\ Top(t).k = Null
BY TopOK DEF TopIs, FrameOK

LEMMA EnqueueView ==
  ASSUME TypeInv, NEW t \in Threads, Enqueue(t)
  PROVE  /\ TopIs(t, "enqueue") /\ Top(t).d \in Deferreds /\ Top(t).k \in Keys /\ wLock = Null
         /\ \/ /\ Top(t).k \in DOMAIN queue /\ Goes(t, "reject", Top(t).d, Top(t).k)
               /\ UNCHANGED <<queue, keyOf>>
            \/ /\ Top(t).k \notin DOMAIN queue /\ Goes(t, "hook", Top(t).d, Top(t).k)
               /\ queue' = Bind(queue, Top(t).k, Top(t).d)
               /\ keyOf' = [keyOf EXCEPT ![Top(t).d] = Top(t).k]
         /\ UNCHANGED <<running, concurrency, finalizeFunc, wLock, gates, drained>>
<1>1. "enqueue" \in KeyPCs /\ "reject" \in KeyPCs /\ "hook" \in KeyPCs
  BY DEF KeyPCs, TokenPCs
<1>2. TopIs(t, "enqueue")
  BY DEF Enqueue
<1>3. /\ Busy(t) /\ Top(t).pc \in KeyPCs /\ Top(t).d \in Deferreds /\ Top(t).k \in Keys
  BY <1>1, <1>2, TopKeys
<1>4. CASE Top(t).k \in DOMAIN queue
  <2>1. Set(t, Goto(t, "reject")) /\ UNCHANGED <<queue, keyOf>>
    BY <1>4 DEF Enqueue
  <2> QED
    BY <1>1, <1>2, <1>3, <1>4, <2>1, KeyGoto DEF Enqueue, Unlocked
<1>5. CASE Top(t).k \notin DOMAIN queue
  <2>1. /\ Set(t, Goto(t, "hook")) /\ queue' = Bind(queue, Top(t).k, Top(t).d)
        /\ keyOf' = [keyOf EXCEPT ![Top(t).d] = Top(t).k]
    BY <1>5 DEF Enqueue
  <2> QED
    BY <1>1, <1>2, <1>3, <1>5, <2>1, KeyGoto DEF Enqueue, Unlocked
<1> QED
  BY <1>4, <1>5

LEMMA HookView ==
  ASSUME TypeInv, NEW t \in Threads, Hook(t)
  PROVE  /\ TopIs(t, "hook") /\ Top(t).d \in Deferreds /\ Top(t).k \in Keys
         /\ \/ /\ state[Top(t).d] \in {"idle", "started"}
               /\ hook' = [hook EXCEPT ![Top(t).d] = Top(t).k]
               /\ Goes(t, "resume", Null, Null)
            \/ /\ state[Top(t).d] \notin {"idle", "started"}
               /\ \E pc \in {"handover", "remove"} :
                    /\ pc = IF \/ state[Top(t).d] = "handed"
                               \/ state[Top(t).d] = "done" /\ Top(t).d \in Wrappers
                            THEN "handover" ELSE "remove"
                    /\ Goes(t, pc, Top(t).d, Top(t).k)
                    /\ stack' = [stack EXCEPT ![t] =
                         Append(Append(Below(t), Resuming), Frame(pc, Top(t).d, Top(t).k))]
               /\ UNCHANGED hook
         /\ UNCHANGED <<pool, state, history>>
<1>1. "hook" \in KeyPCs /\ "handover" \in KeyPCs /\ "remove" \in KeyPCs
  BY DEF KeyPCs, TokenPCs
<1>2. TopIs(t, "hook") /\ UNCHANGED <<pool, state, history>>
  BY DEF Hook
<1>3. Busy(t) /\ Top(t).d \in Deferreds /\ Top(t).k \in Keys
  BY <1>1, <1>2, TopKeys
<1>4. CASE state[Top(t).d] \in {"idle", "started"}
  <2>1. hook' = [hook EXCEPT ![Top(t).d] = Top(t).k] /\ Set(t, Replaced(t, Resuming))
    BY <1>4 DEF Hook
  <2> QED
    BY <1>2, <1>3, <1>4, <2>1, ResumingGoes
<1>5. CASE state[Top(t).d] \notin {"idle", "started"}
  <2> DEFINE pc == IF \/ state[Top(t).d] = "handed"
                      \/ state[Top(t).d] = "done" /\ Top(t).d \in Wrappers
                   THEN "handover" ELSE "remove"
  <2>1. /\ Set(t, Append(Replaced(t, Resuming), Frame(pc, Top(t).d, Top(t).k)))
        /\ UNCHANGED hook
    BY <1>5 DEF Hook
  <2>2. pc \in {"handover", "remove"}
    OBVIOUS
  <2> HIDE DEF pc
  <2>3. Goes(t, pc, Top(t).d, Top(t).k)
    BY <1>1, <1>3, <2>1, <2>2, GroundResuming, GoesBy
  <2>4. stack' = [stack EXCEPT ![t] =
                    Append(Append(Below(t), Resuming), Frame(pc, Top(t).d, Top(t).k))]
    BY <1>3, <2>1, GroundResuming DEF Set
  <2> QED
    BY <1>2, <1>3, <1>5, <2>1, <2>2, <2>3, <2>4 DEF pc
<1> QED
  BY <1>4, <1>5

LEMMA RejectView ==
  ASSUME TypeInv, NEW t \in Threads, Reject(t)
  PROVE  /\ TopIs(t, "reject") /\ Top(t).d \in Deferreds /\ Cancels(t, Top(t).d)
         /\ CancelSlot(t, [d |-> Top(t).d, part |-> "gate"], Append(Below(t), Resuming))
         /\ UNCHANGED <<pool, history>>
<1>1. "reject" \in KeyPCs
  BY DEF KeyPCs
<1>2. TopIs(t, "reject") /\ UNCHANGED <<pool, history>>
      /\ CancelSlot(t, [d |-> Top(t).d, part |-> "gate"], Replaced(t, Resuming))
  BY DEF Reject
<1>3. Busy(t) /\ Top(t).d \in Deferreds
  BY <1>1, <1>2, TopKeys
<1>4. [d |-> Top(t).d, part |-> "gate"] \in Slots
  BY <1>3 DEF Slots
<1>5. Cancels(t, Top(t).d)
  BY <1>2, <1>3, <1>4, GroundResuming, CancelView
<1> QED
  BY <1>2, <1>3, <1>5, GroundResuming

LEMMA ResumeLockView ==
  ASSUME TypeInv, NEW t \in Threads, ResumeLock(t)
  PROVE  /\ TopIs(t, "resume") /\ wLock = Null /\ wLock' = t
         /\ Goes(t, "fill", Top(t).d, Null)
         /\ UNCHANGED <<queue, running, concurrency, finalizeFunc, gates, history>>
<1>1. Busy(t) /\ Top(t).pc = "resume"
  BY DEF ResumeLock, TopIs
<1>2. Set(t, Goto(t, "fill"))
  BY DEF ResumeLock
<1>3. Goes(t, "fill", Top(t).d, Null)
  BY <1>1, <1>2, PlainGoto
<1> QED
  BY <1>3 DEF ResumeLock, Unlocked

\* The gate under k is the last one that t lists now.
Lists(t, k) ==
  /\ Busy(t)
  /\ \E f : /\ FrameOK(f) /\ f.pc = "fill" /\ f.list = Append(Top(t).list, queue[k])
            /\ stack' = [stack EXCEPT ![t] = Append(Below(t), f)]

LEMMA FillView ==
  ASSUME TypeInv, NEW t \in Threads, Fill(t)
  PROVE  /\ TopIs(t, "fill") /\ SlotFree
         /\ \E k \in Firsts :
              /\ k \in DOMAIN queue /\ queue' = Unbind(queue, k)
              /\ running' = Bind(running, k, [d |-> queue[k], part |-> "gate"])
              /\ Lists(t, k)
         /\ UNCHANGED <<concurrency, finalizeFunc, wLock, gates, history>>
<1>1. TopIs(t, "fill") /\ SlotFree /\ UNCHANGED <<concurrency, finalizeFunc, wLock, gates, history>>
  BY DEF Fill
<1>2. PICK k \in Firsts :
        /\ queue' = Dequeued(k)
        /\ running' = Bind(running, k, [d |-> queue[k], part |-> "gate"])
        /\ Set(t, Replaced(t, [Top(t) EXCEPT !.list = Append(@, queue[k])]))
  BY DEF Fill
<1>3. k \in DOMAIN queue
  BY DEF Firsts
<1>4. queue[k] \in Deferreds
  BY <1>3, PartialIs DEF TypeInv, TypeOK
<1>5. Busy(t) /\ Top(t).pc = "fill" /\ FrameOK(Top(t)) /\ Top(t) \in Frames
  BY <1>1, TopOK DEF TopIs
<1> DEFINE l == Append(Top(t).list, queue[k])
           f == [Top(t) EXCEPT !.list = l]
<1>6. l \in Seq(Deferreds)
  BY <1>4, <1>5 DEF Frames
<1> HIDE DEF l
<1>7. f \in Frames /\ f.pc = "fill" /\ f.d = Top(t).d /\ f.k = Top(t).k /\ f.list = l
      /\ f.todo = Top(t).todo
  BY <1>5, <1>6 DEF Frames
<1>8. stack' = [stack EXCEPT ![t] = Replaced(t, f)]
  BY <1>2 DEF Set, l
<1> HIDE DEF f
<1>9. FrameOK(f)
  BY <1>5, <1>7 DEF FrameOK, KeyPCs, TokenPCs
<1>10. stack' = [stack EXCEPT ![t] = Append(Below(t), f)]
  BY <1>5, <1>7, <1>8, ReplacedIs
<1>11. Lists(t, k)
  BY <1>5, <1>7, <1>9, <1>10 DEF Lists, l
<1> QED
  BY <1>1, <1>2, <1>3, <1>11 DEF Dequeued

LEMMA FilledView ==
  ASSUME TypeInv, NEW t \in Threads, Filled(t)
  PROVE  /\ TopIs(t, "fill") /\ (~SlotFree \/ DOMAIN queue = {})
         /\ \/ Carries(t, "finalize") /\ UNCHANGED wLock /\ Finalizes
            \/ Carries(t, "start") /\ wLock' = Null
         /\ UNCHANGED <<queue, running, concurrency, finalizeFunc, gates, history>>
<1>1. Busy(t) /\ Top(t).pc = "fill"
  BY DEF Filled, TopIs
<1>2. \/ Finalizes /\ Set(t, Goto(t, "finalize")) /\ UNCHANGED wLock
      \/ Set(t, Goto(t, "start")) /\ wLock' = Null
  BY DEF Filled, Release
<1>3. \/ Carries(t, "finalize") /\ UNCHANGED wLock /\ Finalizes
      \/ Carries(t, "start") /\ wLock' = Null
  BY <1>1, <1>2, CarryGoto
<1> QED
  BY <1>3 DEF Filled

LEMMA FinalizeReturnsView ==
  ASSUME TypeInv, NEW t \in Threads, FinalizeReturns(t)
  PROVE  /\ TopIs(t, "finalize") /\ Carries(t, "start") /\ wLock' = Null
         /\ UNCHANGED <<queue, running, concurrency, finalizeFunc, gates, history>>
<1>1. Busy(t) /\ Top(t).pc = "finalize"
  BY DEF FinalizeReturns, TopIs
<1>2. Carries(t, "start")
  BY <1>1, CarryGoto DEF FinalizeReturns
<1> QED
  BY <1>2 DEF FinalizeReturns, Release

LEMMA StartView ==
  ASSUME TypeInv, NEW t \in Threads, Start(t)
  PROVE  /\ TopIs(t, "start") /\ Top(t).list # <<>>
         /\ Head(Top(t).list) \in Deferreds
         /\ \/ /\ state[Head(Top(t).list)] = "idle"
               /\ state' = [state EXCEPT ![Head(Top(t).list)] = "starting"]
               /\ \E f, g : /\ FrameOK(f) /\ f.pc = "start" /\ f.list = Tail(Top(t).list)
                            /\ FrameOK(g) /\ g.pc = "callback" /\ g.d = Head(Top(t).list)
                            /\ stack' = [stack EXCEPT ![t] = Append(Append(Below(t), f), g)]
            \/ /\ state[Head(Top(t).list)] = "cancelled"
               /\ state' = [state EXCEPT ![Head(Top(t).list)] = "spent"]
               /\ \E f : /\ FrameOK(f) /\ f.pc = "start" /\ f.list = Tail(Top(t).list)
                         /\ stack' = [stack EXCEPT ![t] = Append(Below(t), f)]
         /\ UNCHANGED <<pool, hook, history>>
<1>1. TopIs(t, "start") /\ Top(t).list # <<>> /\ UNCHANGED <<pool, hook, history>>
  BY DEF Start
<1>2. Busy(t) /\ Top(t).pc = "start" /\ FrameOK(Top(t)) /\ Top(t) \in Frames
      /\ Top(t).list \in Seq(Deferreds)
  BY <1>1, TopOK DEF TopIs, Frames
<1> DEFINE l == Tail(Top(t).list)
           d == Head(Top(t).list)
           f == [Top(t) EXCEPT !.list = l]
           g == Frame("callback", d, Null)
<1>3. l \in Seq(Deferreds) /\ d \in Deferreds
  BY <1>1, <1>2
<1>4. \/ /\ state[d] = "idle"
         /\ state' = [state EXCEPT ![d] = "starting"]
         /\ stack' = [stack EXCEPT ![t] = Append(Replaced(t, f), g)]
      \/ /\ state[d] = "cancelled"
         /\ state' = [state EXCEPT ![d] = "spent"]
         /\ stack' = [stack EXCEPT ![t] = Replaced(t, f)]
  BY DEF Start, Set
<1> HIDE DEF l, d
<1>5. f \in Frames /\ f.pc = "start" /\ f.d = Top(t).d /\ f.k = Top(t).k /\ f.list = l
      /\ f.todo = Top(t).todo
  BY <1>2, <1>3 DEF Frames
<1>6. FrameOK(g) /\ g.pc = "callback" /\ g.d = d /\ g.list = <<>> /\ g.k = Null
  BY <1>3 DEF FrameOK, Frames, Frame, KeyPCs, TokenPCs, CodePCs, ClientPCs
<1> HIDE DEF f, g
<1>7. FrameOK(f)
  BY <1>2, <1>5 DEF FrameOK, KeyPCs, TokenPCs
<1>8. Replaced(t, f) = Append(Below(t), f)
  BY <1>2, <1>5, ReplacedIs
<1>9. CASE /\ state[d] = "idle"
           /\ state' = [state EXCEPT ![d] = "starting"]
           /\ stack' = [stack EXCEPT ![t] = Append(Replaced(t, f), g)]
  <2>1. stack' = [stack EXCEPT ![t] = Append(Append(Below(t), f), g)]
    BY <1>8, <1>9
  <2>2. \E f2, g2 : /\ FrameOK(f2) /\ f2.pc = "start" /\ f2.list = l
                    /\ FrameOK(g2) /\ g2.pc = "callback" /\ g2.d = d
                    /\ stack' = [stack EXCEPT ![t] = Append(Append(Below(t), f2), g2)]
    BY <1>5, <1>6, <1>7, <2>1
  <2> QED
    BY <1>1, <1>3, <1>9, <2>2 DEF l, d
<1>10. CASE /\ state[d] = "cancelled"
            /\ state' = [state EXCEPT ![d] = "spent"]
            /\ stack' = [stack EXCEPT ![t] = Replaced(t, f)]
  <2>1. stack' = [stack EXCEPT ![t] = Append(Below(t), f)]
    BY <1>8, <1>10
  <2>2. \E f2 : /\ FrameOK(f2) /\ f2.pc = "start" /\ f2.list = l
                /\ stack' = [stack EXCEPT ![t] = Append(Below(t), f2)]
    BY <1>5, <1>7, <2>1
  <2> QED
    BY <1>1, <1>3, <1>10, <2>2 DEF l, d
<1> QED
  BY <1>4, <1>9, <1>10

LEMMA ResumeReturnsView ==
  ASSUME TypeInv, NEW t \in Threads, ResumeReturns(t)
  PROVE  TopIs(t, "start") /\ Rests(t) /\ UNCHANGED <<pool, gates, history>>
BY GroundBelow, RestsBy DEF ResumeReturns, TopIs

LEMMA StartReturnsView ==
  ASSUME TypeInv, NEW t \in Threads, StartReturns(t)
  PROVE  /\ TopIs(t, "callback") /\ Top(t).d \in Deferreds
         /\ \E new \in {"done", "handed", "started"} :
              \/ /\ Top(t).d \in Wrappers /\ new # "started" /\ hook[Top(t).d] # Null
                 /\ state' = [state EXCEPT ![Top(t).d] = new]
                 /\ hook' = [hook EXCEPT ![Top(t).d] = Null]
                 /\ Goes(t, "handover", Top(t).d, hook[Top(t).d])
              \/ /\ (new = "handed" => Top(t).d \in Wrappers)
                 /\ (new # "started" => Top(t).d \notin Wrappers \/ hook[Top(t).d] = Null)
                 /\ new # "started" /\ Settles(t, Top(t).d, new)
              \/ /\ new = "started" /\ Top(t).d \notin Wrappers
                 /\ state' = [state EXCEPT ![Top(t).d] = new]
                 /\ Rests(t) /\ UNCHANGED hook
         /\ UNCHANGED <<pool, history>>
<1>1. TopIs(t, "callback") /\ UNCHANGED <<pool, history>>
  BY DEF StartReturns
<1>2. Busy(t) /\ Top(t).d \in Deferreds
  BY <1>1, TopOK DEF TopIs, FrameOK
<1> DEFINE d == Top(t).d
<1>3. Ground(t, Below(t))
  BY <1>2, GroundBelow
<1>4. PICK done \in BOOLEAN :
       IF d \in Wrappers
       THEN /\ state' = [state EXCEPT ![d] = IF done THEN "done" ELSE "handed"]
            /\ hook' = [hook EXCEPT ![d] = Null]
            /\ Set(t, IF hook[d] = Null THEN Below(t)
                      ELSE IF PassedOn(d) THEN Append(Below(t), Frame("handover", d, hook[d]))
                      ELSE Append(Below(t), Frame("remove", d, hook[d])))
       ELSE IF done THEN Settle(t, d, "done", Below(t))
       ELSE /\ state' = [state EXCEPT ![d] = "started"]
            /\ Set(t, Below(t))
            /\ UNCHANGED hook
  BY DEF StartReturns
<1> HIDE DEF d
<1>d. d \in Deferreds
  BY <1>2 DEF d
<1> SUFFICES
     \E new \in {"done", "handed", "started"} :
              \/ /\ d \in Wrappers /\ new # "started" /\ hook[d] # Null
                 /\ state' = [state EXCEPT ![d] = new]
                 /\ hook' = [hook EXCEPT ![d] = Null]
                 /\ Goes(t, "handover", d, hook[d])
              \/ /\ (new = "handed" => d \in Wrappers)
                 /\ (new # "started" => d \notin Wrappers \/ hook[d] = Null)
                 /\ new # "started" /\ Settles(t, d, new)
              \/ /\ new = "started" /\ d \notin Wrappers
                 /\ state' = [state EXCEPT ![d] = new]
                 /\ Rests(t) /\ UNCHANGED hook
  BY <1>1, <1>2 DEF d
<1>5. CASE d \in Wrappers
  <2> DEFINE new == IF done THEN "done" ELSE "handed"
  <2>1. new \in {"done", "handed"} /\ state' = [state EXCEPT ![d] = new]
        /\ hook' = [hook EXCEPT ![d] = Null]
    BY <1>4, <1>5
  <2> HIDE DEF new
  <2>2. CASE hook[d] = Null
    <3>1. Rests(t)
      BY <1>3, <1>4, <1>5, <2>2, RestsBy
    <3>2. Settles(t, d, new)
      BY <2>1, <2>2, <3>1 DEF Settles
    <3> QED
      BY <1>5, <2>1, <2>2, <3>2
  <2>3. CASE hook[d] # Null
    <3>1. hook[d] \in Keys /\ "handover" \in KeyPCs
      BY <1>d, <2>3, Waits DEF KeyPCs, TokenPCs
    <3>2. Set(t, Append(Below(t), Frame("handover", d, hook[d])))
      BY <1>4, <1>5, <2>3 DEF PassedOn
    <3>3. Goes(t, "handover", d, hook[d])
      BY <1>d, <1>3, <3>1, <3>2, GoesBy
    <3> QED
      BY <1>5, <2>1, <2>3, <3>3
  <2> QED
    BY <2>2, <2>3
<1>6. CASE d \notin Wrappers /\ done
  <2>1. Settles(t, d, "done")
    BY <1>d, <1>3, <1>4, <1>6, SettleView
  <2> QED
    BY <1>6, <2>1
<1>7. CASE d \notin Wrappers /\ ~done
  <2>1. Rests(t)
    BY <1>3, <1>4, <1>7, RestsBy
  <2>2. state' = [state EXCEPT ![d] = "started"] /\ UNCHANGED hook
    BY <1>4, <1>7
  <2> QED
    BY <1>7, <2>1, <2>2
<1> QED
  BY <1>5, <1>6, <1>7

LEMMA FinishView ==
  ASSUME TypeInv, NEW t \in Threads, NEW d \in Deferreds, Finish(t, d)
  PROVE  /\ ~Busy(t) /\ state[d] \in {"started", "handed"} /\ Settles(t, d, "done")
         /\ UNCHANGED <<pool, history>>
<1>1. Ground(t, <<>>)
  BY DEF Ground
<1> QED
  BY <1>1, SettleView DEF Finish

LEMMA HandoverView ==
  ASSUME TypeInv, NEW t \in Threads, Handover(t)
  PROVE  /\ TopIs(t, "handover") /\ Top(t).d \in Deferreds /\ Top(t).k \in Keys
         /\ running' = Bind(running, Top(t).k, [d |-> Top(t).d, part |-> "work"])
         /\ Goes(t, "rehook", Top(t).d, Top(t).k)
         /\ UNCHANGED <<queue, concurrency, finalizeFunc, wLock, gates, history>>
<1>1. "handover" \in KeyPCs /\ "rehook" \in KeyPCs
  BY DEF KeyPCs, TokenPCs
<1>2. TopIs(t, "handover") /\ Set(t, Goto(t, "rehook"))
  BY DEF Handover
<1>3. Busy(t) /\ Top(t).pc \in KeyPCs /\ Top(t).d \in Deferreds /\ Top(t).k \in Keys
  BY <1>1, <1>2, TopKeys
<1>4. Goes(t, "rehook", Top(t).d, Top(t).k)
  BY <1>1, <1>2, <1>3, KeyGoto
<1> QED
  BY <1>2, <1>3, <1>4 DEF Handover

LEMMA RehookView ==
  ASSUME TypeInv, NEW t \in Threads, Rehook(t)
  PROVE  /\ TopIs(t, "rehook") /\ Top(t).d \in Deferreds /\ Top(t).k \in Keys
         /\ \/ /\ state[Top(t).d] = "done" /\ UNCHANGED hook
               /\ Goes(t, "remove", Top(t).d, Top(t).k)
            \/ /\ state[Top(t).d] # "done" /\ Rests(t)
               /\ stack' = [stack EXCEPT ![t] = Below(t)]
               /\ hook' = [hook EXCEPT ![Top(t).d] = Top(t).k]
         /\ UNCHANGED <<pool, state, history>>
<1>1. "remove" \in KeyPCs /\ "rehook" \in KeyPCs
  BY DEF KeyPCs, TokenPCs
<1>2. TopIs(t, "rehook") /\ UNCHANGED <<pool, state, history>>
  BY DEF Rehook
<1>3. Busy(t) /\ Top(t).pc \in KeyPCs /\ Top(t).d \in Deferreds /\ Top(t).k \in Keys
  BY <1>1, <1>2, TopKeys
<1>4. CASE state[Top(t).d] = "done"
  <2>1. Set(t, Goto(t, "remove")) /\ UNCHANGED hook
    BY <1>4 DEF Rehook
  <2> QED
    BY <1>1, <1>2, <1>3, <1>4, <2>1, KeyGoto
<1>5. CASE state[Top(t).d] # "done"
  <2>1. Set(t, Below(t)) /\ hook' = [hook EXCEPT ![Top(t).d] = Top(t).k]
    BY <1>5 DEF Rehook
  <2> QED
    BY <1>2, <1>3, <1>5, <2>1, GroundBelow, RestsBy DEF Set
<1> QED
  BY <1>4, <1>5

LEMMA RemoveView ==
  ASSUME TypeInv, NEW t \in Threads, Remove(t)
  PROVE  /\ TopIs(t, "remove") /\ Top(t).d \in Deferreds /\ Top(t).k \in Keys
         /\ running' = Unbind(running, Top(t).k)
         /\ Goes(t, "resume", Null, Null)
         /\ UNCHANGED <<queue, concurrency, finalizeFunc, wLock, gates, history>>
<1>1. "remove" \in KeyPCs
  BY DEF KeyPCs, TokenPCs
<1>2. TopIs(t, "remove") /\ Set(t, Replaced(t, Resuming)) /\ running' = Unbind(running, Top(t).k)
  BY DEF Remove, RemoveThen, Removed
<1>3. Busy(t) /\ Top(t).d \in Deferreds /\ Top(t).k \in Keys
  BY <1>1, <1>2, TopKeys
<1> QED
  BY <1>2, <1>3, ResumingGoes DEF Remove

LEMMA DrainView ==
  ASSUME TypeInv, NEW t \in Threads, Drain(t)
  PROVE  /\ \E f : /\ Tops(t, f) /\ f.pc = "drain" /\ f.list = <<>>
                   /\ f.todo = {running[k] : k \in DOMAIN running}
         /\ drained' \subseteq Deferreds
         /\ UNCHANGED <<pool, gates, keyOf>>
<1> DEFINE todo == {running[k] : k \in DOMAIN running}
           f == [Frame("drain", Null, Null) EXCEPT !.todo = todo]
<1>1. running \in [DOMAIN running -> Slots] /\ queue \in [DOMAIN queue -> Deferreds]
  BY PartialIs DEF TypeInv, TypeOK
<1>3. ClientRuns(t) /\ Set(t, Append(stack[t], f)) /\ UNCHANGED <<pool, gates, keyOf>>
  BY DEF Drain
<1>a. todo \in SUBSET Slots
  BY <1>1
<1> HIDE DEF todo
<1>b. /\ f = [pc |-> "drain", d |-> Null, k |-> Null, list |-> <<>>, todo |-> todo]
  BY DEF Frame
<1>c. f \in Frames
  <2>1. Frame("drain", Null, Null) \in Frames
    BY DEF Frame, Frames, CodePCs
  <2> QED
    BY <1>a, <2>1 DEF Frames
<1>2. FrameOK(f) /\ f.pc = "drain" /\ f.list = <<>> /\ f.todo = todo
  BY <1>b, <1>c DEF FrameOK, KeyPCs, TokenPCs
<1>4. drained' \subseteq Deferreds
  BY <1>1 DEF Drain
<1> HIDE DEF f
<1>5. Tops(t, f)
  BY <1>2, <1>3, ClientGround, TopsBy
<1> QED
  BY <1>2, <1>3, <1>4, <1>5 DEF todo

LEMMA DrainRunningView ==
  ASSUME TypeInv, NEW t \in Threads, DrainRunning(t)
  PROVE  /\ TopIs(t, "drain") /\ UNCHANGED <<pool, history>>
         /\ \/ \E x \in Top(t).todo : x.d \in Deferreds /\ Cancels(t, x.d)
            \/ Goes(t, "drainqueue", Top(t).d, Null) /\ UNCHANGED gates
<1>1. TopIs(t, "drain") /\ UNCHANGED <<pool, history>>
  BY DEF DrainRunning
<1>2. Busy(t) /\ Top(t).pc = "drain" /\ FrameOK(Top(t)) /\ Top(t) \in Frames
  BY <1>1, TopOK DEF TopIs
<1>3. CASE Top(t).todo = {} /\ Set(t, Goto(t, "drainqueue")) /\ UNCHANGED gates
  <2>1. Goes(t, "drainqueue", Top(t).d, Null)
    BY <1>2, <1>3, PlainGoto
  <2> QED
    BY <1>1, <1>3, <2>1
<1>4. CASE \E x \in Top(t).todo :
             CancelSlot(t, x, Replaced(t, [Top(t) EXCEPT !.todo = @ \ {x}]))
  <2>1. PICK x \in Top(t).todo :
          CancelSlot(t, x, Replaced(t, [Top(t) EXCEPT !.todo = @ \ {x}]))
    BY <1>4
  <2> DEFINE f == [Top(t) EXCEPT !.todo = @ \ {x}]
  <2>2. x \in Slots /\ f \in Frames /\ f.pc = "drain" /\ f.list = Top(t).list
        /\ f.d = Top(t).d /\ f.k = Top(t).k /\ f.todo \subseteq Top(t).todo
    BY <1>2 DEF Frames
  <2>3. CancelSlot(t, x, Replaced(t, f))
    BY <2>1
  <2> HIDE DEF f
  <2>4. FrameOK(f) /\ f.list = <<>>
    BY <1>2, <2>2 DEF FrameOK, KeyPCs, TokenPCs
  <2>5. Ground(t, Replaced(t, f))
    <3>1. Replaced(t, f) = Append(Below(t), f)
      BY <1>2, <2>2, ReplacedIs
    <3>2. f.pc \in Lower /\ f.pc # "callback"
      BY <2>2 DEF Lower
    <3>3. Ground(t, Below(t)) /\ Len(Below(t)) < Len(stack[t]) /\ stack[t][Len(Below(t)) + 1] = Top(t)
      <4>1. Ground(t, Below(t)) /\ Len(Below(t)) = Len(stack[t]) - 1
        BY <1>2, GroundBelow
      <4>2. Len(stack[t]) \in Nat
        BY Stacked
      <4> QED
        BY <4>1, <4>2 DEF Top
    <3> QED
      BY <2>2, <2>4, <3>1, <3>2, <3>3, GroundAppend
  <2>6. Cancels(t, x.d) /\ x.d \in Deferreds
    BY <2>2, <2>3, <2>5, CancelView DEF Slots
  <2> QED
    BY <1>1, <2>6
<1> QED
  BY <1>3, <1>4 DEF DrainRunning

LEMMA DrainQueueView ==
  ASSUME TypeInv, NEW t \in Threads, DrainQueue(t)
  PROVE  /\ TopIs(t, "drainqueue")
         /\ \E k \in DOMAIN queue :
              queue[k] \in Deferreds /\ queue' = Unbind(queue, k) /\ Cancels(t, queue[k])
         /\ UNCHANGED <<running, concurrency, finalizeFunc, wLock, history>>
<1>1. TopIs(t, "drainqueue")
      /\ UNCHANGED <<running, concurrency, finalizeFunc, wLock, history>>
  BY DEF DrainQueue
<1>2. Busy(t) /\ Top(t).pc \in Lower
  BY <1>1 DEF TopIs, Lower
<1>3. PICK k \in Firsts :
        queue' = Unbind(queue, k) /\ CancelSlot(t, [d |-> queue[k], part |-> "gate"], stack[t])
  BY DEF DrainQueue, Dequeued
<1>4. k \in DOMAIN queue
  BY DEF Firsts
<1>5. queue[k] \in Deferreds
  BY <1>4, PartialIs DEF TypeInv, TypeOK
<1>6. [d |-> queue[k], part |-> "gate"] \in Slots
  BY <1>5 DEF Slots
<1>7. Ground(t, stack[t])
  BY <1>2, GroundAll
<1>8. Cancels(t, [d |-> queue[k], part |-> "gate"].d)
  BY <1>3, <1>6, <1>7, CancelView
<1>9. Cancels(t, queue[k])
  BY <1>8
<1> QED
  BY <1>1, <1>3, <1>4, <1>5, <1>9

LEMMA DrainReturnsView ==
  ASSUME TypeInv, NEW t \in Threads, DrainReturns(t)
  PROVE  TopIs(t, "drainqueue") /\ Rests(t) /\ UNCHANGED <<pool, gates, history>>
BY GroundBelow, RestsBy DEF DrainReturns, TopIs

LEMMA CancelActView ==
  ASSUME TypeInv, NEW t \in Threads, NEW d \in Deferreds, Cancel(t, d)
  PROVE  /\ ClientRuns(t) /\ Cancels(t, d) /\ UNCHANGED <<pool, history>>
         /\ state[d] = "idle" => "cancel" \in Liberties
<1>1. /\ ClientRuns(t) /\ UNCHANGED <<pool, history>>
      /\ CancelSlot(t, [d |-> d, part |-> "work"], stack[t])
      /\ state[d] = "idle" => "cancel" \in Liberties
  BY DEF Cancel
<1>2. [d |-> d, part |-> "work"] \in Slots
  BY DEF Slots
<1>3. Cancels(t, [d |-> d, part |-> "work"].d)
  BY <1>1, <1>2, ClientGround, CancelView
<1> QED
  BY <1>1, <1>3

LEMMA RaiseView ==
  ASSUME TypeInv, NEW t \in Threads, Raise(t)
  PROVE  /\ "raise" \in Liberties /\ Busy(t) /\ Top(t).pc \in ClientPCs /\ Rests(t)
         /\ UNCHANGED <<pool, gates, history>>
<1>1. PICK i \in 0..Len(stack[t]) - 1 : Set(t, SubSeq(stack[t], 1, i))
  BY DEF Raise
<1>2. Len(stack[t]) \in Nat
  BY Stacked
<1>3. i \in 0..Len(stack[t]) /\ i < Len(stack[t])
  BY <1>1, <1>2
<1>4. Ground(t, SubSeq(stack[t], 1, i))
  BY <1>3, GroundSub
<1> QED
  BY <1>1, <1>4, RestsBy DEF Raise

-----------------------------------------------------------------------------
(* Types are kept *)

StacksKept == stack' \in [Threads -> Seq(Frames)] /\ FramesInv'

LEMMA KeptByMove ==
  ASSUME TypeInv, NEW t \in Threads, Rests(t) \/ \E f : Tops(t, f)
  PROVE  StacksKept
BY RestsShape, TopsShape, FramesRest, FramesTop DEF StacksKept

LEMMA KeptByGoes ==
  ASSUME TypeInv, NEW t \in Threads, NEW pc, NEW d, NEW k, Goes(t, pc, d, k)
  PROVE  StacksKept
BY KeptByMove DEF Goes

LEMMA KeptBySettles ==
  ASSUME TypeInv, NEW t \in Threads, NEW d \in Deferreds, NEW new \in States, Settles(t, d, new)
  PROVE  StacksKept /\ state' \in [Deferreds -> States] /\ hook' \in [Deferreds -> Keys \cup {Null}]
<1>1. state \in [Deferreds -> States] /\ hook \in [Deferreds -> Keys \cup {Null}]
  BY DEF TypeInv, TypeOK
<1>2. StacksKept
  BY KeptByMove DEF Settles
<1> QED
  BY <1>1, <1>2 DEF Settles

LEMMA KeptByCancels ==
  ASSUME TypeInv, NEW t \in Threads, NEW d \in Deferreds, Cancels(t, d)
  PROVE  StacksKept /\ state' \in [Deferreds -> States] /\ hook' \in [Deferreds -> Keys \cup {Null}]
<1>1. state \in [Deferreds -> States] /\ hook \in [Deferreds -> Keys \cup {Null}]
  BY DEF TypeInv, TypeOK
<1>2. "cancelled" \in States /\ "done" \in States
  BY DEF States
<1> QED
  BY <1>1, <1>2, KeptBySettles, KeptByMove DEF Cancels, gates

LEMMA CarriesTops ==
  ASSUME TypeInv, NEW t \in Threads, NEW pc, Carries(t, pc)
  PROVE  \E f : Tops(t, f) /\ f.pc = pc /\ f.list = Top(t).list
BY GroundBelow DEF Carries, Tops

LEMMA ListsTops ==
  ASSUME TypeInv, NEW t \in Threads, NEW k, Lists(t, k)
  PROVE  \E f : Tops(t, f) /\ f.pc = "fill" /\ f.list = Append(Top(t).list, queue[k])
BY GroundBelow DEF Lists, Tops

\* Where frames f and g are on the stack once a gate's callback is called
LEMMA TwoFrames ==
  ASSUME TypeInv, NEW t \in Threads, Busy(t), NEW f \in Frames, NEW g \in Frames
  PROVE  LET s == Append(Append(Below(t), f), g)
             n == Len(stack[t])
         IN /\ s \in Seq(Frames) /\ n \in Nat /\ n > 0 /\ Len(s) = n + 1
            /\ s[n] = f /\ s[n + 1] = g /\ \A i \in 1..n - 1 : s[i] = stack[t][i]
<1> DEFINE b == Below(t)
           r == Append(b, f)
           s == Append(r, g)
           n == Len(stack[t])
<1>1. n \in Nat /\ n > 0 /\ Len(b) = n - 1 /\ b \in Seq(Frames)
  BY TopOK, Stacked, GroundBelow DEF Ground
<1>2. \A i \in 1..n - 1 : b[i] = stack[t][i]
  BY <1>1, Stacked, SubFrames DEF Below
<1> HIDE DEF b
<1>3. r \in Seq(Frames) /\ Len(r) = n /\ r[n] = f /\ \A i \in 1..n - 1 : r[i] = stack[t][i]
  BY <1>1, <1>2, AppendFrame
<1> HIDE DEF r
<1>4. /\ s \in Seq(Frames) /\ Len(s) = n + 1 /\ s[n] = f /\ s[n + 1] = g
      /\ \A i \in 1..n - 1 : s[i] = stack[t][i]
  BY <1>1, <1>3, AppendFrame
<1> QED
  BY <1>1, <1>4 DEF r, b

LEMMA KeptByStart ==
  ASSUME TypeInv, NEW t \in Threads, Start(t)
  PROVE  StacksKept /\ state' \in [Deferreds -> States]
<1> DEFINE d == Head(Top(t).list)
<1>1. state \in [Deferreds -> States] /\ stack \in [Threads -> Seq(Frames)]
  BY DEF TypeInv, TypeOK
<1>2. state' = [state EXCEPT ![d] = "starting"] \/ state' = [state EXCEPT ![d] = "spent"]
  BY StartView
<1>3. state' \in [Deferreds -> States]
  BY <1>1, <1>2 DEF States
<1>4. Busy(t)
  BY StartView DEF TopIs
<1>5. ASSUME NEW f, FrameOK(f), stack' = [stack EXCEPT ![t] = Append(Below(t), f)]
      PROVE  StacksKept
  BY <1>4, <1>5, GroundBelow, KeptByMove DEF Tops
<1>6. ASSUME NEW f, FrameOK(f), f.pc = "start", NEW g, FrameOK(g),
             stack' = [stack EXCEPT ![t] = Append(Append(Below(t), f), g)]
      PROVE  StacksKept
  <2> DEFINE s == Append(Append(Below(t), f), g)
             n == Len(stack[t])
  <2>1. f \in Frames /\ g \in Frames
    BY <1>6 DEF FrameOK
  <2>2. /\ s \in Seq(Frames) /\ n \in Nat /\ n > 0 /\ Len(s) = n + 1
        /\ s[n] = f /\ s[n + 1] = g /\ \A i \in 1..n - 1 : s[i] = stack[t][i]
    BY <1>4, <2>1, TwoFrames
  <2>3. stack' = [stack EXCEPT ![t] = s]
    BY <1>6
  <2> HIDE DEF s
  <2>4. /\ stack' \in [Threads -> Seq(Frames)] /\ stack'[t] = s
        /\ \A u \in Threads \ {t} : stack'[u] = stack[u]
    BY <1>1, <2>2, <2>3
  <2>5. \A i \in 1..Len(s) : i \in 1..n - 1 \/ i = n \/ i = n + 1
    BY <2>2
  <2>6. "start" \in Lower
    BY DEF Lower
  <2>7. ASSUME NEW i \in 1..Len(s)
        PROVE  FrameOK(s[i]) /\ (i < Len(s) => s[i].pc \in Lower)
    <3>1. CASE i \in 1..n - 1
      <4>1. i \in 1..n /\ i < n /\ s[i] = stack[t][i]
        BY <2>2, <3>1
      <4> QED
        BY <4>1, Stacked
    <3>2. CASE i = n
      BY <1>6, <2>2, <2>6, <3>2
    <3>3. CASE i = n + 1
      BY <1>6, <2>2, <3>3
    <3> QED
      BY <2>5, <3>1, <3>2, <3>3
  <2> QED
    BY <2>4, <2>7 DEF StacksKept, FramesInv, TypeInv
<1> QED
  BY <1>3, <1>5, <1>6, StartView

LEMMA TableKept ==
  ASSUME TypeInv, NEW k \in Keys, NEW x \in Slots
  PROVE  /\ Bind(running, k, x) \in Partial(Keys, Slots)
         /\ IsFiniteSet(DOMAIN Bind(running, k, x))
         /\ Cardinality(DOMAIN running) <= Cardinality(DOMAIN Bind(running, k, x))
<1>1. running \in Partial(Keys, Slots) /\ IsFiniteSet(DOMAIN running)
  BY DEF TypeInv, TypeOK
<1>2. Bind(running, k, x) \in Partial(Keys, Slots)
      /\ DOMAIN Bind(running, k, x) = DOMAIN running \cup {k}
  BY <1>1, BindType
<1>3. IsFiniteSet(DOMAIN running \cup {k}) /\ Cardinality(DOMAIN running) \in Nat
      /\ Cardinality(DOMAIN running \cup {k}) = IF k \in DOMAIN running THEN Cardinality(DOMAIN running)
                                                ELSE Cardinality(DOMAIN running) + 1
  BY <1>1, FS_AddElement, FS_CardinalityType
<1> QED
  BY <1>2, <1>3

\* The rest of the types, when stacks and gates keep theirs
GatesKept == state' \in [Deferreds -> States] /\ hook' \in [Deferreds -> Keys \cup {Null}]

LEMMA KeptByRest ==
  ASSUME TypeInv, StacksKept, GatesKept,
         queue' \in Partial(Keys, Deferreds),
         running' \in Partial(Keys, Slots), IsFiniteSet(DOMAIN running)',
         wLock' \in Threads \cup {Null}, concurrency' \in Nat, finalizeFunc' \in BOOLEAN,
         keyOf' \in [Deferreds -> Keys \cup {Null}], drained' \subseteq Deferreds
  PROVE  TypeInv'
BY DEF TypeInv, TypeOK, StacksKept, GatesKept

LEMMA Now ==
  ASSUME TypeInv
  PROVE  /\ GatesKept \/ ~UNCHANGED gates
         /\ queue \in Partial(Keys, Deferreds) /\ running \in Partial(Keys, Slots)
         /\ IsFiniteSet(DOMAIN running) /\ wLock \in Threads \cup {Null} /\ concurrency \in Nat
         /\ finalizeFunc \in BOOLEAN /\ keyOf \in [Deferreds -> Keys \cup {Null}]
         /\ drained \subseteq Deferreds
         /\ state \in [Deferreds -> States] /\ hook \in [Deferreds -> Keys \cup {Null}]
BY DEF TypeInv, TypeOK, GatesKept, gates

LEMMA TypeQuiet ==
  ASSUME TypeInv, StacksKept, GatesKept, UNCHANGED <<pool, history>>
  PROVE  TypeInv'
<1>1. UNCHANGED <<queue, running, concurrency, finalizeFunc, wLock, keyOf, drained>>
  BY DEF pool, history
<1>2. IsFiniteSet(DOMAIN running)'
  BY <1>1, Now
<1> QED
  BY <1>1, <1>2, Now, KeptByRest

LEMMA TypeAdding ==
  ASSUME TypeInv, NEW t \in Threads
  PROVE  /\ (\E d \in Deferreds, k \in Keys : Add(t, d, k)) => TypeInv'
         /\ Enqueue(t) => TypeInv'
         /\ Hook(t) => TypeInv'
         /\ Reject(t) => TypeInv'
<1>1. ASSUME NEW d \in Deferreds, NEW k \in Keys, Add(t, d, k) PROVE TypeInv'
  <2>1. StacksKept
    BY <1>1, AddView, KeptByGoes
  <2>2. GatesKept /\ UNCHANGED <<pool, history>>
    BY <1>1, Now DEF Add
  <2> QED
    BY <2>1, <2>2, TypeQuiet
<1>2. ASSUME Enqueue(t) PROVE TypeInv'
  <2> DEFINE d == Top(t).d
             k == Top(t).k
  <2>1. StacksKept /\ d \in Deferreds /\ k \in Keys
    BY <1>2, EnqueueView, KeptByGoes
  <2>2. GatesKept /\ UNCHANGED <<running, concurrency, finalizeFunc, wLock, drained>>
    BY <1>2, Now, EnqueueView
  <2>3. \/ queue' = queue /\ keyOf' = keyOf
        \/ queue' = Bind(queue, k, d) /\ keyOf' = [keyOf EXCEPT ![d] = k]
    BY <1>2, EnqueueView
  <2> HIDE DEF d, k
  <2>4. queue' \in Partial(Keys, Deferreds)
    <3>1. queue \in Partial(Keys, Deferreds)
      BY Now
    <3>2. Bind(queue, k, d) \in Partial(Keys, Deferreds)
      BY <2>1, <3>1, BindType
    <3> QED
      BY <2>3, <3>1, <3>2
  <2>5. keyOf' \in [Deferreds -> Keys \cup {Null}]
    BY <2>1, <2>3, Now
  <2>6. IsFiniteSet(DOMAIN running)'
    BY <2>2, Now
  <2> QED
    BY <2>1, <2>2, <2>4, <2>5, <2>6, Now, KeptByRest
<1>3. ASSUME Hook(t) PROVE TypeInv'
  <2>1. StacksKept
    BY <1>3, HookView, KeptByGoes
  <2>2. Top(t).d \in Deferreds /\ Top(t).k \in Keys /\ UNCHANGED <<pool, state, history>>
        /\ (UNCHANGED hook \/ hook' = [hook EXCEPT ![Top(t).d] = Top(t).k])
    BY <1>3, HookView
  <2>3. GatesKept
    BY <2>2, Now DEF GatesKept
  <2> QED
    BY <2>1, <2>2, <2>3, TypeQuiet
<1>4. ASSUME Reject(t) PROVE TypeInv'
  BY <1>4, RejectView, KeptByCancels, TypeQuiet DEF GatesKept
<1> QED
  BY <1>1, <1>2, <1>3, <1>4

LEMMA TypeResuming ==
  ASSUME TypeInv, NEW t \in Threads
  PROVE  /\ ResumeLock(t) => TypeInv'
         /\ Fill(t) => TypeInv'
         /\ Filled(t) => TypeInv'
         /\ FinalizeReturns(t) => TypeInv'
         /\ Start(t) => TypeInv'
         /\ ResumeReturns(t) => TypeInv'
<1>1. ASSUME ResumeLock(t) PROVE TypeInv'
  <2>1. StacksKept /\ wLock' = t
        /\ UNCHANGED <<queue, running, concurrency, finalizeFunc, gates, history>>
    BY <1>1, ResumeLockView, KeptByGoes
  <2>2. GatesKept /\ IsFiniteSet(DOMAIN running)'
    BY <2>1, Now
  <2> QED
    BY <2>1, <2>2, Now, KeptByRest DEF history
<1>2. ASSUME Fill(t) PROVE TypeInv'
  <2>1. PICK k \in Firsts :
          /\ k \in DOMAIN queue /\ queue' = Unbind(queue, k)
          /\ running' = Bind(running, k, [d |-> queue[k], part |-> "gate"])
          /\ Lists(t, k)
    BY <1>2, FillView
  <2>2. queue \in [DOMAIN queue -> Deferreds] /\ DOMAIN queue \subseteq Keys
    BY Now, PartialIs
  <2>3. k \in Keys /\ [d |-> queue[k], part |-> "gate"] \in Slots
    BY <2>1, <2>2 DEF Slots
  <2>4. running' \in Partial(Keys, Slots) /\ IsFiniteSet(DOMAIN running')
    BY <2>1, <2>3, TableKept
  <2>5. queue' \in Partial(Keys, Deferreds)
    BY <2>1, Now, UnbindType
  <2>6. StacksKept
    BY <2>1, ListsTops, KeptByMove
  <2>7. UNCHANGED <<concurrency, finalizeFunc, wLock, gates, history>>
    BY <1>2, FillView
  <2>8. GatesKept /\ IsFiniteSet(DOMAIN running)'
    BY <2>4, <2>7, Now
  <2> QED
    BY <2>4, <2>5, <2>6, <2>7, <2>8, Now, KeptByRest DEF history
<1>3. ASSUME Filled(t) PROVE TypeInv'
  <2>1. StacksKept
    BY <1>3, FilledView, CarriesTops, KeptByMove
  <2>2. (UNCHANGED wLock \/ wLock' = Null)
        /\ UNCHANGED <<queue, running, concurrency, finalizeFunc, gates, history>>
    BY <1>3, FilledView
  <2>3. GatesKept /\ IsFiniteSet(DOMAIN running)' /\ wLock' \in Threads \cup {Null}
    BY <2>2, Now
  <2> QED
    BY <2>1, <2>2, <2>3, Now, KeptByRest DEF history
<1>4. ASSUME FinalizeReturns(t) PROVE TypeInv'
  <2>1. StacksKept
    BY <1>4, FinalizeReturnsView, CarriesTops, KeptByMove
  <2>2. wLock' = Null /\ UNCHANGED <<queue, running, concurrency, finalizeFunc, gates, history>>
    BY <1>4, FinalizeReturnsView
  <2>3. GatesKept /\ IsFiniteSet(DOMAIN running)'
    BY <2>2, Now
  <2> QED
    BY <2>1, <2>2, <2>3, Now, KeptByRest DEF history
<1>5. ASSUME Start(t) PROVE TypeInv'
  <2>1. StacksKept /\ state' \in [Deferreds -> States] /\ UNCHANGED <<pool, hook, history>>
    BY <1>5, KeptByStart, StartView
  <2> QED
    BY <2>1, Now, TypeQuiet DEF GatesKept
<1>6. ASSUME ResumeReturns(t) PROVE TypeInv'
  BY <1>6, ResumeReturnsView, KeptByMove, Now, TypeQuiet
<1> QED
  BY <1>1, <1>2, <1>3, <1>4, <1>5, <1>6

LEMMA TypeRemoving ==
  ASSUME TypeInv, NEW t \in Threads
  PROVE  /\ StartReturns(t) => TypeInv'
         /\ (\E d \in Deferreds : Finish(t, d)) => TypeInv'
         /\ Handover(t) => TypeInv'
         /\ Rehook(t) => TypeInv'
         /\ Remove(t) => TypeInv'
<1>1. ASSUME StartReturns(t) PROVE TypeInv'
  <2> DEFINE d == Top(t).d
  <2>1. d \in Deferreds /\ UNCHANGED <<pool, history>>
    BY <1>1, StartReturnsView
  <2>2. PICK new \in States :
          \/ /\ state' = [state EXCEPT ![d] = new]
             /\ hook' = [hook EXCEPT ![d] = Null]
             /\ Goes(t, "handover", d, hook[d])
          \/ Settles(t, d, new)
          \/ state' = [state EXCEPT ![d] = new] /\ Rests(t) /\ UNCHANGED hook
    BY <1>1, StartReturnsView DEF States
  <2> HIDE DEF d
  <2>3. StacksKept /\ GatesKept
    BY <2>1, <2>2, Now, KeptByGoes, KeptBySettles, KeptByMove DEF GatesKept
  <2> QED
    BY <2>1, <2>3, TypeQuiet
<1>2. ASSUME NEW d \in Deferreds, Finish(t, d) PROVE TypeInv'
  <2>1. Settles(t, d, "done") /\ UNCHANGED <<pool, history>> /\ "done" \in States
    BY <1>2, FinishView DEF States
  <2> QED
    BY <2>1, KeptBySettles, TypeQuiet DEF GatesKept
<1>3. ASSUME Handover(t) PROVE TypeInv'
  <2>1. /\ Top(t).d \in Deferreds /\ Top(t).k \in Keys
        /\ running' = Bind(running, Top(t).k, [d |-> Top(t).d, part |-> "work"])
        /\ UNCHANGED <<queue, concurrency, finalizeFunc, wLock, gates, history>>
        /\ StacksKept
    BY <1>3, HandoverView, KeptByGoes
  <2>2. [d |-> Top(t).d, part |-> "work"] \in Slots
    BY <2>1 DEF Slots
  <2>3. running' \in Partial(Keys, Slots) /\ IsFiniteSet(DOMAIN running')
    BY <2>1, <2>2, TableKept
  <2>4. GatesKept /\ IsFiniteSet(DOMAIN running)'
    BY <2>1, <2>3, Now
  <2> QED
    BY <2>1, <2>3, <2>4, Now, KeptByRest DEF history
<1>4. ASSUME Rehook(t) PROVE TypeInv'
  <2>1. StacksKept
    BY <1>4, RehookView, KeptByGoes, KeptByMove
  <2>2. Top(t).d \in Deferreds /\ Top(t).k \in Keys /\ UNCHANGED <<pool, state, history>>
        /\ (UNCHANGED hook \/ hook' = [hook EXCEPT ![Top(t).d] = Top(t).k])
    BY <1>4, RehookView
  <2>3. GatesKept
    BY <2>2, Now DEF GatesKept
  <2> QED
    BY <2>1, <2>2, <2>3, TypeQuiet
<1>5. ASSUME Remove(t) PROVE TypeInv'
  <2>1. /\ running' = Unbind(running, Top(t).k)
        /\ UNCHANGED <<queue, concurrency, finalizeFunc, wLock, gates, history>>
        /\ StacksKept
    BY <1>5, RemoveView, KeptByGoes
  <2>2. running' \in Partial(Keys, Slots) /\ DOMAIN running' \subseteq DOMAIN running
    <3>1. running \in Partial(Keys, Slots)
      BY Now
    <3> DEFINE k == Top(t).k
    <3>2. running' = Unbind(running, k)
      BY <2>1
    <3> HIDE DEF k
    <3>3. Unbind(running, k) \in Partial(Keys, Slots)
      BY <3>1, UnbindType
    <3>4. DOMAIN Unbind(running, k) = DOMAIN running \ {k}
      BY DEF Unbind, Restrict
    <3> QED
      BY <3>2, <3>3, <3>4
  <2>3. IsFiniteSet(DOMAIN running')
    BY <2>2, Now, FS_Subset
  <2>4. GatesKept /\ IsFiniteSet(DOMAIN running)'
    BY <2>1, <2>3, Now
  <2> QED
    BY <2>1, <2>2, <2>4, Now, KeptByRest DEF history
<1> QED
  BY <1>1, <1>2, <1>3, <1>4, <1>5

LEMMA TypeDraining ==
  ASSUME TypeInv, NEW t \in Threads
  PROVE  /\ DrainRunning(t) => TypeInv'
         /\ DrainQueue(t) => TypeInv'
         /\ DrainReturns(t) => TypeInv'
         /\ Drain(t) => TypeInv'
         /\ (\E d \in Deferreds : Cancel(t, d)) => TypeInv'
         /\ Raise(t) => TypeInv'
<1>1. ASSUME DrainRunning(t) PROVE TypeInv'
  <2>1. UNCHANGED <<pool, history>>
    BY <1>1, DrainRunningView
  <2>2. CASE \E d \in Deferreds : Cancels(t, d)
    BY <2>1, <2>2, KeptByCancels, TypeQuiet DEF GatesKept
  <2>3. CASE Goes(t, "drainqueue", Top(t).d, Null) /\ UNCHANGED gates
    BY <2>1, <2>3, KeptByGoes, Now, TypeQuiet
  <2> QED
    BY <1>1, <2>2, <2>3, DrainRunningView
<1>2. ASSUME DrainQueue(t) PROVE TypeInv'
  <2>1. PICK k \in DOMAIN queue :
          queue[k] \in Deferreds /\ queue' = Unbind(queue, k) /\ Cancels(t, queue[k])
    BY <1>2, DrainQueueView
  <2>2. StacksKept /\ GatesKept
    BY <2>1, KeptByCancels DEF GatesKept
  <2>3. queue' \in Partial(Keys, Deferreds)
    BY <2>1, Now, UnbindType
  <2>4. UNCHANGED <<running, concurrency, finalizeFunc, wLock, history>>
    BY <1>2, DrainQueueView
  <2>5. IsFiniteSet(DOMAIN running)'
    BY <2>4, Now
  <2> QED
    BY <2>2, <2>3, <2>4, <2>5, Now, KeptByRest DEF history
<1>3. ASSUME DrainReturns(t) PROVE TypeInv'
  BY <1>3, DrainReturnsView, KeptByMove, Now, TypeQuiet
<1>4. ASSUME Drain(t) PROVE TypeInv'
  <2>1. StacksKept /\ drained' \subseteq Deferreds /\ UNCHANGED <<pool, gates, keyOf>>
    BY <1>4, DrainView, KeptByMove
  <2>2. GatesKept /\ IsFiniteSet(DOMAIN running)'
    BY <2>1, Now DEF pool
  <2> QED
    BY <2>1, <2>2, Now, KeptByRest DEF pool
<1>5. ASSUME NEW d \in Deferreds, Cancel(t, d) PROVE TypeInv'
  BY <1>5, CancelActView, KeptByCancels, TypeQuiet DEF GatesKept
<1>6. ASSUME Raise(t) PROVE TypeInv'
  BY <1>6, RaiseView, KeptByMove, Now, TypeQuiet
<1> QED
  BY <1>1, <1>2, <1>3, <1>4, <1>5, <1>6

LEMMA TypeSetting ==
  ASSUME TypeInv, NEW t \in Threads
  PROVE  /\ SetFinalizeFunc(t) => TypeInv'
         /\ SetConcurrency(t) => TypeInv'
         /\ UNCHANGED vars => TypeInv'
<1>1. SetFinalizeFunc(t) => TypeInv'
  BY DEF TypeInv, TypeOK, FramesInv, SetFinalizeFunc, gates, history
<1>2. SetConcurrency(t) => TypeInv'
  BY PoolAssumption DEF TypeInv, TypeOK, FramesInv, SetConcurrency, gates, history
<1>3. UNCHANGED vars => TypeInv'
  BY DEF TypeInv, TypeOK, FramesInv, vars, pool, gates, history
<1> QED
  BY <1>1, <1>2, <1>3

LEMMA TypeInit == Init => TypeInv
<1> SUFFICES ASSUME Init PROVE TypeInv
  OBVIOUS
<1>1. [k \in {} |-> Null] \in Partial(Keys, Deferreds) /\ [k \in {} |-> Null] \in Partial(Keys, Slots)
  BY PartialIs
<1>2. IsFiniteSet(DOMAIN running)
  BY FS_EmptySet DEF Init
<1>3. concurrency \in Nat
  BY PoolAssumption DEF Init
<1>a. queue \in Partial(Keys, Deferreds) /\ running \in Partial(Keys, Slots)
  BY <1>1 DEF Init
<1>c. state \in [Deferreds -> States] /\ hook \in [Deferreds -> Keys \cup {Null}]
  BY DEF Init, States
<1>d. keyOf \in [Deferreds -> Keys \cup {Null}] /\ stack \in [Threads -> Seq(Frames)]
  BY DEF Init
<1>b. /\ finalizeFunc \in BOOLEAN /\ wLock \in Threads \cup {Null} /\ drained \subseteq Deferreds
  BY DEF Init
<1>4. TypeOK
  BY <1>a, <1>b, <1>c, <1>d, <1>3 DEF TypeOK
<1>5. FramesInv
  BY DEF Init, FramesInv
<1> QED
  BY <1>2, <1>4, <1>5 DEF TypeInv

LEMMA TypeStep == TypeInv /\ [Next]_vars => TypeInv'
<1> SUFFICES ASSUME TypeInv, [Next]_vars PROVE TypeInv'
  OBVIOUS
<1>1. CASE UNCHANGED vars
  BY <1>1 DEF TypeInv, TypeOK, FramesInv, vars, pool, gates, history
<1>2. CASE Next
  <2>1. PICK t \in Threads :
          \/ Step(t)
          \/ \E d \in Deferreds : Finish(t, d) \/ Cancel(t, d)
          \/ \E d \in Deferreds, k \in Keys : Add(t, d, k)
          \/ Drain(t) \/ SetFinalizeFunc(t) \/ SetConcurrency(t) \/ Raise(t)
    BY <1>2 DEF Next
  <2> QED
    BY <2>1, TypeAdding, TypeResuming, TypeRemoving, TypeDraining, TypeSetting DEF Step
<1> QED
  BY <1>1, <1>2

LEMMA Typed == Spec => []TypeInv
BY TypeInit, TypeStep, PTL DEF Spec

\* Every variable has its type, whatever the client does (TypeOK).
THEOREM TypeCorrect == Spec => []TypeOK
<1>1. TypeInv => TypeOK
  BY DEF TypeInv
<1> QED
  BY <1>1, Typed, PTL

-----------------------------------------------------------------------------
(* A step of t changes no other stack *)

Act(t) ==
  \/ Step(t)
  \/ \E d \in Deferreds : Finish(t, d) \/ Cancel(t, d)
  \/ \E d \in Deferreds, k \in Keys : Add(t, d, k)
  \/ Drain(t) \/ SetFinalizeFunc(t) \/ SetConcurrency(t) \/ Raise(t)

Elsewhere(t) == \A u \in Threads \ {t} : stack'[u] = stack[u]

LEMMA SetElsewhere ==
  ASSUME TypeInv, NEW t \in Threads, NEW s, Set(t, s)
  PROVE  Elsewhere(t)
BY Stacked DEF Set, Elsewhere

LEMMA CancelElsewhere ==
  ASSUME TypeInv, NEW t \in Threads, NEW x, NEW s, CancelSlot(t, x, s)
  PROVE  Elsewhere(t)
BY SetElsewhere DEF CancelSlot, Settle

LEMMA ActElsewhere ==
  ASSUME TypeInv, NEW t \in Threads, Act(t)
  PROVE  Elsewhere(t)
<1>1. /\ Enqueue(t) => Elsewhere(t)
      /\ Hook(t) => Elsewhere(t)
      /\ Reject(t) => Elsewhere(t)
      /\ \A d \in Deferreds, k \in Keys : Add(t, d, k) => Elsewhere(t)
  BY SetElsewhere, CancelElsewhere DEF Enqueue, Hook, Reject, Add
<1>2. /\ ResumeLock(t) => Elsewhere(t)
      /\ Fill(t) => Elsewhere(t)
      /\ Filled(t) => Elsewhere(t)
      /\ FinalizeReturns(t) => Elsewhere(t)
      /\ ResumeReturns(t) => Elsewhere(t)
  BY SetElsewhere DEF ResumeLock, Fill, Filled, FinalizeReturns, ResumeReturns
<1>3. Start(t) => Elsewhere(t)
  BY SetElsewhere DEF Start
<1>4. StartReturns(t) => Elsewhere(t)
  <2> SUFFICES ASSUME StartReturns(t) PROVE Elsewhere(t)
    OBVIOUS
  <2>1. \E s : Set(t, s)
    BY DEF StartReturns, Settle
  <2> QED
    BY <2>1, SetElsewhere
<1>5. /\ Handover(t) => Elsewhere(t)
      /\ Rehook(t) => Elsewhere(t)
      /\ Remove(t) => Elsewhere(t)
      /\ Drain(t) => Elsewhere(t)
      /\ DrainReturns(t) => Elsewhere(t)
      /\ Raise(t) => Elsewhere(t)
      /\ \A d \in Deferreds : Finish(t, d) => Elsewhere(t)
  BY SetElsewhere DEF Handover, Rehook, Remove, Drain, DrainReturns, Raise, Finish, Settle
<1>6. /\ DrainRunning(t) => Elsewhere(t)
      /\ DrainQueue(t) => Elsewhere(t)
      /\ \A d \in Deferreds : Cancel(t, d) => Elsewhere(t)
  BY SetElsewhere, CancelElsewhere DEF DrainRunning, DrainQueue, Cancel
<1>7. SetFinalizeFunc(t) \/ SetConcurrency(t) => Elsewhere(t)
  BY DEF SetFinalizeFunc, SetConcurrency, Elsewhere
<1> QED
  BY <1>1, <1>2, <1>3, <1>4, <1>5, <1>6, <1>7 DEF Act, Step

-----------------------------------------------------------------------------
(* wLock *)

\* Who has wLock is filling slots, or has the finalizer called.
KeepsLock == \A t \in Threads : wLock = t => TopIs(t, "fill") \/ TopIs(t, "finalize")

LEMMA LockKept ==
  ASSUME TypeInv, KeepsLock, NEW t \in Threads, Elsewhere(t),
         \/ UNCHANGED wLock /\ ~TopIs(t, "fill") /\ ~TopIs(t, "finalize")
         \/ wLock' = Null
         \/ TopIs(t, "fill")' \/ TopIs(t, "finalize")'
         \/ UNCHANGED <<wLock, stack>>,
         wLock' \in {wLock, t, Null}
  PROVE  KeepsLock'
<1> SUFFICES ASSUME NEW u \in Threads, wLock' = u
             PROVE  (TopIs(u, "fill") \/ TopIs(u, "finalize"))'
  BY DEF KeepsLock
<1>1. CASE u # t
  <2>1. wLock = u /\ stack'[u] = stack[u]
    BY <1>1, PoolAssumption DEF Elsewhere
  <2> QED
    BY <2>1 DEF KeepsLock, TopIs, Busy, Top
<1>2. CASE u = t
  BY <1>2, PoolAssumption DEF KeepsLock, TopIs, Busy, Top
<1> QED
  BY <1>1, <1>2

LEMMA LockStep ==
  ASSUME "finalize" \notin Liberties, "raise" \notin Liberties, TypeInv, KeepsLock,
         NEW t \in Threads, Act(t)
  PROVE  KeepsLock'
<1>1. Elsewhere(t)
  BY ActElsewhere
<1> DEFINE Outside == ~TopIs(t, "fill") /\ ~TopIs(t, "finalize")
           Quiet == UNCHANGED wLock /\ Outside
<1>2. Quiet => KeepsLock'
  BY <1>1, LockKept
<1>3. ClientRuns(t) => Outside
  BY DEF ClientRuns, TopIs, ClientPCs
<1>4. /\ Enqueue(t) \/ Hook(t) \/ Reject(t) \/ Start(t) \/ ResumeReturns(t) \/ StartReturns(t) => Quiet
      /\ Handover(t) \/ Rehook(t) \/ Remove(t) => Quiet
      /\ DrainRunning(t) \/ DrainQueue(t) \/ DrainReturns(t) => Quiet
  BY DEF Enqueue, Hook, Reject, Start, ResumeReturns, StartReturns, Handover, Rehook, Remove,
         DrainRunning, DrainQueue, DrainReturns, TopIs, pool
<1>5. \A d \in Deferreds : Finish(t, d) => Quiet
  BY DEF Finish, TopIs, pool
<1>6. /\ \A d \in Deferreds : Cancel(t, d) => Quiet
      /\ \A d \in Deferreds, k \in Keys : Add(t, d, k) => Quiet
      /\ Drain(t) \/ SetFinalizeFunc(t) \/ SetConcurrency(t) => Quiet
  BY <1>3 DEF Cancel, Add, Drain, SetFinalizeFunc, SetConcurrency, pool
<1>7. ResumeLock(t) => KeepsLock'
  <2> SUFFICES ASSUME ResumeLock(t) PROVE KeepsLock'
    OBVIOUS
  <2>1. wLock' = t /\ Goes(t, "fill", Top(t).d, Null)
    BY ResumeLockView
  <2>2. TopIs(t, "fill")'
    BY <2>1, TopsShape DEF Goes, TopIs
  <2> QED
    BY <1>1, <2>1, <2>2, LockKept
<1>8. Fill(t) => KeepsLock'
  <2> SUFFICES ASSUME Fill(t) PROVE KeepsLock'
    OBVIOUS
  <2>1. TopIs(t, "fill")' /\ UNCHANGED wLock
    BY FillView, ListsTops, TopsShape DEF TopIs
  <2> QED
    BY <1>1, <2>1, LockKept
<1>9. Filled(t) => KeepsLock'
  <2> SUFFICES ASSUME Filled(t) PROVE KeepsLock'
    OBVIOUS
  <2>1. (TopIs(t, "finalize")' /\ UNCHANGED wLock) \/ wLock' = Null
    BY FilledView, CarriesTops, TopsShape DEF TopIs
  <2> QED
    BY <1>1, <2>1, LockKept
<1>10. FinalizeReturns(t) => KeepsLock'
  BY <1>1, FinalizeReturnsView, LockKept
<1>11. ~Raise(t)
  BY DEF Raise
<1> HIDE DEF Quiet
<1> QED
  BY <1>2, <1>4, <1>5, <1>6, <1>7, <1>8, <1>9, <1>10, <1>11 DEF Act, Step

\* When the finalizer calls no pool, and no callback raises, the thread that
\* has wLock never comes to wait for it (NoSelfDeadlock).
THEOREM OwnLockIsFree ==
  ASSUME "finalize" \notin Liberties, "raise" \notin Liberties
  PROVE  Spec => []NoSelfDeadlock
<1>1. Init => KeepsLock
  BY PoolAssumption DEF Init, KeepsLock
<1>2. TypeInv /\ KeepsLock /\ [Next]_vars => KeepsLock'
  <2> SUFFICES ASSUME TypeInv, KeepsLock, [Next]_vars PROVE KeepsLock'
    OBVIOUS
  <2>1. CASE UNCHANGED vars
    BY <2>1 DEF KeepsLock, TopIs, Busy, Top, vars, pool
  <2>2. CASE Next
    <3>1. PICK t \in Threads : Act(t)
      BY <2>2 DEF Next, Act
    <3> QED
      BY <3>1, LockStep
  <2> QED
    BY <2>1, <2>2
<1>3. KeepsLock => NoSelfDeadlock
  BY DEF KeepsLock, NoSelfDeadlock, Lockers, TopIs
<1> QED
  BY <1>1, <1>2, <1>3, Typed, PTL DEF Spec

-----------------------------------------------------------------------------
(* No slot stays empty *)

\* t comes to _resumeWaiting before it returns to client code.
Resumes(t) ==
  /\ Busy(t)
  /\ \/ Top(t).pc \in {"hook", "reject", "resume", "fill", "remove"}
     \/ /\ Top(t).pc \in {"handover", "rehook"}
        /\ Len(stack[t]) > 1 /\ stack[t][Len(stack[t]) - 1].pc = "resume"

Conserved ==
  \/ DOMAIN queue = {}
  \/ ~SlotFree
  \/ \E t \in Threads : Resumes(t)

LEMMA ConservedBy ==
  ASSUME Conserved, NEW t \in Threads, Elsewhere(t),
         \/ Resumes(t)'
         \/ DOMAIN queue' = {}
         \/ ~SlotFree'
         \/ /\ ~Resumes(t)
            /\ DOMAIN queue = {} => DOMAIN queue' = {}
            /\ ~SlotFree => ~SlotFree'
  PROVE  Conserved'
<1>1. ASSUME NEW u \in Threads \ {t}, Resumes(u) PROVE Resumes(u)'
  <2>1. stack'[u] = stack[u]
    BY DEF Elsewhere
  <2> QED
    BY <1>1, <2>1 DEF Resumes, Busy, Top
<1>2. CASE Resumes(t)' \/ DOMAIN queue' = {} \/ ~SlotFree'
  BY <1>2 DEF Conserved
<1>3. CASE /\ ~Resumes(t)
           /\ DOMAIN queue = {} => DOMAIN queue' = {}
           /\ ~SlotFree => ~SlotFree'
  BY <1>1, <1>3 DEF Conserved
<1> QED
  BY <1>2, <1>3

LEMMA GoesResumes ==
  ASSUME TypeInv, NEW t \in Threads, NEW pc \in {"hook", "reject", "resume", "fill", "remove"},
         NEW d, NEW k, Goes(t, pc, d, k)
  PROVE  Resumes(t)'
<1>1. PICK f : Tops(t, f) /\ f.pc = pc
  BY DEF Goes
<1>2. Busy(t)' /\ Top(t)' = f
  BY <1>1, TopsShape
<1> QED
  BY <1>1, <1>2 DEF Resumes

LEMMA HookResumes ==
  ASSUME TypeInv, NEW t \in Threads, Hook(t)
  PROVE  Resumes(t)'
<1> DEFINE d == Top(t).d
           k == Top(t).k
           f == Frame("handover", d, k)
<1>1. \/ Goes(t, "resume", Null, Null)
      \/ Goes(t, "remove", d, k)
      \/ stack' = [stack EXCEPT ![t] = Append(Append(Below(t), Resuming), f)]
  BY HookView
<1>2. CASE stack' = [stack EXCEPT ![t] = Append(Append(Below(t), Resuming), f)]
  <2>1. Busy(t) /\ d \in Deferreds /\ k \in Keys /\ "handover" \in KeyPCs
    BY HookView DEF TopIs, KeyPCs, TokenPCs
  <2> HIDE DEF d, k
  <2>2. f \in Frames /\ f.pc = "handover" /\ Resuming \in Frames /\ Resuming.pc = "resume"
    BY <2>1, KeyFrameOK, ResumingOK DEF FrameOK
  <2> HIDE DEF f
  <2> DEFINE s == Append(Append(Below(t), Resuming), f)
             n == Len(stack[t])
  <2>3. s \in Seq(Frames) /\ n \in Nat /\ n > 0 /\ Len(s) = n + 1 /\ s[n] = Resuming /\ s[n + 1] = f
    BY <2>1, <2>2, TwoFrames
  <2>4. stack'[t] = s
    BY <1>2, Stacked
  <2> HIDE DEF s
  <2>5. Busy(t)' /\ Top(t)' = f
    BY <2>3, <2>4 DEF Busy, Top
  <2>6. Len(stack'[t]) > 1 /\ stack'[t][Len(stack'[t]) - 1] = Resuming
    BY <2>3, <2>4
  <2> QED
    BY <2>2, <2>5, <2>6 DEF Resumes
<1> QED
  BY <1>1, <1>2, GoesResumes

LEMMA RejectResumes ==
  ASSUME TypeInv, NEW t \in Threads, Reject(t)
  PROVE  Resumes(t)'
<1> DEFINE s == Append(Below(t), Resuming)
           d == Top(t).d
<1>1. d \in Deferreds /\ Busy(t)
  BY RejectView DEF TopIs
<1>2. \/ Set(t, s)
      \/ hook[d] # Null /\ Set(t, Append(s, Frame("remove", d, hook[d])))
  BY RejectView DEF CancelSlot, Settle
<1>3. Ground(t, s)
  BY <1>1, GroundResuming
<1>4. CASE hook[d] # Null /\ Set(t, Append(s, Frame("remove", d, hook[d])))
  <2>1. hook[d] \in Keys /\ "remove" \in KeyPCs
    BY <1>1, <1>4, Waits DEF KeyPCs, TokenPCs
  <2>2. Goes(t, "remove", d, hook[d])
    BY <1>1, <1>3, <1>4, <2>1, GoesBy
  <2> QED
    BY <2>2, GoesResumes
<1>5. CASE Set(t, s)
  <2>1. Tops(t, Resuming)
    BY <1>1, <1>5, GroundBelow, ResumingOK, TopsBy
  <2>2. Goes(t, "resume", Null, Null)
    BY <2>1, ResumingOK DEF Goes, Resuming, Frame
  <2> QED
    BY <2>2, GoesResumes
<1> QED
  BY <1>2, <1>4, <1>5

LEMMA HandoverResumes ==
  ASSUME TypeInv, NEW t \in Threads, Handover(t) \/ Rehook(t), Resumes(t)
  PROVE  Resumes(t)'
<1> DEFINE n == Len(stack[t])
<1>1. Busy(t) /\ Top(t).pc \in {"handover", "rehook"}
  BY DEF Handover, Rehook, TopIs
<1>2. n \in Nat /\ n > 1 /\ stack[t][n - 1].pc = "resume" /\ stack[t] \in Seq(Frames)
  BY <1>1, Stacked DEF Resumes
<1>3. CASE \E pc \in {"rehook", "remove"} : Set(t, Goto(t, pc))
  <2>1. PICK pc \in {"rehook", "remove"} : Set(t, Goto(t, pc))
    BY <1>3
  <2> DEFINE f == [Top(t) EXCEPT !.pc = pc]
  <2>2. f.pc = pc
    BY <1>1, TopOK DEF Frames
  <2>3. stack'[t] = [stack[t] EXCEPT ![n] = f]
    BY <2>1, Stacked DEF Set, Goto, Replaced
  <2> HIDE DEF f
  <2>4. Len(stack'[t]) = n /\ stack'[t][n] = f /\ stack'[t][n - 1] = stack[t][n - 1]
    BY <1>2, <2>3
  <2>5. Busy(t)' /\ Top(t)' = f
    BY <1>2, <2>4 DEF Busy, Top
  <2> QED
    BY <1>2, <2>2, <2>4, <2>5 DEF Resumes
<1>4. CASE Set(t, Below(t))
  <2>1. n - 1 \in 0..n
    BY <1>2
  <2>2. Len(Below(t)) = n - 1 /\ \A i \in 1..n - 1 : Below(t)[i] = stack[t][i]
    BY <1>2, <2>1, SubFrames DEF Below
  <2>3. stack'[t] = Below(t)
    BY <1>4, Stacked DEF Set
  <2>4. Busy(t)' /\ Top(t)' = stack[t][n - 1]
    BY <1>2, <2>2, <2>3 DEF Busy, Top
  <2> QED
    BY <1>2, <2>4 DEF Resumes
<1> QED
  BY <1>3, <1>4 DEF Handover, Rehook

LEMMA ConservedStep ==
  ASSUME "limit" \notin Liberties, TypeInv, Conserved, NEW t \in Threads, Act(t)
  PROVE  Conserved'
<1>1. Elsewhere(t)
  BY ActElsewhere
<1> DEFINE Quiet == ~Resumes(t) /\ UNCHANGED <<queue, running, concurrency>>
<1>2. Quiet => Conserved'
  BY <1>1, ConservedBy DEF SlotFree
<1>3. ClientRuns(t) => ~Resumes(t)
  BY DEF ClientRuns, Resumes, ClientPCs
<1>4. /\ Enqueue(t) => Resumes(t)'
      /\ Hook(t) => Resumes(t)'
      /\ Reject(t) => Resumes(t)'
      /\ ResumeLock(t) => Resumes(t)'
      /\ Remove(t) => Resumes(t)'
  BY EnqueueView, HookResumes, RejectResumes, ResumeLockView, RemoveView, GoesResumes
<1>5. Fill(t) => Resumes(t)'
  BY FillView, ListsTops, TopsShape DEF Resumes
<1>6. Filled(t) => ~SlotFree' \/ DOMAIN queue' = {}
  BY FilledView DEF SlotFree
<1>7. FinalizeReturns(t) \/ Start(t) \/ ResumeReturns(t) \/ StartReturns(t) => Quiet
  BY DEF FinalizeReturns, Start, ResumeReturns, StartReturns, Resumes, TopIs, pool
<1>8. DrainRunning(t) \/ DrainReturns(t) \/ Raise(t) => Quiet
  BY DEF DrainRunning, DrainReturns, Raise, Resumes, TopIs, ClientPCs, pool
<1>9. \A d \in Deferreds : Finish(t, d) => Quiet
  BY DEF Finish, Resumes, pool
<1>10. /\ \A d \in Deferreds : Cancel(t, d) => Quiet
       /\ \A d \in Deferreds, k \in Keys : Add(t, d, k) => Quiet
       /\ Drain(t) \/ SetFinalizeFunc(t) => Quiet
       /\ ~SetConcurrency(t)
  BY <1>3 DEF Cancel, Add, Drain, SetFinalizeFunc, SetConcurrency, pool
<1>11. DrainQueue(t) => Conserved'
  <2> SUFFICES ASSUME DrainQueue(t) PROVE Conserved'
    OBVIOUS
  <2>1. ~Resumes(t) /\ UNCHANGED <<running, concurrency>>
    BY DEF DrainQueue, Resumes, TopIs
  <2>2. PICK k \in DOMAIN queue : queue' = Unbind(queue, k)
    BY DrainQueueView
  <2>3. DOMAIN queue # {}
    BY <2>2
  <2> QED
    BY <1>1, <2>1, <2>3, ConservedBy DEF SlotFree
<1>12. Handover(t) => Conserved'
  <2> SUFFICES ASSUME Handover(t) PROVE Conserved'
    OBVIOUS
  <2> DEFINE k == Top(t).k
             x == [d |-> Top(t).d, part |-> "work"]
  <2>1. k \in Keys /\ x \in Slots /\ running' = Bind(running, k, x)
        /\ UNCHANGED <<queue, concurrency>>
    BY HandoverView DEF Slots
  <2> HIDE DEF k, x
  <2>2. IsFiniteSet(DOMAIN running) /\ IsFiniteSet(DOMAIN running')
        /\ Cardinality(DOMAIN running) <= Cardinality(DOMAIN running')
    BY <2>1, TableKept, Now
  <2>3. Cardinality(DOMAIN running) \in Nat /\ Cardinality(DOMAIN running') \in Nat
    BY <2>2, FS_CardinalityType
  <2>4. concurrency \in Nat
    BY Now
  <2>5. ~SlotFree => ~SlotFree'
    BY <2>1, <2>2, <2>3, <2>4 DEF SlotFree
  <2> QED
    BY <1>1, <2>1, <2>5, HandoverResumes, ConservedBy
<1>13. Rehook(t) => Conserved'
  <2> SUFFICES ASSUME Rehook(t) PROVE Conserved'
    OBVIOUS
  <2>1. UNCHANGED <<queue, running, concurrency>>
    BY DEF Rehook, pool
  <2> QED
    BY <1>1, <1>2, <2>1, HandoverResumes, ConservedBy
<1> HIDE DEF Quiet
<1> QED
  BY <1>1, <1>2, <1>4, <1>5, <1>6, <1>7, <1>8, <1>9, <1>10, <1>11, <1>12, <1>13, ConservedBy
  DEF Act, Step

\* While the limit stays, no slot is empty and no gate waits unless a thread is
\* on its way to _resumeWaiting, whoever raises meanwhile (WorkConserving).
THEOREM SlotsAreFilled ==
  ASSUME "limit" \notin Liberties
  PROVE  Spec => []WorkConserving
<1>1. Init => Conserved
  BY DEF Init, Conserved
<1>2. TypeInv /\ Conserved /\ [Next]_vars => Conserved'
  <2> SUFFICES ASSUME TypeInv, Conserved, [Next]_vars PROVE Conserved'
    OBVIOUS
  <2>1. CASE UNCHANGED vars
    BY <2>1 DEF Conserved, Resumes, SlotFree, Busy, Top, vars, pool
  <2>2. CASE Next
    <3>1. PICK t \in Threads : Act(t)
      BY <2>2 DEF Next, Act
    <3> QED
      BY <3>1, ConservedStep
  <2> QED
    BY <2>1, <2>2
<1>3. TypeInv /\ Conserved => WorkConserving
  <2> SUFFICES ASSUME TypeInv, NEW t \in Threads, Resumes(t)
               PROVE  \E f \in AllFrames : f.pc \in Resumers
    BY DEF Conserved, WorkConserving
  <2>1. Top(t).pc \in Resumers
    BY DEF Resumes, Resumers
  <2>2. Len(stack[t]) \in 1..Len(stack[t])
    BY TopOK, Stacked DEF Resumes
  <2>3. Top(t) \in AllFrames
    BY <2>2 DEF AllFrames, Top
  <2> QED
    BY <2>1, <2>3
<1> QED
  BY <1>1, <1>2, <1>3, Typed, PTL DEF Spec

-----------------------------------------------------------------------------
(* A gate is in one place *)

Entering(t, d) == (TopIs(t, "enqueue") \/ TopIs(t, "reject")) /\ Top(t).d = d

\* d is the j-th gate that frame i of t lists.
LAt(d, t, i, j) ==
  /\ i \in 1..Len(stack[t])
  /\ j \in 1..Len(stack[t][i].list)
  /\ stack[t][i].list[j] = d

\* Frame i of t is d's first callback.
Calls(d, t, i) == i \in 1..Len(stack[t]) /\ stack[t][i].pc = "callback" /\ stack[t][i].d = d

\* A gate enters once, and before it has a key.
EnterInv ==
  \A d \in Deferreds, t \in Threads :
    Entering(t, d) => keyOf[d] = Null /\ \A u \in Threads : Entering(u, d) => u = t

\* What waits has not been fired, and waits under the key it was given.
QueueInv ==
  \A k \in DOMAIN queue : keyOf[queue[k]] = k /\ state[queue[k]] \in {"idle", "cancelled"}

\* What is about to be fired has not been, waits no more, and is listed once.
ListInv ==
  \A d \in Deferreds, t \in Threads : \A i, j \in Nat :
    LAt(d, t, i, j) =>
      /\ state[d] \in {"idle", "cancelled"}
      /\ keyOf[d] # Null
      /\ \A k \in DOMAIN queue : queue[k] # d
      /\ \A u \in Threads : \A l, m \in Nat : LAt(d, u, l, m) => u = t /\ l = i /\ m = j

\* A gate's first callback runs once, while the gate is starting.
CallInv ==
  \A d \in Deferreds, t \in Threads : \A i \in Nat :
    Calls(d, t, i) =>
      /\ state[d] = "starting"
      /\ \A u \in Threads : \A l \in Nat : Calls(d, u, l) => u = t /\ l = i

\* A gate the pool does not know has not been fired.
FreshInv == \A d \in Deferreds : keyOf[d] = Null => state[d] \in {"idle", "cancelled"}

PlaceInv == EnterInv /\ QueueInv /\ ListInv /\ CallInv /\ FreshInv

NoNewListed ==
  \A d \in Deferreds, u \in Threads : \A i, j \in Nat : LAt(d, u, i, j)' => LAt(d, u, i, j)
NoNewCall ==
  \A d \in Deferreds, u \in Threads : \A i \in Nat : Calls(d, u, i)' => Calls(d, u, i)
NoNewEntry ==
  \A d \in Deferreds, u \in Threads : Entering(u, d)' => Entering(u, d)
NoNewStart ==
  \A d \in Deferreds : \/ state'[d] = state[d]
                       \/ state[d] = "idle" /\ state'[d] = "cancelled"
                       \/ state[d] \in {"started", "handed"} /\ state'[d] = "done"
NoNewKey == \A k \in DOMAIN queue' : k \in DOMAIN queue /\ queue'[k] = queue[k]

\* Nothing comes into the queue, a list or a call.
Calm == NoNewListed /\ NoNewCall /\ NoNewEntry /\ NoNewStart /\ NoNewKey /\ UNCHANGED keyOf

LEMMA CalmStep ==
  ASSUME TypeInv, PlaceInv, Calm
  PROVE  PlaceInv'
<1>t. queue \in [DOMAIN queue -> Deferreds]
  BY Now, PartialIs
<1>1. EnterInv'
  BY DEF PlaceInv, EnterInv, Calm, NoNewEntry
<1>2. QueueInv'
  <2> SUFFICES ASSUME NEW k \in DOMAIN queue'
               PROVE  keyOf'[queue'[k]] = k /\ state'[queue'[k]] \in {"idle", "cancelled"}
    BY DEF QueueInv
  <2>1. k \in DOMAIN queue /\ queue'[k] = queue[k] /\ queue[k] \in Deferreds
    BY <1>t DEF Calm, NoNewKey
  <2>2. keyOf'[queue[k]] = k /\ state[queue[k]] \in {"idle", "cancelled"}
    BY <2>1 DEF PlaceInv, QueueInv, Calm
  <2> QED
    BY <2>1, <2>2 DEF Calm, NoNewStart
<1>3. ListInv'
  <2> SUFFICES ASSUME NEW d \in Deferreds, NEW t \in Threads, NEW i \in Nat, NEW j \in Nat,
                      LAt(d, t, i, j)'
               PROVE  /\ state'[d] \in {"idle", "cancelled"}
                      /\ keyOf'[d] # Null
                      /\ \A k \in DOMAIN queue' : queue'[k] # d
                      /\ \A u \in Threads : \A l, m \in Nat :
                           LAt(d, u, l, m)' => u = t /\ l = i /\ m = j
    BY DEF ListInv
  <2>1. LAt(d, t, i, j)
    BY DEF Calm, NoNewListed
  <2>2. /\ state[d] \in {"idle", "cancelled"} /\ keyOf[d] # Null
        /\ \A k \in DOMAIN queue : queue[k] # d
        /\ \A u \in Threads : \A l, m \in Nat : LAt(d, u, l, m) => u = t /\ l = i /\ m = j
    BY <2>1 DEF PlaceInv, ListInv
  <2> QED
    BY <2>2 DEF Calm, NoNewListed, NoNewStart, NoNewKey
<1>4. CallInv'
  <2> SUFFICES ASSUME NEW d \in Deferreds, NEW t \in Threads, NEW i \in Nat, Calls(d, t, i)'
               PROVE  /\ state'[d] = "starting"
                      /\ \A u \in Threads : \A l \in Nat : Calls(d, u, l)' => u = t /\ l = i
    BY DEF CallInv
  <2>1. Calls(d, t, i)
    BY DEF Calm, NoNewCall
  <2>2. /\ state[d] = "starting"
        /\ \A u \in Threads : \A l \in Nat : Calls(d, u, l) => u = t /\ l = i
    BY <2>1 DEF PlaceInv, CallInv
  <2> QED
    BY <2>2 DEF Calm, NoNewCall, NoNewStart
<1>5. FreshInv'
  BY DEF PlaceInv, FreshInv, Calm, NoNewStart
<1> QED
  BY <1>1, <1>2, <1>3, <1>4, <1>5 DEF PlaceInv

\* What the frames of t hold that they did not hold before
LEMMA QuietMove ==
  ASSUME TypeInv, NEW t \in Threads, Elsewhere(t),
         \/ Rests(t)
         \/ \E f : /\ Tops(t, f) /\ f.pc # "callback"
                   /\ f.list = <<>>
  PROVE  NoNewListed /\ NoNewCall
<1>1. ASSUME NEW i \in 1..Len(stack'[t])
      PROVE  /\ stack'[t][i].list # <<>> => /\ i \in 1..Len(stack[t])
                                            /\ stack'[t][i].list = stack[t][i].list
             /\ stack'[t][i].pc = "callback" => /\ i \in 1..Len(stack[t])
                                                /\ stack[t][i].pc = "callback"
                                                /\ stack'[t][i].d = stack[t][i].d
  <2>1. CASE Rests(t)
    BY <2>1, RestsShape, Stacked DEF Ground
  <2>2. CASE \E f : Tops(t, f) /\ f.pc # "callback" /\ f.list = <<>>
    <3>1. PICK f : Tops(t, f) /\ f.pc # "callback" /\ f.list = <<>>
      BY <2>2
    <3>2. PICK s : Ground(t, s) /\ FrameOK(f) /\ stack'[t] = Append(s, f)
      BY <3>1, TopsShape
    <3>3. s \in Seq(Frames) /\ f \in Frames
      BY <3>2 DEF Ground, FrameOK
    <3>4. /\ Len(stack'[t]) = Len(s) + 1 /\ stack'[t][Len(s) + 1] = f /\ Len(s) \in Nat
          /\ \A l \in 1..Len(s) : stack'[t][l] = s[l]
      BY <3>2, <3>3, AppendFrame
    <3>5. CASE i \in 1..Len(s)
      BY <3>2, <3>4, <3>5, Stacked DEF Ground
    <3>6. CASE i = Len(s) + 1
      BY <3>1, <3>4, <3>6
    <3> QED
      BY <3>4, <3>5, <3>6
  <2> QED
    BY <2>1, <2>2
<1>2. NoNewListed
  <2> SUFFICES ASSUME NEW d \in Deferreds, NEW u \in Threads, NEW i \in Nat, NEW j \in Nat,
                      LAt(d, u, i, j)'
               PROVE  LAt(d, u, i, j)
    BY DEF NoNewListed
  <2>1. CASE u = t
    <3>1. i \in 1..Len(stack'[t]) /\ j \in 1..Len(stack'[t][i].list) /\ stack'[t][i].list[j] = d
      BY <2>1 DEF LAt
    <3>2. stack'[t][i].list # <<>>
      BY <3>1
    <3> QED
      BY <1>1, <2>1, <3>1, <3>2 DEF LAt
  <2>2. CASE u # t
    BY <2>2 DEF LAt, Elsewhere
  <2> QED
    BY <2>1, <2>2
<1>3. NoNewCall
  <2> SUFFICES ASSUME NEW d \in Deferreds, NEW u \in Threads, NEW i \in Nat, Calls(d, u, i)'
               PROVE  Calls(d, u, i)
    BY DEF NoNewCall
  <2>1. CASE u = t
    BY <1>1, <2>1 DEF Calls
  <2>2. CASE u # t
    BY <2>2 DEF Calls, Elsewhere
  <2> QED
    BY <2>1, <2>2
<1> QED
  BY <1>2, <1>3

LEMMA QuietEntry ==
  ASSUME TypeInv, NEW t \in Threads, Elsewhere(t),
         \/ Rests(t)
         \/ \E f : Tops(t, f) /\ f.pc \notin {"enqueue", "reject"}
  PROVE  NoNewEntry
<1> SUFFICES ASSUME NEW d \in Deferreds, NEW u \in Threads, Entering(u, d)'
             PROVE  Entering(u, d)
  BY DEF NoNewEntry
<1>1. CASE u # t
  <2>1. stack'[u] = stack[u]
    BY <1>1 DEF Elsewhere
  <2> QED
    BY <2>1 DEF Entering, TopIs, Busy, Top
<1>2. CASE u = t
  <2>1. Busy(t)' /\ Top(t)'.pc \in {"enqueue", "reject"}
    BY <1>2 DEF Entering, TopIs
  <2>2. CASE Rests(t)
    <3>1. Ground(t, stack'[t]) /\ stack'[t] # <<>>
      BY <2>1, <2>2, RestsShape DEF Busy
    <3>2. stack'[t] \in Seq(Frames)
      BY <3>1 DEF Ground
    <3>3. Len(stack'[t]) \in 1..Len(stack'[t])
      BY <3>1, <3>2
    <3>4. Top(t)'.pc \in Lower
      BY <3>1, <3>3 DEF Ground, Top
    <3> QED
      BY <2>1, <3>4 DEF Lower, ClientPCs
  <2>3. CASE \E f : Tops(t, f) /\ f.pc \notin {"enqueue", "reject"}
    BY <2>1, <2>3, TopsShape
  <2> QED
    BY <2>2, <2>3
<1> QED
  BY <1>1, <1>2

Plain(t) ==
  \/ Rests(t)
  \/ \E f : Tops(t, f) /\ f.pc \notin {"callback", "enqueue", "reject"} /\ f.list = <<>>

LEMMA PlainCalm ==
  ASSUME TypeInv, NEW t \in Threads, Elsewhere(t), Plain(t)
  PROVE  NoNewListed /\ NoNewCall /\ NoNewEntry
<1>1. \/ Rests(t)
      \/ \E f : Tops(t, f) /\ f.pc # "callback" /\ f.list = <<>>
  BY DEF Plain
<1>2. \/ Rests(t)
      \/ \E f : Tops(t, f) /\ f.pc \notin {"enqueue", "reject"}
  BY DEF Plain
<1>3. NoNewListed /\ NoNewCall
  BY <1>1, QuietMove
<1>4. NoNewEntry
  BY <1>2, QuietEntry
<1> QED
  BY <1>3, <1>4

LEMMA GoesPlain ==
  ASSUME NEW t, NEW pc, pc \notin {"callback", "enqueue", "reject"}, NEW d, NEW k,
         Goes(t, pc, d, k)
  PROVE  Plain(t)
BY DEF Goes, Plain

LEMMA SettlesPlain ==
  ASSUME TypeInv, NEW t \in Threads, NEW d \in Deferreds, NEW new, Settles(t, d, new)
  PROVE  Plain(t)
<1>1. Frame("remove", d, hook[d]).pc = "remove" /\ Frame("remove", d, hook[d]).list = <<>>
  BY DEF Frame
<1> QED
  BY <1>1 DEF Settles, Plain

LEMMA CancelsPlain ==
  ASSUME TypeInv, NEW t \in Threads, NEW d \in Deferreds, Cancels(t, d)
  PROVE  Plain(t) /\ NoNewStart
<1>1. Plain(t)
  BY SettlesPlain DEF Cancels, Plain
<1>2. state \in [Deferreds -> States]
  BY Now
<1>3. \/ state[d] = "idle" /\ state' = [state EXCEPT ![d] = "cancelled"]
      \/ state[d] \in {"started", "handed"} /\ state' = [state EXCEPT ![d] = "done"]
      \/ state' = state
  BY DEF Cancels, Settles, gates
<1>4. NoNewStart
  BY <1>2, <1>3 DEF NoNewStart
<1> QED
  BY <1>1, <1>4

LEMMA CalmQuiet ==
  ASSUME TypeInv, NEW t \in Threads, Elsewhere(t), Plain(t), NoNewStart \/ UNCHANGED state,
         UNCHANGED keyOf, NoNewKey \/ UNCHANGED queue
  PROVE  Calm
<1>1. NoNewStart /\ NoNewKey
  BY DEF NoNewStart, NoNewKey
<1> QED
  BY <1>1, PlainCalm DEF Calm

LEMMA CarryCalm ==
  ASSUME TypeInv, NEW t \in Threads, Elsewhere(t), NEW pc \in {"finalize", "start"}, Carries(t, pc),
         UNCHANGED <<state, keyOf, queue>>
  PROVE  Calm
<1> DEFINE n == Len(stack[t])
<1>1. PICK f : /\ FrameOK(f) /\ f.pc = pc /\ f.list = Top(t).list
               /\ stack' = [stack EXCEPT ![t] = Append(Below(t), f)]
  BY DEF Carries
<1>2. Busy(t) /\ n \in Nat /\ n > 0 /\ n \in 1..n /\ stack[t] \in Seq(Frames)
  BY Stacked, TopOK DEF Carries
<1>3. Len(Below(t)) = n - 1 /\ Below(t) \in Seq(Frames)
      /\ \A i \in 1..n - 1 : Below(t)[i] = stack[t][i]
  <2>1. n - 1 \in 0..n
    BY <1>2
  <2> QED
    BY <1>2, <2>1, SubFrames DEF Below
<1>4. f \in Frames /\ stack'[t] = Append(Below(t), f)
  BY <1>1, Stacked DEF FrameOK
<1>5. Len(stack'[t]) = n /\ stack'[t][n] = f /\ \A i \in 1..n - 1 : stack'[t][i] = stack[t][i]
  BY <1>2, <1>3, <1>4, AppendFrame
<1>6. \A i \in 1..n : stack'[t][i].list = stack[t][i].list
  BY <1>1, <1>5 DEF Top
<1>7. NoNewListed
  <2> SUFFICES ASSUME NEW d \in Deferreds, NEW u \in Threads, NEW i \in Nat, NEW j \in Nat,
                      LAt(d, u, i, j)'
               PROVE  LAt(d, u, i, j)
    BY DEF NoNewListed
  <2> QED
    BY <1>5, <1>6 DEF LAt, Elsewhere
<1>8. NoNewCall
  <2> SUFFICES ASSUME NEW d \in Deferreds, NEW u \in Threads, NEW i \in Nat, Calls(d, u, i)'
               PROVE  Calls(d, u, i)
    BY DEF NoNewCall
  <2> QED
    BY <1>1, <1>2, <1>5 DEF Calls, Elsewhere
<1>9. NoNewEntry
  <2>1. Tops(t, f) /\ f.pc \notin {"enqueue", "reject"}
    BY <1>1, <1>2, GroundBelow DEF Tops
  <2> QED
    BY <2>1, QuietEntry
<1>10. NoNewStart /\ NoNewKey
  BY DEF NoNewStart, NoNewKey
<1> QED
  BY <1>7, <1>8, <1>9, <1>10 DEF Calm

LEMMA CalmActs ==
  ASSUME TypeInv, NEW t \in Threads, Act(t)
  PROVE  /\ Hook(t) \/ Reject(t) \/ ResumeLock(t) \/ Filled(t) \/ FinalizeReturns(t) => Calm
         /\ ResumeReturns(t) \/ Handover(t) \/ Rehook(t) \/ Remove(t) => Calm
         /\ DrainRunning(t) \/ DrainQueue(t) \/ DrainReturns(t) \/ Drain(t) \/ Raise(t) => Calm
         /\ \A d \in Deferreds : Finish(t, d) \/ Cancel(t, d) => Calm
         /\ SetFinalizeFunc(t) \/ SetConcurrency(t) => Calm
<1>e. Elsewhere(t)
  BY ActElsewhere
<1> DEFINE Plainly == Plain(t) /\ UNCHANGED <<state, keyOf, queue>>
           Quietly == Plain(t) /\ NoNewStart /\ UNCHANGED <<keyOf, queue>>
<1>p. Plainly \/ Quietly => Calm
  BY <1>e, CalmQuiet
<1>1. Hook(t) => Plainly
  <2> SUFFICES ASSUME Hook(t) PROVE Plainly
    OBVIOUS
  <2>1. \/ Goes(t, "resume", Null, Null)
        \/ Goes(t, "handover", Top(t).d, Top(t).k)
        \/ Goes(t, "remove", Top(t).d, Top(t).k)
    BY HookView
  <2>2. UNCHANGED <<state, keyOf, queue>>
    BY DEF Hook, pool, history
  <2> QED
    BY <2>1, <2>2, GoesPlain
<1>2. Reject(t) => Quietly
  BY RejectView, CancelsPlain DEF pool, history
<1>3. ResumeLock(t) => Plainly
  BY ResumeLockView, GoesPlain DEF gates, history
<1>4. Filled(t) \/ FinalizeReturns(t) => Calm
  BY <1>e, FilledView, FinalizeReturnsView, CarryCalm DEF gates, history
<1>5. ResumeReturns(t) \/ DrainReturns(t) \/ Raise(t) => Plainly
  BY ResumeReturnsView, DrainReturnsView, RaiseView DEF Plain, gates, history, pool
<1>6. Handover(t) => Plainly
  BY HandoverView, GoesPlain DEF gates, history
<1>7. Rehook(t) => Plainly
  BY RehookView, GoesPlain DEF Plain, pool, history
<1>8. Remove(t) => Plainly
  BY RemoveView, GoesPlain DEF gates, history
<1>9. DrainRunning(t) => Calm
  <2> SUFFICES ASSUME DrainRunning(t) PROVE Calm
    OBVIOUS
  <2>1. UNCHANGED <<keyOf, queue>>
    BY DEF DrainRunning, pool, history
  <2>2. (\E d \in Deferreds : Cancels(t, d))
        \/ (Goes(t, "drainqueue", Top(t).d, Null) /\ UNCHANGED gates)
    BY DrainRunningView
  <2>3. CASE \E d \in Deferreds : Cancels(t, d)
    BY <1>p, <2>1, <2>3, CancelsPlain
  <2>4. CASE Goes(t, "drainqueue", Top(t).d, Null) /\ UNCHANGED gates
    BY <1>p, <2>1, <2>4, GoesPlain DEF gates
  <2> QED
    BY <2>2, <2>3, <2>4
<1>10. DrainQueue(t) => Calm
  <2> SUFFICES ASSUME DrainQueue(t) PROVE Calm
    OBVIOUS
  <2>1. PICK k \in DOMAIN queue :
          queue[k] \in Deferreds /\ queue' = Unbind(queue, k) /\ Cancels(t, queue[k])
    BY DrainQueueView
  <2>2. NoNewKey
    BY <2>1 DEF NoNewKey, Unbind, Restrict
  <2>3. UNCHANGED keyOf
    BY DEF DrainQueue, history
  <2> QED
    BY <1>e, <2>1, <2>2, <2>3, CancelsPlain, CalmQuiet
<1>11. Drain(t) => Plainly
  <2> SUFFICES ASSUME Drain(t) PROVE Plainly
    OBVIOUS
  <2>1. Plain(t)
    BY DrainView DEF Plain
  <2> QED
    BY <2>1 DEF Drain, pool, gates
<1>12. \A d \in Deferreds : Finish(t, d) => Quietly
  <2> SUFFICES ASSUME NEW d \in Deferreds, Finish(t, d) PROVE Quietly
    OBVIOUS
  <2>1. state[d] \in {"started", "handed"} /\ Settles(t, d, "done") /\ UNCHANGED <<keyOf, queue>>
    BY FinishView DEF pool, history
  <2>2. NoNewStart
    BY <2>1, Now DEF Settles, NoNewStart
  <2> QED
    BY <2>1, <2>2, SettlesPlain
<1>13. \A d \in Deferreds : Cancel(t, d) => Quietly
  BY CancelActView, CancelsPlain DEF pool, history
<1>14. SetFinalizeFunc(t) \/ SetConcurrency(t) => Calm
  BY DEF SetFinalizeFunc, SetConcurrency, gates, history, Calm, NoNewListed, NoNewCall, NoNewEntry,
         NoNewStart, NoNewKey, LAt, Calls, Entering, TopIs, Busy, Top
<1> HIDE DEF Plainly, Quietly
<1> QED
  BY <1>p, <1>1, <1>2, <1>3, <1>4, <1>5, <1>6, <1>7, <1>8, <1>9, <1>10, <1>11, <1>12, <1>13, <1>14

LEMMA GoesQuiet ==
  ASSUME TypeInv, NEW t \in Threads, Elsewhere(t), NEW pc, pc # "callback", NEW d, NEW k,
         Goes(t, pc, d, k)
  PROVE  /\ NoNewListed /\ NoNewCall /\ Busy(t)' /\ Top(t)'.pc = pc /\ Top(t)'.d = d
         /\ Top(t)'.k = k
<1>1. PICK f : Tops(t, f) /\ f.pc = pc /\ f.d = d /\ f.k = k /\ f.list = <<>>
  BY DEF Goes
<1>2. Busy(t)' /\ Top(t)' = f
  BY <1>1, TopsShape
<1>3. NoNewListed /\ NoNewCall
  BY <1>1, QuietMove
<1> QED
  BY <1>1, <1>2, <1>3

LEMMA OtherEntries ==
  ASSUME NEW t \in Threads, Elsewhere(t), NEW u \in Threads \ {t}, NEW d
  PROVE  Entering(u, d)' <=> Entering(u, d)
BY DEF Elsewhere, Entering, TopIs, Busy, Top

LEMMA TopInFrames ==
  ASSUME TypeInv, NEW t \in Threads, Busy(t)
  PROVE  Top(t) \in AllFrames
<1>1. Len(stack[t]) \in 1..Len(stack[t])
  BY TopOK, Stacked
<1> QED
  BY <1>1 DEF AllFrames, Top

LEMMA AddPlace ==
  ASSUME TypeInv, PlaceInv, NEW t \in Threads, NEW d \in Deferreds, NEW k \in Keys, Add(t, d, k)
  PROVE  PlaceInv'
<1>1. Elsewhere(t)
  BY ActElsewhere DEF Act
<1>2. NoNewListed /\ NoNewCall /\ Busy(t)' /\ Top(t)'.pc = "enqueue" /\ Top(t)'.d = d
  BY <1>1, AddView, GoesQuiet
<1>3. UNCHANGED <<queue, state, keyOf>> /\ state[d] = "idle" /\ keyOf[d] = Null
      /\ \A f \in AllFrames : f.pc \in {"enqueue", "reject"} => f.d # d
  BY DEF Add, pool, gates, history
<1>4. \A u \in Threads : ~Entering(u, d)
  BY <1>3, TopInFrames DEF Entering, TopIs
<1>5. EnterInv'
  <2> SUFFICES ASSUME NEW e \in Deferreds, NEW u \in Threads, Entering(u, e)'
               PROVE  keyOf'[e] = Null /\ \A v \in Threads : Entering(v, e)' => v = u
    BY DEF EnterInv
  <2>1. \A v \in Threads : Entering(v, e)' => (v # t /\ Entering(v, e)) \/ (v = t /\ e = d)
    BY <1>1, <1>2, OtherEntries DEF Entering
  <2> QED
    BY <1>3, <1>4, <2>1 DEF PlaceInv, EnterInv
<1>6. QueueInv' /\ FreshInv'
  BY <1>3 DEF PlaceInv, QueueInv, FreshInv
<1>7. ListInv'
  <2> SUFFICES ASSUME NEW e \in Deferreds, NEW u \in Threads, NEW i \in Nat, NEW j \in Nat,
                      LAt(e, u, i, j)'
               PROVE  /\ state'[e] \in {"idle", "cancelled"}
                      /\ keyOf'[e] # Null
                      /\ \A l \in DOMAIN queue' : queue'[l] # e
                      /\ \A v \in Threads : \A l, m \in Nat :
                           LAt(e, v, l, m)' => v = u /\ l = i /\ m = j
    BY DEF ListInv
  <2>1. LAt(e, u, i, j)
    BY <1>2 DEF NoNewListed
  <2>2. /\ state[e] \in {"idle", "cancelled"} /\ keyOf[e] # Null
        /\ \A l \in DOMAIN queue : queue[l] # e
        /\ \A v \in Threads : \A l, m \in Nat : LAt(e, v, l, m) => v = u /\ l = i /\ m = j
    BY <2>1 DEF PlaceInv, ListInv
  <2> QED
    BY <1>2, <1>3, <2>2 DEF NoNewListed
<1>8. CallInv'
  BY <1>2, <1>3 DEF PlaceInv, CallInv, NoNewCall
<1> QED
  BY <1>5, <1>6, <1>7, <1>8 DEF PlaceInv

LEMMA EnqueuePlace ==
  ASSUME TypeInv, PlaceInv, NEW t \in Threads, Enqueue(t)
  PROVE  PlaceInv'
<1> DEFINE d == Top(t).d
           k == Top(t).k
<1>1. Elsewhere(t)
  BY ActElsewhere DEF Act, Step
<1>2. d \in Deferreds /\ k \in Keys /\ Entering(t, d) /\ UNCHANGED state
  BY EnqueueView DEF Entering, gates
<1>3. \/ k \in DOMAIN queue /\ Goes(t, "reject", d, k) /\ UNCHANGED <<queue, keyOf>>
      \/ /\ k \notin DOMAIN queue /\ Goes(t, "hook", d, k)
         /\ queue' = Bind(queue, k, d) /\ keyOf' = [keyOf EXCEPT ![d] = k]
  BY EnqueueView
<1>4. NoNewListed /\ NoNewCall /\ Busy(t)' /\ Top(t)'.d = d
      /\ Top(t)'.pc \in {"reject", "hook"} /\ (Top(t)'.pc = "reject" => UNCHANGED <<queue, keyOf>>)
  <2>1. CASE Goes(t, "reject", d, k) /\ UNCHANGED <<queue, keyOf>>
    BY <1>1, <2>1, GoesQuiet
  <2>2. CASE Goes(t, "hook", d, k)
    BY <1>1, <2>2, GoesQuiet
  <2> QED
    BY <1>3, <2>1, <2>2
<1> HIDE DEF d, k
<1>5. keyOf[d] = Null /\ \A u \in Threads : Entering(u, d) => u = t
  BY <1>2 DEF PlaceInv, EnterInv
<1>6. keyOf \in [Deferreds -> Keys \cup {Null}] /\ queue \in [DOMAIN queue -> Deferreds]
      /\ DOMAIN queue \subseteq Keys /\ Null \notin Keys
  BY Now, PartialIs, PoolAssumption
<1>7. CASE UNCHANGED <<queue, keyOf>>
  <2>1. NoNewEntry
    <3> SUFFICES ASSUME NEW e \in Deferreds, NEW u \in Threads, Entering(u, e)'
                 PROVE  Entering(u, e)
      BY DEF NoNewEntry
    <3>1. CASE u # t
      BY <1>1, <3>1, OtherEntries
    <3>2. CASE u = t
      <4>1. e = d
        BY <1>4, <3>2 DEF Entering
      <4> QED
        BY <1>2, <3>2, <4>1
    <3> QED
      BY <3>1, <3>2
  <2>2. Calm
    BY <1>2, <1>4, <1>7, <2>1 DEF Calm, NoNewStart, NoNewKey
  <2> QED
    BY <2>2, CalmStep
<1>8. CASE /\ k \notin DOMAIN queue /\ Goes(t, "hook", d, k)
           /\ queue' = Bind(queue, k, d) /\ keyOf' = [keyOf EXCEPT ![d] = k]
  <2>1. Top(t)'.pc = "hook"
    BY <1>1, <1>8, GoesQuiet
  <2>2. DOMAIN queue' = DOMAIN queue \cup {k}
        /\ \A j \in DOMAIN queue' : queue'[j] = IF j = k THEN d ELSE queue[j]
    BY <1>8 DEF Bind
  <2>3. keyOf'[d] = k /\ \A e \in Deferreds \ {d} : keyOf'[e] = keyOf[e]
    BY <1>2, <1>6, <1>8
  <2>4. state[d] \in {"idle", "cancelled"}
    BY <1>2, <1>5 DEF PlaceInv, FreshInv
  <2>5. EnterInv'
    <3> SUFFICES ASSUME NEW e \in Deferreds, NEW u \in Threads, Entering(u, e)'
                 PROVE  keyOf'[e] = Null /\ \A v \in Threads : Entering(v, e)' => v = u
      BY DEF EnterInv
    <3>1. \A v \in Threads : Entering(v, e)' => v # t /\ Entering(v, e)
      BY <1>1, <2>1, OtherEntries DEF Entering, TopIs
    <3>2. e # d
      BY <1>5, <3>1
    <3> QED
      BY <2>3, <3>1, <3>2 DEF PlaceInv, EnterInv
  <2>6. QueueInv'
    <3> SUFFICES ASSUME NEW j \in DOMAIN queue'
                 PROVE  keyOf'[queue'[j]] = j /\ state'[queue'[j]] \in {"idle", "cancelled"}
      BY DEF QueueInv
    <3>1. CASE j = k
      BY <1>2, <2>2, <2>3, <2>4, <3>1
    <3>2. CASE j # k
      <4>1. j \in DOMAIN queue /\ queue'[j] = queue[j] /\ keyOf[queue[j]] = j
            /\ state[queue[j]] \in {"idle", "cancelled"}
        BY <2>2, <3>2 DEF PlaceInv, QueueInv
      <4>2. queue[j] # d /\ queue[j] \in Deferreds
        BY <1>5, <1>6, <4>1
      <4> QED
        BY <1>2, <2>3, <4>1, <4>2
    <3> QED
      BY <3>1, <3>2
  <2>7. ListInv'
    <3> SUFFICES ASSUME NEW e \in Deferreds, NEW u \in Threads, NEW i \in Nat, NEW j \in Nat,
                        LAt(e, u, i, j)'
                 PROVE  /\ state'[e] \in {"idle", "cancelled"}
                        /\ keyOf'[e] # Null
                        /\ \A l \in DOMAIN queue' : queue'[l] # e
                        /\ \A v \in Threads : \A l, m \in Nat :
                             LAt(e, v, l, m)' => v = u /\ l = i /\ m = j
      BY DEF ListInv
    <3>1. LAt(e, u, i, j)
      BY <1>4 DEF NoNewListed
    <3>2. /\ state[e] \in {"idle", "cancelled"} /\ keyOf[e] # Null
          /\ \A l \in DOMAIN queue : queue[l] # e
          /\ \A v \in Threads : \A l, m \in Nat : LAt(e, v, l, m) => v = u /\ l = i /\ m = j
      BY <3>1 DEF PlaceInv, ListInv
    <3>3. e # d
      BY <1>5, <3>2
    <3>4. \A l \in DOMAIN queue' : queue'[l] # e
      BY <2>2, <3>2, <3>3
    <3>5. state'[e] \in {"idle", "cancelled"} /\ keyOf'[e] # Null
      BY <1>2, <2>3, <3>2, <3>3
    <3> QED
      BY <1>4, <3>2, <3>4, <3>5 DEF NoNewListed
  <2>8. CallInv'
    BY <1>2, <1>4 DEF PlaceInv, CallInv, NoNewCall
  <2>9. FreshInv'
    BY <1>2, <2>3, <2>4 DEF PlaceInv, FreshInv
  <2> QED
    BY <2>5, <2>6, <2>7, <2>8, <2>9 DEF PlaceInv
<1> QED
  BY <1>3, <1>7, <1>8

LEMMA BelowIs ==
  ASSUME TypeInv, NEW t \in Threads, Busy(t)
  PROVE  LET n == Len(stack[t])
         IN /\ n \in Nat /\ n > 0 /\ n \in 1..n /\ n - 1 \in Nat /\ Below(t) \in Seq(Frames)
            /\ Len(Below(t)) = n - 1 /\ \A i \in 1..n - 1 : Below(t)[i] = stack[t][i]
<1>1. LET n == Len(stack[t]) IN n \in Nat /\ n > 0 /\ n \in 1..n /\ n - 1 \in Nat /\ n - 1 \in 0..n
  BY TopOK, Stacked
<1> QED
  BY <1>1, Stacked, SubFrames DEF Below

LEMMA OnBelow ==
  ASSUME TypeInv, NEW t \in Threads, Busy(t), NEW f \in Frames,
         stack' = [stack EXCEPT ![t] = Append(Below(t), f)]
  PROVE  LET n == Len(stack[t])
         IN /\ Len(stack'[t]) = n /\ stack'[t][n] = f
            /\ \A i \in 1..n - 1 : stack'[t][i] = stack[t][i]
<1> DEFINE n == Len(stack[t])
           b == Below(t)
<1>1. n \in Nat /\ n > 0 /\ b \in Seq(Frames) /\ Len(b) = n - 1
      /\ \A i \in 1..n - 1 : b[i] = stack[t][i]
  BY BelowIs
<1>2. stack'[t] = Append(b, f)
  BY Stacked
<1> HIDE DEF b
<1>3. Len(stack'[t]) = n /\ stack'[t][n] = f /\ \A i \in 1..n - 1 : stack'[t][i] = stack[t][i]
  BY <1>1, <1>2, AppendFrame
<1> QED
  BY <1>3

LEMMA FillPlace ==
  ASSUME TypeInv, PlaceInv, NEW t \in Threads, Fill(t)
  PROVE  PlaceInv'
<1> DEFINE n == Len(stack[t])
<1>1. Elsewhere(t)
  BY ActElsewhere DEF Act, Step
<1>2. Busy(t) /\ Top(t).pc = "fill" /\ UNCHANGED <<state, keyOf>>
  BY FillView DEF TopIs, gates, history
<1>3. PICK k : /\ k \in DOMAIN queue /\ queue' = Unbind(queue, k) /\ Lists(t, k)
  BY FillView
<1>4. PICK f : /\ FrameOK(f) /\ f.pc = "fill" /\ f.list = Append(Top(t).list, queue[k])
               /\ stack' = [stack EXCEPT ![t] = Append(Below(t), f)]
  BY <1>3 DEF Lists
<1>5. f \in Frames /\ n \in Nat /\ n > 0 /\ n \in 1..n
  BY <1>2, <1>4, BelowIs DEF FrameOK
<1>6. Len(stack'[t]) = n /\ stack'[t][n] = f /\ \A i \in 1..n - 1 : stack'[t][i] = stack[t][i]
  BY <1>2, <1>4, <1>5, OnBelow
<1> DEFINE d == queue[k]
           old == Top(t).list
<1>7. d \in Deferreds /\ old \in Seq(Deferreds)
  BY <1>2, <1>3, Now, PartialIs, TopOK DEF Frames
<1>8. f.list = Append(old, d) /\ stack[t][n].list = old
  BY <1>4 DEF Top
<1>9. DOMAIN queue' = DOMAIN queue \ {k} /\ \A j \in DOMAIN queue' : queue'[j] = queue[j]
  BY <1>3 DEF Unbind, Restrict
<1>10. /\ keyOf[d] = k /\ state[d] \in {"idle", "cancelled"} /\ keyOf[d] # Null
       /\ \A j \in DOMAIN queue' : queue'[j] # d
  <2>1. keyOf[d] = k /\ state[d] \in {"idle", "cancelled"}
    BY <1>3 DEF PlaceInv, QueueInv
  <2>2. \A j \in DOMAIN queue : keyOf[queue[j]] = j
    BY DEF PlaceInv, QueueInv
  <2>3. k \in Keys /\ Null \notin Keys
    BY <1>3, Now, PartialIs, PoolAssumption
  <2> QED
    BY <1>9, <2>1, <2>2, <2>3
<1>11. \A e \in Deferreds, u \in Threads : \A i, j \in Nat : LAt(e, u, i, j) => e # d
  BY <1>3 DEF PlaceInv, ListInv
<1> HIDE DEF d, old
<1>12. Len(old) \in Nat /\ Len(f.list) = Len(old) + 1 /\ f.list[Len(old) + 1] = d
       /\ \A j \in 1..Len(old) : f.list[j] = old[j]
  BY <1>7, <1>8
<1>13. ASSUME NEW e \in Deferreds, NEW u \in Threads, NEW i \in Nat, NEW j \in Nat, LAt(e, u, i, j)'
       PROVE  LAt(e, u, i, j) \/ (e = d /\ u = t /\ i = n /\ j = Len(old) + 1)
  <2>1. CASE u # t
    BY <1>1, <1>13, <2>1 DEF LAt, Elsewhere
  <2>2. CASE u = t /\ i # n
    <3>1. i \in 1..n - 1
      BY <1>5, <1>6, <1>13, <2>2 DEF LAt
    <3>2. i \in 1..n /\ stack'[t][i] = stack[t][i]
      BY <1>5, <1>6, <3>1
    <3> QED
      BY <1>13, <2>2, <3>2 DEF LAt
  <2>3. CASE u = t /\ i = n
    <3>1. j \in 1..Len(old) + 1 /\ f.list[j] = e
      BY <1>6, <1>12, <1>13, <2>3 DEF LAt
    <3>2. CASE j = Len(old) + 1
      BY <1>12, <2>3, <3>1, <3>2
    <3>3. CASE j # Len(old) + 1
      <4>1. j \in 1..Len(old) /\ old[j] = e
        BY <1>12, <3>1, <3>3
      <4> QED
        BY <1>5, <1>8, <2>3, <4>1 DEF LAt
    <3> QED
      BY <3>2, <3>3
  <2> QED
    BY <2>1, <2>2, <2>3
<1>14. EnterInv'
  <2>1. Tops(t, f)
    BY <1>2, <1>4, GroundBelow DEF Tops
  <2>2. NoNewEntry
    BY <1>1, <1>4, <2>1, QuietEntry
  <2> QED
    BY <1>2, <2>2 DEF PlaceInv, EnterInv, NoNewEntry
<1>15. QueueInv'
  BY <1>2, <1>9 DEF PlaceInv, QueueInv
<1>16. ListInv'
  <2> SUFFICES ASSUME NEW e \in Deferreds, NEW u \in Threads, NEW i \in Nat, NEW j \in Nat,
                      LAt(e, u, i, j)'
               PROVE  /\ state'[e] \in {"idle", "cancelled"}
                      /\ keyOf'[e] # Null
                      /\ \A l \in DOMAIN queue' : queue'[l] # e
                      /\ \A v \in Threads : \A l, m \in Nat :
                           LAt(e, v, l, m)' => v = u /\ l = i /\ m = j
    BY DEF ListInv
  <2>1. CASE e = d
    <3>1. \A v \in Threads : \A l, m \in Nat :
            LAt(e, v, l, m)' => v = t /\ l = n /\ m = Len(old) + 1
      BY <1>11, <1>13, <2>1
    <3> QED
      BY <1>2, <1>10, <2>1, <3>1
  <2>2. CASE e # d
    <3>1. \A v \in Threads : \A l, m \in Nat : LAt(e, v, l, m)' => LAt(e, v, l, m)
      BY <1>13, <2>2
    <3>2. /\ state[e] \in {"idle", "cancelled"} /\ keyOf[e] # Null
          /\ \A l \in DOMAIN queue : queue[l] # e
          /\ \A v \in Threads : \A l, m \in Nat : LAt(e, v, l, m) => v = u /\ l = i /\ m = j
      BY <3>1 DEF PlaceInv, ListInv
    <3> QED
      BY <1>2, <1>9, <3>1, <3>2
  <2> QED
    BY <2>1, <2>2
<1>17. CallInv'
  <2>1. NoNewCall
    <3> SUFFICES ASSUME NEW e \in Deferreds, NEW u \in Threads, NEW i \in Nat, Calls(e, u, i)'
                 PROVE  Calls(e, u, i)
      BY DEF NoNewCall
    <3> QED
      BY <1>1, <1>4, <1>5, <1>6 DEF Calls, Elsewhere
  <2> QED
    BY <1>2, <2>1 DEF PlaceInv, CallInv, NoNewCall
<1>18. FreshInv'
  BY <1>2 DEF PlaceInv, FreshInv
<1> QED
  BY <1>14, <1>15, <1>16, <1>17, <1>18 DEF PlaceInv

LEMMA StartPlace ==
  ASSUME TypeInv, PlaceInv, NEW t \in Threads, Start(t)
  PROVE  PlaceInv'
<1> DEFINE n == Len(stack[t])
           old == Top(t).list
<1>d. PICK d \in Deferreds : d = Head(old)
  BY StartView
<1>1. Elsewhere(t)
  BY ActElsewhere DEF Act, Step
<1>2. Busy(t) /\ Top(t).pc = "start" /\ old # <<>> /\ old \in Seq(Deferreds)
      /\ UNCHANGED <<queue, hook, keyOf>>
  BY <1>d, StartView, TopOK DEF TopIs, Frames, pool, history
<1>3. n \in Nat /\ n > 0 /\ n \in 1..n /\ stack[t][n].list = old
  BY <1>2, BelowIs DEF Top
<1>4. /\ Len(old) \in Nat /\ Len(old) > 0 /\ old[1] = d /\ Len(Tail(old)) = Len(old) - 1
      /\ \A j \in 1..Len(old) - 1 : Tail(old)[j] = old[j + 1]
  BY <1>d, <1>2
<1>5. LAt(d, t, n, 1)
  BY <1>3, <1>4 DEF LAt
<1>6. \E f : /\ FrameOK(f) /\ f.pc = "start" /\ f.list = Tail(old)
             /\ \/ /\ state[d] = "idle" /\ state' = [state EXCEPT ![d] = "starting"]
                   /\ \E g : /\ FrameOK(g) /\ g.pc = "callback" /\ g.d = d
                             /\ stack' = [stack EXCEPT ![t] = Append(Append(Below(t), f), g)]
                \/ /\ state[d] = "cancelled" /\ state' = [state EXCEPT ![d] = "spent"]
                   /\ stack' = [stack EXCEPT ![t] = Append(Below(t), f)]
  BY <1>d, StartView
<1>7. PICK f : /\ FrameOK(f) /\ f.pc = "start" /\ f.list = Tail(old)
               /\ \/ /\ state[d] = "idle" /\ state' = [state EXCEPT ![d] = "starting"]
                     /\ \E g : /\ FrameOK(g) /\ g.pc = "callback" /\ g.d = d
                               /\ stack' = [stack EXCEPT ![t] = Append(Append(Below(t), f), g)]
                  \/ /\ state[d] = "cancelled" /\ state' = [state EXCEPT ![d] = "spent"]
                     /\ stack' = [stack EXCEPT ![t] = Append(Below(t), f)]
  BY <1>6
<1> HIDE DEF old
<1>8. f \in Frames /\ state \in [Deferreds -> States]
  BY <1>7, Now DEF FrameOK
<1>9. /\ Len(stack'[t]) \in {n, n + 1} /\ stack'[t][n] = f
      /\ \A i \in 1..n - 1 : stack'[t][i] = stack[t][i]
      /\ Len(stack'[t]) = n + 1 =>
           /\ stack'[t][n + 1].pc = "callback" /\ stack'[t][n + 1].d = d
           /\ stack'[t][n + 1].list = <<>>
           /\ state[d] = "idle" /\ state'[d] = "starting"
  <2>1. CASE stack' = [stack EXCEPT ![t] = Append(Below(t), f)]
    <3>1. Len(stack'[t]) = n /\ stack'[t][n] = f /\ \A i \in 1..n - 1 : stack'[t][i] = stack[t][i]
      BY <1>2, <1>8, <2>1, OnBelow
    <3>2. n # n + 1
      BY <1>3
    <3> QED
      BY <3>1, <3>2
  <2>2. CASE /\ state[d] = "idle" /\ state' = [state EXCEPT ![d] = "starting"]
             /\ \E g : /\ FrameOK(g) /\ g.pc = "callback" /\ g.d = d
                       /\ stack' = [stack EXCEPT ![t] = Append(Append(Below(t), f), g)]
    <3>1. PICK g : /\ FrameOK(g) /\ g.pc = "callback" /\ g.d = d
                   /\ stack' = [stack EXCEPT ![t] = Append(Append(Below(t), f), g)]
      BY <2>2
    <3>2. g \in Frames /\ g.list = <<>>
      BY <3>1 DEF FrameOK
    <3> DEFINE s == Append(Append(Below(t), f), g)
    <3>3. /\ Len(s) = n + 1 /\ s[n] = f /\ s[n + 1] = g /\ \A i \in 1..n - 1 : s[i] = stack[t][i]
      BY <1>2, <1>8, <3>2, TwoFrames
    <3>4. stack'[t] = s
      BY <3>1, Stacked
    <3> HIDE DEF s
    <3>5. state'[d] = "starting"
      BY <1>2, <1>8, <2>2
    <3> QED
      BY <2>2, <3>1, <3>2, <3>3, <3>4, <3>5
  <2> QED
    BY <1>7, <2>1, <2>2
<1>10. /\ \/ state[d] = "idle" /\ state'[d] = "starting"
          \/ state[d] = "cancelled" /\ state'[d] = "spent"
       /\ \A e \in Deferreds \ {d} : state'[e] = state[e]
  BY <1>2, <1>7, <1>8
<1>11. keyOf[d] # Null /\ (\A k \in DOMAIN queue : queue[k] # d)
       /\ \A u \in Threads : \A l, m \in Nat : LAt(d, u, l, m) => u = t /\ l = n /\ m = 1
  BY <1>2, <1>3, <1>5 DEF PlaceInv, ListInv
<1>12. ASSUME NEW e \in Deferreds, NEW u \in Threads, NEW i \in Nat, NEW j \in Nat, LAt(e, u, i, j)'
       PROVE  LAt(e, u, i, IF u = t /\ i = n THEN j + 1 ELSE j)
  <2>1. CASE u # t
    BY <1>1, <1>12, <2>1 DEF LAt, Elsewhere
  <2>2. CASE u = t /\ i \in 1..n - 1
    <3>1. i \in 1..n /\ stack'[t][i] = stack[t][i] /\ i # n
      BY <1>3, <1>9, <2>2
    <3> QED
      BY <1>12, <2>2, <3>1 DEF LAt
  <2>3. CASE u = t /\ i = n
    <3>1. j \in 1..Len(Tail(old)) /\ Tail(old)[j] = e
      BY <1>7, <1>9, <1>12, <2>3 DEF LAt
    <3>2. j \in 1..Len(old) - 1 /\ j + 1 \in 1..Len(old) /\ old[j + 1] = e
      BY <1>4, <3>1
    <3> QED
      BY <1>3, <2>3, <3>2 DEF LAt
  <2>4. CASE u = t /\ i = n + 1
    <3>1. Len(stack'[t]) = n + 1
      BY <1>3, <1>9, <1>12, <2>4 DEF LAt
    <3> QED
      BY <1>9, <1>12, <2>4, <3>1 DEF LAt
  <2> QED
    BY <1>3, <1>9, <1>12, <2>1, <2>2, <2>3, <2>4 DEF LAt
<1>13. \A u \in Threads : \A i, j \in Nat : ~LAt(d, u, i, j)'
  <2> SUFFICES ASSUME NEW u \in Threads, NEW i \in Nat, NEW j \in Nat, LAt(d, u, i, j)'
               PROVE  FALSE
    OBVIOUS
  <2>1. j > 0
    BY DEF LAt
  <2> DEFINE m == IF u = t /\ i = n THEN j + 1 ELSE j
  <2>2. LAt(d, u, i, m) /\ m \in Nat
    BY <1>2, <1>12
  <2>3. u = t /\ i = n /\ m = 1
    BY <1>11, <2>2
  <2> QED
    BY <2>1, <2>3
<1>14. ASSUME NEW e \in Deferreds, NEW u \in Threads, NEW i \in Nat, Calls(e, u, i)'
       PROVE  \/ Calls(e, u, i) /\ ~(u = t /\ i = n + 1)
              \/ e = d /\ u = t /\ i = n + 1 /\ state[d] = "idle" /\ state'[d] = "starting"
  <2>1. CASE u # t
    BY <1>1, <1>14, <2>1 DEF Calls, Elsewhere
  <2>2. CASE u = t /\ i \in 1..n - 1
    <3>1. i \in 1..n /\ stack'[t][i] = stack[t][i] /\ i # n + 1
      BY <1>3, <1>9, <2>2
    <3> QED
      BY <1>14, <2>2, <3>1 DEF Calls
  <2>3. CASE u = t /\ i = n
    BY <1>7, <1>9, <1>14, <2>3 DEF Calls
  <2>4. CASE u = t /\ i = n + 1
    <3>1. Len(stack'[t]) = n + 1
      BY <1>3, <1>9, <1>14, <2>4 DEF Calls
    <3> QED
      BY <1>9, <1>14, <2>4, <3>1 DEF Calls
  <2> QED
    BY <1>3, <1>9, <1>14, <2>1, <2>2, <2>3, <2>4 DEF Calls
<1>15. EnterInv'
  <2>1. \A u \in Threads, e \in Deferreds : Entering(u, e)' => Entering(u, e)
    <3> SUFFICES ASSUME NEW u \in Threads, NEW e \in Deferreds, Entering(u, e)'
                 PROVE  Entering(u, e)
      OBVIOUS
    <3>1. CASE u # t
      BY <1>1, <3>1, OtherEntries
    <3>2. CASE u = t
      <4>1. Top(t)'.pc \in {"start", "callback"}
        BY <1>3, <1>7, <1>9 DEF Top
      <4> QED
        BY <3>2, <4>1 DEF Entering, TopIs
    <3> QED
      BY <3>1, <3>2
  <2> QED
    BY <1>2, <2>1 DEF PlaceInv, EnterInv
<1>16. QueueInv'
  <2>1. queue \in [DOMAIN queue -> Deferreds]
    BY Now, PartialIs
  <2> QED
    BY <1>2, <1>10, <1>11, <2>1 DEF PlaceInv, QueueInv
<1>17. ListInv'
  <2> SUFFICES ASSUME NEW e \in Deferreds, NEW u \in Threads, NEW i \in Nat, NEW j \in Nat,
                      LAt(e, u, i, j)'
               PROVE  /\ state'[e] \in {"idle", "cancelled"}
                      /\ keyOf'[e] # Null
                      /\ \A l \in DOMAIN queue' : queue'[l] # e
                      /\ \A v \in Threads : \A l, m \in Nat :
                           LAt(e, v, l, m)' => v = u /\ l = i /\ m = j
    BY DEF ListInv
  <2> DEFINE at(v, l, m) == IF v = t /\ l = n THEN m + 1 ELSE m
  <2>1. e # d
    BY <1>13
  <2>2. \A v \in Threads : \A l, m \in Nat : LAt(e, v, l, m)' => LAt(e, v, l, at(v, l, m))
    BY <1>12
  <2>3. \A v \in Threads : \A l, m \in Nat : at(v, l, m) \in Nat
    OBVIOUS
  <2>4. LAt(e, u, i, at(u, i, j)) /\ at(u, i, j) \in Nat
    BY <2>2, <2>3
  <2>5. /\ state[e] \in {"idle", "cancelled"} /\ keyOf[e] # Null
        /\ \A l \in DOMAIN queue : queue[l] # e
        /\ \A v \in Threads : \A l, m \in Nat :
             LAt(e, v, l, m) => v = u /\ l = i /\ m = at(u, i, j)
    BY <2>4 DEF PlaceInv, ListInv
  <2>6. ASSUME NEW v \in Threads, NEW l \in Nat, NEW m \in Nat, LAt(e, v, l, m)'
        PROVE  v = u /\ l = i /\ m = j
    <3>1. LAt(e, v, l, at(v, l, m)) /\ at(v, l, m) \in Nat
      BY <2>2, <2>3, <2>6
    <3>2. v = u /\ l = i /\ at(v, l, m) = at(u, i, j)
      BY <2>5, <3>1
    <3> QED
      BY <3>2
  <2> HIDE DEF at
  <2> QED
    BY <1>2, <1>10, <2>1, <2>5, <2>6
<1>18. CallInv'
  <2> SUFFICES ASSUME NEW e \in Deferreds, NEW u \in Threads, NEW i \in Nat, Calls(e, u, i)'
               PROVE  /\ state'[e] = "starting"
                      /\ \A v \in Threads : \A l \in Nat : Calls(e, v, l)' => v = u /\ l = i
    BY DEF CallInv
  <2>1. \A v \in Threads : \A l \in Nat : Calls(d, v, l) => state[d] = "starting"
    BY <1>2 DEF PlaceInv, CallInv
  <2>2. CASE e = d
    <3>1. \A v \in Threads : \A l \in Nat :
            Calls(e, v, l)' => v = t /\ l = n + 1 /\ state'[d] = "starting"
      BY <1>10, <1>14, <2>1, <2>2
    <3> QED
      BY <2>2, <3>1
  <2>3. CASE e # d
    <3>1. \A v \in Threads : \A l \in Nat : Calls(e, v, l)' => Calls(e, v, l)
      BY <1>14, <2>3
    <3>2. /\ state[e] = "starting"
          /\ \A v \in Threads : \A l \in Nat : Calls(e, v, l) => v = u /\ l = i
      BY <3>1 DEF PlaceInv, CallInv
    <3> QED
      BY <1>10, <2>3, <3>1, <3>2
  <2> QED
    BY <2>2, <2>3
<1>19. FreshInv'
  BY <1>2, <1>10, <1>11 DEF PlaceInv, FreshInv
<1> QED
  BY <1>15, <1>16, <1>17, <1>18, <1>19 DEF PlaceInv

LEMMA StartReturnsPlace ==
  ASSUME TypeInv, PlaceInv, NEW t \in Threads, StartReturns(t)
  PROVE  PlaceInv'
<1> DEFINE n == Len(stack[t])
<1>d. PICK d \in Deferreds : d = Top(t).d
  BY StartReturnsView
<1>1. Elsewhere(t)
  BY ActElsewhere DEF Act, Step
<1>2. Busy(t) /\ Top(t).pc = "callback" /\ UNCHANGED <<queue, keyOf>>
  BY StartReturnsView DEF TopIs, pool, history
<1>3. n \in Nat /\ n > 0 /\ n \in 1..n
  BY <1>2, BelowIs
<1>4. Calls(d, t, n)
  BY <1>d, <1>2, <1>3 DEF Calls, Top
<1>5. state[d] = "starting" /\ \A u \in Threads : \A l \in Nat : Calls(d, u, l) => u = t /\ l = n
  BY <1>2, <1>3, <1>4 DEF PlaceInv, CallInv
<1>6. \E new : state' = [state EXCEPT ![d] = new]
  BY <1>d, StartReturnsView DEF Settles
<1>7. Plain(t)
  BY <1>d, <1>2, StartReturnsView, GoesPlain, SettlesPlain DEF Plain
<1>8. NoNewListed /\ NoNewCall /\ NoNewEntry
  BY <1>1, <1>7, PlainCalm
<1>9. \E s : Set(t, s) /\ (s = Below(t) \/ \E f \in Frames : f.pc # "callback" /\ s = Append(Below(t), f))
  <2>1. hook[d] # Null =>
          /\ Frame("handover", d, hook[d]) \in Frames /\ Frame("handover", d, hook[d]).pc # "callback"
          /\ Frame("remove", d, hook[d]) \in Frames /\ Frame("remove", d, hook[d]).pc # "callback"
    <3> SUFFICES ASSUME hook[d] # Null
                 PROVE  /\ Frame("handover", d, hook[d]) \in Frames
                        /\ Frame("handover", d, hook[d]).pc # "callback"
                        /\ Frame("remove", d, hook[d]) \in Frames
                        /\ Frame("remove", d, hook[d]).pc # "callback"
      OBVIOUS
    <3>1. hook[d] \in Keys /\ "handover" \in KeyPCs /\ "remove" \in KeyPCs
      BY <1>2, Waits DEF KeyPCs, TokenPCs
    <3>2. /\ FrameOK(Frame("handover", d, hook[d])) /\ Frame("handover", d, hook[d]).pc = "handover"
          /\ FrameOK(Frame("remove", d, hook[d])) /\ Frame("remove", d, hook[d]).pc = "remove"
      BY <1>2, <3>1, KeyFrameOK
    <3> QED
      BY <3>2 DEF FrameOK
  <2>2. \/ Set(t, Below(t))
        \/ hook[d] # Null /\ Set(t, Append(Below(t), Frame("handover", d, hook[d])))
        \/ hook[d] # Null /\ Set(t, Append(Below(t), Frame("remove", d, hook[d])))
    BY <1>d DEF StartReturns, Settle, PassedOn
  <2> QED
    BY <2>1, <2>2
<1>10. \A i \in 1..Len(stack'[t]) : stack'[t][i].pc = "callback" => i # n
  <2>1. PICK s : Set(t, s) /\ (s = Below(t) \/ \E f \in Frames : f.pc # "callback" /\ s = Append(Below(t), f))
    BY <1>9
  <2>2. stack'[t] = s
    BY <2>1, Stacked DEF Set
  <2>3. CASE s = Below(t)
    BY <1>2, <1>3, <2>2, <2>3, BelowIs
  <2>4. CASE \E f \in Frames : f.pc # "callback" /\ s = Append(Below(t), f)
    <3>1. PICK f \in Frames : f.pc # "callback" /\ s = Append(Below(t), f)
      BY <2>4
    <3>2. stack'[t][n] = f
      BY <1>2, <2>1, <3>1, OnBelow DEF Set
    <3> QED
      BY <3>1, <3>2
  <2> QED
    BY <2>1, <2>3, <2>4
<1>11. \A u \in Threads : \A i \in Nat : ~Calls(d, u, i)'
  <2> SUFFICES ASSUME NEW u \in Threads, NEW i \in Nat, Calls(d, u, i)' PROVE FALSE
    OBVIOUS
  <2>1. u = t /\ i = n
    BY <1>2, <1>5, <1>8 DEF NoNewCall
  <2> QED
    BY <1>10, <2>1 DEF Calls
<1>12. \A e \in Deferreds \ {d} : state'[e] = state[e]
  BY <1>6, Now
<1>13. keyOf[d] # Null /\ (\A k \in DOMAIN queue : queue[k] # d)
       /\ \A u \in Threads : \A i, j \in Nat : ~LAt(d, u, i, j)
  BY <1>2, <1>5 DEF PlaceInv, FreshInv, QueueInv, ListInv
<1>14. EnterInv'
  BY <1>2, <1>8 DEF PlaceInv, EnterInv, NoNewEntry
<1>15. QueueInv'
  <2>1. queue \in [DOMAIN queue -> Deferreds]
    BY Now, PartialIs
  <2> QED
    BY <1>2, <1>12, <1>13, <2>1 DEF PlaceInv, QueueInv
<1>16. ListInv'
  <2> SUFFICES ASSUME NEW e \in Deferreds, NEW u \in Threads, NEW i \in Nat, NEW j \in Nat,
                      LAt(e, u, i, j)'
               PROVE  /\ state'[e] \in {"idle", "cancelled"}
                      /\ keyOf'[e] # Null
                      /\ \A l \in DOMAIN queue' : queue'[l] # e
                      /\ \A v \in Threads : \A l, m \in Nat :
                           LAt(e, v, l, m)' => v = u /\ l = i /\ m = j
    BY DEF ListInv
  <2>1. LAt(e, u, i, j) /\ e # d
    BY <1>8, <1>13 DEF NoNewListed
  <2>2. /\ state[e] \in {"idle", "cancelled"} /\ keyOf[e] # Null
        /\ \A l \in DOMAIN queue : queue[l] # e
        /\ \A v \in Threads : \A l, m \in Nat : LAt(e, v, l, m) => v = u /\ l = i /\ m = j
    BY <2>1 DEF PlaceInv, ListInv
  <2> QED
    BY <1>2, <1>8, <1>12, <2>1, <2>2 DEF NoNewListed
<1>17. CallInv'
  <2> SUFFICES ASSUME NEW e \in Deferreds, NEW u \in Threads, NEW i \in Nat, Calls(e, u, i)'
               PROVE  /\ state'[e] = "starting"
                      /\ \A v \in Threads : \A l \in Nat : Calls(e, v, l)' => v = u /\ l = i
    BY DEF CallInv
  <2>1. Calls(e, u, i) /\ e # d
    BY <1>8, <1>11 DEF NoNewCall
  <2>2. /\ state[e] = "starting"
        /\ \A v \in Threads : \A l \in Nat : Calls(e, v, l) => v = u /\ l = i
    BY <2>1 DEF PlaceInv, CallInv
  <2> QED
    BY <1>8, <1>12, <2>1, <2>2 DEF NoNewCall
<1>18. FreshInv'
  BY <1>2, <1>12, <1>13 DEF PlaceInv, FreshInv
<1> QED
  BY <1>14, <1>15, <1>16, <1>17, <1>18 DEF PlaceInv

LEMMA PlaceStep ==
  ASSUME TypeInv, PlaceInv, NEW t \in Threads, Act(t)
  PROVE  PlaceInv'
<1>1. Enqueue(t) \/ Fill(t) \/ Start(t) \/ StartReturns(t) => PlaceInv'
  BY EnqueuePlace, FillPlace, StartPlace, StartReturnsPlace
<1>2. \A d \in Deferreds, k \in Keys : Add(t, d, k) => PlaceInv'
  BY AddPlace
<1> QED
  BY <1>1, <1>2, CalmActs, CalmStep DEF Act, Step

LEMMA AtMostOne ==
  ASSUME NEW S, \A x, y \in S : x = y
  PROVE  Cardinality(S) \in {0, 1} /\ (S # {} => Cardinality(S) = 1) /\ (S = {} => Cardinality(S) = 0)
<1>1. CASE S = {}
  BY <1>1, FS_EmptySet
<1>2. CASE S # {}
  <2>1. PICK x : S = {x}
    BY <1>2
  <2> QED
    BY <1>2, <2>1, FS_Singleton
<1> QED
  BY <1>1, <1>2

LEMMA PlaceOnce == TypeInv /\ PlaceInv => FiredOnce
<1> SUFFICES ASSUME TypeInv, PlaceInv PROVE FiredOnce
  OBVIOUS
<1> DEFINE Waiting(d) == {k \in DOMAIN queue : queue[k] = d}
           Listed(d, t, i) == {<<t, i, j>> : j \in {j \in DOMAIN stack[t][i].list :
                                                     stack[t][i].list[j] = d}}
           AllListed(d) == UNION {UNION {Listed(d, t, i) : i \in DOMAIN stack[t]} : t \in Threads}
<1>1. ASSUME NEW d \in Deferreds
      PROVE  /\ Cardinality(Waiting(d)) + Cardinality(AllListed(d)) <= 1
             /\ AllListed(d) # {} => state[d] \in {"idle", "cancelled"}
  <2>1. ASSUME NEW x \in AllListed(d)
        PROVE  \E t \in Threads : \E i, j \in Nat : x = <<t, i, j>> /\ LAt(d, t, i, j)
    <3>1. PICK t \in Threads : x \in UNION {Listed(d, t, i) : i \in DOMAIN stack[t]}
      OBVIOUS
    <3>2. PICK i \in DOMAIN stack[t] : x \in Listed(d, t, i)
      BY <3>1
    <3>3. PICK j \in DOMAIN stack[t][i].list : stack[t][i].list[j] = d /\ x = <<t, i, j>>
      BY <3>2
    <3>4. stack[t] \in Seq(Frames) /\ i \in 1..Len(stack[t])
      BY Stacked
    <3>5. stack[t][i] \in Frames
      BY <3>4
    <3>6. j \in 1..Len(stack[t][i].list) /\ i \in Nat /\ j \in Nat
      BY <3>4, <3>5 DEF Frames
    <3> QED
      BY <3>3, <3>4, <3>6 DEF LAt
  <2> HIDE DEF AllListed
  <2>2. \A x, y \in AllListed(d) : x = y
    <3> SUFFICES ASSUME NEW x \in AllListed(d), NEW y \in AllListed(d) PROVE x = y
      OBVIOUS
    <3>1. PICK t \in Threads, i \in Nat, j \in Nat : x = <<t, i, j>> /\ LAt(d, t, i, j)
      BY <2>1
    <3>2. PICK u \in Threads, l \in Nat, m \in Nat : y = <<u, l, m>> /\ LAt(d, u, l, m)
      BY <2>1
    <3>3. u = t /\ l = i /\ m = j
      BY <3>1, <3>2 DEF PlaceInv, ListInv
    <3> QED
      BY <3>1, <3>2, <3>3
  <2>3. \A j, k \in Waiting(d) : j = k
    BY DEF PlaceInv, QueueInv
  <2>4. AllListed(d) # {} => state[d] \in {"idle", "cancelled"} /\ Waiting(d) = {}
    <3> SUFFICES ASSUME NEW x \in AllListed(d)
                 PROVE  state[d] \in {"idle", "cancelled"} /\ Waiting(d) = {}
      OBVIOUS
    <3>1. PICK t \in Threads, i \in Nat, j \in Nat : LAt(d, t, i, j)
      BY <2>1
    <3>2. state[d] \in {"idle", "cancelled"} /\ \A k \in DOMAIN queue : queue[k] # d
      BY <3>1 DEF PlaceInv, ListInv
    <3> QED
      BY <3>2
  <2> HIDE DEF Waiting
  <2>5. /\ Cardinality(AllListed(d)) \in {0, 1} /\ (AllListed(d) = {} => Cardinality(AllListed(d)) = 0)
        /\ Cardinality(Waiting(d)) \in {0, 1} /\ (Waiting(d) = {} => Cardinality(Waiting(d)) = 0)
    BY <2>2, <2>3, AtMostOne
  <2> QED
    BY <2>4, <2>5
<1> QED
  BY <1>1 DEF FiredOnce

LEMMA PlaceInit == Init => PlaceInv
<1> SUFFICES ASSUME Init PROVE PlaceInv
  OBVIOUS
<1>1. \A d, t, i, j : t \in Threads => ~LAt(d, t, i, j) /\ ~Calls(d, t, i) /\ ~Entering(t, d)
  BY DEF Init, LAt, Calls, Entering, TopIs, Busy
<1>2. DOMAIN queue = {} /\ \A d \in Deferreds : state[d] = "idle"
  BY DEF Init
<1> QED
  BY <1>1, <1>2 DEF PlaceInv, EnterInv, QueueInv, ListInv, CallInv, FreshInv

LEMMA PlaceStutter ==
  ASSUME TypeInv, PlaceInv, UNCHANGED <<queue, state, stack, keyOf>>
  PROVE  PlaceInv'
<1>1. Calm
  BY DEF Calm, NoNewListed, NoNewCall, NoNewEntry, NoNewStart, NoNewKey, LAt, Calls, Entering,
         TopIs, Busy, Top
<1> QED
  BY <1>1, CalmStep

\* Whatever the client does, a gate waits or is about to be fired in one place
\* only, and what is about to be fired has not been (FiredOnce).
THEOREM GatesFireOnce == Spec => []FiredOnce
<1>1. TypeInv /\ PlaceInv /\ [Next]_vars => PlaceInv'
  <2> SUFFICES ASSUME TypeInv, PlaceInv, [Next]_vars PROVE PlaceInv'
    OBVIOUS
  <2>1. CASE UNCHANGED vars
    BY <2>1, PlaceStutter DEF vars, pool, gates, history
  <2>2. CASE Next
    <3>1. PICK t \in Threads : Act(t)
      BY <2>2 DEF Next, Act
    <3> QED
      BY <3>1, PlaceStep
  <2> QED
    BY <2>1, <2>2
<1> QED
  BY <1>1, PlaceInit, Typed, PlaceOnce, PTL DEF Spec
=============================================================================
