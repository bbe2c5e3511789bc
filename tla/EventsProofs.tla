---------------------------- MODULE EventsProofs ----------------------------
(* Theorems about Events, for every set of connections, threads and        *)
(* locations, every depth of the stack and every liberty of the sources.   *)
EXTENDS Events, FiniteSetTheorems, TLAPS

-----------------------------------------------------------------------------
(* The inductive invariant *)

\* What the frame f says of the sources
FrameOK(f) ==
  /\ f.pc \in {"wait", "callback"} => f.s \in Sources
  /\ f.pc \in {"progress", "uncount"} => f.s \in Connections
  /\ f.pc = "callback" => fired[f.s] # -1
  /\ f.pc = "wait" /\ ~f.running => fired[f.s] # -1
  /\ f.pc = "wait" /\ f.s \in Connections => connection[f.s] # "none"
  /\ f.pc = "uncount" => connection[f.s] = "failed" /\ fired[f.s] # -1 /\ f.s \notin cancelled
  /\ f.pc = "progress" /\ f.after = "fail" => connection[f.s] = "failed"
  /\ f.pc = "progress" /\ f.after = "finish" =>
       connection[f.s] = "ended" /\ (fired[f.s] # -1 => silentlyCancelled[f.s])

\* The frames that count their connection down
Counts(f) == f.pc = "uncount" \/ (f.pc = "progress" /\ f.after = "finish")

\* One of the frames st counts c down, and c once at most.
On(c, st) == \E i \in DOMAIN st : Counts(st[i]) /\ st[i].s = c

OnceOn(st) ==
  \A i, j \in DOMAIN st :
    Counts(st[i]) /\ Counts(st[j]) /\ st[i].s = st[j].s => i = j

FramesOK(st) == \A i \in DOMAIN st : FrameOK(st[i])

FrameInv == FramesOK(stack) /\ OnceOn(stack)

\* How far a source is, and who has fired it
ConnectionOK(c) ==
  /\ c \in cancelled => fired[c] # -1
  /\ connection[c] = "none" => fired[c] = -1
  /\ connection[c] \in {"delayed", "paused", "loading"} /\ fired[c] # -1 =>
       c \in cancelled /\ silentlyCancelled[c]

WorkerOK(w) ==
  /\ w \in cancelled => fired[w] # -1
  /\ worker[w] = "none" => fired[w] = -1
  /\ worker[w] # "done" /\ fired[w] # -1 =>
       w \in cancelled /\ (w \notin hasCanceller => silentlyCancelled[w])

LocationOK(l) ==
  /\ l \in cancelled => fired[l] # -1
  /\ manager[l] = "none" => fired[l] = -1
  /\ manager[l] = "updating" /\ fired[l] # -1 => l \in cancelled /\ silentlyCancelled[l]

SourceInv ==
  /\ hasCanceller \subseteq Workers
  /\ \A c \in Connections : ConnectionOK(c)
  /\ \A w \in Workers : WorkerOK(w)
  /\ \A l \in Locations : LocationOK(l)

\* c was counted up and is to be counted down, or leaks.
Owes(c) ==
  \/ connection[c] = "loading"
  \/ connection[c] = "failed" /\ (fired[c] = -1 \/ c \in cancelled)
  \/ On(c, stack)

Owed == {c \in Connections : Owes(c)}

\* A frame of st will pass on the error of c.
Failing(c, st) ==
  \E i \in DOMAIN st : st[i].pc = "progress" /\ st[i].after = "fail" /\ st[i].s = c

\* An exception may unwind a frame that was to count down, never one that has.
CountInv ==
  /\ urlConnectionCount >= Cardinality(Owed)
  /\ raisedBy = {} =>
       /\ urlConnectionCount = Cardinality(Owed)
       /\ \A c \in Connections :
            connection[c] = "failed" /\ fired[c] = -1 => Failing(c, stack)

\* That the count is never negative is CountInv's to say.
ShapeInv ==
  /\ LoopTypeOK /\ WorkerTypeOK /\ LocationTypeOK
  /\ connection \in
       [Connections -> {"none", "delayed", "paused", "loading", "ended", "failed"}]
  /\ chained \subseteq Connections
  /\ urlConnectionCount \in Int

Inv == ShapeInv /\ SourceInv /\ FrameInv /\ CountInv

-----------------------------------------------------------------------------
(* The stack *)

LEMMA FrameType ==
  ASSUME NEW pc \in ClientPCs \cup {"wait", "uncount"}, NEW s \in Sources \cup {Null},
         NEW after \in {"nothing", "get", "fail", "finish"}
  PROVE  Frame(pc, s, after) \in Frames
BY DEF Frame, Frames

LEMMA AppendFrame ==
  ASSUME NEW st \in Seq(Frames), NEW f \in Frames
  PROVE  /\ Append(st, f) \in Seq(Frames)
         /\ Len(Append(st, f)) = Len(st) + 1
         /\ \A i \in 1..Len(st) : Append(st, f)[i] = st[i]
         /\ Append(st, f)[Len(st) + 1] = f
OBVIOUS

LEMMA PrefixFrames ==
  ASSUME NEW st \in Seq(Frames), NEW k \in 0..Len(st)
  PROVE  /\ SubSeq(st, 1, k) \in Seq(Frames)
         /\ Len(SubSeq(st, 1, k)) = k
         /\ \A i \in 1..k : SubSeq(st, 1, k)[i] = st[i]
OBVIOUS

LEMMA BelowFrames ==
  ASSUME stack \in Seq(Frames), stack # <<>>
  PROVE  /\ Below \in Seq(Frames)
         /\ Len(stack) = Len(Below) + 1
         /\ \A i \in 1..Len(Below) : Below[i] = stack[i]
         /\ Top = stack[Len(stack)]
         /\ Top \in Frames
<1>1. Len(stack) \in Nat \ {0} /\ Len(stack) - 1 \in 0..Len(stack)
  OBVIOUS
<1>2. SubSeq(stack, 1, Len(stack) - 1) \in Seq(Frames)
      /\ Len(SubSeq(stack, 1, Len(stack) - 1)) = Len(stack) - 1
      /\ \A i \in 1..(Len(stack) - 1) : SubSeq(stack, 1, Len(stack) - 1)[i] = stack[i]
  BY <1>1, PrefixFrames
<1>3. stack[Len(stack)] \in Frames
  BY <1>1
<1> QED
  BY <1>1, <1>2, <1>3 DEF Below, Top

\* The frame g, with its wait told to end
Told(g) == [g EXCEPT !.running = FALSE]

LEMMA ToldType ==
  ASSUME NEW g \in Frames
  PROVE  /\ Told(g) \in Frames
         /\ Told(g).pc = g.pc /\ Told(g).s = g.s /\ Told(g).after = g.after
         /\ ~Told(g).running
BY DEF Told, Frames

LEMMA WokenFrames ==
  ASSUME NEW st \in Seq(Frames), NEW s
  PROVE  /\ Woken(s, st) \in Seq(Frames)
         /\ Len(Woken(s, st)) = Len(st)
         /\ \A i \in 1..Len(st) :
              Woken(s, st)[i] =
                IF st[i].pc = "wait" /\ st[i].s = s THEN Told(st[i]) ELSE st[i]
<1>1. DOMAIN st = 1..Len(st) /\ Len(st) \in Nat /\ \A i \in 1..Len(st) : st[i] \in Frames
  OBVIOUS
<1>2. Woken(s, st) = [i \in 1..Len(st) |->
                        IF st[i].pc = "wait" /\ st[i].s = s THEN Told(st[i]) ELSE st[i]]
  BY <1>1 DEF Woken, Told
<1>3. \A i \in 1..Len(st) :
        (IF st[i].pc = "wait" /\ st[i].s = s THEN Told(st[i]) ELSE st[i]) \in Frames
  BY <1>1, ToldType
<1> QED
  BY <1>1, <1>2, <1>3

\* The frames of stack' are those of st, but for waits that have been told that
\* their deferred has answered, and for the callback of one that has, on top.
Follows(st) ==
  /\ stack' \in Seq(Frames)
  /\ Len(stack') <= Len(st) + 1
  /\ \A i \in 1..Len(stack') :
       \/ /\ i \in 1..Len(st)
          /\ \/ stack'[i] = st[i]
             \/ st[i].pc = "wait" /\ fired'[st[i].s] # -1 /\ stack'[i] = Told(st[i])
       \/ /\ i = Len(st) + 1
          /\ stack'[i].pc = "callback" /\ stack'[i].s \in Sources
          /\ fired'[stack'[i].s] # -1

\* A step that keeps all the frames of st
Extends(st) == Follows(st) /\ Len(st) <= Len(stack')

LEMMA ProceedExtends ==
  ASSUME NEW st \in Seq(Frames), stack' = st
  PROVE  Extends(st)
BY DEF Extends, Follows

LEMMA WokenExtends ==
  ASSUME NEW st \in Seq(Frames), NEW s, stack' = Woken(s, st), fired'[s] # -1
  PROVE  Extends(st)
<1>1. \A i \in 1..Len(st) :
        Woken(s, st)[i] =
                IF st[i].pc = "wait" /\ st[i].s = s THEN Told(st[i]) ELSE st[i]
  BY WokenFrames
<1>2. Woken(s, st) \in Seq(Frames) /\ Len(Woken(s, st)) = Len(st)
  BY WokenFrames
<1> QED
  BY <1>1, <1>2 DEF Extends, Follows

LEMMA ChainExtends ==
  ASSUME NEW st \in Seq(Frames), NEW s \in Sources, RunChain(s, st), fired'[s] # -1
  PROVE  Extends(st)
<1>1. CASE stack' = Woken(s, st)
  BY <1>1, WokenExtends
<1>2. \A after \in {"nothing", "get"} :
        /\ Frame("callback", s, after) \in Frames
        /\ Frame("callback", s, after).pc = "callback"
        /\ Frame("callback", s, after).s = s
  BY FrameType DEF Frame, ClientPCs
<1>3. ASSUME NEW after \in {"nothing", "get"}, NEW base \in Seq(Frames),
             stack' = Append(base, Frame("callback", s, after)),
             base \in {st, Woken(s, st)}
      PROVE  Extends(st)
  <2>1. Woken(s, st) \in Seq(Frames) /\ Len(Woken(s, st)) = Len(st)
        /\ \A i \in 1..Len(st) :
             Woken(s, st)[i] =
                IF st[i].pc = "wait" /\ st[i].s = s THEN Told(st[i]) ELSE st[i]
    BY WokenFrames
  <2>2. \A i \in 1..Len(st) :
          base[i] = st[i] \/ (st[i].pc = "wait" /\ st[i].s = s /\ base[i] = Told(st[i]))
    BY <1>3, <2>1
  <2>3. Len(base) = Len(st)
    BY <1>3, <2>1
  <2>4. /\ stack' \in Seq(Frames)
        /\ Len(stack') = Len(st) + 1
        /\ \A i \in 1..Len(st) : stack'[i] = base[i]
        /\ stack'[Len(st) + 1] = Frame("callback", s, after)
    BY <1>2, <1>3, <2>3, AppendFrame
  <2> QED
    BY <1>2, <2>2, <2>4 DEF Extends, Follows
<1>4. Woken(s, st) \in Seq(Frames)
  BY WokenFrames
<1> QED
  BY <1>1, <1>3, <1>4 DEF RunChain

LEMMA RaiseFollows ==
  ASSUME stack \in Seq(Frames), NEW s, Raise(s)
  PROVE  Follows(stack)
<1>1. PICK k \in 0..Len(stack) : stack' = SubSeq(stack, 1, k)
  BY DEF Raise
<1>2. /\ stack' \in Seq(Frames) /\ Len(stack') = k
      /\ \A i \in 1..k : stack'[i] = stack[i]
  BY <1>1, PrefixFrames
<1> QED
  BY <1>2 DEF Follows

-----------------------------------------------------------------------------
(* What the calls do to a deferred *)

\* Nobody has touched s.
Same(s) ==
  /\ fired'[s] = fired[s]
  /\ silentlyCancelled'[s] = silentlyCancelled[s]
  /\ s \in cancelled' <=> s \in cancelled

LEMMA AnswerShape ==
  ASSUME LoopTypeOK, NEW st \in Seq(Frames), NEW s \in Sources, NEW o \in {0, 1},
         Answer(s, o, st)
  PROVE  /\ LoopTypeOK'
         /\ hasCanceller' = hasCanceller /\ cancelled' = cancelled
         /\ \A x \in Sources \ {s} : Same(x)
         /\ Accepts(s) => Extends(st) /\ raisedBy' = raisedBy /\ fired'[s] # -1
         /\ ~Accepts(s) => Follows(stack) /\ Same(s) /\ raisedBy' = raisedBy \cup {s}
<1>1. CASE Accepts(s)
  <2>1. /\ fired' = [fired EXCEPT ![s] = o]
        /\ silentlyCancelled' =
             [silentlyCancelled EXCEPT ![s] = fired[s] = -1 /\ silentlyCancelled[s]]
        /\ RunChain(s, st)
        /\ hasCanceller' = hasCanceller /\ cancelled' = cancelled /\ raisedBy' = raisedBy
    BY <1>1 DEF Answer
  <2>2. fired' \in [Sources -> {-1, 0, 1}] /\ fired'[s] = o
        /\ \A x \in Sources \ {s} : fired'[x] = fired[x]
    BY <2>1 DEF LoopTypeOK
  <2>3. silentlyCancelled' \in [Sources -> BOOLEAN]
        /\ \A x \in Sources \ {s} : silentlyCancelled'[x] = silentlyCancelled[x]
    <3>1. (fired[s] = -1 /\ silentlyCancelled[s]) \in BOOLEAN
      OBVIOUS
    <3> HIDE DEF LoopTypeOK
    <3>2. silentlyCancelled \in [Sources -> BOOLEAN]
      BY DEF LoopTypeOK
    <3> QED
      BY <2>1, <3>1, <3>2
  <2>4. Extends(st)
    BY <2>1, <2>2, ChainExtends
  <2> QED
    BY <1>1, <2>1, <2>2, <2>3, <2>4 DEF LoopTypeOK, Same, Extends, Follows
<1>2. CASE ~Accepts(s)
  <2>1. Raise(s) /\ UNCHANGED <<deferreds, cancelled>>
    BY <1>2 DEF Answer
  <2>2. raisedBy' = raisedBy \cup {s}
    BY <2>1 DEF Raise
  <2>3. Follows(stack)
    BY <2>1, RaiseFollows DEF LoopTypeOK
  <2> QED
    BY <1>2, <2>1, <2>2, <2>3 DEF LoopTypeOK, Same, Follows, deferreds
<1> QED
  BY <1>1, <1>2

LEMMA ProceedShape ==
  ASSUME LoopTypeOK, NEW st \in Seq(Frames), Proceed(st)
  PROVE  /\ LoopTypeOK' /\ Extends(st)
         /\ hasCanceller' = hasCanceller /\ raisedBy' = raisedBy
         /\ \A x \in Sources : Same(x)
BY ProceedExtends DEF Proceed, LoopTypeOK, Same, deferreds, history

LEMMA CancelShape ==
  ASSUME LoopTypeOK, NEW s \in Sources, Cancel(s)
  PROVE  /\ LoopTypeOK' /\ Extends(stack)
         /\ hasCanceller' = hasCanceller /\ raisedBy' = raisedBy
         /\ \A x \in Sources \ {s} : Same(x)
         /\ fired[s] = -1 /\ fired'[s] # -1 /\ s \in cancelled'
         /\ s \notin hasCanceller => silentlyCancelled'[s]
<1>1. fired' \in [Sources -> {-1, 0, 1}] /\ fired'[s] # -1
      /\ \A x \in Sources \ {s} : fired'[x] = fired[x]
  BY DEF Cancel, LoopTypeOK
<1>2. silentlyCancelled' \in [Sources -> BOOLEAN]
      /\ silentlyCancelled'[s] = (s \notin hasCanceller)
      /\ \A x \in Sources \ {s} : silentlyCancelled'[x] = silentlyCancelled[x]
  BY DEF Cancel, LoopTypeOK
<1>3. Extends(stack)
  BY <1>1, ChainExtends DEF Cancel, LoopTypeOK
<1>4. fired[s] = -1 /\ cancelled' = cancelled \cup {s} /\ UNCHANGED <<hasCanceller, raisedBy>>
  BY DEF Cancel
<1> QED
  BY <1>1, <1>2, <1>3, <1>4 DEF LoopTypeOK, Same, Extends, Follows

LEMMA QuietShape ==
  ASSUME LoopTypeOK, UNCHANGED loopVars
  PROVE  /\ LoopTypeOK' /\ Extends(stack)
         /\ hasCanceller' = hasCanceller /\ raisedBy' = raisedBy
         /\ \A x \in Sources : Same(x)
BY ProceedExtends DEF loopVars, LoopTypeOK, Same, deferreds, history

LEMMA MakeFailsShape ==
  ASSUME LoopTypeOK, NEW c \in Sources, MakeFails(c)
  PROVE  /\ LoopTypeOK' /\ Extends(stack)
         /\ hasCanceller' = hasCanceller /\ raisedBy' = raisedBy
         /\ \A x \in Sources \ {c} : Same(x)
         /\ fired'[c] # -1
         /\ silentlyCancelled' = silentlyCancelled /\ cancelled' = cancelled
BY ProceedExtends DEF MakeFails, LoopTypeOK, Same, history

-----------------------------------------------------------------------------
(* What a step may change of the sources *)

\* Nothing but s has moved.
OnlyAt(s) ==
  /\ hasCanceller' = hasCanceller
  /\ \A x \in Sources \ {s} :
       /\ Same(x)
       /\ x \in Connections => connection'[x] = connection[x]
       /\ x \in Workers => worker'[x] = worker[x]
       /\ x \in Locations => manager'[x] = manager[x]

LEMMA SourcesKept ==
  ASSUME SourceInv, NEW s, OnlyAt(s),
         s \in Connections => ConnectionOK(s)',
         s \in Workers => WorkerOK(s)',
         s \in Locations => LocationOK(s)'
  PROVE  SourceInv'
<1>1. hasCanceller' \subseteq Workers
  BY DEF SourceInv, OnlyAt
<1>2. \A c \in Connections : ConnectionOK(c)'
  BY EventsAssumption DEF SourceInv, OnlyAt, Same, ConnectionOK
<1>3. \A w \in Workers : WorkerOK(w)'
  BY EventsAssumption DEF SourceInv, OnlyAt, Same, WorkerOK
<1>4. \A l \in Locations : LocationOK(l)'
  BY EventsAssumption DEF SourceInv, OnlyAt, Same, LocationOK
<1> QED
  BY <1>1, <1>2, <1>3, <1>4 DEF SourceInv

\* What the frames need of a step; it answers no connection that has ended but
\* those of X.
Steady(X) ==
  /\ \A s \in Sources : fired[s] # -1 => fired'[s] # -1
  /\ \A s \in cancelled' : s \in cancelled \/ fired[s] = -1
  /\ \A c \in Connections :
       /\ connection[c] # "none" => connection'[c] # "none"
       /\ connection[c] \in {"failed", "ended"} => connection'[c] = connection[c]
       /\ c \notin X /\ connection[c] = "ended" => Same(c) \/ silentlyCancelled'[c]

LEMMA SteadyFrame ==
  ASSUME NEW X, Steady(X), NEW f \in Frames, FrameOK(f),
         f.pc = "progress" /\ f.after = "finish" => f.s \notin X
  PROVE  FrameOK(f)'
<1>1. Connections \subseteq Sources
  BY EventsAssumption
<1>2. f.pc = "uncount" => f.s \notin cancelled'
  BY <1>1 DEF FrameOK, Steady
<1>3. f.pc = "progress" /\ f.after = "finish" =>
        connection'[f.s] = "ended" /\ (fired'[f.s] # -1 => silentlyCancelled'[f.s])
  BY <1>1 DEF FrameOK, Steady, Same
<1> QED
  BY <1>1, <1>2, <1>3 DEF FrameOK, Steady

\* The frames that follow sound ones are sound.
LEMMA FramesFollow ==
  ASSUME NEW st \in Seq(Frames), Follows(st), OnceOn(st),
         \A i \in 1..Len(st) : FrameOK(st[i])'
  PROVE  FrameInv'
<1>1. /\ stack' \in Seq(Frames) /\ Len(stack') \in Nat /\ DOMAIN stack' = 1..Len(stack')
      /\ DOMAIN st = 1..Len(st) /\ Len(st) \in Nat
      /\ \A i \in 1..Len(st) : st[i] \in Frames
  BY DEF Follows
<1>2. ASSUME NEW i \in 1..Len(stack')
      PROVE  FrameOK(stack[i])'
  <2>1. CASE i \in 1..Len(st) /\ stack'[i] = st[i]
    BY <2>1 DEF FrameOK
  <2>2. CASE i \in 1..Len(st) /\ st[i].pc = "wait" /\ fired'[st[i].s] # -1
             /\ stack'[i] = Told(st[i])
    <3>1. /\ stack'[i].pc = "wait" /\ stack'[i].s = st[i].s
      BY <1>1, <2>2, ToldType
    <3> QED
      BY <2>2, <3>1 DEF FrameOK
  <2>3. CASE i = Len(st) + 1 /\ stack'[i].pc = "callback" /\ stack'[i].s \in Sources
             /\ fired'[stack'[i].s] # -1
    BY <2>3 DEF FrameOK
  <2> QED
    BY <2>1, <2>2, <2>3 DEF Follows
<1>3. \A i \in 1..Len(stack') :
        Counts(stack'[i]) => i \in 1..Len(st) /\ stack'[i] = st[i]
  BY <1>1, ToldType DEF Follows, Counts
<1>4. OnceOn(stack)'
  BY <1>1, <1>3 DEF OnceOn
<1> QED
  BY <1>1, <1>2, <1>4 DEF FrameInv, FramesOK

\* What counts down, or will pass on an error, is what did before.
LEMMA OnFollows ==
  ASSUME NEW st \in Seq(Frames), Follows(st), NEW c
  PROVE  /\ On(c, stack)' => On(c, st)
         /\ Extends(st) => (On(c, st) => On(c, stack)')
                           /\ (Failing(c, st) => Failing(c, stack)')
<1>1. /\ stack' \in Seq(Frames) /\ Len(stack') \in Nat /\ DOMAIN stack' = 1..Len(stack')
      /\ DOMAIN st = 1..Len(st) /\ Len(st) \in Nat
      /\ \A i \in 1..Len(st) : st[i] \in Frames
  BY DEF Follows
<1>2. \A i \in 1..Len(stack') :
        Counts(stack'[i]) => i \in 1..Len(st) /\ stack'[i] = st[i]
  BY <1>1, ToldType DEF Follows, Counts
<1>3. Extends(st) =>
        \A i \in 1..Len(st) : st[i].pc # "wait" => i \in 1..Len(stack') /\ stack'[i] = st[i]
  BY <1>1 DEF Extends, Follows
<1>4. Extends(st) => (On(c, st) => On(c, stack)')
  BY <1>1, <1>3 DEF On, Counts
<1>5. Extends(st) => (Failing(c, st) => Failing(c, stack)')
  BY <1>1, <1>3 DEF Failing
<1>6. On(c, stack)' => On(c, st)
  BY <1>1, <1>2 DEF On
<1> QED
  BY <1>4, <1>5, <1>6

-----------------------------------------------------------------------------
(* How the count follows what is owed *)

LEMMA OwedFinite == IsFiniteSet(Owed) /\ Cardinality(Owed) \in Nat
<1>1. Owed \subseteq Connections
  BY DEF Owed
<1> QED
  BY <1>1, ConnectionsAssumption, FS_Subset, FS_CardinalityType

\* No connection that was counted up is forgotten.
FailingKept ==
  \A c \in Connections :
    connection'[c] = "failed" /\ fired'[c] = -1 => Failing(c, stack)'

LEMMA CountKept ==
  ASSUME CountInv, urlConnectionCount' = urlConnectionCount,
         raisedBy' = {} => raisedBy = {}, raisedBy' = {} => FailingKept,
         \A c \in Connections : Owes(c)' => Owes(c),
         raisedBy' = {} => \A c \in Connections : Owes(c) => Owes(c)',
         ShapeInv
  PROVE  CountInv'
<1>1. Owed' \subseteq Owed /\ (raisedBy' = {} => Owed' = Owed)
  BY DEF Owed
<1>2. Cardinality(Owed') <= Cardinality(Owed) /\ Cardinality(Owed') \in Nat
  BY <1>1, OwedFinite, FS_Subset, FS_CardinalityType
<1>3. urlConnectionCount' >= Cardinality(Owed')
  BY <1>2, OwedFinite DEF CountInv, ShapeInv
<1>4. raisedBy' = {} => urlConnectionCount' = Cardinality(Owed')
  BY <1>1 DEF CountInv
<1> QED
  BY <1>3, <1>4 DEF CountInv, FailingKept

LEMMA CountedUp ==
  ASSUME CountInv, ShapeInv, urlConnectionCount' = urlConnectionCount + 1,
         raisedBy' = raisedBy, raisedBy = {} => FailingKept,
         NEW x \in Connections, ~Owes(x),
         \A c \in Connections : Owes(c)' => Owes(c) \/ c = x,
         \A c \in Connections : Owes(c) => Owes(c)', Owes(x)'
  PROVE  CountInv'
<1>1. Owed' = Owed \cup {x} /\ x \notin Owed
  BY DEF Owed
<1>2. Cardinality(Owed') = Cardinality(Owed) + 1
  BY <1>1, OwedFinite, FS_AddElement
<1> QED
  BY <1>2, OwedFinite DEF CountInv, FailingKept, ShapeInv

LEMMA CountedDown ==
  ASSUME CountInv, ShapeInv, urlConnectionCount' = urlConnectionCount - 1,
         raisedBy' = raisedBy, raisedBy = {} => FailingKept,
         NEW x \in Connections, Owes(x), ~Owes(x)',
         \A c \in Connections : Owes(c)' => Owes(c),
         \A c \in Connections : Owes(c) => Owes(c)' \/ c = x
  PROVE  CountInv'
<1>1. Owed' = Owed \ {x} /\ x \in Owed
  BY DEF Owed
<1>2. Cardinality(Owed') = Cardinality(Owed) - 1
  BY <1>1, OwedFinite, FS_RemoveElement
<1> QED
  BY <1>2, OwedFinite DEF CountInv, FailingKept, ShapeInv

\* A step of other sources, or of the client with no connection
LEMMA AsideStep ==
  ASSUME Inv, UNCHANGED <<connection, urlConnectionCount>>, Steady({}),
         \A c \in Connections : Same(c),
         Follows(stack), raisedBy' = {} => raisedBy = {} /\ Extends(stack)
  PROVE  FrameInv' /\ CountInv'
<1>1. stack \in Seq(Frames) /\ DOMAIN stack = 1..Len(stack)
      /\ \A i \in 1..Len(stack) : stack[i] \in Frames
  BY DEF Inv, ShapeInv, LoopTypeOK
<1>2. \A f \in Frames : FrameOK(f) => FrameOK(f)'
  BY SteadyFrame
<1>3. FrameInv'
  <2>1. \A st \in Seq(Frames) :
          Follows(st) /\ OnceOn(st) /\ (\A i \in 1..Len(st) : FrameOK(st[i])') => FrameInv'
    BY FramesFollow
  <2>2. \A st \in Seq(Frames) :
          (\A i \in 1..Len(st) : st[i] \in Frames) /\ DOMAIN st = 1..Len(st)
    OBVIOUS
  <2>3. \A st \in Seq(Frames) : Follows(st) /\ OnceOn(st) /\ FramesOK(st) => FrameInv'
    BY <1>2, <2>1, <2>2 DEF FramesOK
  <2> QED
    BY <1>1, <2>3 DEF Inv, FrameInv
<1>4. \A c : (On(c, stack)' => On(c, stack))
             /\ (raisedBy' = {} => (On(c, stack) => On(c, stack)')
                                    /\ (Failing(c, stack) => Failing(c, stack)'))
  BY <1>1, OnFollows
<1>5. \A c \in Connections :
        (Owes(c)' => Owes(c)) /\ (raisedBy' = {} => (Owes(c) => Owes(c)'))
  BY <1>4 DEF Owes, Same
<1>6. raisedBy' = {} => FailingKept
  BY <1>4 DEF FailingKept, Inv, CountInv, Same
<1> QED
  BY <1>3, <1>5, <1>6, CountKept DEF Inv

-----------------------------------------------------------------------------
(* Threads *)

\* A source that is no connection leaves the connections and the frames alone.
LEMMA NoConnectionStep ==
  ASSUME Inv, ShapeInv', NEW s \in Workers \cup Locations, OnlyAt(s),
         UNCHANGED connectionVars,
         fired[s] # -1 => fired'[s] # -1,
         s \in cancelled' => s \in cancelled \/ fired[s] = -1,
         Follows(stack), raisedBy' = {} => raisedBy = {} /\ Extends(stack),
         s \in Workers => WorkerOK(s)', s \in Locations => LocationOK(s)'
  PROVE  Inv'
<1>1. s \in Sources /\ s \notin Connections
  BY EventsAssumption
<1>2. \A c \in Connections : Same(c)
  BY <1>1, EventsAssumption DEF OnlyAt
<1>3. cancelled' \subseteq Sources
  BY DEF ShapeInv, LoopTypeOK
<1>4. Steady({})
  BY <1>1, <1>2, <1>3 DEF Steady, OnlyAt, Same, connectionVars
<1>5. SourceInv'
  BY <1>1, SourcesKept DEF Inv
<1>6. FrameInv' /\ CountInv'
  BY <1>2, <1>4, AsideStep DEF connectionVars
<1> QED
  BY <1>5, <1>6 DEF Inv

LEMMA ThreadSteps ==
  ASSUME Inv, NEW w \in Workers, OfWorkers(MakeThread(w) \/ WorkerNext(w))
  PROVE  Inv'
<1>1. UNCHANGED connectionVars /\ UNCHANGED locationVars
  BY DEF OfWorkers
<1>2. LoopTypeOK /\ WorkerTypeOK /\ LocationTypeOK /\ stack \in Seq(Frames) /\ w \in Sources
      /\ WorkerOK(w) /\ Workers \cap Locations = {} /\ Workers \cap Connections = {}
  BY EventsAssumption DEF Inv, ShapeInv, LoopTypeOK, SourceInv
<1>3. \A x \in Workers \ {w} : worker'[x] = worker[x]
  BY <1>2 DEF OfWorkers, MakeThread, WorkerNext, StartThread, FunctionReturns,
              ReturnFromThread, WorkerTypeOK
<1>4. WorkerTypeOK'
  BY <1>2 DEF OfWorkers, MakeThread, WorkerNext, StartThread, FunctionReturns,
              ReturnFromThread, WorkerTypeOK
<1>5. LoopTypeOK' => ShapeInv'
  BY <1>1, <1>4 DEF Inv, ShapeInv, connectionVars, locationVars, LocationTypeOK
<1>6. (hasCanceller' = hasCanceller /\ \A x \in Sources \ {w} : Same(x)) => OnlyAt(w)
  BY <1>1, <1>3 DEF OnlyAt, connectionVars, locationVars
<1>7. CASE UNCHANGED loopVars
  <2>1. /\ LoopTypeOK' /\ Extends(stack)
        /\ hasCanceller' = hasCanceller /\ raisedBy' = raisedBy
        /\ \A x \in Sources : Same(x)
    BY <1>2, <1>7, QuietShape
  <2>2. Same(w) /\ Follows(stack) /\ OnlyAt(w)
    BY <1>2, <1>6, <2>1 DEF Extends
  <2>3. (worker[w] # "done" /\ worker'[w] # "none") \/ fired[w] = -1
    BY <1>2, <1>7 DEF OfWorkers, MakeThread, WorkerNext, StartThread, FunctionReturns,
              ReturnFromThread, WorkerTypeOK, Results, Delivers, WorkerOK
  <2>4. WorkerOK(w)'
    BY <1>2, <2>1, <2>2, <2>3 DEF WorkerOK, Same
  <2> QED
    BY <1>1, <1>2, <1>5, <2>1, <2>2, <2>4, NoConnectionStep DEF Same
<1>8. ASSUME NEW o \in {0, 1}, Answer(w, o, stack), worker' = [worker EXCEPT ![w] = "done"]
      PROVE  Inv'
  <2>1. /\ LoopTypeOK'
        /\ hasCanceller' = hasCanceller /\ cancelled' = cancelled
        /\ \A x \in Sources \ {w} : Same(x)
        /\ Accepts(w) => Extends(stack) /\ raisedBy' = raisedBy /\ fired'[w] # -1
        /\ ~Accepts(w) => Follows(stack) /\ Same(w) /\ raisedBy' = raisedBy \cup {w}
    BY <1>2, <1>8, AnswerShape
  <2>2. worker'[w] = "done"
    BY <1>2, <1>8 DEF WorkerTypeOK
  <2>3. Follows(stack) /\ (raisedBy' = {} => raisedBy = {} /\ Extends(stack))
    BY <2>1 DEF Extends
  <2>4. fired[w] # -1 => fired'[w] # -1
    BY <2>1 DEF Same
  <2>5. WorkerOK(w)'
    BY <1>2, <2>1, <2>2, <2>4 DEF WorkerOK
  <2> QED
    BY <1>1, <1>2, <1>5, <1>6, <2>1, <2>3, <2>4, <2>5, NoConnectionStep
<1>9. CASE /\ worker[w] = "deferred" /\ Raise(w) /\ UNCHANGED <<deferreds, cancelled>>
           /\ worker' = [worker EXCEPT ![w] = "rejected"]
  <2>1. Follows(stack) /\ raisedBy' = raisedBy \cup {w}
    BY <1>2, <1>9, RaiseFollows DEF Raise
  <2>2. LoopTypeOK' /\ \A x \in Sources : Same(x)
    BY <1>2, <1>9, <2>1 DEF LoopTypeOK, Follows, deferreds, Same
  <2>3. hasCanceller' = hasCanceller /\ cancelled' = cancelled
    BY <1>9 DEF deferreds
  <2>4. WorkerOK(w)'
    BY <1>2, <1>9, <2>2, <2>3 DEF WorkerOK, Same, WorkerTypeOK
  <2> QED
    BY <1>1, <1>2, <1>5, <1>6, <2>1, <2>2, <2>3, <2>4, NoConnectionStep DEF Same
<1> QED
  BY <1>7, <1>8, <1>9 DEF OfWorkers, MakeThread, WorkerNext, StartThread, FunctionReturns,
                          ReturnFromThread

-----------------------------------------------------------------------------
(* Locations *)

LEMMA LocationSteps ==
  ASSUME Inv, NEW l \in Locations, OfLocations(GetLocation(l) \/ LocationNext(l))
  PROVE  Inv'
<1> DEFINE Steps == GetLocation(l) \/ LocationNext(l)
<1>1. UNCHANGED connectionVars /\ UNCHANGED worker
  BY DEF OfLocations
<1>2. LoopTypeOK /\ WorkerTypeOK /\ LocationTypeOK /\ stack \in Seq(Frames) /\ l \in Sources
      /\ LocationOK(l) /\ Workers \cap Locations = {} /\ Connections \cap Locations = {}
  BY EventsAssumption DEF Inv, ShapeInv, LoopTypeOK, SourceInv
<1>3. LocationTypeOK' /\ \A x \in Locations \ {l} : manager'[x] = manager[x]
  <2>1. CASE GetLocation(l)
    BY <1>2, <2>1 DEF GetLocation, LocationTypeOK
  <2>2. CASE DidUpdate(l)
    <3>1. updates' = [updates EXCEPT ![l] = updates[l] + 1] /\ updates[l] + 1 \in 0..MaxUpdates
      BY <1>2, <2>2, LocationAssumption DEF DidUpdate, LocationTypeOK
    <3>2. updates' \in [Locations -> 0..MaxUpdates]
      BY <1>2, <3>1 DEF LocationTypeOK
    <3> QED
      BY <1>2, <2>2, <3>2 DEF DidUpdate, Stopped, LocationTypeOK
  <2>3. CASE LocationFails(l)
    BY <1>2, <2>3 DEF LocationFails, Stopped, LocationTypeOK
  <2>4. CASE Timeout(l)
    BY <1>2, <2>4 DEF Timeout, Stopped, LocationTypeOK
  <2> QED
    BY <2>1, <2>2, <2>3, <2>4 DEF OfLocations, LocationNext
<1>4. LoopTypeOK' => ShapeInv'
  BY <1>1, <1>3 DEF Inv, ShapeInv, connectionVars, WorkerTypeOK
<1>5. (hasCanceller' = hasCanceller /\ \A x \in Sources \ {l} : Same(x)) => OnlyAt(l)
  BY <1>1, <1>3 DEF OnlyAt, connectionVars
<1>6. CASE UNCHANGED loopVars
  <2>1. /\ LoopTypeOK' /\ Extends(stack)
        /\ hasCanceller' = hasCanceller /\ raisedBy' = raisedBy
        /\ \A x \in Sources : Same(x)
    BY <1>2, <1>6, QuietShape
  <2>2. Same(l) /\ Follows(stack) /\ OnlyAt(l)
    BY <1>2, <1>5, <2>1 DEF Extends
  <2>3. LocationOK(l)'
    <3>1. CASE GetLocation(l)
      BY <1>2, <2>2, <3>1 DEF GetLocation, LocationOK, Same
    <3>2. CASE manager' = manager \/ manager' = Stopped(l)
      BY <1>2, <2>2, <3>2 DEF LocationOK, Same, Stopped, LocationTypeOK
    <3>3. LocationNext(l) => manager' = manager \/ manager' = Stopped(l)
      BY DEF LocationNext, DidUpdate, LocationFails, Timeout
    <3> QED
      BY <3>1, <3>2, <3>3 DEF OfLocations
  <2> QED
    BY <1>1, <1>2, <1>4, <2>1, <2>2, <2>3, NoConnectionStep DEF Same
<1>7. ASSUME NEW o \in {0, 1}, Answer(l, o, stack), manager' = Stopped(l)
      PROVE  Inv'
  <2>1. /\ LoopTypeOK'
        /\ hasCanceller' = hasCanceller /\ cancelled' = cancelled
        /\ \A x \in Sources \ {l} : Same(x)
        /\ Accepts(l) => Extends(stack) /\ raisedBy' = raisedBy /\ fired'[l] # -1
        /\ ~Accepts(l) => Follows(stack) /\ Same(l) /\ raisedBy' = raisedBy \cup {l}
    BY <1>2, <1>7, AnswerShape
  <2>2. manager'[l] = "stopped"
    BY <1>2, <1>7 DEF LocationTypeOK, Stopped
  <2>3. Follows(stack) /\ (raisedBy' = {} => raisedBy = {} /\ Extends(stack))
    BY <2>1 DEF Extends
  <2>4. fired[l] # -1 => fired'[l] # -1
    BY <2>1 DEF Same
  <2>5. LocationOK(l)'
    BY <1>2, <2>1, <2>2, <2>4 DEF LocationOK
  <2> QED
    BY <1>1, <1>2, <1>4, <1>5, <2>1, <2>3, <2>4, <2>5, NoConnectionStep
<1>8. GetLocation(l) => UNCHANGED loopVars
  BY DEF GetLocation
<1>9. LocationNext(l) =>
        UNCHANGED loopVars \/ \E o \in {0, 1} : Answer(l, o, stack) /\ manager' = Stopped(l)
  BY DEF LocationNext, DidUpdate, LocationFails, Timeout
<1> QED
  BY <1>6, <1>7, <1>8, <1>9 DEF OfLocations

-----------------------------------------------------------------------------
(* The client and the loop *)

LEMMA SoundStack ==
  ASSUME Inv
  PROVE  /\ LoopTypeOK /\ stack \in Seq(Frames)
         /\ Len(stack) \in Nat /\ DOMAIN stack = 1..Len(stack)
         /\ \A i \in 1..Len(stack) : stack[i] \in Frames /\ FrameOK(stack[i])
         /\ OnceOn(stack)
BY DEF Inv, ShapeInv, LoopTypeOK, FrameInv, FramesOK

\* A step of the loop alone keeps the source that it does not fire.
LEMMA LoopShape ==
  ASSUME Inv, UNCHANGED <<connectionVars, worker, locationVars>>, LoopTypeOK'
  PROVE  ShapeInv'
BY DEF Inv, ShapeInv, connectionVars, WorkerTypeOK, locationVars, LocationTypeOK

LEMMA CancelStep ==
  ASSUME Inv, NEW s \in Cancellable, OfLoop(Cancel(s))
  PROVE  Inv'
<1>1. UNCHANGED <<connectionVars, worker, locationVars>> /\ Cancel(s)
  BY DEF OfLoop
<1>2. /\ s \in Sources
      /\ s \in Connections => connection[s] # "none"
      /\ s \in Workers => worker[s] # "none"
      /\ s \in Locations => manager[s] # "none"
      /\ Connections \subseteq Sources /\ Connections \cap Workers = {}
      /\ Locations \cap Workers = {}
  BY EventsAssumption DEF Cancellable, Made
<1>3. /\ LoopTypeOK' /\ Extends(stack)
      /\ hasCanceller' = hasCanceller /\ raisedBy' = raisedBy
      /\ \A x \in Sources \ {s} : Same(x)
      /\ fired[s] = -1 /\ fired'[s] # -1 /\ s \in cancelled'
      /\ s \notin hasCanceller => silentlyCancelled'[s]
  BY <1>1, <1>2, SoundStack, CancelShape
<1>4. ShapeInv' /\ OnlyAt(s)
  BY <1>1, <1>3, LoopShape DEF OnlyAt, connectionVars, locationVars
<1>5. hasCanceller \subseteq Workers
  BY DEF Inv, SourceInv
<1>6. SourceInv'
  <2>1. s \in Connections => ConnectionOK(s)'
    BY <1>1, <1>2, <1>3, <1>5 DEF ConnectionOK, connectionVars
  <2>2. s \in Workers => WorkerOK(s)'
    BY <1>1, <1>2, <1>3, <1>5 DEF WorkerOK
  <2>3. s \in Locations => LocationOK(s)'
    BY <1>1, <1>2, <1>3, <1>5 DEF LocationOK, locationVars
  <2> QED
    BY <1>4, <2>1, <2>2, <2>3, SourcesKept DEF Inv
<1>7. Steady({})
  <2>1. cancelled' \subseteq Sources
    BY <1>3 DEF LoopTypeOK
  <2> QED
    BY <1>1, <1>2, <1>3, <1>5, <2>1 DEF Steady, Same, connectionVars
<1>8. FrameInv'
  <2>1. \A f \in Frames : FrameOK(f) => FrameOK(f)'
    BY <1>7, SteadyFrame
  <2>2. \A st \in Seq(Frames) :
          Follows(st) /\ OnceOn(st) /\ (\A i \in 1..Len(st) : FrameOK(st[i])') => FrameInv'
    BY FramesFollow
  <2>3. \A st \in Seq(Frames) :
          (\A i \in 1..Len(st) : st[i] \in Frames) /\ DOMAIN st = 1..Len(st)
    OBVIOUS
  <2>4. \A st \in Seq(Frames) : Follows(st) /\ OnceOn(st) /\ FramesOK(st) => FrameInv'
    BY <2>1, <2>2, <2>3 DEF FramesOK
  <2> QED
    BY <1>3, <2>4, SoundStack DEF Inv, FrameInv, Extends
<1>9. CountInv'
  <2>1. \A c : (On(c, stack)' <=> On(c, stack))
               /\ (Failing(c, stack) => Failing(c, stack)')
    BY <1>3, OnFollows, SoundStack DEF Extends
  <2>2. \A c \in Connections : Owes(c)' <=> Owes(c)
    BY <1>1, <1>2, <1>3, <2>1 DEF Owes, Same, connectionVars
  <2>3. raisedBy' = {} => FailingKept
    BY <1>1, <1>2, <1>3, <2>1 DEF FailingKept, Inv, CountInv, Same, connectionVars
  <2> QED
    BY <1>1, <1>3, <2>2, <2>3, CountKept DEF Inv, connectionVars
<1> QED
  BY <1>4, <1>6, <1>8, <1>9 DEF Inv

\* The frames of st were sound before the step, but for f, which it pushes.
LEMMA FramesStep ==
  ASSUME NEW st \in Seq(Frames), NEW X, NEW f, Steady(X), Follows(st), OnceOn(st),
         FrameOK(f)',
         \A i \in 1..Len(st) :
           \/ st[i] = f
           \/ FrameOK(st[i]) /\ (st[i].pc = "progress" /\ st[i].after = "finish" => st[i].s \notin X)
  PROVE  FrameInv'
<1>1. \A i \in 1..Len(st) : st[i] \in Frames
  OBVIOUS
<1>2. ASSUME NEW i \in 1..Len(st)
      PROVE  FrameOK(st[i])'
  <2>1. CASE st[i] = f
    BY <2>1
  <2>2. CASE FrameOK(st[i]) /\ (st[i].pc = "progress" /\ st[i].after = "finish" => st[i].s \notin X)
    BY <1>1, <2>2, SteadyFrame
  <2> QED
    BY <2>1, <2>2
<1> QED
  BY <1>2, FramesFollow

\* What is left when the top is gone
LEMMA Popped ==
  ASSUME Inv, stack # <<>>
  PROVE  /\ Below \in Seq(Frames) /\ OnceOn(Below)
         /\ Top \in Frames /\ FrameOK(Top)
         /\ \A i \in 1..Len(Below) : FrameOK(Below[i]) /\ Below[i] \in Frames
         /\ \A c : On(c, stack) <=> On(c, Below) \/ (Counts(Top) /\ Top.s = c)
         /\ \A c : Failing(c, stack) <=>
                     \/ Failing(c, Below)
                     \/ Top.pc = "progress" /\ Top.after = "fail" /\ Top.s = c
         /\ Counts(Top) => ~On(Top.s, Below)
<1>1. /\ Below \in Seq(Frames)
      /\ Len(stack) = Len(Below) + 1
      /\ \A i \in 1..Len(Below) : Below[i] = stack[i]
      /\ Top = stack[Len(stack)]
      /\ Top \in Frames
  BY BelowFrames, SoundStack
<1>2. /\ DOMAIN Below = 1..Len(Below) /\ Len(Below) \in Nat
      /\ DOMAIN stack = 1..Len(Below) + 1
  BY <1>1, SoundStack
<1>3. /\ \A i \in 1..Len(Below) + 1 : stack[i] \in Frames /\ FrameOK(stack[i])
      /\ OnceOn(stack)
  BY <1>1, SoundStack
<1> HIDE DEF Below, Top
<1>4. OnceOn(Below)
  BY <1>1, <1>2, <1>3 DEF OnceOn
<1>5. \A c : On(c, stack) <=> On(c, Below) \/ (Counts(Top) /\ Top.s = c)
  BY <1>1, <1>2 DEF On
<1>6. \A c : Failing(c, stack) <=>
                     \/ Failing(c, Below)
                     \/ Top.pc = "progress" /\ Top.after = "fail" /\ Top.s = c
  BY <1>1, <1>2 DEF Failing
<1>7. Counts(Top) => ~On(Top.s, Below)
  BY <1>1, <1>2, <1>3 DEF On, OnceOn
<1>8. FrameOK(Top) /\ \A i \in 1..Len(Below) : FrameOK(Below[i]) /\ Below[i] \in Frames
  BY <1>1, <1>2, <1>3
<1> QED
  BY <1>1, <1>4, <1>5, <1>6, <1>7, <1>8

\* What there is when f is pushed
LEMMA Pushed ==
  ASSUME NEW st \in Seq(Frames), NEW f \in Frames, OnceOn(st), Counts(f) => ~On(f.s, st)
  PROVE  /\ Append(st, f) \in Seq(Frames) /\ OnceOn(Append(st, f))
         /\ \A i \in 1..Len(Append(st, f)) :
              Append(st, f)[i] = f \/ (i \in 1..Len(st) /\ Append(st, f)[i] = st[i])
         /\ \A c : On(c, Append(st, f)) <=> On(c, st) \/ (Counts(f) /\ f.s = c)
         /\ \A c : Failing(c, Append(st, f)) <=>
                     \/ Failing(c, st)
                     \/ f.pc = "progress" /\ f.after = "fail" /\ f.s = c
<1>1. /\ Append(st, f) \in Seq(Frames)
      /\ Len(Append(st, f)) = Len(st) + 1
      /\ \A i \in 1..Len(st) : Append(st, f)[i] = st[i]
      /\ Append(st, f)[Len(st) + 1] = f
  BY AppendFrame
<1>2. Len(st) \in Nat /\ DOMAIN st = 1..Len(st)
      /\ DOMAIN Append(st, f) = 1..Len(st) + 1
  BY <1>1
<1>3. OnceOn(Append(st, f))
  BY <1>1, <1>2 DEF OnceOn, On
<1>4. \A c : On(c, Append(st, f)) <=> On(c, st) \/ (Counts(f) /\ f.s = c)
  BY <1>1, <1>2 DEF On
<1>5. \A c : Failing(c, Append(st, f)) <=>
                     \/ Failing(c, st)
                     \/ f.pc = "progress" /\ f.after = "fail" /\ f.s = c
  BY <1>1, <1>2 DEF Failing
<1> QED
  BY <1>1, <1>2, <1>3, <1>4, <1>5

\* A step that only moves the stack, and counts nothing
LEMMA StackStep ==
  ASSUME Inv, NEW st \in Seq(Frames), NEW f,
         UNCHANGED <<connectionVars, worker, locationVars>>, LoopTypeOK', Extends(st),
         hasCanceller' = hasCanceller /\ raisedBy' = raisedBy,
         \A x \in Sources : Same(x),
         OnceOn(st), FrameOK(f),
         \A i \in 1..Len(st) : st[i] = f \/ FrameOK(st[i]),
         \A c : On(c, st) <=> On(c, stack),
         \A c \in Connections : fired[c] = -1 /\ Failing(c, stack) => Failing(c, st)
  PROVE  Inv'
<1>1. ShapeInv'
  BY LoopShape
<1>2. SourceInv'
  <2>1. OnlyAt(Null)
    BY DEF OnlyAt, connectionVars, locationVars
  <2>2. Null \notin Connections /\ Null \notin Workers /\ Null \notin Locations
    BY RunLoopAssumption, EventsAssumption
  <2> QED
    BY <2>1, <2>2, SourcesKept DEF Inv
<1>3. Steady({})
  <2>1. cancelled' \subseteq Sources /\ Connections \subseteq Sources
    BY EventsAssumption DEF LoopTypeOK
  <2> QED
    BY <2>1 DEF Steady, Same, connectionVars
<1>4. FrameInv'
  <2>1. FrameOK(f)'
    <3>1. Connections \subseteq Sources
      BY EventsAssumption
    <3> QED
      BY <3>1 DEF FrameOK, Same, connectionVars
  <2> QED
    BY <1>3, <2>1, FramesStep DEF Extends
<1>5. \A c : (On(c, stack)' <=> On(c, st)) /\ (Failing(c, st) => Failing(c, stack)')
  BY OnFollows DEF Extends
<1>6. Connections \subseteq Sources
  BY EventsAssumption
<1>7. \A c \in Connections : Owes(c)' <=> Owes(c)
  BY <1>5, <1>6 DEF Owes, Same, connectionVars
<1>8. raisedBy = {} => FailingKept
  BY <1>5, <1>6 DEF FailingKept, Inv, CountInv, Same, connectionVars
<1>9. CountInv'
  BY <1>7, <1>8, CountKept DEF Inv, connectionVars
<1> QED
  BY <1>1, <1>2, <1>4, <1>9 DEF Inv

\* A frame that says nothing of a source, for the steps that push none
Silent == Frame("client", Null, "nothing")

LEMMA SilentOK == Silent \in Frames /\ FrameOK(Silent) /\ FrameOK(Silent)' /\ ~Counts(Silent)
BY FrameType DEF Silent, Frame, FrameOK, ClientPCs, Counts

LEMMA PushStep ==
  ASSUME Inv, NEW f \in Frames, Proceed(Append(stack, f)),
         UNCHANGED <<connectionVars, worker, locationVars>>, FrameOK(f), ~Counts(f)
  PROVE  Inv'
<1>1. /\ Append(stack, f) \in Seq(Frames) /\ OnceOn(Append(stack, f))
      /\ \A i \in 1..Len(Append(stack, f)) :
           Append(stack, f)[i] = f \/ (i \in 1..Len(stack) /\ Append(stack, f)[i] = stack[i])
      /\ \A c : On(c, Append(stack, f)) <=> On(c, stack)
      /\ \A c : Failing(c, stack) => Failing(c, Append(stack, f))
  BY SoundStack, Pushed
<1>2. /\ LoopTypeOK' /\ Extends(Append(stack, f))
      /\ hasCanceller' = hasCanceller /\ raisedBy' = raisedBy
      /\ \A x \in Sources : Same(x)
  BY <1>1, SoundStack, ProceedShape
<1>3. \A i \in 1..Len(Append(stack, f)) :
        Append(stack, f)[i] = f \/ FrameOK(Append(stack, f)[i])
  BY <1>1, SoundStack
<1> QED
  BY <1>1, <1>2, <1>3, StackStep

LEMMA PopStep ==
  ASSUME Inv, stack # <<>>, Proceed(Below),
         UNCHANGED <<connectionVars, worker, locationVars>>, ~Counts(Top),
         Top.pc = "progress" /\ Top.after = "fail" => fired[Top.s] # -1
  PROVE  Inv'
<1>1. /\ LoopTypeOK' /\ Extends(Below)
      /\ hasCanceller' = hasCanceller /\ raisedBy' = raisedBy
      /\ \A x \in Sources : Same(x)
  BY SoundStack, Popped, ProceedShape
<1>2. /\ Below \in Seq(Frames) /\ OnceOn(Below)
      /\ \A i \in 1..Len(Below) : FrameOK(Below[i])
      /\ \A c : On(c, Below) <=> On(c, stack)
      /\ \A c \in Connections : fired[c] = -1 /\ Failing(c, stack) => Failing(c, Below)
  BY Popped
<1> QED
  BY <1>1, <1>2, SilentOK, StackStep

\* What the chain of a deferred that has answered does with the waits
LEMMA WokenStep ==
  ASSUME Inv, NEW s, NEW st \in Seq(Frames), Proceed(Woken(s, st)), fired[s] # -1, s \in Sources,
         UNCHANGED <<connectionVars, worker, locationVars>>,
         OnceOn(st), \A i \in 1..Len(st) : FrameOK(st[i]),
         \A c : On(c, st) <=> On(c, stack),
         \A c : Failing(c, stack) => Failing(c, st)
  PROVE  Inv'
<1>1. Woken(s, st) \in Seq(Frames)
  BY WokenFrames
<1>2. /\ LoopTypeOK'
      /\ hasCanceller' = hasCanceller /\ raisedBy' = raisedBy
      /\ \A x \in Sources : Same(x)
  BY <1>1, SoundStack, ProceedShape
<1>3. Extends(st)
  BY <1>2, WokenExtends DEF Proceed, Same
<1> QED
  BY <1>2, <1>3, SilentOK, StackStep

LEMMA LoopSteps ==
  ASSUME Inv, OfLoop(Client \/ LoopStep)
  PROVE  Inv'
<1>1. UNCHANGED <<connectionVars, worker, locationVars>>
  BY DEF OfLoop
<1>2. CASE Event
  BY <1>1, <1>2, SilentOK, PushStep DEF Event, Silent
<1>3. ASSUME NEW s \in Cancellable, Cancel(s)
      PROVE  Inv'
  BY <1>1, <1>3, CancelStep DEF OfLoop
<1>4. ASSUME NEW s \in Waitable, Wait(s)
      PROVE  Inv'
  <2>1. s \in Sources /\ (s \in Connections => connection[s] # "none")
    BY EventsAssumption DEF Waitable, Cancellable, Made
  <2>2. CASE fired[s] = -1
    <3>1. Frame("wait", s, "nothing") \in Frames
      BY <2>1, FrameType
    <3>2. FrameOK(Frame("wait", s, "nothing")) /\ ~Counts(Frame("wait", s, "nothing"))
      BY <2>1 DEF FrameOK, Frame, Counts
    <3> QED
      BY <1>1, <1>4, <2>2, <3>1, <3>2, PushStep DEF Wait
  <2>3. CASE fired[s] # -1
    BY <1>1, <1>4, <2>1, <2>3, SoundStack, WokenStep DEF Wait
  <2> QED
    BY <2>2, <2>3
<1>5. CASE WaitReturns \/ EventReturns
  BY <1>1, <1>5, PopStep DEF WaitReturns, EventReturns, TopIs, Counts
<1>6. CASE CallbackReturns
  <2>1. stack # <<>> /\ Top.pc = "callback"
    BY <1>6 DEF CallbackReturns, TopIs
  <2>2. CASE Top.after = "get"
    <3>1. Top.s \in Sources /\ fired[Top.s] # -1
      BY <2>1, Popped DEF FrameOK
    <3>2. /\ Below \in Seq(Frames) /\ OnceOn(Below)
          /\ \A i \in 1..Len(Below) : FrameOK(Below[i])
          /\ \A c : On(c, Below) <=> On(c, stack)
          /\ \A c : Failing(c, stack) => Failing(c, Below)
      BY <2>1, Popped DEF Counts
    <3> QED
      BY <1>1, <1>6, <2>2, <3>1, <3>2, WokenStep DEF CallbackReturns
  <2>3. CASE Top.after # "get"
    BY <1>1, <1>6, <2>1, <2>3, PopStep DEF CallbackReturns, Counts
  <2> QED
    BY <2>2, <2>3
<1> QED
  BY <1>2, <1>3, <1>4, <1>5, <1>6 DEF OfLoop, Client, LoopStep

-----------------------------------------------------------------------------
(* Connections *)

\* The request of c moves on to p.
Becomes(c, p) ==
  /\ connection' = [connection EXCEPT ![c] = p]
  /\ chained' \in {chained, chained \cup {c}}
  /\ UNCHANGED <<worker, locationVars>>

LEMMA ConnectionShape ==
  ASSUME Inv, NEW c \in Connections,
         NEW p \in {"none", "delayed", "paused", "loading", "ended", "failed"}, Becomes(c, p),
         LoopTypeOK', hasCanceller' = hasCanceller, urlConnectionCount' \in Int,
         \A x \in Sources \ {c} : Same(x)
  PROVE  /\ ShapeInv' /\ OnlyAt(c)
         /\ connection'[c] = p /\ \A x \in Connections \ {c} : connection'[x] = connection[x]
         /\ ConnectionOK(c)' => SourceInv'
<1>1. /\ connection' \in
           [Connections -> {"none", "delayed", "paused", "loading", "ended", "failed"}]
      /\ connection'[c] = p /\ \A x \in Connections \ {c} : connection'[x] = connection[x]
  BY DEF Inv, ShapeInv, Becomes
<1>2. ShapeInv'
  BY <1>1 DEF Inv, ShapeInv, Becomes, WorkerTypeOK, locationVars, LocationTypeOK
<1>3. OnlyAt(c)
  BY <1>1 DEF OnlyAt, Becomes, locationVars
<1>4. ConnectionOK(c)' => SourceInv'
  BY <1>3, EventsAssumption, SourcesKept DEF Inv
<1> QED
  BY <1>1, <1>2, <1>3, <1>4

LEMMA ConnectionFacts ==
  ASSUME Inv, NEW c \in Connections
  PROVE  /\ c \in Sources /\ Connections \subseteq Sources
         /\ ConnectionOK(c)
         /\ c \notin hasCanceller
         /\ On(c, stack) => connection[c] \in {"failed", "ended"}
         /\ Failing(c, stack) => connection[c] = "failed"
<1>1. c \in Sources /\ Connections \subseteq Sources /\ c \notin hasCanceller /\ ConnectionOK(c)
  BY EventsAssumption DEF Inv, SourceInv
<1>2. On(c, stack) => connection[c] \in {"failed", "ended"}
  BY SoundStack DEF On, FrameOK, Counts
<1>3. Failing(c, stack) => connection[c] = "failed"
  BY SoundStack DEF Failing, FrameOK
<1> QED
  BY <1>1, <1>2, <1>3

\* Every start of a request counts it up.
LEMMA LoadsStep ==
  ASSUME Inv, NEW c \in Connections, connection[c] \in {"none", "delayed", "paused"},
         Loads(c), Becomes(c, "loading")
  PROVE  Inv'
<1>1. /\ LoopTypeOK' /\ Extends(stack)
      /\ hasCanceller' = hasCanceller /\ raisedBy' = raisedBy
      /\ \A x \in Sources : Same(x)
  BY SoundStack, QuietShape DEF Loads
<1>2. urlConnectionCount' = urlConnectionCount + 1 /\ urlConnectionCount' \in Int
  BY DEF Loads, Inv, ShapeInv
<1>3. /\ ShapeInv' /\ OnlyAt(c)
      /\ connection'[c] = "loading"
      /\ \A x \in Connections \ {c} : connection'[x] = connection[x]
      /\ ConnectionOK(c)' => SourceInv'
  BY <1>1, <1>2, ConnectionShape
<1>4. ConnectionOK(c)'
  BY <1>1, <1>3, ConnectionFacts DEF ConnectionOK, Same
<1>5. Steady({})
  <2>1. cancelled' \subseteq Sources
    BY <1>1 DEF LoopTypeOK
  <2> QED
    BY <1>1, <1>3, <2>1, ConnectionFacts DEF Steady, Same
<1>6. FrameInv'
  BY <1>1, <1>5, SoundStack, SilentOK, FramesStep DEF Extends
<1>7. \A x : (On(x, stack)' <=> On(x, stack)) /\ (Failing(x, stack) => Failing(x, stack)')
  BY <1>1, SoundStack, OnFollows DEF Extends
<1>8. ~Owes(c) /\ Owes(c)'
  BY <1>3, ConnectionFacts DEF Owes
<1>9. \A x \in Connections \ {c} : Owes(x)' <=> Owes(x)
  BY <1>1, <1>3, <1>7, ConnectionFacts DEF Owes, Same
<1>10. raisedBy = {} => FailingKept
  BY <1>1, <1>3, <1>7, ConnectionFacts DEF FailingKept, Inv, CountInv, Same
<1>11. CountInv'
  BY <1>1, <1>2, <1>8, <1>9, <1>10, CountedUp DEF Inv
<1> QED
  BY <1>3, <1>4, <1>6, <1>11 DEF Inv

\* A request that cannot be made answers at once, and counts nothing.
LEMMA EndsStep ==
  ASSUME Inv, NEW c \in Connections, connection[c] \in {"none", "delayed", "paused"},
         NEW p \in {"delayed", "paused", "ended"}, Becomes(c, p),
         UNCHANGED urlConnectionCount,
         p = "ended" \/ UNCHANGED loopVars,
         p = "ended" => MakeFails(c) \/ (connection[c] # "none" /\ Answer(c, 1, stack))
  PROVE  Inv'
<1>1. /\ LoopTypeOK' /\ Extends(stack)
      /\ hasCanceller' = hasCanceller /\ raisedBy' = raisedBy
      /\ \A x \in Sources \ {c} : Same(x)
      /\ cancelled' = cancelled /\ (fired[c] # -1 => fired'[c] # -1)
      /\ UNCHANGED loopVars => Same(c)
  <2>1. CASE UNCHANGED loopVars
    BY <2>1, SoundStack, QuietShape, ConnectionFacts DEF Same, loopVars, history
  <2>2. CASE MakeFails(c)
    BY <2>2, SoundStack, MakeFailsShape, ConnectionFacts DEF Same, loopVars, deferreds
  <2>3. CASE connection[c] # "none" /\ Answer(c, 1, stack)
    <3>1. Accepts(c)
      BY <2>3, ConnectionFacts DEF Accepts, ConnectionOK
    <3> QED
      BY <2>3, <3>1, SoundStack, ConnectionFacts, AnswerShape DEF loopVars, Same, deferreds
  <2> QED
    BY <2>1, <2>2, <2>3
<1>2. urlConnectionCount' = urlConnectionCount /\ urlConnectionCount' \in Int
  BY DEF Inv, ShapeInv
<1>3. /\ ShapeInv' /\ OnlyAt(c)
      /\ connection'[c] = p
      /\ \A x \in Connections \ {c} : connection'[x] = connection[x]
      /\ ConnectionOK(c)' => SourceInv'
  BY <1>1, <1>2, ConnectionShape
<1>4. ConnectionOK(c)'
  BY <1>1, <1>3, ConnectionFacts DEF ConnectionOK, Same
<1>5. Steady({})
  <2>1. cancelled' \subseteq Sources
    BY <1>1 DEF LoopTypeOK
  <2> QED
    BY <1>1, <1>3, <2>1, ConnectionFacts DEF Steady, Same
<1>6. FrameInv'
  BY <1>1, <1>5, SoundStack, SilentOK, FramesStep DEF Extends
<1>7. \A x : (On(x, stack)' <=> On(x, stack)) /\ (Failing(x, stack) => Failing(x, stack)')
  BY <1>1, SoundStack, OnFollows DEF Extends
<1>8. ~Owes(c) /\ ~Owes(c)'
  BY <1>3, <1>7, ConnectionFacts DEF Owes
<1>9. \A x \in Connections \ {c} : Owes(x)' <=> Owes(x)
  BY <1>1, <1>3, <1>7, ConnectionFacts DEF Owes, Same
<1>10. raisedBy = {} => FailingKept
  BY <1>1, <1>3, <1>7, ConnectionFacts DEF FailingKept, Inv, CountInv, Same
<1>11. CountInv'
  BY <1>1, <1>2, <1>8, <1>9, <1>10, CountKept DEF Inv
<1> QED
  BY <1>3, <1>4, <1>6, <1>11 DEF Inv

\* The end of a request, which the frame that reports it will count down
LEMMA ReportStep ==
  ASSUME Inv, NEW c \in Connections, NEW p, NEW after,
         \/ p = "failed" /\ after = "fail" /\ connection[c] \in {"loading", "failed"}
         \/ p = "ended" /\ after = "finish" /\ connection[c] = "loading",
         Becomes(c, p), Report(c, after), UNCHANGED urlConnectionCount
  PROVE  Inv'
<1> DEFINE f == Frame("progress", c, after)
           st == Append(stack, f)
<1>1. /\ f \in Frames /\ f.pc = "progress" /\ f.s = c /\ f.after = after
      /\ Counts(f) <=> after = "finish"
  BY FrameType, ConnectionFacts DEF Frame, ClientPCs, Counts
<1>2. after = "finish" => ~On(c, stack)
  BY ConnectionFacts
<1>3. Proceed(st)
  BY DEF Report
<1> HIDE DEF f
<1>4. /\ st \in Seq(Frames) /\ OnceOn(st)
      /\ \A i \in 1..Len(st) : st[i] = f \/ (i \in 1..Len(stack) /\ st[i] = stack[i])
      /\ \A x : On(x, st) <=> On(x, stack) \/ (after = "finish" /\ x = c)
      /\ \A x : Failing(x, st) <=> Failing(x, stack) \/ (after = "fail" /\ x = c)
  BY <1>1, <1>2, SoundStack, Pushed
<1> HIDE DEF st
<1>5. /\ LoopTypeOK' /\ Extends(st)
      /\ hasCanceller' = hasCanceller /\ raisedBy' = raisedBy
      /\ \A x \in Sources : Same(x)
  BY <1>3, <1>4, SoundStack, ProceedShape
<1>6. urlConnectionCount' = urlConnectionCount /\ urlConnectionCount' \in Int
  BY DEF Inv, ShapeInv
<1>7. /\ ShapeInv' /\ OnlyAt(c)
      /\ connection'[c] = p
      /\ \A x \in Connections \ {c} : connection'[x] = connection[x]
      /\ ConnectionOK(c)' => SourceInv'
  BY <1>5, <1>6, ConnectionShape
<1>8. ConnectionOK(c)'
  BY <1>5, <1>7, ConnectionFacts DEF ConnectionOK, Same
<1>9. Steady({})
  <2>1. cancelled' \subseteq Sources
    BY <1>5 DEF LoopTypeOK
  <2> QED
    BY <1>5, <1>7, <2>1, ConnectionFacts DEF Steady, Same
<1>10. FrameOK(f)'
  <2>1. after = "finish" => (fired'[c] # -1 => silentlyCancelled'[c])
    BY <1>5, ConnectionFacts DEF Same, ConnectionOK
  <2> QED
    BY <1>1, <1>7, <2>1 DEF FrameOK
<1>11. FrameInv'
  <2>1. \A i \in 1..Len(st) : st[i] = f \/ FrameOK(st[i])
    BY <1>4, SoundStack
  <2> QED
    BY <1>4, <1>5, <1>9, <1>10, <2>1, FramesStep DEF Extends
<1>12. \A x : (On(x, stack)' <=> On(x, st)) /\ (Failing(x, st) => Failing(x, stack)')
  BY <1>4, <1>5, OnFollows DEF Extends
<1>13. Owes(c) <=> Owes(c)'
  BY <1>4, <1>5, <1>7, <1>12, ConnectionFacts DEF Owes, Same, ConnectionOK
<1>14. \A x \in Connections \ {c} : Owes(x)' <=> Owes(x)
  BY <1>4, <1>5, <1>7, <1>12, ConnectionFacts DEF Owes, Same
<1>15. raisedBy = {} => FailingKept
  BY <1>4, <1>5, <1>7, <1>12, ConnectionFacts DEF FailingKept, Inv, CountInv, Same
<1>16. CountInv'
  BY <1>5, <1>6, <1>13, <1>14, <1>15, CountKept DEF Inv
<1> QED
  BY <1>7, <1>8, <1>11, <1>16 DEF Inv

\* A step of c that pops what it is about
LEMMA PoppedShape ==
  ASSUME Inv, NEW c \in Connections, LoopTypeOK', hasCanceller' = hasCanceller,
         \A x \in Sources \ {c} : Same(x),
         UNCHANGED <<connection, chained, worker, locationVars>>, urlConnectionCount' \in Int,
         connection[c] \in {"failed", "ended"}, c \in cancelled' => fired'[c] # -1
  PROVE  ShapeInv' /\ SourceInv'
<1>1. ShapeInv'
  BY DEF Inv, ShapeInv, WorkerTypeOK, locationVars, LocationTypeOK
<1>2. OnlyAt(c)
  BY DEF OnlyAt, locationVars
<1>3. ConnectionOK(c)'
  BY DEF ConnectionOK
<1> QED
  BY <1>1, <1>2, <1>3, EventsAssumption, SourcesKept DEF Inv

\* The first error is answered, and what counts it down is pushed.
LEMMA FailReturnsStep ==
  ASSUME Inv, NEW c \in Connections, FailReturns(c), UNCHANGED <<worker, locationVars>>
  PROVE  Inv'
<1> DEFINE f == Frame("uncount", c, "nothing")
           st == Append(Below, f)
<1>1. stack # <<>> /\ Top.pc = "progress" /\ Top.s = c /\ Top.after = "fail"
      /\ UNCHANGED connectionVars
  BY DEF FailReturns, TopIs
<1>2. connection[c] = "failed"
  BY <1>1, Popped DEF FrameOK
<1>3. CASE fired[c] # -1
  BY <1>1, <1>3, PopStep DEF FailReturns, FirstError, Counts
<1>4. CASE fired[c] = -1
  <2>1. Answer(c, 1, st) /\ Accepts(c)
    BY <1>4 DEF FailReturns, FirstError, Accepts
  <2>2. f \in Frames /\ f.pc = "uncount" /\ f.s = c /\ Counts(f)
    BY FrameType, ConnectionFacts DEF Frame, Counts
  <2>3. ~On(c, stack)
    <3>1. \A i \in 1..Len(stack) : ~(Counts(stack[i]) /\ stack[i].s = c)
      BY <1>2, <1>4, SoundStack DEF FrameOK, Counts
    <3> QED
      BY <3>1, SoundStack DEF On
  <2>4. /\ Below \in Seq(Frames) /\ OnceOn(Below) /\ ~On(c, Below)
        /\ \A i \in 1..Len(Below) : FrameOK(Below[i])
        /\ \A x : On(x, stack) <=> On(x, Below)
        /\ \A x : Failing(x, stack) <=> Failing(x, Below) \/ x = c
    BY <1>1, <2>3, Popped DEF Counts
  <2> HIDE DEF f
  <2>5. /\ st \in Seq(Frames) /\ OnceOn(st)
        /\ \A i \in 1..Len(st) : st[i] = f \/ (i \in 1..Len(Below) /\ st[i] = Below[i])
        /\ \A x : On(x, st) <=> On(x, Below) \/ c = x
        /\ \A x : Failing(x, Below) => Failing(x, st)
    BY <2>2, <2>4, Pushed
  <2> HIDE DEF st
  <2>6. /\ LoopTypeOK'
        /\ hasCanceller' = hasCanceller /\ cancelled' = cancelled
        /\ \A x \in Sources \ {c} : Same(x)
        /\ Extends(st) /\ raisedBy' = raisedBy /\ fired'[c] # -1
    BY <2>1, <2>5, SoundStack, ConnectionFacts, AnswerShape
  <2>7. connection' = connection /\ urlConnectionCount' = urlConnectionCount
        /\ urlConnectionCount' \in Int
    BY <1>1 DEF connectionVars, Inv, ShapeInv
  <2>8. ShapeInv' /\ SourceInv'
    BY <1>1, <1>2, <2>6, <2>7, PoppedShape DEF connectionVars
  <2>9. Steady({c})
    <3>1. cancelled' \subseteq Sources
      BY <2>6 DEF LoopTypeOK
    <3> QED
      BY <1>4, <2>6, <2>7, <3>1, ConnectionFacts DEF Steady, Same
  <2>10. FrameOK(f)'
    <3>1. c \notin cancelled'
      BY <1>4, <2>6, ConnectionFacts DEF ConnectionOK
    <3> QED
      BY <1>2, <2>2, <2>6, <2>7, <3>1 DEF FrameOK
  <2>11. FrameInv'
    <3>1. \A i \in 1..Len(st) :
            \/ st[i] = f
            \/ FrameOK(st[i])
               /\ (st[i].pc = "progress" /\ st[i].after = "finish" => st[i].s \notin {c})
      BY <1>2, <2>4, <2>5 DEF FrameOK
    <3> QED
      BY <2>5, <2>6, <2>9, <2>10, <3>1, FramesStep DEF Extends
  <2>12. \A x : (On(x, stack)' <=> On(x, st)) /\ (Failing(x, st) => Failing(x, stack)')
    BY <2>5, <2>6, OnFollows DEF Extends
  <2>13. Owes(c) /\ Owes(c)'
    BY <1>2, <1>4, <2>5, <2>12 DEF Owes
  <2>14. \A x \in Connections \ {c} : Owes(x)' <=> Owes(x)
    BY <2>4, <2>5, <2>6, <2>7, <2>12, ConnectionFacts DEF Owes, Same
  <2>15. raisedBy = {} => FailingKept
    BY <2>4, <2>5, <2>6, <2>7, <2>12, ConnectionFacts DEF FailingKept, Inv, CountInv, Same
  <2>16. CountInv'
    BY <2>6, <2>7, <2>13, <2>14, <2>15, CountKept DEF Inv
  <2> QED
    BY <2>8, <2>11, <2>16 DEF Inv
<1> QED
  BY <1>3, <1>4

\* The two steps that count down pop the frame that was to do it.
LEMMA CountDownStep ==
  ASSUME Inv, NEW c \in Connections, stack # <<>>, Counts(Top), Top.s = c,
         LoopTypeOK', Extends(Below), hasCanceller' = hasCanceller, raisedBy' = raisedBy,
         \A x \in Sources \ {c} : Same(x),
         fired[c] # -1 => fired'[c] # -1, cancelled' = cancelled,
         fired'[c] # -1,
         UNCHANGED <<connection, chained, worker, locationVars>>,
         urlConnectionCount' = urlConnectionCount - 1,
         connection[c] = "ended" \/ (connection[c] = "failed" /\ c \notin cancelled)
  PROVE  Inv'
<1>1. urlConnectionCount' \in Int
  BY DEF Inv, ShapeInv
<1>2. ShapeInv' /\ SourceInv'
  BY <1>1, PoppedShape
<1>3. /\ Below \in Seq(Frames) /\ OnceOn(Below) /\ ~On(c, Below) /\ On(c, stack)
      /\ \A i \in 1..Len(Below) : FrameOK(Below[i]) /\ Below[i] \in Frames
      /\ \A x : On(x, stack) <=> On(x, Below) \/ x = c
      /\ \A x : Failing(x, stack) => Failing(x, Below)
  BY Popped DEF Counts
<1>4. Steady({c})
  <2>1. cancelled' \subseteq Sources
    BY DEF LoopTypeOK
  <2> QED
    BY <2>1, ConnectionFacts DEF Steady, Same
<1>5. FrameInv'
  <2>1. \A i \in 1..Len(Below) :
          Below[i].pc = "progress" /\ Below[i].after = "finish" => Below[i].s # c
    <3>1. DOMAIN Below = 1..Len(Below)
      BY <1>3
    <3> QED
      BY <1>3, <3>1 DEF On, Counts
  <2> QED
    BY <1>3, <1>4, <2>1, SilentOK, FramesStep DEF Extends
<1>6. \A x : (On(x, stack)' <=> On(x, Below)) /\ (Failing(x, Below) => Failing(x, stack)')
  BY <1>3, OnFollows DEF Extends
<1>7. Owes(c) /\ ~Owes(c)'
  BY <1>3, <1>6 DEF Owes
<1>8. \A x \in Connections \ {c} : Owes(x)' <=> Owes(x)
  BY <1>3, <1>6, ConnectionFacts DEF Owes, Same
<1>9. raisedBy = {} => FailingKept
  BY <1>3, <1>6, ConnectionFacts DEF FailingKept, Inv, CountInv, Same
<1>10. CountInv'
  BY <1>7, <1>8, <1>9, CountedDown DEF Inv
<1> QED
  BY <1>2, <1>5, <1>10 DEF Inv

LEMMA UncountStep ==
  ASSUME Inv, NEW c \in Connections, Uncount(c), UNCHANGED <<worker, locationVars>>
  PROVE  Inv'
<1>1. stack # <<>> /\ Top.pc = "uncount" /\ Top.s = c
  BY DEF Uncount, TopIs
<1>2. connection[c] = "failed" /\ fired[c] # -1 /\ c \notin cancelled
  BY <1>1, Popped DEF FrameOK
<1>3. /\ LoopTypeOK' /\ Extends(Below)
      /\ hasCanceller' = hasCanceller /\ raisedBy' = raisedBy
      /\ \A x \in Sources : Same(x)
  BY <1>1, SoundStack, Popped, ProceedShape DEF Uncount
<1>4. cancelled' = cancelled /\ fired' = fired
  BY DEF Uncount, Proceed, deferreds, history
<1> QED
  BY <1>1, <1>2, <1>3, <1>4, CountDownStep DEF Uncount, Counts

LEMMA FinishReturnsStep ==
  ASSUME Inv, NEW c \in Connections, FinishReturns(c), UNCHANGED <<worker, locationVars>>
  PROVE  Inv'
<1>1. stack # <<>> /\ Top.pc = "progress" /\ Top.s = c /\ Top.after = "finish"
  BY DEF FinishReturns, TopIs
<1>2. connection[c] = "ended" /\ (fired[c] # -1 => silentlyCancelled[c])
  BY <1>1, Popped DEF FrameOK
<1>3. PICK o \in {0, 1} : Answer(c, o, Below)
  BY DEF FinishReturns
<1>4. Accepts(c)
  BY <1>2 DEF Accepts
<1>5. /\ LoopTypeOK'
      /\ hasCanceller' = hasCanceller /\ cancelled' = cancelled
      /\ \A x \in Sources \ {c} : Same(x)
      /\ Extends(Below) /\ raisedBy' = raisedBy /\ fired'[c] # -1
  BY <1>1, <1>3, <1>4, SoundStack, Popped, ConnectionFacts, AnswerShape
<1> QED
  BY <1>1, <1>2, <1>5, CountDownStep DEF FinishReturns, CountFinished, Counts

LEMMA ConnectionSteps ==
  ASSUME Inv, NEW c \in Connections,
         OfConnections(Make(c) \/ MakePaused(c) \/ ConnectionNext(c) \/ ConnectionStep(c))
  PROVE  Inv'
<1>1. UNCHANGED <<worker, locationVars>>
  BY DEF OfConnections
<1>2. CASE Make(c)
  <2>1. CASE Loads(c)
    BY <1>1, <1>2, <2>1, LoadsStep DEF Make, Loads, Becomes
  <2>2. CASE MakeFails(c)
    BY <1>1, <1>2, <2>2, EndsStep DEF Make, MakeFails, Ends, Becomes
  <2> QED
    BY <1>2, <2>1, <2>2 DEF Make
<1>3. CASE MakePaused(c)
  BY <1>1, <1>3, EndsStep DEF MakePaused, Becomes
<1>4. CASE StartLoading(c)
  <2>1. CASE Loads(c)
    BY <1>1, <1>4, <2>1, LoadsStep DEF StartLoading, Loads, Becomes
  <2>2. CASE Ends(c) /\ Answer(c, 1, stack)
    BY <1>1, <1>4, <2>2, EndsStep DEF StartLoading, Ends, Becomes
  <2> QED
    BY <1>4, <2>1, <2>2 DEF StartLoading
<1>5. CASE ResumeLoading(c)
  <2>1. CASE Loads(c)
    BY <1>1, <1>5, <2>1, LoadsStep DEF ResumeLoading, Loads, Becomes
  <2>2. CASE Ends(c) /\ Answer(c, 1, stack)
    BY <1>1, <1>5, <2>2, EndsStep DEF ResumeLoading, Ends, Becomes
  <2> QED
    BY <1>5, <2>1, <2>2 DEF ResumeLoading
<1>6. CASE DidReceive(c)
  <2>1. Frame("progress", c, "nothing") \in Frames
    BY FrameType, ConnectionFacts DEF ClientPCs
  <2>2. FrameOK(Frame("progress", c, "nothing")) /\ ~Counts(Frame("progress", c, "nothing"))
    BY DEF FrameOK, Frame, Counts
  <2> QED
    BY <1>1, <1>6, <2>1, <2>2, PushStep DEF DidReceive, Report
<1>7. CASE DidFail(c)
  BY <1>1, <1>7, ReportStep DEF DidFail, Becomes
<1>8. CASE DidFinish(c)
  BY <1>1, <1>8, ReportStep DEF DidFinish, Becomes
<1>9. CASE ReceiveReturns(c)
  BY <1>1, <1>9, PopStep DEF ReceiveReturns, TopIs, Counts
<1>10. CASE FailReturns(c) \/ Uncount(c) \/ FinishReturns(c)
  BY <1>1, <1>10, FailReturnsStep, UncountStep, FinishReturnsStep
<1> QED
  BY <1>2, <1>3, <1>4, <1>5, <1>6, <1>7, <1>8, <1>9, <1>10
     DEF OfConnections, ConnectionNext, ConnectionStep

-----------------------------------------------------------------------------
(* The invariant *)

LEMMA InitInv == Init => Inv
<1> SUFFICES ASSUME Init PROVE Inv
  OBVIOUS
<1>1. /\ fired = [s \in Sources |-> -1] /\ silentlyCancelled = [s \in Sources |-> FALSE]
      /\ hasCanceller \subseteq Workers /\ stack = <<>> /\ cancelled = {} /\ raisedBy = {}
  BY DEF Init, LoopInit
<1>2. Workers \subseteq Sources /\ Connections \subseteq Sources /\ Locations \subseteq Sources
  BY EventsAssumption
<1>3. ShapeInv
  <2>1. LoopTypeOK
    BY <1>1, <1>2 DEF LoopTypeOK
  <2>2. WorkerTypeOK
    BY DEF Init, WorkerInit, WorkerTypeOK
  <2>3. LocationTypeOK
    BY LocationAssumption DEF Init, LocationInit, LocationTypeOK
  <2> QED
    BY <2>1, <2>2, <2>3 DEF ShapeInv, Init, ConnectionInit
<1>4. SourceInv
  BY <1>1, <1>2 DEF SourceInv, ConnectionOK, WorkerOK, LocationOK, Init
<1>5. FrameInv
  BY <1>1 DEF FrameInv, FramesOK, OnceOn
<1>6. CountInv
  <2>1. Owed = {}
    BY <1>1, <1>2 DEF Owed, Owes, On, Init, ConnectionInit
  <2>2. Cardinality(Owed) = 0
    BY <2>1, FS_EmptySet
  <2> QED
    BY <2>2 DEF CountInv, Init, ConnectionInit
<1> QED
  BY <1>3, <1>4, <1>5, <1>6 DEF Inv

\* Every step keeps the invariant, whatever is on the stack below it.
LEMMA NextInv == Inv /\ [Next]_vars => Inv'
<1> SUFFICES ASSUME Inv, [Next]_vars PROVE Inv'
  OBVIOUS
<1>1. CASE UNCHANGED vars
  <2>1. /\ Proceed(stack) /\ UNCHANGED <<connectionVars, worker, locationVars>>
    BY <1>1 DEF vars, loopVars, Proceed
  <2>2. /\ LoopTypeOK' /\ Extends(stack)
        /\ hasCanceller' = hasCanceller /\ raisedBy' = raisedBy
        /\ \A x \in Sources : Same(x)
    BY <2>1, SoundStack, ProceedShape
  <2> QED
    BY <2>1, <2>2, SoundStack, SilentOK, StackStep
<1>2. CASE Makes
  BY <1>2, ConnectionSteps, ThreadSteps, LocationSteps
     DEF Makes, OfConnections, OfWorkers, OfLocations
<1>3. ASSUME NEW c \in Connections, OfConnections(ConnectionNext(c) \/ ConnectionStep(c))
      PROVE  Inv'
  BY <1>3, ConnectionSteps DEF OfConnections
<1>4. ASSUME NEW w \in Workers, OfWorkers(WorkerNext(w))
      PROVE  Inv'
  BY <1>4, ThreadSteps DEF OfWorkers
<1>5. ASSUME NEW l \in Locations, OfLocations(LocationNext(l))
      PROVE  Inv'
  BY <1>5, LocationSteps DEF OfLocations
<1> QED
  BY <1>1, <1>2, <1>3, <1>4, <1>5, LoopSteps DEF Next

\* The sources, the frames and the count agree at every moment.
THEOREM Invariant == Spec => []Inv
BY InitInv, NextInv, PTL DEF Spec

-----------------------------------------------------------------------------
(* Types, the count of requests, and locations *)

\* Every step keeps the types; and the count of requests, which each of them
\* may touch at any depth of the stack, never falls below zero
\* (__urlConnectionCount).
THEOREM TypeCorrect == Spec => []TypeOK
<1>1. Inv => TypeOK
  <2>1. CountInv /\ ShapeInv => urlConnectionCount \in Nat
    BY OwedFinite DEF CountInv, ShapeInv
  <2> QED
    BY <2>1 DEF Inv, ShapeInv, TypeOK, ConnectionTypeOK
<1> QED
  BY <1>1, Invariant, PTL

\* While nothing has raised, what counts is what loads, what the stack will
\* count down, and what has failed after its cancel.
LEMMA OwedExactly == Inv /\ raisedBy = {} => Owed = Loading \cup Ending \cup Leaked
<1> SUFFICES ASSUME Inv, raisedBy = {} PROVE Owed = Loading \cup Ending \cup Leaked
  OBVIOUS
<1>1. \A c \in Connections :
        c \in Ending <=> On(c, stack) \/ (Failing(c, stack) /\ fired[c] = -1)
  BY DEF Ending, On, Failing, Counts
<1>2. \A c \in Connections : Failing(c, stack) => connection[c] = "failed"
  BY ConnectionFacts
<1>3. \A c \in Connections : connection[c] = "failed" /\ fired[c] = -1 => Failing(c, stack)
  BY DEF Inv, CountInv
<1>4. \A c \in Connections : c \in Owed <=> c \in Loading \cup Ending \cup Leaked
  BY <1>1, <1>2, <1>3 DEF Owed, Owes, Loading, Leaked
<1>5. Owed \subseteq Connections /\ Loading \cup Ending \cup Leaked \subseteq Connections
  BY DEF Owed, Loading, Ending, Leaked
<1> QED
  BY <1>4, <1>5

\* The count of requests is exact at every moment, but for the requests that
\* fail after their deferred was cancelled, which are never counted down
\* (initRequest:, _cbStartLoading:, didFailWithError:, connectionDidFinishLoading:).
THEOREM RequestsAreCounted == Spec => []CountExact
<1>1. Inv => CountExact
  BY OwedExactly DEF CountExact, Inv, CountInv
<1> QED
  BY <1>1, Invariant, PTL

\* A location manager is stopped by the time its deferred has an answer, unless
\* the client cancelled it (_timeout:, didUpdateToLocation:, didFailWithError:).
THEOREM LocationsAreStopped == Spec => []LocationStops
<1>1. Inv => LocationStops
  BY DEF Inv, SourceInv, LocationOK, LocationStops
<1> QED
  BY <1>1, Invariant, PTL

\* A waitForDeferred that returns has its answer, whatever ran above it.
THEOREM WaitsAreAnswered == Spec => AnsweredWait
<1>1. Inv /\ [Next]_vars => [WaitReturns => fired[Top.s] # -1]_loopVars
  <2> SUFFICES ASSUME Inv, WaitReturns PROVE fired[Top.s] # -1
    OBVIOUS
  <2>1. stack # <<>> /\ Top.pc = "wait" /\ ~Top.running
    BY DEF WaitReturns, TopIs, WaitOver
  <2> QED
    BY <2>1, Popped DEF FrameOK
<1> QED
  BY <1>1, Invariant, PTL DEF Spec, AnsweredWait

-----------------------------------------------------------------------------
(* Who raises *)

LEMMA ConnectionsNeverRaise ==
  ASSUME Inv, NEW c \in Connections,
         OfConnections(Make(c) \/ MakePaused(c) \/ ConnectionNext(c) \/ ConnectionStep(c))
  PROVE  UNCHANGED <<raisedBy, cancelled, hasCanceller, worker>>
<1>1. \A st : Answer(c, 0, st) /\ Accepts(c) => UNCHANGED <<raisedBy, cancelled, hasCanceller>>
  BY DEF Answer
<1>2. \A st : Answer(c, 1, st) /\ Accepts(c) => UNCHANGED <<raisedBy, cancelled, hasCanceller>>
  BY DEF Answer
<1>3. \A st : Proceed(st) => UNCHANGED <<raisedBy, cancelled, hasCanceller>>
  BY DEF Proceed, deferreds, history
<1>4. Loads(c) \/ MakeFails(c) \/ UNCHANGED loopVars =>
        UNCHANGED <<raisedBy, cancelled, hasCanceller>>
  BY DEF Loads, MakeFails, loopVars, deferreds, history
<1>5. connection[c] \in {"delayed", "paused"} => Accepts(c)
  BY ConnectionFacts DEF Accepts, ConnectionOK
<1>6. CASE Make(c) \/ MakePaused(c) \/ StartLoading(c) \/ ResumeLoading(c)
  BY <1>2, <1>4, <1>5, <1>6 DEF OfConnections, Make, MakePaused, StartLoading, ResumeLoading
<1>7. CASE DidReceive(c) \/ DidFail(c) \/ DidFinish(c) \/ ReceiveReturns(c) \/ Uncount(c)
  BY <1>3, <1>7 DEF OfConnections, DidReceive, DidFail, DidFinish, ReceiveReturns, Uncount, Report
<1>8. CASE FailReturns(c)
  BY <1>2, <1>3, <1>8 DEF OfConnections, FailReturns, FirstError, Accepts
<1>9. CASE FinishReturns(c)
  <2>1. Accepts(c)
    BY <1>9, Popped DEF FinishReturns, TopIs, FrameOK, Accepts
  <2> QED
    BY <1>1, <1>2, <1>9, <2>1 DEF OfConnections, FinishReturns
<1> QED
  BY <1>6, <1>7, <1>8, <1>9 DEF OfConnections, ConnectionNext, ConnectionStep

LEMMA ThreadRaises ==
  ASSUME Inv, NEW w \in Workers, OfWorkers(MakeThread(w) \/ WorkerNext(w))
  PROVE  /\ cancelled' = cancelled /\ hasCanceller' = hasCanceller
         /\ \A x \in Workers : worker[x] = "rejected" => worker'[x] = "rejected"
         /\ \A s \in raisedBy' \ raisedBy :
              s = w /\ (w \in cancelled \cap hasCanceller \/ worker'[w] = "rejected")
<1>1. WorkerTypeOK /\ WorkerOK(w) /\ w \in Sources
  BY EventsAssumption DEF Inv, ShapeInv, SourceInv
<1>2. CASE UNCHANGED loopVars /\ worker[w] # "rejected"
           /\ \E v : worker' = [worker EXCEPT ![w] = v]
  BY <1>1, <1>2 DEF loopVars, deferreds, history, WorkerTypeOK
<1>3. ASSUME NEW o \in {0, 1}, Delivers(w, o), Answer(w, o, stack),
             worker' = [worker EXCEPT ![w] = "done"]
      PROVE  /\ cancelled' = cancelled /\ hasCanceller' = hasCanceller
             /\ \A x \in Workers : worker[x] = "rejected" => worker'[x] = "rejected"
             /\ \A s \in raisedBy' \ raisedBy : s = w /\ w \in cancelled \cap hasCanceller
  <2>1. worker[w] \in {"error", "value"}
    BY <1>3 DEF Delivers
  <2>2. ~Accepts(w) => w \in cancelled \cap hasCanceller
    BY <1>1, <2>1 DEF Accepts, WorkerOK
  <2> QED
    BY <1>1, <1>3, <2>1, <2>2 DEF Answer, Raise, deferreds, WorkerTypeOK
<1>4. CASE worker[w] = "deferred" /\ Raise(w) /\ UNCHANGED <<deferreds, cancelled>>
           /\ worker' = [worker EXCEPT ![w] = "rejected"]
  BY <1>1, <1>4 DEF Raise, deferreds, WorkerTypeOK
<1> QED
  BY <1>1, <1>2, <1>3, <1>4 DEF OfWorkers, MakeThread, WorkerNext, StartThread,
                                FunctionReturns, ReturnFromThread

LEMMA LocationRaises ==
  ASSUME Inv, NEW l \in Locations, OfLocations(GetLocation(l) \/ LocationNext(l))
  PROVE  /\ UNCHANGED <<cancelled, hasCanceller, worker>>
         /\ \A s \in raisedBy' \ raisedBy : s = l /\ "late" \in Liberties
<1>1. LocationOK(l) /\ worker' = worker
  BY DEF Inv, SourceInv, OfLocations
<1>2. CASE UNCHANGED loopVars
  BY <1>1, <1>2 DEF loopVars, deferreds, history
<1>3. ASSUME NEW o \in {0, 1}, Answer(l, o, stack), Accepts(l) \/ "late" \in Liberties
      PROVE  /\ UNCHANGED <<cancelled, hasCanceller, worker>>
             /\ \A s \in raisedBy' \ raisedBy : s = l /\ "late" \in Liberties
  BY <1>1, <1>3 DEF Answer, Raise, deferreds
<1>4. Reports(l) => Accepts(l) \/ "late" \in Liberties
  BY <1>1 DEF Reports, LocationOK, Accepts
<1>5. CASE DidUpdate(l)
  BY <1>2, <1>3, <1>4, <1>5 DEF DidUpdate
<1>6. CASE LocationFails(l)
  BY <1>3, <1>4, <1>6 DEF LocationFails
<1>7. CASE Timeout(l)
  BY <1>2, <1>3, <1>7 DEF Timeout, TimedOut, Accepts
<1> QED
  BY <1>2, <1>5, <1>6, <1>7 DEF OfLocations, GetLocation, LocationNext

\* The exceptions that reach the run loop come from threads that outlived
\* their canceller or returned a deferred, and from location managers that
\* report after they were stopped; never from a connection ("could be multiple
\* errors, only errback on the first").
THEOREM OnlyTheseRaise == Spec => []RaisesOnly
<1>1. Init => RaisesOnly
  BY DEF Init, LoopInit, RaisesOnly
<1>2. Inv /\ RaisesOnly /\ [Next]_vars => RaisesOnly'
  <2> SUFFICES ASSUME Inv, RaisesOnly, [Next]_vars PROVE RaisesOnly'
    OBVIOUS
  <2>1. ASSUME UNCHANGED <<raisedBy, hasCanceller, worker>>,
               \A s \in cancelled : s \in cancelled'
        PROVE  RaisesOnly'
    BY <2>1 DEF RaisesOnly
  <2>2. CASE UNCHANGED vars
    BY <2>1, <2>2 DEF vars, loopVars, deferreds, history
  <2>3. CASE OfLoop(Client \/ LoopStep)
    BY <2>1, <2>3 DEF OfLoop, Client, Event, Cancel, Wait, LoopStep, WaitReturns, EventReturns,
                      CallbackReturns, Proceed, deferreds, history
  <2>4. ASSUME NEW c \in Connections,
               OfConnections(Make(c) \/ MakePaused(c) \/ ConnectionNext(c) \/ ConnectionStep(c))
        PROVE  RaisesOnly'
    BY <2>1, <2>4, ConnectionsNeverRaise
  <2>5. ASSUME NEW w \in Workers, OfWorkers(MakeThread(w) \/ WorkerNext(w))
        PROVE  RaisesOnly'
    BY <2>5, ThreadRaises DEF RaisesOnly
  <2>6. ASSUME NEW l \in Locations, OfLocations(GetLocation(l) \/ LocationNext(l))
        PROVE  RaisesOnly'
    BY <2>6, LocationRaises DEF RaisesOnly
  <2> QED
    BY <2>2, <2>3, <2>4, <2>5, <2>6 DEF Next, Makes, OfConnections, OfWorkers, OfLocations
<1> QED
  BY <1>1, <1>2, Invariant, PTL DEF Spec

-----------------------------------------------------------------------------
(* Waits wake up *)

\* In the frames st, client code that runs above the wait i keeps its _get:
\* back.
Covered(i, st) ==
  \E j \in i + 1..Len(st) :
    st[j].pc = "callback" /\ st[j].s = st[i].s /\ st[j].after = "get"

\* A wait of st sleeps only with a reason, unless it waits for s.
LullBut(s, st) ==
  \A i \in 1..Len(st) :
    st[i].pc = "wait" /\ st[i].running /\ st[i].s # s =>
      fired[st[i].s] = -1 \/ Covered(i, st)

Lull(st) ==
  \A i \in 1..Len(st) :
    st[i].pc = "wait" /\ st[i].running => fired[st[i].s] = -1 \/ Covered(i, st)

\* Waits are for sources.
ForSources(st) == \A i \in 1..Len(st) : st[i].pc = "wait" => st[i].s \in Sources

LEMMA PopLull ==
  ASSUME Inv, stack # <<>>, Lull(stack)
  PROVE  /\ Top.pc # "callback" \/ Top.after # "get" => Lull(Below)
         /\ LullBut(Top.s, Below)
<1>1. /\ Below \in Seq(Frames)
      /\ Len(stack) = Len(Below) + 1
      /\ \A i \in 1..Len(Below) : Below[i] = stack[i]
      /\ Top = stack[Len(stack)]
  BY BelowFrames, SoundStack
<1>2. Len(Below) \in Nat
  BY <1>1
<1> HIDE DEF Below, Top
<1>3. \A i \in 1..Len(Below) :
        Covered(i, stack) =>
          \/ Covered(i, Below)
          \/ Top.pc = "callback" /\ Top.after = "get" /\ Top.s = Below[i].s
  BY <1>1, <1>2 DEF Covered
<1>4. \A i \in 1..Len(Below) :
        Below[i].pc = "wait" /\ Below[i].running =>
          fired[Below[i].s] = -1 \/ Covered(i, stack)
  BY <1>1, <1>2 DEF Lull
<1> QED
  BY <1>3, <1>4 DEF Lull, LullBut

LEMMA PushLull ==
  ASSUME NEW st \in Seq(Frames), Lull(st), NEW f \in Frames,
         f.pc = "wait" => fired[f.s] = -1
  PROVE  Lull(Append(st, f))
<1>1. /\ Len(Append(st, f)) = Len(st) + 1 /\ Len(st) \in Nat
      /\ \A i \in 1..Len(st) : Append(st, f)[i] = st[i]
      /\ Append(st, f)[Len(st) + 1] = f
  BY AppendFrame
<1>2. \A i \in 1..Len(st) : Covered(i, st) => Covered(i, Append(st, f))
  BY <1>1 DEF Covered
<1> QED
  BY <1>1, <1>2 DEF Lull

\* The chain of s lets its waits go, and leaves the others where they were.
LEMMA WokenLull ==
  ASSUME NEW st \in Seq(Frames), NEW s, LullBut(s, st), stack' = Woken(s, st), ForSources(st),
         \A x \in Sources : x # s => fired'[x] = fired[x]
  PROVE  Lull(stack)'
<1>1. /\ Len(stack') = Len(st) /\ Len(st) \in Nat
      /\ \A i \in 1..Len(st) : st[i] \in Frames
      /\ \A i \in 1..Len(st) :
           stack'[i] = IF st[i].pc = "wait" /\ st[i].s = s THEN Told(st[i]) ELSE st[i]
  BY WokenFrames
<1>2. \A i \in 1..Len(st) :
        /\ stack'[i].pc = st[i].pc /\ stack'[i].s = st[i].s /\ stack'[i].after = st[i].after
        /\ st[i].pc = "wait" /\ st[i].s = s => ~stack'[i].running
        /\ st[i].pc = "wait" /\ st[i].s # s => stack'[i] = st[i]
  BY <1>1, ToldType
<1>3. \A i \in 1..Len(st) : Covered(i, st) => Covered(i, stack)'
  BY <1>1, <1>2 DEF Covered
<1> QED
  BY <1>1, <1>2, <1>3 DEF Lull, LullBut, ForSources

LEMMA ChainLull ==
  ASSUME NEW st \in Seq(Frames), NEW s \in Sources, Lull(st), RunChain(s, st), ForSources(st),
         \A x \in Sources : x # s => fired'[x] = fired[x]
  PROVE  Lull(stack)'
<1>1. LullBut(s, st)
  BY DEF Lull, LullBut
<1>2. CASE stack' = Woken(s, st)
  BY <1>1, <1>2, WokenLull
<1>3. /\ Woken(s, st) \in Seq(Frames) /\ Len(Woken(s, st)) = Len(st) /\ Len(st) \in Nat
      /\ \A i \in 1..Len(st) : st[i] \in Frames
      /\ \A i \in 1..Len(st) :
           Woken(s, st)[i] = IF st[i].pc = "wait" /\ st[i].s = s THEN Told(st[i]) ELSE st[i]
  BY WokenFrames
<1>4. ASSUME NEW after \in {"nothing", "get"}, NEW base \in Seq(Frames),
             (base = st /\ after = "get") \/ base = Woken(s, st),
             stack' = Append(base, Frame("callback", s, after))
      PROVE  Lull(stack)'
  <2>1. /\ Frame("callback", s, after) \in Frames
        /\ Frame("callback", s, after).pc = "callback"
        /\ Frame("callback", s, after).s = s
        /\ Frame("callback", s, after).after = after
    BY FrameType DEF Frame, ClientPCs
  <2>2. Len(base) = Len(st)
    BY <1>3, <1>4
  <2>3. /\ Len(stack') = Len(st) + 1
        /\ \A i \in 1..Len(st) : stack'[i] = base[i]
        /\ stack'[Len(st) + 1] = Frame("callback", s, after)
    BY <1>4, <2>1, <2>2, AppendFrame
  <2>4. \A i \in 1..Len(st) :
          /\ stack'[i].pc = st[i].pc /\ stack'[i].s = st[i].s /\ stack'[i].after = st[i].after
          /\ st[i].pc = "wait" /\ stack'[i].running => st[i].running
          /\ st[i].pc = "wait" /\ st[i].s = s /\ after # "get" => ~stack'[i].running
    BY <1>3, <1>4, <2>3, ToldType
  <2>5. \A i \in 1..Len(st) : Covered(i, st) => Covered(i, stack)'
    BY <1>3, <2>3, <2>4 DEF Covered
  <2>6. \A i \in 1..Len(st) : st[i].s = s /\ after = "get" => Covered(i, stack)'
    BY <1>3, <2>1, <2>3, <2>4 DEF Covered
  <2>7. \A i \in 1..Len(st) :
          stack'[i].pc = "wait" /\ stack'[i].running =>
            fired'[stack'[i].s] = -1 \/ Covered(i, stack)'
    BY <2>4, <2>5, <2>6 DEF Lull, ForSources
  <2> QED
    BY <1>3, <2>1, <2>3, <2>7 DEF Lull
<1> QED
  BY <1>2, <1>3, <1>4 DEF RunChain

LEMMA AnswerLull ==
  ASSUME LoopTypeOK, NEW s \in Sources, NEW o \in {0, 1}, NEW st \in Seq(Frames), Lull(st),
         Answer(s, o, st), raisedBy' = {}, ForSources(st)
  PROVE  Lull(stack)'
<1>1. Accepts(s)
  BY DEF Answer, Raise
<1>2. RunChain(s, st) /\ fired' = [fired EXCEPT ![s] = o]
  BY <1>1 DEF Answer
<1>3. \A x \in Sources : x # s => fired'[x] = fired[x]
  BY <1>2 DEF LoopTypeOK
<1> QED
  BY <1>2, <1>3, ChainLull

LEMMA ProceedLull ==
  ASSUME NEW st, Proceed(st), Lull(st)
  PROVE  Lull(stack)'
BY DEF Proceed, deferreds, Lull, Covered

LEMMA SoundForSources ==
  ASSUME Inv
  PROVE  ForSources(stack) /\ (stack # <<>> => ForSources(Below))
<1>1. ForSources(stack)
  BY SoundStack DEF ForSources, FrameOK
<1>2. stack # <<>> => ForSources(Below)
  BY Popped DEF ForSources, FrameOK
<1> QED
  BY <1>1, <1>2

LEMMA ClientLull ==
  ASSUME Inv, Lull(stack), OfLoop(Client \/ LoopStep)
  PROVE  Lull(stack)'
<1>1. LoopTypeOK /\ stack \in Seq(Frames) /\ ForSources(stack)
  BY SoundStack, SoundForSources
<1>2. CASE Event
  BY <1>1, <1>2, SilentOK, PushLull, ProceedLull DEF Event, Silent, Frame
<1>3. ASSUME NEW s \in Cancellable, Cancel(s)
      PROVE  Lull(stack)'
  <2>1. s \in Sources
    BY EventsAssumption DEF Cancellable, Made
  <2>2. RunChain(s, stack) /\ \A x \in Sources : x # s => fired'[x] = fired[x]
    BY <1>1, <1>3, <2>1 DEF Cancel, LoopTypeOK
  <2> QED
    BY <1>1, <2>1, <2>2, ChainLull
<1>4. ASSUME NEW s \in Waitable, Wait(s)
      PROVE  Lull(stack)'
  <2>1. s \in Sources
    BY EventsAssumption DEF Waitable, Cancellable, Made
  <2>2. CASE fired[s] = -1
    <3>1. Frame("wait", s, "nothing") \in Frames /\ Frame("wait", s, "nothing").s = s
      BY <2>1, FrameType DEF Frame
    <3> QED
      BY <1>1, <1>4, <2>2, <3>1, PushLull, ProceedLull DEF Wait
  <2>3. CASE fired[s] # -1
    <3>1. LullBut(s, stack)
      BY DEF Lull, LullBut
    <3>2. stack' = Woken(s, stack) /\ fired' = fired
      BY <1>4, <2>3 DEF Wait, Proceed, deferreds
    <3> QED
      BY <1>1, <3>1, <3>2, WokenLull
  <2> QED
    BY <2>2, <2>3
<1>5. CASE WaitReturns \/ EventReturns
  BY <1>5, PopLull, ProceedLull DEF WaitReturns, EventReturns, TopIs
<1>6. CASE CallbackReturns
  <2>1. stack # <<>>
    BY <1>6 DEF CallbackReturns, TopIs
  <2>2. CASE Top.after = "get"
    <3>1. stack' = Woken(Top.s, Below) /\ fired' = fired
      BY <1>6, <2>2 DEF CallbackReturns, Proceed, deferreds
    <3>2. LullBut(Top.s, Below) /\ Below \in Seq(Frames) /\ ForSources(Below)
      BY <2>1, Popped, PopLull, SoundForSources
    <3> QED
      BY <3>1, <3>2, WokenLull
  <2>3. CASE Top.after # "get"
    BY <1>6, <2>1, <2>3, PopLull, ProceedLull DEF CallbackReturns
  <2> QED
    BY <2>2, <2>3
<1> QED
  BY <1>2, <1>3, <1>4, <1>5, <1>6 DEF OfLoop, Client, LoopStep

LEMMA ConnectionLull ==
  ASSUME Inv, Lull(stack), NEW c \in Connections, raisedBy' = {},
         OfConnections(Make(c) \/ MakePaused(c) \/ ConnectionNext(c) \/ ConnectionStep(c))
  PROVE  Lull(stack)'
<1>1. /\ LoopTypeOK /\ stack \in Seq(Frames) /\ ForSources(stack)
      /\ Len(stack) \in Nat /\ c \in Sources
  BY SoundStack, SoundForSources, ConnectionFacts
<1>2. CASE UNCHANGED loopVars
  BY <1>2 DEF loopVars, deferreds, Lull, Covered
<1>3. CASE Answer(c, 1, stack)
  BY <1>1, <1>3, AnswerLull
<1>4. CASE connection[c] = "none" /\ MakeFails(c)
  <2>1. \A i \in 1..Len(stack) : stack[i].pc = "wait" => stack[i].s \in Sources /\ stack[i].s # c
    BY <1>4, SoundStack DEF FrameOK
  <2>2. stack' = stack /\ \A x \in Sources : x # c => fired'[x] = fired[x]
    BY <1>1, <1>4 DEF MakeFails, LoopTypeOK
  <2> QED
    BY <2>1, <2>2 DEF Lull, Covered
<1>5. ASSUME NEW after \in {"nothing", "fail", "finish"}, Report(c, after)
      PROVE  Lull(stack)'
  <2>1. /\ Frame("progress", c, after) \in Frames
        /\ Frame("progress", c, after).pc = "progress"
    BY <1>1, FrameType DEF Frame, ClientPCs
  <2> QED
    BY <1>1, <1>5, <2>1, PushLull, ProceedLull DEF Report
<1>6. CASE ConnectionStep(c)
  <2>1. stack # <<>> /\ Top.pc # "callback"
    BY <1>6 DEF ConnectionStep, ReceiveReturns, FailReturns, Uncount, FinishReturns, TopIs
  <2>2. Lull(Below) /\ Below \in Seq(Frames) /\ ForSources(Below)
    BY <2>1, PopLull, Popped, SoundForSources
  <2>3. CASE Proceed(Below)
    BY <2>2, <2>3, ProceedLull
  <2>4. ASSUME NEW o \in {0, 1}, Answer(c, o, Below)
        PROVE  Lull(stack)'
    BY <1>1, <2>2, <2>4, AnswerLull
  <2>5. CASE Answer(c, 1, Append(Below, Frame("uncount", c, "nothing")))
    <3>1. /\ Frame("uncount", c, "nothing") \in Frames
          /\ Frame("uncount", c, "nothing").pc = "uncount"
      BY <1>1, FrameType DEF Frame
    <3>2. /\ Lull(Append(Below, Frame("uncount", c, "nothing")))
          /\ Append(Below, Frame("uncount", c, "nothing")) \in Seq(Frames)
      BY <2>2, <3>1, PushLull, AppendFrame
    <3>3. ForSources(Append(Below, Frame("uncount", c, "nothing")))
      BY <2>2, <3>1, AppendFrame DEF ForSources
    <3> QED
      BY <1>1, <2>5, <3>2, <3>3, AnswerLull
  <2> QED
    BY <1>6, <2>3, <2>4, <2>5
       DEF ConnectionStep, ReceiveReturns, FailReturns, Uncount, FinishReturns
<1>7. Make(c) \/ MakePaused(c) => UNCHANGED loopVars \/ (connection[c] = "none" /\ MakeFails(c))
  BY DEF Make, MakePaused, Loads
<1>8. StartLoading(c) \/ ResumeLoading(c) => UNCHANGED loopVars \/ Answer(c, 1, stack)
  BY DEF StartLoading, ResumeLoading, Loads
<1>9. DidReceive(c) \/ DidFail(c) \/ DidFinish(c) =>
        \E after \in {"nothing", "fail", "finish"} : Report(c, after)
  BY DEF DidReceive, DidFail, DidFinish
<1> QED
  BY <1>2, <1>3, <1>4, <1>5, <1>6, <1>7, <1>8, <1>9 DEF OfConnections, ConnectionNext

\* A wait sleeps only while its deferred has no answer, or while client code on
\* its deferred's own chain comes before its _get:, at any depth of waits that
\* lie on each other and end out of order (DKWaitForDeferred result, _get:).
THEOREM NoWaitIsLost == Spec => []NoLostWakeup
<1>1. Init => NoLostWakeup
  BY DEF Init, LoopInit, NoLostWakeup
<1>2. Inv => (NoLostWakeup <=> (raisedBy = {} => Lull(stack)))
  BY SoundStack DEF NoLostWakeup, Lull, Covered
<1>3. Inv /\ Lull(stack) /\ [Next]_vars /\ raisedBy' = {} => Lull(stack)'
  <2> SUFFICES ASSUME Inv, Lull(stack), [Next]_vars, raisedBy' = {} PROVE Lull(stack)'
    OBVIOUS
  <2>1. LoopTypeOK /\ stack \in Seq(Frames) /\ ForSources(stack)
    BY SoundStack, SoundForSources
  <2>2. CASE UNCHANGED loopVars
    BY <2>2 DEF loopVars, deferreds, Lull, Covered
  <2>3. ASSUME NEW s \in Sources, NEW o \in {0, 1}, Answer(s, o, stack)
        PROVE  Lull(stack)'
    BY <2>1, <2>3, AnswerLull
  <2>4. ASSUME NEW w \in Workers, OfWorkers(MakeThread(w) \/ WorkerNext(w))
        PROVE  Lull(stack)'
    <3>1. ~Raise(w) /\ w \in Sources
      BY EventsAssumption DEF Raise
    <3> QED
      BY <2>2, <2>3, <2>4, <3>1 DEF OfWorkers, MakeThread, WorkerNext, StartThread,
                                    FunctionReturns, ReturnFromThread
  <2>5. ASSUME NEW l \in Locations, OfLocations(GetLocation(l) \/ LocationNext(l))
        PROVE  Lull(stack)'
    BY <2>2, <2>3, <2>5, EventsAssumption
       DEF OfLocations, GetLocation, LocationNext, DidUpdate, LocationFails, Timeout
  <2>6. CASE UNCHANGED vars
    BY <2>2, <2>6 DEF vars
  <2>7. ASSUME NEW c \in Connections,
               OfConnections(Make(c) \/ MakePaused(c) \/ ConnectionNext(c) \/ ConnectionStep(c))
        PROVE  Lull(stack)'
    BY <2>7, ConnectionLull
  <2> QED
    BY <2>4, <2>5, <2>6, <2>7, ClientLull
       DEF Next, Makes, OfConnections, OfWorkers, OfLocations
<1>4. Inv /\ [Next]_vars /\ raisedBy' = {} => raisedBy = {}
  <2> SUFFICES ASSUME Inv, [Next]_vars, raisedBy' = {} PROVE raisedBy = {}
    OBVIOUS
  <2>1. OfLoop(Client \/ LoopStep) => raisedBy' = raisedBy
    BY DEF OfLoop, Client, Event, Cancel, Wait, LoopStep, WaitReturns, EventReturns,
           CallbackReturns, Proceed, history
  <2>2. UNCHANGED loopVars => raisedBy' = raisedBy
    BY DEF loopVars, history
  <2>3. \A s, o, st : Answer(s, o, st) => raisedBy = {}
    BY DEF Answer, Raise
  <2>4. ASSUME NEW w \in Workers, OfWorkers(MakeThread(w) \/ WorkerNext(w))
        PROVE  raisedBy = {}
    BY <2>2, <2>3, <2>4 DEF OfWorkers, MakeThread, WorkerNext, StartThread, FunctionReturns,
                            ReturnFromThread, Raise
  <2>5. ASSUME NEW l \in Locations, OfLocations(GetLocation(l) \/ LocationNext(l))
        PROVE  raisedBy = {}
    BY <2>2, <2>3, <2>5
       DEF OfLocations, GetLocation, LocationNext, DidUpdate, LocationFails, Timeout
  <2>6. ASSUME NEW c \in Connections,
               OfConnections(Make(c) \/ MakePaused(c) \/ ConnectionNext(c) \/ ConnectionStep(c))
        PROVE  raisedBy = {}
    BY <2>6, ConnectionsNeverRaise
  <2> QED
    BY <2>1, <2>2, <2>4, <2>5, <2>6
       DEF Next, vars, Makes, OfConnections, OfWorkers, OfLocations
<1>5. Inv' => (NoLostWakeup' <=> (raisedBy' = {} => Lull(stack)'))
  BY DEF Inv, ShapeInv, LoopTypeOK, NoLostWakeup, Lull, Covered
<1>6. Inv /\ Inv' /\ NoLostWakeup /\ [Next]_vars => NoLostWakeup'
  BY <1>2, <1>3, <1>4, <1>5
<1> QED
  BY <1>1, <1>6, Invariant, PTL DEF Spec
=============================================================================
