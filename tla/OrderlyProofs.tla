--------------------------- MODULE OrderlyProofs ---------------------------
(* What a client that is not wholly disorderly can rely on: theorems about *)
(* Deferred under the liberties that PauseAccounting, NoneStranded and     *)
(* FreshResult need.                                                       *)
EXTENDS DeferredProofs, FiniteSetTheorems

\* The client resumes only what it paused, returns from a callback only what
\* can still be chained, and its callbacks raise nothing.
Balanced == {"unbalanced", "reuse", "raise"} \cap Liberties = {}

-----------------------------------------------------------------------------
(* Chains: what the continuations are, and how adding and taking a pair    *)
(* changes them                                                            *)

\* Continuations(d) for any chains c and count n of ids
Waits(c, n, d) ==
  {m \in 0..n - 1 :
     \E e \in Deferreds : \E k \in 1..Len(c[e]) : c[e][k].id = m /\ c[e][k].fn[0] = d}

Chains == [Deferreds -> Seq(Pairs)]

\* No two pairs share an id, and the next one is free.
IdsOnce(c, n) ==
  /\ \A e \in Deferreds : \A k \in 1..Len(c[e]) : c[e][k].id \in 0..n - 1
  /\ \A e, g \in Deferreds : \A k \in 1..Len(c[e]) : \A l \in 1..Len(c[g]) :
       c[e][k].id = c[g][l].id => e = g /\ k = l

\* A pair is the client's or the same continuation on both sides.
WholePairs(c) ==
  \A e \in Deferreds : \A k \in 1..Len(c[e]) :
    (c[e][k].fn[0] \in Deferreds \/ c[e][k].fn[1] \in Deferreds) =>
      c[e][k].fn[0] = c[e][k].fn[1]

LEMMA WaitsCount ==
  ASSUME NEW c, NEW n \in Nat, NEW d
  PROVE  IsFiniteSet(Waits(c, n, d)) /\ Cardinality(Waits(c, n, d)) \in Nat
<1>1. IsFiniteSet(0..n - 1)
  BY FS_Interval
<1>2. Waits(c, n, d) \subseteq 0..n - 1
  BY DEF Waits
<1>3. IsFiniteSet(Waits(c, n, d))
  BY <1>1, <1>2, FS_Subset
<1> QED
  BY <1>3, FS_CardinalityType

Longer(c, x, p) == [c EXCEPT ![x] = Append(@, p)]
Shorter(c, x) == [c EXCEPT ![x] = Tail(@)]

\* The pairs of a chain one pair longer ...
LEMMA Appended ==
  ASSUME NEW c \in Chains, NEW x \in Deferreds, NEW p \in Pairs
  PROVE  /\ \A e \in Deferreds : e # x => Longer(c, x, p)[e] = c[e]
         /\ Len(Longer(c, x, p)[x]) = Len(c[x]) + 1
         /\ Longer(c, x, p)[x][Len(c[x]) + 1] = p
         /\ \A k \in 1..Len(c[x]) : Longer(c, x, p)[x][k] = c[x][k]
<1>1. /\ \A e \in Deferreds : e # x => Longer(c, x, p)[e] = c[e]
      /\ Longer(c, x, p)[x] = Append(c[x], p)
  BY DEF Chains, Longer
<1>2. c[x] \in Seq(Pairs)
  BY DEF Chains
<1> QED
  BY <1>1, <1>2, PushType

\* ... and of one that its first pair was taken from.
LEMMA Taken ==
  ASSUME NEW c \in Chains, NEW x \in Deferreds, c[x] # <<>>
  PROVE  /\ \A e \in Deferreds : e # x => Shorter(c, x)[e] = c[e]
         /\ Len(c[x]) \in Nat \ {0}
         /\ Len(Shorter(c, x)[x]) = Len(c[x]) - 1
         /\ \A k \in 1..Len(c[x]) - 1 : Shorter(c, x)[x][k] = c[x][k + 1]
         /\ Head(c[x]) = c[x][1]
<1>1. /\ \A e \in Deferreds : e # x => Shorter(c, x)[e] = c[e]
      /\ Shorter(c, x)[x] = Tail(c[x])
  BY DEF Chains, Shorter
<1>2. c[x] \in Seq(Pairs)
  BY DEF Chains
<1>3. /\ Len(c[x]) \in Nat \ {0}
      /\ Len(Tail(c[x])) = Len(c[x]) - 1
      /\ \A k \in 1..Len(c[x]) - 1 : Tail(c[x])[k] = c[x][k + 1]
      /\ Head(c[x]) = c[x][1]
  BY <1>2
<1> QED
  BY <1>1, <1>3

LEMMA ChainLens ==
  ASSUME NEW c \in Chains, NEW e \in Deferreds
  PROVE  Len(c[e]) \in Nat
BY DEF Chains

LEMMA AppendKeeps ==
  ASSUME NEW c \in Chains, NEW n \in Nat, NEW x \in Deferreds, NEW fn \in [{0, 1} -> Slots],
         IdsOnce(c, n), WholePairs(c),
         fn[0] \in Deferreds \/ fn[1] \in Deferreds => fn[0] = fn[1],
         NEW b, b = Longer(c, x, [id |-> n, fn |-> fn])
  PROVE  /\ IdsOnce(b, n + 1)
         /\ WholePairs(b)
         /\ \A d \in Deferreds :
              Waits(b, n + 1, d) = Waits(c, n, d) \cup {m \in {n} : fn[0] = d}
<1> DEFINE p == [id |-> n, fn |-> fn]
<1>p. p \in Pairs /\ p.id = n /\ p.fn = fn
  BY DEF Pairs
<1> HIDE DEF p
<1>1. /\ \A e \in Deferreds : e # x => b[e] = c[e]
      /\ Len(b[x]) = Len(c[x]) + 1
      /\ b[x][Len(c[x]) + 1] = p
      /\ \A k \in 1..Len(c[x]) : b[x][k] = c[x][k]
  <2>1. b = Longer(c, x, p)
    BY DEF p
  <2>2. p \in Pairs
    BY <1>p
  <2>3. /\ \A e \in Deferreds : e # x => Longer(c, x, p)[e] = c[e]
        /\ Len(Longer(c, x, p)[x]) = Len(c[x]) + 1
        /\ Longer(c, x, p)[x][Len(c[x]) + 1] = p
        /\ \A k \in 1..Len(c[x]) : Longer(c, x, p)[x][k] = c[x][k]
    BY <2>2, Appended, Zenon
  <2> QED
    BY <2>1, <2>3
<1>2. \A e \in Deferreds : Len(c[e]) \in Nat
  BY ChainLens
<1>3. \A e \in Deferreds : \A k \in 1..Len(b[e]) :
        IF e = x /\ k = Len(c[x]) + 1 THEN b[e][k] = p
        ELSE k \in 1..Len(c[e]) /\ b[e][k] = c[e][k]
  BY <1>1, <1>2
<1>4. ASSUME NEW e \in Deferreds, NEW k \in 1..Len(b[e])
      PROVE  b[e][k].id \in 0..n
  <2>1. CASE e = x /\ k = Len(c[x]) + 1
    BY <2>1, <1>3, <1>p
  <2>2. CASE ~(e = x /\ k = Len(c[x]) + 1)
    <3>1. k \in 1..Len(c[e]) /\ b[e][k] = c[e][k]
      BY <2>2, <1>3
    <3>2. c[e][k].id \in 0..n - 1
      BY <3>1 DEF IdsOnce
    <3> QED
      BY <3>1, <3>2
  <2> QED
    BY <2>1, <2>2
<1>5. ASSUME NEW e \in Deferreds, NEW g \in Deferreds, NEW k \in 1..Len(b[e]),
             NEW l \in 1..Len(b[g]), b[e][k].id = b[g][l].id
      PROVE  e = g /\ k = l
  <2> DEFINE new(h, i) == h = x /\ i = Len(c[x]) + 1
  <2>1. /\ IF new(e, k) THEN b[e][k].id = n ELSE k \in 1..Len(c[e]) /\ b[e][k] = c[e][k]
        /\ IF new(g, l) THEN b[g][l].id = n ELSE l \in 1..Len(c[g]) /\ b[g][l] = c[g][l]
    BY <1>3, <1>p
  <2>2. CASE new(e, k) /\ new(g, l)
    BY <2>2
  <2> HIDE DEF new
  <2>3. CASE new(e, k) /\ ~new(g, l)
    <3>1. l \in 1..Len(c[g]) /\ c[g][l].id = n
      BY <2>1, <2>3, <1>5
    <3>2. c[g][l].id \in 0..n - 1
      BY <3>1 DEF IdsOnce
    <3> QED
      BY <3>1, <3>2
  <2>4. CASE ~new(e, k) /\ new(g, l)
    <3>1. k \in 1..Len(c[e]) /\ c[e][k].id = n
      BY <2>1, <2>4, <1>5
    <3>2. c[e][k].id \in 0..n - 1
      BY <3>1 DEF IdsOnce
    <3> QED
      BY <3>1, <3>2
  <2>5. CASE ~new(e, k) /\ ~new(g, l)
    <3>1. /\ k \in 1..Len(c[e]) /\ l \in 1..Len(c[g])
          /\ c[e][k].id = c[g][l].id
      BY <2>1, <2>5, <1>5
    <3> QED
      BY <3>1 DEF IdsOnce
  <2> QED
    BY <2>2, <2>3, <2>4, <2>5
<1>6. IdsOnce(b, n + 1)
  <2>1. n + 1 - 1 = n
    OBVIOUS
  <2>2. \A e \in Deferreds : \A k \in 1..Len(b[e]) : b[e][k].id \in 0..n + 1 - 1
    BY <1>4, <2>1
  <2> HIDE DEF IdsOnce
  <2> QED
    BY <1>5, <2>2 DEF IdsOnce
<1>7. WholePairs(b)
  <2> SUFFICES ASSUME NEW e \in Deferreds, NEW k \in 1..Len(b[e])
               PROVE  (b[e][k].fn[0] \in Deferreds \/ b[e][k].fn[1] \in Deferreds)
                        => b[e][k].fn[0] = b[e][k].fn[1]
    BY DEF WholePairs
  <2>1. CASE e = x /\ k = Len(c[x]) + 1
    BY <2>1, <1>3, <1>p
  <2>2. CASE ~(e = x /\ k = Len(c[x]) + 1)
    BY <2>2, <1>3 DEF WholePairs
  <2> QED
    BY <2>1, <2>2
<1>8. ASSUME NEW d \in Deferreds
      PROVE  Waits(b, n + 1, d) = Waits(c, n, d) \cup {m \in {n} : fn[0] = d}
  <2>1. ASSUME NEW m \in Waits(b, n + 1, d)
        PROVE  m \in Waits(c, n, d) \cup {q \in {n} : fn[0] = d}
    <3>e. PICK e \in Deferreds : \E k \in 1..Len(b[e]) : b[e][k].id = m /\ b[e][k].fn[0] = d
      BY <2>1 DEF Waits
    <3>1. PICK k \in 1..Len(b[e]) : b[e][k].id = m /\ b[e][k].fn[0] = d
      BY <3>e
    <3>2. CASE e = x /\ k = Len(c[x]) + 1
      BY <3>1, <3>2, <1>3, <1>p
    <3>3. CASE ~(e = x /\ k = Len(c[x]) + 1)
      <4>1. k \in 1..Len(c[e]) /\ c[e][k].id = m /\ c[e][k].fn[0] = d
        BY <3>1, <3>3, <1>3
      <4>2. m \in 0..n - 1
        BY <4>1 DEF IdsOnce
      <4> QED
        BY <4>1, <4>2 DEF Waits
    <3> QED
      BY <3>2, <3>3
  <2>2. ASSUME NEW m \in Waits(c, n, d)
        PROVE  m \in Waits(b, n + 1, d)
    <3>e. PICK e \in Deferreds : \E k \in 1..Len(c[e]) : c[e][k].id = m /\ c[e][k].fn[0] = d
      BY <2>2 DEF Waits
    <3>1. PICK k \in 1..Len(c[e]) : c[e][k].id = m /\ c[e][k].fn[0] = d
      BY <3>e
    <3>2. k \in 1..Len(b[e]) /\ b[e][k] = c[e][k]
      BY <1>1, <1>2
    <3> QED
      BY <3>1, <3>2, <2>2 DEF Waits
  <2>3. ASSUME fn[0] = d
        PROVE  n \in Waits(b, n + 1, d)
    <3>1. Len(c[x]) + 1 \in 1..Len(b[x])
      BY <1>1, <1>2
    <3> QED
      BY <3>1, <1>1, <1>p, <2>3 DEF Waits
  <2> QED
    BY <2>1, <2>2, <2>3
<1> QED
  BY <1>6, <1>7, <1>8

LEMMA TakeKeeps ==
  ASSUME NEW c \in Chains, NEW n \in Nat, NEW x \in Deferreds, c[x] # <<>>,
         IdsOnce(c, n), WholePairs(c), NEW b, b = Shorter(c, x)
  PROVE  /\ IdsOnce(b, n)
         /\ WholePairs(b)
         /\ \A d \in Deferreds :
              Waits(b, n, d) = Waits(c, n, d) \ {Head(c[x]).id}
         /\ \A d \in Deferreds :
              Head(c[x]).id \in Waits(c, n, d) <=> Head(c[x]).fn[0] = d
<1>1. /\ \A e \in Deferreds : e # x => b[e] = c[e]
      /\ Len(c[x]) \in Nat \ {0}
      /\ Len(b[x]) = Len(c[x]) - 1
      /\ \A k \in 1..Len(c[x]) - 1 : b[x][k] = c[x][k + 1]
      /\ Head(c[x]) = c[x][1]
  BY Taken
<1>2. \A e \in Deferreds : Len(c[e]) \in Nat
  BY ChainLens
<1> DEFINE at(e, k) == IF e = x THEN k + 1 ELSE k
<1>3. \A e \in Deferreds : \A k \in 1..Len(b[e]) :
        at(e, k) \in 1..Len(c[e]) /\ b[e][k] = c[e][at(e, k)]
  <2> SUFFICES ASSUME NEW e \in Deferreds, NEW k \in 1..Len(b[e])
               PROVE  at(e, k) \in 1..Len(c[e]) /\ b[e][k] = c[e][at(e, k)]
    OBVIOUS
  <2>1. CASE e = x
    BY <2>1, <1>1
  <2>2. CASE e # x
    BY <2>2, <1>1
  <2> QED
    BY <2>1, <2>2
<1>4. \A e \in Deferreds : \A k \in 1..Len(b[e]) : ~(e = x /\ at(e, k) = 1)
  BY <1>1, <1>2
<1>5. \A e \in Deferreds : \A k, l \in 1..Len(b[e]) : at(e, k) = at(e, l) => k = l
  OBVIOUS
<1>6. \A e \in Deferreds : \A k \in 1..Len(c[e]) :
        ~(e = x /\ k = 1) => \E l \in 1..Len(b[e]) : at(e, l) = k
  <2> SUFFICES ASSUME NEW e \in Deferreds, NEW k \in 1..Len(c[e]), ~(e = x /\ k = 1)
               PROVE  \E l \in 1..Len(b[e]) : at(e, l) = k
    OBVIOUS
  <2>1. CASE e = x
    <3>1. k - 1 \in 1..Len(b[e]) /\ at(e, k - 1) = k
      BY <2>1, <1>1
    <3> QED
      BY <3>1
  <2>2. CASE e # x
    BY <2>2, <1>1
  <2> QED
    BY <2>1, <2>2
<1> HIDE DEF at
<1>7. IdsOnce(b, n)
  <2>1. ASSUME NEW e \in Deferreds, NEW k \in 1..Len(b[e])
        PROVE  b[e][k].id \in 0..n - 1
    <3>1. at(e, k) \in 1..Len(c[e]) /\ b[e][k] = c[e][at(e, k)]
      BY <1>3
    <3> QED
      BY <3>1 DEF IdsOnce
  <2>2. ASSUME NEW e \in Deferreds, NEW g \in Deferreds, NEW k \in 1..Len(b[e]),
               NEW l \in 1..Len(b[g]), b[e][k].id = b[g][l].id
        PROVE  e = g /\ k = l
    <3>1. /\ at(e, k) \in 1..Len(c[e]) /\ b[e][k] = c[e][at(e, k)]
          /\ at(g, l) \in 1..Len(c[g]) /\ b[g][l] = c[g][at(g, l)]
      BY <1>3
    <3>2. e = g /\ at(e, k) = at(g, l)
      BY <2>2, <3>1 DEF IdsOnce
    <3> QED
      BY <3>2, <1>5
  <2> QED
    BY <2>1, <2>2 DEF IdsOnce
<1>8. WholePairs(b)
  BY <1>3 DEF WholePairs
<1>9. ASSUME NEW d \in Deferreds
      PROVE  Waits(b, n, d) = Waits(c, n, d) \ {Head(c[x]).id}
  <2>1. ASSUME NEW m \in Waits(b, n, d)
        PROVE  m \in Waits(c, n, d) \ {Head(c[x]).id}
    <3>e. PICK e \in Deferreds : \E k \in 1..Len(b[e]) : b[e][k].id = m /\ b[e][k].fn[0] = d
      BY <2>1 DEF Waits
    <3>1. PICK k \in 1..Len(b[e]) : b[e][k].id = m /\ b[e][k].fn[0] = d
      BY <3>e
    <3>2. at(e, k) \in 1..Len(c[e]) /\ b[e][k] = c[e][at(e, k)]
      BY <1>3
    <3>3. m \in Waits(c, n, d)
      BY <3>1, <3>2, <2>1 DEF Waits
    <3>4. m # c[x][1].id
      <4> SUFFICES ASSUME m = c[x][1].id PROVE FALSE
        OBVIOUS
      <4>1. 1 \in 1..Len(c[x])
        BY <1>1
      <4>2. e = x /\ at(e, k) = 1
        BY <4>1, <3>1, <3>2 DEF IdsOnce
      <4> QED
        BY <4>2, <1>4
    <3> QED
      BY <3>3, <3>4, <1>1
  <2>2. ASSUME NEW m \in Waits(c, n, d), m # Head(c[x]).id
        PROVE  m \in Waits(b, n, d)
    <3>e. PICK e \in Deferreds : \E k \in 1..Len(c[e]) : c[e][k].id = m /\ c[e][k].fn[0] = d
      BY <2>2 DEF Waits
    <3>1. PICK k \in 1..Len(c[e]) : c[e][k].id = m /\ c[e][k].fn[0] = d
      BY <3>e
    <3>2. ~(e = x /\ k = 1)
      BY <3>1, <2>2, <1>1
    <3>3. PICK l \in 1..Len(b[e]) : at(e, l) = k
      BY <3>2, <1>6
    <3>4. b[e][l] = c[e][k]
      BY <3>3, <1>3
    <3> QED
      BY <3>4, <3>1, <2>2 DEF Waits
  <2> QED
    BY <2>1, <2>2
<1>10. ASSUME NEW d \in Deferreds
       PROVE  Head(c[x]).id \in Waits(c, n, d) <=> Head(c[x]).fn[0] = d
  <2>1. 1 \in 1..Len(c[x])
    BY <1>1
  <2>2. ASSUME Head(c[x]).id \in Waits(c, n, d)
        PROVE  Head(c[x]).fn[0] = d
    <3>e. PICK e \in Deferreds : \E k \in 1..Len(c[e]) : c[e][k].id = c[x][1].id /\ c[e][k].fn[0] = d
      BY <2>2, <1>1 DEF Waits
    <3>1. PICK k \in 1..Len(c[e]) : c[e][k].id = c[x][1].id /\ c[e][k].fn[0] = d
      BY <3>e
    <3>2. e = x /\ k = 1
      BY <2>1, <3>1 DEF IdsOnce
    <3> QED
      BY <3>1, <3>2, <1>1
  <2>3. ASSUME Head(c[x]).fn[0] = d
        PROVE  Head(c[x]).id \in Waits(c, n, d)
    BY <2>1, <2>3, <1>1 DEF Waits, IdsOnce
  <2> QED
    BY <2>2, <2>3
<1> QED
  BY <1>7, <1>8, <1>9, <1>10

-----------------------------------------------------------------------------
(* The stack: who is about to add a continuation *)

Clear(s) == \A i \in 1..Len(s) : ~s[i].linking

\* Only the running frame is about to add one, from its callback's return to
\* addBoth:, and what the callback returned can be chained until then.
LinkTop(s, ch, fi) ==
  \A i \in 1..Len(s) : s[i].linking =>
    /\ i = Len(s)
    /\ s[i].pc \in {"loop", "link"}
    /\ s[i].result \in Deferreds
    /\ ~ch[s[i].result] /\ ~fi[s[i].result]

LinksTop(s, d) == s # <<>> /\ s[Len(s)].linking /\ s[Len(s)].d = d
LinkCount(s, d) == IF LinksTop(s, d) THEN 1 ELSE 0

LEMMA LinkingCount ==
  ASSUME NEW s \in Seq(Frames), NEW ch, NEW fi, LinkTop(s, ch, fi), NEW d
  PROVE  Cardinality({i \in 1..Len(s) : s[i].linking /\ s[i].d = d}) = LinkCount(s, d)
<1> DEFINE L == {i \in 1..Len(s) : s[i].linking /\ s[i].d = d}
<1>1. CASE LinksTop(s, d)
  <2>1. Len(s) \in 1..Len(s)
    BY <1>1 DEF LinksTop
  <2>2. L = {Len(s)}
    BY <2>1, <1>1 DEF LinkTop, LinksTop
  <2>3. Cardinality(L) = 1
    BY <2>2, FS_Singleton
  <2> QED
    BY <2>3, <1>1 DEF LinkCount
<1>2. CASE ~LinksTop(s, d)
  <2>1. L = {}
    BY <1>2 DEF LinkTop, LinksTop
  <2>2. Cardinality(L) = 0
    BY <2>1, FS_EmptySet
  <2> QED
    BY <2>2, <1>2 DEF LinkCount
<1> QED
  BY <1>1, <1>2

LEMMA ClearCount ==
  ASSUME NEW s \in Seq(Frames), Clear(s), NEW d
  PROVE  LinkCount(s, d) = 0
BY DEF Clear, LinkCount, LinksTop

LEMMA ClearIsLinkTop ==
  ASSUME NEW s, NEW ch, NEW fi, Clear(s)
  PROVE  LinkTop(s, ch, fi)
BY DEF Clear, LinkTop

LEMMA ClearCut ==
  ASSUME NEW s \in Seq(Frames), NEW k \in 0..Len(s), Clear(s)
  PROVE  Clear(SubSeq(s, 1, k))
BY CutType DEF Clear

LEMMA ClearPush ==
  ASSUME NEW s \in Seq(Frames), NEW f \in Frames, Clear(s), ~f.linking
  PROVE  Clear(Append(s, f))
BY PushType DEF Clear

LEMMA ClearFire ==
  ASSUME NEW s \in Seq(Frames), NEW d \in Deferreds, NEW x \in Results, Clear(s)
  PROVE  Clear(Fire(s, d, x))
<1> DEFINE f == [pc |-> "loop", d |-> d, result |-> x, linking |-> FALSE]
<1>1. f \in Frames /\ ~f.linking
  BY DEF Frames
<1> QED
  BY <1>1, ClearPush DEF Fire

LEMMA ClearFireIfFired ==
  ASSUME TypeOK, NEW s \in Seq(Frames), NEW d \in Deferreds, Clear(s)
  PROVE  Clear(FireIfFired(d, s))
<1>1. result[d] \in Results
  BY DEF TypeOK
<1> QED
  BY <1>1, ClearFire DEF FireIfFired

LEMMA ClearResback ==
  ASSUME NEW s \in Seq(Frames), NEW d \in Deferreds, NEW x \in Results, NEW p,
         Clear(s), Resback(d, x, p, s)
  PROVE  Clear(stack')
<1>1. Clear(Fire(s, d, x))
  BY ClearFire
<1> QED
  BY <1>1 DEF Resback

-----------------------------------------------------------------------------
(* What holds a deferred *)

Balance ==
  \A d \in Deferreds :
    paused[d] = owed[d] + Cardinality(Waits(chain, added, d)) + LinkCount(stack, d)

HoldInv ==
  /\ TypeOK
  /\ IdsOnce(chain, added)
  /\ WholePairs(chain)
  /\ LinkTop(stack, chained, finalized)
  /\ Balance

LEMMA HoldFacts ==
  ASSUME TypeOK
  PROVE  /\ chain \in Chains
         /\ stack \in Seq(Frames)
         /\ added \in Nat
         /\ \A d \in Deferreds : /\ paused[d] \in Int
                                 /\ owed[d] \in Nat
                                 /\ Cardinality(Waits(chain, added, d)) \in Nat
                                 /\ IsFiniteSet(Waits(chain, added, d))
<1>1. added \in Nat
  BY DEF TypeOK
<1> QED
  BY <1>1, WaitsCount DEF TypeOK, Chains

\* Outside the library, and in it but for the frame that links, nothing links.
LEMMA TopClear ==
  ASSUME HoldInv, Running => ~Top.linking
  PROVE  Clear(stack)
<1>1. stack \in Seq(Frames)
  BY DEF HoldInv, TypeOK
<1> QED
  BY <1>1 DEF HoldInv, LinkTop, Clear, Running, Top

LEMMA ClearBelow ==
  ASSUME HoldInv, Running
  PROVE  Clear(Below) /\ Below \in Seq(Frames)
<1>1. stack \in Seq(Frames) /\ Len(stack) - 1 \in 0..Len(stack)
  BY TopType DEF HoldInv, TypeOK
<1>2. /\ Len(Below) = Len(stack) - 1
      /\ \A i \in 1..Len(stack) - 1 : Below[i] = stack[i]
      /\ Below \in Seq(Frames)
  BY <1>1, CutType DEF Below
<1> QED
  BY <1>1, <1>2 DEF HoldInv, LinkTop, Clear

LEMMA ReplacedIs ==
  ASSUME TypeOK, Running, NEW g \in Frames
  PROVE  /\ Replaced(g) \in Seq(Frames)
         /\ Len(Replaced(g)) = Len(stack)
         /\ Len(stack) \in 1..Len(stack)
         /\ Replaced(g)[Len(stack)] = g
         /\ \A i \in 1..Len(stack) : i # Len(stack) => Replaced(g)[i] = stack[i]
BY ReplaceType DEF TypeOK, Running, Replaced

LEMMA ClearReplaced ==
  ASSUME HoldInv, Running, NEW g \in Frames, ~g.linking
  PROVE  Clear(Replaced(g)) /\ Replaced(g) \in Seq(Frames)
<1>1. /\ Replaced(g) \in Seq(Frames)
      /\ Len(Replaced(g)) = Len(stack)
      /\ Replaced(g)[Len(stack)] = g
      /\ \A i \in 1..Len(stack) : i # Len(stack) => Replaced(g)[i] = stack[i]
  BY ReplacedIs DEF HoldInv
<1>2. \A i \in 1..Len(stack) : i # Len(stack) => ~stack[i].linking
  BY DEF HoldInv, LinkTop
<1> QED
  BY <1>1, <1>2 DEF Clear

LEMMA ClientClear ==
  ASSUME HoldInv, Running => Top.pc \in ClientPCs
  PROVE  Clear(stack)
<1>1. Running => ~Top.linking
  <2> SUFFICES ASSUME Running, Top.linking PROVE FALSE
    OBVIOUS
  <2>1. Len(stack) \in 1..Len(stack)
    BY TopType DEF HoldInv
  <2>2. stack[Len(stack)].pc \in {"loop", "link"}
    BY <2>1 DEF HoldInv, LinkTop, Top
  <2> QED
    BY <2>2 DEF ClientPCs, Top
<1> QED
  BY <1>1, TopClear

\* A linking frame's deferred is paused.
LEMMA LinkingPaused ==
  ASSUME HoldInv, Running, Top.linking
  PROVE  Top.d \in Deferreds /\ paused[Top.d] > 0
<1>1. Top \in Frames /\ stack # <<>>
  BY TopType DEF HoldInv, Running
<1>2. Top.d \in Deferreds
  BY <1>1 DEF Frames
<1>3. LinkCount(stack, Top.d) = 1
  BY <1>1 DEF LinkCount, LinksTop, Top
<1>4. /\ paused[Top.d] \in Int /\ owed[Top.d] \in Nat
      /\ Cardinality(Waits(chain, added, Top.d)) \in Nat
  BY <1>2, HoldFacts DEF HoldInv
<1> QED
  BY <1>2, <1>3, <1>4 DEF HoldInv, Balance

LEMMA PausedNat ==
  ASSUME HoldInv, NEW d \in Deferreds
  PROVE  /\ paused[d] \in Nat
         /\ paused[d] >= owed[d]
         /\ paused[d] >= Cardinality(Waits(chain, added, d))
<1>1. /\ paused[d] \in Int /\ owed[d] \in Nat
      /\ Cardinality(Waits(chain, added, d)) \in Nat
  BY HoldFacts DEF HoldInv
<1>2. LinkCount(stack, d) \in {0, 1}
  BY DEF LinkCount
<1> QED
  BY <1>1, <1>2 DEF HoldInv, Balance

\* A step that leaves the chains alone keeps the account, if it takes from the
\* pauses and from the client's debt the same.
LEMMA QuietHold ==
  ASSUME HoldInv, TypeOK', UNCHANGED <<chain, added>>, Clear(stack), Clear(stack'),
         \A d \in Deferreds : paused'[d] - owed'[d] = paused[d] - owed[d]
  PROVE  HoldInv'
<1>1. IdsOnce(chain, added)' /\ WholePairs(chain)'
  BY DEF HoldInv
<1>2. LinkTop(stack', chained', finalized')
  BY ClearIsLinkTop
<1>3. ASSUME NEW d \in Deferreds
      PROVE  paused'[d] = owed'[d] + Cardinality(Waits(chain', added', d)) + LinkCount(stack', d)
  <2>1. /\ paused[d] \in Int /\ owed[d] \in Nat
        /\ Cardinality(Waits(chain, added, d)) \in Nat
        /\ stack \in Seq(Frames)
    BY HoldFacts DEF HoldInv
  <2>2. stack' \in Seq(Frames) /\ paused'[d] \in Int /\ owed'[d] \in Nat
    BY DEF TypeOK
  <2>3. LinkCount(stack, d) = 0 /\ LinkCount(stack', d) = 0
    BY <2>1, <2>2, ClearCount
  <2>4. Waits(chain', added', d) = Waits(chain, added, d)
    OBVIOUS
  <2>5. paused[d] = owed[d] + Cardinality(Waits(chain, added, d)) + LinkCount(stack, d)
    BY DEF HoldInv, Balance
  <2>6. paused'[d] - owed'[d] = paused[d] - owed[d]
    OBVIOUS
  <2> QED
    BY <2>1, <2>2, <2>3, <2>4, <2>5, <2>6
<1> QED
  BY <1>1, <1>2, <1>3 DEF HoldInv, Balance

LEMMA ClientClears ==
  ASSUME HoldInv, ClientRuns
  PROVE  Clear(stack) /\ stack \in Seq(Frames)
BY ClientClear DEF ClientRuns, HoldInv, TypeOK

LEMMA SettleHold ==
  ASSUME HoldInv, TypeOK', NEW d \in Deferreds, NEW x \in Inputs \cup Results, Settle(d, x)
  PROVE  HoldInv'
<1>1. Clear(stack) /\ stack \in Seq(Frames)
  BY ClientClears DEF Settle
<1>2. Boxed(x) \in Results
  BY BoxedType DEF Boxed, Results
<1>3. Resback(d, Boxed(x), paused[d], stack)
  BY DEF Settle
<1>4. Clear(stack')
  BY <1>1, <1>2, <1>3, ClearResback
<1>5. UNCHANGED <<chain, added, paused, owed>>
  BY DEF Settle
<1> QED
  BY <1>1, <1>4, <1>5, QuietHold

LEMMA ClientQuietHold ==
  ASSUME HoldInv, TypeOK', NEW d \in Deferreds,
         SetFinalizer(d) \/ Pause(d) \/ Cancel(d)
  PROVE  HoldInv'
<1>1. Clear(stack) /\ stack \in Seq(Frames) /\ TypeOK
  BY ClientClears DEF SetFinalizer, Pause, Cancel, HoldInv
<1>2. CASE SetFinalizer(d)
  <2>1. UNCHANGED <<chain, added, paused, owed>> /\ stack' = FireIfFired(d, stack)
    BY <1>2 DEF SetFinalizer, history
  <2>2. Clear(stack')
    BY <2>1, <1>1, ClearFireIfFired
  <2> QED
    BY <1>1, <2>1, <2>2, QuietHold
<1>3. CASE Pause(d)
  <2>1. UNCHANGED <<chain, added, stack>>
    BY <1>3 DEF Pause
  <2>2. \A e \in Deferreds : paused'[e] - owed'[e] = paused[e] - owed[e]
    <3>1. /\ paused' = [paused EXCEPT ![d] = @ + 1]
          /\ owed' = [owed EXCEPT ![d] = @ + 1]
          /\ paused \in [Deferreds -> Int] /\ owed \in [Deferreds -> Nat]
      BY <1>1, <1>3 DEF Pause, TypeOK
    <3> QED
      BY <3>1
  <2> QED
    BY <1>1, <2>1, <2>2, QuietHold
<1>4. CASE Cancel(d)
  <2> DEFINE f == [pc |-> "cancel", d |-> d, result |-> Null, linking |-> FALSE]
  <2>1. UNCHANGED <<chain, added, paused, owed>> /\ stack' = Append(stack, f)
    BY <1>4 DEF Cancel, fields, history
  <2>2. f \in Frames /\ ~f.linking
    BY DEF Frames, Results
  <2>3. Clear(stack')
    BY <1>1, <2>1, <2>2, ClearPush
  <2> QED
    BY <1>1, <2>1, <2>3, QuietHold
<1> QED
  BY <1>2, <1>3, <1>4

LEMMA ResumeHold ==
  ASSUME HoldInv, TypeOK', Balanced, NEW d \in Deferreds, Resume(d)
  PROVE  HoldInv'
<1>1. Clear(stack) /\ stack \in Seq(Frames) /\ TypeOK
  BY ClientClears DEF Resume, HoldInv
<1>2. owed[d] > 0
  BY DEF Resume, Balanced
<1>3. paused[d] \in Nat /\ paused[d] >= owed[d] /\ owed[d] \in Nat
  BY PausedNat, <1>1 DEF TypeOK
<1>4. ResumedPause(paused[d]) = paused[d] - 1
  BY <1>2, <1>3 DEF ResumedPause
<1>5. /\ paused' = [paused EXCEPT ![d] = paused[d] - 1]
      /\ owed' = [owed EXCEPT ![d] = owed[d] - 1]
  BY <1>2, <1>4 DEF Resume
<1>6. \A e \in Deferreds : paused'[e] - owed'[e] = paused[e] - owed[e]
  <2>1. paused \in [Deferreds -> Int] /\ owed \in [Deferreds -> Nat]
    BY <1>1 DEF TypeOK
  <2> QED
    BY <1>5, <2>1
<1>7. Clear(FireIfFired(d, stack))
  BY <1>1, ClearFireIfFired
<1>8. Clear(stack') /\ UNCHANGED <<chain, added>>
  BY <1>1, <1>7 DEF Resume
<1> QED
  BY <1>1, <1>6, <1>8, QuietHold

LEMMA AddCallbacksHold ==
  ASSUME HoldInv, TypeOK', NEW d \in Deferreds, NEW fn \in ClientSlots, AddCallbacks(d, fn)
  PROVE  HoldInv'
<1>1. Clear(stack) /\ stack \in Seq(Frames) /\ TypeOK
  BY ClientClears DEF AddCallbacks, HoldInv
<1>2. /\ chain' = Longer(chain, d, [id |-> added, fn |-> fn])
      /\ added' = added + 1 /\ stack' = FireIfFired(d, stack)
      /\ UNCHANGED <<paused, owed, chained, finalized>>
  BY DEF AddCallbacks, Chain, Longer
<1>3. fn \in [{0, 1} -> Slots] /\ fn[0] \notin Deferreds /\ fn[1] \notin Deferreds
  BY ResultAssumption DEF ClientSlots, Slots, Results
<1>4. chain \in Chains /\ added \in Nat
  BY <1>1, HoldFacts
<1>5. /\ IdsOnce(chain', added') /\ WholePairs(chain')
      /\ \A e \in Deferreds :
           Waits(chain', added', e) = Waits(chain, added, e) \cup {m \in {added} : fn[0] = e}
  BY <1>2, <1>3, <1>4, AppendKeeps DEF HoldInv
<1>6. Clear(stack')
  BY <1>1, <1>2, ClearFireIfFired
<1>7. LinkTop(stack', chained', finalized')
  BY <1>6, ClearIsLinkTop
<1>8. ASSUME NEW e \in Deferreds
      PROVE  paused'[e] = owed'[e] + Cardinality(Waits(chain', added', e)) + LinkCount(stack', e)
  <2>1. Waits(chain', added', e) = Waits(chain, added, e)
    BY <1>3, <1>5
  <2>2. stack' \in Seq(Frames)
    BY DEF TypeOK
  <2>3. LinkCount(stack, e) = 0 /\ LinkCount(stack', e) = 0
    BY <1>1, <1>6, <2>2, ClearCount
  <2> QED
    BY <2>1, <2>3, <1>2 DEF HoldInv, Balance
<1> QED
  BY <1>5, <1>7, <1>8 DEF HoldInv, Balance

LEMMA TopFrame ==
  ASSUME HoldInv, Running
  PROVE  /\ Top \in Frames /\ Top.d \in Deferreds /\ Top.result \in Results
         /\ Top.linking \in BOOLEAN
         /\ TypeOK /\ stack # <<>> /\ stack \in Seq(Frames)
<1>1. Top \in Frames /\ TypeOK
  BY TopType DEF HoldInv
<1> QED
  BY <1>1 DEF Frames, Running, TypeOK

LEMMA ClearTop ==
  ASSUME HoldInv, Running, Clear(stack)
  PROVE  ~Top.linking
<1>1. Len(stack) \in 1..Len(stack)
  BY TopType DEF HoldInv
<1> QED
  BY <1>1 DEF Clear, Top

\* A callback returns a plain value, or a deferred that can be chained: then
\* the pause count goes up with the number of frames that link.
LEMMA ReturnHold ==
  ASSUME HoldInv, TypeOK', Balanced, NEW x \in Inputs, Return(x)
  PROVE  HoldInv'
<1> DEFINE d == Top.d
           g == [Top EXCEPT !.pc = "loop", !.result = Boxed(x),
                            !.linking = @ \/ IsKind(x, d)]
<1>1. /\ Running /\ Top.pc = "callback" /\ Returnable(x, d)
      /\ stack' = Replaced(g)
      /\ paused' = IF IsKind(x, d) THEN [paused EXCEPT ![d] = @ + 1] ELSE paused
      /\ UNCHANGED <<chain, chained, finalized, added, owed>>
  BY DEF Return, TopIs
<1>2. Clear(stack)
  BY <1>1, ClientClear DEF ClientPCs
<1>3. Top \in Frames /\ d \in Deferreds /\ TypeOK /\ stack # <<>> /\ stack \in Seq(Frames)
  BY <1>1, TopFrame
<1>4. ~Top.linking
  BY <1>1, <1>2, ClearTop
<1>5. Boxed(x) \in Results
  BY BoxedType
<1>6. g \in Frames /\ g.pc = "loop" /\ g.result = Boxed(x) /\ g.d = d
      /\ g.linking = IsKind(x, d)
  BY <1>3, <1>4, <1>5 DEF Frames, IsKind
<1>7. /\ Replaced(g) \in Seq(Frames)
      /\ Len(Replaced(g)) = Len(stack)
      /\ Len(stack) \in 1..Len(stack)
      /\ Replaced(g)[Len(stack)] = g
      /\ \A i \in 1..Len(stack) : i # Len(stack) => Replaced(g)[i] = stack[i]
  BY <1>1, <1>3, <1>6, ReplacedIs
<1> HIDE DEF g
<1>8. CASE ~IsKind(x, d)
  <2>1. Clear(stack')
    BY <1>1, <1>6, <1>8, ClearReplaced
  <2>2. UNCHANGED <<chain, added, paused, owed>>
    BY <1>1, <1>8
  <2> QED
    BY <1>2, <2>1, <2>2, QuietHold
<1>9. CASE IsKind(x, d)
  <2>1. x \in Deferreds /\ Boxed(x) = x /\ Reusable(x)
    BY <1>1, <1>9, ResultAssumption DEF Returnable, IsKind, Boxed, Results, Balanced
  <2>2. LinkTop(stack', chained', finalized')
    <3>1. \A i \in 1..Len(stack) : i # Len(stack) => ~Replaced(g)[i].linking
      BY <1>2, <1>7 DEF Clear
    <3> QED
      BY <1>1, <1>6, <1>7, <2>1, <3>1 DEF LinkTop, Reusable
  <2>3. ASSUME NEW e \in Deferreds
        PROVE  paused'[e] = owed'[e] + Cardinality(Waits(chain', added', e)) + LinkCount(stack', e)
    <3>1. LinkCount(stack, e) = 0
      BY <1>2, <1>3, ClearCount
    <3>2. stack'[Len(stack')] = g /\ stack' # <<>>
      BY <1>1, <1>3, <1>7
    <3>3. LinkCount(stack', e) = IF e = d THEN 1 ELSE 0
      BY <3>2, <1>6, <1>9 DEF LinkCount, LinksTop
    <3>4. paused'[e] = IF e = d THEN paused[e] + 1 ELSE paused[e]
      BY <1>1, <1>3, <1>9 DEF TypeOK
    <3>5. /\ paused[e] \in Int /\ owed[e] \in Nat
          /\ Cardinality(Waits(chain, added, e)) \in Nat
      BY <1>3, HoldFacts
    <3>6. paused[e] = owed[e] + Cardinality(Waits(chain, added, e)) + LinkCount(stack, e)
      BY DEF HoldInv, Balance
    <3>7. Waits(chain', added', e) = Waits(chain, added, e) /\ owed' = owed
      BY <1>1
    <3> QED
      BY <3>1, <3>3, <3>4, <3>5, <3>6, <3>7
  <2>4. IdsOnce(chain, added)' /\ WholePairs(chain)'
    BY <1>1 DEF HoldInv
  <2> QED
    BY <2>2, <2>3, <2>4 DEF HoldInv, Balance
<1> QED
  BY <1>8, <1>9

\* The steps that cut the stack or change its last frame and do not link.
LEMMA StackHold ==
  ASSUME HoldInv, TypeOK', UNCHANGED <<chain, added, paused, owed>>, Running, ~Top.linking,
         \/ stack' = Below
         \/ \E g \in Frames : ~g.linking /\ stack' = Replaced(g)
         \/ \E d \in Deferreds, x \in Results : \E p \in Int : Resback(d, x, p, Below)
  PROVE  HoldInv'
<1>1. Clear(stack)
  BY TopClear
<1>2. Clear(Below) /\ Below \in Seq(Frames)
  BY ClearBelow
<1>3. CASE stack' = Below
  BY <1>1, <1>2, <1>3, QuietHold
<1>4. ASSUME NEW g \in Frames, ~g.linking, stack' = Replaced(g)
      PROVE  HoldInv'
  <2>1. Clear(stack')
    BY <1>4, ClearReplaced
  <2> QED
    BY <1>1, <2>1, QuietHold
<1>5. ASSUME NEW d \in Deferreds, NEW x \in Results, NEW p \in Int, Resback(d, x, p, Below)
      PROVE  HoldInv'
  <2>1. Clear(stack')
    BY <1>2, <1>5, ClearResback
  <2> QED
    BY <1>1, <2>1, QuietHold
<1> QED
  BY <1>3, <1>4, <1>5

LEMMA ReturnsHold ==
  ASSUME HoldInv, TypeOK', FinalizerReturns \/ CancellerReturns
  PROVE  HoldInv'
<1>0. Running /\ Top.pc \in ClientPCs
  BY DEF FinalizerReturns, CancellerReturns, TopIs, ClientPCs
<1>1. Top \in Frames /\ Top.d \in Deferreds /\ TypeOK /\ stack # <<>>
  BY <1>0, TopFrame
<1>2. ~Top.linking
  BY <1>0, ClientClear, ClearTop
<1>3. CASE FinalizerReturns
  <2> DEFINE g == [Top EXCEPT !.pc = "link"]
  <2>1. g \in Frames /\ ~g.linking
    BY <1>1, <1>2 DEF Frames
  <2>2. stack' = Replaced(g) /\ UNCHANGED <<chain, added, paused, owed>>
    BY <1>3 DEF FinalizerReturns, fields, history
  <2> QED
    BY <1>0, <1>2, <2>1, <2>2, StackHold
<1>4. CASE CancellerReturns
  <2>1. UNCHANGED <<chain, added, paused, owed>>
    BY <1>4 DEF CancellerReturns
  <2>2. CanceledError \in Results
    BY ResultAssumption DEF Results
  <2>3. paused[Top.d] \in Int
    BY <1>1 DEF TypeOK
  <2>4. stack' = Below \/ Resback(Top.d, CanceledError, paused[Top.d], Below)
    BY <1>4 DEF CancellerReturns, CancelErrback
  <2> QED
    BY <1>0, <1>1, <1>2, <2>1, <2>2, <2>3, <2>4, StackHold
<1> QED
  BY <1>3, <1>4

\* The loop goes on only where nothing links: a linking frame's is paused.
LEMMA TakeFacts ==
  ASSUME HoldInv, TypeOK', NEW d \in Deferreds, TakePair(d)
  PROVE  /\ Running /\ ~Top.linking /\ Clear(stack)
         /\ Top \in Frames /\ Top.d = d /\ paused[d] = 0
         /\ chain[d] # <<>> /\ chain' = Shorter(chain, d)
         /\ UNCHANGED <<added, owed, chained, finalized>>
         /\ IdsOnce(chain', added') /\ WholePairs(chain')
         /\ \A e \in Deferreds :
              Waits(chain', added', e) = Waits(chain, added, e) \ {Head(chain[d]).id}
         /\ \A e \in Deferreds :
              Head(chain[d]).id \in Waits(chain, added, e) <=> Head(chain[d]).fn[0] = e
         /\ \A j \in {0, 1} :
              (Head(chain[d]).fn[0] \in Deferreds \/ Head(chain[d]).fn[j] \in Deferreds) =>
                Head(chain[d]).fn[0] = Head(chain[d]).fn[j]
<1>1. /\ Running /\ Top.d = d /\ paused[d] = 0 /\ chain[d] # <<>>
      /\ chain' = Shorter(chain, d)
      /\ UNCHANGED <<added, owed, chained, finalized>>
  BY DEF TakePair, TopIs, Continues, Shorter
<1>2. Top \in Frames
  BY <1>1, TopFrame
<1>3. ~Top.linking
  BY <1>1, LinkingPaused
<1>4. Clear(stack)
  BY <1>3, TopClear
<1>5. chain \in Chains /\ added \in Nat
  BY HoldFacts DEF HoldInv
<1>6. /\ IdsOnce(chain', added) /\ WholePairs(chain')
      /\ \A e \in Deferreds :
           Waits(chain', added, e) = Waits(chain, added, e) \ {Head(chain[d]).id}
      /\ \A e \in Deferreds :
           Head(chain[d]).id \in Waits(chain, added, e) <=> Head(chain[d]).fn[0] = e
  BY <1>1, <1>5, TakeKeeps DEF HoldInv
<1>7. Len(chain[d]) \in Nat \ {0} /\ Head(chain[d]) = chain[d][1]
  BY <1>1, <1>5, Taken
<1>8. \A j \in {0, 1} :
        (Head(chain[d]).fn[0] \in Deferreds \/ Head(chain[d]).fn[j] \in Deferreds) =>
          Head(chain[d]).fn[0] = Head(chain[d]).fn[j]
  BY <1>7 DEF HoldInv, WholePairs
<1> QED
  BY <1>1, <1>2, <1>3, <1>4, <1>6, <1>8

LEMMA ClientTakeHold ==
  ASSUME HoldInv, TypeOK', NEW d \in Deferreds, Skip(d) \/ CallClient(d)
  PROVE  HoldInv'
<1>1. TakePair(d)
  BY DEF Skip, CallClient
<1>2. /\ Running /\ ~Top.linking /\ Clear(stack) /\ Top \in Frames
      /\ UNCHANGED <<added, owed, chained, finalized>>
      /\ IdsOnce(chain', added') /\ WholePairs(chain')
      /\ \A e \in Deferreds :
           Waits(chain', added', e) = Waits(chain, added, e) \ {Head(chain[d]).id}
      /\ \A e \in Deferreds :
           Head(chain[d]).id \in Waits(chain, added, e) <=> Head(chain[d]).fn[0] = e
      /\ \A j \in {0, 1} :
           (Head(chain[d]).fn[0] \in Deferreds \/ Head(chain[d]).fn[j] \in Deferreds) =>
             Head(chain[d]).fn[0] = Head(chain[d]).fn[j]
  BY <1>1, TakeFacts
<1>3. paused' = paused
  BY DEF Skip, CallClient
<1>4. Clear(stack')
  <2>1. CASE Skip(d)
    BY <1>2, <2>1 DEF Skip
  <2>2. CASE CallClient(d)
    <3> DEFINE g == [Top EXCEPT !.pc = "callback"]
    <3>1. g \in Frames /\ ~g.linking
      BY <1>2 DEF Frames, ClientPCs
    <3>2. stack' = Replaced(g)
      BY <2>2 DEF CallClient
    <3> QED
      BY <1>2, <3>1, <3>2, ClearReplaced
  <2> QED
    BY <2>1, <2>2
<1>5. Head(chain[d]).fn[0] \notin Deferreds
  <2>1. PICK j \in {0, 1} : Head(chain[d]).fn[j] \in {"nil", "client"}
    BY DEF Skip, CallClient, Selected, Outcome
  <2>2. Head(chain[d]) \in Pairs
    <3>1. chain[d] \in Seq(Pairs) /\ chain[d] # <<>>
      BY <1>1 DEF TakePair, Continues, HoldInv, TypeOK
    <3> QED
      BY <3>1
  <2> QED
    BY <2>1, <2>2, <1>2, ResultAssumption DEF HoldInv, WholePairs, Results
<1>6. ASSUME NEW e \in Deferreds
      PROVE  paused'[e] = owed'[e] + Cardinality(Waits(chain', added', e)) + LinkCount(stack', e)
  <2>1. Waits(chain', added', e) = Waits(chain, added, e)
    BY <1>2, <1>5
  <2>2. stack \in Seq(Frames) /\ stack' \in Seq(Frames)
    BY DEF HoldInv, TypeOK
  <2>3. LinkCount(stack, e) = 0 /\ LinkCount(stack', e) = 0
    BY <1>2, <1>4, <2>2, ClearCount
  <2> QED
    BY <2>1, <2>3, <1>2, <1>3 DEF HoldInv, Balance
<1>7. LinkTop(stack', chained', finalized')
  BY <1>4, ClearIsLinkTop
<1> QED
  BY <1>2, <1>6, <1>7 DEF HoldInv, Balance

\* _continueChain: gives back the pause its own pair stood for.
LEMMA ContinueHold ==
  ASSUME HoldInv, TypeOK', NEW d \in Deferreds, NEW o \in Deferreds, ContinueChain(d, o)
  PROVE  HoldInv' /\ o # d /\ paused[o] > 0
<1>1. TakePair(d)
  BY DEF ContinueChain
<1>2. /\ Running /\ ~Top.linking /\ Clear(stack) /\ Top \in Frames /\ paused[d] = 0
      /\ UNCHANGED <<added, owed, chained, finalized>>
      /\ IdsOnce(chain', added') /\ WholePairs(chain')
      /\ \A e \in Deferreds :
           Waits(chain', added', e) = Waits(chain, added, e) \ {Head(chain[d]).id}
      /\ \A e \in Deferreds :
           Head(chain[d]).id \in Waits(chain, added, e) <=> Head(chain[d]).fn[0] = e
      /\ \A j \in {0, 1} :
           (Head(chain[d]).fn[0] \in Deferreds \/ Head(chain[d]).fn[j] \in Deferreds) =>
             Head(chain[d]).fn[0] = Head(chain[d]).fn[j]
  BY <1>1, TakeFacts
<1>3. Head(chain[d]).fn[0] = o
  <2>1. PICK j \in {0, 1} : Head(chain[d]).fn[j] = o
    BY DEF ContinueChain, Selected, Outcome
  <2> QED
    BY <2>1, <1>2
<1>4. Head(chain[d]).id \in Waits(chain, added, o)
  BY <1>2, <1>3
<1>5. paused[o] > 0
  <2>1. /\ IsFiniteSet(Waits(chain, added, o))
        /\ Cardinality(Waits(chain, added, o)) \in Nat
    BY HoldFacts DEF HoldInv
  <2>2. Cardinality(Waits(chain, added, o)) # 0
    BY <2>1, <1>4, FS_EmptySet
  <2>3. paused[o] \in Nat /\ paused[o] >= Cardinality(Waits(chain, added, o))
    BY PausedNat
  <2> QED
    BY <2>1, <2>2, <2>3
<1>6. o # d
  BY <1>2, <1>5
<1>7. Clear(stack')
  <2> DEFINE g == [Top EXCEPT !.result = Boxed("nil")]
  <2>1. g \in Frames /\ ~g.linking /\ Top.result \in Results
    BY <1>2, BoxedType DEF Frames
  <2>2. Resback(o, Top.result, paused'[o], Replaced(g))
    BY DEF ContinueChain
  <2>3. Clear(Replaced(g)) /\ Replaced(g) \in Seq(Frames)
    BY <1>2, <2>1, ClearReplaced
  <2> HIDE DEF g
  <2> QED
    BY <2>1, <2>2, <2>3, ClearResback
<1>8. ASSUME NEW e \in Deferreds
      PROVE  paused'[e] = owed'[e] + Cardinality(Waits(chain', added', e)) + LinkCount(stack', e)
  <2>1. stack \in Seq(Frames) /\ stack' \in Seq(Frames) /\ paused \in [Deferreds -> Int]
    BY DEF HoldInv, TypeOK
  <2>2. LinkCount(stack, e) = 0 /\ LinkCount(stack', e) = 0
    BY <1>2, <1>7, <2>1, ClearCount
  <2>3. paused[e] = owed[e] + Cardinality(Waits(chain, added, e))
    <3>1. /\ paused[e] = owed[e] + Cardinality(Waits(chain, added, e)) + LinkCount(stack, e)
          /\ owed[e] \in Nat /\ Cardinality(Waits(chain, added, e)) \in Nat
      BY HoldFacts DEF HoldInv, Balance
    <3> QED
      BY <2>2, <3>1
  <2>4. paused' = [paused EXCEPT ![o] = @ - 1]
    BY DEF ContinueChain, ContinuedPause
  <2>5. /\ IsFiniteSet(Waits(chain, added, e))
        /\ Cardinality(Waits(chain, added, e)) \in Nat /\ owed[e] \in Nat
    BY HoldFacts DEF HoldInv
  <2>6. CASE e = o
    <3>1. Cardinality(Waits(chain, added, e) \ {Head(chain[d]).id})
            = Cardinality(Waits(chain, added, e)) - 1
      BY <1>4, <2>5, <2>6, FS_RemoveElement
    <3>2. paused'[e] = paused[e] - 1
      BY <2>1, <2>4, <2>6
    <3>3. Cardinality(Waits(chain', added', e)) = Cardinality(Waits(chain, added, e)) - 1
      BY <3>1, <1>2
    <3>4. owed'[e] = owed[e]
      BY <1>2
    <3> QED
      BY <3>2, <3>3, <3>4, <2>2, <2>3, <2>5
  <2>7. CASE e # o
    <3>0. Head(chain[d]).id \notin Waits(chain, added, e)
      BY <1>2, <1>3, <2>7
    <3>3. Waits(chain', added', e) = Waits(chain, added, e) \ {Head(chain[d]).id}
      BY <1>2
    <3>4. \A S, h : h \notin S => S \ {h} = S
      OBVIOUS
    <3>1. Waits(chain', added', e) = Waits(chain, added, e)
      BY <3>0, <3>3, <3>4
    <3>2. paused'[e] = paused[e]
      BY <2>1, <2>4, <2>7
    <3> QED
      BY <3>1, <3>2, <1>2, <2>2, <2>3, <2>5
  <2> QED
    BY <2>6, <2>7
<1>9. LinkTop(stack', chained', finalized')
  BY <1>7, ClearIsLinkTop
<1> QED
  BY <1>2, <1>5, <1>6, <1>8, <1>9 DEF HoldInv, Balance

\* The end of the loop: a frame that links does not finalize, and goes on to
\* its addBoth: at once.
LEMMA ExitHold ==
  ASSUME HoldInv, TypeOK', NEW d \in Deferreds, Exit(d)
  PROVE  HoldInv'
<1> DEFINE g == [Top EXCEPT !.pc = IF Finalizes(d) THEN "finalizer" ELSE "link"]
<1>1. /\ Running /\ Top.d = d /\ stack' = Replaced(g)
      /\ finalized' = [finalized EXCEPT ![d] = @ \/ Finalizes(d)]
      /\ UNCHANGED <<chain, added, paused, owed, chained>>
  BY DEF Exit, TopIs, history
<1>2. Top \in Frames /\ TypeOK /\ stack # <<>>
  BY <1>1, TopFrame
<1>3. g \in Frames /\ g.linking = Top.linking /\ g.d = Top.d /\ g.result = Top.result
  BY <1>2 DEF Frames, ClientPCs
<1>4. CASE ~Top.linking
  <2>1. Clear(stack)
    BY <1>4, TopClear
  <2>2. Clear(stack')
    BY <1>1, <1>3, <1>4, ClearReplaced
  <2> QED
    BY <1>1, <2>1, <2>2, QuietHold
<1>5. CASE Top.linking
  <2>1. ~Finalizes(d)
    BY <1>1, <1>5, LinkingPaused DEF Finalizes
  <2>2. finalized' = finalized
    BY <1>1, <1>2, <2>1 DEF TypeOK
  <2>3. /\ Len(Replaced(g)) = Len(stack)
        /\ Len(stack) \in 1..Len(stack)
        /\ Replaced(g)[Len(stack)] = g
        /\ \A i \in 1..Len(stack) : i # Len(stack) => Replaced(g)[i] = stack[i]
        /\ g.pc = "link"
    BY <1>1, <1>2, <1>3, <2>1, ReplacedIs DEF Frames
  <2> HIDE DEF g
  <2>4. LinkTop(stack', chained', finalized')
    <3>1. LinkTop(stack, chained, finalized)
      BY DEF HoldInv
    <3>2. \A i \in 1..Len(stack) : i # Len(stack) => ~Replaced(g)[i].linking
      BY <2>3, <3>1 DEF LinkTop
    <3>3. Top.result \in Deferreds /\ ~chained[Top.result] /\ ~finalized[Top.result]
      BY <2>3, <3>1, <1>5 DEF LinkTop, Top
    <3> QED
      BY <1>1, <1>3, <2>2, <2>3, <3>2, <3>3 DEF LinkTop
  <2>5. ASSUME NEW e \in Deferreds
        PROVE  LinkCount(stack', e) = LinkCount(stack, e)
    <3>1. stack' # <<>> /\ stack'[Len(stack')] = g
      BY <1>1, <1>2, <2>3
    <3> QED
      BY <3>1, <1>2, <1>3 DEF LinkCount, LinksTop, Top
  <2>6. Balance'
    BY <1>1, <2>5 DEF HoldInv, Balance
  <2> QED
    BY <1>1, <2>4, <2>6 DEF HoldInv
<1> QED
  BY <1>4, <1>5

\* addBoth: puts the continuation where the linking frame was counted.
LEMMA LinkHold ==
  ASSUME HoldInv, TypeOK', NEW d \in Deferreds, Link(d)
  PROVE  /\ HoldInv' /\ Top.linking /\ Clear(stack')
         /\ Top.result \in Deferreds /\ Reusable(Top.result)
         /\ chain' = Longer(chain, Top.result, [id |-> added, fn |-> Continuation(d)])
         /\ stack' = FireIfFired(Top.result, Replaced([Top EXCEPT !.pc = "chain",
                                                                  !.linking = FALSE]))
         /\ \A e \in Deferreds :
              Waits(chain', added', e) = Waits(chain, added, e) \cup {m \in {added} : d = e}
<1> DEFINE x == Top.result
           fn == Continuation(d)
           g == [Top EXCEPT !.pc = "chain", !.linking = FALSE]
<1>1. Running /\ Top.d = d /\ Top.linking
  BY DEF Link, TopIs, Links
<1>2. Top \in Frames /\ TypeOK /\ stack # <<>> /\ stack \in Seq(Frames)
  BY <1>1, TopFrame
<1>3. x \in Deferreds /\ Reusable(x)
  <2>1. Len(stack) \in 1..Len(stack)
    BY <1>1, <1>2, TopType
  <2> QED
    BY <2>1, <1>1 DEF HoldInv, LinkTop, Top, Reusable
<1>4. /\ chain' = Longer(chain, x, [id |-> added, fn |-> fn])
      /\ added' = added + 1 /\ stack' = FireIfFired(x, Replaced(g))
      /\ UNCHANGED <<paused, owed, chained, finalized>>
  BY <1>3 DEF Link, Chain, Longer
<1>5. fn \in [{0, 1} -> Slots] /\ fn[0] = d /\ fn[1] = d
  BY DEF Continuation, Slots
<1>6. chain \in Chains /\ added \in Nat
  BY <1>2, HoldFacts
<1>7. /\ IdsOnce(chain', added') /\ WholePairs(chain')
      /\ \A e \in Deferreds :
           Waits(chain', added', e) = Waits(chain, added, e) \cup {m \in {added} : fn[0] = e}
  <2> HIDE DEF fn, x
  <2> QED
    BY <1>3, <1>4, <1>5, <1>6, AppendKeeps DEF HoldInv
<1>8. g \in Frames /\ ~g.linking
  BY <1>2 DEF Frames
<1> HIDE DEF g
<1>9. Clear(stack')
  <2>1. Clear(Replaced(g)) /\ Replaced(g) \in Seq(Frames)
    BY <1>1, <1>8, ClearReplaced
  <2> QED
    BY <2>1, <1>2, <1>3, <1>4, ClearFireIfFired
<1>10. LinkTop(stack', chained', finalized')
  BY <1>9, ClearIsLinkTop
<1>11. ASSUME NEW e \in Deferreds
       PROVE  paused'[e] = owed'[e] + Cardinality(Waits(chain', added', e)) + LinkCount(stack', e)
  <2>1. LinkCount(stack, e) = IF e = d THEN 1 ELSE 0
    BY <1>1, <1>2 DEF LinkCount, LinksTop, Top
  <2>2. LinkCount(stack', e) = 0
    <3>1. stack' \in Seq(Frames)
      BY DEF TypeOK
    <3> QED
      BY <3>1, <1>9, ClearCount
  <2>3. /\ IsFiniteSet(Waits(chain, added, e))
        /\ Cardinality(Waits(chain, added, e)) \in Nat /\ owed[e] \in Nat
    BY <1>2, HoldFacts
  <2>4. Cardinality(Waits(chain', added', e))
          = Cardinality(Waits(chain, added, e)) + (IF e = d THEN 1 ELSE 0)
    <3>1. added \notin Waits(chain, added, e)
      BY <1>6 DEF Waits
    <3>2. CASE e = d
      <4>1. Waits(chain', added', e) = Waits(chain, added, e) \cup {added}
        BY <1>5, <1>7, <3>2
      <4>2. Cardinality(Waits(chain, added, e) \cup {added})
              = Cardinality(Waits(chain, added, e)) + 1
        BY <3>1, <2>3, FS_AddElement
      <4> QED
        BY <4>1, <4>2, <3>2
    <3>3. CASE e # d
      <4>1. Waits(chain', added', e) = Waits(chain, added, e)
        BY <1>5, <1>7, <3>3
      <4> QED
        BY <4>1, <2>3, <3>3
    <3> QED
      BY <3>2, <3>3
  <2>5. paused[e] = owed[e] + Cardinality(Waits(chain, added, e)) + LinkCount(stack, e)
    BY DEF HoldInv, Balance
  <2>6. paused'[e] = paused[e] /\ owed'[e] = owed[e]
    BY <1>4
  <2> QED
    BY <2>1, <2>2, <2>3, <2>4, <2>5, <2>6
<1>12. HoldInv'
  BY <1>7, <1>10, <1>11 DEF HoldInv, Balance
<1> QED
  BY <1>1, <1>3, <1>4, <1>5, <1>7, <1>9, <1>12 DEF g

LEMMA OtherLibraryHold ==
  ASSUME HoldInv, TypeOK', NEW d \in Deferreds,
         FireReturns(d) \/ SetChained(d) \/ CancelUnfired(d) \/ CancelFired(d)
  PROVE  HoldInv'
<1>0. Running /\ Top.d = d
  BY DEF FireReturns, SetChained, CancelUnfired, CancelFired, TopIs
<1>1. Top \in Frames /\ Top.d \in Deferreds /\ TypeOK /\ stack # <<>>
  BY <1>0, TopFrame
<1>2. UNCHANGED <<chain, added, paused, owed>>
  BY DEF FireReturns, SetChained, CancelUnfired, CancelFired, fields, history
<1>3. ~Top.linking
  <2>1. CASE FireReturns(d)
    BY <1>0, <2>1, LinkingPaused DEF FireReturns, Links
  <2>2. CASE SetChained(d) \/ CancelUnfired(d) \/ CancelFired(d)
    <3>1. Top.pc \notin {"loop", "link"}
      BY <2>2 DEF SetChained, CancelUnfired, CancelFired, TopIs
    <3>2. Len(stack) \in 1..Len(stack)
      BY <1>0, <1>1, TopType
    <3> QED
      BY <3>1, <3>2 DEF HoldInv, LinkTop, Top
  <2> QED
    BY <2>1, <2>2
<1>4. CASE FireReturns(d) \/ SetChained(d)
  <2>1. stack' = Below
    BY <1>4 DEF FireReturns, SetChained
  <2> QED
    BY <1>0, <1>2, <1>3, <2>1, StackHold
<1>5. CASE CancelUnfired(d)
  <2> DEFINE g == [Top EXCEPT !.pc = "canceller"]
  <2>1. g \in Frames /\ ~g.linking
    BY <1>1, <1>3 DEF Frames, ClientPCs
  <2>2. CanceledError \in Results /\ paused[d] \in Int
    BY <1>0, <1>1, ResultAssumption DEF Results, TypeOK
  <2>3. stack' = Replaced(g) \/ Resback(d, CanceledError, paused[d], Below)
    BY <1>5 DEF CancelUnfired, CancelErrback
  <2> HIDE DEF g
  <2> QED
    BY <1>0, <1>2, <1>3, <2>1, <2>2, <2>3, StackHold
<1>6. CASE CancelFired(d)
  <2> DEFINE g == [Top EXCEPT !.d = result[d]]
  <2>1. CASE fired[d] = 0 /\ IsKind(result[d], d)
    <3>1. g \in Frames /\ ~g.linking
      BY <1>1, <1>3, <2>1 DEF Frames, IsKind
    <3>2. stack' = Replaced(g)
      BY <1>6, <2>1 DEF CancelFired
    <3> QED
      BY <1>0, <1>2, <1>3, <3>1, <3>2, StackHold
  <2>2. CASE ~(fired[d] = 0 /\ IsKind(result[d], d))
    <3>1. stack' = Below
      BY <1>6, <2>2 DEF CancelFired
    <3> QED
      BY <1>0, <1>2, <1>3, <3>1, StackHold
  <2> QED
    BY <2>1, <2>2
<1> QED
  BY <1>4, <1>5, <1>6

LEMMA InitHold == Init => HoldInv
<1> SUFFICES ASSUME Init PROVE HoldInv
  OBVIOUS
<1>1. TypeOK
  BY InitType
<1>2. \A d \in Deferreds : chain[d] = <<>> /\ Len(chain[d]) = 0
  BY DEF Init
<1>3. stack = <<>> /\ Len(stack) = 0 /\ added = 0
  BY DEF Init
<1>4. IdsOnce(chain, added) /\ WholePairs(chain) /\ LinkTop(stack, chained, finalized)
  BY <1>2, <1>3 DEF IdsOnce, WholePairs, LinkTop
<1>5. ASSUME NEW d \in Deferreds
      PROVE  paused[d] = owed[d] + Cardinality(Waits(chain, added, d)) + LinkCount(stack, d)
  <2>1. Waits(chain, added, d) = {}
    BY <1>2 DEF Waits
  <2>2. Cardinality(Waits(chain, added, d)) = 0
    BY <2>1, FS_EmptySet
  <2> QED
    BY <2>2, <1>3 DEF Init, LinkCount, LinksTop
<1> QED
  BY <1>1, <1>4, <1>5 DEF HoldInv, Balance

LEMMA StepHold ==
  ASSUME HoldInv, Balanced, [Next]_vars
  PROVE  HoldInv'
<1>1. TypeOK'
  BY StepType DEF HoldInv
<1>2. CASE UNCHANGED vars
  BY <1>1, <1>2 DEF vars, fields, history, HoldInv, Balance
<1>3. CASE ClientCalls
  <2>1. PICK d \in Deferreds :
          \/ \E x \in Inputs : Callback(d, x) \/ Errback(d, x) \/ RejectChained(d, x)
          \/ \E fn \in ClientSlots : AddCallbacks(d, fn)
          \/ SetFinalizer(d) \/ Pause(d) \/ Resume(d) \/ Cancel(d)
    BY <1>3 DEF ClientCalls
  <2>2. CASE \E x \in Inputs : Callback(d, x) \/ Errback(d, x) \/ RejectChained(d, x)
    <3>1. PICK x \in Inputs : Callback(d, x) \/ Errback(d, x)
      BY <2>2 DEF RejectChained, Balanced
    <3>2. x \in Inputs \cup Results /\ AsError(x) \in Inputs \cup Results
      BY ResultAssumption DEF AsError, Results
    <3> QED
      BY <3>1, <3>2, <1>1, SettleHold DEF Callback, Errback
  <2>3. CASE \E fn \in ClientSlots : AddCallbacks(d, fn)
    BY <2>3, <1>1, AddCallbacksHold
  <2>4. CASE SetFinalizer(d) \/ Pause(d) \/ Cancel(d)
    BY <2>4, <1>1, ClientQuietHold
  <2>5. CASE Resume(d)
    BY <2>5, <1>1, ResumeHold
  <2> QED
    BY <2>1, <2>2, <2>3, <2>4, <2>5
<1>4. CASE ClientReturns
  BY <1>1, <1>4, ReturnHold, ReturnsHold DEF ClientReturns
<1>5. CASE Raise
  BY <1>5 DEF Raise, Balanced
<1>6. ASSUME NEW d \in Deferreds, LibraryStep(d)
      PROVE  HoldInv'
  <2>1. CASE TakeStep(d)
    BY <2>1, <1>1, ClientTakeHold, ContinueHold DEF TakeStep
  <2>2. CASE Exit(d)
    BY <2>2, <1>1, ExitHold
  <2>3. CASE Link(d)
    BY <2>3, <1>1, LinkHold
  <2>4. CASE FireReturns(d) \/ SetChained(d) \/ CancelUnfired(d) \/ CancelFired(d)
    BY <2>4, <1>1, OtherLibraryHold
  <2> QED
    BY <1>6, <2>1, <2>2, <2>3, <2>4 DEF LibraryStep
<1> QED
  BY <1>2, <1>3, <1>4, <1>5, <1>6 DEF Next

LEMMA HoldInvariant ==
  ASSUME Balanced
  PROVE  Spec => []HoldInv
<1>1. HoldInv /\ [Next]_vars => HoldInv'
  BY StepHold
<1> QED
  BY <1>1, InitHold, PTL DEF Spec

LEMMA HoldAccounts == HoldInv => PauseAccounting
<1> SUFFICES ASSUME HoldInv, NEW d \in Deferreds
             PROVE  paused[d] = owed[d] + Cardinality(Continuations(d)) + Cardinality(Linking(d))
  BY DEF PauseAccounting
<1>1. Continuations(d) = Waits(chain, added, d)
  BY DEF Continuations, Waits
<1>2. Cardinality(Linking(d)) = LinkCount(stack, d)
  BY LinkingCount DEF Linking, HoldInv, TypeOK
<1> QED
  BY <1>1, <1>2 DEF HoldInv, Balance

\* A deferred is paused for as many reasons as can still resume it, whatever
\* is called from inside which callback, as long as the client resumes only
\* what it paused, and what it returns can be chained (336-364, 343, 361).
THEOREM PausesBalance ==
  ASSUME Balanced
  PROVE  Spec => []PauseAccounting
BY HoldInvariant, HoldAccounts, PTL

-----------------------------------------------------------------------------
(* No callback is left behind *)

\* An activation of [d _fire] is in its loop, or in a callback the loop called.
Act(s, d) == \E i \in 1..Len(s) : s[i].d = d /\ s[i].pc \in {"loop", "callback"}

TopActs(d) == Top.d = d /\ Top.pc \in {"loop", "callback"}

LEMMA ActPush ==
  ASSUME NEW s \in Seq(Frames), NEW f \in Frames, NEW d, Act(s, d)
  PROVE  Act(Append(s, f), d)
<1>1. PICK i \in 1..Len(s) : s[i].d = d /\ s[i].pc \in {"loop", "callback"}
  BY DEF Act
<1>2. i \in 1..Len(Append(s, f)) /\ Append(s, f)[i] = s[i]
  BY PushType
<1> QED
  BY <1>1, <1>2 DEF Act

LEMMA ActFire ==
  ASSUME NEW s \in Seq(Frames), NEW d \in Deferreds, NEW x \in Results
  PROVE  /\ Act(Fire(s, d, x), d)
         /\ \A e : Act(s, e) => Act(Fire(s, d, x), e)
<1> DEFINE f == [pc |-> "loop", d |-> d, result |-> x, linking |-> FALSE]
<1>1. f \in Frames /\ f.d = d /\ f.pc = "loop"
  BY DEF Frames
<1> HIDE DEF f
<1>2. Len(s) + 1 \in 1..Len(Append(s, f)) /\ Append(s, f)[Len(s) + 1] = f
  BY <1>1, PushType
<1>3. Act(Append(s, f), d)
  BY <1>1, <1>2 DEF Act
<1>4. \A e : Act(s, e) => Act(Append(s, f), e)
  BY <1>1, ActPush
<1> QED
  BY <1>3, <1>4 DEF Fire, f

LEMMA ActFireIfFired ==
  ASSUME TypeOK, NEW s \in Seq(Frames), NEW d \in Deferreds
  PROVE  /\ fired[d] # -1 => Act(FireIfFired(d, s), d)
         /\ \A e : Act(s, e) => Act(FireIfFired(d, s), e)
<1>1. result[d] \in Results /\ fired[d] \in {-1, 0, 1}
  BY DEF TypeOK, Outcomes
<1>2. /\ Act(Fire(s, d, result[d]), d)
      /\ \A e : Act(s, e) => Act(Fire(s, d, result[d]), e)
  BY <1>1, ActFire
<1> QED
  BY <1>1, <1>2 DEF FireIfFired

LEMMA ActResback ==
  ASSUME TypeOK, NEW s \in Seq(Frames), NEW d \in Deferreds, NEW x \in Results, NEW p,
         Resback(d, x, p, s)
  PROVE  /\ p = 0 => Act(stack', d)
         /\ \A e : Act(s, e) => Act(stack', e)
         /\ \A e \in Deferreds : e # d => fired'[e] = fired[e]
<1>1. /\ Act(Fire(s, d, x), d)
      /\ \A e : Act(s, e) => Act(Fire(s, d, x), e)
  BY ActFire
<1> QED
  BY <1>1 DEF Resback, TypeOK

LEMMA ActReplaced ==
  ASSUME TypeOK, Running, NEW g \in Frames, NEW e, Act(stack, e),
         TopActs(e) => g.d = e /\ g.pc \in {"loop", "callback"}
  PROVE  Act(Replaced(g), e)
<1>1. /\ Len(Replaced(g)) = Len(stack)
      /\ Replaced(g)[Len(stack)] = g
      /\ \A i \in 1..Len(stack) : i # Len(stack) => Replaced(g)[i] = stack[i]
  BY ReplacedIs
<1>2. PICK i \in 1..Len(stack) : stack[i].d = e /\ stack[i].pc \in {"loop", "callback"}
  BY DEF Act
<1>3. CASE i = Len(stack)
  BY <1>1, <1>2, <1>3 DEF TopActs, Top, Act
<1>4. CASE i # Len(stack)
  BY <1>1, <1>2, <1>4 DEF Act
<1> QED
  BY <1>3, <1>4

LEMMA ActBelow ==
  ASSUME TypeOK, Running, NEW e, Act(stack, e), ~TopActs(e)
  PROVE  Act(Below, e)
<1>1. stack \in Seq(Frames) /\ Len(stack) - 1 \in 0..Len(stack) /\ Len(stack) \in Nat
  BY TopType DEF TypeOK
<1>2. /\ Len(Below) = Len(stack) - 1
      /\ \A i \in 1..Len(stack) - 1 : Below[i] = stack[i]
  BY <1>1, CutType DEF Below
<1>3. PICK i \in 1..Len(stack) : stack[i].d = e /\ stack[i].pc \in {"loop", "callback"}
  BY DEF Act
<1>4. i # Len(stack)
  BY <1>3 DEF TopActs, Top
<1> QED
  BY <1>1, <1>2, <1>3, <1>4 DEF Act

StrandInv ==
  \A d \in Deferreds :
    (fired[d] # -1 /\ paused[d] = 0 /\ chain[d] # <<>>) => Act(stack, d)

\* What makes d's callbacks callable makes an activation of it; the rest of the
\* step ends none of a deferred whose callbacks are callable.
LEMMA StrandKept ==
  ASSUME StrandInv,
         \A e \in Deferreds :
           (fired'[e] # -1 /\ paused'[e] = 0 /\ chain'[e] # <<>>) =>
             \/ Act(stack', e)
             \/ /\ fired[e] # -1 /\ paused[e] = 0 /\ chain[e] # <<>>
                /\ Act(stack, e) => Act(stack', e)
  PROVE  StrandInv'
BY DEF StrandInv

LEMMA ClientCallsStrand ==
  ASSUME HoldInv, StrandInv, Balanced, ClientCalls
  PROVE  StrandInv'
<1>0. TypeOK /\ stack \in Seq(Frames)
  BY DEF HoldInv, TypeOK
<1>1. PICK d \in Deferreds :
        \/ \E x \in Inputs : Callback(d, x) \/ Errback(d, x) \/ RejectChained(d, x)
        \/ \E fn \in ClientSlots : AddCallbacks(d, fn)
        \/ SetFinalizer(d) \/ Pause(d) \/ Resume(d) \/ Cancel(d)
  BY DEF ClientCalls
<1>2. CASE \E x \in Inputs : Callback(d, x) \/ Errback(d, x) \/ RejectChained(d, x)
  <2>1. PICK x \in Inputs : Callback(d, x) \/ Errback(d, x)
    BY <1>2 DEF RejectChained, Balanced
  <2>2. PICK y \in Inputs \cup Results : Settle(d, y)
    BY <2>1, ResultAssumption DEF Callback, Errback, AsError, Results
  <2>3. Boxed(y) \in Results
    BY BoxedType DEF Boxed, Results
  <2>4. Resback(d, Boxed(y), paused[d], stack) /\ UNCHANGED <<chain, paused>>
    BY <2>2 DEF Settle
  <2>5. /\ paused[d] = 0 => Act(stack', d)
        /\ \A e : Act(stack, e) => Act(stack', e)
        /\ \A e \in Deferreds : e # d => fired'[e] = fired[e]
    BY <1>0, <2>3, <2>4, ActResback
  <2> QED
    BY <2>4, <2>5, StrandKept
<1>3. CASE \E fn \in ClientSlots : AddCallbacks(d, fn)
  <2>1. PICK fn \in ClientSlots : AddCallbacks(d, fn)
    BY <1>3
  <2>2. /\ chain' = Longer(chain, d, [id |-> added, fn |-> fn])
        /\ stack' = FireIfFired(d, stack) /\ UNCHANGED <<fired, paused>>
    BY <2>1 DEF AddCallbacks, Chain, Longer
  <2>3. \A e \in Deferreds : e # d => chain'[e] = chain[e]
    BY <1>0, <2>2 DEF Longer, TypeOK
  <2>4. /\ fired[d] # -1 => Act(stack', d)
        /\ \A e : Act(stack, e) => Act(stack', e)
    BY <1>0, <2>2, ActFireIfFired
  <2> QED
    BY <2>2, <2>3, <2>4, StrandKept
<1>4. CASE SetFinalizer(d)
  <2>1. stack' = FireIfFired(d, stack) /\ UNCHANGED <<chain, fired, paused>>
    BY <1>4 DEF SetFinalizer
  <2>2. \A e : Act(stack, e) => Act(stack', e)
    BY <1>0, <2>1, ActFireIfFired
  <2> QED
    BY <2>1, <2>2, StrandKept
<1>5. CASE Pause(d)
  <2>1. paused' = [paused EXCEPT ![d] = @ + 1] /\ UNCHANGED <<chain, fired, stack>>
    BY <1>5 DEF Pause
  <2>2. paused[d] \in Nat
    BY PausedNat
  <2>3. paused'[d] # 0 /\ \A e \in Deferreds : e # d => paused'[e] = paused[e]
    BY <1>0, <2>1, <2>2 DEF TypeOK
  <2> QED
    BY <2>1, <2>3, StrandKept
<1>6. CASE Resume(d)
  <2>1. /\ paused' = [paused EXCEPT ![d] = ResumedPause(@)]
        /\ stack' = IF ResumedPause(paused[d]) = 0 THEN FireIfFired(d, stack) ELSE stack
        /\ UNCHANGED <<chain, fired>>
    BY <1>6 DEF Resume
  <2>2. paused'[d] = ResumedPause(paused[d]) /\ \A e \in Deferreds : e # d => paused'[e] = paused[e]
    BY <1>0, <2>1 DEF TypeOK
  <2>3. /\ fired[d] # -1 => Act(FireIfFired(d, stack), d)
        /\ \A e : Act(stack, e) => Act(FireIfFired(d, stack), e)
    BY <1>0, ActFireIfFired
  <2>4. /\ paused'[d] = 0 /\ fired[d] # -1 => Act(stack', d)
        /\ \A e : Act(stack, e) => Act(stack', e)
    BY <2>1, <2>2, <2>3
  <2> QED
    BY <2>1, <2>2, <2>4, StrandKept
<1>7. CASE Cancel(d)
  <2> DEFINE f == [pc |-> "cancel", d |-> d, result |-> Null, linking |-> FALSE]
  <2>1. UNCHANGED <<chain, fired, paused>> /\ stack' = Append(stack, f)
    BY <1>7 DEF Cancel, fields
  <2>2. f \in Frames
    BY DEF Frames, Results
  <2> HIDE DEF f
  <2>3. \A e : Act(stack, e) => Act(stack', e)
    BY <1>0, <2>1, <2>2, ActPush
  <2> QED
    BY <2>1, <2>3, StrandKept
<1> QED
  BY <1>1, <1>2, <1>3, <1>4, <1>5, <1>6, <1>7

\* A step that changes the last frame only, and not from an activation to none.
LEMMA ReplacedStrand ==
  ASSUME HoldInv, StrandInv, Running, NEW g \in Frames, stack' = Replaced(g),
         Top.pc \in {"loop", "callback"} => g.d = Top.d /\ g.pc \in {"loop", "callback"},
         fired' = fired,
         \A e \in Deferreds : /\ paused'[e] = 0 => paused[e] = 0
                              /\ chain'[e] # <<>> => chain[e] # <<>>
  PROVE  StrandInv'
<1>1. \A e : Act(stack, e) => Act(stack', e)
  BY ActReplaced DEF HoldInv, TopActs
<1> QED
  BY <1>1, StrandKept

LEMMA BelowStrand ==
  ASSUME HoldInv, StrandInv, Running, Top.pc \notin {"loop", "callback"},
         UNCHANGED <<chain, paused>>,
         \/ stack' = Below /\ fired' = fired
         \/ \E d \in Deferreds, x \in Results : Resback(d, x, paused[d], Below)
  PROVE  StrandInv'
<1>1. \A e : Act(stack, e) => Act(Below, e)
  BY ActBelow DEF HoldInv, TopActs
<1>2. CASE stack' = Below /\ fired' = fired
  BY <1>1, <1>2, StrandKept
<1>3. ASSUME NEW d \in Deferreds, NEW x \in Results, Resback(d, x, paused[d], Below)
      PROVE  StrandInv'
  <2>1. Below \in Seq(Frames) /\ TypeOK
    BY ClearBelow DEF HoldInv
  <2>2. /\ paused[d] = 0 => Act(stack', d)
        /\ \A e : Act(Below, e) => Act(stack', e)
        /\ \A e \in Deferreds : e # d => fired'[e] = fired[e]
    BY <1>3, <2>1, ActResback
  <2> QED
    BY <1>1, <2>2, StrandKept
<1> QED
  BY <1>2, <1>3

LEMMA ReturnsStrand ==
  ASSUME HoldInv, StrandInv, Balanced, ClientReturns
  PROVE  StrandInv'
<1>0. Running /\ Top.pc \in ClientPCs
  BY DEF ClientReturns, Return, FinalizerReturns, CancellerReturns, TopIs, ClientPCs
<1>1. Top \in Frames /\ Top.d \in Deferreds /\ TypeOK
  BY <1>0, TopFrame
<1>2. ASSUME NEW x \in Inputs, Return(x)
      PROVE  StrandInv'
  <2> DEFINE g == [Top EXCEPT !.pc = "loop", !.result = Boxed(x),
                              !.linking = @ \/ IsKind(x, Top.d)]
  <2>1. stack' = Replaced(g) /\ fired' = fired /\ chain' = chain
    BY <1>2 DEF Return
  <2>2. g \in Frames /\ g.d = Top.d /\ g.pc = "loop"
    BY <1>1, BoxedType DEF Frames, IsKind
  <2> HIDE DEF g
  <2>3. \A e \in Deferreds : paused'[e] = 0 => paused[e] = 0
    <3>1. paused' = IF IsKind(x, Top.d) THEN [paused EXCEPT ![Top.d] = @ + 1] ELSE paused
      BY <1>2 DEF Return
    <3>2. paused[Top.d] \in Nat
      BY <1>1, PausedNat
    <3> QED
      BY <1>1, <3>1, <3>2 DEF TypeOK
  <2> QED
    BY <1>0, <2>1, <2>2, <2>3, ReplacedStrand
<1>3. CASE FinalizerReturns
  <2> DEFINE g == [Top EXCEPT !.pc = "link"]
  <2>1. stack' = Replaced(g) /\ UNCHANGED <<fired, chain, paused>> /\ Top.pc = "finalizer"
    BY <1>3 DEF FinalizerReturns, fields, TopIs
  <2>2. g \in Frames
    BY <1>1 DEF Frames
  <2> HIDE DEF g
  <2> QED
    BY <1>0, <2>1, <2>2, ReplacedStrand
<1>4. CASE CancellerReturns
  <2>1. Top.pc = "canceller" /\ UNCHANGED <<chain, paused>>
    BY <1>4 DEF CancellerReturns, TopIs
  <2>2. CanceledError \in Results
    BY ResultAssumption DEF Results
  <2>3. \/ stack' = Below /\ fired' = fired
        \/ Resback(Top.d, CanceledError, paused[Top.d], Below)
    BY <1>4 DEF CancellerReturns, CancelErrback
  <2> QED
    BY <1>0, <1>1, <2>1, <2>2, <2>3, BelowStrand
<1> QED
  BY <1>2, <1>3, <1>4 DEF ClientReturns

LEMMA ContinueStrand ==
  ASSUME HoldInv, TypeOK', StrandInv, NEW d \in Deferreds, NEW o \in Deferreds, ContinueChain(d, o)
  PROVE  StrandInv'
<1> DEFINE g == [Top EXCEPT !.result = Boxed("nil")]
<1>0. Running /\ Top.d = d /\ Top.pc = "loop" /\ chain[d] # <<>>
  BY DEF ContinueChain, TakePair, TopIs, Continues
<1>1. Top \in Frames /\ Top.result \in Results /\ TypeOK
  BY <1>0, TopFrame
<1>2. g \in Frames /\ g.d = d /\ g.pc = "loop"
  BY <1>0, <1>1, BoxedType DEF Frames
<1>3. Resback(o, Top.result, paused'[o], Replaced(g))
  BY DEF ContinueChain
<1> HIDE DEF g
<1>4. Replaced(g) \in Seq(Frames)
  BY <1>0, <1>1, <1>2, ReplacedIs
<1>5. \A e : Act(stack, e) => Act(Replaced(g), e)
  BY <1>0, <1>1, <1>2, ActReplaced DEF TopActs
<1>6. /\ paused'[o] = 0 => Act(stack', o)
      /\ \A e : Act(Replaced(g), e) => Act(stack', e)
      /\ \A e \in Deferreds : e # o => fired'[e] = fired[e]
  BY <1>1, <1>3, <1>4, ActResback
<1>7. \A e \in Deferreds : e # o => paused'[e] = paused[e]
  BY <1>1 DEF ContinueChain, TypeOK
<1>8. \A e \in Deferreds : chain'[e] # <<>> => chain[e] # <<>>
  BY <1>0, <1>1 DEF ContinueChain, TakePair, TypeOK
<1> QED
  BY <1>5, <1>6, <1>7, <1>8, StrandKept

LEMMA LibraryStrand ==
  ASSUME HoldInv, TypeOK', StrandInv, NEW d \in Deferreds, LibraryStep(d)
  PROVE  StrandInv'
<1>0. Running /\ Top.d = d
  BY DEF LibraryStep, TakeStep, Skip, CallClient, ContinueChain, TakePair, Exit, Link,
         FireReturns, SetChained, CancelUnfired, CancelFired, TopIs
<1>1. Top \in Frames /\ TypeOK /\ stack \in Seq(Frames)
  BY <1>0, TopFrame
<1>2. CASE Skip(d) \/ CallClient(d)
  <2>1. /\ chain[d] # <<>> /\ chain' = [chain EXCEPT ![d] = Tail(@)]
        /\ UNCHANGED <<fired, paused>> /\ Top.pc = "loop"
    BY <1>2 DEF Skip, CallClient, TakePair, TopIs, Continues
  <2>2. \A e \in Deferreds : chain'[e] # <<>> => chain[e] # <<>>
    BY <1>1, <2>1 DEF TypeOK
  <2>3. CASE Skip(d)
    <3>1. stack' = stack
      BY <2>3 DEF Skip
    <3> QED
      BY <2>1, <2>2, <3>1, StrandKept
  <2>4. CASE CallClient(d)
    <3> DEFINE g == [Top EXCEPT !.pc = "callback"]
    <3>1. stack' = Replaced(g)
      BY <2>4 DEF CallClient
    <3>2. g \in Frames /\ g.d = Top.d /\ g.pc = "callback"
      BY <1>1 DEF Frames, ClientPCs
    <3> HIDE DEF g
    <3> QED
      BY <1>0, <2>1, <2>2, <3>1, <3>2, ReplacedStrand
  <2> QED
    BY <1>2, <2>3, <2>4
<1>3. CASE \E o \in Deferreds : ContinueChain(d, o)
  BY <1>3, ContinueStrand
<1>4. CASE Exit(d)
  <2> DEFINE g == [Top EXCEPT !.pc = IF Finalizes(d) THEN "finalizer" ELSE "link"]
  <2>1. /\ stack' = Replaced(g) /\ UNCHANGED <<chain, paused>>
        /\ fired' = [fired EXCEPT ![d] = Outcome(Top.result)]
        /\ ~(chain[d] # <<>> /\ paused[d] = 0)
    BY <1>4 DEF Exit, Continues, Store
  <2>2. g \in Frames
    BY <1>1 DEF Frames, ClientPCs
  <2> HIDE DEF g
  <2>3. \A e \in Deferreds : e # d => fired'[e] = fired[e] /\ (Act(stack, e) => Act(stack', e))
    BY <1>0, <1>1, <2>1, <2>2, ActReplaced DEF TopActs, TypeOK
  <2> QED
    BY <2>1, <2>3, StrandKept
<1>5. CASE Link(d)
  <2> DEFINE g == [Top EXCEPT !.pc = "chain", !.linking = FALSE]
             x == Top.result
  <2>1. /\ x \in Deferreds /\ chain' = Longer(chain, x, [id |-> added, fn |-> Continuation(d)])
        /\ stack' = FireIfFired(x, Replaced(g))
    BY <1>5, LinkHold
  <2>2. Top.pc = "link" /\ UNCHANGED <<fired, paused>>
    BY <1>5 DEF Link, TopIs
  <2>3. g \in Frames
    BY <1>1 DEF Frames
  <2> HIDE DEF g, x
  <2>4. Replaced(g) \in Seq(Frames)
    BY <1>0, <1>1, <2>3, ReplacedIs
  <2>5. \A e : Act(stack, e) => Act(Replaced(g), e)
    BY <1>0, <1>1, <2>2, <2>3, ActReplaced DEF TopActs
  <2>6. /\ fired[x] # -1 => Act(stack', x)
        /\ \A e : Act(Replaced(g), e) => Act(stack', e)
    BY <1>1, <2>1, <2>4, ActFireIfFired
  <2>7. \A e \in Deferreds : e # x => chain'[e] = chain[e]
    BY <1>1, <2>1 DEF Longer, TypeOK
  <2> QED
    BY <2>1, <2>2, <2>5, <2>6, <2>7, StrandKept
<1>6. CASE FireReturns(d) \/ SetChained(d)
  <2>1. /\ stack' = Below /\ UNCHANGED <<chain, paused, fired>>
        /\ Top.pc \notin {"loop", "callback"}
    BY <1>6 DEF FireReturns, SetChained, TopIs, fields
  <2> QED
    BY <1>0, <2>1, BelowStrand
<1>7. CASE CancelUnfired(d)
  <2>1. Top.pc = "cancel" /\ UNCHANGED <<chain, paused>> /\ CanceledError \in Results
    BY <1>7, ResultAssumption DEF CancelUnfired, TopIs, Results
  <2>2. CASE d \in HasCanceller
    <3> DEFINE g == [Top EXCEPT !.pc = "canceller"]
    <3>1. stack' = Replaced(g) /\ fired' = fired
      BY <1>7, <2>2 DEF CancelUnfired
    <3>2. g \in Frames
      BY <1>1 DEF Frames, ClientPCs
    <3> HIDE DEF g
    <3> QED
      BY <1>0, <2>1, <3>1, <3>2, ReplacedStrand
  <2>3. CASE d \notin HasCanceller
    <3>1. Resback(d, CanceledError, paused[d], Below)
      BY <1>7, <2>3 DEF CancelUnfired, CancelErrback
    <3> QED
      BY <1>0, <2>1, <3>1, BelowStrand
  <2> QED
    BY <2>2, <2>3
<1>8. CASE CancelFired(d)
  <2>1. Top.pc = "cancel" /\ UNCHANGED <<chain, paused, fired>>
    BY <1>8 DEF CancelFired, TopIs, fields
  <2>2. CASE stack' = Below
    BY <1>0, <2>1, <2>2, BelowStrand
  <2>3. CASE stack' # Below
    <3> DEFINE g == [Top EXCEPT !.d = result[d]]
    <3>1. stack' = Replaced(g) /\ IsKind(result[d], d)
      BY <1>0, <1>8, <2>3 DEF CancelFired
    <3>2. g \in Frames
      BY <1>1, <3>1 DEF Frames, IsKind
    <3> HIDE DEF g
    <3> QED
      BY <1>0, <2>1, <3>1, <3>2, ReplacedStrand
  <2> QED
    BY <2>2, <2>3
<1> QED
  BY <1>2, <1>3, <1>4, <1>5, <1>6, <1>7, <1>8 DEF LibraryStep, TakeStep

LEMMA StepStrand ==
  ASSUME HoldInv, StrandInv, Balanced, [Next]_vars
  PROVE  StrandInv'
<1>1. TypeOK'
  BY StepType DEF HoldInv
<1>2. CASE UNCHANGED vars
  BY <1>2 DEF vars, fields, history, StrandInv
<1>3. CASE ClientCalls
  BY <1>3, ClientCallsStrand
<1>4. CASE ClientReturns
  BY <1>4, ReturnsStrand
<1>5. CASE Raise
  BY <1>5 DEF Raise, Balanced
<1>6. CASE \E d \in Deferreds : LibraryStep(d)
  BY <1>1, <1>6, LibraryStrand
<1> QED
  BY <1>2, <1>3, <1>4, <1>5, <1>6 DEF Next

\* A deferred that has fired and is not paused leaves a callback in its chain
\* only while an activation of its _fire is there to call it: whoever adds a
\* callback or gives back the last pause fires, also from inside a callback,
\* and a loop that ends has emptied the chain or met a pause (224, 316, 336-364).
THEOREM NothingIsStranded ==
  ASSUME Balanced
  PROVE  Spec => []NoneStranded
<1>1. Init => StrandInv
  BY DEF Init, StrandInv
<1>2. HoldInv /\ StrandInv /\ [Next]_vars => StrandInv'
  BY StepStrand
<1>3. StrandInv => NoneStranded
  BY DEF StrandInv, NoneStranded, Act
<1> QED
  BY <1>1, <1>2, <1>3, HoldInvariant, PTL DEF Spec

-----------------------------------------------------------------------------
(* The newest result, with a client that leaves a deferred alone inside its *)
(* own callbacks                                                            *)

\* A frame holds a result of its own, or is about to await another deferred.
BusyAt(s, i) == s[i].pc \in {"loop", "callback"} \/ s[i].linking

\* No deferred is busy twice.
One(s) ==
  \A i, j \in 1..Len(s) : (BusyAt(s, i) /\ BusyAt(s, j) /\ s[i].d = s[j].d) => i = j

\* No deferred that is busy below the last frame, or in client code, has a
\* continuation in a chain: nobody but itself will fire it.
Unawaited(s, c, n) ==
  \A i \in 1..Len(s) :
    (BusyAt(s, i) /\ (i < Len(s) \/ s[i].pc = "callback")) => Waits(c, n, s[i].d) = {}

AllUnawaited(s, c, n) == \A i \in 1..Len(s) : BusyAt(s, i) => Waits(c, n, s[i].d) = {}

\* What is about to be awaited is not being fired itself.
LinkFree(s) ==
  \A i, k \in 1..Len(s) :
    (s[i].linking /\ s[k].d = s[i].result) => s[k].pc \in {"cancel", "canceller"}

HoldsNewest(s, l) ==
  \A i \in 1..Len(s) : s[i].pc \in {"loop", "callback"} => s[i].result = l[s[i].d]

Good(s, c, n, l) == One(s) /\ Unawaited(s, c, n) /\ LinkFree(s) /\ HoldsNewest(s, l)

\* A stack that another activation can be put on.
Base(s, c, n, l) == Clear(s) /\ One(s) /\ AllUnawaited(s, c, n) /\ HoldsNewest(s, l)

StoredNewest(s, r, l) == \A d \in Deferreds : ~Act(s, d) => r[d] = l[d]

FreshInv ==
  /\ Good(stack, chain, added, latest)
  /\ StoredNewest(stack, result, latest)

LEMMA BaseIsGood ==
  ASSUME NEW s, NEW c, NEW n, NEW l, Base(s, c, n, l)
  PROVE  Good(s, c, n, l)
BY DEF Base, Good, AllUnawaited, Unawaited, Clear, LinkFree

LEMMA BaseFire ==
  ASSUME NEW s \in Seq(Frames), NEW c, NEW n, NEW l, Base(s, c, n, l),
         NEW d \in Deferreds, NEW x \in Results, ~Act(s, d), x = l[d]
  PROVE  Good(Fire(s, d, x), c, n, l)
<1> DEFINE f == [pc |-> "loop", d |-> d, result |-> x, linking |-> FALSE]
           t == Append(s, f)
<1>1. f \in Frames /\ f.d = d /\ f.pc = "loop" /\ f.result = x /\ ~f.linking
  BY DEF Frames
<1> HIDE DEF f
<1>2. /\ Len(t) = Len(s) + 1 /\ t[Len(s) + 1] = f /\ Len(s) \in Nat
      /\ \A i \in 1..Len(s) : t[i] = s[i]
  BY <1>1, PushType
<1> HIDE DEF t
<1>3. \A i \in 1..Len(t) : (i \in 1..Len(s) /\ t[i] = s[i]) \/ (i = Len(s) + 1 /\ t[i] = f)
  BY <1>2
<1>4. \A i \in 1..Len(s) : BusyAt(s, i) => s[i].d # d
  BY DEF Base, Clear, BusyAt, Act
<1>5. One(t)
  <2> SUFFICES ASSUME NEW i \in 1..Len(t), NEW j \in 1..Len(t), BusyAt(t, i), BusyAt(t, j),
                      t[i].d = t[j].d
               PROVE  i = j
    BY DEF One
  <2>1. CASE i \in 1..Len(s) /\ t[i] = s[i] /\ j \in 1..Len(s) /\ t[j] = s[j]
    BY <2>1 DEF Base, One, BusyAt
  <2>2. CASE i \in 1..Len(s) /\ t[i] = s[i] /\ j = Len(s) + 1 /\ t[j] = f
    BY <2>2, <1>1, <1>4 DEF BusyAt
  <2>3. CASE i = Len(s) + 1 /\ t[i] = f /\ j \in 1..Len(s) /\ t[j] = s[j]
    BY <2>3, <1>1, <1>4 DEF BusyAt
  <2> QED
    BY <2>1, <2>2, <2>3, <1>3
<1>6. Unawaited(t, c, n)
  <2> SUFFICES ASSUME NEW i \in 1..Len(t), BusyAt(t, i), i < Len(t) \/ t[i].pc = "callback"
               PROVE  Waits(c, n, t[i].d) = {}
    BY DEF Unawaited
  <2>1. i \in 1..Len(s) /\ t[i] = s[i]
    BY <1>1, <1>2, <1>3
  <2> QED
    BY <2>1 DEF Base, AllUnawaited, BusyAt
<1>7. LinkFree(t)
  BY <1>1, <1>3 DEF LinkFree, Base, Clear
<1>8. HoldsNewest(t, l)
  BY <1>1, <1>3 DEF HoldsNewest, Base
<1> QED
  BY <1>5, <1>6, <1>7, <1>8 DEF Good, Fire, f, t

\* Frames of cancel hold no result.
LEMMA BasePush ==
  ASSUME NEW s \in Seq(Frames), NEW c, NEW n, NEW l, Base(s, c, n, l),
         NEW f \in Frames, f.pc \notin {"loop", "callback"}, ~f.linking
  PROVE  /\ Base(Append(s, f), c, n, l)
         /\ \A e : Act(s, e) => Act(Append(s, f), e)
<1> DEFINE t == Append(s, f)
<1>1. /\ Len(t) = Len(s) + 1 /\ t[Len(s) + 1] = f /\ Len(s) \in Nat
      /\ \A i \in 1..Len(s) : t[i] = s[i]
  BY PushType
<1>2. \A e : Act(s, e) => Act(t, e)
  BY ActPush
<1> HIDE DEF t
<1>3. \A i \in 1..Len(t) : (i \in 1..Len(s) /\ t[i] = s[i]) \/ (i = Len(s) + 1 /\ t[i] = f)
  BY <1>1
<1>4. \A i \in 1..Len(t) : BusyAt(t, i) => i \in 1..Len(s) /\ t[i] = s[i] /\ BusyAt(s, i)
  BY <1>3 DEF BusyAt
<1>5. Clear(t) /\ HoldsNewest(t, l)
  BY <1>3 DEF Clear, HoldsNewest, Base
<1>6. One(t) /\ AllUnawaited(t, c, n)
  BY <1>4 DEF One, AllUnawaited, Base
<1> QED
  BY <1>2, <1>5, <1>6 DEF Base, t

\* Waiting less, and giving what is not active a newer result, change nothing.
LEMMA BaseLater ==
  ASSUME NEW s \in Seq(Frames), NEW c, NEW n, NEW l, Base(s, c, n, l),
         NEW b, NEW m, NEW k,
         \A d \in Deferreds : Waits(c, n, d) = {} => Waits(b, m, d) = {},
         \A d \in Deferreds : Act(s, d) => k[d] = l[d]
  PROVE  Base(s, b, m, k)
<1>1. \A i \in 1..Len(s) : s[i].d \in Deferreds
  <2>1. \A i \in 1..Len(s) : s[i] \in Frames
    OBVIOUS
  <2> QED
    BY <2>1 DEF Frames
<1>2. AllUnawaited(s, b, m)
  BY <1>1 DEF Base, AllUnawaited
<1>3. \A i \in 1..Len(s) : s[i].pc \in {"loop", "callback"} => Act(s, s[i].d)
  BY DEF Act
<1>4. HoldsNewest(s, k)
  BY <1>1, <1>3 DEF Base, HoldsNewest
<1> QED
  BY <1>2, <1>4 DEF Base

LEMMA BaseClient ==
  ASSUME HoldInv, FreshInv, Running => Top.pc \in ClientPCs
  PROVE  Base(stack, chain, added, latest)
<1>1. Clear(stack)
  BY ClientClear
<1>2. AllUnawaited(stack, chain, added)
  <2> SUFFICES ASSUME NEW i \in 1..Len(stack), BusyAt(stack, i)
               PROVE  Waits(chain, added, stack[i].d) = {}
    BY DEF AllUnawaited
  <2>1. stack \in Seq(Frames)
    BY DEF HoldInv, TypeOK
  <2>2. i < Len(stack) \/ i = Len(stack)
    BY <2>1
  <2>3. ASSUME i = Len(stack)
        PROVE  stack[i].pc = "callback"
    <3>1. Running /\ stack[i] = Top
      BY <2>1, <2>3 DEF Running, Top
    <3>2. stack[i].pc \in ClientPCs /\ ~stack[i].linking
      BY <1>1, <3>1 DEF Clear
    <3> QED
      BY <3>2 DEF BusyAt, ClientPCs
  <2> QED
    BY <2>2, <2>3 DEF FreshInv, Good, Unawaited
<1> QED
  BY <1>1, <1>2 DEF Base, FreshInv, Good

LEMMA BaseBelow ==
  ASSUME HoldInv, FreshInv, Running
  PROVE  Base(Below, chain, added, latest) /\ Below \in Seq(Frames)
<1>1. stack \in Seq(Frames) /\ Len(stack) - 1 \in 0..Len(stack) /\ Len(stack) \in Nat
  BY TopType DEF HoldInv, TypeOK
<1>2. /\ Len(Below) = Len(stack) - 1
      /\ \A i \in 1..Len(stack) - 1 : Below[i] = stack[i]
  BY <1>1, CutType DEF Below
<1>3. Clear(Below) /\ Below \in Seq(Frames)
  BY ClearBelow
<1>4. \A i \in 1..Len(Below) :
        i \in 1..Len(stack) /\ i < Len(stack) /\ Below[i] = stack[i]
        /\ (BusyAt(Below, i) <=> BusyAt(stack, i))
  BY <1>1, <1>2 DEF BusyAt
<1>5. One(Below)
  BY <1>4 DEF One, FreshInv, Good
<1>6. AllUnawaited(Below, chain, added)
  BY <1>4 DEF AllUnawaited, FreshInv, Good, Unawaited
<1>7. HoldsNewest(Below, latest)
  BY <1>4 DEF HoldsNewest, FreshInv, Good
<1> QED
  BY <1>3, <1>5, <1>6, <1>7 DEF Base

\* The frame that runs turns into one that holds no result.
LEMMA BaseReplaced ==
  ASSUME HoldInv, FreshInv, Running, NEW g \in Frames, ~g.linking,
         g.pc \notin {"loop", "callback"}
  PROVE  Base(Replaced(g), chain, added, latest) /\ Replaced(g) \in Seq(Frames)
<1>1. /\ Replaced(g) \in Seq(Frames)
      /\ Len(Replaced(g)) = Len(stack)
      /\ Replaced(g)[Len(stack)] = g
      /\ \A i \in 1..Len(stack) : i # Len(stack) => Replaced(g)[i] = stack[i]
  BY ReplacedIs DEF HoldInv
<1>2. Clear(Replaced(g))
  BY ClearReplaced
<1>3. \A i \in 1..Len(Replaced(g)) : BusyAt(Replaced(g), i) =>
        /\ i \in 1..Len(stack) /\ i < Len(stack)
        /\ Replaced(g)[i] = stack[i] /\ BusyAt(stack, i)
  <2>1. Len(stack) \in Nat
    BY <1>1
  <2> QED
    BY <1>1, <2>1 DEF BusyAt
<1>4. One(Replaced(g))
  BY <1>3 DEF One, FreshInv, Good
<1>5. AllUnawaited(Replaced(g), chain, added)
  BY <1>3 DEF AllUnawaited, FreshInv, Good, Unawaited
<1>6. HoldsNewest(Replaced(g), latest)
  BY <1>3 DEF HoldsNewest, FreshInv, Good, BusyAt
<1> QED
  BY <1>1, <1>2, <1>4, <1>5, <1>6 DEF Base

LEMMA ResbackFresh ==
  ASSUME TypeOK, NEW s \in Seq(Frames), NEW d \in Deferreds, NEW x \in Results, NEW p,
         Resback(d, x, p, s), Base(s, chain', added', latest'), ~Act(s, d), latest'[d] = x,
         \A e \in Deferreds : (e # d /\ ~Act(s, e)) => result[e] = latest'[e]
  PROVE  FreshInv'
<1>1. Good(Fire(s, d, x), chain', added', latest')
  BY BaseFire
<1>2. Good(s, chain', added', latest')
  BY BaseIsGood
<1>3. Good(stack', chain', added', latest')
  BY <1>1, <1>2 DEF Resback
<1>4. \A e : Act(s, e) => Act(stack', e)
  BY ActResback
<1>5. result' = [result EXCEPT ![d] = x] /\ result \in [Deferreds -> Results]
  BY DEF Resback, TypeOK
<1>6. StoredNewest(stack', result', latest')
  BY <1>4, <1>5 DEF StoredNewest
<1> QED
  BY <1>3, <1>6 DEF FreshInv

LEMMA FireIfFiredFresh ==
  ASSUME TypeOK, NEW s \in Seq(Frames), NEW d \in Deferreds, stack' = FireIfFired(d, s),
         Base(s, chain', added', latest'), ~Act(s, d), result' = result,
         \A e \in Deferreds : ~Act(s, e) => result[e] = latest'[e]
  PROVE  FreshInv'
<1>0. result[d] \in Results /\ result[d] = latest'[d]
  BY DEF TypeOK
<1>1. Good(Fire(s, d, result[d]), chain', added', latest')
  BY <1>0, BaseFire
<1>2. Good(s, chain', added', latest')
  BY BaseIsGood
<1>3. Good(stack', chain', added', latest')
  BY <1>1, <1>2 DEF FireIfFired
<1>4. \A e : Act(s, e) => Act(stack', e)
  BY ActFireIfFired
<1>5. StoredNewest(stack', result', latest')
  BY <1>4 DEF StoredNewest
<1> QED
  BY <1>3, <1>5 DEF FreshInv

\* A step onto a stack nothing is busy or linking on top of.
LEMMA BaseFresh ==
  ASSUME FreshInv, Base(stack', chain', added', latest'), UNCHANGED <<result, latest>>,
         \A e : Act(stack, e) => Act(stack', e)
  PROVE  FreshInv'
<1>1. Good(stack', chain', added', latest')
  BY BaseIsGood
<1>2. StoredNewest(stack', result', latest')
  BY DEF FreshInv, StoredNewest
<1> QED
  BY <1>1, <1>2 DEF FreshInv

Orderly == Liberties = {}

LEMMA TouchIdle ==
  ASSUME Orderly, NEW d, MayTouch(d)
  PROVE  ~Act(stack, d)
BY DEF Orderly, MayTouch, Firing, Act

LEMMA ClientCallsFresh ==
  ASSUME HoldInv, FreshInv, Orderly, ClientCalls
  PROVE  FreshInv'
<1>1. PICK d \in Deferreds :
        \/ \E x \in Inputs : Callback(d, x) \/ Errback(d, x) \/ RejectChained(d, x)
        \/ \E fn \in ClientSlots : AddCallbacks(d, fn)
        \/ SetFinalizer(d) \/ Pause(d) \/ Resume(d) \/ Cancel(d)
  BY DEF ClientCalls
<1>2. Running => Top.pc \in ClientPCs
  BY <1>1 DEF Callback, Errback, Settle, RejectChained, AddCallbacks, SetFinalizer, Pause,
              Resume, Cancel, ClientRuns
<1>3. Base(stack, chain, added, latest)
  BY <1>2, BaseClient
<1>4. TypeOK /\ stack \in Seq(Frames)
  BY DEF HoldInv, TypeOK
<1>5. \A e \in Deferreds : ~Act(stack, e) => result[e] = latest[e]
  BY DEF FreshInv, StoredNewest
<1>6. CASE \E x \in Inputs : Callback(d, x) \/ Errback(d, x) \/ RejectChained(d, x)
  <2>1. PICK x \in Inputs : Callback(d, x) \/ Errback(d, x)
    BY <1>6 DEF RejectChained, Orderly
  <2>2. PICK y \in Inputs \cup Results : Settle(d, y)
    BY <2>1, ResultAssumption DEF Callback, Errback, AsError, Results
  <2>3. Boxed(y) \in Results
    BY BoxedType DEF Boxed, Results
  <2>4. /\ Resback(d, Boxed(y), paused[d], stack) /\ UNCHANGED <<chain, added>>
        /\ latest' = [latest EXCEPT ![d] = Boxed(y)] /\ MayTouch(d)
    BY <2>2 DEF Settle
  <2>5. ~Act(stack, d)
    BY <2>4, TouchIdle
  <2>6. /\ latest'[d] = Boxed(y)
        /\ \A e \in Deferreds : e # d => latest'[e] = latest[e]
    BY <1>4, <2>4 DEF TypeOK
  <2>7. Base(stack, chain', added', latest')
    <3>1. \A e \in Deferreds : Act(stack, e) => latest'[e] = latest[e]
      BY <2>5, <2>6
    <3>2. \A e \in Deferreds : Waits(chain, added, e) = {} => Waits(chain', added', e) = {}
      BY <2>4
    <3> QED
      BY <1>3, <1>4, <3>1, <3>2, BaseLater
  <2>8. \A e \in Deferreds : (e # d /\ ~Act(stack, e)) => result[e] = latest'[e]
    BY <1>5, <2>6
  <2> QED
    BY <1>4, <2>3, <2>4, <2>5, <2>6, <2>7, <2>8, ResbackFresh
<1>7. CASE \E fn \in ClientSlots : AddCallbacks(d, fn)
  <2>1. PICK fn \in ClientSlots : AddCallbacks(d, fn)
    BY <1>7
  <2>2. /\ chain' = Longer(chain, d, [id |-> added, fn |-> fn]) /\ added' = added + 1
        /\ stack' = FireIfFired(d, stack) /\ UNCHANGED <<result, latest>> /\ MayTouch(d)
    BY <2>1 DEF AddCallbacks, Chain, Longer
  <2>3. fn \in [{0, 1} -> Slots] /\ fn[0] \notin Deferreds /\ fn[1] \notin Deferreds
    BY ResultAssumption DEF ClientSlots, Slots, Results
  <2>4. chain \in Chains /\ added \in Nat
    BY <1>4, HoldFacts
  <2>5. \A e \in Deferreds :
          Waits(chain', added', e) = Waits(chain, added, e) \cup {m \in {added} : fn[0] = e}
    BY <2>2, <2>3, <2>4, AppendKeeps DEF HoldInv
  <2>6. \A e \in Deferreds : Waits(chain, added, e) = {} => Waits(chain', added', e) = {}
    BY <2>3, <2>5
  <2>7. Base(stack, chain', added', latest')
    BY <1>3, <1>4, <2>2, <2>6, BaseLater
  <2>8. ~Act(stack, d)
    BY <2>2, TouchIdle
  <2> QED
    BY <1>4, <1>5, <2>2, <2>7, <2>8, FireIfFiredFresh
<1>8. CASE SetFinalizer(d) \/ Resume(d)
  <2>1. /\ stack' = FireIfFired(d, stack) \/ stack' = stack
        /\ UNCHANGED <<chain, added, result, latest>> /\ MayTouch(d)
    BY <1>8 DEF SetFinalizer, Resume, history
  <2>2. ~Act(stack, d)
    BY <2>1, TouchIdle
  <2>3. CASE stack' = FireIfFired(d, stack)
    BY <1>3, <1>4, <1>5, <2>1, <2>2, <2>3, FireIfFiredFresh
  <2>4. CASE stack' = stack
    BY <1>3, <2>1, <2>4, BaseFresh
  <2> QED
    BY <2>1, <2>3, <2>4
<1>9. CASE Pause(d)
  <2>1. UNCHANGED <<chain, added, result, latest, stack>>
    BY <1>9 DEF Pause
  <2> QED
    BY <1>3, <2>1, BaseFresh
<1>10. CASE Cancel(d)
  <2> DEFINE f == [pc |-> "cancel", d |-> d, result |-> Null, linking |-> FALSE]
  <2>1. UNCHANGED <<chain, added, result, latest>> /\ stack' = Append(stack, f)
    BY <1>10 DEF Cancel, fields, history
  <2>2. f \in Frames /\ f.pc = "cancel" /\ ~f.linking
    BY DEF Frames, Results
  <2> HIDE DEF f
  <2>3. /\ Base(stack', chain, added, latest)
        /\ \A e : Act(stack, e) => Act(stack', e)
    BY <1>3, <1>4, <2>1, <2>2, BasePush
  <2> QED
    BY <2>1, <2>3, BaseFresh
<1> QED
  BY <1>1, <1>6, <1>7, <1>8, <1>9, <1>10

\* An activation goes on: its frame alone changes, and what it leaves behind is
\* the newest result of its deferred.
LEMMA SwapFresh ==
  ASSUME HoldInv, FreshInv, Running, NEW g \in Frames, g.d = Top.d,
         Top.pc \in {"loop", "callback"} \/ Top.linking,
         stack' = Replaced(g),
         \A e \in Deferreds : Waits(chain, added, e) = {} => Waits(chain', added', e) = {},
         g.pc = "callback" => Waits(chain', added', g.d) = {},
         g.linking => \A k \in 1..Len(stack) :
           stack[k].d = g.result => k # Len(stack) /\ stack[k].pc \in {"cancel", "canceller"},
         g.pc \in {"loop", "callback"} => g.result = latest'[g.d],
         g.pc \notin {"loop", "callback"} => result'[g.d] = latest'[g.d],
         \A e \in Deferreds : e # g.d => latest'[e] = latest[e] /\ result'[e] = result[e]
  PROVE  FreshInv'
<1>1. /\ Replaced(g) \in Seq(Frames)
      /\ Len(Replaced(g)) = Len(stack)
      /\ Len(stack) \in 1..Len(stack)
      /\ Replaced(g)[Len(stack)] = g
      /\ \A i \in 1..Len(stack) : i # Len(stack) => Replaced(g)[i] = stack[i]
  BY ReplacedIs DEF HoldInv
<1> DEFINE t == Replaced(g)
           n == Len(stack)
<1>2. /\ t \in Seq(Frames) /\ Len(t) = n /\ n \in 1..n /\ n \in Nat /\ t[n] = g
      /\ \A i \in 1..n : i # n => t[i] = stack[i] /\ i < n
      /\ stack' = t
  BY <1>1
<1>3. stack[n] = Top /\ BusyAt(stack, n)
  BY DEF Top, BusyAt
<1>4. Running /\ \A i \in 1..n : i # n => ~stack[i].linking
  BY DEF HoldInv, LinkTop
<1>5. \A i \in 1..n : stack[i].d \in Deferreds
  <2>1. \A i \in 1..n : stack[i] \in Frames
    BY DEF HoldInv, TypeOK
  <2> QED
    BY <2>1 DEF Frames
<1>6. g.d \in Deferreds
  BY DEF Frames
<1> HIDE DEF t, n
<1>7. \A i \in 1..n : (i # n /\ BusyAt(stack, i)) => stack[i].d # g.d
  BY <1>2, <1>3 DEF FreshInv, Good, One, n
<1>8. One(t)
  <2> SUFFICES ASSUME NEW i \in 1..n, NEW j \in 1..n, BusyAt(t, i), BusyAt(t, j), t[i].d = t[j].d
               PROVE  i = j
    BY <1>2 DEF One
  <2>1. CASE i # n /\ j # n
    BY <2>1, <1>2 DEF FreshInv, Good, One, BusyAt, n
  <2>2. CASE i # n /\ j = n
    BY <2>2, <1>2, <1>7 DEF BusyAt
  <2>3. CASE i = n /\ j # n
    BY <2>3, <1>2, <1>7 DEF BusyAt
  <2> QED
    BY <2>1, <2>2, <2>3
<1>9. Unawaited(t, chain', added')
  <2> SUFFICES ASSUME NEW i \in 1..n, BusyAt(t, i), i < n \/ t[i].pc = "callback"
               PROVE  Waits(chain', added', t[i].d) = {}
    BY <1>2 DEF Unawaited
  <2>1. CASE i = n
    BY <2>1, <1>2
  <2>2. CASE i # n
    <3>1. t[i] = stack[i] /\ BusyAt(stack, i) /\ i < Len(stack) /\ i \in 1..Len(stack)
      BY <2>2, <1>2 DEF BusyAt, n
    <3>2. Waits(chain, added, stack[i].d) = {}
      BY <3>1 DEF FreshInv, Good, Unawaited
    <3> QED
      BY <3>1, <3>2, <1>5
  <2> QED
    BY <2>1, <2>2
<1>10. LinkFree(t)
  <2> SUFFICES ASSUME NEW i \in 1..n, NEW k \in 1..n, t[i].linking, t[k].d = t[i].result
               PROVE  t[k].pc \in {"cancel", "canceller"}
    BY <1>2 DEF LinkFree
  <2>1. i = n /\ t[i] = g
    BY <1>2, <1>4
  <2>2. k # n
    <3> SUFFICES ASSUME k = n PROVE FALSE
      OBVIOUS
    <3>1. Top.d = g.result
      BY <1>2, <2>1
    <3> QED
      BY <3>1, <2>1, <1>2, <1>3 DEF n
  <2>3. t[k] = stack[k]
    BY <1>2, <2>2
  <2> QED
    BY <2>1, <2>3 DEF n
<1>11. HoldsNewest(t, latest')
  <2> SUFFICES ASSUME NEW i \in 1..n, t[i].pc \in {"loop", "callback"}
               PROVE  t[i].result = latest'[t[i].d]
    BY <1>2 DEF HoldsNewest
  <2>1. CASE i = n
    BY <2>1, <1>2
  <2>2. CASE i # n
    <3>1. t[i] = stack[i] /\ BusyAt(stack, i) /\ i \in 1..Len(stack)
      BY <2>2, <1>2 DEF BusyAt, n
    <3>2. stack[i].result = latest[stack[i].d]
      BY <3>1 DEF FreshInv, Good, HoldsNewest
    <3> QED
      BY <3>1, <3>2, <2>2, <1>5, <1>7
  <2> QED
    BY <2>1, <2>2
<1>12. StoredNewest(t, result', latest')
  <2> SUFFICES ASSUME NEW e \in Deferreds, ~Act(t, e)
               PROVE  result'[e] = latest'[e]
    BY DEF StoredNewest
  <2>1. CASE e = g.d
    <3>1. g.pc \notin {"loop", "callback"}
      BY <2>1, <1>2 DEF Act
    <3> QED
      BY <3>1, <2>1
  <2>2. CASE e # g.d
    <3>1. ~TopActs(e)
      BY <2>2 DEF TopActs
    <3>2. ~Act(stack, e)
      BY <3>1, ActReplaced DEF HoldInv, t
    <3>3. result[e] = latest[e]
      BY <3>2 DEF FreshInv, StoredNewest
    <3> QED
      BY <3>3, <2>2
  <2> QED
    BY <2>1, <2>2
<1> QED
  BY <1>2, <1>8, <1>9, <1>10, <1>11, <1>12 DEF FreshInv, Good

LEMMA ReturnFresh ==
  ASSUME HoldInv, FreshInv, Orderly, NEW x \in Inputs, Return(x)
  PROVE  FreshInv'
<1> DEFINE d == Top.d
           g == [Top EXCEPT !.pc = "loop", !.result = Boxed(x),
                            !.linking = @ \/ IsKind(x, d)]
<1>1. /\ Running /\ Top.pc = "callback" /\ Returnable(x, d) /\ stack' = Replaced(g)
      /\ latest' = [latest EXCEPT ![d] = Boxed(x)]
      /\ UNCHANGED <<chain, added, result>>
  BY DEF Return, TopIs
<1>2. Top \in Frames /\ d \in Deferreds /\ TypeOK
  BY <1>1, TopFrame
<1>3. ~Top.linking
  BY <1>1, ClientClear, ClearTop DEF ClientPCs
<1>4. g \in Frames /\ g.pc = "loop" /\ g.result = Boxed(x) /\ g.d = d
      /\ g.linking = IsKind(x, d)
  BY <1>2, <1>3, BoxedType DEF Frames, IsKind
<1>5. latest'[d] = Boxed(x) /\ \A e \in Deferreds : e # d => latest'[e] = latest[e]
  BY <1>1, <1>2 DEF TypeOK
<1>6. IsKind(x, d) => \A k \in 1..Len(stack) :
        stack[k].d = Boxed(x) => k # Len(stack) /\ stack[k].pc \in {"cancel", "canceller"}
  <2> SUFFICES ASSUME IsKind(x, d), NEW k \in 1..Len(stack), stack[k].d = Boxed(x)
               PROVE  k # Len(stack) /\ stack[k].pc \in {"cancel", "canceller"}
    OBVIOUS
  <2>1. Boxed(x) = x
    BY ResultAssumption DEF IsKind, Boxed, Results
  <2>2. ~Firing(x)
    BY <1>1 DEF Returnable, MayTouch, Orderly
  <2>3. stack[k].pc \in {"cancel", "canceller"}
    BY <2>1, <2>2 DEF Firing
  <2> QED
    BY <2>3, <1>1 DEF Top
<1> HIDE DEF g, d
<1>7. \A e \in Deferreds : Waits(chain, added, e) = {} => Waits(chain', added', e) = {}
  BY <1>1
<1>8. \A e \in Deferreds : e # d => result'[e] = result[e]
  BY <1>1
<1> QED
  BY <1>1, <1>4, <1>5, <1>6, <1>7, <1>8, SwapFresh DEF d

\* cancel answers a deferred that has not fired, and has no activation then.
LEMMA CancelFresh ==
  ASSUME HoldInv, FreshInv, Active(stack, fired), Running, NEW d \in Deferreds, fired[d] = -1,
         CancelErrback(d, Below), UNCHANGED <<chain, added>>,
         \A e : Act(stack, e) => Act(Below, e)
  PROVE  FreshInv'
<1>1. Base(Below, chain, added, latest) /\ Below \in Seq(Frames)
  BY BaseBelow
<1>2. ~Act(Below, d)
  <2>1. ~Act(stack, d)
    BY DEF Act, Active
  <2>2. stack \in Seq(Frames) /\ Len(stack) - 1 \in 0..Len(stack) /\ Len(stack) \in Nat
    <3>1. stack \in Seq(Frames) /\ stack # <<>>
      BY TopFrame
    <3> QED
      BY <3>1
  <2>3. /\ Len(Below) = Len(stack) - 1
        /\ \A i \in 1..Len(stack) - 1 : Below[i] = stack[i]
    BY <2>2, CutType DEF Below
  <2> QED
    BY <2>1, <2>2, <2>3 DEF Act
<1>3. CanceledError \in Results /\ TypeOK
  BY ResultAssumption DEF Results, HoldInv
<1>4. /\ Resback(d, CanceledError, paused[d], Below)
      /\ latest'[d] = CanceledError
      /\ \A e \in Deferreds : e # d => latest'[e] = latest[e]
  BY <1>3 DEF CancelErrback, TypeOK
<1>5. Base(Below, chain', added', latest')
  <2>1. \A e \in Deferreds : Waits(chain, added, e) = {} => Waits(chain', added', e) = {}
    OBVIOUS
  <2>2. \A e \in Deferreds : Act(Below, e) => latest'[e] = latest[e]
    BY <1>2, <1>4
  <2> QED
    BY <1>1, <2>1, <2>2, BaseLater
<1>6. \A e \in Deferreds : (e # d /\ ~Act(Below, e)) => result[e] = latest'[e]
  BY <1>4 DEF FreshInv, StoredNewest
<1> QED
  BY <1>1, <1>2, <1>3, <1>4, <1>5, <1>6, ResbackFresh

LEMMA OtherReturnsFresh ==
  ASSUME HoldInv, FreshInv, Active(stack, fired), FinalizerReturns \/ CancellerReturns
  PROVE  FreshInv'
<1>0. Running /\ Top.pc \in ClientPCs
  BY DEF FinalizerReturns, CancellerReturns, TopIs, ClientPCs
<1>1. Top \in Frames /\ Top.d \in Deferreds /\ TypeOK
  BY <1>0, TopFrame
<1>2. ~Top.linking
  BY <1>0, ClientClear, ClearTop
<1>3. CASE FinalizerReturns
  <2> DEFINE g == [Top EXCEPT !.pc = "link"]
  <2>1. g \in Frames /\ ~g.linking /\ g.pc = "link"
    BY <1>1, <1>2 DEF Frames
  <2>2. stack' = Replaced(g) /\ UNCHANGED <<chain, added, result, latest>> /\ Top.pc = "finalizer"
    BY <1>3 DEF FinalizerReturns, fields, history, TopIs
  <2> HIDE DEF g
  <2>3. Base(stack', chain', added', latest')
    BY <1>0, <2>1, <2>2, BaseReplaced
  <2>4. \A e : Act(stack, e) => Act(stack', e)
    BY <1>0, <1>1, <2>1, <2>2, ActReplaced DEF TopActs
  <2> QED
    BY <2>2, <2>3, <2>4, BaseFresh
<1>4. CASE CancellerReturns
  <2>1. UNCHANGED <<chain, added>> /\ Top.pc = "canceller"
    BY <1>4 DEF CancellerReturns, TopIs
  <2>2. Base(Below, chain, added, latest) /\ Below \in Seq(Frames)
    BY <1>0, BaseBelow
  <2>3. \A e : Act(stack, e) => Act(Below, e)
    BY <1>0, <1>1, <2>1, ActBelow DEF TopActs
  <2>4. CASE fired[Top.d] # -1
    <3>1. stack' = Below /\ UNCHANGED <<result, latest>>
      BY <1>4, <2>4 DEF CancellerReturns
    <3> QED
      BY <2>1, <2>2, <2>3, <3>1, BaseFresh
  <2>5. CASE fired[Top.d] = -1
    <3>1. CancelErrback(Top.d, Below)
      BY <1>4, <2>5 DEF CancellerReturns
    <3> QED
      BY <1>0, <1>1, <2>1, <2>2, <2>3, <2>5, <3>1, CancelFresh
  <2> QED
    BY <2>4, <2>5
<1> QED
  BY <1>3, <1>4

\* An unpaused deferred waits in no chain ...
LEMMA PausedEmpty ==
  ASSUME HoldInv, NEW d \in Deferreds, paused[d] = 0
  PROVE  Waits(chain, added, d) = {}
<1>1. /\ IsFiniteSet(Waits(chain, added, d))
      /\ Cardinality(Waits(chain, added, d)) \in Nat
  BY HoldFacts DEF HoldInv
<1>2. Cardinality(Waits(chain, added, d)) = 0
  BY <1>1, PausedNat
<1> QED
  BY <1>1, <1>2, FS_EmptySet

\* ... and the activation that runs holds the newest result.
LEMMA TopNewest ==
  ASSUME HoldInv, FreshInv, Running, Top.pc \in {"loop", "callback"}
  PROVE  Top.result = latest[Top.d]
<1>1. Len(stack) \in 1..Len(stack)
  BY TopType DEF HoldInv
<1> QED
  BY <1>1 DEF FreshInv, Good, HoldsNewest, Top

LEMMA TakeFresh ==
  ASSUME HoldInv, TypeOK', FreshInv, NEW d \in Deferreds, Skip(d) \/ CallClient(d)
  PROVE  FreshInv'
<1>1. TakePair(d) /\ UNCHANGED <<result, latest>>
  BY DEF Skip, CallClient
<1>2. /\ Running /\ ~Top.linking /\ Clear(stack) /\ Top \in Frames /\ Top.d = d
      /\ paused[d] = 0 /\ Top.pc = "loop"
      /\ \A e \in Deferreds :
           Waits(chain', added', e) = Waits(chain, added, e) \ {Head(chain[d]).id}
  BY <1>1, TakeFacts DEF TakePair, TopIs
<1>3. \A e \in Deferreds : Waits(chain, added, e) = {} => Waits(chain', added', e) = {}
  BY <1>2
<1>4. Waits(chain, added, d) = {}
  BY <1>2, PausedEmpty
<1>5. Top.result = latest[d]
  BY <1>2, TopNewest
<1>6. CASE Skip(d)
  <2>1. stack' = Replaced(Top)
    <3>1. stack \in Seq(Frames) /\ stack # <<>>
      BY <1>2, TopFrame
    <3> QED
      BY <1>6, <3>1 DEF Skip, Replaced, Top
  <2> QED
    BY <1>1, <1>2, <1>3, <1>5, <2>1, SwapFresh
<1>7. CASE CallClient(d)
  <2> DEFINE g == [Top EXCEPT !.pc = "callback"]
  <2>1. g \in Frames /\ g.d = d /\ g.pc = "callback" /\ ~g.linking /\ g.result = Top.result
    BY <1>2 DEF Frames, ClientPCs
  <2>2. stack' = Replaced(g)
    BY <1>7 DEF CallClient
  <2> HIDE DEF g
  <2> QED
    BY <1>1, <1>2, <1>3, <1>4, <1>5, <2>1, <2>2, SwapFresh
<1> QED
  BY <1>6, <1>7

LEMMA ContinueFresh ==
  ASSUME HoldInv, TypeOK', FreshInv, NEW d \in Deferreds, NEW o \in Deferreds, ContinueChain(d, o)
  PROVE  FreshInv'
<1> DEFINE g == [Top EXCEPT !.result = Boxed("nil")]
           s == Replaced(g)
<1>1. TakePair(d) /\ Top.pc = "loop" /\ chain[d] # <<>>
  BY DEF ContinueChain, TakePair, TopIs, Continues
<1>2. /\ Running /\ ~Top.linking /\ Clear(stack) /\ Top \in Frames /\ Top.d = d /\ paused[d] = 0
      /\ \A e \in Deferreds :
           Waits(chain', added', e) = Waits(chain, added, e) \ {Head(chain[d]).id}
      /\ \A e \in Deferreds :
           Head(chain[d]).id \in Waits(chain, added, e) <=> Head(chain[d]).fn[0] = e
      /\ \A j \in {0, 1} :
           (Head(chain[d]).fn[0] \in Deferreds \/ Head(chain[d]).fn[j] \in Deferreds) =>
             Head(chain[d]).fn[0] = Head(chain[d]).fn[j]
  BY <1>1, TakeFacts
<1>3. o # d
  BY ContinueHold
<1>4. Waits(chain, added, d) = {} /\ Waits(chain, added, o) # {}
  <2>1. PICK j \in {0, 1} : Head(chain[d]).fn[j] = o
    BY DEF ContinueChain, Selected, Outcome
  <2>2. Head(chain[d]).id \in Waits(chain, added, o)
    BY <2>1, <1>2
  <2> QED
    BY <2>2, <1>2, PausedEmpty
<1>5. \A e \in Deferreds : Waits(chain, added, e) = {} => Waits(chain', added', e) = {}
  BY <1>2
<1>6. TypeOK /\ Top.result \in Results
  BY <1>2, TopFrame
<1>7. /\ latest'[o] = Top.result /\ latest'[d] = Boxed("nil")
      /\ \A e \in Deferreds : e # d /\ e # o => latest'[e] = latest[e]
  <2>1. latest' = [latest EXCEPT ![o] = Top.result, ![d] = Boxed("nil")]
    BY DEF ContinueChain
  <2> QED
    BY <2>1, <1>3, <1>6 DEF TypeOK
<1>8. g \in Frames /\ g.d = d /\ g.pc = "loop" /\ g.result = Boxed("nil") /\ ~g.linking
  BY <1>1, <1>2, BoxedType DEF Frames
<1>9. Resback(o, Top.result, paused'[o], s)
  BY DEF ContinueChain
<1> HIDE DEF g
<1>10. /\ s \in Seq(Frames)
       /\ Len(s) = Len(stack)
       /\ Len(stack) \in 1..Len(stack)
       /\ s[Len(stack)] = g
       /\ \A i \in 1..Len(stack) : i # Len(stack) => s[i] = stack[i]
  BY <1>2, <1>6, <1>8, ReplacedIs
<1>11. Clear(s)
  BY <1>2, <1>8, ClearReplaced
<1>12. \A e : Act(stack, e) => Act(s, e)
  BY <1>1, <1>2, <1>6, <1>8, ActReplaced DEF TopActs
<1> HIDE DEF s
<1>13. \A i \in 1..Len(s) :
         \/ i = Len(stack) /\ s[i] = g
         \/ /\ i \in 1..Len(stack) /\ i < Len(stack) /\ s[i] = stack[i]
            /\ BusyAt(s, i) <=> BusyAt(stack, i)
  BY <1>10 DEF BusyAt
<1>14. stack[Len(stack)] = Top /\ BusyAt(stack, Len(stack))
  BY <1>1 DEF Top, BusyAt
<1>15. \A i \in 1..Len(stack) : (i < Len(stack) /\ BusyAt(stack, i)) =>
         stack[i].d # d /\ Waits(chain, added, stack[i].d) = {} /\ stack[i].d # o
  <2> SUFFICES ASSUME NEW i \in 1..Len(stack), i < Len(stack), BusyAt(stack, i)
               PROVE  stack[i].d # d /\ Waits(chain, added, stack[i].d) = {} /\ stack[i].d # o
    OBVIOUS
  <2>1. stack[i].d # d
    <3>1. Len(stack) \in 1..Len(stack) /\ i # Len(stack)
      BY <1>10
    <3> QED
      BY <3>1, <1>2, <1>14 DEF FreshInv, Good, One
  <2>2. Waits(chain, added, stack[i].d) = {}
    BY DEF FreshInv, Good, Unawaited
  <2> QED
    BY <2>1, <2>2, <1>4
<1>16. \A i \in 1..Len(stack) : stack[i].d \in Deferreds
  <2>1. \A i \in 1..Len(stack) : stack[i] \in Frames
    <3>1. stack \in Seq(Frames)
      BY <1>6 DEF TypeOK
    <3> QED
      BY <3>1
  <2> QED
    BY <2>1 DEF Frames
<1>17. Base(s, chain', added', latest')
  <2>1. One(s)
    <3> SUFFICES ASSUME NEW i \in 1..Len(s), NEW j \in 1..Len(s), BusyAt(s, i), BusyAt(s, j),
                        s[i].d = s[j].d
                 PROVE  i = j
      BY DEF One
    <3>1. CASE i < Len(stack) /\ j < Len(stack)
      BY <3>1, <1>13 DEF FreshInv, Good, One
    <3>2. CASE i < Len(stack) /\ j = Len(stack)
      BY <3>2, <1>8, <1>10, <1>13, <1>15
    <3>3. CASE i = Len(stack) /\ j < Len(stack)
      BY <3>3, <1>8, <1>10, <1>13, <1>15
    <3> QED
      BY <3>1, <3>2, <3>3, <1>13
  <2>2. AllUnawaited(s, chain', added')
    <3> SUFFICES ASSUME NEW i \in 1..Len(s), BusyAt(s, i)
                 PROVE  Waits(chain', added', s[i].d) = {}
      BY DEF AllUnawaited
    <3>1. CASE i = Len(stack)
      BY <3>1, <1>4, <1>5, <1>8, <1>10
    <3>2. CASE i # Len(stack)
      BY <3>2, <1>5, <1>13, <1>15, <1>16
    <3> QED
      BY <3>1, <3>2
  <2>3. HoldsNewest(s, latest')
    <3> SUFFICES ASSUME NEW i \in 1..Len(s), s[i].pc \in {"loop", "callback"}
                 PROVE  s[i].result = latest'[s[i].d]
      BY DEF HoldsNewest
    <3>1. CASE i = Len(stack)
      BY <3>1, <1>7, <1>8, <1>10
    <3>2. CASE i # Len(stack)
      <4>1. i \in 1..Len(stack) /\ i < Len(stack) /\ s[i] = stack[i] /\ BusyAt(stack, i)
        BY <3>2, <1>13 DEF BusyAt
      <4>2. stack[i].result = latest[stack[i].d]
        BY <4>1 DEF FreshInv, Good, HoldsNewest
      <4>3. stack[i].d # d /\ stack[i].d # o /\ stack[i].d \in Deferreds
        BY <4>1, <1>15, <1>16
      <4> QED
        BY <4>1, <4>2, <4>3, <1>7
    <3> QED
      BY <3>1, <3>2
  <2> QED
    BY <2>1, <2>2, <2>3, <1>11 DEF Base
<1>18. ~Act(s, o)
  <2> SUFFICES ASSUME NEW i \in 1..Len(s), s[i].d = o, s[i].pc \in {"loop", "callback"}
               PROVE  FALSE
    BY DEF Act
  <2>1. i # Len(stack)
    BY <1>3, <1>8, <1>10
  <2>2. i \in 1..Len(stack) /\ i < Len(stack) /\ s[i] = stack[i] /\ BusyAt(stack, i)
    BY <2>1, <1>13 DEF BusyAt
  <2> QED
    BY <2>2, <1>15
<1>19. \A e \in Deferreds : (e # o /\ ~Act(s, e)) => result[e] = latest'[e]
  <2> SUFFICES ASSUME NEW e \in Deferreds, e # o, ~Act(s, e)
               PROVE  result[e] = latest'[e]
    OBVIOUS
  <2>1. e # d
    <3>1. Len(stack) \in 1..Len(s) /\ s[Len(stack)].d = d /\ s[Len(stack)].pc = "loop"
      BY <1>8, <1>10
    <3>2. Act(s, d)
      BY <3>1 DEF Act
    <3> QED
      BY <3>2
  <2>2. result[e] = latest[e]
    BY <1>12 DEF FreshInv, StoredNewest
  <2> QED
    BY <2>1, <2>2, <1>7
<1> QED
  BY <1>6, <1>7, <1>9, <1>10, <1>17, <1>18, <1>19, ResbackFresh

LEMMA ExitFresh ==
  ASSUME HoldInv, FreshInv, NEW d \in Deferreds, Exit(d)
  PROVE  FreshInv'
<1> DEFINE g == [Top EXCEPT !.pc = IF Finalizes(d) THEN "finalizer" ELSE "link"]
<1>1. /\ Running /\ Top.d = d /\ Top.pc = "loop" /\ stack' = Replaced(g)
      /\ result' = [result EXCEPT ![d] = Top.result]
      /\ UNCHANGED <<chain, added, latest>>
  BY DEF Exit, TopIs, Store, history
<1>2. Top \in Frames /\ TypeOK
  BY <1>1, TopFrame
<1>3. /\ g \in Frames /\ g.d = d /\ g.pc \in {"finalizer", "link"}
      /\ g.linking = Top.linking /\ g.result = Top.result
  BY <1>1, <1>2 DEF Frames, ClientPCs
<1> HIDE DEF g
<1>4. result'[d] = latest'[d] /\ \A e \in Deferreds : e # d => result'[e] = result[e]
  BY <1>1, <1>2, TopNewest DEF TypeOK
<1>5. g.linking => \A k \in 1..Len(stack) :
        stack[k].d = g.result => k # Len(stack) /\ stack[k].pc \in {"cancel", "canceller"}
  <2> SUFFICES ASSUME g.linking, NEW k \in 1..Len(stack), stack[k].d = g.result
               PROVE  k # Len(stack) /\ stack[k].pc \in {"cancel", "canceller"}
    OBVIOUS
  <2>1. Len(stack) \in 1..Len(stack)
    BY <1>1, <1>2, TopType
  <2>2. stack[k].pc \in {"cancel", "canceller"}
    BY <2>1, <1>3 DEF FreshInv, Good, LinkFree, Top
  <2> QED
    BY <2>2, <1>1 DEF Top
<1>6. \A e \in Deferreds : Waits(chain, added, e) = {} => Waits(chain', added', e) = {}
  BY <1>1
<1> QED
  BY <1>1, <1>3, <1>4, <1>5, <1>6, SwapFresh

\* The deferred that was returned is fired on a stack where nobody else links
\* or waits for what now waits for it.
LEMMA LinkFresh ==
  ASSUME HoldInv, TypeOK', FreshInv, NEW d \in Deferreds, Link(d)
  PROVE  FreshInv'
<1> DEFINE g == [Top EXCEPT !.pc = "chain", !.linking = FALSE]
           x == Top.result
           s == Replaced(g)
<1>1. /\ Top.linking /\ x \in Deferreds /\ stack' = FireIfFired(x, s)
      /\ \A e \in Deferreds :
           Waits(chain', added', e) = Waits(chain, added, e) \cup {m \in {added} : d = e}
  BY LinkHold
<1>2. Running /\ Top.d = d /\ Top.pc = "link" /\ UNCHANGED <<result, latest>>
  BY DEF Link, TopIs
<1>3. Top \in Frames /\ TypeOK /\ stack \in Seq(Frames)
  BY <1>2, TopFrame
<1>4. g \in Frames /\ ~g.linking /\ g.pc = "chain" /\ g.d = d
  BY <1>2, <1>3 DEF Frames
<1> HIDE DEF g
<1>5. Base(s, chain, added, latest) /\ s \in Seq(Frames)
  BY <1>2, <1>4, BaseReplaced
<1>6. /\ Len(s) = Len(stack) /\ Len(stack) \in 1..Len(stack) /\ s[Len(stack)] = g
      /\ \A i \in 1..Len(stack) : i # Len(stack) => s[i] = stack[i]
  BY <1>2, <1>3, <1>4, ReplacedIs
<1>7. \A e : Act(stack, e) => Act(s, e)
  BY <1>2, <1>3, <1>4, ActReplaced DEF TopActs
<1> HIDE DEF s, x
<1>8. stack[Len(stack)] = Top /\ BusyAt(stack, Len(stack))
  BY <1>1 DEF Top, BusyAt
<1>9. \A i \in 1..Len(s) : BusyAt(s, i) =>
        i # Len(stack) /\ s[i] = stack[i] /\ BusyAt(stack, i) /\ s[i].d # d /\ s[i].d \in Deferreds
  <2> SUFFICES ASSUME NEW i \in 1..Len(s), BusyAt(s, i)
               PROVE  /\ i # Len(stack) /\ s[i] = stack[i] /\ BusyAt(stack, i) /\ s[i].d # d
                      /\ s[i].d \in Deferreds
    OBVIOUS
  <2>1. i # Len(stack)
    BY <1>4, <1>6 DEF BusyAt
  <2>2. s[i] = stack[i] /\ BusyAt(stack, i) /\ i \in 1..Len(stack)
    BY <2>1, <1>6 DEF BusyAt
  <2>3. stack[i].d # d
    BY <2>1, <2>2, <1>2, <1>6, <1>8 DEF FreshInv, Good, One
  <2>4. stack[i] \in Frames
    BY <2>2, <1>3
  <2> QED
    BY <2>1, <2>2, <2>3, <2>4 DEF Frames
<1>10. Base(s, chain', added', latest')
  <2>1. AllUnawaited(s, chain', added')
    <3> SUFFICES ASSUME NEW i \in 1..Len(s), BusyAt(s, i)
                 PROVE  Waits(chain', added', s[i].d) = {}
      BY DEF AllUnawaited
    <3>1. s[i].d # d /\ s[i].d \in Deferreds
      BY <1>9
    <3>2. Waits(chain, added, s[i].d) = {}
      BY <1>5 DEF Base, AllUnawaited
    <3> QED
      BY <3>1, <3>2, <1>1
  <2> QED
    BY <2>1, <1>2, <1>5 DEF Base
<1>11. ~Act(s, x)
  <2> SUFFICES ASSUME NEW i \in 1..Len(s), s[i].d = x, s[i].pc \in {"loop", "callback"}
               PROVE  FALSE
    BY DEF Act
  <2>1. i # Len(stack) /\ s[i] = stack[i]
    BY <1>9 DEF BusyAt
  <2>2. i \in 1..Len(stack) /\ stack[i].d = Top.result
    BY <2>1, <1>6 DEF x
  <2>3. stack[i].pc \in {"cancel", "canceller"}
    BY <2>2, <1>1, <1>6, <1>8 DEF FreshInv, Good, LinkFree
  <2> QED
    BY <2>1, <2>3
<1>12. \A e \in Deferreds : ~Act(s, e) => result[e] = latest'[e]
  BY <1>2, <1>7 DEF FreshInv, StoredNewest
<1> QED
  BY <1>1, <1>2, <1>3, <1>5, <1>10, <1>11, <1>12, FireIfFiredFresh

LEMMA BelowFresh ==
  ASSUME HoldInv, FreshInv, NEW d \in Deferreds, FireReturns(d) \/ SetChained(d)
  PROVE  FreshInv'
<1>1. /\ Running /\ Top.pc \in {"link", "chain"} /\ stack' = Below
      /\ UNCHANGED <<chain, added, result, latest>>
  BY DEF FireReturns, SetChained, TopIs, fields, history
<1>2. Base(Below, chain, added, latest)
  BY <1>1, BaseBelow
<1>3. \A e : Act(stack, e) => Act(Below, e)
  BY <1>1, ActBelow DEF TopActs, HoldInv
<1> QED
  BY <1>1, <1>2, <1>3, BaseFresh

LEMMA CancelStepFresh ==
  ASSUME HoldInv, FreshInv, Active(stack, fired), NEW d \in Deferreds,
         CancelUnfired(d) \/ CancelFired(d)
  PROVE  FreshInv'
<1>1. Running /\ Top.d = d /\ Top.pc = "cancel" /\ UNCHANGED <<chain, added>>
  BY DEF CancelUnfired, CancelFired, TopIs, fields, history
<1>2. Top \in Frames /\ TypeOK
  BY <1>1, TopFrame
<1>3. ~Top.linking
  <2>1. Len(stack) \in 1..Len(stack)
    BY <1>1, <1>2, TopType
  <2> QED
    BY <2>1, <1>1 DEF HoldInv, LinkTop, Top
<1>4. \A e : Act(stack, e) => Act(Below, e)
  BY <1>1, <1>2, ActBelow DEF TopActs
<1>5. ASSUME NEW g \in Frames, stack' = Replaced(g), UNCHANGED <<result, latest>>, ~g.linking,
             g.pc \in {"cancel", "canceller"}
      PROVE  FreshInv'
  <2>1. Base(stack', chain', added', latest')
    BY <1>1, <1>5, BaseReplaced
  <2>2. \A e : Act(stack, e) => Act(stack', e)
    BY <1>1, <1>2, <1>5, ActReplaced DEF TopActs
  <2> QED
    BY <2>1, <2>2, <1>5, BaseFresh
<1>6. CASE stack' = Below /\ UNCHANGED <<result, latest>>
  <2>1. Base(Below, chain, added, latest)
    BY <1>1, BaseBelow
  <2> QED
    BY <2>1, <1>1, <1>4, <1>6, BaseFresh
<1>7. CASE CancelUnfired(d) /\ d \notin HasCanceller
  <2>1. CancelErrback(d, Below) /\ fired[d] = -1
    BY <1>7 DEF CancelUnfired
  <2> QED
    BY <2>1, <1>1, <1>4, CancelFresh
<1>8. CASE CancelUnfired(d) /\ d \in HasCanceller
  <2> DEFINE g == [Top EXCEPT !.pc = "canceller"]
  <2>1. g \in Frames /\ ~g.linking /\ g.pc = "canceller"
    BY <1>2, <1>3 DEF Frames, ClientPCs
  <2>2. stack' = Replaced(g) /\ UNCHANGED <<result, latest>>
    BY <1>8 DEF CancelUnfired
  <2> HIDE DEF g
  <2> QED
    BY <2>1, <2>2, <1>5
<1>9. CASE CancelFired(d)
  <2>1. UNCHANGED <<result, latest>>
    BY <1>9 DEF CancelFired, fields, history
  <2>2. CASE stack' # Below
    <3> DEFINE g == [Top EXCEPT !.d = result[d]]
    <3>1. stack' = Replaced(g) /\ IsKind(result[d], d)
      BY <1>1, <1>9, <2>2 DEF CancelFired
    <3>2. g \in Frames /\ ~g.linking /\ g.pc = "cancel"
      BY <1>1, <1>2, <1>3, <3>1 DEF Frames, IsKind
    <3> HIDE DEF g
    <3> QED
      BY <2>1, <3>1, <3>2, <1>5
  <2> QED
    BY <2>1, <2>2, <1>6
<1> QED
  BY <1>7, <1>8, <1>9

LEMMA StepFresh ==
  ASSUME HoldInv, OutcomeInv, FreshInv, Orderly, [Next]_vars
  PROVE  FreshInv'
<1>1. TypeOK' /\ Active(stack, fired)
  BY StepType DEF OutcomeInv, HoldInv
<1>2. CASE UNCHANGED vars
  BY <1>2 DEF vars, fields, history, FreshInv
<1>3. CASE ClientCalls
  BY <1>3, ClientCallsFresh
<1>4. CASE ClientReturns
  BY <1>1, <1>4, ReturnFresh, OtherReturnsFresh DEF ClientReturns
<1>5. CASE Raise
  BY <1>5 DEF Raise, Orderly
<1>6. ASSUME NEW d \in Deferreds, LibraryStep(d)
      PROVE  FreshInv'
  <2>1. CASE TakeStep(d)
    BY <2>1, <1>1, TakeFresh, ContinueFresh DEF TakeStep
  <2>2. CASE Exit(d)
    BY <2>2, ExitFresh
  <2>3. CASE Link(d)
    BY <2>3, <1>1, LinkFresh
  <2>4. CASE FireReturns(d) \/ SetChained(d)
    BY <2>4, BelowFresh
  <2>5. CASE CancelUnfired(d) \/ CancelFired(d)
    BY <2>5, <1>1, CancelStepFresh
  <2> QED
    BY <1>6, <2>1, <2>2, <2>3, <2>4, <2>5 DEF LibraryStep
<1> QED
  BY <1>2, <1>3, <1>4, <1>5, <1>6 DEF Next

LEMMA InitFresh == Init => FreshInv
<1> SUFFICES ASSUME Init PROVE FreshInv
  OBVIOUS
<1>1. stack = <<>> /\ Len(stack) = 0
  BY DEF Init
<1>2. Good(stack, chain, added, latest)
  BY <1>1 DEF Good, One, Unawaited, LinkFree, HoldsNewest
<1>3. StoredNewest(stack, result, latest)
  BY DEF Init, StoredNewest
<1> QED
  BY <1>2, <1>3 DEF FreshInv

LEMMA FreshIsFresh == FreshInv => FreshResult
<1> SUFFICES ASSUME FreshInv, NEW d \in Deferreds
             PROVE  IF Activations(d) = {} THEN result[d] = latest[d]
                    ELSE \A i \in Activations(d) : stack[i].result = latest[d]
  BY DEF FreshResult
<1>1. Activations(d) = {} => ~Act(stack, d)
  BY DEF Activations, Act
<1>2. \A i \in Activations(d) : stack[i].result = latest[d]
  BY DEF Activations, FreshInv, Good, HoldsNewest
<1> QED
  BY <1>1, <1>2 DEF FreshInv, StoredNewest

\* With a client that leaves a deferred alone inside its own callbacks, every
\* callback is called with the newest result and that result is what is stored
\* in the end, however chained deferreds fire each other in between
\* (343, 346-356, 361-364).
THEOREM ResultsAreFresh ==
  ASSUME Orderly
  PROVE  Spec => []FreshResult
<1>1. HoldInv /\ OutcomeInv /\ FreshInv /\ [Next]_vars => FreshInv'
  BY StepFresh
<1>2. Spec => []HoldInv
  BY HoldInvariant DEF Orderly, Balanced
<1> QED
  BY <1>1, <1>2, InitFresh, FreshIsFresh, OutcomeInvariant, PTL DEF Spec
=============================================================================
