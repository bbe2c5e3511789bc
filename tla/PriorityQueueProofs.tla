------------------------- MODULE PriorityQueueProofs -------------------------
(* Theorems about PriorityQueue, for queues of any length.  What its         *)
(* recursive functions compute is shown by sets: that they exist by closed   *)
(* sets of positions, what they are by the first position they are not.      *)
EXTENDS PriorityQueue, FiniteSetTheorems, TLAPS

-----------------------------------------------------------------------------
(* Positions *)

\* Of numbers up to n, one is the first.
LEMMA FirstOf ==
  ASSUME NEW n \in Nat, NEW S, S \subseteq 1..n, S # {}
  PROVE  \E k \in S : \A j \in S : k <= j
<1> DEFINE R == StrictSubsetOrdering(Nat)
           T == {1..m : m \in S}
<1>1. IsWellFoundedOn(R, FiniteSubsetsOf(Nat))
  BY FS_StrictSubsetOrderingWellFounded
<1>2. T \subseteq FiniteSubsetsOf(Nat) /\ T # {}
  <2>1. \A m \in S : 1..m \in SUBSET Nat /\ IsFiniteSet(1..m)
    BY FS_Interval
  <2> QED
    BY <2>1 DEF FiniteSubsetsOf
<1>3. PICK W \in T : \A V \in T : <<V, W>> \notin R
  <2> HIDE DEF R, T
  <2> QED
    BY <1>1, <1>2, WFMin
<1>4. PICK k \in S : W = 1..k
  BY <1>3
<1>5. ASSUME NEW j \in S, j < k
      PROVE  FALSE
  <2>1. 1..j \subseteq 1..k /\ 1..j # 1..k /\ 1..j \in SUBSET Nat /\ 1..k \in SUBSET Nat
    <3>1. k \in 1..k /\ k \notin 1..j
      BY <1>5
    <3> QED
      BY <1>5, <3>1
  <2>2. <<1..j, 1..k>> \in R
    BY <2>1 DEF StrictSubsetOrdering
  <2>3. 1..j \in T
    OBVIOUS
  <2> QED
    BY <2>2, <2>3, <1>3, <1>4
<1> QED
  BY <1>5

\* What holds of a position when it holds of all before it holds of all.
LEMMA Upwards ==
  ASSUME NEW n \in Nat, NEW S,
         \A p \in 1..n : (\A j \in 1..n : j < p => j \in S) => p \in S
  PROVE  1..n \subseteq S
<1> SUFFICES ASSUME ~(1..n \subseteq S) PROVE FALSE
  OBVIOUS
<1> DEFINE Bad == 1..n \ S
<1>1. Bad \subseteq 1..n /\ Bad # {}
  OBVIOUS
<1> HIDE DEF Bad
<1>2. PICK k \in Bad : \A j \in Bad : k <= j
  BY <1>1, FirstOf
<1> QED
  BY <1>1, <1>2 DEF Bad

\* The same from the last position down
LEMMA Downwards ==
  ASSUME NEW n \in Nat, NEW S,
         \A p \in 1..n : (\A j \in 1..n : p < j => j \in S) => p \in S
  PROVE  1..n \subseteq S
<1> DEFINE M == {p \in 1..n : n + 1 - p \in S}
<1>1. \A p \in 1..n : (\A j \in 1..n : j < p => j \in M) => p \in M
  <2> SUFFICES ASSUME NEW p \in 1..n, \A j \in 1..n : j < p => j \in M PROVE p \in M
    OBVIOUS
  <2>1. n + 1 - p \in 1..n
    OBVIOUS
  <2>2. ASSUME NEW j \in 1..n, n + 1 - p < j PROVE j \in S
    <3>1. n + 1 - j \in 1..n /\ n + 1 - j < p /\ n + 1 - (n + 1 - j) = j
      BY <2>2
    <3>2. n + 1 - j \in M
      BY <3>1
    <3> QED
      BY <3>1, <3>2
  <2>3. n + 1 - p \in S
    BY <2>1, <2>2
  <2> QED
    BY <2>3
<1> HIDE DEF M
<1>2. 1..n \subseteq M
  BY <1>1, Upwards
<1>3. ASSUME NEW p \in 1..n PROVE p \in S
  <2>1. n + 1 - p \in 1..n /\ n + 1 - (n + 1 - p) = p
    OBVIOUS
  <2> QED
    BY <2>1, <1>2 DEF M
<1> QED
  BY <1>3

LEMMA ParentIs ==
  /\ \A p \in Nat : p > 1 =>
       /\ Parent(p) \in Nat /\ 1 <= Parent(p) /\ Parent(p) < p
       /\ p = 2 * Parent(p) \/ p = 2 * Parent(p) + 1
  /\ \A p \in Nat : Parent(2 * p) = p /\ Parent(2 * p + 1) = p
BY DEF Parent

-----------------------------------------------------------------------------
(* That the functions exist *)

\* Up from d, and what Rest and SiftUp iterate
Up(d) ==
  CHOOSE up : up = [p \in 1..d |-> IF p = 1 THEN {1} ELSE {p} \cup up[Parent(p)]]
Climb(e, q, start, pos) ==
  CHOOSE climb : climb = [p \in 1..pos |->
    IF p > start /\ Less(e, q[pos], q[Parent(p)]) THEN climb[Parent(p)] ELSE p]
Leaf(e, q) ==
  CHOOSE leaf : leaf = [p \in 1..Len(q) |->
    IF 2 * p <= Len(q) THEN leaf[Child(e, q, p)] ELSE p]

\* Closed upwards, with p in it
Above(d, p) ==
  {S \in SUBSET (1..d) : p \in S /\ \A y \in S : y > 1 => Parent(y) \in S}
Least(d, p) == {x \in 1..d : \A S \in Above(d, p) : x \in S}

LEMMA LeastIs ==
  ASSUME NEW d \in Nat, NEW p \in 1..d
  PROVE  Least(d, p) = IF p = 1 THEN {1} ELSE {p} \cup Least(d, Parent(p))
<1>1. CASE p = 1
  <2>1. {1} \in Above(d, p)
    BY <1>1 DEF Above
  <2>2. \A S \in Above(d, p) : 1 \in S
    BY <1>1 DEF Above
  <2> QED
    BY <1>1, <2>1, <2>2 DEF Least
<1>2. CASE p # 1
  <2>1. Parent(p) \in 1..d
    BY <1>2, ParentIs
  <2>2. ASSUME NEW x \in Least(d, Parent(p)) PROVE x \in Least(d, p)
    <3>1. Above(d, p) \subseteq Above(d, Parent(p))
      BY <1>2 DEF Above
    <3> QED
      BY <3>1 DEF Least
  <2>3. p \in Least(d, p)
    BY DEF Least, Above
  <2>4. {p} \cup Least(d, Parent(p)) \in Above(d, p)
    <3>1. Parent(p) \in Least(d, Parent(p))
      BY <2>1 DEF Least, Above
    <3>2. ASSUME NEW y \in Least(d, Parent(p)), y > 1 PROVE Parent(y) \in Least(d, Parent(p))
      <4>1. y \in 1..d
        BY DEF Least
      <4>2. Parent(y) \in 1..d
        BY <4>1, <3>2, ParentIs
      <4>3. \A S \in Above(d, Parent(p)) : y \in S
        BY DEF Least
      <4>4. \A S \in Above(d, Parent(p)) : Parent(y) \in S
        BY <4>3, <3>2 DEF Above
      <4> QED
        BY <4>2, <4>4 DEF Least
    <3>3. Least(d, Parent(p)) \subseteq 1..d
      BY DEF Least
    <3>4. \A y \in {p} \cup Least(d, Parent(p)) :
            y > 1 => Parent(y) \in {p} \cup Least(d, Parent(p))
      BY <3>1, <3>2
    <3> HIDE DEF Least
    <3> QED
      BY <3>3, <3>4 DEF Above
  <2>5. Least(d, p) \subseteq {p} \cup Least(d, Parent(p))
    BY <2>4 DEF Least
  <2> QED
    BY <1>2, <2>2, <2>3, <2>5
<1> QED
  BY <1>1, <1>2

LEMMA UpIs ==
  ASSUME NEW d \in Nat
  PROVE  Up(d) = [p \in 1..d |-> IF p = 1 THEN {1} ELSE {p} \cup Up(d)[Parent(p)]]
<1> DEFINE f == [p \in 1..d |-> Least(d, p)]
<1>1. \A p \in 1..d : p # 1 => Parent(p) \in 1..d
  BY ParentIs
<1>2. f = [p \in 1..d |-> IF p = 1 THEN {1} ELSE {p} \cup f[Parent(p)]]
  <2>1. \A p \in 1..d : p # 1 => f[Parent(p)] = Least(d, Parent(p))
    BY <1>1
  <2>2. \A p \in 1..d : f[p] = IF p = 1 THEN {1} ELSE {p} \cup f[Parent(p)]
    BY <2>1, LeastIs
  <2> QED
    BY <2>2
<1> HIDE DEF f
<1> QED
  BY <1>2 DEF Up

\* A function that goes on until a step leads nowhere
Closed(D, nxt, p) == {S \in SUBSET D : p \in S /\ \A y \in S : nxt[y] \in S}
Orbit(D, nxt, p) == {x \in D : \A S \in Closed(D, nxt, p) : x \in S}
Ends(D, nxt, p) == {x \in Orbit(D, nxt, p) : nxt[x] = x}

LEMMA EndsOn ==
  ASSUME NEW D, NEW nxt \in [D -> D], NEW p \in D
  PROVE  /\ nxt[p] = p => Ends(D, nxt, p) = {p}
         /\ nxt[p] # p => Ends(D, nxt, p) = Ends(D, nxt, nxt[p])
<1>1. p \in Orbit(D, nxt, p)
  BY DEF Orbit, Closed
<1>2. ASSUME nxt[p] = p PROVE Ends(D, nxt, p) = {p}
  <2>1. {p} \in Closed(D, nxt, p)
    BY <1>2 DEF Closed
  <2>2. Orbit(D, nxt, p) \subseteq {p}
    BY <2>1 DEF Orbit
  <2> QED
    BY <1>1, <1>2, <2>2 DEF Ends
<1>3. ASSUME nxt[p] # p PROVE Ends(D, nxt, p) = Ends(D, nxt, nxt[p])
  <2> DEFINE O == Orbit(D, nxt, nxt[p])
  <2>1. nxt[p] \in O /\ O \subseteq D
    BY DEF Orbit, Closed
  <2>2. \A y \in O : nxt[y] \in O
    BY DEF Orbit, Closed
  <2>3. O \subseteq Orbit(D, nxt, p)
    <3>1. Closed(D, nxt, p) \subseteq Closed(D, nxt, nxt[p])
      BY DEF Closed
    <3> QED
      BY <3>1 DEF Orbit
  <2>4. {p} \cup O \in Closed(D, nxt, p)
    <3> HIDE DEF O
    <3> QED
      BY <2>1, <2>2 DEF Closed
  <2>5. Orbit(D, nxt, p) \subseteq {p} \cup O
    <3> HIDE DEF O
    <3> QED
      BY <2>4 DEF Orbit
  <2> HIDE DEF O
  <2>6. Ends(D, nxt, p) = {x \in O : nxt[x] = x}
    BY <1>3, <2>3, <2>5 DEF Ends
  <2> QED
    BY <2>6 DEF Ends, O
<1> QED
  BY <1>2, <1>3

LEMMA Iterates ==
  ASSUME NEW D, NEW nxt \in [D -> D]
  PROVE  \E f : f = [p \in D |-> IF nxt[p] # p THEN f[nxt[p]] ELSE p]
<1> DEFINE f == [p \in D |-> CHOOSE x : x \in Ends(D, nxt, p)]
<1>1. \A p \in D : nxt[p] # p => f[p] = f[nxt[p]]
  BY EndsOn
<1>2. ASSUME NEW p \in D, nxt[p] = p PROVE f[p] = p
  BY <1>2, EndsOn
<1>3. f = [p \in D |-> IF nxt[p] # p THEN f[nxt[p]] ELSE p]
  <2>1. \A p \in D : f[p] = IF nxt[p] # p THEN f[nxt[p]] ELSE p
    BY <1>1, <1>2
  <2>2. DOMAIN f = D /\ f = [p \in D |-> f[p]]
    OBVIOUS
  <2> HIDE DEF f
  <2> QED
    BY <2>1, <2>2
<1> QED
  BY <1>3

LEMMA ClimbIs ==
  ASSUME NEW e, NEW q, NEW start \in Nat \ {0}, NEW pos \in Nat
  PROVE  \A p \in 1..pos :
           Climb(e, q, start, pos)[p] =
             IF p > start /\ Less(e, q[pos], q[Parent(p)])
             THEN Climb(e, q, start, pos)[Parent(p)] ELSE p
<1> DEFINE on(p) == p > start /\ Less(e, q[pos], q[Parent(p)])
           nxt == [p \in 1..pos |-> IF on(p) THEN Parent(p) ELSE p]
<1> HIDE DEF on
<1>1. \A p \in 1..pos : on(p) => Parent(p) \in 1..pos /\ Parent(p) # p
  BY ParentIs DEF on
<1>2. nxt \in [1..pos -> 1..pos]
  BY <1>1
<1>3. \A p \in 1..pos : nxt[p] # p <=> on(p)
  BY <1>1
<1>4. \A p \in 1..pos : on(p) => nxt[p] = Parent(p)
  OBVIOUS
<1> HIDE DEF nxt
<1>5. PICK f : f = [p \in 1..pos |-> IF nxt[p] # p THEN f[nxt[p]] ELSE p]
  BY <1>2, Iterates
<1>6. f = [p \in 1..pos |-> IF on(p) THEN f[Parent(p)] ELSE p]
  <2>1. \A p \in 1..pos : f[p] = IF on(p) THEN f[Parent(p)] ELSE p
    BY <1>3, <1>4, <1>5
  <2>2. DOMAIN f = 1..pos /\ f = [p \in 1..pos |-> f[p]]
    BY <1>5
  <2> QED
    BY <2>1, <2>2
<1>7. f = [p \in 1..pos |-> IF p > start /\ Less(e, q[pos], q[Parent(p)])
                            THEN f[Parent(p)] ELSE p]
  BY <1>6 DEF on
<1>8. PICK C : /\ C = Climb(e, q, start, pos)
               /\ C = [p \in 1..pos |-> IF p > start /\ Less(e, q[pos], q[Parent(p)])
                                       THEN C[Parent(p)] ELSE p]
  BY <1>7 DEF Climb
<1> QED
  BY <1>8

LEMMA ChildIs ==
  ASSUME NEW e, NEW q, Len(q) \in Nat, NEW p \in Nat \ {0}, 2 * p <= Len(q)
  PROVE  /\ Child(e, q, p) \in 1..Len(q) /\ Child(e, q, p) > p
         /\ Parent(Child(e, q, p)) = p
<1>1. Child(e, q, p) = 2 * p \/ (2 * p < Len(q) /\ Child(e, q, p) = 2 * p + 1)
  BY DEF Child
<1>2. Parent(2 * p) = p /\ Parent(2 * p + 1) = p
  BY ParentIs
<1>3. CASE Child(e, q, p) = 2 * p
  BY <1>2, <1>3
<1>4. CASE 2 * p < Len(q) /\ Child(e, q, p) = 2 * p + 1
  BY <1>2, <1>4
<1> QED
  BY <1>1, <1>3, <1>4

LEMMA LeafIs ==
  ASSUME NEW e, NEW q, Len(q) \in Nat
  PROVE  \A p \in 1..Len(q) :
           Leaf(e, q)[p] = IF 2 * p <= Len(q) THEN Leaf(e, q)[Child(e, q, p)] ELSE p
<1> DEFINE D == 1..Len(q)
           nxt == [p \in D |-> IF 2 * p <= Len(q) THEN Child(e, q, p) ELSE p]
<1>1. \A p \in D : 2 * p <= Len(q) => Child(e, q, p) \in D /\ Child(e, q, p) # p
  BY ChildIs
<1>2. nxt \in [D -> D]
  BY <1>1
<1>3. \A p \in D : nxt[p] # p <=> 2 * p <= Len(q)
  BY <1>1
<1>4. \A p \in D : 2 * p <= Len(q) => nxt[p] = Child(e, q, p)
  OBVIOUS
<1> HIDE DEF nxt
<1>5. PICK f : f = [p \in D |-> IF nxt[p] # p THEN f[nxt[p]] ELSE p]
  BY <1>2, Iterates
<1>6. f = [p \in D |-> IF 2 * p <= Len(q) THEN f[Child(e, q, p)] ELSE p]
  <2>1. \A p \in D : f[p] = IF 2 * p <= Len(q) THEN f[Child(e, q, p)] ELSE p
    BY <1>3, <1>4, <1>5
  <2>2. DOMAIN f = D /\ f = [p \in D |-> f[p]]
    BY <1>5
  <2> QED
    BY <2>1, <2>2
<1>7. PICK L : /\ L = Leaf(e, q)
               /\ L = [p \in D |-> IF 2 * p <= Len(q) THEN L[Child(e, q, p)] ELSE p]
  BY <1>6 DEF Leaf
<1> QED
  BY <1>7

-----------------------------------------------------------------------------
(* What they are *)

\* The path from d up to the first position
IsPath(A, d) ==
  /\ A \subseteq 1..d /\ d \in A /\ 1 \in A
  /\ \A a \in A : a > 1 => Parent(a) \in A
  /\ \A b \in A : b < d => \E a \in A : a > 1 /\ Parent(a) = b
  /\ \A a, b \in A : a < b => a <= Parent(b)

LEMMA Ancestors ==
  ASSUME NEW d \in Nat \ {0}
  PROVE  IsPath(AncestorOf(d), d)
<1> DEFINE S == {p \in 1..d : IsPath(Up(d)[p], p)}
<1>1. ASSUME NEW p \in 1..d, \A j \in 1..d : j < p => j \in S PROVE p \in S
  <2>1. CASE p = 1
    <3>1. Up(d)[p] = {1}
      BY <2>1, UpIs
    <3>2. IsPath({1}, 1)
      BY DEF IsPath
    <3> QED
      BY <2>1, <3>1, <3>2
  <2>2. CASE p # 1
    <3>1. Parent(p) \in 1..d /\ Parent(p) < p
      BY <2>2, ParentIs
    <3>2. PICK A : A = Up(d)[Parent(p)]
      OBVIOUS
    <3>3. IsPath(A, Parent(p))
      BY <1>1, <3>1, <3>2
    <3>4. Up(d)[p] = {p} \cup A
      BY <2>2, <3>2, UpIs
    <3>5. IsPath({p} \cup A, p)
      <4>1. {p} \cup A \subseteq 1..p /\ p \in {p} \cup A /\ 1 \in {p} \cup A
        BY <3>1, <3>3 DEF IsPath
      <4>2. \A a \in {p} \cup A : a > 1 => Parent(a) \in {p} \cup A
        BY <3>3 DEF IsPath
      <4>3. ASSUME NEW b \in {p} \cup A, b < p
            PROVE  \E a \in {p} \cup A : a > 1 /\ Parent(a) = b
        <5>1. b \in A /\ b \in 1..Parent(p)
          BY <3>3, <4>3 DEF IsPath
        <5>2. CASE b < Parent(p)
          BY <3>3, <5>1, <5>2 DEF IsPath
        <5>3. CASE b = Parent(p)
          <6>1. p > 1
            BY <2>2
          <6> QED
            BY <5>3, <6>1
        <5> QED
          BY <5>1, <5>2, <5>3, <3>1
      <4>4. ASSUME NEW a \in {p} \cup A, NEW b \in {p} \cup A, a < b PROVE a <= Parent(b)
        <5>1. CASE b \in A /\ a \in A
          BY <3>3, <5>1, <4>4 DEF IsPath
        <5>2. CASE b = p /\ a \in A
          BY <3>3, <5>2 DEF IsPath
        <5>3. CASE a = p
          BY <3>1, <3>3, <4>4, <5>3 DEF IsPath
        <5> QED
          BY <5>1, <5>2, <5>3
      <4> QED
        BY <4>1, <4>2, <4>3, <4>4 DEF IsPath
    <3> QED
      BY <3>4, <3>5
  <2> QED
    BY <2>1, <2>2
<1> HIDE DEF S
<1>2. 1..d \subseteq S
  BY <1>1, Upwards
<1>3. AncestorOf(d) = Up(d)[d]
  BY DEF AncestorOf, Up
<1> QED
  BY <1>2, <1>3 DEF S

\* An item that climbs comes to rest above all it goes before, and below one
\* it does not go before or at the top.
RestsAt(e, q, pos, A, r) ==
  /\ r \in A
  /\ r = 1 \/ ~Less(e, q[pos], q[Parent(r)])
  /\ \A a \in A : a > r => Less(e, q[pos], q[Parent(a)])

LEMMA Rests ==
  ASSUME NEW e, NEW q, NEW pos \in Nat \ {0}
  PROVE  RestsAt(e, q, pos, AncestorOf(pos), Rest(e, q, 1, pos))
<1> DEFINE A == AncestorOf(pos)
           C == Climb(e, q, 1, pos)
           passed(p) == p \in A /\ \A a \in A : a > p => Less(e, q[pos], q[Parent(a)])
           S == {p \in 1..pos : passed(p) => RestsAt(e, q, pos, A, C[p])}
<1>1. IsPath(A, pos)
  BY Ancestors
<1> HIDE DEF A
<1>2. \A p \in 1..pos : C[p] = IF p > 1 /\ Less(e, q[pos], q[Parent(p)])
                               THEN C[Parent(p)] ELSE p
  BY ClimbIs
<1>3. ASSUME NEW p \in 1..pos, \A j \in 1..pos : j < p => j \in S PROVE p \in S
  <2> SUFFICES ASSUME passed(p) PROVE RestsAt(e, q, pos, A, C[p])
    OBVIOUS
  <2>1. CASE p > 1 /\ Less(e, q[pos], q[Parent(p)])
    <3>1. Parent(p) \in 1..pos /\ Parent(p) < p /\ Parent(p) \in A
      BY <1>1, <2>1, ParentIs DEF IsPath
    <3>2. ASSUME NEW a \in A, a > Parent(p) PROVE Less(e, q[pos], q[Parent(a)])
      <4>1. ~(a < p)
        BY <1>1, <3>1, <3>2, ParentIs DEF IsPath
      <4>2. a \in 1..pos
        BY <1>1 DEF IsPath
      <4> QED
        BY <2>1, <4>1, <4>2
    <3>3. RestsAt(e, q, pos, A, C[Parent(p)])
      BY <1>3, <3>1, <3>2
    <3> QED
      BY <1>2, <2>1, <3>3
  <2>2. CASE ~(p > 1 /\ Less(e, q[pos], q[Parent(p)]))
    <3>1. C[p] = p
      BY <1>2, <2>2
    <3> QED
      BY <2>2, <3>1 DEF RestsAt
  <2> QED
    BY <2>1, <2>2
<1>4. 1..pos \subseteq S
  <2> HIDE DEF S
  <2> QED
    BY <1>3, Upwards
<1>5. passed(pos)
  BY <1>1 DEF IsPath
<1>6. Rest(e, q, 1, pos) = C[pos]
  BY DEF Rest, Climb, C
<1> QED
  BY <1>4, <1>5, <1>6 DEF A

\* An item that sinks does so along the children that go first, to a leaf.
SinksTo(e, q, p, r) ==
  /\ r \in 1..Len(q) /\ 2 * r > Len(q)
  /\ p \in AncestorOf(r)
  /\ \A a \in AncestorOf(r) :
       a >= p /\ a # r => 2 * a <= Len(q) /\ Child(e, q, a) \in AncestorOf(r)

LEMMA Sinks ==
  ASSUME NEW e, NEW q, Len(q) \in Nat, NEW start \in 1..Len(q)
  PROVE  SinksTo(e, q, start, Leaf(e, q)[start])
<1> DEFINE S == {p \in 1..Len(q) : SinksTo(e, q, p, Leaf(e, q)[p])}
<1>1. ASSUME NEW p \in 1..Len(q), \A j \in 1..Len(q) : p < j => j \in S PROVE p \in S
  <2>1. CASE 2 * p <= Len(q)
    <3>1. Leaf(e, q)[p] = Leaf(e, q)[Child(e, q, p)]
      BY <2>1, LeafIs
    <3>2. /\ Child(e, q, p) \in 1..Len(q) /\ Child(e, q, p) > p
          /\ Parent(Child(e, q, p)) = p
      BY <2>1, ChildIs
    <3>3. PICK r : r = Leaf(e, q)[p]
      OBVIOUS
    <3>4. PICK c : c = Child(e, q, p)
      OBVIOUS
    <3>5. SinksTo(e, q, c, r) /\ c \in 1..Len(q) /\ c > p /\ Parent(c) = p
      BY <1>1, <3>1, <3>2, <3>3, <3>4
    <3>6. r \in 1..Len(q) /\ 2 * r > Len(q) /\ c \in AncestorOf(r) /\ r \in Nat \ {0}
      BY <3>5 DEF SinksTo
    <3>7. IsPath(AncestorOf(r), r)
      BY <3>6, Ancestors
    <3>8. p \in AncestorOf(r)
      BY <3>5, <3>6, <3>7 DEF IsPath
    <3>9. ASSUME NEW a \in AncestorOf(r), a >= p, a # r
          PROVE  2 * a <= Len(q) /\ Child(e, q, a) \in AncestorOf(r)
      <4>1. a \in 1..r
        BY <3>7 DEF IsPath
      <4>2. CASE a = p
        BY <2>1, <3>4, <3>6, <4>2
      <4>3. CASE a # p
        <5>1. ~(a < c)
          BY <3>5, <3>6, <3>7, <3>9, <4>1, <4>3 DEF IsPath
        <5> QED
          BY <3>5, <3>9, <4>1, <5>1 DEF SinksTo
      <4> QED
        BY <4>2, <4>3
    <3> QED
      BY <3>3, <3>6, <3>8, <3>9 DEF SinksTo
  <2>2. CASE ~(2 * p <= Len(q))
    <3>1. Leaf(e, q)[p] = p
      BY <2>2, LeafIs
    <3>2. IsPath(AncestorOf(p), p)
      BY Ancestors
    <3>3. SinksTo(e, q, p, p)
      BY <2>2, <3>2 DEF SinksTo, IsPath
    <3> QED
      BY <3>1, <3>3
  <2> QED
    BY <2>1, <2>2
<1> HIDE DEF S
<1>2. 1..Len(q) \subseteq S
  BY <1>1, Downwards
<1> QED
  BY <1>2 DEF S

-----------------------------------------------------------------------------
(* Nothing is lost in a sift *)

Contents(q) == {q[p] : p \in 1..Len(q)}

\* s is q with the item at pos moved up the path A to r.
IsSifted(s, q, pos, A, r) ==
  /\ Len(s) = Len(q)
  /\ \A p \in 1..Len(q) :
       s[p] = IF p = r THEN q[pos] ELSE IF p \in A /\ p > r THEN q[Parent(p)] ELSE q[p]

\* Where such a path lies
LEMMA PathType ==
  ASSUME NEW n \in Nat, NEW pos \in 1..n, NEW A, IsPath(A, pos)
  PROVE  /\ A \subseteq 1..pos /\ pos \in A /\ A \subseteq 1..n
         /\ \A a \in A : a > 1 => Parent(a) \in A /\ Parent(a) \in 1..n /\ Parent(a) < a
BY ParentIs DEF IsPath

LEMMA SiftDownIs ==
  ASSUME NEW e, NEW K, NEW q \in Seq(K), NEW pos \in 1..Len(q)
  PROVE  /\ SiftDown(e, q, 1, pos) \in Seq(K)
         /\ IsSifted(SiftDown(e, q, 1, pos), q, pos, AncestorOf(pos), Rest(e, q, 1, pos))
         /\ IsPath(AncestorOf(pos), pos)
         /\ RestsAt(e, q, pos, AncestorOf(pos), Rest(e, q, 1, pos))
<1> DEFINE A == AncestorOf(pos)
           r == Rest(e, q, 1, pos)
           s(p) == IF p = r THEN q[pos] ELSE IF p \in A /\ p > r THEN q[Parent(p)] ELSE q[p]
<1>1. SiftDown(e, q, 1, pos) = [p \in 1..Len(q) |-> s(p)]
  BY DEF SiftDown
<1>2. IsPath(A, pos) /\ RestsAt(e, q, pos, A, r)
  BY Ancestors, Rests
<1> HIDE DEF A, r
<1>3. Len(q) \in Nat
  OBVIOUS
<1>4. \A p \in 1..Len(q) : p \in A /\ p > r => Parent(p) \in 1..Len(q)
  <2>1. r \in 1..pos
    BY <1>2, <1>3, PathType DEF RestsAt
  <2> QED
    BY <2>1, <1>2, <1>3, PathType
<1>5. \A p \in 1..Len(q) : s(p) \in K
  BY <1>4
<1> HIDE DEF s
<1>6. [p \in 1..Len(q) |-> s(p)] \in Seq(K) /\ Len([p \in 1..Len(q) |-> s(p)]) = Len(q)
  BY <1>3, <1>5
<1>7. \A p \in 1..Len(q) : SiftDown(e, q, 1, pos)[p] = s(p)
  BY <1>1
<1>8. IsSifted(SiftDown(e, q, 1, pos), q, pos, A, r)
  BY <1>1, <1>6, <1>7 DEF IsSifted, s
<1> QED
  BY <1>1, <1>2, <1>6, <1>8 DEF A, r

LEMMA SiftedKeeps ==
  ASSUME NEW q, Len(q) \in Nat, NEW pos \in 1..Len(q), NEW A, NEW r, NEW s, NEW e,
         IsSifted(s, q, pos, A, r), IsPath(A, pos), RestsAt(e, q, pos, A, r)
  PROVE  Contents(s) = Contents(q)
<1>1. r \in A /\ A \subseteq 1..Len(q) /\ r \in 1..pos
  BY PathType DEF RestsAt
<1>2. ASSUME NEW p \in 1..Len(q) PROVE s[p] \in Contents(q)
  <2>1. p \in A /\ p > r => Parent(p) \in 1..Len(q)
    BY <1>1, PathType
  <2> QED
    BY <2>1 DEF Contents, IsSifted
<1>3. ASSUME NEW p \in 1..Len(q) PROVE q[p] \in Contents(s)
  <2>1. CASE p = pos
    BY <1>1, <2>1 DEF Contents, IsSifted
  <2>2. CASE p # pos /\ p \in A /\ p >= r
    <3>1. p < pos
      BY <1>1, <2>2, PathType
    <3>2. PICK a \in A : a > 1 /\ Parent(a) = p
      BY <2>2, <3>1 DEF IsPath
    <3>3. a \in 1..Len(q) /\ a > p
      BY <1>1, <3>2, PathType
    <3>4. a > r
      BY <1>1, <2>2, <3>3
    <3>5. s[a] = q[p]
      BY <1>1, <3>2, <3>3, <3>4 DEF IsSifted
    <3> QED
      BY <3>3, <3>5 DEF Contents, IsSifted
  <2>3. CASE p # pos /\ ~(p \in A /\ p >= r)
    <3>1. s[p] = q[p]
      BY <1>1, <2>3 DEF IsSifted
    <3> QED
      BY <3>1 DEF Contents, IsSifted
  <2> QED
    BY <2>1, <2>2, <2>3
<1> QED
  BY <1>2, <1>3 DEF Contents, IsSifted

LEMMA SiftDownKeeps ==
  ASSUME NEW e, NEW K, NEW q \in Seq(K), NEW pos \in 1..Len(q)
  PROVE  /\ SiftDown(e, q, 1, pos) \in Seq(K)
         /\ Len(SiftDown(e, q, 1, pos)) = Len(q)
         /\ Contents(SiftDown(e, q, 1, pos)) = Contents(q)
<1>1. /\ SiftDown(e, q, 1, pos) \in Seq(K)
      /\ IsSifted(SiftDown(e, q, 1, pos), q, pos, AncestorOf(pos), Rest(e, q, 1, pos))
      /\ IsPath(AncestorOf(pos), pos)
      /\ RestsAt(e, q, pos, AncestorOf(pos), Rest(e, q, 1, pos))
  BY SiftDownIs
<1>2. Len(q) \in Nat
  OBVIOUS
<1>3. Contents(SiftDown(e, q, 1, pos)) = Contents(q)
  BY <1>1, <1>2, SiftedKeeps
<1>4. Len(SiftDown(e, q, 1, pos)) = Len(q)
  BY <1>1 DEF IsSifted
<1> QED
  BY <1>1, <1>3, <1>4

-----------------------------------------------------------------------------
(* A sift puts the heap in order *)

Heap(e, q) == \A p \in 2..Len(q) : ~Less(e, q[p], q[Parent(p)])

\* In order but for the item at x, which may go before its parent
HeapBut(e, q, x) == \A p \in 2..Len(q) : p # x => ~Less(e, q[p], q[Parent(p)])

\* The keys K are compared in a way that sorts them.
Ordered(e, K) ==
  /\ \A a, b \in K : Less(e, a, b) => ~Less(e, b, a)
  /\ \A a, b, c \in K : ~Less(e, a, b) /\ ~Less(e, b, c) => ~Less(e, a, c)

LEMMA SiftedInOrder ==
  ASSUME NEW e, NEW K, Ordered(e, K),
         NEW q \in Seq(K), NEW pos \in 1..Len(q), 2 * pos > Len(q), HeapBut(e, q, pos),
         NEW A, NEW r, NEW s,
         IsSifted(s, q, pos, A, r), IsPath(A, pos), RestsAt(e, q, pos, A, r)
  PROVE  Heap(e, s)
<1>1. Len(q) \in Nat /\ Len(s) = Len(q) /\ \A p \in 1..Len(q) : q[p] \in K
  BY DEF IsSifted
<1>2. r \in A /\ A \subseteq 1..Len(q) /\ A \subseteq 1..pos /\ r \in 1..pos /\ pos \in A
  BY <1>1, PathType DEF RestsAt
<1> SUFFICES ASSUME NEW p \in 2..Len(q) PROVE ~Less(e, s[p], s[Parent(p)])
  BY <1>1 DEF Heap
<1>3. PICK f : f = Parent(p)
  OBVIOUS
<1>4. f \in 1..Len(q) /\ f < p /\ p \in 1..Len(q) /\ p > 1
      /\ (p = 2 * f \/ p = 2 * f + 1)
  <2>1. p \in Nat /\ p > 1 /\ p <= Len(q)
    BY <1>1
  <2>2. f \in Nat /\ 1 <= f /\ f < p /\ (p = 2 * f \/ p = 2 * f + 1)
    BY <1>3, <2>1, ParentIs
  <2> QED
    BY <1>1, <2>1, <2>2
<1>5. q[p] \in K /\ q[f] \in K /\ q[pos] \in K /\ q[r] \in K
  BY <1>1, <1>2, <1>4
<1>6. p # pos => ~Less(e, q[p], q[f])
  BY <1>3 DEF HeapBut
<1>7. CASE p = r
  <2>1. s[p] = q[pos]
    BY <1>4, <1>7 DEF IsSifted
  <2>2. s[f] = q[f]
    BY <1>2, <1>4, <1>7 DEF IsSifted
  <2>3. ~Less(e, q[pos], q[f])
    BY <1>3, <1>4, <1>7 DEF RestsAt
  <2> QED
    BY <1>3, <2>1, <2>2, <2>3
<1>8. CASE p \in A /\ p > r
  <2>1. s[p] = q[f]
    BY <1>2, <1>3, <1>4, <1>8 DEF IsSifted
  <2>2. f \in A /\ r <= f
    BY <1>2, <1>3, <1>4, <1>8 DEF IsPath
  <2>3. CASE f = r
    <3>1. s[f] = q[pos]
      BY <1>4, <2>3 DEF IsSifted
    <3>2. Less(e, q[pos], q[f])
      BY <1>3, <1>8 DEF RestsAt
    <3>3. ~Less(e, q[f], q[pos])
      BY <1>5, <3>2 DEF Ordered
    <3> QED
      BY <1>3, <2>1, <3>1, <3>3
  <2>4. CASE f > r
    <3>1. s[f] = q[Parent(f)]
      BY <1>2, <1>4, <2>2, <2>4 DEF IsSifted
    <3>2. f # pos /\ f \in 2..Len(q)
      BY <1>1, <1>2, <1>4, <1>8, <2>4
    <3>3. ~Less(e, q[f], q[Parent(f)])
      BY <3>2 DEF HeapBut
    <3> QED
      BY <1>3, <2>1, <3>1, <3>3
  <2> QED
    BY <1>2, <1>4, <2>2, <2>3, <2>4
<1>9. CASE p # r /\ ~(p \in A /\ p > r)
  <2>1. s[p] = q[p]
    BY <1>4, <1>9 DEF IsSifted
  <2>2. p # pos
    BY <1>2, <1>9
  <2>3. f # pos
    BY <1>1, <1>4
  <2>4. CASE f = r
    <3>1. s[f] = q[pos]
      BY <1>4, <2>4 DEF IsSifted
    <3>2. r < pos
      BY <1>2, <2>3, <2>4
    <3>3. PICK a \in A : a > 1 /\ Parent(a) = r
      BY <1>2, <3>2 DEF IsPath
    <3>4. a > r
      BY <1>1, <1>2, <3>3, PathType
    <3>5. Less(e, q[pos], q[r])
      BY <3>3, <3>4 DEF RestsAt
    <3>6. ~Less(e, q[r], q[pos])
      BY <1>5, <3>5 DEF Ordered
    <3>7. ~Less(e, q[p], q[pos])
      BY <1>5, <1>6, <2>2, <2>4, <3>6 DEF Ordered
    <3> QED
      BY <1>3, <2>1, <3>1, <3>7
  <2>5. CASE f \in A /\ f > r
    <3>1. s[f] = q[Parent(f)]
      BY <1>2, <1>4, <2>5 DEF IsSifted
    <3>2. f \in 2..Len(q)
      BY <1>1, <1>2, <1>4, <2>5
    <3>3. ~Less(e, q[f], q[Parent(f)])
      BY <2>3, <3>2 DEF HeapBut
    <3>4. Parent(f) \in 1..Len(q)
      BY <1>1, <1>2, <2>5, PathType
    <3>5. ~Less(e, q[p], q[Parent(f)])
      BY <1>1, <1>5, <1>6, <2>2, <3>3, <3>4 DEF Ordered
    <3> QED
      BY <1>3, <2>1, <3>1, <3>5
  <2>6. CASE f # r /\ ~(f \in A /\ f > r)
    <3>1. s[f] = q[f]
      BY <1>4, <2>6 DEF IsSifted
    <3> QED
      BY <1>3, <1>6, <2>1, <2>2, <3>1
  <2> QED
    BY <2>4, <2>5, <2>6
<1> QED
  BY <1>7, <1>8, <1>9

LEMMA SiftDownInOrder ==
  ASSUME NEW e, NEW K, Ordered(e, K),
         NEW q \in Seq(K), NEW pos \in 1..Len(q), 2 * pos > Len(q), HeapBut(e, q, pos)
  PROVE  Heap(e, SiftDown(e, q, 1, pos))
<1>1. /\ IsSifted(SiftDown(e, q, 1, pos), q, pos, AncestorOf(pos), Rest(e, q, 1, pos))
      /\ IsPath(AncestorOf(pos), pos)
      /\ RestsAt(e, q, pos, AncestorOf(pos), Rest(e, q, 1, pos))
  BY SiftDownIs
<1> QED
  BY <1>1, SiftedInOrder

-----------------------------------------------------------------------------
(* The item at the top sinks and climbs back *)

\* The children along the path A to x have moved up, the first item is at x.
IsSunk(e, u, q, x, A) ==
  /\ Len(u) = Len(q)
  /\ \A p \in 1..Len(q) :
       u[p] = IF p = x THEN q[1] ELSE IF p \in A THEN q[Child(e, q, p)] ELSE q[p]

\* Where x and A are found
IsFound(e, q, x, A) ==
  /\ IsPath(A, x) /\ x \in 1..Len(q) /\ 2 * x > Len(q)
  /\ \A a \in A : a # x => 2 * a <= Len(q) /\ Child(e, q, a) \in A

LEMMA SiftUpIs ==
  ASSUME NEW e, NEW K, NEW q \in Seq(K), Len(q) > 0
  PROVE  \E u \in Seq(K), x \in 1..Len(q) :
           /\ SiftUp(e, q, 1) = SiftDown(e, u, 1, x)
           /\ IsSunk(e, u, q, x, AncestorOf(x))
           /\ IsFound(e, q, x, AncestorOf(x))
<1> DEFINE x == Leaf(e, q)[1]
           A == AncestorOf(x)
           v(p) == IF p = x THEN q[1] ELSE IF p \in A /\ p >= 1 THEN q[Child(e, q, p)] ELSE q[p]
           u == [p \in 1..Len(q) |-> v(p)]
<1>1. Len(q) \in Nat /\ 1 \in 1..Len(q)
  OBVIOUS
<1>2. SiftUp(e, q, 1) = SiftDown(e, u, 1, x)
  BY DEF SiftUp, Leaf
<1>3. SinksTo(e, q, 1, x)
  BY <1>1, Sinks
<1>4. x \in 1..Len(q) /\ x \in Nat \ {0} /\ 2 * x > Len(q)
  BY <1>1, <1>3 DEF SinksTo
<1>5. IsPath(A, x)
  BY <1>4, Ancestors
<1>6. \A a \in A : a \in 1..Len(q) /\ a >= 1
  BY <1>1, <1>4, <1>5, PathType
<1>7. \A a \in A : a # x => 2 * a <= Len(q) /\ Child(e, q, a) \in A
  BY <1>3, <1>6 DEF SinksTo
<1>8. IsFound(e, q, x, A)
  BY <1>4, <1>5, <1>7 DEF IsFound
<1> HIDE DEF A, x
<1>9. \A p \in 1..Len(q) :
        /\ v(p) = IF p = x THEN q[1] ELSE IF p \in A THEN q[Child(e, q, p)] ELSE q[p]
        /\ v(p) \in K
  BY <1>1, <1>6, <1>7
<1> HIDE DEF v
<1>10. u \in Seq(K) /\ Len(u) = Len(q)
  BY <1>1, <1>9
<1>11. IsSunk(e, u, q, x, A)
  BY <1>9, <1>10 DEF IsSunk
<1> HIDE DEF u
<1> QED
  BY <1>2, <1>4, <1>8, <1>10, <1>11 DEF A

\* The path goes by the child that moves up.
LEMMA FoundChild ==
  ASSUME NEW e, NEW q, Len(q) \in Nat, NEW x, NEW A, IsFound(e, q, x, A),
         NEW a \in A, a > 1
  PROVE  /\ Parent(a) \in A /\ Parent(a) # x /\ 2 * Parent(a) <= Len(q)
         /\ Child(e, q, Parent(a)) = a
<1>1. IsPath(A, x) /\ x \in 1..Len(q)
  BY DEF IsFound
<1>2. /\ A \subseteq 1..x /\ A \subseteq 1..Len(q)
      /\ \A b \in A : b > 1 => Parent(b) \in A /\ Parent(b) \in 1..Len(q) /\ Parent(b) < b
  BY <1>1, PathType
<1>3. Parent(a) \in A /\ Parent(a) # x
  BY <1>2
<1>4. 2 * Parent(a) <= Len(q) /\ Child(e, q, Parent(a)) \in A
  BY <1>3 DEF IsFound
<1>5. PICK c : c = Child(e, q, Parent(a))
  OBVIOUS
<1>6. c \in A /\ Parent(c) = Parent(a) /\ c > Parent(a) /\ c \in Nat /\ a \in Nat
  BY <1>2, <1>3, <1>4, <1>5, ChildIs
<1>7. ~(c < a) /\ ~(a < c)
  <2>1. c < a => c <= Parent(a)
    BY <1>1, <1>6 DEF IsPath
  <2>2. a < c => a <= Parent(c)
    BY <1>1, <1>6 DEF IsPath
  <2>3. Parent(a) < a /\ Parent(a) \in Nat
    BY <1>2
  <2> QED
    BY <1>6, <2>1, <2>2, <2>3
<1> QED
  BY <1>3, <1>4, <1>5, <1>6, <1>7

LEMMA SunkKeeps ==
  ASSUME NEW e, NEW q, Len(q) \in Nat, NEW x, NEW A, IsFound(e, q, x, A),
         NEW u, IsSunk(e, u, q, x, A)
  PROVE  Contents(u) = Contents(q)
<1>1. IsPath(A, x) /\ x \in 1..Len(q)
  BY DEF IsFound
<1>2. A \subseteq 1..Len(q) /\ 1 \in 1..Len(q)
  BY <1>1, PathType
<1>3. ASSUME NEW p \in 1..Len(q) PROVE u[p] \in Contents(q)
  <2>1. CASE p # x /\ p \in A
    <3>1. Child(e, q, p) \in 1..Len(q)
      BY <1>2, <2>1 DEF IsFound
    <3> QED
      BY <2>1, <3>1 DEF Contents, IsSunk
  <2>2. CASE ~(p # x /\ p \in A)
    BY <1>2, <2>2 DEF Contents, IsSunk
  <2> QED
    BY <2>1, <2>2
<1>4. ASSUME NEW p \in 1..Len(q) PROVE q[p] \in Contents(u)
  <2>1. CASE p = 1
    BY <1>1, <2>1 DEF Contents, IsSunk
  <2>2. CASE p > 1 /\ p \in A
    <3>1. Parent(p) \in A /\ Parent(p) # x /\ Child(e, q, Parent(p)) = p
      BY <2>2, FoundChild
    <3>2. Parent(p) \in 1..Len(q)
      BY <1>2, <3>1
    <3>3. u[Parent(p)] = q[p]
      BY <3>1, <3>2 DEF IsSunk
    <3> QED
      BY <3>2, <3>3 DEF Contents, IsSunk
  <2>3. CASE p \notin A
    <3>1. p # x
      BY <1>1, <2>3 DEF IsPath
    <3>2. u[p] = q[p]
      BY <2>3, <3>1 DEF IsSunk
    <3> QED
      BY <3>2 DEF Contents, IsSunk
  <2> QED
    BY <2>1, <2>2, <2>3
<1> QED
  BY <1>3, <1>4 DEF Contents, IsSunk

LEMMA SiftUpKeeps ==
  ASSUME NEW e, NEW K, NEW q \in Seq(K), Len(q) > 0
  PROVE  /\ SiftUp(e, q, 1) \in Seq(K)
         /\ Len(SiftUp(e, q, 1)) = Len(q)
         /\ Contents(SiftUp(e, q, 1)) = Contents(q)
<1>1. PICK u \in Seq(K), x \in 1..Len(q) :
         /\ SiftUp(e, q, 1) = SiftDown(e, u, 1, x)
         /\ IsSunk(e, u, q, x, AncestorOf(x))
         /\ IsFound(e, q, x, AncestorOf(x))
  BY SiftUpIs
<1>2. Len(q) \in Nat /\ Len(u) = Len(q)
  BY <1>1 DEF IsSunk
<1>3. Contents(u) = Contents(q)
  BY <1>1, <1>2, SunkKeeps
<1>4. /\ SiftDown(e, u, 1, x) \in Seq(K)
      /\ Len(SiftDown(e, u, 1, x)) = Len(u)
      /\ Contents(SiftDown(e, u, 1, x)) = Contents(u)
  BY <1>2, SiftDownKeeps
<1> QED
  BY <1>1, <1>2, <1>3, <1>4

\* In order but for the first item
HeapBelow(e, q) == \A p \in 2..Len(q) : Parent(p) # 1 => ~Less(e, q[p], q[Parent(p)])

\* Of two children, that which moves up does not go after the other.
LEMMA ChildFirst ==
  ASSUME NEW e, NEW K, Ordered(e, K), NEW q \in Seq(K), NEW p \in 2..Len(q)
  PROVE  ~Less(e, q[p], q[Child(e, q, Parent(p))]) \/ Child(e, q, Parent(p)) = p
<1>1. PICK f : f = Parent(p)
  OBVIOUS
<1>2. Len(q) \in Nat /\ p \in Nat /\ p > 1 /\ p <= Len(q)
  OBVIOUS
<1>3. f \in Nat /\ 1 <= f /\ (p = 2 * f \/ p = 2 * f + 1)
  BY <1>1, <1>2, ParentIs
<1>4. CASE p = 2 * f + 1
  <2>1. 2 * f < Len(q) /\ q[2 * f] \in K /\ q[p] \in K
    BY <1>2, <1>3, <1>4
  <2>2. CASE Less(e, q[2 * f], q[p])
    <3>1. Child(e, q, f) = 2 * f
      BY <1>4, <2>2 DEF Child
    <3>2. ~Less(e, q[p], q[2 * f])
      BY <2>1, <2>2 DEF Ordered
    <3> QED
      BY <1>1, <3>1, <3>2
  <2>3. CASE ~Less(e, q[2 * f], q[p])
    <3>1. Child(e, q, f) = p
      BY <1>4, <2>1, <2>3 DEF Child
    <3> QED
      BY <1>1, <3>1
  <2> QED
    BY <2>2, <2>3
<1>5. CASE p = 2 * f
  <2>1. Child(e, q, f) # p => ~Less(e, q[p], q[Child(e, q, f)])
    BY <1>5 DEF Child
  <2> QED
    BY <1>1, <2>1
<1> QED
  BY <1>3, <1>4, <1>5

LEMMA SunkInOrder ==
  ASSUME NEW e, NEW K, Ordered(e, K), NEW q \in Seq(K), HeapBelow(e, q),
         NEW x, NEW A, IsFound(e, q, x, A), NEW u, IsSunk(e, u, q, x, A)
  PROVE  HeapBut(e, u, x)
<1>1. Len(q) \in Nat /\ Len(u) = Len(q)
  BY DEF IsSunk
<1>2. IsPath(A, x) /\ x \in 1..Len(q)
  BY DEF IsFound
<1>3. A \subseteq 1..Len(q)
  BY <1>1, <1>2, PathType
<1> SUFFICES ASSUME NEW p \in 2..Len(q), p # x PROVE ~Less(e, u[p], u[Parent(p)])
  BY <1>1 DEF HeapBut
<1>4. PICK f : f = Parent(p)
  OBVIOUS
<1>5. p \in Nat /\ p > 1 /\ p <= Len(q) /\ p \in 1..Len(q)
  BY <1>1
<1>6. f \in Nat /\ 1 <= f /\ f < p /\ (p = 2 * f \/ p = 2 * f + 1)
  BY <1>4, <1>5, ParentIs
<1>7. f \in 1..Len(q) /\ f # x
  BY <1>1, <1>5, <1>6 DEF IsFound
<1>8. CASE p \in A
  <2>1. f \in A /\ Child(e, q, f) = p
    BY <1>1, <1>4, <1>5, <1>8, FoundChild
  <2>2. u[f] = q[p]
    BY <1>7, <2>1 DEF IsSunk
  <2>3. PICK c : c = Child(e, q, p)
    OBVIOUS
  <2>4. u[p] = q[c]
    BY <1>5, <1>8, <2>3 DEF IsSunk
  <2>5. 2 * p <= Len(q)
    BY <1>8 DEF IsFound
  <2>6. c \in 1..Len(q) /\ c > p /\ Parent(c) = p
    BY <1>1, <1>5, <2>3, <2>5, ChildIs
  <2>7. c \in 2..Len(q) /\ Parent(c) # 1
    BY <1>1, <1>5, <2>6
  <2>8. ~Less(e, q[c], q[p])
    BY <2>6, <2>7 DEF HeapBelow
  <2> QED
    BY <1>4, <2>2, <2>4, <2>8
<1>9. CASE p \notin A /\ f \in A
  <2>1. u[p] = q[p] /\ u[f] = q[Child(e, q, f)]
    BY <1>5, <1>7, <1>9 DEF IsSunk
  <2>2. Child(e, q, f) \in A
    BY <1>7, <1>9 DEF IsFound
  <2>3. Child(e, q, f) # p
    BY <1>9, <2>2
  <2>4. ~Less(e, q[p], q[Child(e, q, f)])
    BY <1>4, <2>3, ChildFirst
  <2> QED
    BY <1>4, <2>1, <2>4
<1>10. CASE p \notin A /\ f \notin A
  <2>1. u[p] = q[p] /\ u[f] = q[f]
    BY <1>5, <1>7, <1>10 DEF IsSunk
  <2>2. f # 1
    BY <1>2, <1>10 DEF IsPath
  <2>3. ~Less(e, q[p], q[f])
    BY <1>4, <2>2 DEF HeapBelow
  <2> QED
    BY <1>4, <2>1, <2>3
<1> QED
  BY <1>8, <1>9, <1>10

LEMMA SiftUpInOrder ==
  ASSUME NEW e, NEW K, Ordered(e, K), NEW q \in Seq(K), Len(q) > 0, HeapBelow(e, q)
  PROVE  Heap(e, SiftUp(e, q, 1))
<1>1. PICK u \in Seq(K), x \in 1..Len(q) :
         /\ SiftUp(e, q, 1) = SiftDown(e, u, 1, x)
         /\ IsSunk(e, u, q, x, AncestorOf(x))
         /\ IsFound(e, q, x, AncestorOf(x))
  BY SiftUpIs
<1>2. HeapBut(e, u, x)
  BY <1>1, SunkInOrder
<1>3. x \in 1..Len(u) /\ 2 * x > Len(u)
  BY <1>1 DEF IsSunk, IsFound
<1>4. Heap(e, SiftDown(e, u, 1, x))
  BY <1>2, <1>3, SiftDownInOrder
<1> QED
  BY <1>1, <1>4

-----------------------------------------------------------------------------
(* What the operations do to the array *)

\* k at the end of q, as enqueue puts it before the sift
Added(q, k) == Append(q, k)

LEMMA AddedIs ==
  ASSUME NEW K, NEW q \in Seq(K), NEW k \in K
  PROVE  /\ Added(q, k) \in Seq(K) /\ Len(Added(q, k)) = Len(q) + 1
         /\ Added(q, k)[Len(q) + 1] = k
         /\ \A p \in 1..Len(q) : Added(q, k)[p] = q[p]
         /\ Contents(Added(q, k)) = Contents(q) \cup {k}
<1>1. PICK a : a = Added(q, k)
  OBVIOUS
<1>2. /\ a \in Seq(K) /\ Len(a) = Len(q) + 1 /\ Len(q) \in Nat
      /\ a[Len(q) + 1] = k
      /\ \A p \in 1..Len(q) : a[p] = q[p]
  BY <1>1 DEF Added
<1>3. ASSUME NEW p \in 1..Len(a) PROVE a[p] \in Contents(q) \cup {k}
  <2>1. p \in 1..Len(q) \/ p = Len(q) + 1
    BY <1>2
  <2> QED
    BY <1>2, <2>1 DEF Contents
<1>4. ASSUME NEW x \in Contents(q) \cup {k} PROVE x \in Contents(a)
  <2>1. \A p \in 1..Len(q) : p \in 1..Len(a)
    BY <1>2
  <2>2. Len(q) + 1 \in 1..Len(a)
    BY <1>2
  <2> QED
    BY <1>2, <2>1, <2>2 DEF Contents
<1>5. Contents(a) = Contents(q) \cup {k}
  BY <1>3, <1>4 DEF Contents
<1> QED
  BY <1>1, <1>2, <1>5

\* The last item in the place of the first
Replaced(q) == [SubSeq(q, 1, Len(q) - 1) EXCEPT ![1] = q[Len(q)]]

\* All but the first
Others(q) == {q[p] : p \in 2..Len(q)}

LEMMA ReplacedIs ==
  ASSUME NEW K, NEW q \in Seq(K), Len(q) > 1
  PROVE  /\ Replaced(q) \in Seq(K) /\ Len(Replaced(q)) = Len(q) - 1
         /\ \A p \in 2..Len(q) - 1 : Replaced(q)[p] = q[p]
         /\ Contents(Replaced(q)) = Others(q)
<1>1. PICK b : b = SubSeq(q, 1, Len(q) - 1)
  OBVIOUS
<1>2. /\ b \in Seq(K) /\ Len(b) = Len(q) - 1 /\ Len(q) \in Nat
      /\ \A p \in 1..Len(q) - 1 : b[p] = q[p]
  BY <1>1
<1>3. PICK a : a = [b EXCEPT ![1] = q[Len(q)]]
  OBVIOUS
<1>4. q[Len(q)] \in K /\ 1 \in 1..Len(b)
  BY <1>2
<1>5. /\ a \in Seq(K) /\ Len(a) = Len(q) - 1 /\ a[1] = q[Len(q)]
      /\ \A p \in 2..Len(q) - 1 : a[p] = q[p]
  BY <1>2, <1>3, <1>4
<1>6. ASSUME NEW p \in 1..Len(a) PROVE a[p] \in Others(q)
  <2>1. CASE p = 1
    BY <1>2, <1>5, <2>1 DEF Others
  <2>2. CASE p # 1
    <3>1. p \in 2..Len(q) - 1 /\ p \in 2..Len(q)
      BY <1>2, <1>5, <2>2
    <3> QED
      BY <1>5, <3>1 DEF Others
  <2> QED
    BY <2>1, <2>2
<1>7. ASSUME NEW p \in 2..Len(q) PROVE q[p] \in Contents(a)
  <2>1. CASE p = Len(q)
    <3>1. 1 \in 1..Len(a) /\ a[1] = q[p]
      BY <1>2, <1>5, <2>1
    <3> QED
      BY <3>1 DEF Contents
  <2>2. CASE p # Len(q)
    <3>1. p \in 2..Len(q) - 1 /\ p \in 1..Len(a)
      BY <1>2, <1>5, <2>2
    <3>2. a[p] = q[p]
      BY <1>5, <3>1
    <3> QED
      BY <3>1, <3>2 DEF Contents
  <2> QED
    BY <2>1, <2>2
<1>8. Contents(a) = Others(q)
  BY <1>6, <1>7 DEF Contents, Others
<1>9. a = Replaced(q)
  BY <1>1, <1>3 DEF Replaced
<1> QED
  BY <1>5, <1>8, <1>9

LEMMA ReheapedKeeps ==
  ASSUME NEW e, NEW K, NEW q \in Seq(K), Len(q) > 0
  PROVE  /\ Reheaped(e, q) \in Seq(K) /\ Len(Reheaped(e, q)) = Len(q) - 1
         /\ Contents(Reheaped(e, q)) = Others(q)
<1>1. CASE Len(q) = 1
  <2>1. Reheaped(e, q) = <<>>
    BY <1>1 DEF Reheaped
  <2>2. Contents(<<>>) = {} /\ Others(q) = {}
    BY <1>1 DEF Contents, Others
  <2> QED
    BY <1>1, <2>1, <2>2
<1>2. CASE Len(q) # 1
  <2>1. Reheaped(e, q) = SiftUp(e, Replaced(q), 1)
    BY <1>2 DEF Reheaped, Replaced
  <2>2. Len(q) > 1 /\ Len(q) \in Nat
    <3>1. PICK n \in Nat : n = Len(q)
      OBVIOUS
    <3>2. n > 0 /\ n # 1
      BY <1>2, <3>1
    <3> QED
      BY <3>1, <3>2
  <2>3. /\ Replaced(q) \in Seq(K) /\ Len(Replaced(q)) = Len(q) - 1
        /\ Contents(Replaced(q)) = Others(q)
    BY <2>2, ReplacedIs
  <2>4. Len(Replaced(q)) > 0
    BY <2>2, <2>3
  <2>5. /\ SiftUp(e, Replaced(q), 1) \in Seq(K)
        /\ Len(SiftUp(e, Replaced(q), 1)) = Len(Replaced(q))
        /\ Contents(SiftUp(e, Replaced(q), 1)) = Contents(Replaced(q))
    BY <2>3, <2>4, SiftUpKeeps
  <2> QED
    BY <2>1, <2>3, <2>5
<1> QED
  BY <1>1, <1>2

LEMMA ReheapedInOrder ==
  ASSUME NEW e, NEW K, Ordered(e, K), NEW q \in Seq(K), Len(q) > 0, Heap(e, q)
  PROVE  Heap(e, Reheaped(e, q))
<1>1. CASE Len(q) = 1
  BY <1>1 DEF Reheaped, Heap
<1>2. CASE Len(q) # 1
  <2>1. Reheaped(e, q) = SiftUp(e, Replaced(q), 1)
    BY <1>2 DEF Reheaped, Replaced
  <2>2. Len(q) > 1 /\ Len(q) \in Nat
    <3>1. PICK n \in Nat : n = Len(q)
      OBVIOUS
    <3>2. n > 0 /\ n # 1
      BY <1>2, <3>1
    <3> QED
      BY <3>1, <3>2
  <2>3. /\ Replaced(q) \in Seq(K) /\ Len(Replaced(q)) = Len(q) - 1
        /\ \A p \in 2..Len(q) - 1 : Replaced(q)[p] = q[p]
    BY <2>2, ReplacedIs
  <2>4. Len(Replaced(q)) > 0
    BY <2>2, <2>3
  <2>5. ASSUME NEW p \in 2..Len(Replaced(q)), Parent(p) # 1
        PROVE  ~Less(e, Replaced(q)[p], Replaced(q)[Parent(p)])
    <3>1. p \in Nat /\ p > 1 /\ p \in 2..Len(q) - 1 /\ p \in 2..Len(q)
      BY <2>2, <2>3
    <3>2. Parent(p) \in Nat /\ 1 <= Parent(p) /\ Parent(p) < p
      BY <3>1, ParentIs
    <3>3. Parent(p) \in 2..Len(q) - 1
      BY <2>2, <2>5, <3>1, <3>2
    <3>4. ~Less(e, q[p], q[Parent(p)])
      BY <3>1 DEF Heap
    <3> QED
      BY <2>3, <3>1, <3>3, <3>4
  <2>6. HeapBelow(e, Replaced(q))
    BY <2>5 DEF HeapBelow
  <2>7. Heap(e, SiftUp(e, Replaced(q), 1))
    BY <2>3, <2>4, <2>6, SiftUpInOrder
  <2> QED
    BY <2>1, <2>7
<1> QED
  BY <1>1, <1>2

-----------------------------------------------------------------------------
(* The keys *)

LEMMA ContentsCount ==
  ASSUME NEW K, NEW q \in Seq(K)
  PROVE  IsFiniteSet(Contents(q)) /\ Cardinality(Contents(q)) <= Len(q)
<1>1. Len(q) \in Nat
  OBVIOUS
<1>2. IsFiniteSet(1..Len(q)) /\ Cardinality(1..Len(q)) = Len(q)
  BY <1>1, FS_Interval
<1>3. PICK f : f = [p \in 1..Len(q) |-> q[p]]
  OBVIOUS
<1>4. f \in Surjection(1..Len(q), Contents(q))
  BY <1>3 DEF Surjection, Contents
<1> QED
  BY <1>2, <1>4, FS_Surjection

\* The first key is in the array once, if there are as many keys as items.
LEMMA OthersAre ==
  ASSUME NEW K, NEW q \in Seq(K), Len(q) > 0, Len(q) = Cardinality(Contents(q))
  PROVE  /\ Others(q) = Contents(q) \ {q[1]}
         /\ Cardinality(Others(q)) = Len(q) - 1 /\ IsFiniteSet(Others(q))
         /\ q[1] \in Contents(q)
<1>1. Len(q) \in Nat /\ 1 \in 1..Len(q)
  OBVIOUS
<1>2. PICK b : b = Reheaped([k \in {} |-> Null], q)
  OBVIOUS
<1>3. b \in Seq(K) /\ Len(b) = Len(q) - 1 /\ Contents(b) = Others(q)
  BY <1>2, ReheapedKeeps
<1>4. IsFiniteSet(Others(q)) /\ Cardinality(Others(q)) <= Len(q) - 1
  BY <1>3, ContentsCount
<1>5. Contents(q) = Others(q) \cup {q[1]}
  <2>1. \A p \in 1..Len(q) : p = 1 \/ p \in 2..Len(q)
    BY <1>1
  <2>2. \A p \in 2..Len(q) : p \in 1..Len(q)
    BY <1>1
  <2> QED
    BY <1>1, <2>1, <2>2 DEF Contents, Others
<1>6. /\ Cardinality(Others(q)) \in Nat
      /\ Cardinality(Contents(q)) =
           IF q[1] \in Others(q) THEN Cardinality(Others(q)) ELSE Cardinality(Others(q)) + 1
  BY <1>4, <1>5, FS_AddElement, FS_CardinalityType
<1>7. q[1] \notin Others(q) /\ Cardinality(Others(q)) = Len(q) - 1
  BY <1>1, <1>4, <1>6
<1> QED
  BY <1>4, <1>5, <1>7

LEMMA InitKeys == Init => KeysAgree
<1> SUFFICES ASSUME Init PROVE KeysAgree
  OBVIOUS
<1>1. queue = <<>> /\ queueKeys = [k \in {} |-> Null]
  BY DEF Init
<1>2. queue \in Seq(Keys) /\ Len(queue) = 0 /\ DOMAIN queueKeys = {}
  BY <1>1
<1>3. {queue[p] : p \in 1..Len(queue)} = {}
  BY <1>2
<1>4. queueKeys \in [{} -> Entries]
  BY <1>1
<1>5. Cardinality({}) = 0
  BY FS_EmptySet
<1> QED
  BY <1>2, <1>3, <1>4, <1>5 DEF KeysAgree

LEMMA EnqueueKeys ==
  ASSUME KeysAgree, NEW k \in Keys, NEW o \in Objects, NEW sel \in Selectors,
         Enqueue(k, o, sel), k \notin DOMAIN queueKeys
  PROVE  KeysAgree'
<1>1. /\ queue \in Seq(Keys) /\ Len(queue) \in Nat
      /\ queueKeys \in [Contents(queue) -> Entries]
      /\ Len(queue) = Cardinality(Contents(queue))
  BY DEF KeysAgree, Contents
<1>2. /\ queueKeys' = [j \in DOMAIN queueKeys \cup {k} |->
                         IF j = k THEN [sel |-> sel, obj |-> o] ELSE queueKeys[j]]
      /\ queue' = SiftDown(queueKeys', Added(queue, k), 1, Len(queue) + 1)
  BY DEF Enqueue, Added
<1>3. /\ Added(queue, k) \in Seq(Keys) /\ Len(Added(queue, k)) = Len(queue) + 1
      /\ Contents(Added(queue, k)) = Contents(queue) \cup {k}
  <2>1. queue \in Seq(Keys)
    BY <1>1
  <2>2. Added(queue, k) \in Seq(Keys)
    BY <2>1, AddedIs
  <2>3. Len(Added(queue, k)) = Len(queue) + 1
    BY <2>1, AddedIs
  <2>4. Contents(Added(queue, k)) = Contents(queue) \cup {k}
    BY <2>1, AddedIs
  <2> QED
    BY <2>2, <2>3, <2>4
<1>4. Len(queue) + 1 \in 1..Len(Added(queue, k))
  BY <1>1, <1>3
<1>5. PICK e : e = queueKeys'
  OBVIOUS
<1>6. /\ SiftDown(e, Added(queue, k), 1, Len(queue) + 1) \in Seq(Keys)
      /\ Len(SiftDown(e, Added(queue, k), 1, Len(queue) + 1)) = Len(Added(queue, k))
      /\ Contents(SiftDown(e, Added(queue, k), 1, Len(queue) + 1)) = Contents(Added(queue, k))
  BY <1>3, <1>4, SiftDownKeeps
<1>7. /\ queue' \in Seq(Keys) /\ Len(queue') = Len(queue) + 1
      /\ Contents(queue') = Contents(queue) \cup {k}
  BY <1>2, <1>3, <1>5, <1>6
<1>8. [sel |-> sel, obj |-> o] \in Entries
  BY DEF Entries
<1>9. queueKeys' \in [Contents(queue) \cup {k} -> Entries]
  BY <1>1, <1>2, <1>8
<1>10. IsFiniteSet(Contents(queue))
  BY <1>1, ContentsCount
<1>11. Cardinality(Contents(queue) \cup {k}) = Len(queue) + 1
  BY <1>1, <1>10, FS_AddElement
<1>12. DOMAIN queueKeys' = Contents(queue) \cup {k}
  BY <1>9
<1> QED
  BY <1>7, <1>9, <1>11, <1>12 DEF KeysAgree, Contents

LEMMA DequeueKeys ==
  ASSUME KeysAgree, Dequeue, queue # <<>>
  PROVE  KeysAgree'
<1>1. /\ queue \in Seq(Keys) /\ Len(queue) \in Nat /\ Len(queue) > 0 /\ Head(queue) = queue[1]
      /\ queueKeys \in [Contents(queue) -> Entries]
      /\ Len(queue) = Cardinality(Contents(queue))
  BY DEF KeysAgree, Contents
<1>2. /\ queue' = Reheaped(queueKeys, queue)
      /\ queueKeys' = Restrict(queueKeys, DOMAIN queueKeys \ {queue[1]})
  BY <1>1 DEF Dequeue
<1>3. queue' \in Seq(Keys) /\ Len(queue') = Len(queue) - 1 /\ Contents(queue') = Others(queue)
  BY <1>1, <1>2, ReheapedKeeps
<1>4. /\ Others(queue) = Contents(queue) \ {queue[1]}
      /\ Cardinality(Others(queue)) = Len(queue) - 1
  BY <1>1, OthersAre
<1>5. queueKeys' \in [Others(queue) -> Entries]
  BY <1>1, <1>2, <1>4 DEF Restrict
<1>6. DOMAIN queueKeys' = Others(queue)
  BY <1>5
<1> QED
  BY <1>3, <1>4, <1>5, <1>6 DEF KeysAgree, Contents

LEMMA NextKeys == KeysAgree /\ [Next]_vars => KeysAgree'
<1> SUFFICES ASSUME KeysAgree, [Next]_vars PROVE KeysAgree'
  OBVIOUS
<1>1. CASE UNCHANGED <<queue, queueKeys>>
  BY <1>1 DEF KeysAgree
<1>2. ASSUME NEW k \in Keys, NEW o \in Objects, NEW sel \in Selectors, Enqueue(k, o, sel)
      PROVE  KeysAgree'
  <2>1. CASE k \in DOMAIN queueKeys
    BY <1>1, <1>2, <2>1 DEF Enqueue
  <2>2. CASE k \notin DOMAIN queueKeys
    BY <1>2, <2>2, EnqueueKeys
  <2> QED
    BY <2>1, <2>2
<1>3. CASE Dequeue
  <2>1. CASE queue = <<>>
    BY <1>1, <1>3, <2>1 DEF Dequeue
  <2>2. CASE queue # <<>>
    BY <1>3, <2>2, DequeueKeys
  <2> QED
    BY <2>1, <2>2
<1> QED
  BY <1>1, <1>2, <1>3 DEF Next, vars

\* Every key in the array is in the dictionary and the other way round, and none
\* is in the array twice, however the heap is rearranged and whichever
\* selectors are mixed in it (enqueue:..., dequeue).
THEOREM KeysStayTogether == Spec => []KeysAgree
<1>1. KeysAgree /\ UNCHANGED vars => KeysAgree'
  BY DEF KeysAgree, vars
<1> QED
  BY InitKeys, NextKeys, PTL DEF Spec

-----------------------------------------------------------------------------
(* The order *)

\* One selector is in use, so that keys are compared one way.
OneSelector == \E sel : Selectors = {sel}

LEMMA EntriesSort ==
  ASSUME OneSelector, NEW K, NEW e \in [K -> Entries]
  PROVE  /\ Ordered(e, K)
         /\ \A a \in K : ~Less(e, a, a)
<1>1. PICK sel : Selectors = {sel}
  BY DEF OneSelector
<1>2. \A a \in K : e[a].sel = sel /\ e[a].obj \in Objects
  BY <1>1 DEF Entries
<1>3. \A o \in Objects : Date[o] \in Nat
  BY QueueAssumption
<1>4. \A a \in K : Date[e[a].obj] \in Nat
  BY <1>2, <1>3
<1>5. CASE sel = "compareDates:"
  <2>1. \A a, b \in K : Less(e, a, b) <=> Date[e[a].obj] > Date[e[b].obj]
    BY <1>2, <1>5 DEF Less, Ascends
  <2> QED
    BY <1>4, <2>1 DEF Ordered
<1>6. CASE sel # "compareDates:"
  <2>1. \A a, b \in K : Less(e, a, b) <=> Date[e[a].obj] < Date[e[b].obj]
    BY <1>2, <1>6 DEF Less, Ascends
  <2> QED
    BY <1>4, <2>1 DEF Ordered
<1> QED
  BY <1>5, <1>6

\* What is compared are the entries of the array's own keys.
LEMMA HeapSame ==
  ASSUME NEW e, NEW g, NEW q, Len(q) \in Nat,
         \A x \in Contents(q) : e[x] = g[x], Heap(e, q)
  PROVE  Heap(g, q)
<1> SUFFICES ASSUME NEW p \in 2..Len(q) PROVE ~Less(g, q[p], q[Parent(p)])
  BY DEF Heap
<1>1. p \in Nat /\ p > 1 /\ p \in 1..Len(q)
  OBVIOUS
<1>2. Parent(p) \in Nat /\ 1 <= Parent(p) /\ Parent(p) < p
  BY <1>1, ParentIs
<1>3. Parent(p) \in 1..Len(q)
  BY <1>1, <1>2
<1>4. e[q[p]] = g[q[p]] /\ e[q[Parent(p)]] = g[q[Parent(p)]]
  BY <1>1, <1>3 DEF Contents
<1>5. ~Less(e, q[p], q[Parent(p)])
  BY DEF Heap
<1> QED
  BY <1>4, <1>5 DEF Less

\* A new last item may go before its parent, and nothing else is disturbed.
LEMMA AddedHeap ==
  ASSUME NEW e, NEW K, NEW q \in Seq(K), NEW k \in K, Heap(e, q)
  PROVE  HeapBut(e, Added(q, k), Len(q) + 1)
<1>1. PICK a : a = Added(q, k)
  OBVIOUS
<1>2. Len(a) = Len(q) + 1 /\ Len(q) \in Nat /\ \A p \in 1..Len(q) : a[p] = q[p]
  BY <1>1 DEF Added
<1>3. ASSUME NEW p \in 2..Len(a), p # Len(q) + 1
      PROVE  ~Less(e, a[p], a[Parent(p)])
  <2>1. p \in 2..Len(q) /\ p \in Nat /\ p > 1 /\ p \in 1..Len(q)
    BY <1>2, <1>3
  <2>2. Parent(p) \in Nat /\ 1 <= Parent(p) /\ Parent(p) < p
    BY <2>1, ParentIs
  <2>3. Parent(p) \in 1..Len(q)
    BY <2>1, <2>2
  <2>4. ~Less(e, q[p], q[Parent(p)])
    BY <2>1 DEF Heap
  <2> QED
    BY <1>2, <2>1, <2>3, <2>4
<1> QED
  BY <1>1, <1>3 DEF HeapBut

LEMMA EnqueueHeap ==
  ASSUME OneSelector, KeysAgree, HeapOrdered, KeysAgree',
         NEW k \in Keys, NEW o \in Objects, NEW sel \in Selectors,
         Enqueue(k, o, sel), k \notin DOMAIN queueKeys
  PROVE  HeapOrdered'
<1> DEFINE K == Contents(queue) \cup {k}
<1>1. /\ queue \in Seq(Keys) /\ Len(queue) \in Nat
      /\ queueKeys \in [Contents(queue) -> Entries]
  BY DEF KeysAgree, Contents
<1>2. PICK e : e = queueKeys'
  OBVIOUS
<1>3. /\ e = [j \in DOMAIN queueKeys \cup {k} |->
                IF j = k THEN [sel |-> sel, obj |-> o] ELSE queueKeys[j]]
      /\ queue' = SiftDown(e, Added(queue, k), 1, Len(queue) + 1)
  BY <1>2 DEF Enqueue, Added
<1>4. [sel |-> sel, obj |-> o] \in Entries
  BY DEF Entries
<1>5. e \in [K -> Entries]
  BY <1>1, <1>3, <1>4
<1>6. Ordered(e, K)
  BY <1>5, EntriesSort
<1>7. \A x \in Contents(queue) : queueKeys[x] = e[x]
  BY <1>1, <1>3
<1>8. Heap(queueKeys, queue)
  BY DEF HeapOrdered, Heap
<1>9. Heap(e, queue)
  BY <1>1, <1>7, <1>8, HeapSame
<1>10. queue \in Seq(K) /\ k \in K
  <2>1. \A p \in 1..Len(queue) : queue[p] \in K
    BY DEF Contents
  <2> QED
    BY <1>1, <2>1
<1> HIDE DEF K
<1>11. HeapBut(e, Added(queue, k), Len(queue) + 1)
  BY <1>9, <1>10, AddedHeap
<1>12. Added(queue, k) \in Seq(K) /\ Len(Added(queue, k)) = Len(queue) + 1
  BY <1>10, AddedIs
<1>13. /\ Len(queue) + 1 \in 1..Len(Added(queue, k))
       /\ 2 * (Len(queue) + 1) > Len(Added(queue, k))
  BY <1>1, <1>12
<1>14. Heap(e, SiftDown(e, Added(queue, k), 1, Len(queue) + 1))
  BY <1>6, <1>11, <1>12, <1>13, SiftDownInOrder
<1>15. Heap(e, queue')
  BY <1>3, <1>14
<1> QED
  BY <1>2, <1>15 DEF HeapOrdered, Heap

LEMMA DequeueHeap ==
  ASSUME OneSelector, KeysAgree, HeapOrdered, Dequeue, queue # <<>>
  PROVE  HeapOrdered'
<1>1. /\ queue \in Seq(Keys) /\ Len(queue) \in Nat /\ Len(queue) > 0 /\ Head(queue) = queue[1]
      /\ queueKeys \in [Contents(queue) -> Entries]
      /\ Len(queue) = Cardinality(Contents(queue))
  BY DEF KeysAgree, Contents
<1>2. /\ queue' = Reheaped(queueKeys, queue)
      /\ queueKeys' = Restrict(queueKeys, DOMAIN queueKeys \ {queue[1]})
  BY <1>1 DEF Dequeue
<1>3. Ordered(queueKeys, Contents(queue))
  BY <1>1, EntriesSort
<1>4. queue \in Seq(Contents(queue))
  <2>1. \A p \in 1..Len(queue) : queue[p] \in Contents(queue)
    BY DEF Contents
  <2> QED
    BY <1>1, <2>1
<1>5. Heap(queueKeys, queue)
  BY DEF HeapOrdered, Heap
<1>6. Heap(queueKeys, Reheaped(queueKeys, queue))
  BY <1>1, <1>3, <1>4, <1>5, ReheapedInOrder
<1>7. queue' \in Seq(Keys) /\ Contents(queue') = Others(queue) /\ Len(queue') \in Nat
  BY <1>1, <1>2, ReheapedKeeps
<1>8. Others(queue) = Contents(queue) \ {queue[1]}
  BY <1>1, OthersAre
<1>9. \A x \in Contents(queue') : queueKeys[x] = queueKeys'[x]
  BY <1>1, <1>2, <1>7, <1>8 DEF Restrict
<1>10. PICK g : g = queueKeys'
  OBVIOUS
<1>11. PICK q : q = queue'
  OBVIOUS
<1>12. Heap(g, q)
  BY <1>2, <1>6, <1>7, <1>9, <1>10, <1>11, HeapSame
<1> QED
  BY <1>10, <1>11, <1>12 DEF HeapOrdered, Heap

\* No key goes before its parent after any number of calls, as long as one
\* selector is in use (siftDown::, siftUp:).
THEOREM HeapStaysOrdered ==
  ASSUME OneSelector
  PROVE  Spec => []HeapOrdered
<1>1. Init => HeapOrdered
  BY DEF Init, HeapOrdered
<1>2. KeysAgree /\ KeysAgree' /\ HeapOrdered /\ [Next]_vars => HeapOrdered'
  <2> SUFFICES ASSUME KeysAgree, KeysAgree', HeapOrdered, [Next]_vars PROVE HeapOrdered'
    OBVIOUS
  <2>1. CASE UNCHANGED <<queue, queueKeys>>
    BY <2>1 DEF HeapOrdered, Less
  <2>2. ASSUME NEW k \in Keys, NEW o \in Objects, NEW sel \in Selectors, Enqueue(k, o, sel)
        PROVE  HeapOrdered'
    <3>1. CASE k \in DOMAIN queueKeys
      BY <2>1, <2>2, <3>1 DEF Enqueue
    <3>2. CASE k \notin DOMAIN queueKeys
      BY <2>2, <3>2, EnqueueHeap
    <3> QED
      BY <3>1, <3>2
  <2>3. CASE Dequeue
    <3>1. CASE queue = <<>>
      BY <2>1, <2>3, <3>1 DEF Dequeue
    <3>2. CASE queue # <<>>
      BY <2>3, <3>2, DequeueHeap
    <3> QED
      BY <3>1, <3>2
  <2> QED
    BY <2>1, <2>2, <2>3 DEF Next, vars
<1> QED
  BY <1>1, <1>2, KeysStayTogether, PTL DEF Spec

-----------------------------------------------------------------------------
(* What is given back *)

\* Nothing in a heap goes before its first item.
LEMMA RootFirst ==
  ASSUME NEW e, NEW K, Ordered(e, K), \A a \in K : ~Less(e, a, a),
         NEW q \in Seq(K), Len(q) > 0, Heap(e, q)
  PROVE  \A p \in 1..Len(q) : ~Less(e, q[p], q[1])
<1> DEFINE S == {p \in 1..Len(q) : ~Less(e, q[p], q[1])}
<1>1. Len(q) \in Nat /\ 1 \in 1..Len(q) /\ \A p \in 1..Len(q) : q[p] \in K
  OBVIOUS
<1>2. ASSUME NEW p \in 1..Len(q), \A j \in 1..Len(q) : j < p => j \in S PROVE p \in S
  <2>1. CASE p = 1
    BY <1>1, <2>1
  <2>2. CASE p # 1
    <3>1. p \in Nat /\ p > 1 /\ p \in 2..Len(q)
      BY <2>2
    <3>2. Parent(p) \in Nat /\ 1 <= Parent(p) /\ Parent(p) < p
      BY <3>1, ParentIs
    <3>3. Parent(p) \in 1..Len(q)
      BY <3>1, <3>2
    <3>4. ~Less(e, q[Parent(p)], q[1])
      BY <1>2, <3>2, <3>3
    <3>5. ~Less(e, q[p], q[Parent(p)])
      BY <3>1 DEF Heap
    <3>6. q[p] \in K /\ q[Parent(p)] \in K /\ q[1] \in K
      BY <1>1, <3>3
    <3>7. ~Less(e, q[p], q[1])
      BY <3>4, <3>5, <3>6 DEF Ordered
    <3> QED
      BY <3>7
  <2> QED
    BY <2>1, <2>2
<1> HIDE DEF S
<1>3. 1..Len(q) \subseteq S
  BY <1>1, <1>2, Upwards
<1> QED
  BY <1>3 DEF S

\* The abstract state
Held == [k \in DOMAIN queueKeys |-> queueKeys[k].obj]

LEMMA DequeuesFirst ==
  ASSUME OneSelector, KeysAgree, HeapOrdered, Dequeue
  PROVE  Abstract!Dequeue
<1>1. /\ queue \in Seq(Keys) /\ Len(queue) \in Nat
      /\ queueKeys \in [Contents(queue) -> Entries]
  BY DEF KeysAgree, Contents
<1>2. CASE queue = <<>>
  <2>1. DOMAIN Held = {}
    BY <1>1, <1>2 DEF Held, Contents
  <2>2. answer' = Null /\ UNCHANGED queueKeys
    BY <1>2 DEF Dequeue
  <2>3. UNCHANGED Held
    BY <2>2 DEF Held
  <2> QED
    BY <2>1, <2>2, <2>3 DEF Abstract!Dequeue, Held
<1>3. CASE queue # <<>>
  <2>1. Len(queue) > 0 /\ Head(queue) = queue[1] /\ 1 \in 1..Len(queue)
    BY <1>1, <1>3
  <2>2. PICK r : r = queue[1]
    OBVIOUS
  <2>3. r \in Contents(queue) /\ r \in DOMAIN queueKeys /\ r \in DOMAIN Held
    BY <1>1, <2>1, <2>2 DEF Contents, Held
  <2>4. queue \in Seq(Contents(queue))
    <3>1. \A p \in 1..Len(queue) : queue[p] \in Contents(queue)
      BY DEF Contents
    <3> QED
      BY <1>1, <3>1
  <2>5. Ordered(queueKeys, Contents(queue)) /\ \A a \in Contents(queue) : ~Less(queueKeys, a, a)
    BY <1>1, EntriesSort
  <2>6. Heap(queueKeys, queue)
    BY DEF HeapOrdered, Heap
  <2>7. \A p \in 1..Len(queue) : ~Less(queueKeys, queue[p], queue[1])
    BY <2>1, <2>4, <2>5, <2>6, RootFirst
  <2>8. \A j \in DOMAIN Held : ~Ascends(TheSelector, Held[j], Held[r])
    <3>1. PICK sel : Selectors = {sel}
      BY DEF OneSelector
    <3>2. TheSelector = sel
      BY <3>1 DEF TheSelector
    <3> SUFFICES ASSUME NEW j \in DOMAIN Held PROVE ~Ascends(TheSelector, Held[j], Held[r])
      OBVIOUS
    <3>3. j \in Contents(queue) /\ Held[j] = queueKeys[j].obj /\ Held[r] = queueKeys[r].obj
      BY <1>1, <2>3 DEF Held
    <3>4. queueKeys[j].sel = TheSelector
      BY <1>1, <3>1, <3>2, <3>3 DEF Entries
    <3>5. ~Less(queueKeys, j, r)
      BY <2>2, <2>7, <3>3 DEF Contents
    <3> QED
      BY <3>3, <3>4, <3>5 DEF Less
  <2>9. answer' = <<Held[r], r>>
    BY <1>3, <2>1, <2>2, <2>3 DEF Dequeue, Held
  <2>10. queueKeys' = Restrict(queueKeys, DOMAIN queueKeys \ {r})
    BY <1>3, <2>1, <2>2 DEF Dequeue
  <2>11. Held' = Restrict(Held, DOMAIN Held \ {r})
    <3>1. DOMAIN queueKeys' = DOMAIN queueKeys \ {r}
      BY <2>10 DEF Restrict
    <3>2. \A k \in DOMAIN queueKeys \ {r} : queueKeys'[k] = queueKeys[k]
      BY <2>10 DEF Restrict
    <3>3. Held' = [k \in DOMAIN queueKeys \ {r} |-> queueKeys[k].obj]
      BY <3>1, <3>2 DEF Held
    <3> QED
      BY <3>3 DEF Held, Restrict
  <2> QED
    BY <2>3, <2>8, <2>9, <2>11 DEF Abstract!Dequeue, Abstract!First, Held, Restrict, Abstract!Restrict
<1> QED
  BY <1>2, <1>3

LEMMA EnqueuesOnce ==
  ASSUME NEW k \in Keys, NEW o \in Objects, NEW sel \in Selectors, Enqueue(k, o, sel)
  PROVE  Abstract!Enqueue(k, o)
<1>1. DOMAIN Held = DOMAIN queueKeys
  BY DEF Held
<1>2. CASE k \in DOMAIN queueKeys
  <2>1. answer' = Null /\ UNCHANGED queueKeys
    BY <1>2 DEF Enqueue
  <2>2. UNCHANGED Held
    BY <2>1 DEF Held
  <2> QED
    BY <1>1, <1>2, <2>1, <2>2 DEF Abstract!Enqueue, Held
<1>3. CASE k \notin DOMAIN queueKeys
  <2>1. /\ queueKeys' = [j \in DOMAIN queueKeys \cup {k} |->
                           IF j = k THEN [sel |-> sel, obj |-> o] ELSE queueKeys[j]]
        /\ answer' = o
    BY <1>3 DEF Enqueue
  <2>2. Held' = [j \in DOMAIN queueKeys \cup {k} |-> IF j = k THEN o ELSE queueKeys[j].obj]
    BY <2>1 DEF Held
  <2>3. Held' = [j \in DOMAIN Held \cup {k} |-> IF j = k THEN o ELSE Held[j]]
    BY <2>2 DEF Held
  <2> QED
    BY <1>1, <1>3, <2>1, <2>3 DEF Abstract!Enqueue, Held
<1> QED
  BY <1>2, <1>3

\* With one selector the heap gives its objects back by priority, ignores a key
\* it holds, and neither loses nor invents an object: PriorityQueue implements
\* KeyedQueue (enqueue:..., dequeue, siftDown::, siftUp:).
THEOREM GivesByPriority ==
  ASSUME OneSelector
  PROVE  Spec => ByPriority
<1>1. Init => Abstract!Init
  BY DEF Init, Abstract!Init
<1>2. KeysAgree /\ HeapOrdered /\ [Next]_vars => [Abstract!Next]_Abstract!vars
  <2> SUFFICES ASSUME KeysAgree, HeapOrdered, [Next]_vars
               PROVE  [Abstract!Next]_Abstract!vars
    OBVIOUS
  <2>1. CASE Dequeue
    BY <2>1, DequeuesFirst DEF Abstract!Next
  <2>2. ASSUME NEW k \in Keys, NEW o \in Objects, NEW sel \in Selectors, Enqueue(k, o, sel)
        PROVE  Abstract!Next
    BY <2>2, EnqueuesOnce DEF Abstract!Next
  <2>3. CASE UNCHANGED vars
    BY <2>3 DEF vars, Abstract!vars
  <2> QED
    BY <2>1, <2>2, <2>3 DEF Next
<1> QED
  BY <1>1, <1>2, KeysStayTogether, HeapStaysOrdered, PTL DEF Spec, ByPriority, Abstract!Spec
=============================================================================
