------------------------- MODULE DeferredListProofs -------------------------
(* Theorems about DeferredList, for every set of deferreds, lists of any   *)
(* length and any combination of flags.                                    *)
EXTENDS DeferredList, FiniteSetTheorems, SequenceTheorems, WellFoundedInduction, TLAPS

-----------------------------------------------------------------------------
(* Types *)

\* What x can be given, and what the list may make of it
Given(x) == Answers(x) \cup {Null}

FrameOK(f) ==
  /\ f \in Frames
  /\ f.pc = "fire" => f.x \in Things /\ f.result \in Given(f.x)
  /\ f.pc # "fire" => f.x = Null

TypeInv ==
  /\ TypeOK
  /\ "gather" \in flags => flags = {"gather", "fireOnOneErrback"}
  /\ Len(resultList) <= Len(list)
  /\ \A x \in Things : \A j \in 1..Len(chain[x]) : chain[x][j].i \in 1..Len(resultList)
  /\ \A x \in Things :
       outcome[x] \in Given(x) \cup {Pending} /\ ended[x] \in Answers(x) \cup {Pending}
  /\ \A i \in 1..Len(stack) : FrameOK(stack[i]) /\ (stack[i].pc = "init" => i = 1)

-----------------------------------------------------------------------------
(* What runs on top of what *)

\* The list's callbacks run above the _fire of a deferred that follows no
\* other, and never while the list is made.
StackInv ==
  /\ Initialising => \A i \in 2..Len(stack) : stack[i].pc = "fire"
  /\ \A i \in 1..Len(stack) :
       i < Len(stack) /\ stack[i].pc = "fire" /\ stack[i].x \notin Foreign => fired # -1

\* k is the last _fire of x on the stack, or 0 if there is none.
At(x, k) ==
  /\ k \in 0..Len(stack)
  /\ k > 0 => stack[k].x = x
  /\ \A j \in 1..Len(stack) : stack[j].x = x => j <= k

\* r is what x was given, or what the list has made of it.
Came(x, r) ==
  \/ r = ended[x]
  \/ r = Null /\ "consumeErrors" \in flags /\ ended[x] \in Errors

ResultInv ==
  /\ \A x \in Things :
       /\ outcome[x] = Pending <=> ended[x] = Pending
       /\ outcome[x] # Pending => Came(x, outcome[x])
       /\ outcome[x] = Pending => At(x, 0)
  /\ \A i \in 1..Len(stack) : stack[i].pc = "fire" => Came(stack[i].x, stack[i].result)

-----------------------------------------------------------------------------
(* The chains *)

IsCb(p) == p.cb = "YES" /\ p.eb = "nil"
IsEb(p) == p.cb = "nil" /\ p.eb = "NO"
IsBoth(p) == p.cb = "YES" /\ p.eb = "YES"

\* The pair p in the chain of x: one of a member's two, or that of a member
\* that has handed x on.
PairOK(x, p) ==
  \/ (IsCb(p) \/ IsEb(p)) /\ list[p.i] = x
  \/ /\ IsBoth(p)
     /\ x \notin Foreign /\ list[p.i] \in Foreign /\ ended[list[p.i]] = x

\* A member's two pairs are side by side, until the first is taken.
SideBySide(q) ==
  \A j \in 1..Len(q) :
    /\ IsCb(q[j]) => j < Len(q) /\ IsEb(q[j + 1]) /\ q[j + 1].i = q[j].i
    /\ IsEb(q[j]) /\ j > 1 => IsCb(q[j - 1]) /\ q[j - 1].i = q[j].i

\* A member's index is added once.
Distinct(q) ==
  \A j, m \in 1..Len(q) :
    q[j].i = q[m].i /\ ((IsCb(q[j]) /\ IsCb(q[m])) \/ (IsEb(q[j]) /\ IsEb(q[m]))) => j = m

Twice(x) == \E i, j \in DOMAIN list : i # j /\ list[i] = x /\ list[j] = x

OnlyBoth(q) == \A j \in 1..Len(q) : IsBoth(q[j])

\* The last _fire of x has what x stores, unless it has consumed it for a
\* member's pair, of which there is one more only if x is there twice.
Faithful(x) ==
  chain[x] # <<>> =>
    \A k \in 1..Len(stack) :
      At(x, k) =>
        \/ stack[k].result = outcome[x]
        \/ /\ stack[k].result = Null /\ "consumeErrors" \in flags /\ outcome[x] \in Errors
           /\ Twice(x) \/ OnlyBoth(chain[x])

ChainInv ==
  \A x \in Things :
    /\ \A j \in 1..Len(chain[x]) : PairOK(x, chain[x][j])
    /\ SideBySide(chain[x]) /\ Distinct(chain[x])
    /\ At(x, 0) =>
         /\ chain[x] # <<>> => ~IsEb(chain[x][1])
         /\ outcome[x] # Pending => chain[x] = <<>>
    /\ Faithful(x)

-----------------------------------------------------------------------------
(* Each member once *)

\* The j-th pair in the chain of x is the one that will record its index: not
\* a member's second, unless the first has been passed over for an error.
Claims(x, j) ==
  /\ j \in 1..Len(chain[x])
  /\ \/ ~IsEb(chain[x][j])
     \/ j = 1 /\ \E k \in 1..Len(stack) : At(x, k) /\ stack[k].result \in Errors

OnceInv ==
  /\ \A x, y \in Things : \A j \in 1..Len(chain[x]), m \in 1..Len(chain[y]) :
       Claims(x, j) /\ Claims(y, m) /\ chain[x][j].i = chain[y][m].i => x = y /\ j = m
  /\ \A i \in 1..Len(resultList) :
       resultList[i] = Null <=>
         \E x \in Things : \E j \in 1..Len(chain[x]) : Claims(x, j) /\ chain[x][j].i = i
  /\ finishedCount = Cardinality({i \in DOMAIN resultList : resultList[i] # Null})

-----------------------------------------------------------------------------
(* What the list is fired with *)

NotYet ==
  fired = -1 =>
    /\ result.by = "none"
    /\ \A i \in 1..Len(resultList) :
         resultList[i] # Null =>
           /\ "fireOnOneCallback" \in flags => resultList[i].succeeded = "NO"
           /\ "fireOnOneErrback" \in flags => resultList[i].succeeded = "YES"
    /\ \/ finishedCount < Len(list)
       \/ list = <<>> /\ (Initialising \/ "fireOnOneCallback" \in flags)

GatherInv ==
  /\ list = <<>> /\ Initialising => fired = -1
  /\ "gather" \in flags /\ result.by = "all" =>
       /\ Initialising
       /\ \A i \in DOMAIN result.what : result.what[i].succeeded = "YES"

TruthInv ==
  /\ Truthful
  /\ \A i \in 1..Len(resultList) : resultList[i] # Null => Entry(resultList[i], list[i])
  /\ result.by = "all" => result.what \in Seq(Entries)
  /\ result.by = "gathered" => \A i \in DOMAIN list : result.what[i] \in Plain \cup {Null}
  /\ result.by \in {"first", "error"} =>
       result.what[1] \in 1..Len(list) /\ result.what[2] \in Plain \cup {Null}

Inv ==
  /\ TypeInv /\ StackInv /\ ResultInv /\ ChainInv
  /\ Recounts \/ OnceInv
  /\ NotYet /\ GatherInv /\ TruthInv

-----------------------------------------------------------------------------
(* The last _fire of a deferred *)

\* What x is and is not
LEMMA Kinds ==
  /\ Null \notin Things /\ Pending \notin Things /\ Null # Pending
  /\ \A x \in Things : x \notin Errors /\ x \notin Values
  /\ Null \notin Errors /\ Null \notin Values /\ Pending \notin Errors
  /\ \A x \in Things : Pending \notin Given(x)
  /\ \A x \in Things, r \in Things : r \in Given(x) => x \in Foreign /\ r \notin Foreign
  /\ \A x \in Things : Given(x) \subseteq Results
BY ListAssumption DEF Given, Answers, Plain, Results

\* The j-th frame is a _fire of x.
Runs(x, j) == j \in 1..Len(stack) /\ stack[j].x = x

\* No _fire of x begins, ends or goes on.
Calm(x) ==
  \A j \in Nat :
    /\ Runs(x, j)' <=> Runs(x, j)
    /\ Runs(x, j) => stack'[j].result = stack[j].result

LEMMA AtRuns ==
  ASSUME stack \in Seq(Frames), NEW x, NEW k \in Nat
  PROVE  At(x, k) <=> (k > 0 => Runs(x, k)) /\ \A j \in Nat : Runs(x, j) => j <= k
BY DEF At, Runs

LEMMA AtRunsNext ==
  ASSUME stack' \in Seq(Frames), NEW x, NEW k \in Nat
  PROVE  At(x, k)' <=> (k > 0 => Runs(x, k)') /\ \A j \in Nat : Runs(x, j)' => j <= k
BY DEF At, Runs

LEMMA AtType ==
  ASSUME stack \in Seq(Frames), NEW x, NEW k, At(x, k)
  PROVE  k \in Nat /\ k <= Len(stack)
BY DEF At

LEMMA AtTypeNext ==
  ASSUME stack' \in Seq(Frames), NEW x, NEW k, At(x, k)'
  PROVE  k \in Nat /\ k <= Len(stack')
BY DEF At

LEMMA AtOnce ==
  ASSUME stack \in Seq(Frames), NEW x, NEW k, NEW m, At(x, k), At(x, m)
  PROVE  k = m
BY DEF At

\* Of numbers up to n, one is the last.
LEMMA LastOf ==
  ASSUME NEW n \in Nat, NEW S, S \subseteq 1..n, S # {}
  PROVE  \E k \in S : \A j \in S : j <= k
<1> DEFINE R == StrictSubsetOrdering(Nat)
           T == {m..n : m \in S}
<1>1. IsWellFoundedOn(R, FiniteSubsetsOf(Nat))
  BY FS_StrictSubsetOrderingWellFounded
<1>2. T \subseteq FiniteSubsetsOf(Nat) /\ T # {}
  <2>1. \A m \in S : m..n \in SUBSET Nat /\ IsFiniteSet(m..n)
    BY FS_Interval
  <2> QED
    BY <2>1 DEF FiniteSubsetsOf
<1>3. PICK W \in T : \A V \in T : <<V, W>> \notin R
  <2> HIDE DEF R, T
  <2> QED
    BY <1>1, <1>2, WFMin
<1>4. PICK k \in S : W = k..n
  BY <1>3
<1>5. ASSUME NEW j \in S, k < j
      PROVE  FALSE
  <2>1. j..n \subseteq k..n /\ j..n # k..n /\ j..n \in SUBSET Nat /\ k..n \in SUBSET Nat
    <3>1. k \in k..n /\ k \notin j..n
      BY <1>5
    <3> QED
      BY <1>5, <3>1
  <2>2. <<j..n, k..n>> \in R
    BY <2>1 DEF StrictSubsetOrdering
  <2>3. j..n \in T
    OBVIOUS
  <2> QED
    BY <2>2, <2>3, <1>3, <1>4
<1> QED
  BY <1>5

\* There is a last _fire of x, or none.
LEMMA AtExists ==
  ASSUME stack \in Seq(Frames), NEW x
  PROVE  \E k \in 0..Len(stack) : At(x, k)
<1>1. CASE \A j \in 1..Len(stack) : stack[j].x # x
  <2>1. At(x, 0)
    BY <1>1 DEF At
  <2> QED
    BY <2>1
<1>2. CASE \E j \in 1..Len(stack) : stack[j].x = x
  <2> DEFINE S == {j \in 1..Len(stack) : stack[j].x = x}
  <2>1. PICK k \in S : \A j \in S : j <= k
    <3>1. Len(stack) \in Nat /\ S \subseteq 1..Len(stack) /\ S # {}
      BY <1>2
    <3> HIDE DEF S
    <3> QED
      BY <3>1, LastOf
  <2>2. At(x, k)
    BY <2>1 DEF At
  <2> QED
    BY <2>1, <2>2
<1> QED
  BY <1>1, <1>2

LEMMA CalmAt ==
  ASSUME stack \in Seq(Frames), stack' \in Seq(Frames), NEW x, Calm(x)
  PROVE  /\ \A k : At(x, k)' <=> At(x, k)
         /\ \A k : At(x, k) /\ k > 0 => stack'[k].result = stack[k].result
<1>1. \A k \in Nat : At(x, k)' <=> At(x, k)
  BY AtRuns, AtRunsNext DEF Calm
<1>2. \A k : At(x, k)' <=> At(x, k)
  BY <1>1, AtType, AtTypeNext
<1>3. \A k \in Nat : At(x, k) /\ k > 0 => stack'[k].result = stack[k].result
  BY AtRuns DEF Calm
<1> QED
  BY <1>2, <1>3, AtType

-----------------------------------------------------------------------------
(* What an action does to the stack *)

Keeps(n) == \A j \in 1..n : stack'[j] = stack[j]

Pushes(f) ==
  /\ stack' \in Seq(Frames)
  /\ Len(stack') = Len(stack) + 1 /\ stack'[Len(stack) + 1] = f
  /\ Keeps(Len(stack))

Pops ==
  /\ stack' \in Seq(Frames)
  /\ stack # <<>> /\ Len(stack') = Len(stack) - 1
  /\ Keeps(Len(stack) - 1)

Swaps(f) ==
  /\ stack' \in Seq(Frames)
  /\ stack # <<>> /\ Len(stack') = Len(stack) /\ stack'[Len(stack)] = f
  /\ Keeps(Len(stack) - 1)

SwapsAndPushes(f, g) ==
  /\ stack' \in Seq(Frames)
  /\ stack # <<>> /\ Len(stack') = Len(stack) + 1
  /\ stack'[Len(stack)] = f /\ stack'[Len(stack) + 1] = g
  /\ Keeps(Len(stack) - 1)

Stays == stack' \in Seq(Frames) /\ stack' = stack

LEMMA Pushed ==
  ASSUME stack \in Seq(Frames), NEW f \in Frames, stack' = Append(stack, f)
  PROVE  Pushes(f)
BY DEF Pushes, Keeps

LEMMA PrefixFrames ==
  ASSUME NEW st \in Seq(Frames), NEW k \in 0..Len(st)
  PROVE  /\ SubSeq(st, 1, k) \in Seq(Frames)
         /\ Len(SubSeq(st, 1, k)) = k
         /\ \A i \in 1..k : SubSeq(st, 1, k)[i] = st[i]
OBVIOUS

LEMMA BelowShape ==
  ASSUME stack \in Seq(Frames), stack # <<>>
  PROVE  /\ Below \in Seq(Frames) /\ Len(Below) = Len(stack) - 1
         /\ \A j \in 1..Len(stack) - 1 : Below[j] = stack[j]
<1>1. Len(stack) - 1 \in 0..Len(stack)
  OBVIOUS
<1> QED
  BY <1>1, PrefixFrames DEF Below

LEMMA Popped ==
  ASSUME stack \in Seq(Frames), stack # <<>>, stack' = Below
  PROVE  Pops
BY BelowShape DEF Pops, Keeps

LEMMA Swapped ==
  ASSUME stack \in Seq(Frames), stack # <<>>, NEW f \in Frames,
         stack' = Replaced(f) \/ stack' = Append(Below, f)
  PROVE  Swaps(f)
<1>1. CASE stack' = Replaced(f)
  BY <1>1 DEF Swaps, Keeps, Replaced
<1>2. CASE stack' = Append(Below, f)
  BY <1>2, BelowShape DEF Swaps, Keeps
<1> QED
  BY <1>1, <1>2

LEMMA SwappedAndPushed ==
  ASSUME stack \in Seq(Frames), stack # <<>>, NEW f \in Frames, NEW g \in Frames,
         stack' = Append(Replaced(f), g)
  PROVE  SwapsAndPushes(f, g)
<1>1. Replaced(f) \in Seq(Frames) /\ Len(Replaced(f)) = Len(stack)
      /\ Replaced(f)[Len(stack)] = f
      /\ \A j \in 1..Len(stack) - 1 : Replaced(f)[j] = stack[j]
  BY DEF Replaced
<1> QED
  BY <1>1 DEF SwapsAndPushes, Keeps

\* Only the last _fire of its own deferred is told apart by a push or a pop.
LEMMA PushCalm ==
  ASSUME stack \in Seq(Frames), NEW f, Pushes(f), NEW x, f.x # x
  PROVE  Calm(x)
BY DEF Pushes, Keeps, Calm, Runs

LEMMA PopCalm ==
  ASSUME stack \in Seq(Frames), Pops, NEW x, Top.x # x
  PROVE  Calm(x)
BY DEF Pops, Keeps, Calm, Runs, Top

LEMMA SwapCalm ==
  ASSUME stack \in Seq(Frames), NEW f, Swaps(f), NEW x, Top.x # x, f.x # x
  PROVE  Calm(x)
BY DEF Swaps, Keeps, Calm, Runs, Top

LEMMA SwapAndPushCalm ==
  ASSUME stack \in Seq(Frames), NEW f, NEW g, SwapsAndPushes(f, g),
         NEW x, Top.x # x, f.x # x, g.x # x
  PROVE  Calm(x)
BY DEF SwapsAndPushes, Keeps, Calm, Runs, Top

LEMMA StayCalm ==
  ASSUME stack \in Seq(Frames), Stays, NEW x
  PROVE  Calm(x)
BY DEF Stays, Calm, Runs

LEMMA PushAt ==
  ASSUME stack \in Seq(Frames), NEW f, Pushes(f), NEW x, f.x = x, NEW k
  PROVE  At(x, k)' <=> k = Len(stack) + 1
<1>1. ASSUME k = Len(stack) + 1
      PROVE  At(x, k)'
  BY <1>1 DEF At, Pushes, Keeps
<1>2. ASSUME At(x, k)'
      PROVE  k = Len(stack) + 1
  BY <1>2 DEF At, Pushes, Keeps
<1> QED
  BY <1>1, <1>2

\* The running _fire is the last of its deferred.
LEMMA TopAt ==
  ASSUME stack \in Seq(Frames), stack # <<>>, NEW x, Top.x = x, NEW k
  PROVE  At(x, k) <=> k = Len(stack)
<1>1. At(x, Len(stack))
  BY DEF At, Top
<1>2. At(x, k) => k = Len(stack)
  BY <1>1, AtOnce
<1> QED
  BY <1>1, <1>2

LEMMA SwapAt ==
  ASSUME stack \in Seq(Frames), NEW x, NEW f, f.x = x,
         Swaps(f) \/ \E g : SwapsAndPushes(f, g) /\ g.x # x, NEW k
  PROVE  At(x, k)' <=> k = Len(stack)
<1>1. ASSUME k = Len(stack)
      PROVE  At(x, k)'
  BY <1>1 DEF At, Swaps, SwapsAndPushes, Keeps
<1>2. ASSUME At(x, k)'
      PROVE  k = Len(stack)
  BY <1>2 DEF At, Swaps, SwapsAndPushes, Keeps
<1> QED
  BY <1>1, <1>2

-----------------------------------------------------------------------------
(* What an action does, frame by frame and pair by pair *)

LEMMA ListType ==
  ASSUME TypeInv
  PROVE  /\ list \in Seq(Things) /\ resultList \in Seq(Entries \cup {Null})
         /\ chain \in [Things -> Seq(Pairs)] /\ stack \in Seq(Frames)
         /\ Len(resultList) <= Len(list)
BY ListAssumption DEF TypeInv, TypeOK

LEMMA TopType ==
  ASSUME TypeInv, stack # <<>>
  PROVE  Top \in Frames /\ FrameOK(Top) /\ (Top.pc = "init" => Len(stack) = 1)
<1>1. Len(stack) \in 1..Len(stack) /\ stack[Len(stack)] \in Frames
  BY ListType
<1>2. \A i \in 1..Len(stack) : FrameOK(stack[i]) /\ (stack[i].pc = "init" => i = 1)
  BY DEF TypeInv
<1> QED
  BY <1>1, <1>2 DEF Top

LEMMA ChainType ==
  ASSUME TypeInv, NEW x \in Things
  PROVE  /\ chain[x] \in Seq(Pairs)
         /\ \A j \in 1..Len(chain[x]) : chain[x][j] \in Pairs /\ chain[x][j].i \in 1..Len(resultList)
BY ListType DEF TypeInv

LEMMA TailPairs ==
  ASSUME NEW q \in Seq(Pairs), q # <<>>
  PROVE  /\ Tail(q) \in Seq(Pairs) /\ Len(Tail(q)) = Len(q) - 1
         /\ \A j \in 1..Len(q) - 1 : Tail(q)[j] = q[j + 1]
         /\ Head(q) = q[1] /\ q[1] \in Pairs
OBVIOUS

LEMMA AppendPair ==
  ASSUME NEW q \in Seq(Pairs), NEW p \in Pairs
  PROVE  /\ Append(q, p) \in Seq(Pairs) /\ Len(Append(q, p)) = Len(q) + 1
         /\ Append(q, p)[Len(q) + 1] = p
         /\ \A j \in 1..Len(q) : Append(q, p)[j] = q[j]
OBVIOUS

CbPair(i) == [i |-> i, cb |-> "YES", eb |-> "nil"]
EbPair(i) == [i |-> i, cb |-> "nil", eb |-> "NO"]
BothPair(i) == [i |-> i, cb |-> "YES", eb |-> "YES"]

LEMMA PairKinds ==
  ASSUME NEW i \in Nat
  PROVE  /\ CbPair(i) \in Pairs /\ IsCb(CbPair(i)) /\ CbPair(i).i = i
         /\ EbPair(i) \in Pairs /\ IsEb(EbPair(i)) /\ EbPair(i).i = i
         /\ BothPair(i) \in Pairs /\ IsBoth(BothPair(i)) /\ BothPair(i).i = i
BY DEF CbPair, EbPair, BothPair, Pairs, Branches, IsCb, IsEb, IsBoth

LEMMA ConcatTwo ==
  ASSUME NEW q \in Seq(Pairs), NEW m \in Seq(Pairs), Len(m) = 2
  PROVE  /\ q \o m \in Seq(Pairs) /\ Len(q \o m) = Len(q) + 2
         /\ (q \o m)[Len(q) + 1] = m[1] /\ (q \o m)[Len(q) + 2] = m[2]
         /\ \A j \in 1..Len(q) : (q \o m)[j] = q[j]
<1>1. /\ q \o m \in Seq(Pairs) /\ Len(q \o m) = Len(q) + 2
      /\ \A j \in 1..Len(q) + 2 : (q \o m)[j] = IF j <= Len(q) THEN q[j] ELSE m[j - Len(q)]
  <2>1. /\ q \o m \in Seq(Pairs)
        /\ Len(q \o m) = Len(q) + Len(m)
        /\ \A j \in 1..Len(q) + Len(m) :
             (q \o m)[j] = IF j <= Len(q) THEN q[j] ELSE m[j - Len(q)]
    BY ConcatProperties, Zenon
  <2> QED
    BY <2>1
<1>2. Len(q) \in Nat
  OBVIOUS
<1>3. (q \o m)[Len(q) + 1] = m[Len(q) + 1 - Len(q)] /\ (q \o m)[Len(q) + 2] = m[Len(q) + 2 - Len(q)]
  BY <1>1, <1>2
<1>4. Len(q) + 1 - Len(q) = 1 /\ Len(q) + 2 - Len(q) = 2
  BY <1>2
<1>5. \A j \in 1..Len(q) : (q \o m)[j] = q[j]
  BY <1>1, <1>2
<1> QED
  BY <1>1, <1>3, <1>4, <1>5

LEMMA ConcatPairs ==
  ASSUME NEW q \in Seq(Pairs), NEW i \in Nat
  PROVE  /\ q \o MemberPairs(i) \in Seq(Pairs) /\ Len(q \o MemberPairs(i)) = Len(q) + 2
         /\ (q \o MemberPairs(i))[Len(q) + 1] = CbPair(i)
         /\ (q \o MemberPairs(i))[Len(q) + 2] = EbPair(i)
         /\ \A j \in 1..Len(q) : (q \o MemberPairs(i))[j] = q[j]
<1>1. /\ MemberPairs(i) \in Seq(Pairs) /\ Len(MemberPairs(i)) = 2
      /\ MemberPairs(i)[1] = CbPair(i) /\ MemberPairs(i)[2] = EbPair(i)
  BY PairKinds DEF MemberPairs, CbPair, EbPair
<1> QED
  BY <1>1, ConcatTwo

\* The list's pair at the head of the chain of x is taken.
Drops(x) ==
  /\ chain' \in [Things -> Seq(Pairs)]
  /\ Len(chain'[x]) = Len(chain[x]) - 1
  /\ \A j \in 1..Len(chain[x]) - 1 : chain'[x][j] = chain[x][j + 1]

\* Pairs are added to it.
GainsTwo(x, i) ==
  /\ chain' \in [Things -> Seq(Pairs)] /\ Len(chain'[x]) = Len(chain[x]) + 2
  /\ chain'[x][Len(chain[x]) + 1] = CbPair(i) /\ chain'[x][Len(chain[x]) + 2] = EbPair(i)
  /\ \A j \in 1..Len(chain[x]) : chain'[x][j] = chain[x][j]

GainsOne(x, p) ==
  /\ Len(chain'[x]) = Len(chain[x]) + 1 /\ chain'[x][Len(chain[x]) + 1] = p
  /\ \A j \in 1..Len(chain[x]) : chain'[x][j] = chain[x][j]

SameBut(xs) == \A y \in Things \ xs : chain'[y] = chain[y]

Enters(x, r) == IF r = Pending THEN Stays ELSE Pushes(Frame("fire", x, r))

AddsMember(i, x) ==
  /\ Len(stack) = 1 /\ stack[1].pc = "init"
  /\ i = Len(resultList) + 1 /\ i \in 1..Len(list) /\ x \in Things /\ list[i] = x
  /\ resultList' \in Seq(Entries \cup {Null}) /\ Len(resultList') = i /\ resultList'[i] = Null
  /\ \A j \in 1..Len(resultList) : resultList'[j] = resultList[j]
  /\ GainsTwo(x, i) /\ SameBut({x})
  /\ Enters(x, outcome[x])
  /\ UNCHANGED <<made, finishedCount, fired, result, outcome, ended>>

\* The pair p is at the head of the chain of x, whose _fire runs.
Takes(x, p) ==
  /\ x \in Things /\ stack # <<>> /\ Top.pc = "fire" /\ Top.x = x
  /\ Top.result \in Given(x)
  /\ Len(chain[x]) > 0 /\ chain[x][1] = p /\ p \in Pairs /\ p.i \in 1..Len(resultList)
  /\ Drops(x)

Skips(x, p) ==
  /\ Takes(x, p) /\ Branch(p, Top.result) = "nil"
  /\ SameBut({x}) /\ Stays
  /\ UNCHANGED <<made, fields, outcome, ended>>

Follows(x, p, n) ==
  /\ Takes(x, p) /\ Top.result = n /\ n \in Things /\ x \in Foreign /\ n \notin Foreign
  /\ p.cb # "nil" /\ GainsOne(n, [i |-> p.i, cb |-> p.cb, eb |-> p.cb])
  /\ SameBut({x, n})
  /\ Enters(n, outcome[n])
  /\ UNCHANGED <<made, fields, outcome, ended>>

LEMMA EnterShape ==
  ASSUME stack \in Seq(Frames), NEW x \in Things, NEW r \in Results \cup {Pending},
         stack' = FireIfFired(x, r, stack)
  PROVE  Enters(x, r)
<1>1. CASE r = Pending
  BY <1>1 DEF FireIfFired, Enters, Stays
<1>2. CASE r # Pending
  <2>1. Frame("fire", x, r) \in Frames
    BY <1>2 DEF Frame, Frames
  <2> QED
    BY <1>2, <2>1, Pushed DEF FireIfFired, Enters
<1> QED
  BY <1>1, <1>2

LEMMA AddShape ==
  ASSUME TypeInv, AddMember
  PROVE  \E i \in Nat, x \in Things : AddsMember(i, x)
<1> DEFINE i == Len(resultList) + 1
           x == list[i]
<1>1. /\ TopIs("init") /\ i <= Len(list)
      /\ resultList' = Append(resultList, Null)
      /\ chain' = [chain EXCEPT ![x] = @ \o MemberPairs(i)]
      /\ stack' = FireIfFired(x, outcome[x], stack)
      /\ UNCHANGED <<made, finishedCount, fired, result, outcome, ended>>
  BY DEF AddMember
<1>2. i \in Nat /\ i \in 1..Len(list) /\ x \in Things
  <2>1. i <= Len(list)
    BY <1>1
  <2>2. i \in Nat /\ i \in 1..Len(list)
    BY <2>1, ListType
  <2> QED
    BY <2>2, ListType
<1>3. Len(stack) = 1 /\ stack[1].pc = "init"
  <2>1. stack # <<>> /\ Top.pc = "init"
    BY <1>1 DEF TopIs
  <2>2. Len(stack) = 1
    BY <2>1, TopType
  <2> QED
    BY <2>1, <2>2 DEF Top
<1> HIDE DEF i, x
<1>4. /\ resultList' \in Seq(Entries \cup {Null}) /\ Len(resultList') = i /\ resultList'[i] = Null
      /\ \A j \in 1..Len(resultList) : resultList'[j] = resultList[j]
  BY <1>1, ListType DEF i
<1>5. chain[x] \in Seq(Pairs) /\ chain'[x] = chain[x] \o MemberPairs(i)
      /\ SameBut({x})
  <2>1. chain \in [Things -> Seq(Pairs)]
    BY ListType
  <2>2. chain' = [chain EXCEPT ![x] = @ \o MemberPairs(i)]
    BY <1>1
  <2> QED
    BY <1>2, <2>1, <2>2 DEF SameBut
<1>6. /\ chain'[x] \in Seq(Pairs) /\ Len(chain'[x]) = Len(chain[x]) + 2
      /\ chain'[x][Len(chain[x]) + 1] = CbPair(i) /\ chain'[x][Len(chain[x]) + 2] = EbPair(i)
      /\ \A j \in 1..Len(chain[x]) : chain'[x][j] = chain[x][j]
  <2> DEFINE q == chain[x]
  <2>1. q \in Seq(Pairs) /\ chain'[x] = q \o MemberPairs(i) /\ i \in Nat
    BY <1>5, <1>2
  <2>2. /\ q \o MemberPairs(i) \in Seq(Pairs) /\ Len(q \o MemberPairs(i)) = Len(q) + 2
        /\ (q \o MemberPairs(i))[Len(q) + 1] = CbPair(i)
        /\ (q \o MemberPairs(i))[Len(q) + 2] = EbPair(i)
        /\ \A j \in 1..Len(q) : (q \o MemberPairs(i))[j] = q[j]
    <3> HIDE DEF q
    <3> QED
      BY <2>1, ConcatPairs
  <2> QED
    BY <2>1, <2>2
<1>7. chain' \in [Things -> Seq(Pairs)]
  BY <1>1, <1>2, <1>5, <1>6, ListType
<1>8. Enters(x, outcome[x])
  <2>1. outcome[x] \in Results \cup {Pending}
    BY <1>2 DEF TypeInv, TypeOK
  <2> QED
    BY <1>1, <1>2, <2>1, EnterShape, ListType
<1>9. AddsMember(i, x)
  BY <1>1, <1>2, <1>3, <1>4, <1>5, <1>6, <1>7, <1>8 DEF AddsMember, GainsTwo, i, x
<1> QED
  BY <1>2, <1>9

LEMMA TakeShape ==
  ASSUME TypeInv, NEW x \in Things, TakePair(x),
         \A y \in Things : chain[y] \in Seq(Pairs) => chain'[y] \in Seq(Pairs),
         DOMAIN chain' = Things, chain' = [z \in Things |-> chain'[z]],
         chain'[x] = Tail(chain[x])
  PROVE  Takes(x, Head(chain[x])) /\ Head(chain[x]) = chain[x][1]
<1>1. /\ Head(chain[x]) = chain[x][1] /\ chain[x][1] \in Pairs
      /\ Len(chain[x]) > 0 /\ Len(chain'[x]) = Len(chain[x]) - 1
      /\ \A j \in 1..Len(chain[x]) - 1 : chain'[x][j] = chain[x][j + 1]
  <2>1. chain[x] \in Seq(Pairs) /\ chain[x] # <<>>
    BY ChainType DEF TakePair
  <2>2. Len(chain[x]) > 0
    BY <2>1
  <2> QED
    BY <2>1, <2>2, TailPairs
<1>2. chain[x][1].i \in 1..Len(resultList)
  BY <1>1, ChainType
<1>3. stack # <<>> /\ Top.pc = "fire" /\ Top.x = x /\ Top.result \in Given(x)
  BY TopType DEF TakePair, TopIs, FrameOK
<1>4. chain' \in [Things -> Seq(Pairs)]
  BY ListType
<1> QED
  BY <1>1, <1>2, <1>3, <1>4 DEF Takes, Drops

LEMMA SkipShape ==
  ASSUME TypeInv, NEW x \in Things, Skip(x)
  PROVE  \E p \in Pairs : Skips(x, p)
<1> DEFINE p == Head(chain[x])
<1>1. /\ TakePair(x) /\ Branch(p, Top.result) = "nil"
      /\ chain' = [chain EXCEPT ![x] = Tail(@)]
      /\ UNCHANGED <<made, fields, outcome, stack, ended>>
  BY DEF Skip
<1>2. /\ chain'[x] = Tail(chain[x]) /\ SameBut({x})
      /\ chain' = [z \in Things |-> chain'[z]]
      /\ \A y \in Things : chain'[y] \in Seq(Pairs)
  BY <1>1, ListType, TailPairs DEF SameBut, TakePair
<1>3. Takes(x, p)
  BY <1>1, <1>2, TakeShape
<1>4. Stays
  BY <1>1, ListType DEF Stays
<1> QED
  BY <1>1, <1>2, <1>3, <1>4 DEF Skips, Takes

LEMMA FollowShape ==
  ASSUME TypeInv, NEW x \in Things, Follow(x)
  PROVE  \E p \in Pairs, n \in Things : Follows(x, p, n) /\ n # x
<1> DEFINE p == Head(chain[x])
           n == Top.result
           b == Branch(p, n)
<1>1. /\ TakePair(x) /\ n \in Things /\ b # "nil"
      /\ chain' = [chain EXCEPT ![x] = Tail(@), ![n] = Append(@, FollowingPair(p.i, b))]
      /\ stack' = FireIfFired(n, outcome[n], stack)
      /\ UNCHANGED <<made, fields, outcome, ended>>
  BY DEF Follow
<1>2. n \in Given(x) /\ x \in Foreign /\ n \notin Foreign /\ n # x
  <2>1. n \in Given(x)
    BY <1>1, TopType DEF TakePair, TopIs, FrameOK
  <2> QED
    BY <1>1, <2>1, Kinds
<1>3. b = p.cb
  BY <1>1, Kinds DEF Branch
<1>4. p \in Pairs /\ chain[x] \in Seq(Pairs) /\ chain[n] \in Seq(Pairs)
  BY <1>1, ListType, TailPairs DEF TakePair
<1>5. FollowingPair(p.i, b) = [i |-> p.i, cb |-> p.cb, eb |-> p.cb] /\ FollowingPair(p.i, b) \in Pairs
  BY <1>3, <1>4 DEF FollowingPair, Pairs
<1>6. /\ chain'[x] = Tail(chain[x]) /\ chain'[n] = Append(chain[n], FollowingPair(p.i, b))
      /\ SameBut({x, n}) /\ chain' = [z \in Things |-> chain'[z]]
  BY <1>1, <1>2, ListType DEF SameBut
<1>7. \A y \in Things : chain'[y] \in Seq(Pairs)
  BY <1>1, <1>4, <1>5, <1>6, ListType, TailPairs, AppendPair DEF SameBut, TakePair
<1>8. Takes(x, p)
  BY <1>1, <1>6, <1>7, TakeShape
<1>9. Enters(n, outcome[n])
  <2>1. outcome[n] \in Results \cup {Pending}
    BY <1>1 DEF TypeInv, TypeOK
  <2> QED
    BY <1>1, <2>1, EnterShape, ListType
<1>10. /\ Len(chain'[n]) = Len(chain[n]) + 1
       /\ chain'[n][Len(chain[n]) + 1] = [i |-> p.i, cb |-> p.cb, eb |-> p.cb]
       /\ \A j \in 1..Len(chain[n]) : chain'[n][j] = chain[n][j]
  BY <1>4, <1>5, <1>6, AppendPair
<1>11. Follows(x, p, n)
  BY <1>1, <1>2, <1>3, <1>6, <1>8, <1>9, <1>10 DEF Follows, GainsOne
<1> QED
  BY <1>1, <1>2, <1>4, <1>11

Records(x, p, b, r) ==
  /\ Takes(x, p) /\ Top.result = r /\ b = Branch(p, r)
  /\ b \in {"YES", "NO"} /\ r \in Plain \cup {Null}
  /\ SameBut({x})
  /\ resultList' \in Seq(Entries \cup {Null}) /\ Len(resultList') = Len(resultList)
  /\ resultList'[p.i] = [succeeded |-> b, result |-> r]
  /\ \A j \in 1..Len(resultList) : j # p.i => resultList'[j] = resultList[j]
  /\ finishedCount' = finishedCount + 1
  /\ LET then == FiresWith(p.i, b, r, resultList', finishedCount')
     IN /\ fired' = then.o
        /\ result' = IF Initialising THEN then.r ELSE Gather(then.r)
  /\ IF fired' = fired \/ Initialising
     THEN Swaps(Frame("fire", x, Consumed(b, r)))
     ELSE SwapsAndPushes(Frame("fire", x, Consumed(b, r)), Frame("client", Null, Null))
  /\ UNCHANGED <<made, outcome, ended>>

Leaves(x, r) ==
  /\ x \in Things /\ stack # <<>> /\ Top.pc = "fire" /\ Top.x = x
  /\ Top.result = r /\ r \in Given(x)
  /\ chain[x] = <<>>
  /\ outcome' \in [Things -> Results \cup {Pending}] /\ outcome'[x] = r
  /\ \A y \in Things : y # x => outcome'[y] = outcome[y]
  /\ Pops
  /\ UNCHANGED <<made, fields, chain, ended>>

Settles(x, r) ==
  /\ x \in Things /\ r \in Answers(x) /\ r \in Results /\ ClientRuns
  /\ outcome[x] = Pending
  /\ outcome' \in [Things -> Results \cup {Pending}] /\ outcome'[x] = r
  /\ ended' \in [Things -> Results \cup {Pending}] /\ ended'[x] = r
  /\ \A y \in Things : y # x => outcome'[y] = outcome[y] /\ ended'[y] = ended[y]
  /\ Pushes(Frame("fire", x, r))
  /\ UNCHANGED <<made, fields, chain>>

\* Client code is called or returns, or initWithList: does.
Aside ==
  /\ \/ InitReturns /\ Pops /\ Len(stack) = 1 /\ stack[1].pc = "init"
     \/ Cancel /\ hasCanceller /\ Pushes(Frame("canceller", Null, Null)) /\ UNCHANGED <<fired, result>>
     \/ Cancel /\ ~hasCanceller /\ fired' = 1 /\ result'.by = "cancel"
          /\ Pushes(Frame("client", Null, Null))
     \/ CancellerReturns /\ fired = -1 /\ fired' = 1 /\ result'.by = "cancel"
          /\ Top.pc = "canceller" /\ Swaps(Frame("client", Null, Null))
     \/ Top.pc \in ClientPCs /\ Pops /\ UNCHANGED <<fired, result>>
  /\ \A x \in Things : Calm(x)
  /\ UNCHANGED <<made, resultList, finishedCount, chain, outcome, ended>>

LEMMA FrameTypes ==
  /\ \A pc \in ClientPCs : Frame(pc, Null, Null) \in Frames
  /\ \A x \in Things, r \in Results : Frame("fire", x, r) \in Frames
  /\ Frame("client", Null, Null) \in Frames /\ Frame("canceller", Null, Null) \in Frames
BY DEF Frame, Frames, Results, ClientPCs

LEMMA BranchKinds ==
  ASSUME NEW p \in Pairs, NEW r
  PROVE  Branch(p, r) \in Branches
BY DEF Branch, Pairs

LEMMA RecordShape ==
  ASSUME TypeInv, NEW x \in Things, Record(x)
  PROVE  \E p \in Pairs, b \in {"YES", "NO"}, r \in Plain \cup {Null} : Records(x, p, b, r)
<1> DEFINE p == Head(chain[x])
           r == Top.result
           b == Branch(p, r)
           then == FiresWith(p.i, b, r, resultList', finishedCount')
           f == Frame("fire", x, Consumed(b, r))
<1>1. /\ TakePair(x) /\ b # "nil" /\ r \notin Things
      /\ chain' = [chain EXCEPT ![x] = Tail(@)]
      /\ resultList' = [resultList EXCEPT ![p.i] = [succeeded |-> b, result |-> r]]
      /\ finishedCount' = finishedCount + 1
      /\ fired' = then.o
      /\ result' = (IF Initialising THEN then.r ELSE Gather(then.r))
      /\ stack' = (IF then.o = fired \/ Initialising THEN Replaced([Top EXCEPT !.result = Consumed(b, r)])
                   ELSE Append(Replaced([Top EXCEPT !.result = Consumed(b, r)]), Frame("client", Null, Null)))
      /\ UNCHANGED <<made, outcome, ended>>
  BY DEF Record
<1>2. /\ chain'[x] = Tail(chain[x]) /\ SameBut({x})
      /\ chain' = [z \in Things |-> chain'[z]]
      /\ \A y \in Things : chain'[y] \in Seq(Pairs)
  BY <1>1, ListType, TailPairs DEF SameBut, TakePair
<1>3. Takes(x, p)
  BY <1>1, <1>2, TakeShape
<1>4. p \in Pairs /\ p.i \in 1..Len(resultList) /\ r \in Given(x)
      /\ stack # <<>> /\ Top.pc = "fire" /\ Top.x = x /\ Top \in Frames
  BY <1>3, TopType DEF Takes
<1>5. r \in Plain \cup {Null} /\ b \in {"YES", "NO"}
  <2>1. r \in Plain \cup {Null}
    BY <1>1, <1>4 DEF Given, Answers
  <2> QED
    BY <1>1, <1>4, <2>1, BranchKinds DEF Branches
<1>6. [succeeded |-> b, result |-> r] \in Entries
  BY <1>5 DEF Entries
<1>7. /\ resultList' \in Seq(Entries \cup {Null}) /\ Len(resultList') = Len(resultList)
      /\ resultList'[p.i] = [succeeded |-> b, result |-> r]
      /\ \A j \in 1..Len(resultList) : j # p.i => resultList'[j] = resultList[j]
  <2> DEFINE e == [succeeded |-> b, result |-> r]
             i == p.i
  <2>1. /\ e \in Entries /\ i \in 1..Len(resultList) /\ resultList \in Seq(Entries \cup {Null})
        /\ resultList' = [resultList EXCEPT ![i] = e]
    BY <1>1, <1>4, <1>6, ListType
  <2> HIDE DEF e, i
  <2>2. /\ resultList' \in Seq(Entries \cup {Null}) /\ Len(resultList') = Len(resultList)
        /\ resultList'[i] = e
        /\ \A j \in 1..Len(resultList) : j # i => resultList'[j] = resultList[j]
    BY <2>1
  <2> QED
    BY <2>2 DEF e, i
<1>8. [Top EXCEPT !.result = Consumed(b, r)] = f
  BY <1>4 DEF Frame, Frames
<1>9. f \in Frames /\ Frame("client", Null, Null) \in Frames
  <2>1. Consumed(b, r) \in Results
    BY <1>5 DEF Consumed, Results
  <2> QED
    BY <2>1, FrameTypes
<1>10. IF fired' = fired \/ Initialising THEN Swaps(f) ELSE SwapsAndPushes(f, Frame("client", Null, Null))
  <2>1. stack' = (IF fired' = fired \/ Initialising THEN Replaced(f)
                  ELSE Append(Replaced(f), Frame("client", Null, Null)))
    <3> HIDE DEF f, then
    <3> QED
      BY <1>1, <1>8
  <2>2. stack \in Seq(Frames) /\ stack # <<>>
    BY <1>4, ListType
  <2> HIDE DEF f
  <2> QED
    BY <1>9, <2>1, <2>2, Swapped, SwappedAndPushed
<1>11. Records(x, p, b, r)
  <2> HIDE DEF p, r, b, then
  <2>1. fired' = then.o /\ result' = (IF Initialising THEN then.r ELSE Gather(then.r))
    BY <1>1
  <2>2. b = Branch(p, r) /\ Top.result = r
    BY DEF b, r
  <2> QED
    BY <1>1, <1>2, <1>3, <1>5, <1>7, <1>10, <2>1, <2>2 DEF Records, then
<1> QED
  BY <1>4, <1>5, <1>11

LEMMA LeaveShape ==
  ASSUME TypeInv, NEW x \in Things, FireReturns(x)
  PROVE  \E r \in Given(x) : Leaves(x, r)
<1>1. /\ TopIs("fire") /\ Top.x = x /\ chain[x] = <<>>
      /\ outcome' = [outcome EXCEPT ![x] = Top.result] /\ stack' = Below
      /\ UNCHANGED <<made, fields, chain, ended>>
  BY DEF FireReturns
<1>2. stack # <<>> /\ Top.pc = "fire" /\ Top.result \in Given(x) /\ Top.result \in Results
  BY <1>1, TopType, Kinds DEF TopIs, FrameOK
<1>3. Pops
  BY <1>1, <1>2, ListType, Popped
<1>4. /\ outcome' \in [Things -> Results \cup {Pending}] /\ outcome'[x] = Top.result
      /\ \A y \in Things : y # x => outcome'[y] = outcome[y]
  <2>1. outcome \in [Things -> Results \cup {Pending}]
    BY DEF TypeInv, TypeOK
  <2> QED
    BY <1>1, <1>2, <2>1
<1>5. Leaves(x, Top.result)
  BY <1>1, <1>2, <1>3, <1>4 DEF Leaves
<1> QED
  BY <1>2, <1>5

LEMMA SettleShape ==
  ASSUME TypeInv, NEW x \in Things, Settle(x)
  PROVE  \E r \in Answers(x) : Settles(x, r)
<1>1. PICK r \in Answers(x) :
        /\ outcome' = [outcome EXCEPT ![x] = r]
        /\ ended' = [ended EXCEPT ![x] = r]
        /\ stack' = FireIfFired(x, r, stack)
  BY DEF Settle
<1>2. ClientRuns /\ outcome[x] = Pending /\ UNCHANGED <<made, fields, chain>>
  BY DEF Settle
<1>3. r \in Results /\ r # Pending
  BY Kinds DEF Given
<1>4. Pushes(Frame("fire", x, r))
  <2>1. Frame("fire", x, r) \in Frames
    BY <1>3, FrameTypes
  <2> QED
    BY <1>1, <1>3, <2>1, ListType, Pushed DEF FireIfFired
<1>5. /\ outcome' \in [Things -> Results \cup {Pending}] /\ outcome'[x] = r
      /\ ended' \in [Things -> Results \cup {Pending}] /\ ended'[x] = r
      /\ \A y \in Things : y # x => outcome'[y] = outcome[y] /\ ended'[y] = ended[y]
  <2>1. outcome \in [Things -> Results \cup {Pending}] /\ ended \in [Things -> Results \cup {Pending}]
    BY DEF TypeInv, TypeOK
  <2> QED
    BY <1>1, <1>3, <2>1
<1>6. Settles(x, r)
  BY <1>2, <1>3, <1>4, <1>5 DEF Settles
<1> QED
  BY <1>6

\* A frame that is no _fire is of no deferred.
LEMMA TopOfNone ==
  ASSUME TypeInv, stack # <<>>, Top.pc # "fire"
  PROVE  \A x \in Things : Top.x # x
BY TopType, Kinds DEF FrameOK

LEMMA NoneCalm ==
  ASSUME TypeInv, NEW pc \in ClientPCs,
         \/ Pushes(Frame(pc, Null, Null))
         \/ Pops /\ Top.pc # "fire"
         \/ Swaps(Frame(pc, Null, Null)) /\ Top.pc # "fire"
  PROVE  \A x \in Things : Calm(x)
<1> SUFFICES ASSUME NEW x \in Things
             PROVE  Calm(x)
  OBVIOUS
<1> DEFINE f == Frame(pc, Null, Null)
<1>1. f.x # x /\ stack \in Seq(Frames)
  BY ListType, Kinds DEF Frame
<1>2. CASE Pushes(f)
  <2> HIDE DEF f
  <2> QED
    BY <1>1, <1>2, PushCalm
<1>3. CASE Pops /\ Top.pc # "fire"
  BY <1>1, <1>3, PopCalm, TopOfNone DEF Pops
<1>4. CASE Swaps(f) /\ Top.pc # "fire"
  <2>1. Top.x # x
    BY <1>4, TopOfNone DEF Swaps
  <2> HIDE DEF f
  <2> QED
    BY <1>1, <1>4, <2>1, SwapCalm
<1> QED
  BY <1>2, <1>3, <1>4

LEMMA AsideShape ==
  ASSUME TypeInv, InitReturns \/ Cancel \/ CancellerReturns \/ ClientReturns
  PROVE  Aside
<1>1. CASE InitReturns
  <2>1. TopIs("init") /\ stack' = <<>>
    BY <1>1 DEF InitReturns
  <2>2. stack # <<>> /\ Top.pc = "init" /\ Len(stack) = 1
    BY <2>1, TopType DEF TopIs
  <2>3. stack[1].pc = "init" /\ Pops
    BY <2>1, <2>2, ListType DEF Pops, Keeps, Top
  <2>4. \A x \in Things : Calm(x)
    BY <2>2, <2>3, NoneCalm DEF ClientPCs
  <2> QED
    BY <1>1, <2>2, <2>3, <2>4 DEF Aside, InitReturns
<1>2. CASE Cancel
  <2>1. CASE hasCanceller
    <3>1. Pushes(Frame("canceller", Null, Null)) /\ UNCHANGED <<fired, result>>
      BY <1>2, <2>1, Pushed, FrameTypes, ListType DEF Cancel
    <3>2. \A x \in Things : Calm(x)
      BY <3>1, NoneCalm DEF ClientPCs
    <3> QED
      BY <1>2, <2>1, <3>1, <3>2 DEF Aside, Cancel
  <2>2. CASE ~hasCanceller
    <3>1. CancelErrback(stack)
      BY <1>2, <2>2 DEF Cancel
    <3>2. fired' = 1 /\ result'.by = "cancel" /\ Pushes(Frame("client", Null, Null))
      BY <3>1, Pushed, FrameTypes, ListType DEF CancelErrback
    <3>3. \A x \in Things : Calm(x)
      BY <3>2, NoneCalm DEF ClientPCs
    <3> QED
      BY <1>2, <2>2, <3>2, <3>3 DEF Aside, Cancel
  <2> QED
    BY <2>1, <2>2
<1>3. CASE CancellerReturns
  <2>1. stack # <<>> /\ Top.pc = "canceller"
    BY <1>3 DEF CancellerReturns, TopIs
  <2>2. CASE fired = -1
    <3>1. CancelErrback(Below)
      BY <1>3, <2>2 DEF CancellerReturns
    <3>2. fired' = 1 /\ result'.by = "cancel" /\ Swaps(Frame("client", Null, Null))
      BY <2>1, <3>1, Swapped, FrameTypes, ListType DEF CancelErrback
    <3>3. \A x \in Things : Calm(x)
      BY <2>1, <3>2, NoneCalm DEF ClientPCs
    <3> QED
      BY <1>3, <2>1, <2>2, <3>2, <3>3 DEF Aside, CancellerReturns
  <2>3. CASE fired # -1
    <3>1. Pops /\ UNCHANGED <<fired, result>>
      BY <1>3, <2>1, <2>3, Popped, ListType DEF CancellerReturns
    <3>2. \A x \in Things : Calm(x)
      BY <2>1, <3>1, NoneCalm DEF ClientPCs
    <3> QED
      BY <1>3, <2>1, <3>1, <3>2 DEF Aside, CancellerReturns, ClientPCs
  <2> QED
    BY <2>2, <2>3
<1>4. CASE ClientReturns
  <2>1. stack # <<>> /\ Top.pc = "client"
    BY <1>4 DEF ClientReturns, TopIs
  <2>2. Pops
    BY <1>4, <2>1, Popped, ListType DEF ClientReturns
  <2>3. \A x \in Things : Calm(x)
    BY <2>1, <2>2, NoneCalm DEF ClientPCs
  <2> QED
    BY <1>4, <2>1, <2>2, <2>3 DEF Aside, ClientReturns, ClientPCs, fields
<1> QED
  BY <1>1, <1>2, <1>3, <1>4

-----------------------------------------------------------------------------
(* Each step keeps the types *)

FramesTyped == \A i \in 1..Len(stack) : FrameOK(stack[i]) /\ (stack[i].pc = "init" => i = 1)

NewFrame(f) == FrameOK(f) /\ f.pc # "init"

LEMMA FireFrame ==
  ASSUME NEW x \in Things, NEW r \in Given(x)
  PROVE  NewFrame(Frame("fire", x, r))
<1>1. r \in Results
  BY Kinds
<1> QED
  BY <1>1, FrameTypes DEF NewFrame, FrameOK, Frame

LEMMA ClientFrame ==
  ASSUME NEW pc \in ClientPCs
  PROVE  NewFrame(Frame(pc, Null, Null))
BY FrameTypes DEF NewFrame, FrameOK, Frame, ClientPCs

LEMMA FramesKept ==
  ASSUME TypeInv,
         \/ Stays \/ Pops
         \/ \E f : NewFrame(f) /\ (Pushes(f) \/ Swaps(f))
         \/ \E f, g : NewFrame(f) /\ NewFrame(g) /\ SwapsAndPushes(f, g)
  PROVE  FramesTyped' /\ stack' \in Seq(Frames)
<1>1. FramesTyped /\ stack \in Seq(Frames)
  BY ListType DEF TypeInv, FramesTyped
<1>2. CASE Stays \/ Pops
  BY <1>1, <1>2 DEF FramesTyped, Stays, Pops, Keeps
<1>3. CASE \E f : NewFrame(f) /\ (Pushes(f) \/ Swaps(f))
  <2>1. PICK f : NewFrame(f) /\ (Pushes(f) \/ Swaps(f))
    BY <1>3
  <2>2. CASE Pushes(f)
    BY <1>1, <2>1, <2>2 DEF FramesTyped, Pushes, Keeps, NewFrame
  <2>3. CASE Swaps(f)
    BY <1>1, <2>1, <2>3 DEF FramesTyped, Swaps, Keeps, NewFrame
  <2> QED
    BY <2>1, <2>2, <2>3
<1>4. CASE \E f, g : NewFrame(f) /\ NewFrame(g) /\ SwapsAndPushes(f, g)
  <2>1. PICK f, g : NewFrame(f) /\ NewFrame(g) /\ SwapsAndPushes(f, g)
    BY <1>4
  <2> QED
    BY <1>1, <2>1 DEF FramesTyped, SwapsAndPushes, Keeps, NewFrame
<1> QED
  BY <1>2, <1>3, <1>4

LEMMA EnterKeeps ==
  ASSUME TypeInv, NEW x \in Things, NEW r \in Given(x) \cup {Pending}, Enters(x, r)
  PROVE  FramesTyped' /\ stack' \in Seq(Frames)
<1>1. CASE r = Pending
  BY <1>1, FramesKept DEF Enters
<1>2. CASE r # Pending
  BY <1>2, FireFrame, FramesKept DEF Enters
<1> QED
  BY <1>1, <1>2

\* The rest of the types, for a step that leaves what was made alone
TypesKept ==
  /\ resultList' \in Seq(Entries \cup {Null}) /\ Len(resultList') <= Len(list)
  /\ finishedCount' \in Nat /\ fired' \in {-1, 0, 1}
  /\ result'.by \in {"none", "all", "first", "error", "cancel", "gathered"}
  /\ chain' \in [Things -> Seq(Pairs)]
  /\ \A x \in Things : \A j \in 1..Len(chain'[x]) : chain'[x][j].i \in 1..Len(resultList')
  /\ outcome' \in [Things -> Results \cup {Pending}] /\ ended' \in [Things -> Results \cup {Pending}]
  /\ \A x \in Things :
       outcome'[x] \in Given(x) \cup {Pending} /\ ended'[x] \in Answers(x) \cup {Pending}

LEMMA TypeFromParts ==
  ASSUME TypeInv, UNCHANGED made, TypesKept, FramesTyped', stack' \in Seq(Frames)
  PROVE  TypeInv'
BY DEF TypeInv, TypeOK, TypesKept, FramesTyped, made

LEMMA TypeParts ==
  ASSUME TypeInv
  PROVE  /\ finishedCount \in Nat /\ fired \in {-1, 0, 1}
         /\ result.by \in {"none", "all", "first", "error", "cancel", "gathered"}
         /\ outcome \in [Things -> Results \cup {Pending}] /\ ended \in [Things -> Results \cup {Pending}]
         /\ \A x \in Things :
              outcome[x] \in Given(x) \cup {Pending} /\ ended[x] \in Answers(x) \cup {Pending}
BY DEF TypeInv, TypeOK

LEMMA DropTail ==
  ASSUME TypeInv, NEW x, NEW p, Takes(x, p)
  PROVE  /\ x \in Things /\ Len(chain[x]) \in Nat /\ Len(chain'[x]) \in Nat
         /\ Len(chain[x]) = Len(chain'[x]) + 1
         /\ \A j \in 1..Len(chain'[x]) :
              j + 1 \in 1..Len(chain[x]) /\ chain'[x][j] = chain[x][j + 1]
<1>1. x \in Things /\ chain[x] \in Seq(Pairs) /\ chain'[x] \in Seq(Pairs)
      /\ Len(chain'[x]) = Len(chain[x]) - 1
      /\ \A j \in 1..Len(chain[x]) - 1 : chain'[x][j] = chain[x][j + 1]
  BY ChainType DEF Takes, Drops
<1> QED
  BY <1>1

\* The pairs that are left have the indices they had.
LEMMA DropTypes ==
  ASSUME TypeInv, NEW x, NEW p, Takes(x, p), SameBut({x})
  PROVE  \A y \in Things : \A j \in 1..Len(chain'[y]) : chain'[y][j].i \in 1..Len(resultList)
<1>1. \A j \in 1..Len(chain'[x]) : chain'[x][j].i \in 1..Len(resultList)
  BY DropTail, ChainType
<1> QED
  BY <1>1, ChainType DEF SameBut

LEMMA GatherBy ==
  ASSUME NEW r
  PROVE  \/ Gather(r) = r
         \/ /\ "gather" \in flags /\ r.by = "all" /\ Gather(r).by = "gathered"
            /\ Gather(r).what = [i \in DOMAIN r.what |-> r.what[i].result]
BY DEF Gather

LEMMA GainTwo ==
  ASSUME TypeInv, NEW i, NEW x \in Things, GainsTwo(x, i)
  PROVE  /\ Len(chain[x]) \in Nat /\ Len(chain'[x]) = Len(chain[x]) + 2
         /\ \A j \in 1..Len(chain'[x]) :
              \/ j \in 1..Len(chain[x]) /\ chain'[x][j] = chain[x][j]
              \/ j = Len(chain[x]) + 1 /\ chain'[x][j] = CbPair(i)
              \/ j = Len(chain[x]) + 2 /\ chain'[x][j] = EbPair(i)
BY ChainType DEF GainsTwo

LEMMA GainOne ==
  ASSUME TypeInv, NEW p, NEW x \in Things, GainsOne(x, p)
  PROVE  /\ Len(chain[x]) \in Nat /\ Len(chain'[x]) = Len(chain[x]) + 1
         /\ \A j \in 1..Len(chain'[x]) :
              \/ j \in 1..Len(chain[x]) /\ chain'[x][j] = chain[x][j]
              \/ j = Len(chain[x]) + 1 /\ chain'[x][j] = p
BY ChainType DEF GainsOne

LEMMA AddTypes ==
  ASSUME TypeInv, NEW i, NEW x, AddsMember(i, x)
  PROVE  TypeInv'
<1>1. \A y \in Things : \A j \in 1..Len(chain'[y]) : chain'[y][j].i \in 1..i
  <2>1. Len(resultList) \in Nat /\ i = Len(resultList) + 1 /\ x \in Things
        /\ GainsTwo(x, i) /\ SameBut({x})
    BY ListType DEF AddsMember
  <2>2. \A y \in Things : \A j \in 1..Len(chain[y]) : chain[y][j].i \in 1..i
    BY <2>1, ChainType
  <2>3. CbPair(i).i = i /\ EbPair(i).i = i /\ i \in 1..i
    BY <2>1 DEF CbPair, EbPair
  <2>4. \A j \in 1..Len(chain'[x]) : chain'[x][j].i \in 1..i
    BY <2>1, <2>2, <2>3, GainTwo
  <2> QED
    BY <2>1, <2>2, <2>4 DEF SameBut
<1>2. TypesKept
  BY <1>1, TypeParts DEF TypesKept, AddsMember, GainsTwo
<1>3. FramesTyped' /\ stack' \in Seq(Frames)
  BY EnterKeeps, TypeParts DEF AddsMember
<1> QED
  BY <1>2, <1>3, TypeFromParts DEF AddsMember

LEMMA SkipTypes ==
  ASSUME TypeInv, NEW x, NEW p, Skips(x, p)
  PROVE  TypeInv'
<1>1. TypesKept
  BY DropTypes, TypeParts, ListType DEF TypesKept, Skips, Takes, Drops, fields
<1>2. FramesTyped' /\ stack' \in Seq(Frames)
  BY FramesKept DEF Skips
<1> QED
  BY <1>1, <1>2, TypeFromParts DEF Skips

LEMMA FollowTypes ==
  ASSUME TypeInv, NEW x, NEW p, NEW n \in Things, n # x, Follows(x, p, n)
  PROVE  TypeInv'
<1>1. \A y \in Things : \A j \in 1..Len(chain'[y]) : chain'[y][j].i \in 1..Len(resultList)
  <2>1. \A j \in 1..Len(chain'[x]) : chain'[x][j].i \in 1..Len(resultList)
    BY DropTail, ChainType DEF Follows
  <2>2. \A j \in 1..Len(chain'[n]) : chain'[n][j].i \in 1..Len(resultList)
    <3>1. GainsOne(n, [i |-> p.i, cb |-> p.cb, eb |-> p.cb]) /\ p.i \in 1..Len(resultList)
      BY DEF Follows, Takes
    <3> QED
      BY <3>1, GainOne, ChainType
  <2> QED
    BY <2>1, <2>2, ChainType DEF Follows, SameBut
<1>2. TypesKept
  BY <1>1, TypeParts, ListType DEF TypesKept, Follows, Takes, Drops, fields
<1>3. FramesTyped' /\ stack' \in Seq(Frames)
  BY EnterKeeps, TypeParts DEF Follows
<1> QED
  BY <1>2, <1>3, TypeFromParts DEF Follows

LEMMA RecordTypes ==
  ASSUME TypeInv, NEW x, NEW p, NEW b, NEW r, Records(x, p, b, r)
  PROVE  TypeInv'
<1>1. \A y \in Things : \A j \in 1..Len(chain'[y]) : chain'[y][j].i \in 1..Len(resultList)
  BY DropTypes DEF Records
<1> DEFINE then == FiresWith(p.i, b, r, resultList', finishedCount')
<1>2. /\ then.o \in {-1, 0, 1}
      /\ then.r.by \in {"none", "all", "first", "error", "cancel", "gathered"}
  BY TypeParts DEF FiresWith
<1>3. fired' = then.o /\ result' = IF Initialising THEN then.r ELSE Gather(then.r)
  BY DEF Records
<1>4. /\ fired' \in {-1, 0, 1}
      /\ result'.by \in {"none", "all", "first", "error", "cancel", "gathered"}
  <2> HIDE DEF then
  <2> QED
    BY <1>2, <1>3, GatherBy
<1>5. TypesKept
  <2>1. /\ resultList' \in Seq(Entries \cup {Null}) /\ Len(resultList') = Len(resultList)
        /\ finishedCount' = finishedCount + 1 /\ chain' \in [Things -> Seq(Pairs)]
        /\ UNCHANGED <<made, outcome, ended>>
    BY DEF Records, Takes, Drops
  <2> QED
    BY <1>1, <1>4, <2>1, TypeParts, ListType DEF TypesKept
<1>6. Consumed(b, r) \in Given(x)
  BY DEF Consumed, Records, Takes, Given
<1>7. NewFrame(Frame("fire", x, Consumed(b, r))) /\ NewFrame(Frame("client", Null, Null))
  BY <1>6, FireFrame, ClientFrame DEF Records, Takes, ClientPCs
<1>8. FramesTyped' /\ stack' \in Seq(Frames)
  BY <1>7, FramesKept DEF Records
<1> QED
  BY <1>5, <1>8, TypeFromParts DEF Records

LEMMA LeaveTypes ==
  ASSUME TypeInv, NEW x, NEW r, Leaves(x, r)
  PROVE  TypeInv'
<1>1. TypesKept
  BY TypeParts, ListType, ChainType DEF TypesKept, Leaves, fields
<1>2. FramesTyped' /\ stack' \in Seq(Frames)
  BY FramesKept DEF Leaves
<1> QED
  BY <1>1, <1>2, TypeFromParts DEF Leaves

LEMMA SettleTypes ==
  ASSUME TypeInv, NEW x, NEW r, Settles(x, r)
  PROVE  TypeInv'
<1>1. r \in Given(x)
  BY DEF Settles, Given
<1>2. TypesKept
  BY <1>1, TypeParts, ListType, ChainType DEF TypesKept, Settles, fields
<1>3. FramesTyped' /\ stack' \in Seq(Frames)
  BY <1>1, FramesKept, FireFrame DEF Settles
<1> QED
  BY <1>2, <1>3, TypeFromParts DEF Settles

LEMMA AsideTypes ==
  ASSUME TypeInv, Aside
  PROVE  TypeInv'
<1>1. fired' \in {-1, 0, 1} /\ result'.by \in {"none", "all", "first", "error", "cancel", "gathered"}
  <2>1. CASE InitReturns
    <3>1. \/ fired' = 0 /\ result' = Gather([by |-> "all", what |-> resultList])
          \/ fired' = fired /\ result' = Gather(result)
      BY <2>1 DEF InitReturns
    <3>2. \E r : result' = Gather(r)
                  /\ r.by \in {"none", "all", "first", "error", "cancel", "gathered"}
      <4>1. [by |-> "all", what |-> resultList].by = "all"
        OBVIOUS
      <4> QED
        BY <3>1, <4>1, TypeParts, Zenon
    <3>3. result'.by \in {"none", "all", "first", "error", "cancel", "gathered"}
      BY <3>2, GatherBy
    <3> QED
      BY <3>1, <3>3, TypeParts
  <2>2. CASE ~InitReturns
    BY <2>2, TypeParts DEF Aside
  <2> QED
    BY <2>1, <2>2
<1>2. TypesKept
  BY <1>1, TypeParts, ListType, ChainType DEF TypesKept, Aside
<1>3. FramesTyped' /\ stack' \in Seq(Frames)
  BY FramesKept, ClientFrame DEF Aside, ClientPCs
<1> QED
  BY <1>2, <1>3, TypeFromParts DEF Aside

Move ==
  \/ \E i \in Nat, x \in Things : AddsMember(i, x)
  \/ \E x \in Things, p \in Pairs : Skips(x, p)
  \/ \E x \in Things, p \in Pairs, n \in Things : Follows(x, p, n) /\ n # x
  \/ \E x \in Things, p \in Pairs, b \in {"YES", "NO"}, r \in Plain \cup {Null} : Records(x, p, b, r)
  \/ \E x \in Things : \E r \in Given(x) : Leaves(x, r)
  \/ \E x \in Things : \E r \in Answers(x) : Settles(x, r)
  \/ Aside
  \/ UNCHANGED vars

LEMMA Moves ==
  ASSUME TypeInv, [Next]_vars
  PROVE  Move
<1>1. CASE AddMember
  BY <1>1, AddShape DEF Move
<1>2. ASSUME NEW x \in Things, Skip(x)
      PROVE  Move
  BY <1>2, SkipShape DEF Move
<1>3. ASSUME NEW x \in Things, Follow(x)
      PROVE  Move
  BY <1>3, FollowShape DEF Move
<1>4. ASSUME NEW x \in Things, Record(x)
      PROVE  Move
  BY <1>4, RecordShape DEF Move
<1>5. ASSUME NEW x \in Things, FireReturns(x)
      PROVE  Move
  BY <1>5, LeaveShape DEF Move
<1>6. ASSUME NEW x \in Things, Settle(x)
      PROVE  Move
  BY <1>6, SettleShape DEF Move
<1>7. CASE InitReturns \/ Cancel \/ CancellerReturns \/ ClientReturns
  BY <1>7, AsideShape DEF Move
<1> QED
  BY <1>1, <1>2, <1>3, <1>4, <1>5, <1>6, <1>7 DEF Next, Step, Move

LEMMA Still ==
  ASSUME TypeInv, UNCHANGED vars
  PROVE  TypeInv'
BY DEF TypeInv, TypeOK, vars, made, fields

LEMMA TypeStep ==
  ASSUME TypeInv, Move
  PROVE  TypeInv'
BY AddTypes, SkipTypes, FollowTypes, RecordTypes, LeaveTypes, SettleTypes, AsideTypes, Still DEF Move

-----------------------------------------------------------------------------
(* The list fires once, and its callbacks run above what has fired it *)

LEMMA FiresOnce ==
  ASSUME TypeInv, Move, fired # -1
  PROVE  fired' # -1
<1>1. ASSUME NEW x, NEW p, NEW b, NEW r, Records(x, p, b, r)
      PROVE  fired' # -1
  BY <1>1 DEF Records, FiresWith, Unfired
<1>2. CASE Aside
  BY <1>2 DEF Aside, InitReturns, Cancel
<1>3. CASE UNCHANGED fired
  BY <1>3
<1> QED
  BY <1>1, <1>2, <1>3 DEF Move, AddsMember, Skips, Follows, Leaves, Settles, fields, vars

LEMMA StackPop ==
  ASSUME TypeInv, StackInv, Pops, fired # -1 => fired' # -1
  PROVE  StackInv'
BY ListType DEF StackInv, Pops, Keeps, Initialising

LEMMA StackPush ==
  ASSUME TypeInv, StackInv, fired # -1 => fired' # -1,
         NEW f, Pushes(f), f.pc # "init", Initialising => f.pc = "fire",
         stack # <<>> /\ Top.pc = "fire" /\ Top.x \notin Foreign => fired' # -1
  PROVE  StackInv'
<1>1. stack \in Seq(Frames)
  BY ListType
<1>2. Initialising' => Initialising
  BY <1>1 DEF Initialising, Pushes, Keeps
<1>3. Initialising' => \A i \in 2..Len(stack') : stack'[i].pc = "fire"
  BY <1>1, <1>2 DEF StackInv, Pushes, Keeps
<1>4. \A i \in 1..Len(stack') :
        i < Len(stack') /\ stack'[i].pc = "fire" /\ stack'[i].x \notin Foreign => fired' # -1
  BY <1>1 DEF StackInv, Pushes, Keeps, Top
<1> QED
  BY <1>3, <1>4 DEF StackInv

LEMMA NotWhileMade ==
  ASSUME TypeInv, StackInv, ClientRuns \/ (stack # <<>> /\ Top.pc \in ClientPCs)
  PROVE  ~Initialising
BY ListType DEF StackInv, ClientRuns, Initialising, Top, ClientPCs

LEMMA EnterStack ==
  ASSUME TypeInv, StackInv, UNCHANGED fired, NEW x, NEW r, Enters(x, r),
         stack # <<>> /\ Top.pc = "fire" => Top.x \in Foreign
  PROVE  StackInv'
<1>1. CASE r = Pending
  BY <1>1 DEF Enters, Stays, StackInv, Initialising
<1>2. CASE r # Pending
  <2> DEFINE f == Frame("fire", x, r)
  <2>1. Pushes(f) /\ f.pc = "fire"
    BY <1>2 DEF Enters, Frame
  <2> HIDE DEF f
  <2> QED
    BY <2>1, StackPush
<1> QED
  BY <1>1, <1>2

LEMMA RecordStack ==
  ASSUME TypeInv, StackInv, NEW x, NEW p, NEW b, NEW r, Records(x, p, b, r),
         fired # -1 => fired' # -1
  PROVE  StackInv'
<1> DEFINE f == Frame("fire", x, Consumed(b, r))
           g == Frame("client", Null, Null)
<1>1. /\ stack # <<>> /\ Top.pc = "fire" /\ Top.x = x /\ stack \in Seq(Frames)
      /\ f.pc = "fire" /\ f.x = x /\ g.pc = "client" /\ g.x = Null
  BY ListType DEF Records, Takes, Frame
<1>2. \/ Swaps(f)
      \/ SwapsAndPushes(f, g) /\ ~Initialising /\ fired' # fired
  BY DEF Records
<1> HIDE DEF f, g
<1>3. CASE Swaps(f)
  BY <1>1, <1>3 DEF StackInv, Swaps, Keeps, Initialising, Top
<1>4. CASE SwapsAndPushes(f, g) /\ ~Initialising /\ fired' # fired
  <2>1. fired' # -1
    BY <1>4
  <2>2. ~Initialising'
    BY <1>1, <1>4 DEF SwapsAndPushes, Keeps, Initialising, Top
  <2> QED
    BY <2>1, <2>2 DEF StackInv
<1> QED
  BY <1>2, <1>3, <1>4

LEMMA AsideStack ==
  ASSUME TypeInv, StackInv, Aside, fired # -1 => fired' # -1
  PROVE  StackInv'
<1>1. CASE Pops
  BY <1>1, StackPop
<1>2. ASSUME NEW pc \in ClientPCs, Pushes(Frame(pc, Null, Null)), Cancel
      PROVE  StackInv'
  <2>1. ClientRuns
    BY <1>2 DEF Cancel
  <2>2. ~Initialising /\ ~(stack # <<>> /\ Top.pc = "fire")
    BY <2>1, NotWhileMade DEF ClientRuns, ClientPCs
  <2>3. Frame(pc, Null, Null).pc # "init"
    BY DEF Frame, ClientPCs
  <2> QED
    BY <1>2, <2>2, <2>3, StackPush
<1>3. ASSUME Swaps(Frame("client", Null, Null)), Top.pc = "canceller", fired' = 1
      PROVE  StackInv'
  <2>1. ~Initialising
    BY <1>3, NotWhileMade DEF Swaps, ClientPCs
  <2>2. ~Initialising'
    BY <1>3, <2>1, ListType DEF Swaps, Keeps, Initialising, Frame
  <2> QED
    BY <1>3, <2>2 DEF StackInv
<1> QED
  BY <1>1, <1>2, <1>3 DEF Aside, ClientPCs

LEMMA StackStep ==
  ASSUME TypeInv, StackInv, Move
  PROVE  StackInv'
<1>0. fired # -1 => fired' # -1
  BY FiresOnce
<1>1. ASSUME NEW i, NEW x, AddsMember(i, x)
      PROVE  StackInv'
  BY <1>1, EnterStack DEF AddsMember, Top
<1>2. ASSUME NEW x, NEW p, Skips(x, p)
      PROVE  StackInv'
  BY <1>2 DEF Skips, Stays, StackInv, Initialising, fields
<1>3. ASSUME NEW x, NEW p, NEW n, Follows(x, p, n)
      PROVE  StackInv'
  BY <1>3, EnterStack DEF Follows, Takes, fields
<1>4. ASSUME NEW x, NEW p, NEW b, NEW r, Records(x, p, b, r)
      PROVE  StackInv'
  BY <1>0, <1>4, RecordStack
<1>5. ASSUME NEW x, NEW r, Leaves(x, r)
      PROVE  StackInv'
  BY <1>0, <1>5, StackPop DEF Leaves
<1>6. ASSUME NEW x, NEW r, Settles(x, r)
      PROVE  StackInv'
  <2>1. Pushes(Frame("fire", x, r)) /\ ClientRuns /\ UNCHANGED fired
    BY <1>6 DEF Settles, fields
  <2>2. ~(stack # <<>> /\ Top.pc = "fire") /\ Frame("fire", x, r).pc = "fire"
    BY <2>1 DEF ClientRuns, ClientPCs, Frame
  <2> QED
    BY <2>1, <2>2, StackPush
<1>7. CASE Aside
  BY <1>0, <1>7, AsideStack
<1>8. CASE UNCHANGED vars
  BY <1>8 DEF vars, fields, StackInv, Initialising
<1> QED
  BY <1>1, <1>2, <1>3, <1>4, <1>5, <1>6, <1>7, <1>8 DEF Move

-----------------------------------------------------------------------------
(* What a deferred has come to *)

\* What a deferred was given stays.
EndedStays == \A x \in Things : ended[x] # Pending => ended'[x] = ended[x]

OutcomesCame ==
  \A x \in Things :
    /\ outcome[x] = Pending <=> ended[x] = Pending
    /\ outcome[x] # Pending => Came(x, outcome[x])
    /\ outcome[x] = Pending => At(x, 0)

FramesCame == \A i \in 1..Len(stack) : stack[i].pc = "fire" => Came(stack[i].x, stack[i].result)

LEMMA ResultParts == ResultInv <=> OutcomesCame /\ FramesCame
BY DEF ResultInv, OutcomesCame, FramesCame

LEMMA EndedStep ==
  ASSUME TypeInv, ResultInv, Move
  PROVE  EndedStays
BY DEF Move, EndedStays, ResultInv, AddsMember, Skips, Follows, Records, Leaves, Settles, Aside, vars

\* Came, in the next state, of what this one has
CameNext(x, r) ==
  \/ r = ended'[x]
  \/ r = Null /\ "consumeErrors" \in flags' /\ ended'[x] \in Errors

LEMMA CameStays ==
  ASSUME EndedStays, NEW x \in Things, NEW r \in Given(x), Came(x, r), UNCHANGED made
  PROVE  CameNext(x, r) /\ ended[x] # Pending
BY Kinds DEF Came, CameNext, EndedStays, made

LEMMA FrameCame ==
  ASSUME TypeInv, ResultInv, NEW i \in 1..Len(stack), stack[i].pc = "fire"
  PROVE  /\ stack[i].x \in Things /\ stack[i].result \in Given(stack[i].x)
         /\ Came(stack[i].x, stack[i].result)
BY DEF TypeInv, ResultInv, FrameOK

LEMMA TopCame ==
  ASSUME TypeInv, ResultInv, stack # <<>>, Top.pc = "fire"
  PROVE  Top.x \in Things /\ Top.result \in Given(Top.x) /\ Came(Top.x, Top.result)
<1>1. Len(stack) \in 1..Len(stack)
  BY ListType
<1> QED
  BY <1>1, FrameCame DEF Top

\* The deferred of the frame f came to what f has.
CameFrame(f) == f.pc = "fire" => CameNext(f.x, f.result)

LEMMA FramesStay ==
  ASSUME TypeInv, ResultInv, EndedStays, UNCHANGED made,
         \/ Stays \/ Pops
         \/ \E f : CameFrame(f) /\ (Pushes(f) \/ Swaps(f))
         \/ \E f, g : CameFrame(f) /\ CameFrame(g) /\ SwapsAndPushes(f, g)
  PROVE  FramesCame'
<1>1. /\ stack \in Seq(Frames)
      /\ \A i \in 1..Len(stack) : CameFrame(stack[i])
  BY ListType, FrameCame, CameStays DEF CameFrame
<1>2. SUFFICES \A i \in 1..Len(stack') : CameFrame(stack'[i])
  BY DEF FramesCame, CameFrame, CameNext, Came
<1>3. CASE Stays \/ Pops
  BY <1>1, <1>3 DEF Stays, Pops, Keeps
<1>4. ASSUME NEW f, CameFrame(f), Pushes(f)
      PROVE  \A i \in 1..Len(stack') : CameFrame(stack'[i])
  BY <1>1, <1>4 DEF Pushes, Keeps
<1>5. ASSUME NEW f, CameFrame(f), Swaps(f)
      PROVE  \A i \in 1..Len(stack') : CameFrame(stack'[i])
  BY <1>1, <1>5 DEF Swaps, Keeps
<1>6. ASSUME NEW f, NEW g, CameFrame(f), CameFrame(g), SwapsAndPushes(f, g)
      PROVE  \A i \in 1..Len(stack') : CameFrame(stack'[i])
  BY <1>1, <1>6 DEF SwapsAndPushes, Keeps
<1> QED
  BY <1>3, <1>4, <1>5, <1>6

\* No _fire of x has begun.
LEMMA NoneAt ==
  ASSUME TypeInv, NEW x, At(x, 0)
  PROVE  \A j \in 1..Len(stack) : stack[j].x # x
BY ListType DEF At

LEMMA OutcomesStay ==
  ASSUME TypeInv, ResultInv, EndedStays, UNCHANGED <<made, outcome, ended>>,
         stack' \in Seq(Frames),
         \A x \in Things : outcome[x] = Pending => Calm(x)
  PROVE  OutcomesCame'
<1> SUFFICES ASSUME NEW x \in Things
             PROVE  /\ outcome'[x] = Pending <=> ended'[x] = Pending
                    /\ outcome'[x] # Pending => CameNext(x, outcome'[x])
                    /\ outcome'[x] = Pending => At(x, 0)'
  BY DEF OutcomesCame, CameNext, Came
<1>1. /\ outcome[x] = Pending <=> ended[x] = Pending
      /\ outcome[x] # Pending => Came(x, outcome[x])
      /\ outcome[x] = Pending => At(x, 0)
  BY DEF ResultInv
<1>2. outcome[x] = Pending => At(x, 0)'
  BY <1>1, CalmAt, ListType
<1> QED
  BY <1>1, <1>2 DEF CameNext, Came, made

LEMMA EnterResults ==
  ASSUME TypeInv, ResultInv, EndedStays, NEW x \in Things, Enters(x, outcome[x]),
         UNCHANGED <<made, outcome, ended>>
  PROVE  ResultInv'
<1>1. CASE outcome[x] = Pending
  <2>1. Stays /\ stack' \in Seq(Frames)
    BY <1>1 DEF Enters, Stays
  <2> QED
    BY <2>1, StayCalm, OutcomesStay, FramesStay, ListType, ResultParts DEF ResultInv, FramesCame, OutcomesCame
<1>2. CASE outcome[x] # Pending
  <2> DEFINE f == Frame("fire", x, outcome[x])
  <2>1. Pushes(f) /\ f.x = x /\ stack' \in Seq(Frames)
    BY <1>2 DEF Enters, Frame, Pushes
  <2>2. CameFrame(f)
    BY <1>2 DEF CameFrame, Frame, CameNext, Came, ResultInv, made
  <2> HIDE DEF f
  <2>3. \A y \in Things : outcome[y] = Pending => Calm(y)
    BY <1>2, <2>1, PushCalm, ListType
  <2>4. OutcomesCame'
    BY <2>1, <2>3, OutcomesStay
  <2>5. FramesCame'
    BY <2>1, <2>2, FramesStay
  <2> QED
    BY <2>4, <2>5 DEF ResultInv, OutcomesCame, FramesCame
<1> QED
  BY <1>1, <1>2

\* The pair at the head is the list's.
LEMMA HeadKnown ==
  ASSUME ChainInv, NEW x, NEW p, Takes(x, p)
  PROVE  PairOK(x, p)
BY DEF ChainInv, Takes

LEMMA RecordResults ==
  ASSUME TypeInv, ResultInv, ChainInv, EndedStays, NEW x, NEW p, NEW b, NEW r, Records(x, p, b, r)
  PROVE  ResultInv'
<1> DEFINE f == Frame("fire", x, Consumed(b, r))
           g == Frame("client", Null, Null)
<1>1. /\ x \in Things /\ stack # <<>> /\ Top.x = x /\ Top.pc = "fire" /\ Top.result = r
      /\ UNCHANGED <<made, outcome, ended>> /\ b = Branch(p, r)
  BY DEF Records, Takes
<1>2. Came(x, r) /\ r \in Given(x) /\ CameNext(x, r)
  BY <1>1, TopCame, CameStays
<1>3. outcome[x] # Pending
  BY <1>1, <1>2, CameStays DEF ResultInv
<1>4. b = "NO" => r \in Errors
  BY <1>1, HeadKnown DEF Records, Branch, PairOK, IsCb, IsEb, IsBoth
<1>5. CameNext(x, Consumed(b, r))
  BY <1>1, <1>2, <1>4, Kinds DEF Consumed, CameNext, made
<1>6. CameFrame(f) /\ CameFrame(g) /\ f.x = x /\ g.x = Null /\ (Swaps(f) \/ SwapsAndPushes(f, g))
  BY <1>5 DEF CameFrame, Frame, Records
<1>7. stack' \in Seq(Frames) /\ stack \in Seq(Frames)
  BY <1>6, ListType DEF Swaps, SwapsAndPushes
<1> HIDE DEF f, g
<1>8. \A y \in Things : outcome[y] = Pending => Calm(y)
  BY <1>1, <1>3, <1>6, <1>7, SwapCalm, SwapAndPushCalm, Kinds
<1>9. OutcomesCame'
  BY <1>1, <1>7, <1>8, OutcomesStay
<1>10. FramesCame'
  BY <1>1, <1>6, FramesStay
<1> QED
  BY <1>9, <1>10 DEF ResultInv, OutcomesCame, FramesCame

LEMMA LeaveResults ==
  ASSUME TypeInv, ResultInv, EndedStays, NEW x, NEW r, Leaves(x, r)
  PROVE  ResultInv'
<1>1. /\ x \in Things /\ stack # <<>> /\ Top.x = x /\ Top.pc = "fire" /\ Top.result = r
      /\ UNCHANGED <<made, ended>> /\ Pops
  BY DEF Leaves
<1>2. Came(x, r) /\ r \in Given(x) /\ CameNext(x, r) /\ ended[x] # Pending /\ r # Pending
  BY <1>1, TopCame, CameStays, Kinds
<1>3. FramesCame'
  BY <1>1, FramesStay
<1>4. \A y \in Things : y # x => Calm(y)
  BY <1>1, PopCalm, ListType
<1>5. OutcomesCame'
  <2> SUFFICES ASSUME NEW y \in Things
               PROVE  /\ outcome'[y] = Pending <=> ended'[y] = Pending
                      /\ outcome'[y] # Pending => CameNext(y, outcome'[y])
                      /\ outcome'[y] = Pending => At(y, 0)'
    BY DEF OutcomesCame, CameNext, Came
  <2>1. CASE y = x
    BY <1>1, <1>2, <2>1 DEF Leaves
  <2>2. CASE y # x
    <3>1. outcome'[y] = outcome[y] /\ ended'[y] = ended[y] /\ flags' = flags
      BY <2>2 DEF Leaves, made
    <3>2. stack \in Seq(Frames) /\ stack' \in Seq(Frames)
      BY <1>1, ListType DEF Pops
    <3>3. outcome[y] = Pending => At(y, 0)'
      BY <1>4, <2>2, <3>2, CalmAt DEF ResultInv
    <3> QED
      BY <3>1, <3>3 DEF ResultInv, CameNext, Came
  <2> QED
    BY <2>1, <2>2
<1> QED
  BY <1>3, <1>5 DEF ResultInv, OutcomesCame, FramesCame

LEMMA SettleResults ==
  ASSUME TypeInv, ResultInv, EndedStays, NEW x, NEW r, Settles(x, r)
  PROVE  ResultInv'
<1> DEFINE f == Frame("fire", x, r)
<1>1. /\ x \in Things /\ Pushes(f) /\ f.x = x /\ f.result = r /\ UNCHANGED made
      /\ r # Pending /\ ended'[x] = r /\ outcome'[x] = r
  BY Kinds DEF Settles, Frame, Given
<1>2. CameFrame(f)
  BY <1>1 DEF CameFrame, CameNext
<1> HIDE DEF f
<1>3. FramesCame'
  BY <1>1, <1>2, FramesStay
<1>4. \A y \in Things : y # x => Calm(y)
  BY <1>1, PushCalm, ListType
<1>5. OutcomesCame'
  <2> SUFFICES ASSUME NEW y \in Things
               PROVE  /\ outcome'[y] = Pending <=> ended'[y] = Pending
                      /\ outcome'[y] # Pending => CameNext(y, outcome'[y])
                      /\ outcome'[y] = Pending => At(y, 0)'
    BY DEF OutcomesCame, CameNext, Came
  <2>1. CASE y = x
    BY <1>1, <2>1 DEF CameNext
  <2>2. CASE y # x
    <3>1. outcome'[y] = outcome[y] /\ ended'[y] = ended[y] /\ flags' = flags
      BY <2>2 DEF Settles, made
    <3>2. stack \in Seq(Frames) /\ stack' \in Seq(Frames)
      BY <1>1, ListType DEF Pushes
    <3>3. outcome[y] = Pending => At(y, 0)'
      BY <1>4, <2>2, <3>2, CalmAt DEF ResultInv
    <3> QED
      BY <3>1, <3>3 DEF ResultInv, CameNext, Came
  <2> QED
    BY <2>1, <2>2
<1> QED
  BY <1>3, <1>5 DEF ResultInv, OutcomesCame, FramesCame

LEMMA AsideResults ==
  ASSUME TypeInv, ResultInv, EndedStays, Aside
  PROVE  ResultInv'
<1>1. UNCHANGED <<made, outcome, ended>> /\ \A x \in Things : Calm(x)
  BY DEF Aside
<1>2. /\ stack' \in Seq(Frames)
      /\ \/ Pops
         \/ \E f : CameFrame(f) /\ (Pushes(f) \/ Swaps(f))
  <2>1. \A pc \in ClientPCs : CameFrame(Frame(pc, Null, Null))
    BY DEF CameFrame, Frame, ClientPCs
  <2>2. \/ Pops
        \/ \E pc \in ClientPCs : Pushes(Frame(pc, Null, Null)) \/ Swaps(Frame(pc, Null, Null))
    BY DEF Aside, ClientPCs
  <2> QED
    BY <2>1, <2>2 DEF Pops, Pushes, Swaps
<1>3. OutcomesCame' /\ FramesCame'
  BY <1>1, <1>2, OutcomesStay, FramesStay
<1> QED
  BY <1>3 DEF ResultInv, OutcomesCame, FramesCame

LEMMA ResultStep ==
  ASSUME TypeInv, ResultInv, ChainInv, Move
  PROVE  ResultInv'
<1>0. EndedStays
  BY EndedStep
<1>1. ASSUME NEW i, NEW x, AddsMember(i, x)
      PROVE  ResultInv'
  BY <1>0, <1>1, EnterResults DEF AddsMember
<1>2. ASSUME NEW x, NEW p, Skips(x, p)
      PROVE  ResultInv'
  <2>1. Stays /\ stack' \in Seq(Frames) /\ UNCHANGED <<made, outcome, ended>>
    BY <1>2 DEF Skips, Stays
  <2>2. OutcomesCame' /\ FramesCame'
    BY <1>0, <2>1, StayCalm, OutcomesStay, FramesStay, ListType
  <2> QED
    BY <2>2 DEF ResultInv, OutcomesCame, FramesCame
<1>3. ASSUME NEW x, NEW p, NEW n, Follows(x, p, n)
      PROVE  ResultInv'
  BY <1>0, <1>3, EnterResults DEF Follows
<1>4. ASSUME NEW x, NEW p, NEW b, NEW r, Records(x, p, b, r)
      PROVE  ResultInv'
  BY <1>0, <1>4, RecordResults
<1>5. ASSUME NEW x, NEW r, Leaves(x, r)
      PROVE  ResultInv'
  BY <1>0, <1>5, LeaveResults
<1>6. ASSUME NEW x, NEW r, Settles(x, r)
      PROVE  ResultInv'
  BY <1>0, <1>6, SettleResults
<1>7. CASE Aside
  BY <1>0, <1>7, AsideResults
<1>8. CASE UNCHANGED vars
  BY <1>8 DEF vars, made, fields, ResultInv, Came, At
<1> QED
  BY <1>1, <1>2, <1>3, <1>4, <1>5, <1>6, <1>7, <1>8 DEF Move

-----------------------------------------------------------------------------
(* The chains *)

PairsOK(x) == \A j \in 1..Len(chain[x]) : PairOK(x, chain[x][j])

Ordered(x) == SideBySide(chain[x]) /\ Distinct(chain[x])

\* Before x has answered, or when its callbacks have been called
Settled(x) ==
  At(x, 0) =>
    /\ chain[x] # <<>> => ~IsEb(chain[x][1])
    /\ outcome[x] # Pending => chain[x] = <<>>

ChainOK(x) == PairsOK(x) /\ Ordered(x) /\ Settled(x) /\ Faithful(x)

LEMMA ChainParts == ChainInv <=> \A x \in Things : ChainOK(x)
BY DEF ChainInv, ChainOK, PairsOK, Ordered, Settled

LEMMA ChainPartsNext == ChainInv' <=> \A x \in Things : ChainOK(x)'
BY DEF ChainInv, ChainOK, PairsOK, Ordered, Settled

\* PairOK, in the next state, of a pair of this one
PairNext(x, p) ==
  \/ (IsCb(p) \/ IsEb(p)) /\ list'[p.i] = x
  \/ /\ IsBoth(p)
     /\ x \notin Foreign /\ list'[p.i] \in Foreign /\ ended'[list'[p.i]] = x

LEMMA PairStays ==
  ASSUME EndedStays, UNCHANGED made, NEW x \in Things, NEW p, PairOK(x, p)
  PROVE  PairNext(x, p)
<1>1. list' = list
  BY DEF made
<1>2. \A y \in Foreign : ended[y] = x => ended'[y] = x
  BY Kinds, ListAssumption DEF EndedStays
<1> QED
  BY <1>1, <1>2 DEF PairOK, PairNext

LEMMA PairsNext ==
  ASSUME NEW x, \A j \in 1..Len(chain'[x]) : PairNext(x, chain'[x][j])
  PROVE  PairsOK(x)'
BY DEF PairsOK, PairOK, PairNext

\* Who is left alone
LEMMA ChainCalm ==
  ASSUME TypeInv, ChainInv, EndedStays, stack' \in Seq(Frames), UNCHANGED made,
         NEW x \in Things, Calm(x), chain'[x] = chain[x], outcome'[x] = outcome[x]
  PROVE  ChainOK(x)'
<1>1. ChainOK(x)
  BY ChainParts
<1>2. PairsOK(x)'
  BY <1>1, PairStays, PairsNext DEF ChainOK, PairsOK
<1>3. Ordered(x)'
  BY <1>1 DEF ChainOK, Ordered, SideBySide, Distinct, IsCb, IsEb
<1>4. /\ \A k : At(x, k)' <=> At(x, k)
      /\ \A k : At(x, k) /\ k > 0 => stack'[k].result = stack[k].result
  BY CalmAt, ListType
<1>5. Settled(x)'
  BY <1>1, <1>4 DEF ChainOK, Settled, IsEb
<1>6. Faithful(x)'
  <2> SUFFICES ASSUME chain'[x] # <<>>, NEW k \in 1..Len(stack'), At(x, k)'
               PROVE  \/ stack'[k].result = outcome'[x]
                      \/ /\ stack'[k].result = Null /\ "consumeErrors" \in flags'
                         /\ outcome'[x] \in Errors
                         /\ Twice(x)' \/ OnlyBoth(chain[x])'
    BY DEF Faithful
  <2>1. At(x, k) /\ k \in 1..Len(stack) /\ stack'[k].result = stack[k].result
    BY <1>4, AtType, ListType
  <2>2. \/ stack[k].result = outcome[x]
        \/ /\ stack[k].result = Null /\ "consumeErrors" \in flags
           /\ outcome[x] \in Errors
           /\ Twice(x) \/ OnlyBoth(chain[x])
    BY <1>1, <2>1 DEF ChainOK, Faithful
  <2>3. Twice(x) => Twice(x)'
    BY DEF Twice, made
  <2>4. OnlyBoth(chain[x]) => OnlyBoth(chain[x])'
    BY DEF OnlyBoth, IsBoth
  <2> QED
    BY <2>1, <2>2, <2>3, <2>4 DEF made
<1> QED
  BY <1>2, <1>3, <1>5, <1>6 DEF ChainOK

\* Taking the pair at the head
LEMMA DropOrdered ==
  ASSUME TypeInv, ChainInv, NEW x, NEW p, Takes(x, p)
  PROVE  Ordered(x)'
<1>1. /\ x \in Things /\ Len(chain[x]) \in Nat /\ Len(chain'[x]) \in Nat
      /\ Len(chain[x]) = Len(chain'[x]) + 1
      /\ \A j \in 1..Len(chain'[x]) :
           j + 1 \in 1..Len(chain[x]) /\ chain'[x][j] = chain[x][j + 1]
  BY DropTail
<1>2. SideBySide(chain[x]) /\ Distinct(chain[x])
  BY <1>1 DEF ChainInv
<1> DEFINE q == chain[x]
           t == chain'[x]
<1>3. SideBySide(t)
  <2> SUFFICES ASSUME NEW j \in 1..Len(t)
               PROVE  /\ IsCb(t[j]) => j < Len(t) /\ IsEb(t[j + 1]) /\ t[j + 1].i = t[j].i
                      /\ IsEb(t[j]) /\ j > 1 => IsCb(t[j - 1]) /\ t[j - 1].i = t[j].i
    BY DEF SideBySide
  <2>1. j + 1 \in 1..Len(q) /\ t[j] = q[j + 1] /\ Len(q) = Len(t) + 1 /\ Len(t) \in Nat
    BY <1>1
  <2>2. IsCb(q[j + 1]) => j + 1 < Len(q) /\ IsEb(q[j + 1 + 1]) /\ q[j + 1 + 1].i = q[j + 1].i
    BY <1>2, <2>1 DEF SideBySide
  <2>3. IsEb(q[j + 1]) => IsCb(q[j + 1 - 1]) /\ q[j + 1 - 1].i = q[j + 1].i
    BY <1>2, <2>1 DEF SideBySide
  <2>4. j < Len(t) => t[j + 1] = q[j + 1 + 1]
    BY <1>1, <2>1
  <2>5. j > 1 => t[j - 1] = q[j - 1 + 1] /\ j - 1 + 1 = j /\ j + 1 - 1 = j
    BY <1>1, <2>1
  <2> HIDE DEF q, t
  <2> QED
    BY <2>1, <2>2, <2>3, <2>4, <2>5
<1>4. Distinct(t)
  <2> SUFFICES ASSUME NEW j \in 1..Len(t), NEW m \in 1..Len(t), t[j].i = t[m].i,
                      (IsCb(t[j]) /\ IsCb(t[m])) \/ (IsEb(t[j]) /\ IsEb(t[m]))
               PROVE  j = m
    BY DEF Distinct
  <2>1. /\ j + 1 \in 1..Len(q) /\ t[j] = q[j + 1]
        /\ m + 1 \in 1..Len(q) /\ t[m] = q[m + 1]
    BY <1>1
  <2>2. j + 1 = m + 1
    BY <1>2, <2>1 DEF Distinct
  <2> QED
    BY <2>2
<1> QED
  BY <1>3, <1>4 DEF Ordered, SideBySide, Distinct, IsCb, IsEb

LEMMA DropPairs ==
  ASSUME TypeInv, ChainInv, EndedStays, UNCHANGED made, NEW x, NEW p, Takes(x, p)
  PROVE  PairsOK(x)'
<1>1. x \in Things /\ \A j \in 1..Len(chain'[x]) :
        j + 1 \in 1..Len(chain[x]) /\ chain'[x][j] = chain[x][j + 1]
  BY DropTail
<1>2. \A j \in 1..Len(chain'[x]) : PairOK(x, chain'[x][j])
  BY <1>1 DEF ChainInv
<1> QED
  BY <1>1, <1>2, PairStays, PairsNext

\* A deferred whose _fire begins, or that waits for one
LEMMA Begun ==
  ASSUME TypeInv, NEW x \in Things, NEW f, f.x = x, Pushes(f), f.result = outcome'[x]
  PROVE  Settled(x)' /\ Faithful(x)'
<1>1. stack \in Seq(Frames) /\ Len(stack) \in Nat
  BY ListType
<1>2. \A k : At(x, k)' => k = Len(stack) + 1
  BY <1>1, PushAt
<1>3. stack'[Len(stack) + 1] = f
  BY DEF Pushes
<1>4. ~At(x, 0)'
  BY <1>1, <1>2
<1>5. \A k : At(x, k)' => stack'[k].result = outcome'[x]
  BY <1>2, <1>3
<1> QED
  BY <1>4, <1>5 DEF Settled, Faithful

LEMMA Awaited ==
  ASSUME TypeInv, ResultInv, NEW x \in Things, stack' \in Seq(Frames), Calm(x),
         outcome[x] = Pending, outcome'[x] = Pending,
         chain'[x] # <<>> => ~IsEb(chain'[x][1])
  PROVE  Settled(x)' /\ Faithful(x)'
<1>1. At(x, 0)' /\ stack \in Seq(Frames)
  BY CalmAt, ListType DEF ResultInv
<1>2. \A k \in Nat : At(x, k)' => k = 0
  BY <1>1 DEF At
<1>3. Settled(x)'
  BY DEF Settled, IsEb
<1>4. Faithful(x)'
  BY <1>2 DEF Faithful
<1> QED
  BY <1>3, <1>4

\* x answered, or waits, while a pair is added to its chain.
LEMMA EnterChain ==
  ASSUME TypeInv, ResultInv, NEW x \in Things, Enters(x, outcome[x]), UNCHANGED outcome,
         chain'[x] # <<>> => (At(x, 0) => ~IsEb(chain'[x][1]))
  PROVE  Settled(x)' /\ Faithful(x)'
<1>1. CASE outcome[x] = Pending
  <2>1. Stays /\ stack' \in Seq(Frames) /\ Calm(x) /\ At(x, 0)
    BY <1>1, StayCalm, ListType DEF Enters, Stays, ResultInv
  <2> QED
    BY <1>1, <2>1, Awaited
<1>2. CASE outcome[x] # Pending
  <2> DEFINE f == Frame("fire", x, outcome[x])
  <2>1. Pushes(f) /\ f.x = x /\ f.result = outcome'[x]
    BY <1>2 DEF Enters, Frame
  <2> HIDE DEF f
  <2> QED
    BY <2>1, Begun
<1> QED
  BY <1>1, <1>2

LEMMA EnterCalm ==
  ASSUME TypeInv, NEW x, NEW r, Enters(x, r), NEW y, y # x
  PROVE  Calm(y) /\ stack' \in Seq(Frames)
<1>1. CASE r = Pending
  BY <1>1, StayCalm, ListType DEF Enters, Stays
<1>2. CASE r # Pending
  <2> DEFINE f == Frame("fire", x, r)
  <2>1. Pushes(f) /\ f.x = x
    BY <1>2 DEF Enters, Frame
  <2> HIDE DEF f
  <2> QED
    BY <2>1, PushCalm, ListType DEF Pushes
<1> QED
  BY <1>1, <1>2

\* The pairs that are added keep the order.
LEMMA GainTwoOrdered ==
  ASSUME TypeInv, ChainInv, NEW x \in Things, NEW i \in Nat, GainsTwo(x, i), i > Len(resultList)
  PROVE  /\ Ordered(x)'
         /\ ~(Len(chain[x]) > 0 /\ IsEb(chain[x][1])) => ~IsEb(chain'[x][1])
<1> DEFINE q == chain[x]
           t == chain'[x]
           n == Len(q)
<1>1. /\ n \in Nat /\ Len(t) = n + 2
      /\ \A j \in 1..n : t[j] = q[j]
      /\ t[n + 1] = CbPair(i) /\ t[n + 2] = EbPair(i)
      /\ \A j \in 1..n : q[j].i < i
  <2>1. q \in Seq(Pairs) /\ \A j \in 1..n : q[j].i \in 1..Len(resultList)
    BY ChainType
  <2>2. Len(resultList) \in Nat
    BY ListType
  <2> QED
    BY <2>1, <2>2 DEF GainsTwo
<1>2. SideBySide(q) /\ Distinct(q)
  BY DEF ChainInv
<1>3. /\ IsCb(CbPair(i)) /\ ~IsEb(CbPair(i)) /\ CbPair(i).i = i
      /\ IsEb(EbPair(i)) /\ ~IsCb(EbPair(i)) /\ EbPair(i).i = i
  BY DEF CbPair, EbPair, IsCb, IsEb
<1> HIDE DEF q, t
<1>4. \A j \in 1..Len(t) : j \in 1..n \/ j = n + 1 \/ j = n + 2
  BY <1>1
<1>5. SideBySide(t)
  <2> SUFFICES ASSUME NEW j \in 1..Len(t)
               PROVE  /\ IsCb(t[j]) => j < Len(t) /\ IsEb(t[j + 1]) /\ t[j + 1].i = t[j].i
                      /\ IsEb(t[j]) /\ j > 1 => IsCb(t[j - 1]) /\ t[j - 1].i = t[j].i
    BY DEF SideBySide
  <2>1. CASE j \in 1..n
    <3>1. IsCb(q[j]) => j < n /\ IsEb(q[j + 1]) /\ q[j + 1].i = q[j].i
      BY <1>2, <2>1 DEF SideBySide
    <3>2. IsEb(q[j]) /\ j > 1 => IsCb(q[j - 1]) /\ q[j - 1].i = q[j].i
      BY <1>2, <2>1 DEF SideBySide
    <3>3. t[j] = q[j] /\ (j < n => t[j + 1] = q[j + 1]) /\ (j > 1 => t[j - 1] = q[j - 1])
      BY <1>1, <2>1
    <3> QED
      BY <1>1, <2>1, <3>1, <3>2, <3>3
  <2>2. CASE j = n + 1
    <3>1. j + 1 = n + 2
      BY <1>1, <2>2
    <3> QED
      BY <1>1, <1>3, <2>2, <3>1
  <2>3. CASE j = n + 2
    <3>1. j - 1 = n + 1
      BY <1>1, <2>3
    <3> QED
      BY <1>1, <1>3, <2>3, <3>1
  <2> QED
    BY <1>4, <2>1, <2>2, <2>3
<1>6. Distinct(t)
  <2> SUFFICES ASSUME NEW j \in 1..Len(t), NEW m \in 1..Len(t), t[j].i = t[m].i,
                      (IsCb(t[j]) /\ IsCb(t[m])) \/ (IsEb(t[j]) /\ IsEb(t[m]))
               PROVE  j = m
    BY DEF Distinct
  <2>0. \A k \in 1..n : t[k] = q[k] /\ t[k].i < i /\ t[k].i # i
    <3>1. \A k \in 1..n : q[k].i \in Nat
      BY ChainType, ListType DEF q, n
    <3> QED
      BY <1>1, <3>1
  <2>1. CASE j \in 1..n /\ m \in 1..n
    BY <1>2, <2>0, <2>1 DEF Distinct
  <2>2. CASE j \notin 1..n /\ m \notin 1..n
    BY <1>1, <1>3, <1>4, <2>2
  <2>3. CASE (j \in 1..n) # (m \in 1..n)
    <3>1. \A k \in 1..Len(t) : k \notin 1..n => t[k].i = i
      BY <1>1, <1>3, <1>4
    <3> QED
      BY <2>0, <2>3, <3>1
  <2> QED
    BY <2>1, <2>2, <2>3
<1>7. ~(n > 0 /\ IsEb(q[1])) => ~IsEb(t[1])
  <2>1. CASE n > 0
    BY <1>1, <2>1
  <2>2. CASE n = 0
    BY <1>1, <1>3, <2>2
  <2> QED
    BY <1>1, <2>1, <2>2
<1> QED
  BY <1>5, <1>6, <1>7 DEF Ordered, SideBySide, Distinct, IsCb, IsEb, q, t

LEMMA GainOneOrdered ==
  ASSUME TypeInv, ChainInv, NEW x \in Things, NEW p, GainsOne(x, p), IsBoth(p)
  PROVE  /\ Ordered(x)'
         /\ ~(Len(chain[x]) > 0 /\ IsEb(chain[x][1])) => ~IsEb(chain'[x][1])
<1> DEFINE q == chain[x]
           t == chain'[x]
           n == Len(q)
<1>1. n \in Nat /\ Len(t) = n + 1 /\ (\A j \in 1..n : t[j] = q[j]) /\ t[n + 1] = p
  BY ChainType DEF GainsOne
<1>2. SideBySide(q) /\ Distinct(q)
  BY DEF ChainInv
<1>3. ~IsCb(p) /\ ~IsEb(p)
  BY DEF IsCb, IsEb, IsBoth
<1> HIDE DEF q, t
<1>4. \A j \in 1..Len(t) : j \in 1..n \/ j = n + 1
  BY <1>1
<1>5. SideBySide(t)
  <2> SUFFICES ASSUME NEW j \in 1..n
               PROVE  /\ IsCb(t[j]) => j < Len(t) /\ IsEb(t[j + 1]) /\ t[j + 1].i = t[j].i
                      /\ IsEb(t[j]) /\ j > 1 => IsCb(t[j - 1]) /\ t[j - 1].i = t[j].i
    BY <1>1, <1>3, <1>4 DEF SideBySide
  <2>1. IsCb(q[j]) => j < n /\ IsEb(q[j + 1]) /\ q[j + 1].i = q[j].i
    BY <1>2 DEF SideBySide
  <2>2. IsEb(q[j]) /\ j > 1 => IsCb(q[j - 1]) /\ q[j - 1].i = q[j].i
    BY <1>2 DEF SideBySide
  <2>3. t[j] = q[j] /\ (j < n => t[j + 1] = q[j + 1]) /\ (j > 1 => t[j - 1] = q[j - 1])
    BY <1>1
  <2> QED
    BY <1>1, <2>1, <2>2, <2>3
<1>6. Distinct(t)
  <2>1. \A j \in 1..Len(t) : IsCb(t[j]) \/ IsEb(t[j]) => j \in 1..n /\ t[j] = q[j]
    BY <1>1, <1>3, <1>4
  <2> QED
    BY <1>2, <2>1 DEF Distinct
<1>7. ~(n > 0 /\ IsEb(q[1])) => ~IsEb(t[1])
  <2>1. CASE n > 0
    BY <1>1, <2>1
  <2>2. CASE n = 0
    BY <1>1, <1>3, <2>2
  <2> QED
    BY <1>1, <2>1, <2>2
<1> QED
  BY <1>5, <1>6, <1>7 DEF Ordered, SideBySide, Distinct, IsCb, IsEb, q, t

LEMMA AddChain ==
  ASSUME TypeInv, ResultInv, ChainInv, EndedStays, NEW i, NEW x, AddsMember(i, x)
  PROVE  ChainInv'
<1>1. /\ x \in Things /\ i \in Nat /\ i > Len(resultList) /\ list[i] = x
      /\ GainsTwo(x, i) /\ SameBut({x}) /\ Enters(x, outcome[x])
      /\ UNCHANGED <<made, outcome>>
  BY ListType DEF AddsMember
<1>2. \A y \in Things : y # x => ChainOK(y)'
  BY <1>1, EnterCalm, ChainCalm DEF SameBut
<1>3. PairsOK(x)'
  <2>1. PairOK(x, CbPair(i)) /\ PairOK(x, EbPair(i))
    BY <1>1 DEF PairOK, CbPair, EbPair, IsCb, IsEb
  <2>2. \A j \in 1..Len(chain[x]) : PairOK(x, chain[x][j])
    BY <1>1 DEF ChainInv
  <2>3. \A j \in 1..Len(chain'[x]) : PairOK(x, chain'[x][j])
    BY <1>1, <2>1, <2>2, GainTwo
  <2> QED
    BY <1>1, <2>3, PairStays, PairsNext
<1>4. At(x, 0) => ~(Len(chain[x]) > 0 /\ IsEb(chain[x][1]))
  BY <1>1, ChainType DEF ChainInv
<1>5. Ordered(x)' /\ (At(x, 0) => ~IsEb(chain'[x][1]))
  BY <1>1, <1>4, GainTwoOrdered
<1>6. Settled(x)' /\ Faithful(x)'
  BY <1>1, <1>5, EnterChain
<1>7. ChainOK(x)'
  BY <1>3, <1>5, <1>6 DEF ChainOK
<1> QED
  BY <1>2, <1>7, ChainPartsNext

\* A pair is taken and the frames of x stay.
LEMMA DropFaithful ==
  ASSUME TypeInv, ChainInv, NEW x, NEW p, Takes(x, p), Calm(x), stack' \in Seq(Frames),
         UNCHANGED <<made, outcome>>
  PROVE  Settled(x)' /\ Faithful(x)'
<1>1. /\ x \in Things /\ stack # <<>> /\ Top.x = x /\ stack \in Seq(Frames)
      /\ Len(stack) \in Nat /\ Len(stack) # 0 /\ chain[x] # <<>>
  BY ListType DEF Takes
<1>2. /\ \A k : At(x, k)' <=> k = Len(stack)
      /\ stack'[Len(stack)].result = stack[Len(stack)].result
      /\ At(x, Len(stack))
  BY <1>1, TopAt, CalmAt
<1>3. Settled(x)'
  BY <1>1, <1>2 DEF Settled
<1>4. \/ stack[Len(stack)].result = outcome[x]
      \/ /\ stack[Len(stack)].result = Null /\ "consumeErrors" \in flags /\ outcome[x] \in Errors
         /\ Twice(x) \/ OnlyBoth(chain[x])
  BY <1>1, <1>2 DEF ChainInv, Faithful
<1>5. Twice(x) => Twice(x)'
  BY DEF Twice, made
<1>6. OnlyBoth(chain[x]) => OnlyBoth(chain[x])'
  BY DropTail DEF OnlyBoth, IsBoth
<1>7. Faithful(x)'
  BY <1>2, <1>4, <1>5, <1>6 DEF Faithful, made
<1> QED
  BY <1>3, <1>7

LEMMA SkipChain ==
  ASSUME TypeInv, ResultInv, ChainInv, EndedStays, NEW x, NEW p, Skips(x, p)
  PROVE  ChainInv'
<1>1. /\ x \in Things /\ Takes(x, p) /\ SameBut({x}) /\ Stays /\ stack # <<>> /\ Top.x = x
      /\ UNCHANGED <<made, outcome, ended, stack>> /\ stack' \in Seq(Frames)
  BY DEF Skips, Takes, Stays
<1>2. \A y \in Things : Calm(y)
  BY <1>1, StayCalm, ListType
<1>3. \A y \in Things : y # x => ChainOK(y)'
  BY <1>1, <1>2, ChainCalm DEF SameBut
<1>4. PairsOK(x)' /\ Ordered(x)'
  BY <1>1, DropPairs, DropOrdered
<1>5. Settled(x)' /\ Faithful(x)'
  BY <1>1, <1>2, DropFaithful
<1>6. ChainOK(x)'
  BY <1>4, <1>5 DEF ChainOK
<1> QED
  BY <1>3, <1>6, ChainPartsNext

\* The pair that follows a deferred stands for the member that handed it on.
LEMMA FollowPair ==
  ASSUME TypeInv, ResultInv, ChainInv, NEW x, NEW p, NEW n, Follows(x, p, n)
  PROVE  /\ IsCb(p) /\ list[p.i] = x
         /\ [i |-> p.i, cb |-> p.cb, eb |-> p.cb] = BothPair(p.i)
         /\ IsBoth(BothPair(p.i)) /\ BothPair(p.i).i = p.i
         /\ PairOK(n, BothPair(p.i))
<1>1. /\ x \in Foreign /\ n \notin Foreign /\ n \in Things /\ Top.x = x /\ Top.result = n
      /\ stack # <<>> /\ Top.pc = "fire" /\ p.cb # "nil" /\ Takes(x, p)
  BY DEF Follows, Takes
<1>2. IsCb(p) /\ list[p.i] = x
  BY <1>1, HeadKnown DEF PairOK, IsCb, IsEb, IsBoth
<1>3. ended[x] = n
  BY <1>1, TopCame, Kinds DEF Came
<1>4. /\ [i |-> p.i, cb |-> p.cb, eb |-> p.cb] = BothPair(p.i)
      /\ IsBoth(BothPair(p.i)) /\ BothPair(p.i).i = p.i
  BY <1>2 DEF IsCb, IsBoth, BothPair
<1> QED
  BY <1>1, <1>2, <1>3, <1>4 DEF PairOK

LEMMA FollowChain ==
  ASSUME TypeInv, ResultInv, ChainInv, EndedStays, NEW x, NEW p, NEW n, n # x, Follows(x, p, n)
  PROVE  ChainInv'
<1>1. /\ x \in Things /\ n \in Things /\ Takes(x, p) /\ SameBut({x, n})
      /\ Enters(n, outcome[n]) /\ UNCHANGED <<made, outcome, ended>>
      /\ GainsOne(n, BothPair(p.i)) /\ IsBoth(BothPair(p.i)) /\ PairOK(n, BothPair(p.i))
  BY FollowPair DEF Follows, Takes
<1>2. \A y \in Things : y # n => Calm(y) /\ stack' \in Seq(Frames)
  BY <1>1, EnterCalm
<1>3. \A y \in Things : y # x /\ y # n => ChainOK(y)'
  BY <1>1, <1>2, ChainCalm DEF SameBut
<1>4. ChainOK(x)'
  <2>1. PairsOK(x)' /\ Ordered(x)'
    BY <1>1, DropPairs, DropOrdered
  <2>2. Settled(x)' /\ Faithful(x)'
    BY <1>1, <1>2, DropFaithful
  <2> QED
    BY <2>1, <2>2 DEF ChainOK
<1>5. ChainOK(n)'
  <2>1. PairsOK(n)'
    <3>1. \A j \in 1..Len(chain[n]) : PairOK(n, chain[n][j])
      BY <1>1 DEF ChainInv
    <3>2. \A j \in 1..Len(chain'[n]) : PairOK(n, chain'[n][j])
      BY <1>1, <3>1, GainOne
    <3> QED
      BY <1>1, <3>2, PairStays, PairsNext
  <2>2. At(n, 0) => ~(Len(chain[n]) > 0 /\ IsEb(chain[n][1]))
    BY <1>1, ChainType DEF ChainInv
  <2>3. Ordered(n)' /\ (At(n, 0) => ~IsEb(chain'[n][1]))
    BY <1>1, <2>2, GainOneOrdered
  <2>4. Settled(n)' /\ Faithful(n)'
    BY <1>1, <2>3, EnterChain
  <2> QED
    BY <2>1, <2>3, <2>4 DEF ChainOK
<1> QED
  BY <1>3, <1>4, <1>5, ChainPartsNext

\* A second pair of a member, when the first one's error is consumed, is that
\* of another index.
LEMMA ConsumedTwice ==
  ASSUME TypeInv, ChainInv, NEW x, NEW p, Takes(x, p), IsEb(p)
  PROVE  Twice(x) \/ OnlyBoth(chain[x])'
<1> SUFFICES ASSUME NEW j \in 1..Len(chain'[x]), ~IsBoth(chain'[x][j])
             PROVE  Twice(x)
  BY DEF OnlyBoth, IsBoth
<1> DEFINE q == chain[x]
           s == q[j + 1]
<1>1. /\ x \in Things /\ q \in Seq(Pairs) /\ q[1] = p /\ Len(q) > 0
      /\ j \in Nat /\ j > 0 /\ j + 1 \in 1..Len(q) /\ chain'[x][j] = s
  BY DropTail, ChainType DEF Takes
<1>2. PairOK(x, p) /\ PairOK(x, s) /\ SideBySide(q) /\ Distinct(q)
  BY <1>1 DEF ChainInv
<1>3. IsCb(s) \/ IsEb(s)
  BY <1>1, <1>2 DEF PairOK
<1>4. list[p.i] = x /\ list[s.i] = x
  BY <1>1, <1>2, <1>3 DEF PairOK, IsBoth, IsCb, IsEb
<1>5. s.i # p.i
  <2>1. CASE IsEb(s)
    <3>1. 1 \in 1..Len(q) /\ 1 # j + 1
      BY <1>1
    <3> QED
      BY <1>1, <1>2, <2>1, <3>1 DEF Distinct
  <2>2. CASE IsCb(s)
    <3>1. j + 1 < Len(q) /\ IsEb(q[j + 1 + 1]) /\ q[j + 1 + 1].i = s.i
      BY <1>1, <1>2, <2>2 DEF SideBySide
    <3>2. 1 \in 1..Len(q) /\ j + 1 + 1 \in 1..Len(q) /\ 1 # j + 1 + 1
      BY <1>1, <3>1
    <3> QED
      BY <1>1, <1>2, <3>1, <3>2 DEF Distinct
  <2> QED
    BY <1>3, <2>1, <2>2
<1>6. p.i \in DOMAIN list /\ s.i \in DOMAIN list
  <2>1. p.i \in 1..Len(resultList) /\ s.i \in 1..Len(resultList)
    BY <1>1, ChainType DEF Takes
  <2>2. /\ DOMAIN list = 1..Len(list) /\ Len(list) \in Nat
        /\ Len(resultList) \in Nat /\ Len(resultList) <= Len(list)
    BY ListType
  <2> QED
    BY <2>1, <2>2
<1> QED
  BY <1>4, <1>5, <1>6 DEF Twice

LEMMA RecordChain ==
  ASSUME TypeInv, ResultInv, ChainInv, EndedStays,
         NEW x, NEW p, NEW b, NEW r, Records(x, p, b, r)
  PROVE  ChainInv'
<1> DEFINE f == Frame("fire", x, Consumed(b, r))
           g == Frame("client", Null, Null)
<1>1. /\ x \in Things /\ Takes(x, p) /\ SameBut({x}) /\ stack # <<>> /\ Top.x = x /\ Top.result = r
      /\ UNCHANGED <<made, outcome, ended>> /\ b = Branch(p, r) /\ chain[x] # <<>>
  BY ChainType DEF Records, Takes
<1>2. /\ f.x = x /\ g.x = Null /\ g.x # x /\ f.result = Consumed(b, r)
      /\ (Swaps(f) \/ SwapsAndPushes(f, g))
  BY <1>1, Kinds DEF Records, Frame
<1>3. stack' \in Seq(Frames) /\ stack \in Seq(Frames) /\ Len(stack) \in Nat /\ Len(stack) # 0
      /\ stack'[Len(stack)] = f
  BY <1>1, <1>2, ListType DEF Swaps, SwapsAndPushes
<1> HIDE DEF f, g
<1>4. \A y \in Things : y # x => Calm(y)
  BY <1>1, <1>2, <1>3, SwapCalm, SwapAndPushCalm, Kinds
<1>5. \A y \in Things : y # x => ChainOK(y)'
  BY <1>1, <1>3, <1>4, ChainCalm DEF SameBut
<1>6. PairsOK(x)' /\ Ordered(x)'
  BY <1>1, DropPairs, DropOrdered
<1>7. \A k : At(x, k)' <=> k = Len(stack)
  BY <1>2, <1>3, SwapAt
<1>8. Settled(x)'
  BY <1>3, <1>7 DEF Settled
<1>9. \/ r = outcome[x]
      \/ /\ r = Null /\ "consumeErrors" \in flags /\ outcome[x] \in Errors
         /\ Twice(x) \/ OnlyBoth(chain[x])
  <2>1. At(x, Len(stack)) /\ Len(stack) \in 1..Len(stack) /\ stack[Len(stack)].result = r
    BY <1>1, <1>3, TopAt DEF Top
  <2> QED
    BY <1>1, <2>1 DEF ChainInv, Faithful
<1>10. Twice(x) => Twice(x)'
  BY <1>1 DEF Twice, made
<1>11. OnlyBoth(chain[x]) => OnlyBoth(chain[x])'
  BY <1>1, DropTail DEF OnlyBoth, IsBoth
<1>12. CASE Consumed(b, r) = r
  <2>1. Faithful(x)'
    BY <1>1, <1>2, <1>3, <1>7, <1>9, <1>10, <1>11, <1>12 DEF Faithful, made
  <2> QED
    BY <1>5, <1>6, <1>8, <2>1, ChainPartsNext DEF ChainOK
<1>13. CASE Consumed(b, r) # r
  <2>1. b = "NO" /\ "consumeErrors" \in flags /\ Consumed(b, r) = Null
    BY <1>13 DEF Consumed
  <2>2. IsEb(p) /\ r \in Errors
    BY <1>1, <2>1, HeadKnown DEF PairOK, IsCb, IsEb, IsBoth, Branch
  <2>3. r = outcome[x]
    BY <1>9, <2>2, Kinds
  <2>4. Twice(x) \/ OnlyBoth(chain[x])'
    BY <1>1, <2>2, ConsumedTwice
  <2>5. Faithful(x)'
    BY <1>1, <1>2, <1>3, <1>7, <1>10, <2>1, <2>2, <2>3, <2>4 DEF Faithful, made
  <2> QED
    BY <1>5, <1>6, <1>8, <2>5, ChainPartsNext DEF ChainOK
<1> QED
  BY <1>12, <1>13

LEMMA LeaveChain ==
  ASSUME TypeInv, ResultInv, ChainInv, EndedStays, NEW x, NEW r, Leaves(x, r)
  PROVE  ChainInv'
<1>1. /\ x \in Things /\ Pops /\ Top.x = x /\ UNCHANGED <<made, chain>> /\ chain[x] = <<>>
      /\ stack' \in Seq(Frames) /\ stack \in Seq(Frames)
      /\ \A y \in Things : y # x => outcome'[y] = outcome[y]
  BY ListType DEF Leaves, Pops
<1>2. \A y \in Things : y # x => ChainOK(y)'
  BY <1>1, PopCalm, ChainCalm
<1>3. ChainOK(x)'
  <2>1. chain'[x] = <<>>
    BY <1>1
  <2> QED
    BY <2>1 DEF ChainOK, PairsOK, Ordered, SideBySide, Distinct, Settled, Faithful
<1> QED
  BY <1>2, <1>3, ChainPartsNext

LEMMA SettleChain ==
  ASSUME TypeInv, ResultInv, ChainInv, EndedStays, NEW x, NEW r, Settles(x, r)
  PROVE  ChainInv'
<1> DEFINE f == Frame("fire", x, r)
<1>1. /\ x \in Things /\ Pushes(f) /\ f.x = x /\ f.result = outcome'[x] /\ UNCHANGED <<made, chain>>
      /\ stack' \in Seq(Frames) /\ stack \in Seq(Frames)
      /\ \A y \in Things : y # x => outcome'[y] = outcome[y]
  BY ListType DEF Settles, Frame, fields, Pushes
<1> HIDE DEF f
<1>2. \A y \in Things : y # x => ChainOK(y)'
  BY <1>1, PushCalm, ChainCalm
<1>3. ChainOK(x)
  BY <1>1, ChainParts
<1>4. PairsOK(x)'
  BY <1>1, <1>3, PairStays, PairsNext DEF ChainOK, PairsOK
<1>5. Ordered(x)'
  BY <1>1, <1>3 DEF ChainOK, Ordered, SideBySide, Distinct, IsCb, IsEb
<1>6. Settled(x)' /\ Faithful(x)'
  BY <1>1, Begun
<1>7. ChainOK(x)'
  BY <1>4, <1>5, <1>6 DEF ChainOK
<1> QED
  BY <1>2, <1>7, ChainPartsNext

LEMMA ChainStep ==
  ASSUME TypeInv, ResultInv, ChainInv, Move
  PROVE  ChainInv'
<1>0. EndedStays
  BY EndedStep
<1>1. ASSUME NEW i, NEW x, AddsMember(i, x)
      PROVE  ChainInv'
  BY <1>0, <1>1, AddChain
<1>2. ASSUME NEW x, NEW p, Skips(x, p)
      PROVE  ChainInv'
  BY <1>0, <1>2, SkipChain
<1>3. ASSUME NEW x, NEW p, NEW n, Follows(x, p, n), n # x
      PROVE  ChainInv'
  BY <1>0, <1>3, FollowChain
<1>4. ASSUME NEW x, NEW p, NEW b, NEW r, Records(x, p, b, r)
      PROVE  ChainInv'
  BY <1>0, <1>4, RecordChain
<1>5. ASSUME NEW x, NEW r, Leaves(x, r)
      PROVE  ChainInv'
  BY <1>0, <1>5, LeaveChain
<1>6. ASSUME NEW x, NEW r, Settles(x, r)
      PROVE  ChainInv'
  BY <1>0, <1>6, SettleChain
<1>7. CASE Aside
  <2>1. stack' \in Seq(Frames) /\ UNCHANGED <<made, chain, outcome>> /\ \A x \in Things : Calm(x)
    BY <1>7 DEF Aside, Pops, Pushes, Swaps
  <2> QED
    BY <1>0, <2>1, ChainCalm, ChainPartsNext
<1>8. CASE UNCHANGED vars
  <2>1. Stays /\ UNCHANGED <<made, chain, outcome>>
    BY <1>8, ListType DEF vars, Stays
  <2>2. stack' \in Seq(Frames) /\ \A x \in Things : Calm(x)
    BY <2>1, StayCalm, ListType DEF Stays
  <2> QED
    BY <1>0, <2>1, <2>2, ChainCalm, ChainPartsNext
<1> QED
  BY <1>1, <1>2, <1>3, <1>4, <1>5, <1>6, <1>7, <1>8 DEF Move

-----------------------------------------------------------------------------
(* Each member once *)

\* The j-th pair of x will record the index i.
Has(x, j, i) == Claims(x, j) /\ chain[x][j].i = i

OneHas ==
  \A x, y \in Things : \A j, m, i \in Nat : Has(x, j, i) /\ Has(y, m, i) => x = y /\ j = m

\* Who has no entry, and only who has none, has a pair that will record it.
NoneHas ==
  \A i \in 1..Len(resultList) :
    resultList[i] = Null <=> \E x \in Things : \E j \in Nat : Has(x, j, i)

Recorded == {i \in DOMAIN resultList : resultList[i] # Null}

Counted == finishedCount = Cardinality(Recorded)

LEMMA HasType ==
  ASSUME TypeInv, NEW x \in Things, NEW j, NEW i, Has(x, j, i)
  PROVE  /\ j \in Nat /\ j > 0 /\ j \in 1..Len(chain[x]) /\ i \in 1..Len(resultList) /\ i \in Nat
<1>1. j \in 1..Len(chain[x]) /\ chain[x][j].i = i
  BY DEF Has, Claims
<1>2. Len(chain[x]) \in Nat /\ chain[x][j].i \in 1..Len(resultList) /\ Len(resultList) \in Nat
  BY <1>1, ChainType, ListType
<1> QED
  BY <1>1, <1>2

LEMMA OnceParts ==
  ASSUME TypeInv
  PROVE  OnceInv <=> OneHas /\ NoneHas /\ Counted
<1>1. ASSUME OneHas
      PROVE  \A x, y \in Things : \A j \in 1..Len(chain[x]), m \in 1..Len(chain[y]) :
               Claims(x, j) /\ Claims(y, m) /\ chain[x][j].i = chain[y][m].i => x = y /\ j = m
  <2> SUFFICES ASSUME NEW x \in Things, NEW y \in Things,
                      NEW j \in 1..Len(chain[x]), NEW m \in 1..Len(chain[y]),
                      Claims(x, j), Claims(y, m), chain[x][j].i = chain[y][m].i
               PROVE  x = y /\ j = m
    OBVIOUS
  <2>1. Has(x, j, chain[x][j].i) /\ Has(y, m, chain[x][j].i)
    BY DEF Has
  <2>2. j \in Nat /\ m \in Nat /\ chain[x][j].i \in Nat
    BY <2>1, HasType
  <2> QED
    BY <1>1, <2>1, <2>2 DEF OneHas
<1>2. ASSUME OnceInv
      PROVE  OneHas
  <2> SUFFICES ASSUME NEW x \in Things, NEW y \in Things, NEW j \in Nat, NEW m \in Nat,
                      NEW i \in Nat, Has(x, j, i), Has(y, m, i)
               PROVE  x = y /\ j = m
    BY DEF OneHas
  <2> QED
    BY <1>2, HasType DEF Has, OnceInv
<1>3. \A i \in 1..Len(resultList) :
        (\E x \in Things : \E j \in Nat : Has(x, j, i))
          <=> \E x \in Things : \E j \in 1..Len(chain[x]) : Claims(x, j) /\ chain[x][j].i = i
  BY HasType DEF Has
<1> QED
  BY <1>1, <1>2, <1>3 DEF OnceInv, NoneHas, Counted, Recorded

LEMMA OncePartsNext ==
  ASSUME TypeInv', OneHas', NoneHas', Counted'
  PROVE  OnceInv'
BY OnceParts, PTL

LEMMA CountedNext ==
  ASSUME TypeInv', OnceInv'
  PROVE  Counted'
BY OnceParts, PTL

\* Who is left alone has what it had.
LEMMA CalmHas ==
  ASSUME TypeInv, stack' \in Seq(Frames), NEW x, Calm(x), chain'[x] = chain[x]
  PROVE  \A j, i : Has(x, j, i)' <=> Has(x, j, i)
<1>1. /\ \A k : At(x, k)' <=> At(x, k)
      /\ \A k : At(x, k) /\ k > 0 => stack'[k].result = stack[k].result
  BY CalmAt, ListType
<1>2. ASSUME NEW k \in 1..Len(stack), At(x, k), stack[k].result \in Errors
      PROVE  \E m \in 1..Len(stack') : At(x, m)' /\ stack'[m].result \in Errors
  <2>0. k > 0
    BY ListType
  <2>1. At(x, k)' /\ stack'[k].result \in Errors /\ k > 0
    BY <1>1, <1>2, <2>0
  <2>2. k \in 1..Len(stack')
    BY <2>1, AtTypeNext
  <2> QED
    BY <2>1, <2>2
<1>3. ASSUME NEW k \in 1..Len(stack'), At(x, k)', stack'[k].result \in Errors
      PROVE  \E m \in 1..Len(stack) : At(x, m) /\ stack[m].result \in Errors
  <2>1. At(x, k) /\ k > 0 /\ k \in Nat
    BY <1>1, <1>3
  <2>2. k \in 1..Len(stack)
    <3>1. k <= Len(stack) /\ Len(stack) \in Nat
      BY <2>1, AtType, ListType
    <3> QED
      BY <2>1, <3>1
  <2>3. stack[k].result \in Errors
    BY <1>1, <1>3, <2>1
  <2> QED
    BY <2>1, <2>2, <2>3
<1>4. \A j : Claims(x, j)' <=> Claims(x, j)
  BY <1>2, <1>3 DEF Claims, IsEb
<1> QED
  BY <1>4 DEF Has

\* All claims stay.
LEMMA SameOnce ==
  ASSUME TypeInv, TypeInv', OnceInv, UNCHANGED <<resultList, finishedCount>>,
         \A x \in Things : \A j, i : Has(x, j, i)' <=> Has(x, j, i)
  PROVE  OnceInv'
<1>1. OneHas /\ NoneHas /\ Counted
  BY OnceParts
<1>2. OneHas'
  BY <1>1 DEF OneHas
<1>3. NoneHas'
  BY <1>1 DEF NoneHas
<1>4. Counted'
  BY <1>1 DEF Counted, Recorded
<1> QED
  BY <1>2, <1>3, <1>4, OncePartsNext

\* The pairs that are left when the head is taken
LEMMA DropHas ==
  ASSUME TypeInv, TypeInv', ChainInv, NEW x, NEW p, Takes(x, p)
  PROVE  /\ \A j, i : j # 1 => (Has(x, j, i)' <=> j \in Nat /\ j > 0 /\ Has(x, j + 1, i))
         /\ ~(IsCb(p) /\ \E k \in 1..Len(stack') : At(x, k)' /\ stack'[k].result \in Errors) =>
              \A i : Has(x, 1, i)' <=> Has(x, 2, i)
         /\ IsCb(p) =>
              /\ \A i : ~Has(x, 2, i)
              /\ \A i : Has(x, 1, i)' =>
                   i = p.i /\ \E k \in 1..Len(stack') : At(x, k)' /\ stack'[k].result \in Errors
              /\ (\E k \in 1..Len(stack') : At(x, k)' /\ stack'[k].result \in Errors) =>
                   Has(x, 1, p.i)'
<1> DEFINE q == chain[x]
           t == chain'[x]
           Errs == \E k \in 1..Len(stack') : At(x, k)' /\ stack'[k].result \in Errors
<1>1. /\ x \in Things /\ Len(q) \in Nat /\ Len(t) \in Nat /\ Len(q) = Len(t) + 1
      /\ \A j \in 1..Len(t) : j + 1 \in 1..Len(q) /\ t[j] = q[j + 1]
      /\ q[1] = p
  BY DropTail DEF Takes
<1>2. SideBySide(q)
  BY <1>1 DEF ChainInv
<1>3. \A j, i : Has(x, j, i) <=>
        /\ j \in 1..Len(q) /\ q[j].i = i
        /\ \/ ~IsEb(q[j])
           \/ j = 1 /\ \E k \in 1..Len(stack) : At(x, k) /\ stack[k].result \in Errors
  BY DEF Has, Claims
<1>4. \A j, i : Has(x, j, i)' <=>
        /\ j \in 1..Len(t) /\ t[j].i = i
        /\ ~IsEb(t[j]) \/ (j = 1 /\ Errs)
  BY DEF Has, Claims, IsEb
<1> HIDE DEF q, t, Errs
<1>5. \A j, i : j # 1 => (Has(x, j, i)' <=> j \in Nat /\ j > 0 /\ Has(x, j + 1, i))
  <2> SUFFICES ASSUME NEW j, NEW i, j # 1
               PROVE  Has(x, j, i)' <=> j \in Nat /\ j > 0 /\ Has(x, j + 1, i)
    OBVIOUS
  <2>1. j \in 1..Len(t) <=> j \in Nat /\ j > 0 /\ j + 1 \in 1..Len(q)
    BY <1>1
  <2>2. j \in 1..Len(t) => t[j] = q[j + 1] /\ j + 1 # 1
    BY <1>1
  <2> QED
    BY <1>3, <1>4, <2>1, <2>2
<1>6. 1 \in 1..Len(t) <=> 2 \in 1..Len(q)
  BY <1>1
<1>7. 1 \in 1..Len(t) => t[1] = q[2] /\ 2 # 1
  <2>1. 1 + 1 = 2
    OBVIOUS
  <2> QED
    BY <1>1, <2>1
<1>8. 2 \in 1..Len(q) /\ IsEb(q[2]) => IsCb(p)
  <2>1. 2 > 1 /\ 2 - 1 = 1
    OBVIOUS
  <2> QED
    BY <1>1, <1>2, <2>1 DEF SideBySide
<1>9. ~(IsCb(p) /\ Errs) => \A i : Has(x, 1, i)' <=> Has(x, 2, i)
  BY <1>3, <1>4, <1>6, <1>7, <1>8
<1>10. ASSUME IsCb(p)
       PROVE  2 \in 1..Len(q) /\ IsEb(q[2]) /\ q[2].i = p.i
  <2>1. 1 \in 1..Len(q) /\ 1 + 1 = 2
    BY <1>1
  <2>2. 1 < Len(q) /\ IsEb(q[1 + 1]) /\ q[1 + 1].i = q[1].i
    BY <1>1, <1>2, <1>10, <2>1 DEF SideBySide
  <2> QED
    BY <1>1, <2>1, <2>2
<1>11. IsCb(p) =>
         /\ \A i : ~Has(x, 2, i)
         /\ \A i : Has(x, 1, i)' => i = p.i /\ Errs
         /\ Errs => Has(x, 1, p.i)'
  BY <1>3, <1>4, <1>6, <1>7, <1>10
<1> QED
  BY <1>5, <1>9, <1>11 DEF Errs

\* The pairs of x move up to where s says.
LEMMA Moved ==
  ASSUME OneHas, NEW x \in Things, NEW s \in [Nat -> Nat],
         \A j, m \in Nat : j > 0 /\ m > 0 /\ s[j] = s[m] => j = m,
         \A j \in Nat, i \in Nat : Has(x, j, i)' => j > 0 /\ Has(x, s[j], i),
         \A y \in Things : y # x => \A j, i : Has(y, j, i)' <=> Has(y, j, i)
  PROVE  OneHas'
<1> SUFFICES ASSUME NEW y \in Things, NEW z \in Things, NEW j \in Nat, NEW m \in Nat, NEW i \in Nat,
                    Has(y, j, i)', Has(z, m, i)'
             PROVE  y = z /\ j = m
  BY DEF OneHas
<1>1. s[j] \in Nat /\ s[m] \in Nat
  OBVIOUS
<1>2. CASE y = x /\ z = x
  <2>1. j > 0 /\ m > 0 /\ Has(x, s[j], i) /\ Has(x, s[m], i)
    BY <1>2
  <2>2. s[j] = s[m]
    BY <1>1, <2>1 DEF OneHas
  <2> QED
    BY <1>2, <2>1, <2>2
<1>3. CASE y = x /\ z # x
  <2>1. Has(x, s[j], i) /\ Has(z, m, i)
    BY <1>3
  <2> QED
    BY <1>1, <1>3, <2>1 DEF OneHas
<1>4. CASE y # x /\ z = x
  <2>1. Has(y, j, i) /\ Has(x, s[m], i)
    BY <1>4
  <2> QED
    BY <1>1, <1>4, <2>1 DEF OneHas
<1>5. CASE y # x /\ z # x
  BY <1>5 DEF OneHas
<1> QED
  BY <1>2, <1>3, <1>4, <1>5

\* An error that passes over the first of a member's pairs is left to the second.
LEMMA SkipOnce ==
  ASSUME TypeInv, TypeInv', ChainInv, OnceInv, NEW x, NEW p, Skips(x, p)
  PROVE  OnceInv'
<1> DEFINE r == Top.result
           Errs == \E k \in 1..Len(stack') : At(x, k)' /\ stack'[k].result \in Errors
<1>1. /\ x \in Things /\ Takes(x, p) /\ SameBut({x}) /\ UNCHANGED <<stack, resultList, finishedCount>>
      /\ stack' \in Seq(Frames) /\ stack \in Seq(Frames) /\ stack # <<>> /\ Top.x = x
      /\ Branch(p, r) = "nil" /\ Stays /\ chain[x][1] = p /\ Len(chain[x]) > 0
  BY ListType DEF Skips, Takes, Stays, fields
<1>2. OneHas /\ NoneHas /\ Counted
  BY OnceParts
<1>3. \A y \in Things : y # x => \A j, i : Has(y, j, i)' <=> Has(y, j, i)
  BY <1>1, StayCalm, CalmHas DEF SameBut
<1>4. /\ \A k : At(x, k)' <=> k = Len(stack)
      /\ \A k : At(x, k) <=> k = Len(stack)
      /\ stack'[Len(stack)].result = r /\ stack[Len(stack)].result = r
      /\ Len(stack) \in 1..Len(stack)
  <2>1. Calm(x)
    BY <1>1, StayCalm
  <2>2. \A k : At(x, k)' <=> k = Len(stack)
    BY <1>1, <2>1, TopAt, CalmAt
  <2> QED
    BY <1>1, <2>2, TopAt DEF Top
<1>5. Errs <=> r \in Errors
  BY <1>1, <1>4
<1>6. CASE r \in Errors
  <2>1. IsCb(p)
    BY <1>1, <1>6, HeadKnown DEF PairOK, IsCb, IsEb, IsBoth, Branch
  <2>2. \A i : Has(x, 1, i) <=> i = p.i
    <3>1. Len(chain[x]) \in Nat
      BY <1>1, DropTail
    <3>2. ~IsEb(p) /\ 1 \in 1..Len(chain[x])
      BY <1>1, <2>1, <3>1 DEF IsCb, IsEb
    <3> QED
      BY <1>1, <3>2 DEF Has, Claims
  <2>3. \A i : Has(x, 1, i)' <=> i = p.i
    BY <1>1, <1>5, <1>6, <2>1, DropHas
  <2>4. /\ \A j, i : j # 1 => (Has(x, j, i)' <=> j \in Nat /\ j > 0 /\ Has(x, j + 1, i))
        /\ \A i : ~Has(x, 2, i)
    BY <1>1, <2>1, DropHas
  <2> DEFINE s == [j \in Nat |-> IF j = 1 THEN 1 ELSE j + 1]
  <2>5. \A j \in Nat : \A i : Has(x, j, i)' <=> j > 0 /\ Has(x, s[j], i)
    BY <2>2, <2>3, <2>4
  <2>6. \A m \in Nat : \A i : Has(x, m, i) => \E j \in Nat : j > 0 /\ s[j] = m
    <3> SUFFICES ASSUME NEW m \in Nat, NEW i, Has(x, m, i)
                 PROVE  \E j \in Nat : j > 0 /\ s[j] = m
      OBVIOUS
    <3>1. m > 0 /\ m # 2
      BY <1>1, <2>4, HasType
    <3>2. CASE m = 1
      BY <3>2
    <3>3. CASE m # 1
      <4>1. m - 1 \in Nat /\ m - 1 > 0 /\ m - 1 # 1 /\ m - 1 + 1 = m
        BY <3>1, <3>3
      <4> QED
        BY <4>1
    <3> QED
      BY <3>2, <3>3
  <2>7. \A j, m \in Nat : j > 0 /\ m > 0 /\ s[j] = s[m] => j = m
    OBVIOUS
  <2>8. s \in [Nat -> Nat]
    OBVIOUS
  <2> HIDE DEF s
  <2>9. OneHas'
    <3>1. \A j \in Nat, i \in Nat : Has(x, j, i)' => j > 0 /\ Has(x, s[j], i)
      BY <2>5
    <3>2. x \in Things /\ OneHas
      BY <1>1, <1>2
    <3> QED
      BY <1>3, <2>7, <2>8, <3>1, <3>2, Moved, Zenon
  <2>10. \A i : (\E j \in Nat : Has(x, j, i)') <=> \E j \in Nat : Has(x, j, i)
    BY <2>5, <2>6, <2>8
  <2>11. NoneHas'
    BY <1>1, <1>2, <1>3, <2>10 DEF NoneHas
  <2>12. Counted'
    BY <1>1, <1>2 DEF Counted, Recorded
  <2> QED
    BY <2>9, <2>11, <2>12, OncePartsNext
<1>7. CASE r \notin Errors
  <2>1. \A j, i : Has(x, j, i)' <=> j \in Nat /\ j > 0 /\ Has(x, j + 1, i)
    <3>1. \A i : Has(x, 1, i)' <=> Has(x, 1 + 1, i)
      <4>1. 1 + 1 = 2
        OBVIOUS
      <4> QED
        BY <1>1, <1>5, <1>7, <4>1, DropHas
    <3>2. \A j, i : j # 1 => (Has(x, j, i)' <=> j \in Nat /\ j > 0 /\ Has(x, j + 1, i))
      BY <1>1, DropHas
    <3>3. \A j, i : j = 1 => (Has(x, j, i)' <=> j \in Nat /\ j > 0 /\ Has(x, j + 1, i))
      BY <3>1
    <3> QED
      BY <3>2, <3>3
  <2>2. \A i : ~Has(x, 1, i)
    <3>1. IsEb(p)
      BY <1>1, <1>7, HeadKnown DEF PairOK, IsCb, IsEb, IsBoth, Branch
    <3> QED
      BY <1>1, <1>4, <1>7, <3>1 DEF Has, Claims
  <2>3. OneHas'
    <3> DEFINE s == [j \in Nat |-> j + 1]
    <3>1. /\ s \in [Nat -> Nat] /\ \A j, m \in Nat : s[j] = s[m] => j = m
          /\ \A j \in Nat, i \in Nat : Has(x, j, i)' => j > 0 /\ Has(x, s[j], i)
      BY <2>1
    <3> HIDE DEF s
    <3> QED
      BY <1>1, <1>2, <1>3, <3>1, Moved
  <2>4. \A i : (\E j \in Nat : Has(x, j, i)') <=> \E j \in Nat : Has(x, j, i)
    <3>1. \A i, m \in Nat : Has(x, m, i) => m - 1 \in Nat /\ m - 1 > 0 /\ m - 1 + 1 = m
      <4> SUFFICES ASSUME NEW i \in Nat, NEW m \in Nat, Has(x, m, i)
                   PROVE  m - 1 \in Nat /\ m - 1 > 0 /\ m - 1 + 1 = m
        OBVIOUS
      <4>1. m > 0 /\ m # 1
        BY <1>1, <2>2, HasType
      <4> QED
        BY <4>1
    <3>2. \A i, m : Has(x, m, i) => i \in Nat
      BY <1>1, HasType
    <3>3. ASSUME NEW i, NEW m \in Nat, Has(x, m, i)
          PROVE  \E j \in Nat : Has(x, j, i)'
      <4>1. m - 1 \in Nat /\ m - 1 > 0 /\ m - 1 + 1 = m
        BY <3>1, <3>2, <3>3
      <4> QED
        BY <2>1, <3>3, <4>1
    <3>4. ASSUME NEW i, NEW j \in Nat, Has(x, j, i)'
          PROVE  \E m \in Nat : Has(x, m, i)
      <4>1. Has(x, j + 1, i) /\ j + 1 \in Nat
        BY <2>1, <3>4
      <4> QED
        BY <4>1
    <3> QED
      BY <3>3, <3>4
  <2>5. NoneHas'
    BY <1>1, <1>2, <1>3, <2>4 DEF NoneHas
  <2>6. Counted'
    BY <1>1, <1>2 DEF Counted, Recorded
  <2> QED
    BY <2>3, <2>5, <2>6, OncePartsNext
<1> QED
  BY <1>6, <1>7

\* The pair at the head is taken for p.i, and the others move up.
Moves1(x, p) ==
  /\ x \in Things
  /\ \A i : Has(x, 1, i) <=> i = p.i
  /\ \A j, i : Has(x, j, i)' <=> j \in Nat /\ j > 0 /\ Has(x, j + 1, i)

LEMMA TakesClaim ==
  ASSUME TypeInv, TypeInv', ChainInv, NEW x, NEW p, Takes(x, p), Branch(p, Top.result) # "nil",
         IsCb(p) => ~\E k \in 1..Len(stack') : At(x, k)' /\ stack'[k].result \in Errors
  PROVE  Moves1(x, p)
<1>1. /\ x \in Things /\ chain[x][1] = p /\ Len(chain[x]) \in Nat /\ Len(chain[x]) > 0
      /\ stack \in Seq(Frames) /\ stack # <<>> /\ Top.x = x /\ Len(stack) \in 1..Len(stack)
  BY DropTail, ListType DEF Takes
<1>2. \A i : Has(x, 1, i) <=> i = p.i
  <2>1. IsEb(p) => Top.result \in Errors
    BY DEF IsEb, Branch
  <2>2. At(x, Len(stack)) /\ stack[Len(stack)].result = Top.result
    BY <1>1, TopAt DEF Top
  <2>3. Claims(x, 1)
    BY <1>1, <2>1, <2>2 DEF Claims
  <2> QED
    BY <1>1, <2>3 DEF Has
<1>3. \A i : Has(x, 1, i)' <=> Has(x, 1 + 1, i)
  <2>1. 1 + 1 = 2
    OBVIOUS
  <2> QED
    BY <1>1, <2>1, DropHas
<1>4. \A j, i : j # 1 => (Has(x, j, i)' <=> j \in Nat /\ j > 0 /\ Has(x, j + 1, i))
  BY DropHas
<1>5. \A j, i : j = 1 => (Has(x, j, i)' <=> j \in Nat /\ j > 0 /\ Has(x, j + 1, i))
  BY <1>3
<1> QED
  BY <1>1, <1>2, <1>4, <1>5 DEF Moves1

LEMMA Moved1 ==
  ASSUME TypeInv, OneHas, NEW x, NEW p, Moves1(x, p)
  PROVE  /\ \A j \in Nat : ~Has(x, j, p.i)'
         /\ \A i : i # p.i =>
              ((\E j \in Nat : Has(x, j, i)') <=> \E j \in Nat : Has(x, j, i))
<1>1. /\ x \in Things /\ \A i : Has(x, 1, i) <=> i = p.i
      /\ \A j, i : Has(x, j, i)' <=> j \in Nat /\ j > 0 /\ Has(x, j + 1, i)
  BY DEF Moves1
<1>2. ASSUME NEW j \in Nat, Has(x, j, p.i)'
      PROVE  FALSE
  <2>1. Has(x, j + 1, p.i) /\ Has(x, 1, p.i) /\ j > 0
    BY <1>1, <1>2
  <2>2. p.i \in Nat /\ 1 \in Nat /\ j + 1 \in Nat /\ j + 1 # 1
    BY <1>1, <2>1, HasType
  <2> QED
    BY <1>1, <2>1, <2>2 DEF OneHas
<1>3. ASSUME NEW i, i # p.i, NEW m \in Nat, Has(x, m, i)
      PROVE  \E j \in Nat : Has(x, j, i)'
  <2>1. m > 0 /\ m # 1
    BY <1>1, <1>3, HasType
  <2>2. m - 1 \in Nat /\ m - 1 > 0 /\ m - 1 + 1 = m
    BY <2>1
  <2> QED
    BY <1>1, <1>3, <2>2
<1>4. ASSUME NEW i, NEW j \in Nat, Has(x, j, i)'
      PROVE  \E m \in Nat : Has(x, m, i)
  <2>1. Has(x, j + 1, i) /\ j + 1 \in Nat
    BY <1>1, <1>4
  <2> QED
    BY <2>1
<1> QED
  BY <1>2, <1>3, <1>4

LEMMA RecordedFinite ==
  ASSUME TypeInv
  PROVE  IsFiniteSet(Recorded) /\ Recorded \subseteq 1..Len(resultList)
<1>1. Len(resultList) \in Nat /\ DOMAIN resultList = 1..Len(resultList)
  BY ListType
<1>2. IsFiniteSet(1..Len(resultList))
  BY <1>1, FS_Interval
<1>3. Recorded \subseteq 1..Len(resultList)
  BY <1>1 DEF Recorded
<1> QED
  BY <1>2, <1>3, FS_Subset

\* Who is recorded, records its claim.
LEMMA RecordOnce ==
  ASSUME TypeInv, TypeInv', ChainInv, OnceInv, NEW x, NEW p, NEW b, NEW r, Records(x, p, b, r)
  PROVE  OnceInv'
<1> DEFINE f == Frame("fire", x, Consumed(b, r))
           g == Frame("client", Null, Null)
<1>1. /\ x \in Things /\ Takes(x, p) /\ SameBut({x}) /\ stack # <<>> /\ Top.x = x /\ Top.result = r
      /\ b = Branch(p, r) /\ b # "nil" /\ p.i \in 1..Len(resultList)
      /\ f.x = x /\ g.x # x /\ g.x = Null /\ f.result = Consumed(b, r)
      /\ (Swaps(f) \/ SwapsAndPushes(f, g))
  BY Kinds DEF Records, Takes, Frame
<1>2. stack' \in Seq(Frames) /\ stack \in Seq(Frames) /\ stack'[Len(stack)] = f
  BY <1>1, ListType DEF Swaps, SwapsAndPushes
<1> HIDE DEF f, g
<1>3. \A y \in Things : y # x => \A j, i : Has(y, j, i)' <=> Has(y, j, i)
  <2>1. \A y \in Things : y # x => Calm(y)
    BY <1>1, <1>2, SwapCalm, SwapAndPushCalm, Kinds
  <2> QED
    BY <1>1, <1>2, <2>1, CalmHas DEF SameBut
<1>4. \A k : At(x, k)' <=> k = Len(stack)
  BY <1>1, <1>2, SwapAt
<1>5. IsCb(p) => ~\E k \in 1..Len(stack') : At(x, k)' /\ stack'[k].result \in Errors
  <2>1. IsCb(p) => r \notin Errors /\ b = "YES" /\ Consumed(b, r) = r
    BY <1>1 DEF IsCb, Branch, Consumed
  <2> QED
    BY <1>1, <1>2, <1>4, <2>1
<1>6. Moves1(x, p)
  BY <1>1, <1>5, TakesClaim
<1>7. OneHas /\ NoneHas /\ Counted
  BY OnceParts
<1>8. OneHas'
  <2> DEFINE s == [j \in Nat |-> j + 1]
  <2>1. /\ s \in [Nat -> Nat] /\ \A j, m \in Nat : s[j] = s[m] => j = m
        /\ \A j \in Nat, i \in Nat : Has(x, j, i)' => j > 0 /\ Has(x, s[j], i)
    BY <1>6 DEF Moves1
  <2> HIDE DEF s
  <2> QED
    BY <1>1, <1>3, <1>7, <2>1, Moved
<1>9. /\ Len(resultList') = Len(resultList) /\ Len(resultList) \in Nat
      /\ resultList'[p.i] # Null
      /\ \A j \in 1..Len(resultList) : j # p.i => resultList'[j] = resultList[j]
      /\ DOMAIN resultList = 1..Len(resultList) /\ DOMAIN resultList' = 1..Len(resultList)
      /\ finishedCount' = finishedCount + 1
  <2>1. [succeeded |-> b, result |-> r] \in Entries
    BY DEF Records, Entries
  <2> QED
    BY <2>1, ListType, EntryAssumption DEF Records
<1>10. p.i \in Nat /\ Has(x, 1, p.i) /\ resultList[p.i] = Null
  <2>1. p.i \in Nat /\ Has(x, 1, p.i)
    BY <1>1, <1>6, <1>9 DEF Moves1
  <2> QED
    BY <1>1, <1>7, <2>1 DEF NoneHas
<1>11. NoneHas'
  <2> SUFFICES ASSUME NEW i \in 1..Len(resultList)
               PROVE  resultList'[i] = Null <=> \E y \in Things : \E j \in Nat : Has(y, j, i)'
    BY <1>9 DEF NoneHas
  <2>1. CASE i = p.i
    <3>1. ASSUME NEW y \in Things, NEW j \in Nat, Has(y, j, p.i)'
          PROVE  FALSE
      <4>1. y # x
        BY <1>6, <1>7, <3>1, Moved1
      <4>2. Has(y, j, p.i)
        BY <1>3, <3>1, <4>1
      <4> QED
        BY <1>1, <1>7, <1>10, <3>1, <4>1, <4>2 DEF OneHas
    <3> QED
      BY <1>9, <2>1, <3>1
  <2>2. CASE i # p.i
    <3>1. (\E j \in Nat : Has(x, j, i)') <=> \E j \in Nat : Has(x, j, i)
      BY <1>6, <1>7, <2>2, Moved1
    <3>2. (\E y \in Things : \E j \in Nat : Has(y, j, i)')
            <=> \E y \in Things : \E j \in Nat : Has(y, j, i)
      BY <1>1, <1>3, <3>1
    <3> QED
      BY <1>7, <1>9, <2>2, <3>2 DEF NoneHas
  <2> QED
    BY <2>1, <2>2
<1>12. Counted'
  <2>1. Recorded' = Recorded \cup {p.i} /\ p.i \notin Recorded
    BY <1>1, <1>9, <1>10 DEF Recorded
  <2>2. IsFiniteSet(Recorded)
    BY RecordedFinite
  <2>3. Cardinality(Recorded \cup {p.i}) = Cardinality(Recorded) + 1
    BY <2>1, <2>2, FS_AddElement
  <2> QED
    BY <1>7, <1>9, <2>1, <2>3 DEF Counted
<1> QED
  BY <1>8, <1>11, <1>12, OncePartsNext

\* The last _fire of x has an error.
Erring(x) == \E k \in 1..Len(stack) : At(x, k) /\ stack[k].result \in Errors

LEMMA HasErring ==
  ASSUME NEW x, NEW j, NEW i
  PROVE  Has(x, j, i) <=>
           /\ j \in 1..Len(chain[x]) /\ chain[x][j].i = i
           /\ ~IsEb(chain[x][j]) \/ (j = 1 /\ Erring(x))
BY DEF Has, Claims, Erring

LEMMA HasErringNext ==
  ASSUME NEW x, NEW j, NEW i
  PROVE  Has(x, j, i)' <=>
           /\ j \in 1..Len(chain'[x]) /\ chain'[x][j].i = i
           /\ ~IsEb(chain'[x][j]) \/ (j = 1 /\ Erring(x)')
BY DEF Has, Claims, Erring, IsEb

\* A _fire that begins again has the error that the last one had, unless that
\* one has consumed it for a member that is there twice.
LEMMA EnterErring ==
  ASSUME TypeInv, ResultInv, ChainInv, NEW x \in Things, Enters(x, outcome[x]),
         Len(chain[x]) > 0, IsEb(chain[x][1])
  PROVE  \/ Erring(x)' <=> Erring(x)
         \/ /\ "consumeErrors" \in flags /\ Twice(x)
            /\ \E k \in 1..Len(stack) : stack[k].x = x
<1>1. stack \in Seq(Frames) /\ chain[x] \in Seq(Pairs) /\ chain[x] # <<>>
  BY ListType, ChainType
<1>2. CASE outcome[x] = Pending
  <2>1. Stays
    BY <1>2 DEF Enters
  <2>2. stack' = stack
    BY <2>1 DEF Stays
  <2> QED
    BY <2>2 DEF Erring, At
<1>3. CASE outcome[x] # Pending
  <2> DEFINE f == Frame("fire", x, outcome[x])
  <2>1. Pushes(f) /\ f.x = x /\ f.result = outcome[x]
    BY <1>3 DEF Enters, Frame
  <2> HIDE DEF f
  <2>2. \A k : At(x, k)' <=> k = Len(stack) + 1
    BY <1>1, <2>1, PushAt
  <2>3. Len(stack) + 1 \in 1..Len(stack') /\ stack'[Len(stack) + 1].result = outcome[x]
    BY <1>1, <2>1 DEF Pushes
  <2>4. Erring(x)' <=> outcome[x] \in Errors
    BY <2>2, <2>3 DEF Erring
  <2>5. PICK k \in 0..Len(stack) : At(x, k)
    BY <1>1, AtExists
  <2>6. k # 0 /\ k \in 1..Len(stack)
    <3>1. ~At(x, 0)
      BY <1>1, <1>3 DEF ChainInv
    <3> QED
      BY <2>5, <3>1
  <2>7. Erring(x) <=> stack[k].result \in Errors
    <3>1. \A m : At(x, m) => m = k
      BY <1>1, <2>5, AtOnce
    <3> QED
      BY <2>5, <2>6, <3>1 DEF Erring
  <2>8. stack[k].x = x
    BY <2>5, <2>6 DEF At
  <2>9. ~OnlyBoth(chain[x])
    BY <1>1 DEF OnlyBoth, IsBoth, IsEb
  <2>10. \/ stack[k].result = outcome[x]
         \/ "consumeErrors" \in flags /\ Twice(x)
    BY <1>1, <2>5, <2>6, <2>9 DEF ChainInv, Faithful
  <2> QED
    BY <2>4, <2>6, <2>7, <2>8, <2>10
<1> QED
  BY <1>2, <1>3

\* Pairs are added that are no member's second, or are not the first of all.
LEMMA GainHas ==
  ASSUME TypeInv, NEW x \in Things, NEW n \in Nat, n = Len(chain[x]) + 1, n \in 1..Len(chain'[x]),
         \A j \in 1..Len(chain[x]) : chain'[x][j] = chain[x][j],
         ~IsEb(chain'[x][n]),
         \A j \in 1..Len(chain'[x]) : j > n => IsEb(chain'[x][j]),
         Len(chain[x]) > 0 /\ IsEb(chain[x][1]) => (Erring(x)' <=> Erring(x))
  PROVE  \A j, i : Has(x, j, i)' <=> Has(x, j, i) \/ (j = n /\ i = chain'[x][n].i)
<1>0. Len(chain[x]) \in Nat /\ Len(chain'[x]) \in Nat /\ Len(chain[x]) <= Len(chain'[x])
  <2>1. Len(chain[x]) \in Nat
    BY ChainType
  <2> QED
    BY <2>1
<1> SUFFICES ASSUME NEW j, NEW i
             PROVE  Has(x, j, i)' <=> Has(x, j, i) \/ (j = n /\ i = chain'[x][n].i)
  OBVIOUS
<1>1. CASE j \in 1..Len(chain[x])
  <2>1. j \in 1..Len(chain'[x]) /\ j # n /\ chain'[x][j] = chain[x][j] /\ (j = 1 => Len(chain[x]) > 0)
    BY <1>0, <1>1
  <2> QED
    BY <1>1, <2>1, HasErring, HasErringNext
<1>2. CASE j = n
  <2>1. j \notin 1..Len(chain[x])
    BY <1>0, <1>2
  <2> QED
    BY <1>2, <2>1, HasErring, HasErringNext
<1>3. CASE j \notin 1..Len(chain[x]) /\ j # n
  <2>1. j \in 1..Len(chain'[x]) => j > n /\ j # 1
    BY <1>0, <1>3
  <2> QED
    BY <1>3, <2>1, HasErring, HasErringNext
<1> QED
  BY <1>1, <1>2, <1>3

\* The claim of the pair at the head of x passes to a pair of the deferred n.
LEMMA FollowedOnce ==
  ASSUME TypeInv, OneHas, NEW x, NEW p, Moves1(x, p), NEW n \in Things, n # x,
         NEW g \in Nat, p.i \in Nat,
         \A j, i : Has(n, j, i)' <=> Has(n, j, i) \/ (j = g /\ i = p.i),
         \A y \in Things : y # x /\ y # n => \A j, i : Has(y, j, i)' <=> Has(y, j, i)
  PROVE  /\ OneHas'
         /\ \A i : (\E y \in Things : \E j \in Nat : Has(y, j, i)')
                     <=> \E y \in Things : \E j \in Nat : Has(y, j, i)
<1>1. /\ x \in Things /\ Has(x, 1, p.i)
      /\ \A j, i : Has(x, j, i)' <=> j \in Nat /\ j > 0 /\ Has(x, j + 1, i)
  BY DEF Moves1
<1>2. ASSUME NEW y \in Things, NEW j \in Nat, Has(y, j, p.i)'
      PROVE  y = n /\ j = g
  <2>1. y # x
    BY <1>2, Moved1
  <2>2. ~Has(y, j, p.i)
    BY <1>1, <2>1 DEF OneHas
  <2> QED
    BY <1>2, <2>1, <2>2
<1>3. ASSUME NEW y \in Things, NEW z \in Things, NEW j \in Nat, NEW m \in Nat, NEW i \in Nat,
             Has(y, j, i)', Has(z, m, i)', i # p.i
      PROVE  y = z /\ j = m
  <2> DEFINE a == IF y = x THEN j + 1 ELSE j
             b == IF z = x THEN m + 1 ELSE m
  <2>1. Has(y, a, i) /\ a \in Nat
    BY <1>1, <1>3
  <2>2. Has(z, b, i) /\ b \in Nat
    BY <1>1, <1>3
  <2>3. y = z /\ a = b
    <3> HIDE DEF a, b
    <3> QED
      BY <2>1, <2>2 DEF OneHas
  <2> QED
    BY <2>3
<1>4. OneHas'
  <2> SUFFICES ASSUME NEW y \in Things, NEW z \in Things, NEW j \in Nat, NEW m \in Nat, NEW i \in Nat,
                      Has(y, j, i)', Has(z, m, i)'
               PROVE  y = z /\ j = m
    BY DEF OneHas
  <2>1. CASE i = p.i
    BY <1>2, <2>1
  <2>2. CASE i # p.i
    BY <1>3, <2>2
  <2> QED
    BY <2>1, <2>2
<1>5. Has(n, g, p.i)'
  OBVIOUS
<1>6. ASSUME NEW i, i # p.i
      PROVE  (\E y \in Things : \E j \in Nat : Has(y, j, i)')
               <=> \E y \in Things : \E j \in Nat : Has(y, j, i)
  <2>1. \A y \in Things : (\E j \in Nat : Has(y, j, i)') <=> \E j \in Nat : Has(y, j, i)
    <3> SUFFICES ASSUME NEW y \in Things
                 PROVE  (\E j \in Nat : Has(y, j, i)') <=> \E j \in Nat : Has(y, j, i)
      OBVIOUS
    <3>1. CASE y = x
      BY <1>6, <3>1, Moved1
    <3>2. CASE y # x
      BY <1>6, <3>2
    <3> QED
      BY <3>1, <3>2
  <2> QED
    BY <2>1
<1> QED
  BY <1>1, <1>4, <1>5, <1>6

LEMMA FollowOnce ==
  ASSUME TypeInv, TypeInv', StackInv, ResultInv, ChainInv, OnceInv,
         NEW x, NEW p, NEW n, n # x, Follows(x, p, n)
  PROVE  OnceInv' \/ Recounts'
<1>1. /\ x \in Things /\ n \in Things /\ Takes(x, p) /\ SameBut({x, n}) /\ Top.result = n
      /\ x \in Foreign /\ n \notin Foreign /\ Top.x = x /\ stack # <<>>
      /\ Enters(n, outcome[n]) /\ UNCHANGED <<made, resultList, finishedCount, fired>>
      /\ p.i \in 1..Len(resultList) /\ p.i \in Nat /\ stack \in Seq(Frames)
  BY ListType DEF Follows, Takes, fields
<1>2. /\ IsCb(p) /\ list[p.i] = x /\ GainsOne(n, BothPair(p.i))
      /\ IsBoth(BothPair(p.i)) /\ BothPair(p.i).i = p.i
  BY FollowPair DEF Follows
<1>3. \A y \in Things : y # n => Calm(y) /\ stack' \in Seq(Frames)
  BY <1>1, EnterCalm
<1>4. \A y \in Things : y # x /\ y # n => \A j, i : Has(y, j, i)' <=> Has(y, j, i)
  BY <1>1, <1>3, CalmHas DEF SameBut
<1>5. Moves1(x, p)
  <2>1. Branch(p, Top.result) # "nil"
    BY <1>1, <1>2, Kinds DEF Branch, IsCb
  <2>2. ~\E k \in 1..Len(stack') : At(x, k)' /\ stack'[k].result \in Errors
    <3>1. \A k : At(x, k)' <=> k = Len(stack)
      BY <1>1, <1>3, CalmAt, TopAt
    <3>2. stack'[Len(stack)].result = n
      <4>1. At(x, Len(stack)) /\ Len(stack) > 0 /\ stack[Len(stack)].result = n
        BY <1>1, TopAt DEF Top
      <4> QED
        BY <1>1, <1>3, <4>1, CalmAt
    <3> QED
      BY <1>1, <3>1, <3>2, Kinds
  <2> QED
    BY <1>1, <2>1, <2>2, TakesClaim
<1>6. CASE Len(chain[n]) > 0 /\ IsEb(chain[n][1]) => (Erring(n)' <=> Erring(n))
  <2> DEFINE g == Len(chain[n]) + 1
  <2>1. /\ g \in Nat /\ g \in 1..Len(chain'[n]) /\ Len(chain'[n]) = g
        /\ chain'[n][g] = BothPair(p.i) /\ ~IsEb(chain'[n][g])
        /\ \A j \in 1..Len(chain[n]) : chain'[n][j] = chain[n][j]
    BY <1>1, <1>2, ChainType DEF GainsOne, IsEb, IsBoth
  <2>2. \A j \in 1..Len(chain'[n]) : ~(j > g)
    BY <2>1
  <2>3. \A j, i : Has(n, j, i)' <=> Has(n, j, i) \/ (j = g /\ i = p.i)
    <3>1. chain'[n][g].i = p.i
      BY <1>2, <2>1
    <3> HIDE DEF g
    <3>2. g = Len(chain[n]) + 1
      BY DEF g
    <3>3. \A j, i : Has(n, j, i)' <=> Has(n, j, i) \/ (j = g /\ i = chain'[n][g].i)
      BY <1>1, <1>6, <2>1, <2>2, <3>2, GainHas
    <3> QED
      BY <3>1, <3>3
  <2>4. OneHas /\ NoneHas /\ Counted
    BY OnceParts
  <2> HIDE DEF g
  <2>5. /\ OneHas'
        /\ \A i : (\E y \in Things : \E j \in Nat : Has(y, j, i)')
                    <=> \E y \in Things : \E j \in Nat : Has(y, j, i)
    BY <1>1, <1>4, <1>5, <2>1, <2>3, <2>4, FollowedOnce
  <2>6. NoneHas'
    BY <1>1, <2>4, <2>5 DEF NoneHas
  <2>7. Counted'
    BY <1>1, <2>4 DEF Counted, Recorded
  <2> QED
    BY <2>5, <2>6, <2>7, OncePartsNext
<1>7. CASE ~(Len(chain[n]) > 0 /\ IsEb(chain[n][1]) => (Erring(n)' <=> Erring(n)))
  <2>1. /\ "consumeErrors" \in flags /\ Twice(n)
        /\ \E k \in 1..Len(stack) : stack[k].x = n
    BY <1>1, <1>7, EnterErring
  <2>2. PICK k \in 1..Len(stack) : stack[k].x = n
    BY <2>1
  <2>3. stack[k].pc = "fire" /\ k # Len(stack)
    <3>1. FrameOK(stack[k])
      BY DEF TypeInv
    <3> QED
      BY <1>1, <2>2, <3>1, Kinds DEF FrameOK, Top
  <2>4. fired # -1
    BY <1>1, <2>2, <2>3 DEF StackInv
  <2>5. p.i \in DOMAIN list
    <3>1. DOMAIN list = 1..Len(list) /\ Len(list) \in Nat
          /\ Len(resultList) \in Nat /\ Len(resultList) <= Len(list)
      BY ListType
    <3> QED
      BY <1>1, <3>1
  <2>6. PICK i, j \in DOMAIN list : i # j /\ list[i] = n /\ list[j] = n
    BY <2>1 DEF Twice
  <2>7. Recounts
    BY <1>1, <1>2, <2>1, <2>4, <2>5, <2>6 DEF Recounts
  <2> QED
    BY <1>1, <2>7 DEF Recounts, made
<1> QED
  BY <1>6, <1>7

LEMMA AddOnce ==
  ASSUME TypeInv, TypeInv', ResultInv, ChainInv, OnceInv, NEW h, NEW x, AddsMember(h, x)
  PROVE  OnceInv'
<1>1. /\ x \in Things /\ h = Len(resultList) + 1 /\ h \in Nat /\ GainsTwo(x, h) /\ SameBut({x})
      /\ Enters(x, outcome[x]) /\ Len(resultList) \in Nat
      /\ Len(resultList') = h /\ resultList'[h] = Null
      /\ \A j \in 1..Len(resultList) : resultList'[j] = resultList[j]
      /\ DOMAIN resultList = 1..Len(resultList) /\ DOMAIN resultList' = 1..h
      /\ finishedCount' = finishedCount
      /\ stack[1].pc = "init" /\ Len(stack) = 1
  BY ListType DEF AddsMember
<1>2. OneHas /\ NoneHas /\ Counted
  BY OnceParts
<1>3. \A y \in Things : y # x => \A j, i : Has(y, j, i)' <=> Has(y, j, i)
  BY <1>1, EnterCalm, CalmHas DEF SameBut
<1>4. At(x, 0)
  <2>1. \A j \in 1..Len(stack) : stack[j].x # x
    <3>1. FrameOK(stack[1])
      BY <1>1 DEF TypeInv
    <3> QED
      BY <1>1, <3>1, Kinds DEF FrameOK
  <2> QED
    BY <2>1, ListType DEF At
<1>5. ~(Len(chain[x]) > 0 /\ IsEb(chain[x][1]))
  BY <1>1, <1>4, ChainType DEF ChainInv
<1> DEFINE g == Len(chain[x]) + 1
<1>6. /\ g \in Nat /\ g \in 1..Len(chain'[x]) /\ Len(chain'[x]) = g + 1
      /\ chain'[x][g] = CbPair(h) /\ ~IsEb(CbPair(h)) /\ CbPair(h).i = h
      /\ \A j \in 1..Len(chain[x]) : chain'[x][j] = chain[x][j]
  <2>1. Len(chain[x]) \in Nat
    BY <1>1, ChainType
  <2> QED
    BY <1>1, <2>1 DEF GainsTwo, IsEb, CbPair
<1>7. \A j \in 1..Len(chain'[x]) : j > g => IsEb(chain'[x][j])
  <2>1. chain'[x][g + 1] = EbPair(h) /\ IsEb(EbPair(h))
    <3>1. Len(chain[x]) \in Nat
      BY <1>1, ChainType
    <3>2. g + 1 = Len(chain[x]) + 2
      BY <3>1
    <3> QED
      BY <1>1, <3>2 DEF GainsTwo, IsEb, EbPair
  <2>2. \A j \in 1..Len(chain'[x]) : j > g => j = g + 1
    BY <1>6
  <2> QED
    BY <2>1, <2>2
<1>8. \A j, i : Has(x, j, i)' <=> Has(x, j, i) \/ (j = g /\ i = h)
  <2>1. g = Len(chain[x]) + 1
    OBVIOUS
  <2> HIDE DEF g
  <2>2. \A j, i : Has(x, j, i)' <=> Has(x, j, i) \/ (j = g /\ i = chain'[x][g].i)
    BY <1>1, <1>5, <1>6, <1>7, <2>1, GainHas
  <2> QED
    BY <1>6, <2>2
<1> HIDE DEF g
<1>9. \A y \in Things : \A j : ~Has(y, j, h)
  BY <1>1, HasType
<1>10. OneHas'
  <2> SUFFICES ASSUME NEW y \in Things, NEW z \in Things,
                      NEW j \in Nat, NEW m \in Nat, NEW i \in Nat,
                      Has(y, j, i)', Has(z, m, i)'
               PROVE  y = z /\ j = m
    BY DEF OneHas
  <2>1. CASE i = h
    <3>1. \A v \in Things, l \in Nat : Has(v, l, h)' => v = x /\ l = g
      <4> SUFFICES ASSUME NEW v \in Things, NEW l \in Nat, Has(v, l, h)'
                   PROVE  v = x /\ l = g
        OBVIOUS
      <4>1. ~Has(v, l, h)
        BY <1>9
      <4>2. v = x
        BY <1>3, <4>1
      <4> QED
        BY <1>8, <4>1, <4>2
    <3> QED
      BY <2>1, <3>1
  <2>2. CASE i # h
    <3>1. \A v \in Things, l \in Nat : Has(v, l, i)' => Has(v, l, i)
      BY <1>3, <1>8, <2>2
    <3> QED
      BY <1>2, <3>1 DEF OneHas
  <2> QED
    BY <2>1, <2>2
<1>11. NoneHas'
  <2> SUFFICES ASSUME NEW i \in 1..h
               PROVE  resultList'[i] = Null <=> \E y \in Things : \E j \in Nat : Has(y, j, i)'
    BY <1>1 DEF NoneHas
  <2>1. CASE i = h
    BY <1>1, <1>6, <1>8, <2>1
  <2>2. CASE i # h
    <3>1. i \in 1..Len(resultList)
      BY <1>1, <2>2
    <3>2. \A y \in Things : \A j : Has(y, j, i)' <=> Has(y, j, i)
      BY <1>3, <1>8, <2>2
    <3> QED
      BY <1>1, <1>2, <3>1, <3>2 DEF NoneHas
  <2> QED
    BY <2>1, <2>2
<1>12. Counted'
  <2>1. Recorded' = Recorded
    BY <1>1 DEF Recorded
  <2> QED
    BY <1>1, <1>2, <2>1 DEF Counted
<1> QED
  BY <1>10, <1>11, <1>12, OncePartsNext

LEMMA LeaveOnce ==
  ASSUME TypeInv, TypeInv', OnceInv, NEW x, NEW r, Leaves(x, r)
  PROVE  OnceInv'
<1>1. /\ x \in Things /\ Pops /\ Top.x = x /\ UNCHANGED <<chain, resultList, finishedCount>>
      /\ chain[x] = <<>> /\ stack' \in Seq(Frames) /\ stack \in Seq(Frames)
  BY ListType DEF Leaves, Pops, fields
<1>2. \A y \in Things : y # x => \A j, i : Has(y, j, i)' <=> Has(y, j, i)
  BY <1>1, PopCalm, CalmHas
<1>3. \A j, i : ~Has(x, j, i) /\ ~Has(x, j, i)'
  <2>1. \A j : j \notin 1..Len(chain[x]) /\ j \notin 1..Len(chain'[x])
    BY <1>1
  <2> QED
    BY <2>1, HasErring, HasErringNext
<1>4. \A y \in Things : \A j, i : Has(y, j, i)' <=> Has(y, j, i)
  BY <1>2, <1>3
<1> QED
  BY <1>1, <1>4, SameOnce

LEMMA SettleOnce ==
  ASSUME TypeInv, TypeInv', ResultInv, ChainInv, OnceInv, NEW x, NEW r, Settles(x, r)
  PROVE  OnceInv'
<1> DEFINE f == Frame("fire", x, r)
<1>1. /\ x \in Things /\ Pushes(f) /\ f.x = x /\ UNCHANGED <<chain, resultList, finishedCount>>
      /\ stack' \in Seq(Frames) /\ stack \in Seq(Frames) /\ outcome[x] = Pending
  BY ListType DEF Settles, Frame, fields, Pushes
<1> HIDE DEF f
<1>2. \A y \in Things : y # x => \A j, i : Has(y, j, i)' <=> Has(y, j, i)
  BY <1>1, PushCalm, CalmHas
<1>3. \A j, i : Has(x, j, i)' <=> Has(x, j, i)
  <2>1. At(x, 0)
    BY <1>1 DEF ResultInv
  <2>2. \A j : j \in 1..Len(chain[x]) /\ j = 1 => ~IsEb(chain[x][j])
    BY <1>1, <2>1, ChainType DEF ChainInv
  <2> QED
    BY <1>1, <2>2, HasErring, HasErringNext
<1>4. \A y \in Things : \A j, i : Has(y, j, i)' <=> Has(y, j, i)
  BY <1>2, <1>3
<1> QED
  BY <1>1, <1>4, SameOnce

\* What the list is made of stays.
LEMMA MadeStays ==
  ASSUME Move
  PROVE  UNCHANGED made
<1>1. ASSUME NEW i, NEW x, AddsMember(i, x)
      PROVE  UNCHANGED made
  BY <1>1 DEF AddsMember
<1>2. ASSUME NEW x, NEW p, Skips(x, p)
      PROVE  UNCHANGED made
  BY <1>2 DEF Skips
<1>3. ASSUME NEW x, NEW p, NEW n, Follows(x, p, n)
      PROVE  UNCHANGED made
  BY <1>3 DEF Follows
<1>4. ASSUME NEW x, NEW p, NEW b, NEW r, Records(x, p, b, r)
      PROVE  UNCHANGED made
  BY <1>4 DEF Records
<1>5. ASSUME NEW x, NEW r, Leaves(x, r)
      PROVE  UNCHANGED made
  BY <1>5 DEF Leaves
<1>6. ASSUME NEW x, NEW r, Settles(x, r)
      PROVE  UNCHANGED made
  BY <1>6 DEF Settles
<1>7. CASE Aside
  BY <1>7 DEF Aside
<1>8. CASE UNCHANGED vars
  BY <1>8 DEF vars
<1> QED
  BY <1>1, <1>2, <1>3, <1>4, <1>5, <1>6, <1>7, <1>8 DEF Move

LEMMA RecountsStays ==
  ASSUME TypeInv, Move, Recounts
  PROVE  Recounts'
<1>1. UNCHANGED made
  BY MadeStays
<1>2. fired' # -1
  BY FiresOnce DEF Recounts
<1> QED
  BY <1>1, <1>2 DEF Recounts, made

LEMMA OnceStep ==
  ASSUME TypeInv, StackInv, ResultInv, ChainInv, OnceInv, Move
  PROVE  OnceInv' \/ Recounts'
<1>0. TypeInv'
  BY TypeStep
<1>1. ASSUME NEW i, NEW x, AddsMember(i, x)
      PROVE  OnceInv'
  BY <1>0, <1>1, AddOnce
<1>2. ASSUME NEW x, NEW p, Skips(x, p)
      PROVE  OnceInv'
  BY <1>0, <1>2, SkipOnce
<1>3. ASSUME NEW x, NEW p, NEW n, Follows(x, p, n), n # x
      PROVE  OnceInv' \/ Recounts'
  BY <1>0, <1>3, FollowOnce
<1>4. ASSUME NEW x, NEW p, NEW b, NEW r, Records(x, p, b, r)
      PROVE  OnceInv'
  BY <1>0, <1>4, RecordOnce
<1>5. ASSUME NEW x, NEW r, Leaves(x, r)
      PROVE  OnceInv'
  BY <1>0, <1>5, LeaveOnce
<1>6. ASSUME NEW x, NEW r, Settles(x, r)
      PROVE  OnceInv'
  BY <1>0, <1>6, SettleOnce
<1>7. CASE Aside
  <2>1. stack' \in Seq(Frames) /\ UNCHANGED <<resultList, finishedCount, chain>>
        /\ \A x \in Things : Calm(x)
    BY <1>7 DEF Aside, Pops, Pushes, Swaps
  <2>2. \A y \in Things : \A j, i : Has(y, j, i)' <=> Has(y, j, i)
    BY <2>1, CalmHas
  <2> QED
    BY <1>0, <2>1, <2>2, SameOnce
<1>8. CASE UNCHANGED vars
  <2>1. Stays /\ UNCHANGED <<resultList, finishedCount, chain>>
    BY <1>8, ListType DEF vars, fields, Stays
  <2>2. \A y \in Things : \A j, i : Has(y, j, i)' <=> Has(y, j, i)
    BY <2>1, StayCalm, CalmHas, ListType DEF Stays
  <2> QED
    BY <1>0, <2>1, <2>2, SameOnce
<1> QED
  BY <1>1, <1>2, <1>3, <1>4, <1>5, <1>6, <1>7, <1>8 DEF Move

-----------------------------------------------------------------------------
(* What a step does to what the list is fired with *)

SameInit == Initialising' <=> Initialising

Idles == UNCHANGED <<made, fields>> /\ SameInit

Cancels ==
  /\ fired = -1 /\ fired' = 1 /\ result'.by = "cancel"
  /\ ~Initialising /\ ~Initialising'
  /\ UNCHANGED <<made, resultList, finishedCount>>

Returns ==
  /\ InitReturns /\ Initialising /\ ~Initialising'
  /\ UNCHANGED <<made, resultList, finishedCount>>

Fate ==
  \/ Idles \/ Cancels \/ Returns
  \/ \E i \in Nat, x \in Things : AddsMember(i, x) /\ SameInit
  \/ \E x \in Things, p \in Pairs, b \in {"YES", "NO"}, r \in Plain \cup {Null} :
       Records(x, p, b, r) /\ SameInit

LEMMA PushInit ==
  ASSUME stack \in Seq(Frames), NEW f, Pushes(f), f.pc # "init"
  PROVE  SameInit
BY DEF Pushes, Keeps, SameInit, Initialising

LEMMA PopInit ==
  ASSUME stack \in Seq(Frames), Pops, Top.pc # "init"
  PROVE  SameInit
BY DEF Pops, Keeps, SameInit, Initialising, Top

LEMMA SwapInit ==
  ASSUME stack \in Seq(Frames), NEW f, NEW g, Swaps(f) \/ SwapsAndPushes(f, g),
         Top.pc # "init", f.pc # "init"
  PROVE  SameInit
BY DEF Swaps, SwapsAndPushes, Keeps, SameInit, Initialising, Top

LEMMA EnterInit ==
  ASSUME TypeInv, NEW x, NEW r, Enters(x, r)
  PROVE  SameInit
<1>1. CASE r = Pending
  BY <1>1 DEF Enters, Stays, SameInit, Initialising
<1>2. CASE r # Pending
  <2>1. Pushes(Frame("fire", x, r)) /\ Frame("fire", x, r).pc # "init"
    BY <1>2 DEF Enters, Frame
  <2> QED
    BY <2>1, PushInit, ListType
<1> QED
  BY <1>1, <1>2

LEMMA AsideFate ==
  ASSUME TypeInv, StackInv, Aside
  PROVE  Fate
<1>1. UNCHANGED <<made, resultList, finishedCount>> /\ stack \in Seq(Frames)
  BY ListType DEF Aside
<1>2. CASE InitReturns /\ Pops /\ Len(stack) = 1 /\ stack[1].pc = "init"
  <2>1. Initialising /\ ~Initialising'
    BY <1>1, <1>2 DEF Initialising, Pops
  <2> QED
    BY <1>1, <1>2, <2>1 DEF Fate, Returns
<1>3. CASE Cancel /\ hasCanceller /\ Pushes(Frame("canceller", Null, Null))
           /\ UNCHANGED <<fired, result>>
  <2>1. SameInit
    BY <1>1, <1>3, PushInit DEF Frame
  <2> QED
    BY <1>1, <1>3, <2>1 DEF Fate, Idles, fields
<1>4. CASE Cancel /\ ~hasCanceller /\ fired' = 1 /\ result'.by = "cancel"
           /\ Pushes(Frame("client", Null, Null))
  <2>1. SameInit
    BY <1>1, <1>4, PushInit DEF Frame
  <2>2. ~Initialising /\ fired = -1
    BY <1>4, NotWhileMade DEF Cancel
  <2> QED
    BY <1>1, <1>4, <2>1, <2>2 DEF Fate, Cancels, SameInit
<1>5. CASE CancellerReturns /\ fired = -1 /\ fired' = 1 /\ result'.by = "cancel"
           /\ Top.pc = "canceller" /\ Swaps(Frame("client", Null, Null))
  <2>1. SameInit
    <3> DEFINE f == Frame("client", Null, Null)
    <3>1. f.pc # "init" /\ Top.pc # "init" /\ Swaps(f)
      BY <1>5 DEF Frame
    <3> HIDE DEF f
    <3> QED
      BY <1>1, <3>1, SwapInit
  <2>2. ~Initialising
    BY <1>5, NotWhileMade DEF Swaps, ClientPCs
  <2> QED
    BY <1>1, <1>5, <2>1, <2>2 DEF Fate, Cancels, SameInit
<1>6. CASE Top.pc \in ClientPCs /\ Pops /\ UNCHANGED <<fired, result>>
  <2>1. SameInit
    BY <1>1, <1>6, PopInit DEF ClientPCs
  <2> QED
    BY <1>1, <1>6, <2>1 DEF Fate, Idles, fields
<1> QED
  BY <1>2, <1>3, <1>4, <1>5, <1>6 DEF Aside

LEMMA Fates ==
  ASSUME TypeInv, StackInv, Move
  PROVE  Fate
<1>0. stack \in Seq(Frames)
  BY ListType
<1>1. ASSUME NEW i \in Nat, NEW x \in Things, AddsMember(i, x)
      PROVE  Fate
  <2>1. SameInit
    BY <1>1, EnterInit DEF AddsMember
  <2> QED
    BY <1>1, <2>1 DEF Fate
<1>2. ASSUME NEW x, NEW p, Skips(x, p)
      PROVE  Fate
  BY <1>2 DEF Skips, Stays, Fate, Idles, SameInit, Initialising
<1>3. ASSUME NEW x, NEW p, NEW n, Follows(x, p, n)
      PROVE  Fate
  <2>1. Enters(n, outcome[n]) /\ UNCHANGED <<made, fields>>
    BY <1>3 DEF Follows
  <2>2. SameInit
    BY <2>1, EnterInit, Zenon
  <2> QED
    BY <2>1, <2>2 DEF Fate, Idles
<1>4. ASSUME NEW x \in Things, NEW p \in Pairs, NEW b \in {"YES", "NO"}, NEW r \in Plain \cup {Null},
             Records(x, p, b, r)
      PROVE  Fate
  <2> DEFINE f == Frame("fire", x, Consumed(b, r))
             g == Frame("client", Null, Null)
  <2>1. Top.pc = "fire" /\ f.pc = "fire" /\ (Swaps(f) \/ SwapsAndPushes(f, g))
    BY <1>4 DEF Records, Takes, Frame
  <2>2. SameInit
    <3> HIDE DEF f, g
    <3> QED
      BY <1>0, <2>1, SwapInit
  <2> QED
    BY <1>4, <2>2 DEF Fate
<1>5. ASSUME NEW x, NEW r, Leaves(x, r)
      PROVE  Fate
  <2>1. Pops /\ Top.pc = "fire" /\ UNCHANGED <<made, fields>>
    BY <1>5 DEF Leaves
  <2>2. SameInit
    BY <1>0, <2>1, PopInit
  <2> QED
    BY <2>1, <2>2 DEF Fate, Idles
<1>6. ASSUME NEW x, NEW r, Settles(x, r)
      PROVE  Fate
  <2>1. Pushes(Frame("fire", x, r)) /\ UNCHANGED <<made, fields>> /\ Frame("fire", x, r).pc # "init"
    BY <1>6 DEF Settles, Frame
  <2>2. SameInit
    BY <1>0, <2>1, PushInit
  <2> QED
    BY <2>1, <2>2 DEF Fate, Idles
<1>7. CASE Aside
  BY <1>7, AsideFate
<1>8. CASE UNCHANGED vars
  BY <1>8 DEF vars, Fate, Idles, SameInit, Initialising
<1> QED
  BY <1>1, <1>2, <1>3, <1>4, <1>5, <1>6, <1>7, <1>8 DEF Move

-----------------------------------------------------------------------------
(* Before the list has fired *)

LEMMA NotYetRecord ==
  ASSUME TypeInv, NotYet, NEW x, NEW p, NEW b, NEW r, Records(x, p, b, r), fired' = -1
  PROVE  /\ fired = -1 /\ result' = result
         /\ b = "YES" => "fireOnOneCallback" \notin flags
         /\ b = "NO" => "fireOnOneErrback" \notin flags
         /\ finishedCount' # Len(list)
<1> DEFINE then == FiresWith(p.i, b, r, resultList', finishedCount')
<1>1. /\ then.o = -1 /\ b \in {"YES", "NO"}
      /\ result' = IF Initialising THEN then.r ELSE Gather(then.r)
  BY DEF Records
<1>2. /\ fired = -1 /\ then.r = result
      /\ b = "YES" => "fireOnOneCallback" \notin flags
      /\ b = "NO" => "fireOnOneErrback" \notin flags
      /\ finishedCount' # Len(list)
  BY <1>1 DEF FiresWith, Unfired, AllFinished
<1>3. result.by = "none"
  BY <1>2 DEF NotYet
<1> HIDE DEF then
<1>4. result' = result
  BY <1>1, <1>2, <1>3 DEF Gather
<1> QED
  BY <1>2, <1>4

LEMMA NotYetStep ==
  ASSUME TypeInv, StackInv, NotYet, Move
  PROVE  NotYet'
<1>1. /\ list \in Seq(Things) /\ resultList \in Seq(Entries \cup {Null})
      /\ Len(resultList) <= Len(list) /\ finishedCount \in Nat
  BY ListType DEF TypeInv, TypeOK
<1>2. CASE Idles
  BY <1>2 DEF NotYet, Idles, made, fields, SameInit
<1>3. CASE Cancels
  BY <1>3 DEF NotYet, Cancels
<1>4. CASE Returns
  <2> SUFFICES ASSUME fired' = -1
               PROVE  NotYet'
    BY DEF NotYet
  <2>1. /\ list = <<>> => "fireOnOneCallback" \in flags
        /\ fired = -1 /\ result' = Gather(result)
    BY <1>4 DEF Returns, InitReturns
  <2>2. result' = result
    BY <2>1 DEF NotYet, Gather
  <2> QED
    BY <1>4, <2>1, <2>2 DEF NotYet, Returns, made
<1>5. ASSUME NEW i \in Nat, NEW x \in Things, AddsMember(i, x)
      PROVE  NotYet'
  <2>1. /\ UNCHANGED <<made, finishedCount, fired, result>> /\ i = Len(resultList) + 1
        /\ Len(resultList') = i /\ resultList'[i] = Null /\ list # <<>>
        /\ \A j \in 1..Len(resultList) : resultList'[j] = resultList[j]
    BY <1>1, <1>5 DEF AddsMember
  <2>2. \A j \in 1..Len(resultList') : j = i \/ j \in 1..Len(resultList)
    BY <1>1, <2>1
  <2> QED
    BY <2>1, <2>2 DEF NotYet, made
<1>6. ASSUME NEW x, NEW p, NEW b, NEW r, Records(x, p, b, r)
      PROVE  NotYet'
  <2> SUFFICES ASSUME fired' = -1
               PROVE  NotYet'
    BY DEF NotYet
  <2>1. /\ fired = -1 /\ result' = result
        /\ b = "YES" => "fireOnOneCallback" \notin flags
        /\ b = "NO" => "fireOnOneErrback" \notin flags
        /\ finishedCount' # Len(list)
    BY <1>6, NotYetRecord
  <2>2. /\ Len(resultList') = Len(resultList) /\ resultList'[p.i] = [succeeded |-> b, result |-> r]
        /\ b \in {"YES", "NO"} /\ p.i \in 1..Len(resultList)
        /\ \A j \in 1..Len(resultList) : j # p.i => resultList'[j] = resultList[j]
        /\ finishedCount' = finishedCount + 1 /\ UNCHANGED made
    BY <1>6 DEF Records, Takes
  <2>3. finishedCount' < Len(list)
    <3>1. list # <<>>
      BY <1>1, <2>2
    <3>2. finishedCount < Len(list)
      BY <2>1, <3>1 DEF NotYet
    <3> QED
      BY <1>1, <2>1, <2>2, <3>2
  <2>4. \A j \in 1..Len(resultList') :
          resultList'[j] # Null =>
            /\ "fireOnOneCallback" \in flags => resultList'[j].succeeded = "NO"
            /\ "fireOnOneErrback" \in flags => resultList'[j].succeeded = "YES"
    <3> SUFFICES ASSUME NEW j \in 1..Len(resultList), resultList'[j] # Null
                 PROVE  /\ "fireOnOneCallback" \in flags => resultList'[j].succeeded = "NO"
                        /\ "fireOnOneErrback" \in flags => resultList'[j].succeeded = "YES"
      BY <2>2
    <3>1. CASE j = p.i
      BY <2>1, <2>2, <3>1
    <3>2. CASE j # p.i
      BY <2>1, <2>2, <3>2 DEF NotYet
    <3> QED
      BY <3>1, <3>2
  <2> QED
    BY <2>1, <2>2, <2>3, <2>4 DEF NotYet, made
<1> QED
  BY Fates, <1>2, <1>3, <1>4, <1>5, <1>6 DEF Fate

-----------------------------------------------------------------------------
(* What gatherResults: makes of it *)

AllCounted == finishedCount = Len(list)

AllThere ==
  /\ Len(resultList) = Len(list) /\ resultList \in Seq(Entries)
  /\ \A i \in 1..Len(list) : resultList[i] # Null

\* When all are counted, all are there.
LEMMA AllRecorded ==
  ASSUME TypeInv, Counted, AllCounted
  PROVE  AllThere
<1>1. /\ Len(list) \in Nat /\ Len(resultList) \in Nat /\ Len(resultList) <= Len(list)
      /\ resultList \in Seq(Entries \cup {Null}) /\ DOMAIN resultList = 1..Len(resultList)
  BY ListType
<1>2. IsFiniteSet(1..Len(resultList)) /\ Cardinality(1..Len(resultList)) = Len(resultList)
  <2>1. /\ IsFiniteSet(1..Len(resultList))
        /\ Cardinality(1..Len(resultList)) = IF 1 > Len(resultList) THEN 0 ELSE Len(resultList) - 1 + 1
    <3>1. 1 \in Int /\ Len(resultList) \in Int
      BY <1>1
    <3> QED
      BY <3>1, FS_Interval
  <2> QED
    BY <1>1, <2>1
<1>3. Recorded \subseteq 1..Len(resultList) /\ Cardinality(Recorded) = Len(list)
  BY RecordedFinite DEF Counted, AllCounted
<1>4. Cardinality(Recorded) <= Cardinality(1..Len(resultList))
      /\ (Cardinality(Recorded) = Cardinality(1..Len(resultList)) => Recorded = 1..Len(resultList))
  BY <1>2, <1>3, FS_Subset
<1>5. Len(resultList) = Len(list)
  BY <1>1, <1>2, <1>3, <1>4
<1>6. Recorded = 1..Len(resultList)
  BY <1>2, <1>3, <1>4, <1>5
<1>7. \A i \in 1..Len(resultList) : resultList[i] # Null
  BY <1>6 DEF Recorded
<1> QED
  BY <1>1, <1>5, <1>7 DEF AllThere

LEMMA AllRecordedNext ==
  ASSUME TypeInv', Counted', AllCounted'
  PROVE  AllThere'
BY AllRecorded, PTL

\* While there is no branch for it, the list is fired with what it was told.
LEMMA RecordCases ==
  ASSUME NEW x, NEW p, NEW b, NEW r, Records(x, p, b, r), NEW then,
         then = FiresWith(p.i, b, r, resultList', finishedCount').r
  PROVE  /\ result' = IF Initialising THEN then ELSE Gather(then)
         /\ \/ then = result /\ fired' = fired
            \/ fired = -1 /\ b = "YES" /\ then = [by |-> "first", what |-> <<p.i, r>>]
            \/ fired = -1 /\ b = "NO" /\ then = [by |-> "error", what |-> <<p.i, r>>]
            \/ /\ fired = -1 /\ finishedCount' = Len(list)
               /\ b = "YES" => "fireOnOneCallback" \notin flags
               /\ b = "NO" => "fireOnOneErrback" \notin flags
               /\ then = [by |-> "all", what |-> resultList']
<1>1. /\ fired' = FiresWith(p.i, b, r, resultList', finishedCount').o
      /\ result' = IF Initialising THEN then ELSE Gather(then)
  BY DEF Records
<1>2. CASE fired # -1
  BY <1>1, <1>2 DEF FiresWith, Unfired
<1>3. CASE fired = -1
  BY <1>1, <1>3 DEF FiresWith, Unfired, AllFinished
<1> QED
  BY <1>1, <1>2, <1>3

\* All that is recorded before gatherResults: fires has succeeded.
LEMMA GatherAll ==
  ASSUME TypeInv, TypeInv', OnceInv', NotYet, fired = -1, "gather" \in flags,
         NEW x, NEW p, NEW b, NEW r, Records(x, p, b, r),
         finishedCount' = Len(list), b = "NO" => "fireOnOneErrback" \notin flags
  PROVE  /\ Len(resultList') = Len(list) /\ resultList' \in Seq(Entries)
         /\ \A i \in DOMAIN resultList' : resultList'[i].succeeded = "YES"
<1>1. UNCHANGED made /\ list' = list /\ list \in Seq(Things)
  BY ListType DEF Records, made
<1>2. Counted'
  BY CountedNext
<1>3. /\ Len(resultList') = Len(list) /\ resultList' \in Seq(Entries)
      /\ \A i \in 1..Len(list) : resultList'[i] # Null
  BY <1>1, <1>2, AllRecordedNext DEF AllCounted, AllThere
<1>4. /\ Len(resultList') = Len(resultList) /\ resultList'[p.i] = [succeeded |-> b, result |-> r]
      /\ \A j \in 1..Len(resultList) : j # p.i => resultList'[j] = resultList[j]
      /\ b \in {"YES", "NO"}
  BY DEF Records
<1>5. "fireOnOneErrback" \in flags
  BY DEF TypeInv
<1> SUFFICES ASSUME NEW i \in 1..Len(list)
             PROVE  resultList'[i].succeeded = "YES"
  BY <1>1, <1>3
<1>6. CASE i = p.i
  BY <1>4, <1>5, <1>6
<1>7. CASE i # p.i
  <2>1. resultList'[i] = resultList[i] /\ i \in 1..Len(resultList) /\ resultList'[i] # Null
    BY <1>3, <1>4, <1>7
  <2> QED
    BY <1>5, <2>1 DEF NotYet
<1> QED
  BY <1>6, <1>7

LEMMA GatherRecord ==
  ASSUME TypeInv, TypeInv', ChainInv, fired = -1 => OnceInv, NotYet, GatherInv, SameInit,
         NEW x, NEW p, NEW b, NEW r, Records(x, p, b, r)
  PROVE  GatherInv'
<1>1. UNCHANGED made /\ list # <<>>
  BY ListType DEF Records, Takes
<1>2. PICK then : then = FiresWith(p.i, b, r, resultList', finishedCount').r
  OBVIOUS
<1>3. /\ result' = IF Initialising THEN then ELSE Gather(then)
      /\ \/ then = result /\ fired' = fired
         \/ fired = -1 /\ b = "YES" /\ then = [by |-> "first", what |-> <<p.i, r>>]
         \/ fired = -1 /\ b = "NO" /\ then = [by |-> "error", what |-> <<p.i, r>>]
         \/ /\ fired = -1 /\ finishedCount' = Len(list)
            /\ b = "YES" => "fireOnOneCallback" \notin flags
            /\ b = "NO" => "fireOnOneErrback" \notin flags
            /\ then = [by |-> "all", what |-> resultList']
  BY <1>2, RecordCases
<1> SUFFICES ASSUME "gather" \in flags, result'.by = "all"
             PROVE  /\ Initialising'
                    /\ \A i \in DOMAIN result'.what : result'.what[i].succeeded = "YES"
  BY <1>1 DEF GatherInv, made
<1>4. Initialising /\ Initialising' /\ result' = then
  BY <1>3 DEF Gather, SameInit
<1>5. CASE then = result
  BY <1>4, <1>5 DEF GatherInv
<1>6. CASE /\ fired = -1 /\ finishedCount' = Len(list)
           /\ b = "NO" => "fireOnOneErrback" \notin flags
           /\ then = [by |-> "all", what |-> resultList']
  <2>1. OnceInv'
    BY <1>6, RecordOnce
  <2>2. \A i \in DOMAIN resultList' : resultList'[i].succeeded = "YES"
    BY <1>6, <2>1, GatherAll
  <2> QED
    BY <1>4, <1>6, <2>2
<1> QED
  BY <1>3, <1>4, <1>5, <1>6

LEMMA GatherStep ==
  ASSUME TypeInv, TypeInv', StackInv, ChainInv, fired = -1 => OnceInv, NotYet, GatherInv, Move
  PROVE  GatherInv'
<1>1. CASE Idles
  BY <1>1 DEF GatherInv, Idles, made, fields, SameInit
<1>2. CASE Cancels
  BY <1>2 DEF GatherInv, Cancels, made
<1>3. CASE Returns
  <2>1. result'.by = "all" => "gather" \notin flags
    BY <1>3 DEF Returns, InitReturns, Gather
  <2> QED
    BY <1>3, <2>1 DEF GatherInv, Returns, made
<1>4. ASSUME NEW i, NEW x, AddsMember(i, x), SameInit
      PROVE  GatherInv'
  BY <1>4 DEF GatherInv, AddsMember, made, SameInit
<1>5. ASSUME NEW x, NEW p, NEW b, NEW r, Records(x, p, b, r), SameInit
      PROVE  GatherInv'
  BY <1>5, GatherRecord
<1> QED
  BY Fates, <1>1, <1>2, <1>3, <1>4, <1>5 DEF Fate

-----------------------------------------------------------------------------
(* What the list is fired with is true of its members *)

\* The outcome r is true of the list's members.
Told(r) ==
  /\ r.by = "all" =>
       /\ r.what \in Seq(Entries) /\ DOMAIN r.what = DOMAIN list
       /\ \A i \in DOMAIN list : Entry(r.what[i], list[i])
  /\ r.by = "gathered" =>
       /\ DOMAIN r.what = DOMAIN list
       /\ \A i \in DOMAIN list :
            /\ ended[list[i]] \notin Errors /\ r.what[i] = Final(list[i])
            /\ r.what[i] \in Plain \cup {Null}
  /\ r.by \in {"first", "error"} =>
       /\ r.what[1] \in 1..Len(list) /\ r.what[2] \in Plain \cup {Null}
       /\ Entry([succeeded |-> IF r.by = "first" THEN "YES" ELSE "NO", result |-> r.what[2]],
                list[r.what[1]])

EntriesTrue == \A i \in 1..Len(resultList) : resultList[i] # Null => Entry(resultList[i], list[i])

LEMMA TruthParts == TruthInv <=> Told(result) /\ EntriesTrue
BY DEF TruthInv, Truthful, Told, EntriesTrue

\* The same, in the next state, of what this one has
FinalNext(x) == IF ended'[x] \in Things THEN ended'[ended'[x]] ELSE ended'[x]

EntryNext(e, x) ==
  \/ e.result = FinalNext(x) /\ (e.succeeded = "NO" <=> ended'[x] \in Errors)
  \/ "consumeErrors" \in flags' /\ e.result = Null /\ e.succeeded = "YES" /\ FinalNext(x) \in Errors

ToldNext(r) ==
  /\ r.by = "all" =>
       /\ r.what \in Seq(Entries) /\ DOMAIN r.what = DOMAIN list'
       /\ \A i \in DOMAIN list' : EntryNext(r.what[i], list'[i])
  /\ r.by = "gathered" =>
       /\ DOMAIN r.what = DOMAIN list'
       /\ \A i \in DOMAIN list' :
            /\ ended'[list'[i]] \notin Errors /\ r.what[i] = FinalNext(list'[i])
            /\ r.what[i] \in Plain \cup {Null}
  /\ r.by \in {"first", "error"} =>
       /\ r.what[1] \in 1..Len(list') /\ r.what[2] \in Plain \cup {Null}
       /\ EntryNext([succeeded |-> IF r.by = "first" THEN "YES" ELSE "NO", result |-> r.what[2]],
                    list'[r.what[1]])

LEMMA TruthPartsNext == TruthInv' <=> ToldNext(result') /\ EntriesTrue'
BY DEF TruthInv, Truthful, ToldNext, EntryNext, FinalNext, Entry, Final, EntriesTrue

\* What x came to in the end stays.
LEMMA FinalStays ==
  ASSUME EndedStays, NEW x \in Things, Final(x) # Pending
  PROVE  FinalNext(x) = Final(x) /\ ended'[x] = ended[x]
<1>1. CASE ended[x] \in Things
  BY <1>1, Kinds DEF Final, FinalNext, EndedStays
<1>2. CASE ended[x] \notin Things
  BY <1>2 DEF Final, FinalNext, EndedStays
<1> QED
  BY <1>1, <1>2

LEMMA EntryStays ==
  ASSUME EndedStays, UNCHANGED made, NEW x \in Things, NEW e, e.result \in Plain \cup {Null}, Entry(e, x)
  PROVE  EntryNext(e, x)
<1>1. Final(x) # Pending
  BY ListAssumption DEF Entry, Plain
<1>2. FinalNext(x) = Final(x) /\ ended'[x] = ended[x]
  BY <1>1, FinalStays
<1> QED
  BY <1>2 DEF Entry, EntryNext, made

LEMMA ToldStays ==
  ASSUME TypeInv, EndedStays, UNCHANGED made, NEW r, Told(r)
  PROVE  ToldNext(r)
<1>1. list' = list /\ list \in Seq(Things) /\ DOMAIN list = 1..Len(list)
  BY ListType DEF made
<1>2. ASSUME r.by = "all"
      PROVE  \A i \in DOMAIN list : EntryNext(r.what[i], list[i])
  <2> SUFFICES ASSUME NEW i \in DOMAIN list
               PROVE  EntryNext(r.what[i], list[i])
    OBVIOUS
  <2>1. r.what \in Seq(Entries) /\ DOMAIN r.what = DOMAIN list /\ Entry(r.what[i], list[i])
    BY <1>2 DEF Told
  <2>2. r.what[i] \in Entries /\ list[i] \in Things
    BY <1>1, <2>1
  <2>3. r.what[i].result \in Plain \cup {Null}
    BY <2>2 DEF Entries
  <2> QED
    BY <2>1, <2>2, <2>3, EntryStays
<1>3. ASSUME r.by = "gathered"
      PROVE  \A i \in DOMAIN list :
               /\ ended'[list[i]] \notin Errors /\ r.what[i] = FinalNext(list[i])
               /\ r.what[i] \in Plain \cup {Null}
  <2> SUFFICES ASSUME NEW i \in DOMAIN list
               PROVE  /\ ended'[list[i]] \notin Errors /\ r.what[i] = FinalNext(list[i])
                      /\ r.what[i] \in Plain \cup {Null}
    OBVIOUS
  <2>1. /\ ended[list[i]] \notin Errors /\ r.what[i] = Final(list[i])
        /\ r.what[i] \in Plain \cup {Null} /\ list[i] \in Things
    BY <1>1, <1>3 DEF Told
  <2>2. Final(list[i]) # Pending
    BY <2>1, ListAssumption DEF Plain
  <2> QED
    BY <2>1, <2>2, FinalStays
<1>4. ASSUME r.by \in {"first", "error"}
      PROVE  EntryNext([succeeded |-> IF r.by = "first" THEN "YES" ELSE "NO", result |-> r.what[2]],
                       list[r.what[1]])
  <2> DEFINE e == [succeeded |-> IF r.by = "first" THEN "YES" ELSE "NO", result |-> r.what[2]]
  <2>1. r.what[1] \in 1..Len(list) /\ e.result \in Plain \cup {Null} /\ Entry(e, list[r.what[1]])
    BY <1>4 DEF Told
  <2>2. list[r.what[1]] \in Things
    BY <1>1, <2>1
  <2> HIDE DEF e
  <2>3. EntryNext(e, list[r.what[1]])
    BY <2>1, <2>2, EntryStays
  <2> QED
    BY <2>3 DEF e
<1> QED
  BY <1>1, <1>2, <1>3, <1>4 DEF Told, ToldNext

\* What a member is recorded with is true of it.
LEMMA RecordTruth ==
  ASSUME TypeInv, ResultInv, ChainInv, NEW x, NEW p, NEW b, NEW r, Records(x, p, b, r)
  PROVE  Entry([succeeded |-> b, result |-> r], list[p.i])
<1>1. /\ x \in Things /\ b = Branch(p, r) /\ b \in {"YES", "NO"} /\ r \in Plain \cup {Null}
      /\ stack # <<>> /\ Top.pc = "fire" /\ Top.x = x /\ Top.result = r /\ Takes(x, p)
  BY DEF Records, Takes
<1>2. Came(x, r) /\ PairOK(x, p)
  BY <1>1, TopCame, HeadKnown
<1>3. r \notin Things
  BY <1>1, ListAssumption
<1>4. CASE IsCb(p) /\ list[p.i] = x
  <2>1. r \notin Errors /\ b = "YES"
    BY <1>1, <1>4 DEF IsCb, Branch
  <2> QED
    BY <1>1, <1>2, <1>3, <1>4, <2>1, Kinds DEF Came, Entry, Final
<1>5. CASE IsEb(p) /\ list[p.i] = x
  <2>1. r \in Errors /\ b = "NO"
    BY <1>1, <1>5 DEF IsEb, Branch
  <2> QED
    BY <1>1, <1>2, <1>3, <1>5, <2>1, Kinds DEF Came, Entry, Final
<1>6. CASE IsBoth(p) /\ ended[list[p.i]] = x
  <2>1. b = "YES"
    BY <1>1, <1>6 DEF IsBoth, Branch
  <2> QED
    BY <1>1, <1>2, <1>6, <2>1, Kinds DEF Came, Entry, Final
<1> QED
  BY <1>2, <1>4, <1>5, <1>6 DEF PairOK

\* The results of a list are gathered of its entries.
LEMMA GatherTold ==
  ASSUME TypeInv, NEW r, Told(r), "gather" \in flags /\ r.by = "all" =>
           \A i \in DOMAIN r.what : r.what[i].succeeded = "YES"
  PROVE  Told(Gather(r))
<1>1. CASE ~("gather" \in flags /\ r.by = "all")
  BY <1>1 DEF Gather
<1>2. CASE "gather" \in flags /\ r.by = "all"
  <2> DEFINE t == [i \in DOMAIN r.what |-> r.what[i].result]
  <2>1. /\ r.what \in Seq(Entries) /\ DOMAIN r.what = DOMAIN list
        /\ \A i \in DOMAIN list : Entry(r.what[i], list[i]) /\ r.what[i].succeeded = "YES"
    BY <1>2 DEF Told
  <2>2. "consumeErrors" \notin flags
    BY <1>2 DEF TypeInv
  <2>3. \A i \in DOMAIN list : r.what[i].result \in Plain \cup {Null}
    <3>1. \A i \in DOMAIN list : r.what[i] \in Entries
      BY <2>1
    <3> QED
      BY <3>1 DEF Entries
  <2>4. \A i \in DOMAIN list :
          /\ ended[list[i]] \notin Errors /\ t[i] = Final(list[i]) /\ t[i] \in Plain \cup {Null}
    BY <2>1, <2>2, <2>3 DEF Entry
  <2>5. Gather(r) = [by |-> "gathered", what |-> t] /\ DOMAIN t = DOMAIN list
    BY <1>2, <2>1 DEF Gather
  <2> HIDE DEF t
  <2> QED
    BY <2>4, <2>5 DEF Told
<1> QED
  BY <1>1, <1>2

\* Entries that were true stay so.
LEMMA EntryKept ==
  ASSUME TypeInv, EndedStays, UNCHANGED made, EntriesTrue,
         NEW i \in 1..Len(resultList), resultList[i] # Null
  PROVE  EntryNext(resultList[i], list[i]) /\ list'[i] = list[i]
<1>1. list[i] \in Things /\ resultList[i] \in Entries
  <2>1. i \in 1..Len(list)
    BY ListType
  <2> QED
    BY <2>1, ListType
<1>2. resultList[i].result \in Plain \cup {Null}
  BY <1>1 DEF Entries
<1> QED
  BY <1>1, <1>2, EntryStays DEF EntriesTrue, made

LEMMA EntriesNext ==
  EntriesTrue' <=> \A i \in 1..Len(resultList') :
                     resultList'[i] # Null => EntryNext(resultList'[i], list'[i])
BY DEF EntriesTrue, Entry, Final, EntryNext, FinalNext

LEMMA EntriesStep ==
  ASSUME TypeInv, StackInv, ResultInv, ChainInv, EndedStays, EntriesTrue, Move
  PROVE  EntriesTrue'
<1>0. UNCHANGED made
  BY MadeStays
<1>1. CASE UNCHANGED resultList
  BY <1>0, <1>1, EntryKept, EntriesNext
<1>2. ASSUME NEW h, NEW x, AddsMember(h, x)
      PROVE  EntriesTrue'
  <2>1. /\ Len(resultList') = Len(resultList) + 1 /\ resultList'[Len(resultList) + 1] = Null
        /\ \A j \in 1..Len(resultList) : resultList'[j] = resultList[j]
        /\ Len(resultList) \in Nat
    BY <1>2, ListType DEF AddsMember
  <2>2. \A i \in 1..Len(resultList') : resultList'[i] # Null => i \in 1..Len(resultList)
    BY <2>1
  <2> QED
    BY <1>0, <2>1, <2>2, EntryKept, EntriesNext
<1>3. ASSUME NEW x, NEW p, NEW b, NEW r, Records(x, p, b, r)
      PROVE  EntriesTrue'
  <2> DEFINE e == [succeeded |-> b, result |-> r]
  <2>1. /\ Len(resultList') = Len(resultList) /\ resultList'[p.i] = e
        /\ p.i \in 1..Len(resultList) /\ e.result \in Plain \cup {Null}
        /\ \A j \in 1..Len(resultList) : j # p.i => resultList'[j] = resultList[j]
    BY <1>3 DEF Records, Takes
  <2>2. Entry(e, list[p.i])
    BY <1>3, RecordTruth
  <2>3. list[p.i] \in Things /\ list' = list
    BY <1>0, <2>1, ListType DEF made
  <2> HIDE DEF e
  <2>4. EntryNext(e, list'[p.i])
    BY <1>0, <2>1, <2>2, <2>3, EntryStays
  <2> SUFFICES ASSUME NEW i \in 1..Len(resultList), resultList'[i] # Null
               PROVE  EntryNext(resultList'[i], list'[i])
    BY <2>1, EntriesNext
  <2>5. CASE i = p.i
    BY <2>1, <2>4, <2>5
  <2>6. CASE i # p.i
    BY <1>0, <2>1, <2>6, EntryKept
  <2> QED
    BY <2>5, <2>6
<1> QED
  BY Fates, <1>1, <1>2, <1>3 DEF Fate, Idles, fields, Cancels, Returns

\* What was gathered is not gathered again.
LEMMA GatheredOnce ==
  ASSUME GatherInv, ~Initialising
  PROVE  Gather(result) = result
BY DEF GatherInv, Gather

LEMMA RecordTold ==
  ASSUME TypeInv, TypeInv', ResultInv, ChainInv, EndedStays, fired = -1 => OnceInv, NotYet, GatherInv,
         EntriesTrue', Told(result), NEW x, NEW p, NEW b, NEW r, Records(x, p, b, r)
  PROVE  ToldNext(result')
<1>1. /\ UNCHANGED <<made, ended>> /\ p.i \in 1..Len(resultList) /\ r \in Plain \cup {Null}
      /\ list' = list /\ list \in Seq(Things) /\ Len(resultList) <= Len(list)
      /\ Len(resultList) \in Nat /\ Len(list) \in Nat
  BY ListType DEF Records, Takes, made
<1>2. PICK then : then = FiresWith(p.i, b, r, resultList', finishedCount').r
  OBVIOUS
<1>3. /\ result' = IF Initialising THEN then ELSE Gather(then)
      /\ \/ then = result /\ fired' = fired
         \/ fired = -1 /\ b = "YES" /\ then = [by |-> "first", what |-> <<p.i, r>>]
         \/ fired = -1 /\ b = "NO" /\ then = [by |-> "error", what |-> <<p.i, r>>]
         \/ /\ fired = -1 /\ finishedCount' = Len(list)
            /\ b = "YES" => "fireOnOneCallback" \notin flags
            /\ b = "NO" => "fireOnOneErrback" \notin flags
            /\ then = [by |-> "all", what |-> resultList']
  BY <1>2, RecordCases
<1>4. Entry([succeeded |-> b, result |-> r], list[p.i])
  BY RecordTruth
<1>5. CASE then = result
  <2>1. result' = result
    BY <1>3, <1>5, GatheredOnce
  <2> QED
    BY <1>1, <2>1, ToldStays
<1>6. CASE \/ b = "YES" /\ then = [by |-> "first", what |-> <<p.i, r>>]
           \/ b = "NO" /\ then = [by |-> "error", what |-> <<p.i, r>>]
  <2>1. Told(then) /\ Gather(then) = then
    BY <1>1, <1>4, <1>6 DEF Told, Gather
  <2> QED
    BY <1>1, <1>3, <2>1, ToldStays
<1>7. CASE /\ fired = -1 /\ finishedCount' = Len(list)
           /\ b = "NO" => "fireOnOneErrback" \notin flags
           /\ then = [by |-> "all", what |-> resultList']
  <2>1. OnceInv'
    BY <1>7, RecordOnce
  <2>2. /\ Len(resultList') = Len(list) /\ resultList' \in Seq(Entries)
        /\ \A i \in 1..Len(list) : resultList'[i] # Null
    BY <1>1, <1>7, <2>1, CountedNext, AllRecordedNext DEF AllCounted, AllThere
  <2>3. \A i \in 1..Len(list) : Entry(resultList'[i], list[i])
    BY <1>1, <2>2, EntriesNext DEF EntryNext, FinalNext, Entry, Final, made
  <2>4. Told(then)
    BY <1>1, <1>7, <2>2, <2>3 DEF Told
  <2>5. "gather" \in flags => \A i \in DOMAIN then.what : then.what[i].succeeded = "YES"
    BY <1>7, <2>1, GatherAll
  <2>6. Told(Gather(then))
    BY <2>4, <2>5, GatherTold
  <2> QED
    BY <1>1, <1>3, <2>4, <2>6, ToldStays
<1> QED
  BY <1>3, <1>5, <1>6, <1>7

LEMMA TruthStep ==
  ASSUME TypeInv, TypeInv', StackInv, ResultInv, ChainInv, fired = -1 => OnceInv, NotYet, GatherInv,
         TruthInv, Move
  PROVE  TruthInv'
<1>0. /\ UNCHANGED made /\ EndedStays /\ Told(result) /\ EntriesTrue
      /\ list \in Seq(Things) /\ list' = list
  BY MadeStays, EndedStep, TruthParts, ListType DEF made
<1>1. EntriesTrue'
  BY <1>0, EntriesStep
<1> SUFFICES ToldNext(result')
  BY <1>1, TruthPartsNext
<1>2. CASE UNCHANGED result
  BY <1>0, <1>2, ToldStays
<1>3. CASE Cancels
  BY <1>3 DEF Cancels, ToldNext
<1>4. CASE Returns
  <2>1. Told(Gather(result))
    BY <1>0, GatherTold DEF GatherInv
  <2>2. CASE result' = Gather(result)
    BY <1>0, <2>1, <2>2, ToldStays
  <2>3. CASE list = <<>> /\ result' = Gather([by |-> "all", what |-> resultList])
    <3> DEFINE t == [by |-> "all", what |-> resultList]
    <3>1. resultList = <<>>
      BY <2>3, ListType
    <3>2. Told(t) /\ \A i \in DOMAIN t.what : t.what[i].succeeded = "YES"
      BY <2>3, <3>1 DEF Told
    <3> HIDE DEF t
    <3>3. Told(Gather(t))
      BY <3>2, GatherTold
    <3> QED
      BY <1>0, <2>3, <3>3, ToldStays DEF t
  <2> QED
    BY <1>4, <2>2, <2>3 DEF Returns, InitReturns
<1>5. ASSUME NEW x, NEW p, NEW b, NEW r, Records(x, p, b, r)
      PROVE  ToldNext(result')
  BY <1>0, <1>1, <1>5, RecordTold
<1> QED
  BY Fates, <1>2, <1>3, <1>4, <1>5 DEF Fate, Idles, fields, AddsMember

-----------------------------------------------------------------------------
(* The invariant *)

LEMMA InitTypes ==
  ASSUME Init
  PROVE  /\ TypeInv /\ resultList = <<>> /\ finishedCount = 0 /\ fired = -1 /\ result.by = "none"
         /\ \A x \in Things : chain[x] = <<>> /\ outcome[x] = ended[x]
         /\ Len(stack) = 1 /\ stack[1].pc = "init" /\ stack[1].x = Null
<1>1. /\ resultList = <<>> /\ finishedCount = 0 /\ fired = -1 /\ result.by = "none"
      /\ chain = [x \in Things |-> <<>>] /\ ended = outcome
      /\ stack = <<Frame("init", Null, Null)>>
      /\ list \in Seq(Things) /\ list \in Lists /\ hasCanceller \in BOOLEAN
  BY ListAssumption DEF Init
<1>2. /\ flags \subseteq Flags
      /\ "gather" \in flags => flags = {"gather", "fireOnOneErrback"}
  BY DEF Init, Flags
<1>3. /\ Frame("init", Null, Null) \in Frames /\ FrameOK(Frame("init", Null, Null))
      /\ Frame("init", Null, Null).pc = "init" /\ Frame("init", Null, Null).x = Null
  BY DEF Frame, Frames, FrameOK, Results
<1>4. /\ stack \in Seq(Frames) /\ Len(stack) = 1 /\ stack[1].pc = "init" /\ stack[1].x = Null
      /\ FrameOK(stack[1])
  <2> DEFINE f == Frame("init", Null, Null)
  <2>1. stack = <<f>> /\ f \in Frames /\ FrameOK(f) /\ f.pc = "init" /\ f.x = Null
    BY <1>1, <1>3
  <2> HIDE DEF f
  <2> QED
    BY <2>1
<1>5. /\ outcome \in [Things -> Results \cup {Pending}]
      /\ \A x \in Things : outcome[x] \in Answers(x) \cup {Pending}
  BY DEF Init
<1>6. chain \in [Things -> Seq(Pairs)] /\ \A x \in Things : chain[x] = <<>>
  BY <1>1
<1>7. TypeOK
  BY <1>1, <1>2, <1>4, <1>5, <1>6 DEF TypeOK
<1>8. TypeInv
  BY <1>1, <1>2, <1>4, <1>5, <1>6, <1>7 DEF TypeInv, Given
<1> QED
  BY <1>1, <1>4, <1>6, <1>8

LEMMA InitInv ==
  ASSUME Init
  PROVE  Inv
<1>1. /\ TypeInv /\ resultList = <<>> /\ finishedCount = 0 /\ fired = -1 /\ result.by = "none"
      /\ \A x \in Things : chain[x] = <<>> /\ outcome[x] = ended[x]
      /\ Len(stack) = 1 /\ stack[1].pc = "init" /\ stack[1].x = Null
      /\ list \in Seq(Things)
  BY InitTypes, ListType
<1>2. StackInv
  BY <1>1 DEF StackInv
<1>3. \A x \in Things : At(x, 0)
  BY <1>1, Kinds DEF At
<1>4. ResultInv
  BY <1>1, <1>3 DEF ResultInv, Came
<1>5. ChainInv
  BY <1>1 DEF ChainInv, Faithful, SideBySide, Distinct
<1>6. OnceInv
  <2>1. {i \in DOMAIN resultList : resultList[i] # Null} = {}
    BY <1>1
  <2>2. Cardinality({}) = 0
    BY FS_EmptySet
  <2> QED
    BY <1>1, <2>1, <2>2 DEF OnceInv
<1>7. NotYet
  <2>1. 0 < Len(list) \/ list = <<>>
    BY <1>1
  <2>2. \A i : i \notin 1..Len(resultList)
    BY <1>1
  <2>3. Initialising
    BY <1>1 DEF Initialising
  <2> QED
    BY <1>1, <2>1, <2>2, <2>3 DEF NotYet
<1>8. GatherInv /\ TruthInv
  BY <1>1 DEF GatherInv, TruthInv, Truthful
<1> QED
  BY <1>1, <1>2, <1>4, <1>5, <1>6, <1>7, <1>8 DEF Inv

LEMMA NextInv ==
  ASSUME Inv, [Next]_vars
  PROVE  Inv'
<1>1. /\ TypeInv /\ StackInv /\ ResultInv /\ ChainInv /\ (Recounts \/ OnceInv)
      /\ NotYet /\ GatherInv /\ TruthInv
  BY DEF Inv
<1>2. Move
  BY <1>1, Moves
<1>3. TypeInv' /\ StackInv' /\ ResultInv' /\ ChainInv'
  BY <1>1, <1>2, TypeStep, StackStep, ResultStep, ChainStep
<1>4. Recounts' \/ OnceInv'
  BY <1>1, <1>2, RecountsStays, OnceStep
<1>5. fired = -1 => OnceInv
  BY <1>1 DEF Recounts
<1>6. NotYet'
  BY <1>1, <1>2, NotYetStep
<1>7. GatherInv'
  BY <1>1, <1>2, <1>3, <1>5, GatherStep
<1>8. TruthInv'
  BY <1>1, <1>2, <1>3, <1>5, TruthStep
<1> QED
  BY <1>3, <1>4, <1>6, <1>7, <1>8 DEF Inv

\* The invariant holds of the list, its members and what runs of them.
THEOREM Invariant == Spec => []Inv
<1>1. Init => Inv
  BY InitInv
<1>2. Inv /\ [Next]_vars => Inv'
  BY NextInv
<1> QED
  BY <1>1, <1>2, PTL DEF Spec

-----------------------------------------------------------------------------
(* What follows from it *)

\* Every field of the list, every frame and every chain keeps its type.
THEOREM TypeCorrect == Spec => []TypeOK
<1>1. Inv => TypeOK
  BY DEF Inv, TypeInv
<1> QED
  BY <1>1, Invariant, PTL

LEMMA OnceMove ==
  ASSUME Inv, [Next]_vars, fired # -1
  PROVE  fired' = fired /\ (result' = result \/ Initialising)
<1>1. TypeInv /\ StackInv /\ GatherInv
  BY DEF Inv
<1>2. Fate
  BY <1>1, Moves, Fates
<1>3. CASE Idles
  BY <1>3 DEF Idles, fields
<1>4. CASE Cancels
  BY <1>4 DEF Cancels
<1>5. CASE Returns
  BY <1>1, <1>5 DEF Returns, InitReturns, GatherInv
<1>6. ASSUME NEW i, NEW x, AddsMember(i, x)
      PROVE  fired' = fired /\ (result' = result \/ Initialising)
  BY <1>6 DEF AddsMember
<1>7. ASSUME NEW x, NEW p, NEW b, NEW r, Records(x, p, b, r)
      PROVE  fired' = fired /\ (result' = result \/ Initialising)
  <2>1. PICK then : then = FiresWith(p.i, b, r, resultList', finishedCount').r
    OBVIOUS
  <2>2. /\ result' = IF Initialising THEN then ELSE Gather(then)
        /\ then = result /\ fired' = fired
    BY <1>7, <2>1, RecordCases
  <2> QED
    BY <1>1, <2>2, GatheredOnce
<1> QED
  BY <1>2, <1>3, <1>4, <1>5, <1>6, <1>7 DEF Fate

\* The list fires once: no later answer, cancel or callback of its own changes
\* what it has fired with (_cbDeferred:succeeded:result:, cancel).
THEOREM FiredOnce == Spec => Once
<1>1. Inv /\ [Next]_vars => [fired # -1 => fired' = fired /\ (result' = result \/ Initialising)]_vars
  BY OnceMove
<1> QED
  BY <1>1, Invariant, PTL DEF Spec, Once

\* A pair that waits is what an index is owed to.
LEMMA OwedAt ==
  ASSUME TypeInv, NEW i
  PROVE  Owed(i) <=>
           \E x \in Things, k \in 0..Len(stack) :
             /\ At(x, k)
             /\ \E j \in 1..Len(chain[x]) :
                  /\ chain[x][j].i = i
                  /\ k > 0 => Branch(chain[x][j], stack[k].result) # "nil"
<1>1. \A x \in Things, k \in 0..Len(stack) :
        (IF k = 0 THEN \A j \in DOMAIN stack : stack[j].x # x
         ELSE stack[k].x = x /\ \A j \in k + 1..Len(stack) : stack[j].x # x)
          <=> At(x, k)
  <2>1. stack \in Seq(Frames) /\ DOMAIN stack = 1..Len(stack) /\ Len(stack) \in Nat
    BY ListType
  <2> SUFFICES ASSUME NEW x \in Things, NEW k \in 0..Len(stack)
               PROVE  (IF k = 0 THEN \A j \in DOMAIN stack : stack[j].x # x
                       ELSE stack[k].x = x /\ \A j \in k + 1..Len(stack) : stack[j].x # x)
                        <=> At(x, k)
    OBVIOUS
  <2>2. CASE k = 0
    BY <2>1, <2>2 DEF At
  <2>3. CASE k > 0
    BY <2>1, <2>3 DEF At
  <2> QED
    BY <2>1, <2>2, <2>3
<1>2. \A x \in Things : DOMAIN chain[x] = 1..Len(chain[x])
  BY ChainType
<1> QED
  BY <1>1, <1>2 DEF Owed

LEMMA OwedHas ==
  ASSUME TypeInv, ChainInv, NEW i, Owed(i)
  PROVE  \E x \in Things : \E j \in 1..Len(chain[x]) : Claims(x, j) /\ chain[x][j].i = i
<1>1. PICK x \in Things, k \in 0..Len(stack) :
        /\ At(x, k)
        /\ \E j \in 1..Len(chain[x]) :
             /\ chain[x][j].i = i
             /\ k > 0 => Branch(chain[x][j], stack[k].result) # "nil"
  BY OwedAt
<1>2. PICK j \in 1..Len(chain[x]) :
        /\ chain[x][j].i = i
        /\ k > 0 => Branch(chain[x][j], stack[k].result) # "nil"
  BY <1>1
<1>3. Len(chain[x]) \in Nat /\ SideBySide(chain[x])
  BY ChainType DEF ChainInv
<1>4. CASE ~IsEb(chain[x][j])
  BY <1>2, <1>4 DEF Claims
<1>5. CASE IsEb(chain[x][j]) /\ j > 1
  <2>1. j - 1 \in 1..Len(chain[x]) /\ IsCb(chain[x][j - 1]) /\ chain[x][j - 1].i = i
    BY <1>2, <1>3, <1>5 DEF SideBySide
  <2>2. ~IsEb(chain[x][j - 1])
    BY <2>1 DEF IsCb, IsEb
  <2> QED
    BY <2>1, <2>2 DEF Claims
<1>6. CASE IsEb(chain[x][j]) /\ j = 1
  <2>1. k # 0
    BY <1>1, <1>3, <1>6, ChainType DEF ChainInv
  <2>2. stack[k].result \in Errors
    BY <1>2, <1>6, <2>1 DEF Branch, IsEb
  <2>3. k \in 1..Len(stack)
    BY <2>1
  <2> QED
    BY <1>1, <1>2, <1>6, <2>2, <2>3 DEF Claims
<1> QED
  BY <1>3, <1>4, <1>5, <1>6

LEMMA HasOwed ==
  ASSUME TypeInv, ChainInv, NEW x \in Things, NEW j \in 1..Len(chain[x]), Claims(x, j)
  PROVE  Owed(chain[x][j].i)
<1>1. stack \in Seq(Frames) /\ Len(chain[x]) \in Nat /\ SideBySide(chain[x]) /\ PairOK(x, chain[x][j])
  BY ListType, ChainType DEF ChainInv
<1>2. PICK k \in 0..Len(stack) : At(x, k)
  BY <1>1, AtExists
<1> DEFINE i == chain[x][j].i
<1> SUFFICES k > 0 => \E m \in 1..Len(chain[x]) :
                        chain[x][m].i = i /\ Branch(chain[x][m], stack[k].result) # "nil"
  BY <1>2, OwedAt
<1>3. CASE IsEb(chain[x][j])
  <2>1. PICK m \in 1..Len(stack) : At(x, m) /\ stack[m].result \in Errors
    BY <1>3 DEF Claims
  <2>2. m = k
    BY <1>1, <1>2, <2>1, AtOnce
  <2> QED
    BY <1>3, <2>1, <2>2 DEF Branch, IsEb
<1>4. CASE IsBoth(chain[x][j])
  BY <1>4 DEF Branch, IsBoth
<1>5. CASE IsCb(chain[x][j]) /\ stack[k].result \notin Errors
  BY <1>5 DEF Branch, IsCb
<1>6. CASE IsCb(chain[x][j]) /\ stack[k].result \in Errors
  <2>1. j + 1 \in 1..Len(chain[x]) /\ IsEb(chain[x][j + 1]) /\ chain[x][j + 1].i = i
    BY <1>1, <1>6 DEF SideBySide
  <2> QED
    BY <1>6, <2>1 DEF Branch, IsEb
<1> QED
  BY <1>1, <1>3, <1>4, <1>5, <1>6 DEF PairOK

\* No answer is counted twice and none is lost, but for the list that has two
\* entries of one member and has fired (_cbDeferred:succeeded:result:).
THEOREM EveryAnswerOnce == Spec => []EachOnce
<1>1. ASSUME Inv
      PROVE  EachOnce
  <2>1. TypeInv /\ ChainInv /\ (Recounts \/ OnceInv)
    BY <1>1 DEF Inv
  <2>2. ASSUME OnceInv, NEW i \in 1..Len(resultList)
        PROVE  resultList[i] = Null <=> Owed(i)
    BY <2>1, <2>2, OwedHas, HasOwed DEF OnceInv
  <2>3. DOMAIN resultList = 1..Len(resultList)
    BY <2>1, ListType
  <2> QED
    BY <2>1, <2>2, <2>3 DEF EachOnce, OnceInv
<1> QED
  BY <1>1, Invariant, PTL

\* The list has not let pass what it has to fire for, in any state its client
\* can see (initWithList:, _cbDeferred:succeeded:result:).
THEOREM FiresInTime == Spec => []Prompt
<1>1. ASSUME Inv
      PROVE  Prompt
  <2>1. TypeInv /\ StackInv /\ NotYet
    BY <1>1 DEF Inv
  <2>2. DOMAIN resultList = 1..Len(resultList)
    BY <2>1, ListType
  <2>3. ClientRuns => ~Initialising
    BY <2>1, NotWhileMade
  <2>4. ASSUME fired = -1, NEW i \in DOMAIN resultList, resultList[i] # Null
        PROVE  /\ "fireOnOneCallback" \in flags => resultList[i].succeeded = "NO"
               /\ "fireOnOneErrback" \in flags => resultList[i].succeeded = "YES"
    BY <2>1, <2>2, <2>4 DEF NotYet
  <2>5. ASSUME fired = -1, ClientRuns
        PROVE  finishedCount < Len(list) \/ (list = <<>> /\ "fireOnOneCallback" \in flags)
    BY <2>1, <2>3, <2>5 DEF NotYet
  <2> QED
    BY <2>4, <2>5 DEF Prompt
<1> QED
  BY <1>1, Invariant, PTL

\* What the list is fired with, and what gatherResults: makes of it, is what its
\* members came to, each at its place.
THEOREM TellsTheTruth == Spec => []Truthful
<1>1. Inv => Truthful
  BY DEF Inv, TruthInv
<1> QED
  BY <1>1, Invariant, PTL
=============================================================================
