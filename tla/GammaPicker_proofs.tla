-------------------------- MODULE GammaPicker_proofs --------------------------
(***************************************************************************)
(* Theorems about GammaPicker, for every vector of offsets, every age and  *)
(* every size of a word: where the binary search of std::lower_bound ends, *)
(* that pick() can always go on from there, and where a pick lies.         *)
(***************************************************************************)
EXTENDS GammaPicker, WellFoundedInduction, TLAPS

\* A set of numbers that is not empty has a smallest element.
LEMMA SmallestIn ==
  ASSUME NEW S \in SUBSET Nat, S # {}
  PROVE  \E x \in S : \A y \in S : x <= y
<1> DEFINE R == OpToRel(<, Nat)
<1>1. PICK x \in S : \A y \in S : <<y, x>> \notin R
  <2>1. IsWellFoundedOn(R, Nat)
    BY NatLessThanWellFounded
  <2> HIDE DEF R
  <2>2. QED
    BY <2>1, WFMin
<1>2. \A y \in S : ~(y < x)
  BY <1>1 DEF OpToRel
<1>3. \A y \in S : x <= y
  BY <1>2
<1>4. QED
  BY <1>3

----------------------------------------------------------------------------
(* std::lower_bound.                                                       *)

\* One turn of the search between lo and hi, where f finishes it.
Turn(s, v, f, lo, hi) ==
  LET mid == lo + (hi - lo) \div 2
  IN  IF hi <= lo THEN lo
      ELSE IF GoesRight(s[mid + 1], v) THEN f[<<mid + 1, hi>>] ELSE f[<<lo, mid>>]

Parts(n) == (0 .. n) \X (0 .. n)

Searches(s, n, v, f) == f = [part \in Parts(n) |-> Turn(s, v, f, part[1], part[2])]

LEMMA Middle ==
  ASSUME NEW lo \in Nat, NEW hi \in Nat, lo < hi
  PROVE  lo + (hi - lo) \div 2 \in lo .. hi - 1
<1>1. PICK d \in Nat \ {0} : d = hi - lo
  OBVIOUS
<1>2. d \div 2 \in 0 .. d - 1
  OBVIOUS
<1>3. QED
  BY <1>1, <1>2

\* The recursion defines a function: the narrowest parts for which it did not would be
\* one wider than parts for which it does.
LEMMA SearchExists ==
  ASSUME NEW s, NEW n \in Nat, NEW v
  PROVE  \E f : Searches(s, n, v, f)
<1> DEFINE Has(k) == \E f : /\ f = [part \in Parts(n) |-> f[part]]
                            /\ \A lo, hi \in 0 .. n : hi - lo <= k =>
                                 f[<<lo, hi>>] = Turn(s, v, f, lo, hi)
           S == {k \in Nat : ~Has(k)}
<1>1. SUFFICES Has(n)
  <2>1. PICK f : /\ f = [part \in Parts(n) |-> f[part]]
                 /\ \A lo, hi \in 0 .. n : hi - lo <= n => f[<<lo, hi>>] = Turn(s, v, f, lo, hi)
    BY <1>1
  <2>2. \A lo, hi \in 0 .. n : f[<<lo, hi>>] = Turn(s, v, f, lo, hi)
    <3>1. \A lo, hi \in 0 .. n : hi - lo <= n
      OBVIOUS
    <3>2. QED
      BY <2>1, <3>1
  <2>3. \A part \in Parts(n) : f[part] = Turn(s, v, f, part[1], part[2])
    BY <2>2 DEF Parts
  <2>4. f = [part \in Parts(n) |-> Turn(s, v, f, part[1], part[2])]
    BY <2>1, <2>3
  <2>5. QED
    BY <2>4 DEF Searches
<1>2. SUFFICES ASSUME S # {} PROVE FALSE
  OBVIOUS
<1>3. PICK k \in S : \A m \in S : k <= m
  <2> HIDE DEF S
  <2>1. S \in SUBSET Nat
    BY DEF S
  <2>2. QED
    BY <1>2, <2>1, SmallestIn
<1>4. CASE k = 0
  <2> DEFINE f == [part \in Parts(n) |-> part[1]]
  <2>1. \A lo, hi \in 0 .. n : hi - lo <= 0 => f[<<lo, hi>>] = Turn(s, v, f, lo, hi)
    BY DEF Turn, Parts
  <2>2. f = [part \in Parts(n) |-> f[part]]
    OBVIOUS
  <2> HIDE DEF f
  <2>3. Has(0)
    BY <2>1, <2>2
  <2>4. QED
    BY <1>4, <2>3
<1>5. CASE k # 0
  <2>1. k - 1 \in Nat /\ ~(k <= k - 1)
    BY <1>5
  <2>2. k - 1 \notin S
    BY <1>3, <2>1
  <2>3. PICK f : /\ f = [part \in Parts(n) |-> f[part]]
                 /\ \A lo, hi \in 0 .. n : hi - lo <= k - 1 =>
                      f[<<lo, hi>>] = Turn(s, v, f, lo, hi)
    BY <2>1, <2>2
  <2> DEFINE g == [part \in Parts(n) |-> Turn(s, v, f, part[1], part[2])]
  <2>4. g = [part \in Parts(n) |-> g[part]]
    OBVIOUS
  <2>5. \A lo, hi \in 0 .. n : g[<<lo, hi>>] = Turn(s, v, f, lo, hi)
    BY DEF Parts
  <2> HIDE DEF g
  <2>6. \A lo, hi \in 0 .. n : hi - lo <= k - 1 => g[<<lo, hi>>] = f[<<lo, hi>>]
    BY <2>3, <2>5
  <2>7. ASSUME NEW lo \in 0 .. n, NEW hi \in 0 .. n, hi - lo <= k
        PROVE  g[<<lo, hi>>] = Turn(s, v, g, lo, hi)
    <3> DEFINE mid == lo + (hi - lo) \div 2
    <3>1. CASE hi <= lo
      BY <2>5, <3>1 DEF Turn
    <3>2. CASE lo < hi
      <4>1. mid \in lo .. hi - 1
        BY <3>2, Middle
      <4> HIDE DEF mid
      <4>2. /\ mid \in 0 .. n /\ mid + 1 \in 0 .. n
            /\ mid - lo <= k - 1 /\ hi - (mid + 1) <= k - 1
        BY <2>1, <2>7, <4>1
      <4>3. g[<<mid + 1, hi>>] = f[<<mid + 1, hi>>] /\ g[<<lo, mid>>] = f[<<lo, mid>>]
        BY <2>6, <4>2
      <4>4. Turn(s, v, g, lo, hi) = Turn(s, v, f, lo, hi)
        BY <4>3 DEF Turn, mid
      <4>5. QED
        BY <2>5, <4>4
    <3>3. QED
      BY <3>1, <3>2
  <2>8. Has(k)
    BY <2>4, <2>7
  <2>9. QED
    BY <2>8
<1>6. QED
  BY <1>4, <1>5

LEMMA LowerBoundSearches ==
  ASSUME NEW s, NEW n \in Nat, NEW v
  PROVE  \E f : Searches(s, n, v, f) /\ LowerBound(s, n, v) = f[<<0, n>>]
<1> DEFINE f == CHOOSE f : Searches(s, n, v, f)
<1>1. Searches(s, n, v, f)
  BY SearchExists
<1>2. LowerBound(s, n, v) = f[<<0, n>>]
  BY Zenon DEF LowerBound, Searches, Turn, Parts
<1>3. QED
  BY <1>1, <1>2
\* Where the search of a part ends: before it everything just left is smaller, behind
\* it it is not.  This needs no order among the elements.
Ends(s, v, lo, hi, r) ==
  /\ r \in lo .. hi
  /\ r > lo => s[r] < v
  /\ r < hi => ~(s[r + 1] < v)

LEMMA SearchEnds ==
  ASSUME NEW s, NEW n \in Nat, NEW v, NEW f, Searches(s, n, v, f),
         NEW lo \in 0 .. n, NEW hi \in 0 .. n, lo <= hi
  PROVE  Ends(s, v, lo, hi, f[<<lo, hi>>])
<1> DEFINE Bad(k) == \E a, b \in 0 .. n : /\ a <= b /\ b - a = k
                                          /\ ~Ends(s, v, a, b, f[<<a, b>>])
           S == {k \in Nat : Bad(k)}
<1>1. SUFFICES ASSUME S # {} PROVE FALSE
  <2>1. S = {}
    BY <1>1
  <2>2. hi - lo \in Nat
    OBVIOUS
  <2>3. ~Bad(hi - lo)
    BY <2>1, <2>2
  <2>4. QED
    BY <2>3
<1>2. PICK k \in S : \A m \in S : k <= m
  <2> HIDE DEF S
  <2>1. S \in SUBSET Nat
    BY DEF S
  <2>2. QED
    BY <1>1, <2>1, SmallestIn
<1>3. k \in Nat /\ Bad(k)
  OBVIOUS
<1>4. PICK a \in 0 .. n, b \in 0 .. n : a <= b /\ b - a = k /\ ~Ends(s, v, a, b, f[<<a, b>>])
  BY <1>3
<1>5. ASSUME NEW c \in 0 .. n, NEW d \in 0 .. n, c <= d, d - c < k
      PROVE  Ends(s, v, c, d, f[<<c, d>>])
  <2>1. d - c \in Nat /\ ~(k <= d - c)
    BY <1>3, <1>5
  <2>2. d - c \notin S
    BY <1>2, <2>1
  <2>3. ~Bad(d - c)
    BY <2>1, <2>2
  <2>4. QED
    BY <1>5, <2>3
<1> HIDE DEF S, Bad
<1>6. f[<<a, b>>] = Turn(s, v, f, a, b)
  BY DEF Searches, Parts
<1>7. CASE a = b
  BY <1>4, <1>6, <1>7 DEF Turn, Ends
<1>8. CASE a < b
  <2> DEFINE mid == a + (b - a) \div 2
  <2>1. mid \in a .. b - 1
    BY <1>8, Middle
  <2>2. f[<<a, b>>] = IF s[mid + 1] < v THEN f[<<mid + 1, b>>] ELSE f[<<a, mid>>]
    BY <1>6, <1>8 DEF Turn, GoesRight
  <2> HIDE DEF mid
  <2>3. mid \in 0 .. n /\ mid + 1 \in 0 .. n /\ b - (mid + 1) < k /\ mid - a < k /\ mid + 1 <= b
    BY <1>3, <1>4, <2>1
  <2>4. CASE s[mid + 1] < v
    <3>1. Ends(s, v, mid + 1, b, f[<<mid + 1, b>>])
      BY <1>5, <2>3
    <3> DEFINE r == f[<<mid + 1, b>>]
    <3> HIDE DEF r
    <3>2. r \in mid + 1 .. b /\ (r > mid + 1 => s[r] < v) /\ (r < b => ~(s[r + 1] < v))
      BY <3>1 DEF Ends, r
    <3>3. r = mid + 1 \/ r > mid + 1
      BY <2>3, <3>2
    <3>4. r \in a .. b
      BY <2>1, <3>2
    <3>5. Ends(s, v, a, b, r)
      BY <2>4, <3>2, <3>3, <3>4 DEF Ends
    <3>6. QED
      BY <1>4, <2>2, <2>4, <3>5 DEF r
  <2>5. CASE ~(s[mid + 1] < v)
    <3>1. Ends(s, v, a, mid, f[<<a, mid>>])
      BY <1>5, <2>1, <2>3
    <3> DEFINE r == f[<<a, mid>>]
    <3> HIDE DEF r
    <3>2. r \in a .. mid /\ (r > a => s[r] < v) /\ (r < mid => ~(s[r + 1] < v))
      BY <3>1 DEF Ends, r
    <3>3. r = mid \/ r < mid
      BY <2>3, <3>2
    <3>4. r \in a .. b
      BY <2>1, <3>2
    <3>5. Ends(s, v, a, b, r)
      BY <2>5, <3>2, <3>3, <3>4 DEF Ends
    <3>6. QED
      BY <1>4, <2>2, <2>5, <3>5 DEF r
  <2>6. QED
    BY <2>4, <2>5
<1>9. QED
  BY <1>4, <1>7, <1>8

LEMMA LowerBoundEnds ==
  ASSUME NEW s, NEW n \in Nat, NEW v
  PROVE  Ends(s, v, 0, n, LowerBound(s, n, v))
<1>1. PICK f : Searches(s, n, v, f) /\ LowerBound(s, n, v) = f[<<0, n>>]
  BY LowerBoundSearches
<1>2. Ends(s, v, 0, n, f[<<0, n>>])
  BY <1>1, SearchEnds
<1>3. QED
  BY <1>1, <1>2

----------------------------------------------------------------------------
(* The constructor.                                                        *)

LEMMA WrapRange == ASSUME NEW n \in Int PROVE Wrap(n) \in 0 .. Word - 1
<1>1. PICK w \in Nat \ {0} : w = Word
  BY WordAssumption
<1>2. n % w \in 0 .. w - 1
  OBVIOUS
<1>3. QED
  BY <1>1, <1>2 DEF Wrap

LEMMA WrapSmall == ASSUME NEW n \in 0 .. Word - 1 PROVE Wrap(n) = n
<1>1. PICK w \in Nat \ {0} : w = Word
  BY WordAssumption
<1>2. n \in 0 .. w - 1
  BY <1>1
<1>3. n % w = n
  BY <1>2
<1>4. QED
  BY <1>1, <1>3 DEF Wrap

\* A product of positive numbers is positive.
LEMMA Positive ==
  ASSUME NEW a \in Nat \ {0}, NEW b \in Nat \ {0}
  PROVE  a * b \in Nat \ {0}
OBVIOUS

LEMMA RandIdxIs ==
  ASSUME NEW sz \in Nat
  PROVE  RandIdx(sz) \subseteq 0 .. Word - 1 /\ (sz \in 1 .. Word - 1 => RandIdx(sz) = 0 .. sz - 1)
<1>1. Wrap(sz - 1) \in 0 .. Word - 1
  BY WrapRange
<1>2. sz \in 1 .. Word - 1 => Wrap(sz - 1) = sz - 1
  <2>1. ASSUME sz \in 1 .. Word - 1 PROVE sz - 1 \in 0 .. Word - 1
    BY <2>1, WordAssumption
  <2>2. QED
    BY <2>1, WrapSmall
<1>3. QED
  BY <1>1, <1>2, WordAssumption DEF RandIdx

\* What the constructor accepts.
Constructible(s) ==
  /\ s \in Seq(0 .. Word - 1) /\ Len(s) >= SpendableAge
  /\ s[Eligible(s)] # 0 /\ OutputsToConsider(s) # 0

LEMMA ConstructibleIs ==
  ASSUME NEW s \in Offsets
  PROVE  ~CannotConstruct(s) => Constructible(s)
BY OffsetsAssumption DEF CannotConstruct, Constructible

LEMMA ConstructedFacts ==
  ASSUME NEW s, Constructible(s)
  PROVE  /\ Len(s) \in Nat \ {0} /\ DOMAIN s = 1 .. Len(s)
         /\ \A i \in 1 .. Len(s) : s[i] \in 0 .. Word - 1
         /\ Eligible(s) \in 1 .. Len(s) /\ s[Eligible(s)] \in 1 .. Word - 1
         /\ OutputsToConsider(s) \in Nat \ {0}
         /\ Target * Second * Smaller(Len(s), BlocksInYear) \in Nat \ {0}
<1>1. Len(s) \in Nat \ {0} /\ DOMAIN s = 1 .. Len(s)
  BY BlocksAssumption DEF Constructible
<1>2. \A i \in 1 .. Len(s) : s[i] \in 0 .. Word - 1
  <2> DEFINE W == 0 .. Word - 1
  <2>1. s \in Seq(W)
    BY DEF Constructible
  <2> HIDE DEF W
  <2>2. \A i \in 1 .. Len(s) : s[i] \in W
    BY <2>1
  <2>3. QED
    BY <2>2 DEF W
<1>3. Eligible(s) \in 1 .. Len(s)
  BY <1>1, BlocksAssumption DEF Constructible, Eligible
<1>4. s[Eligible(s)] \in 1 .. Word - 1
  <2>1. s[Eligible(s)] \in 0 .. Word - 1 /\ s[Eligible(s)] # 0
    BY <1>2, <1>3 DEF Constructible
  <2>2. QED
    BY <2>1, WordAssumption
<1>5. Smaller(Len(s), BlocksInYear) \in 1 .. Len(s)
  BY <1>1, BlocksAssumption DEF Smaller
<1>6. OutputsToConsider(s) \in Nat \ {0}
  <2> DEFINE blocks == Smaller(Len(s), BlocksInYear)
             x == s[Len(s)] - (IF blocks < Len(s) THEN s[Len(s) - blocks] ELSE 0)
  <2>1. blocks \in 1 .. Len(s)
    BY <1>5
  <2> HIDE DEF blocks
  <2>2. x \in Int
    <3>1. Len(s) \in 1 .. Len(s) /\ (blocks < Len(s) => Len(s) - blocks \in 1 .. Len(s))
      BY <1>1, <2>1
    <3>2. \A i \in 1 .. Len(s) : s[i] \in Int
      BY <1>2, WordAssumption
    <3>3. s[Len(s)] \in Int /\ (blocks < Len(s) => s[Len(s) - blocks] \in Int)
      BY <3>1, <3>2
    <3>4. QED
      BY <3>3
  <2> HIDE DEF x
  <2>3. Wrap(x) \in 0 .. Word - 1
    BY <2>2, WrapRange
  <2>4. OutputsToConsider(s) = Wrap(x)
    BY DEF OutputsToConsider, x, blocks
  <2>5. QED
    BY <2>3, <2>4, WordAssumption DEF Constructible
<1>7. Target * Second * Smaller(Len(s), BlocksInYear) \in Nat \ {0}
  <2>1. PICK a \in Nat \ {0}, b \in Nat \ {0}, c \in Nat \ {0} :
          a = Target /\ b = Second /\ c = Smaller(Len(s), BlocksInYear)
    <3>1. Target \in Nat \ {0} /\ Second \in Nat \ {0}
      BY BlocksAssumption
    <3>2. Smaller(Len(s), BlocksInYear) \in Nat \ {0}
      BY <1>1, <1>5
    <3>3. QED
      BY <3>1, <3>2
  <2>2. a * b \in Nat \ {0}
    BY Positive
  <2>3. (a * b) * c \in Nat \ {0}
    BY <2>2, Positive
  <2>4. QED
    BY <2>1, <2>3
<1>8. QED
  BY <1>1, <1>2, <1>3, <1>4, <1>6, <1>7

----------------------------------------------------------------------------
(* pick().                                                                 *)

BlockIn(s, k) == LowerBound(s, Eligible(s), k)
FirstIn(s, b) == IF b = 0 THEN 0 ELSE s[b]
NumIn(s, b) == Wrap(s[b + 1] - FirstIn(s, b))
PicksIn(s, k) ==
  IF k = -1 \/ NumIn(s, BlockIn(s, k)) = 0 THEN {BadPick}
  ELSE {Wrap(FirstIn(s, BlockIn(s, k)) + r) : r \in RandIdx(NumIn(s, BlockIn(s, k)))}

\* The search ends at an eligible block, because the last of them reaches beyond the
\* target; in order or not, it ends behind a smaller offset and before one that is not.
LEMMA BlockFound ==
  ASSUME NEW s, Constructible(s), NEW k \in 0 .. s[Eligible(s)] - 1
  PROVE  /\ BlockIn(s, k) \in 0 .. Eligible(s) - 1
         /\ BlockIn(s, k) > 0 => s[BlockIn(s, k)] < k
         /\ s[BlockIn(s, k) + 1] >= k
<1>1. PICK e \in Nat \ {0} : e = Eligible(s) /\ e <= Len(s)
  BY ConstructedFacts
<1>2. Ends(s, k, 0, e, BlockIn(s, k))
  BY <1>1, LowerBoundEnds DEF BlockIn
<1> DEFINE b == BlockIn(s, k)
<1> HIDE DEF b
<1>3. b \in 0 .. e /\ (b > 0 => s[b] < k) /\ (b < e => ~(s[b + 1] < k))
  BY <1>1, <1>2 DEF Ends, b
<1>4. s[e] \in Nat /\ k \in Nat /\ k < s[e]
  BY <1>1, ConstructedFacts
<1>5. b # e
  BY <1>1, <1>3, <1>4
<1>6. b < e /\ b + 1 \in 1 .. Len(s)
  BY <1>1, <1>3, <1>5, ConstructedFacts
<1>7. s[b + 1] \in 0 .. Word - 1
  BY <1>6, ConstructedFacts
<1>8. s[b + 1] >= k
  BY <1>3, <1>4, <1>6, <1>7, WordAssumption
<1>9. QED
  BY <1>1, <1>3, <1>6, <1>8 DEF b

\* Where a pick lies when the offsets are in order.
Lies(s, k, p) ==
  /\ p = BadPick => k = 0 /\ s[1] = 0
  /\ p # BadPick => /\ p < s[Eligible(s)]
                    /\ k = 0 => p < s[1]
                    /\ k # 0 => \A b \in DOMAIN s : s[b] <= k - 1 <=> s[b] <= p

LEMMA PickLies ==
  ASSUME NEW s, Constructible(s), Sorted(s), NEW k \in 0 .. s[Eligible(s)] - 1,
         NEW p \in PicksIn(s, k)
  PROVE  Lies(s, k, p)
<1> DEFINE b == BlockIn(s, k)
           first == FirstIn(s, b)
           last == s[b + 1]
<1>1. /\ Len(s) \in Nat \ {0} /\ DOMAIN s = 1 .. Len(s) /\ Eligible(s) \in 1 .. Len(s)
      /\ \A i \in 1 .. Len(s) : s[i] \in 0 .. Word - 1
  BY ConstructedFacts
<1>2. /\ b \in 0 .. Eligible(s) - 1 /\ (b > 0 => s[b] < k) /\ s[b + 1] >= k
  BY BlockFound
<1>3. k \in Nat
  BY <1>1, WordAssumption
<1> HIDE DEF b
<1>4. b \in Nat /\ b + 1 \in 1 .. Len(s) /\ b + 1 <= Eligible(s) /\ (b > 0 => b \in 1 .. Len(s))
  BY <1>1, <1>2
<1>5. \A i, j \in 1 .. Len(s) : i <= j => s[i] <= s[j]
  <2>1. ASSUME NEW i \in 1 .. Len(s), NEW j \in 1 .. Len(s), i <= j PROVE s[i] <= s[j]
    <3>1. CASE i = j
      <4>1. s[i] \in Int
        BY <1>1, WordAssumption
      <4>2. QED
        BY <3>1, <4>1
    <3>2. CASE i < j
      BY <1>1, <3>2 DEF Sorted
    <3>3. QED
      BY <2>1, <3>1, <3>2
  <2>2. QED
    BY <2>1
<1>6. last \in 0 .. Word - 1 /\ first \in 0 .. Word - 1 /\ first <= last
  <2>1. last \in 0 .. Word - 1
    BY <1>1, <1>4
  <2>2. CASE b = 0
    BY <2>1, <2>2, WordAssumption DEF FirstIn
  <2>3. CASE b > 0
    <3>1. first = s[b] /\ b \in 1 .. Len(s) /\ b <= b + 1
      BY <1>4, <2>3 DEF FirstIn
    <3>2. first <= last
      BY <1>4, <1>5, <3>1
    <3>3. QED
      BY <1>1, <2>1, <3>1, <3>2
  <2>4. QED
    BY <1>4, <2>2, <2>3
<1>7. NumIn(s, b) = last - first
  <2>1. last - first \in 0 .. Word - 1
    BY <1>6, WordAssumption
  <2>2. QED
    BY <2>1, WrapSmall DEF NumIn
<1>8. last <= s[Eligible(s)] /\ \A i \in 1 .. Len(s) : (i <= b => s[i] <= first) /\ (i > b => s[i] >= last)
  <2>1. last <= s[Eligible(s)]
    BY <1>1, <1>4, <1>5
  <2>2. ASSUME NEW i \in 1 .. Len(s) PROVE (i <= b => s[i] <= first) /\ (i > b => s[i] >= last)
    <3>1. CASE i <= b
      <4>1. b > 0 /\ b \in 1 .. Len(s)
        BY <1>4, <3>1
      <4>2. first = s[b]
        BY <1>4, <4>1 DEF FirstIn
      <4>3. s[i] <= s[b]
        BY <1>5, <3>1, <4>1
      <4>4. QED
        BY <3>1, <4>2, <4>3, <1>4
    <3>2. CASE i > b
      <4>1. b + 1 <= i
        BY <1>4, <3>2
      <4>2. s[b + 1] <= s[i]
        BY <1>4, <1>5, <4>1
      <4>3. s[b + 1] \in Int /\ s[i] \in Int
        BY <1>1, <1>4, WordAssumption
      <4>4. QED
        BY <1>4, <3>2, <4>2, <4>3
    <3>3. QED
      BY <1>4, <3>1, <3>2
  <2>3. QED
    BY <2>1, <2>2
<1>9. first = 0 \/ first < k
  BY <1>2, <1>4 DEF FirstIn
<1>10. BadPick = Word - 1 /\ k # -1
  BY <1>3 DEF BadPick
<1> HIDE DEF last, first
<1>11. CASE NumIn(s, b) = 0
  <2>1. p = BadPick
    BY <1>11 DEF PicksIn, b
  <2>2. last = first
    BY <1>6, <1>7, <1>11, WordAssumption
  <2>3. first = 0 /\ k = 0
    BY <1>2, <1>3, <1>6, <1>9, <2>2, WordAssumption DEF last
  <2>4. b = 0
    <3>1. ~(b > 0)
      <4>1. ASSUME b > 0 PROVE FALSE
        <5>1. s[b] < 0 /\ s[b] \in 0 .. Word - 1
          BY <1>1, <1>2, <1>4, <2>3, <4>1
        <5>2. QED
          BY <5>1, WordAssumption
      <4>2. QED
        BY <4>1
    <3>2. QED
      BY <1>4, <3>1
  <2>5. s[1] = 0
    BY <2>2, <2>3, <2>4 DEF last
  <2>6. QED
    BY <2>1, <2>3, <2>5 DEF Lies
<1>12. CASE NumIn(s, b) # 0
  <2>1. PICK r \in RandIdx(NumIn(s, b)) : p = Wrap(first + r)
    BY <1>10, <1>12 DEF PicksIn, b, first
  <2>2. NumIn(s, b) \in 1 .. Word - 1
    BY <1>6, <1>7, <1>12, WordAssumption
  <2>3. r \in 0 .. NumIn(s, b) - 1
    BY <2>1, <2>2, RandIdxIs
  <2>4. first + r \in 0 .. Word - 1 /\ first + r < last /\ first + r >= first
    BY <1>6, <1>7, <2>3, WordAssumption
  <2>5. p = first + r
    BY <2>1, <2>4, WrapSmall
  <2>6. p \in Nat /\ p < last /\ first <= p /\ p # BadPick
    BY <1>6, <1>10, <2>4, <2>5, WordAssumption
  <2>7. p < s[Eligible(s)]
    <3>1. s[Eligible(s)] \in Int
      BY <1>1, WordAssumption
    <3>2. QED
      BY <1>6, <1>8, <2>6, <3>1, WordAssumption
  <2>8. k = 0 => p < s[1]
    <3>1. ASSUME k = 0, b > 0 PROVE FALSE
      <4>1. s[b] < 0 /\ s[b] \in 0 .. Word - 1
        BY <1>1, <1>2, <1>4, <3>1
      <4>2. QED
        BY <4>1, WordAssumption
    <3>2. k = 0 => b = 0
      BY <1>4, <3>1
    <3>3. QED
      BY <2>6, <3>2 DEF last
  <2>9. ASSUME NEW i \in DOMAIN s, k # 0 PROVE s[i] <= k - 1 <=> s[i] <= p
    <3>1. i \in 1 .. Len(s) /\ s[i] \in 0 .. Word - 1
      BY <1>1
    <3>2. CASE i <= b
      <4>1. s[i] <= first /\ b > 0 /\ first < k
        <5>1. s[i] <= first /\ b > 0
          BY <1>4, <1>8, <3>1, <3>2
        <5>2. first = s[b]
          BY <1>4, <5>1 DEF first, FirstIn
        <5>3. QED
          BY <1>2, <5>1, <5>2
      <4>2. QED
        BY <1>3, <1>6, <2>6, <3>1, <4>1, WordAssumption
    <3>3. CASE i > b
      <4>1. s[i] >= last /\ last >= k
        BY <1>2, <1>8, <3>1, <3>3 DEF last
      <4>2. QED
        BY <1>3, <1>6, <2>6, <3>1, <4>1, WordAssumption
    <3>4. QED
      BY <1>4, <3>1, <3>2, <3>3
  <2>10. QED
    BY <2>6, <2>7, <2>8, <2>9 DEF Lies
<1>13. QED
  BY <1>11, <1>12

----------------------------------------------------------------------------
(* The picker as a whole.  TypeOK alone is not inductive: that the target  *)
(* stays among the outputs needs what the constructor accepted, and what   *)
(* is said of a pick needs the target it was made for.                     *)

PickerBook ==
  /\ phase \in {"ready", "drawing"} =>
       /\ Constructible(rct_offsets)
       /\ num_rct_outputs = rct_offsets[Eligible(rct_offsets)]
       /\ average = <<Target * Second * Smaller(Len(rct_offsets), BlocksInYear),
                      OutputsToConsider(rct_offsets)>>
  /\ phase \in {"new", "thrown"} => num_rct_outputs = 0 /\ target = -1
  /\ target \in -1 .. num_rct_outputs - 1
  /\ picked \in PicksIn(rct_offsets, target)

Inv == TypeOK /\ PickerBook

LEMMA AgeIsNat ==
  ASSUME NEW x \in Ages, NEW y \in AgesAfterUnlock(x)
  PROVE  y \in Nat
<1>1. DefaultUnlockTime \in Nat /\ RecentSpendWindow \in Nat /\ Second \in Nat /\ x \in Nat
  <2>1. PICK a \in Nat, t \in Nat, c \in Nat, d \in Nat :
          a = SpendableAge /\ t = Target /\ c = Second /\ d = RecentBlocks
    BY BlocksAssumption
  <2>2. (a * t) * c \in Nat /\ d * t \in Nat
    <3>1. a * t \in Nat /\ d * t \in Nat
      OBVIOUS
    <3>2. QED
      BY <3>1
  <2>3. QED
    BY <2>1, <2>2, AgesAssumption DEF DefaultUnlockTime, RecentSpendWindow
<1>2. CASE x > DefaultUnlockTime
  BY <1>1, <1>2 DEF AgesAfterUnlock
<1>3. CASE ~(x > DefaultUnlockTime)
  <2>1. PICK i \in RandIdx(RecentSpendWindow) : y = Second * i
    BY <1>3 DEF AgesAfterUnlock
  <2>2. i \in Nat
    BY <1>1, RandIdxIs, WordAssumption
  <2>3. QED
    BY <1>1, <2>1, <2>2
<1>4. QED
  BY <1>2, <1>3

\* A target is one of the outputs, or there is none that old.
LEMMA TargetRange ==
  ASSUME PickerBook, phase \in {"ready", "drawing"}, NEW y \in Nat
  PROVE  TargetOf(y) \in -1 .. num_rct_outputs - 1
<1>1. PICK a \in Nat \ {0}, b \in Nat \ {0}, num \in Nat :
        a = average[1] /\ b = average[2] /\ num = num_rct_outputs
  <2>1. Constructible(rct_offsets)
    BY DEF PickerBook
  <2>2. average[1] \in Nat \ {0} /\ average[2] \in Nat \ {0}
    BY <2>1, ConstructedFacts DEF PickerBook
  <2>3. num_rct_outputs \in 1 .. Word - 1
    BY <2>1, ConstructedFacts DEF PickerBook
  <2>4. QED
    BY <2>2, <2>3, WordAssumption
<1>2. y * b \in Nat
  OBVIOUS
<1>3. PICK n \in Nat : n = (y * b) \div a
  <2>1. PICK m \in Nat : m = y * b
    BY <1>2
  <2>2. m \div a \in Nat
    OBVIOUS
  <2>3. QED
    BY <2>1, <2>2
<1>4. TargetOf(y) = IF n >= num THEN -1 ELSE num - 1 - n
  BY <1>1, <1>3 DEF TargetOf
<1>5. QED
  BY <1>1, <1>4

\* A pick is a word.
LEMMA PickIsWord ==
  ASSUME NEW s \in Offsets, NEW k,
         k = -1 \/ (Constructible(s) /\ k \in 0 .. s[Eligible(s)] - 1)
  PROVE  PicksIn(s, k) \subseteq 0 .. Word - 1
<1>1. BadPick \in 0 .. Word - 1
  BY WordAssumption DEF BadPick
<1>2. CASE k = -1
  BY <1>1, <1>2 DEF PicksIn
<1>3. CASE Constructible(s) /\ k \in 0 .. s[Eligible(s)] - 1
  <2> DEFINE b == BlockIn(s, k)
  <2>1. b \in Nat /\ b < Len(s) /\ \A i \in 1 .. Len(s) : s[i] \in Int
    BY <1>3, BlockFound, ConstructedFacts, WordAssumption
  <2>2. FirstIn(s, b) \in Int
    BY <2>1 DEF FirstIn
  <2>3. NumIn(s, b) \in Nat
    <3>1. s[b + 1] - FirstIn(s, b) \in Int
      BY <2>1, <2>2
    <3>2. NumIn(s, b) \in 0 .. Word - 1
      BY <3>1, WrapRange DEF NumIn
    <3>3. QED
      BY <3>2, WordAssumption
  <2> HIDE DEF b
  <2>4. ASSUME NEW r \in RandIdx(NumIn(s, b)) PROVE Wrap(FirstIn(s, b) + r) \in 0 .. Word - 1
    <3>1. FirstIn(s, b) + r \in Int
      BY <2>2, <2>3, RandIdxIs, WordAssumption
    <3>2. QED
      BY <3>1, WrapRange
  <2>5. QED
    BY <1>1, <2>4 DEF PicksIn, b
<1>4. QED
  BY <1>2, <1>3

LEMMA InitInv == Init => Inv
<1> SUFFICES ASSUME Init PROVE Inv
  OBVIOUS
<1>1. /\ phase = "new" /\ rct_offsets \in Offsets /\ num_rct_outputs = 0 /\ average = <<1, 1>>
      /\ range = <<0, 0>> /\ attempts = 0 /\ target = -1 /\ picked = BadPick /\ result = -1
  BY Zenon DEF Init
<1>2. num_rct_outputs \in 0 .. Word - 1 /\ target \in -1 .. num_rct_outputs - 1
  <2>1. num_rct_outputs = 0 /\ target = -1
    BY <1>1, Zenon
  <2>2. QED
    BY <2>1, WordAssumption
<1>3. average \in (Nat \ {0}) \X (Nat \ {0})
  <2>1. average = <<1, 1>>
    BY <1>1, Zenon
  <2>2. QED
    BY <2>1
<1>4. attempts \in 0 .. MaxAttempts
  <2>1. attempts = 0
    BY <1>1, Zenon
  <2>2. QED
    BY <2>1, AttemptsAssumption
<1>5. picked \in 0 .. Word - 1
  <2>1. picked = BadPick
    BY <1>1, Zenon
  <2>2. QED
    BY <2>1, WordAssumption DEF BadPick
<1>6. result \in -1 .. Word - 1
  <2>1. result = -1
    BY <1>1, Zenon
  <2>2. QED
    BY <2>1, WordAssumption
<1>7. picked \in PicksIn(rct_offsets, target)
  BY <1>1, Zenon DEF PicksIn
<1>8. TypeOK
  BY <1>1, <1>2, <1>3, <1>4, <1>5, <1>6, Zenon DEF TypeOK
<1>9. PickerBook
  <2>1. ~(phase \in {"ready", "drawing"})
    BY <1>1
  <2>2. num_rct_outputs = 0 /\ target = -1
    BY <1>1, Zenon
  <2>3. QED
    BY <1>2, <1>7, <2>1, <2>2, Zenon DEF PickerBook
<1>10. QED
  BY <1>8, <1>9 DEF Inv

\* Picks and BlockOf of the model speak of the offsets at hand.
LEMMA PicksAre ==
  \A k : Picks(k) = PicksIn(rct_offsets, k) /\ BlockOf(k) = BlockIn(rct_offsets, k)
BY DEF Picks, PicksIn, BlockOf, BlockIn, NumRct, NumIn, FirstRct, FirstIn

LEMMA PickStep == ASSUME Inv, Pick PROVE Inv'
<1>1. /\ phase = "drawing" /\ attempts < MaxAttempts
      /\ UNCHANGED <<rct_offsets, num_rct_outputs, average, range>>
  BY Zenon DEF Pick
<1>2. PICK y \in Nat : target' = TargetOf(y)
  <2>1. PICK x \in Ages : \E y \in AgesAfterUnlock(x) : target' = TargetOf(y)
    BY Zenon DEF Pick
  <2>2. PICK y \in AgesAfterUnlock(x) : target' = TargetOf(y)
    BY <2>1, Zenon
  <2>3. y \in Nat
    BY AgeIsNat
  <2>4. QED
    BY <2>2, <2>3
<1> DEFINE k == TargetOf(y)
           s == rct_offsets
<1>3. phase \in {"ready", "drawing"}
  BY <1>1
<1>4. Constructible(s) /\ num_rct_outputs = s[Eligible(s)] /\ s \in Offsets
  BY <1>3, Zenon DEF Inv, TypeOK, PickerBook
<1>5. k \in -1 .. num_rct_outputs - 1
  BY <1>3, TargetRange DEF Inv
<1> HIDE DEF k
<1>6. target' = k
  BY <1>2 DEF k
<1>7. k = -1 \/ k \in 0 .. s[Eligible(s)] - 1
  <2>1. s[Eligible(s)] \in Int
    BY <1>4, ConstructedFacts, WordAssumption
  <2>2. QED
    BY <1>4, <1>5, <2>1
<1>8. ~(k # -1 /\ BlockOf(k) = Eligible(s))
  <2>1. ASSUME k # -1 PROVE BlockOf(k) # Eligible(s)
    <3>1. BlockIn(s, k) \in 0 .. Eligible(s) - 1
      BY <1>4, <1>7, <2>1, BlockFound
    <3>2. Eligible(s) \in Nat
      BY <1>4, ConstructedFacts
    <3>3. BlockIn(s, k) # Eligible(s)
      BY <3>1, <3>2
    <3>4. QED
      BY <3>3, PicksAre
  <2>2. QED
    BY <2>1
<1>9. BlockOf(target)' = BlockOf(k)
  BY <1>1, <1>6 DEF BlockOf
<1>10. /\ picked' \in Picks(k) /\ attempts' = attempts + 1
       /\ \/ result' = picked' /\ phase' = "ready"
          \/ result' = result /\ phase' = "drawing"
  BY <1>1, <1>6, <1>8, <1>9 DEF Pick, Picks, BlockOf, NumRct, FirstRct
<1>11. picked' \in PicksIn(s, k)
  BY <1>10, PicksAre
<1>12. picked' \in 0 .. Word - 1
  BY <1>4, <1>7, <1>11, PickIsWord
<1>13. result' \in -1 .. Word - 1
  <2>1. result' = picked' \/ result' = result
    BY <1>10, Zenon
  <2>2. result \in -1 .. Word - 1
    BY Zenon DEF Inv, TypeOK
  <2>3. QED
    BY <1>12, <2>1, <2>2, WordAssumption
<1>14. attempts' \in 0 .. MaxAttempts
  <2>1. attempts' = attempts + 1 /\ attempts < MaxAttempts
    BY <1>1, <1>10, Zenon
  <2>2. attempts \in 0 .. MaxAttempts
    BY Zenon DEF Inv, TypeOK
  <2>3. QED
    BY <2>1, <2>2, AttemptsAssumption
<1>15. phase' \in {"ready", "drawing"}
  BY <1>10
<1>16. target' \in -1 .. num_rct_outputs' - 1
  BY <1>1, <1>5, <1>6, Zenon
<1>17. TypeOK'
  <2>1. phase' \in {"new", "ready", "drawing", "thrown"}
    BY <1>15
  <2>2. QED
    BY <1>1, <1>12, <1>13, <1>14, <1>16, <2>1, Zenon DEF Inv, TypeOK
<1>18. PickerBook'
  <2>1. ~(phase' \in {"new", "thrown"})
    BY <1>15
  <2>2. picked' \in PicksIn(rct_offsets', target')
    BY <1>1, <1>6, <1>11, Zenon
  <2>3. QED
    BY <1>1, <1>3, <1>16, <2>1, <2>2, Zenon DEF Inv, PickerBook
<1>19. QED
  BY <1>17, <1>18 DEF Inv

LEMMA NextInv == Inv /\ [Next]_vars => Inv'
<1> SUFFICES ASSUME Inv, [Next]_vars PROVE Inv'
  OBVIOUS
<1>1. CASE Construct
  <2>1. /\ phase = "new" /\ phase' = "ready" /\ ~CannotConstruct(rct_offsets)
        /\ num_rct_outputs' = rct_offsets[Eligible(rct_offsets)]
        /\ average' = <<Target * Second * Smaller(Len(rct_offsets), BlocksInYear),
                        OutputsToConsider(rct_offsets)>>
        /\ UNCHANGED <<rct_offsets, range, attempts, target, picked, result>>
    BY <1>1, Zenon DEF Construct
  <2>2. rct_offsets \in Offsets /\ Constructible(rct_offsets)
    BY <2>1, ConstructibleIs DEF Inv, TypeOK
  <2>3. target = -1
    BY <2>1 DEF Inv, PickerBook
  <2>4. num_rct_outputs' \in 0 .. Word - 1 /\ -1 \in -1 .. num_rct_outputs' - 1
    <3>1. PICK n \in 1 .. Word - 1 : num_rct_outputs' = n
      BY <2>1, <2>2, ConstructedFacts
    <3>2. n \in 0 .. Word - 1 /\ -1 \in -1 .. n - 1
      BY <3>1, WordAssumption
    <3>3. QED
      BY <3>1, <3>2
  <2>5. average' \in (Nat \ {0}) \X (Nat \ {0})
    <3>1. PICK a \in Nat \ {0}, b \in Nat \ {0} : average' = <<a, b>>
      BY <2>1, <2>2, ConstructedFacts
    <3>2. QED
      BY <3>1
  <2>6. TypeOK'
    <3>1. phase' \in {"new", "ready", "drawing", "thrown"}
      BY <2>1
    <3>2. target' \in -1 .. num_rct_outputs' - 1
      BY <2>1, <2>3, <2>4, Zenon
    <3>3. QED
      BY <2>1, <2>4, <2>5, <3>1, <3>2, Zenon DEF Inv, TypeOK
  <2>7. PickerBook'
    <3>1. ~(phase' \in {"new", "thrown"})
      BY <2>1
    <3>2. target' \in -1 .. num_rct_outputs' - 1
      BY <2>1, <2>3, <2>4, Zenon
    <3>3. QED
      BY <2>1, <2>2, <3>1, <3>2, Zenon DEF Inv, PickerBook
  <2>8. QED
    BY <2>6, <2>7 DEF Inv
<1>2. CASE ConstructThrows
  <2>1. /\ phase = "new" /\ phase' = "thrown"
        /\ UNCHANGED <<rct_offsets, num_rct_outputs, average, range, attempts, target, picked,
                       result>>
    BY <1>2, Zenon DEF ConstructThrows
  <2>2. phase \in {"new", "thrown"} /\ phase' \in {"new", "ready", "drawing", "thrown"}
        /\ phase' \notin {"ready", "drawing"}
    BY <2>1
  <2>3. QED
    BY <2>1, <2>2, Zenon DEF Inv, TypeOK, PickerBook
<1>3. CASE StartDraw
  <2>1. /\ phase = "ready" /\ phase' = "drawing" /\ range' \in Ranges
        /\ attempts' = 0 /\ result' = -1
        /\ UNCHANGED <<rct_offsets, num_rct_outputs, average, target, picked>>
    BY <1>3, Zenon DEF StartDraw
  <2>2. phase \in {"ready", "drawing"} /\ phase' \in {"new", "ready", "drawing", "thrown"}
        /\ phase' \notin {"new", "thrown"}
    BY <2>1
  <2>3. attempts' \in 0 .. MaxAttempts /\ result' \in -1 .. Word - 1
    <3>1. 0 \in 0 .. MaxAttempts /\ -1 \in -1 .. Word - 1
      BY AttemptsAssumption, WordAssumption
    <3>2. QED
      BY <2>1, <3>1, Zenon
  <2>4. range' \in Ranges \cup {<<0, 0>>}
    BY <2>1
  <2>5. QED
    BY <2>1, <2>2, <2>3, <2>4, Zenon DEF Inv, TypeOK, PickerBook
<1>4. CASE Pick
  BY <1>4, PickStep
<1>5. CASE DrawThrows
  <2>1. /\ phase = "drawing" /\ phase' = "ready"
        /\ UNCHANGED <<rct_offsets, num_rct_outputs, average, range, attempts, target, picked,
                       result>>
    BY <1>5, Zenon DEF DrawThrows
  <2>2. phase \in {"ready", "drawing"} /\ phase' \in {"new", "ready", "drawing", "thrown"}
        /\ phase' \notin {"new", "thrown"}
    BY <2>1
  <2>3. QED
    BY <2>1, <2>2, Zenon DEF Inv, TypeOK, PickerBook
<1>6. CASE UNCHANGED vars
  <2>1. UNCHANGED <<phase, rct_offsets, num_rct_outputs, average, range, attempts, target,
                    picked, result>>
    BY <1>6 DEF vars
  <2>2. QED
    BY <2>1, Zenon DEF Inv, TypeOK, PickerBook
<1>7. QED
  BY <1>1, <1>2, <1>3, <1>4, <1>5, <1>6 DEF Next, Stopped

LEMMA Always == Spec => []Inv
BY InitInv, NextInv, PTL DEF Spec

\* For any offsets, ages and sizes: the average time is never divided by 0, a target is
\* one of the outputs, and a pick is a word.
THEOREM TypeCorrect == Spec => []TypeOK
<1>1. Inv => TypeOK
  BY DEF Inv
<1>2. QED
  BY <1>1, Always, PTL

LEMMA FoundFollows == Inv => AlwaysFound
<1> SUFFICES ASSUME Inv, phase # "new", target # -1
             PROVE  BlockOf(target) < Eligible(rct_offsets)
  BY DEF AlwaysFound
<1>1. phase \in {"ready", "drawing"}
  BY DEF Inv, TypeOK, PickerBook
<1>2. /\ Constructible(rct_offsets) /\ num_rct_outputs = rct_offsets[Eligible(rct_offsets)]
      /\ target \in -1 .. num_rct_outputs - 1
  BY <1>1, Zenon DEF Inv, PickerBook
<1>3. Eligible(rct_offsets) \in Nat /\ rct_offsets[Eligible(rct_offsets)] \in Int
  BY <1>2, ConstructedFacts, WordAssumption
<1>4. target \in 0 .. rct_offsets[Eligible(rct_offsets)] - 1
  BY <1>2, <1>3
<1>5. BlockIn(rct_offsets, target) \in 0 .. Eligible(rct_offsets) - 1
  BY <1>2, <1>4, BlockFound
<1>6. QED
  BY <1>3, <1>5, PicksAre

\* gamma_picker.cpp:82-83, for any vector, also one that is not in order: lower_bound
\* stops before the end, so the exception "output_index not found" is never thrown.
THEOREM LowerBoundIsInside == Spec => []AlwaysFound
BY FoundFollows, Always, PTL

\* What the three theorems below have in common: a pick for a target lies where PickLies
\* says it does.
LEMMA PickedLies ==
  ASSUME Inv, Sorted(rct_offsets)
  PROVE  /\ target = -1 => picked = BadPick
         /\ target # -1 => Lies(rct_offsets, target, picked)
<1>1. target = -1 => picked = BadPick
  BY DEF Inv, PickerBook, PicksIn
<1>2. ASSUME target # -1 PROVE Lies(rct_offsets, target, picked)
  <2>1. phase \in {"ready", "drawing"}
    BY <1>2 DEF Inv, TypeOK, PickerBook
  <2>2. /\ Constructible(rct_offsets) /\ num_rct_outputs = rct_offsets[Eligible(rct_offsets)]
        /\ target \in -1 .. num_rct_outputs - 1 /\ picked \in PicksIn(rct_offsets, target)
    BY <2>1, Zenon DEF Inv, PickerBook
  <2>3. rct_offsets[Eligible(rct_offsets)] \in Int
    BY <2>2, ConstructedFacts, WordAssumption
  <2>4. target \in 0 .. rct_offsets[Eligible(rct_offsets)] - 1
    BY <1>2, <2>2, <2>3
  <2>5. QED
    BY <2>2, <2>4, PickLies
<1>3. QED
  BY <1>1, <1>2

\* gamma_picker.cpp:35, for any sorted vector: every pick is among the outputs of the
\* blocks that are old enough to be spent.
THEOREM PicksAreOldEnough == Spec => []PicksAreSpendable
<1>1. Inv => PicksAreSpendable
  <2> SUFFICES ASSUME Inv, Sorted(rct_offsets), picked # BadPick
               PROVE  picked < rct_offsets[Len(rct_offsets) - (SpendableAge - 1)]
    BY DEF PicksAreSpendable
  <2>1. Lies(rct_offsets, target, picked) /\ target # -1
    BY PickedLies
  <2>2. Constructible(rct_offsets)
    BY <2>1 DEF Inv, TypeOK, PickerBook
  <2>3. Eligible(rct_offsets) = Len(rct_offsets) - (SpendableAge - 1)
    BY <2>2, ConstructedFacts, BlocksAssumption DEF Eligible
  <2>4. QED
    BY <2>1, <2>3 DEF Lies
<1>2. QED
  BY <1>1, Always, PTL

\* gamma_picker.cpp:82-89, for any sorted vector: the pick is in the block of the output
\* before the target.
THEOREM PicksFollowTheTarget == Spec => []PicksNearTarget
<1>1. Inv => PicksNearTarget
  <2> SUFFICES ASSUME Inv, Sorted(rct_offsets), target # -1, picked # BadPick
               PROVE  IF target = 0 THEN picked < rct_offsets[1]
                      ELSE \A b \in DOMAIN rct_offsets :
                             rct_offsets[b] <= target - 1 <=> rct_offsets[b] <= picked
    BY DEF PicksNearTarget
  <2>1. QED
    BY PickedLies DEF Lies
<1>2. QED
  BY <1>1, Always, PTL

\* gamma_picker.cpp:77 and 86-87, for any sorted vector: a pick is bad only when the age
\* goes beyond the first output, or for output 0 when block 0 is empty.
THEOREM EmptyBlocksCostNothing == Spec => []BadPicksAreRare
<1>1. Inv => BadPicksAreRare
  BY PickedLies DEF BadPicksAreRare, Lies
<1>2. QED
  BY <1>1, Always, PTL

----------------------------------------------------------------------------
(* What a draw gives its caller, and what the comment on pick() is worth.  *)

\* main.cpp:586 takes any exception for a range without outputs.
ResultBook ==
  /\ phase = "drawing" => result = -1
  /\ result # -1 => result = picked /\ Kept(picked)

TurnsLeft == IF phase = "drawing" THEN (MaxAttempts + 1) - attempts ELSE 0

\* Each turn brings a draw nearer to its end.
TurnsFall == phase = "drawing" => TurnsLeft' < TurnsLeft

\* A draw without a result has used up its attempts.
GivenUpWhenExhausted ==
  phase = "drawing" /\ phase' # "drawing" /\ result' = -1 => attempts = MaxAttempts

\* The target is the number of outputs up to some block: the first output after it.
StartsBlock(k) == \E b \in DOMAIN rct_offsets : rct_offsets[b] = k

\* gamma_picker.cpp:55-56: the block of the pick is that of the target exactly if the
\* target is not the first of its block.
BlockMissedAtItsStart ==
  Sorted(rct_offsets) /\ target # -1 /\ picked # BadPick =>
    ((\A b \in DOMAIN rct_offsets : rct_offsets[b] <= target <=> rct_offsets[b] <= picked)
       <=> ~StartsBlock(target))

\* A turn of the loop is a pick that counts: it is kept and ends the draw, or the draw
\* goes on.  The other exit, "output_index not found", is never taken.
LEMMA TurnCounts ==
  ASSUME Inv, Pick
  PROVE  /\ phase = "drawing" /\ attempts < MaxAttempts /\ attempts' = attempts + 1
         /\ UNCHANGED <<rct_offsets, range>>
         /\ \/ phase' = "ready" /\ result' = picked' /\ Kept(picked')
            \/ phase' = "drawing" /\ result' = result
<1>1. /\ phase = "drawing" /\ attempts < MaxAttempts
      /\ UNCHANGED <<rct_offsets, num_rct_outputs, average, range>>
  BY Zenon DEF Pick
<1>2. ~(target' # -1 /\ BlockOf(target') = Eligible(rct_offsets))
  <2>1. Inv'
    BY PickStep
  <2>2. AlwaysFound'
    BY <2>1, FoundFollows, PTL
  <2>3. phase' \in {"ready", "drawing"}
    BY DEF Pick
  <2>4. BlockOf(target)' = BlockOf(target') /\ Eligible(rct_offsets)' = Eligible(rct_offsets)
    BY <1>1 DEF BlockOf
  <2>5. SUFFICES ASSUME target' # -1 PROVE BlockOf(target') # Eligible(rct_offsets)
    OBVIOUS
  <2>6. BlockOf(target') < Eligible(rct_offsets)
    BY <2>2, <2>3, <2>4, <2>5 DEF AlwaysFound
  <2>7. PICK e \in Nat : e = Eligible(rct_offsets)
    <3>1. phase \in {"ready", "drawing"}
      BY <1>1
    <3>2. Constructible(rct_offsets)
      BY <3>1, Zenon DEF Inv, PickerBook
    <3>3. QED
      BY <3>2, ConstructedFacts
  <2>8. QED
    BY <2>6, <2>7
<1>3. /\ attempts' = attempts + 1
      /\ \/ phase' = "ready" /\ result' = picked' /\ Kept(picked')
         \/ phase' = "drawing" /\ result' = result
  BY <1>2 DEF Pick
<1>4. QED
  BY <1>1, <1>3

LEMMA NextResultBook == Inv /\ ResultBook /\ [Next]_vars => ResultBook'
<1> SUFFICES ASSUME Inv, ResultBook, [Next]_vars PROVE ResultBook'
  OBVIOUS
<1>1. CASE Pick
  <2>1. phase = "drawing" /\ range' = range
        /\ \/ phase' = "ready" /\ result' = picked' /\ Kept(picked')
           \/ phase' = "drawing" /\ result' = result
    BY <1>1, TurnCounts
  <2>2. result = -1
    BY <2>1 DEF ResultBook
  <2>3. QED
    BY <2>1, <2>2 DEF ResultBook, Kept
<1>2. CASE StartDraw
  BY <1>2 DEF StartDraw, ResultBook
<1>3. CASE UNCHANGED <<range, picked, result>> /\ (phase' = "drawing" => phase = "drawing")
  BY <1>3 DEF ResultBook, Kept
<1>4. QED
  BY <1>1, <1>2, <1>3 DEF Next, Construct, ConstructThrows, DrawThrows, Stopped, vars

LEMMA AlwaysResultBook == Spec => []ResultBook
<1>1. Init => ResultBook
  BY DEF Init, ResultBook
<1>2. QED
  BY <1>1, Always, NextResultBook, PTL DEF Spec

\* main.cpp:373-379, for any offsets, ages and ranges: a draw gives an output inside its
\* range; and if the offsets are in order, one that is old enough to be spent, so the pool
\* never gets an index of a block that is too young, whatever the end of the range is.
THEOREM DrawsAreUsable == Spec => []ResultsAreDrawable
<1>1. Inv /\ ResultBook => ResultsAreDrawable
  <2> SUFFICES ASSUME Inv, ResultBook, result # -1
               PROVE  /\ result # BadPick /\ range[1] <= result /\ result < range[2]
                      /\ Sorted(rct_offsets) => result \in 0 .. num_rct_outputs - 1
    BY DEF ResultsAreDrawable
  <2>1. result = picked /\ picked # BadPick /\ picked >= range[1] /\ picked < range[2]
    BY DEF ResultBook, Kept
  <2>2. range[1] <= result
    <3>1. range \in Ranges \cup {<<0, 0>>} /\ picked \in 0 .. Word - 1
      BY Zenon DEF Inv, TypeOK
    <3>2. range[1] \in Int /\ picked \in Int
      BY <3>1, RangesAssumption, WordAssumption
    <3>3. QED
      BY <2>1, <3>2
  <2>3. ASSUME Sorted(rct_offsets) PROVE result \in 0 .. num_rct_outputs - 1
    <3>1. target # -1 /\ Lies(rct_offsets, target, picked)
      BY <2>1, <2>3, PickedLies
    <3>2. picked < rct_offsets[Eligible(rct_offsets)]
      BY <2>1, <3>1 DEF Lies
    <3>3. phase \in {"ready", "drawing"}
      BY <3>1 DEF Inv, TypeOK, PickerBook
    <3>4. num_rct_outputs = rct_offsets[Eligible(rct_offsets)]
      BY <3>3, Zenon DEF Inv, PickerBook
    <3>5. picked \in 0 .. Word - 1 /\ num_rct_outputs \in 0 .. Word - 1
      BY Zenon DEF Inv, TypeOK
    <3>6. QED
      BY <2>1, <3>2, <3>4, <3>5, WordAssumption
  <2>4. QED
    BY <2>1, <2>2, <2>3
<1>2. QED
  BY <1>1, Always, AlwaysResultBook, PTL

\* main.cpp:374-381 and 584-586, without any fairness: each turn of a draw brings it nearer
\* to its end, so it has at most MaxAttempts + 1 of them; and the exception that main()
\* takes for a range without outputs is only thrown when all attempts have missed.
THEOREM DrawsEndInTime ==
  Spec => /\ [](TurnsLeft \in 0 .. MaxAttempts + 1)
          /\ [][TurnsFall]_vars
          /\ [][GivenUpWhenExhausted]_vars
<1>1. Inv => TurnsLeft \in 0 .. MaxAttempts + 1
  <2>1. Inv => attempts \in 0 .. MaxAttempts
    BY Zenon DEF Inv, TypeOK
  <2>2. QED
    BY <2>1, AttemptsAssumption DEF TurnsLeft
<1>2. Inv /\ ResultBook /\ [Next]_vars => [TurnsFall /\ GivenUpWhenExhausted]_vars
  <2> SUFFICES ASSUME Inv, ResultBook, Next, phase = "drawing"
               PROVE  TurnsFall /\ GivenUpWhenExhausted
    BY DEF TurnsFall, GivenUpWhenExhausted
  <2>0. attempts \in 0 .. MaxAttempts
    BY Zenon DEF Inv, TypeOK
  <2>1. CASE Pick
    <3>1. /\ attempts' = attempts + 1 /\ attempts < MaxAttempts
          /\ \/ phase' = "ready" /\ result' = picked' /\ Kept(picked')
             \/ phase' = "drawing" /\ result' = result
      BY <2>1, TurnCounts
    <3>2. TurnsLeft' < TurnsLeft
      <4>1. PICK m \in Nat, a \in Nat : m = MaxAttempts /\ a = attempts /\ a <= m
        BY <2>0, AttemptsAssumption
      <4>2. TurnsLeft = (m + 1) - a
        BY <4>1 DEF TurnsLeft
      <4>3. TurnsLeft' = IF phase' = "drawing" THEN (m + 1) - (a + 1) ELSE 0
        BY <3>1, <4>1 DEF TurnsLeft
      <4>4. QED
        BY <4>1, <4>2, <4>3
    <3>3. phase' # "drawing" => result' # -1
      <4>1. Inv'
        BY <2>1, PickStep
      <4>2. picked' \in 0 .. Word - 1
        BY <4>1, Zenon DEF Inv, TypeOK
      <4>3. picked' # -1
        BY <4>2, WordAssumption
      <4>4. QED
        BY <3>1, <4>3
    <3>4. QED
      BY <3>2, <3>3 DEF TurnsFall, GivenUpWhenExhausted
  <2>2. CASE DrawThrows
    <3>1. phase' = "ready" /\ attempts >= MaxAttempts
      BY <2>2 DEF DrawThrows
    <3>2. attempts = MaxAttempts
      BY <2>0, <3>1, AttemptsAssumption
    <3>3. TurnsLeft = (MaxAttempts + 1) - attempts /\ TurnsLeft' = 0
      BY <3>1 DEF TurnsLeft
    <3>4. TurnsLeft' < TurnsLeft
      BY <2>0, <3>2, <3>3, AttemptsAssumption
    <3>5. QED
      BY <3>2, <3>4 DEF TurnsFall, GivenUpWhenExhausted
  <2>3. QED
    BY <2>1, <2>2 DEF Next, Construct, ConstructThrows, StartDraw, Stopped
<1>3. QED
  BY <1>1, <1>2, Always, AlwaysResultBook, PTL DEF Spec

\* gamma_picker.cpp:55-56 and 82-89, for any sorted vector: the run that refutes
\* PicksBlockOfTarget is no accident of its vector.  A pick misses the block of its target
\* if the target is the first output of its block, and never else.
THEOREM BlockIsMissedAtItsStart == Spec => []BlockMissedAtItsStart
<1>1. Inv => BlockMissedAtItsStart
  <2> SUFFICES ASSUME Inv, Sorted(rct_offsets), target # -1, picked # BadPick
               PROVE  (\A b \in DOMAIN rct_offsets :
                         rct_offsets[b] <= target <=> rct_offsets[b] <= picked)
                        <=> ~StartsBlock(target)
    BY DEF BlockMissedAtItsStart
  <2>1. /\ target = 0 => picked < rct_offsets[1]
        /\ target # 0 => \A b \in DOMAIN rct_offsets :
                           rct_offsets[b] <= target - 1 <=> rct_offsets[b] <= picked
    BY PickedLies DEF Lies
  <2>2. phase \in {"ready", "drawing"}
    BY DEF Inv, TypeOK, PickerBook
  <2>3. Constructible(rct_offsets) /\ target \in -1 .. num_rct_outputs - 1
    BY <2>2, Zenon DEF Inv, PickerBook
  <2>4. /\ picked \in 0 .. Word - 1 /\ num_rct_outputs \in 0 .. Word - 1
    BY Zenon DEF Inv, TypeOK
  <2>5. PICK k \in Nat, p \in Nat : k = target /\ p = picked
    BY <2>3, <2>4, WordAssumption
  <2>6. PICK s : s = rct_offsets
    OBVIOUS
  <2>7. 1 \in DOMAIN s /\ \A b \in DOMAIN s : s[b] \in Nat
    BY <2>3, <2>6, ConstructedFacts, WordAssumption
  <2>8. \A b \in DOMAIN s : s[1] <= s[b]
    BY <2>3, <2>6, <2>7, ConstructedFacts DEF Sorted
  <2>9. ASSUME NEW b \in DOMAIN s
        PROVE  (s[b] <= k <=> s[b] <= p) <=> s[b] # k
    <3>1. PICK m \in Nat, f \in Nat : m = s[b] /\ f = s[1] /\ f <= m
      BY <2>7, <2>8
    <3>2. CASE k = 0
      <4>1. p < f
        BY <2>1, <2>5, <2>6, <3>1, <3>2
      <4>2. QED
        BY <3>1, <3>2, <4>1
    <3>3. CASE k # 0
      <4>1. m <= k - 1 <=> m <= p
        BY <2>1, <2>5, <2>6, <3>1, <3>3
      <4>2. (m <= k <=> m <= p) <=> m # k
        BY <4>1
      <4>3. QED
        BY <3>1, <4>2
    <3>4. QED
      BY <3>2, <3>3
  <2>10. (\A b \in DOMAIN s : s[b] <= k <=> s[b] <= p) <=> ~(\E b \in DOMAIN s : s[b] = k)
    BY <2>9
  <2>11. QED
    BY <2>5, <2>6, <2>10 DEF StartsBlock
<1>2. QED
  BY <1>1, Always, PTL

=============================================================================
