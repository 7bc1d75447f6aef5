------------------------- MODULE Segregation_proofs -------------------------
(***************************************************************************)
(* Proofs about Segregation, for any command line, any chain that lives on *)
(* while the tool runs, any word that is large enough and any answer of    *)
(* the daemon, right or wrong.  The command line comes first, then the     *)
(* answers about the window, then the invariant step by step, and last     *)
(* what it says about the split.                                           *)
(***************************************************************************)
EXTENDS Segregation, DaemonChain_proofs, FiniteSetTheorems

----------------------------------------------------------------------------
(* The command line.                                                       *)

\* The positional arguments among the first i, once kept[i - 1] has those before.
Kept(a, kept, i) ==
  IF i = 0 THEN <<>>
  ELSE IF a[i].is \in Options THEN kept[i - 1]
  ELSE Append(kept[i - 1], a[i])

\* The recursion of Positional defines a function: the shortest part of a command line
\* for which there is none would be one longer than a part that has one.
LEMMA KeptExists ==
  ASSUME NEW a \in Seq(Argument)
  PROVE  \E f : f = [i \in 0 .. Len(a) |-> Kept(a, f, i)]
<1> DEFINE Has(n) == \E f : f = [i \in 0 .. n |-> Kept(a, f, i)]
           S == {n \in Nat : ~Has(n)}
<1>1. SUFFICES ASSUME S # {} PROVE FALSE
  OBVIOUS
<1>2. PICK n \in S : \A m \in S : n <= m
  <2> HIDE DEF S
  <2>1. S \in SUBSET Nat
    BY DEF S
  <2>2. QED
    BY <1>1, <2>1, SmallestIn
<1>3. CASE n = 0
  <2>1. [i \in 0 .. 0 |-> <<>>] = [i \in 0 .. 0 |-> Kept(a, [k \in 0 .. 0 |-> <<>>], i)]
    BY DEF Kept
  <2>2. QED
    BY <1>3, <2>1
<1>4. CASE n # 0
  <2>1. n - 1 \in Nat /\ ~(n <= n - 1)
    BY <1>4
  <2>2. n - 1 \notin S
    BY <1>2, <2>1
  <2>3. PICK f : f = [i \in 0 .. n - 1 |-> Kept(a, f, i)]
    BY <2>1, <2>2
  <2> DEFINE g == [i \in 0 .. n |-> IF i = n THEN Kept(a, f, n) ELSE f[i]]
  <2>4. ASSUME NEW i \in 0 .. n PROVE g[i] = Kept(a, g, i)
    <3>1. CASE i = 0
      BY <1>4, <2>1, <2>3, <3>1 DEF Kept
    <3>2. CASE i # 0
      <4>1. i - 1 \in 0 .. n - 1 /\ g[i - 1] = f[i - 1]
        BY <3>2
      <4>2. Kept(a, g, i) = Kept(a, f, i)
        BY <4>1 DEF Kept
      <4>3. g[i] = Kept(a, f, i)
        BY <2>1, <2>3
      <4>4. QED
        BY <4>2, <4>3
    <3>3. QED
      BY <3>1, <3>2
  <2>5. g = [i \in 0 .. n |-> Kept(a, g, i)]
    BY <2>4
  <2>6. Has(n)
    <3> HIDE DEF g
    <3>1. QED
      BY <2>5
  <2>7. QED
    BY <2>6
<1>5. QED
  BY <1>3, <1>4

\* What is no option is kept, and nothing else.
LEMMA PositionalIs ==
  ASSUME NEW a \in Seq(Argument)
  PROVE  /\ Positional(a) \in Seq(Argument)
         /\ ToSet(Positional(a)) = {a[k] : k \in {j \in 1 .. Len(a) : a[j].is \notin Options}}
         /\ Len(Positional(a)) = Cardinality({j \in 1 .. Len(a) : a[j].is \notin Options})
<1>1. PICK f : Positional(a) = f[Len(a)] /\ f = [i \in 0 .. Len(a) |-> Kept(a, f, i)]
  <2> DEFINE g == CHOOSE f : f = [i \in 0 .. Len(a) |-> Kept(a, f, i)]
  <2>1. g = [i \in 0 .. Len(a) |-> Kept(a, g, i)]
    BY KeptExists
  <2>2. Positional(a) = g[Len(a)]
    BY DEF Positional, Kept
  <2> HIDE DEF g
  <2>3. QED
    BY <2>1, <2>2
<1> DEFINE Where(i) == {j \in 1 .. i : a[j].is \notin Options}
           Plain(i) == {a[k] : k \in Where(i)}
           Right(i) == /\ f[i] \in Seq(Argument) /\ ToSet(f[i]) = Plain(i)
                       /\ IsFiniteSet(Where(i)) /\ Len(f[i]) = Cardinality(Where(i))
           S == {i \in 0 .. Len(a) : ~Right(i)}
<1>2. S = {}
  <2>1. SUFFICES ASSUME S # {} PROVE FALSE
    OBVIOUS
  <2>2. S \in SUBSET Nat
    OBVIOUS
  <2>3. PICK i \in S : \A m \in S : i <= m
    <3> HIDE DEF S
    <3>1. QED
      BY <2>1, <2>2, SmallestIn
  <2>4. i \in 0 .. Len(a) /\ f[i] = Kept(a, f, i)
    BY <1>1, <2>3
  <2>5. CASE i = 0
    <3>1. f[i] = <<>> /\ Where(i) = {} /\ Plain(i) = {}
      BY <2>4, <2>5 DEF Kept
    <3>2. ToSet(<<>>) = {} /\ <<>> \in Seq(Argument) /\ Len(<<>>) = 0
      BY DEF ToSet
    <3>3. IsFiniteSet(Where(i)) /\ Cardinality(Where(i)) = 0
      BY <3>1, FS_EmptySet
    <3>4. QED
      BY <2>3, <3>1, <3>2, <3>3
  <2>6. CASE i # 0
    <3>1. i - 1 \in 0 .. Len(a) /\ ~(i <= i - 1) /\ i \in 1 .. Len(a)
      BY <2>4, <2>6
    <3>2. i - 1 \notin S
      BY <2>3, <3>1
    <3>3. Right(i - 1)
      BY <3>1, <3>2
    <3>4. a[i] \in Argument
      BY <3>1
    <3>5. \A j \in 1 .. i : j \in 1 .. i - 1 \/ j = i
      BY <3>1
    <3>6. CASE a[i].is \in Options
      <4>1. f[i] = f[i - 1]
        BY <2>4, <2>6, <3>6 DEF Kept
      <4>2. Where(i) = Where(i - 1)
        BY <3>1, <3>5, <3>6
      <4> HIDE DEF Where
      <4>3. Right(i)
        BY <3>3, <4>1, <4>2
      <4>4. QED
        BY <2>3, <4>3
    <3>7. CASE a[i].is \notin Options
      <4>1. f[i] = Append(f[i - 1], a[i])
        BY <2>4, <2>6, <3>7 DEF Kept
      <4>0. Where(i) = Where(i - 1) \cup {i} /\ i \notin Where(i - 1)
        BY <3>1, <3>5, <3>7
      <4>2. Plain(i) = Plain(i - 1) \cup {a[i]}
        <5> HIDE DEF Where
        <5>1. QED
          BY <4>0
      <4>3. ToSet(f[i]) = ToSet(f[i - 1]) \cup {a[i]}
        BY <3>3, <3>4, <4>1, AddedToSet
      <4>4. f[i] \in Seq(Argument)
        BY <3>3, <3>4, <4>1
      <4>5. IsFiniteSet(Where(i)) /\ Cardinality(Where(i)) = Cardinality(Where(i - 1)) + 1
        <5>1. PICK X, Y : X = Where(i - 1) /\ Y = Where(i)
          OBVIOUS
        <5>2. IsFiniteSet(X)
          BY <3>3, <5>1
        <5>3. Y = X \cup {i} /\ i \notin X
          BY <4>0, <5>1
        <5>4. IsFiniteSet(Y) /\ Cardinality(Y) = Cardinality(X) + 1
          BY <5>2, <5>3, FS_AddElement
        <5>5. QED
          BY <5>1, <5>4
      <4>6. Len(f[i]) = Len(f[i - 1]) + 1
        <5>1. PICK g, h, x : g = f[i - 1] /\ h = f[i] /\ x = a[i]
          OBVIOUS
        <5>2. g \in Seq(Argument) /\ x \in Argument /\ h = Append(g, x)
          BY <3>3, <3>4, <4>1, <5>1
        <5>3. Len(h) = Len(g) + 1
          BY <5>2
        <5>4. QED
          BY <5>1, <5>3
      <4>7. Right(i)
        BY <3>3, <4>2, <4>3, <4>4, <4>5, <4>6
      <4>8. QED
        BY <2>3, <4>7
    <3>8. QED
      BY <3>6, <3>7
  <2>7. QED
    BY <2>5, <2>6
<1>3. Len(a) \in 0 .. Len(a)
  OBVIOUS
<1>4. Right(Len(a))
  BY <1>2, <1>3
<1>5. QED
  BY <1>1, <1>4

----------------------------------------------------------------------------
(* The operators.                                                          *)

LEMMA WrapRange == ASSUME NEW x \in Int PROVE Wrap(x) \in 0 .. Word - 1
BY WordAssumption DEF Wrap

\* A difference that is negative comes out just below the word.
LEMMA WrapNegative ==
  ASSUME NEW x \in Int, x < 0, x + Word >= 0
  PROVE  Wrap(x) = x + Word
BY WordAssumption DEF Wrap

LEMMA MaxIsIn ==
  ASSUME NEW n \in Nat, NEW S \in SUBSET (1 .. n), S # {}
  PROVE  Max(S) \in S /\ \A j \in S : j <= Max(S)
<1> DEFINE T == {n - i : i \in S}
<1>0. \A i \in S : i \in Nat /\ i <= n
  OBVIOUS
<1>1. T \in SUBSET Nat /\ T # {}
  <2>1. \A i \in S : n - i \in Nat
    BY <1>0
  <2>2. QED
    BY <2>1
<1>2. PICK x \in T : \A y \in T : x <= y
  <2> HIDE DEF T
  <2>1. QED
    BY <1>1, SmallestIn
<1>3. \A y \in T : ~(y < x)
  <2> HIDE DEF T
  <2>1. \A y \in T : y \in Nat /\ x \in Nat /\ x <= y
    BY <1>1, <1>2
  <2>2. QED
    BY <2>1
<1>4. PICK i \in S : x = n - i
  OBVIOUS
<1>5. ASSUME NEW j \in S PROVE i >= j
  <2>1. ~(n - j < n - i)
    BY <1>3, <1>4
  <2>2. i \in Nat /\ j \in Nat
    BY <1>0
  <2>3. QED
    BY <2>1, <2>2
<1>6. QED
  BY <1>0, <1>5 DEF Max

LEMMA WrapBelow == ASSUME NEW x \in Nat PROVE Wrap(x) \in 0 .. x
BY WordAssumption DEF Wrap

LEMMA WrapSame == ASSUME NEW x \in Nat, x < Word PROVE Wrap(x) = x
BY WordAssumption DEF Wrap

\* What is left of the command line is a height.
LEMMA ForkRange ==
  ASSUME NEW a \in CommandLines, Accepted(a)
  PROVE  ForkOf(a) \in 0 .. Word - 1
<1>1. CASE Heights(a) = {}
  BY <1>1, SentinelAssumption DEF ForkOf
<1>2. CASE Heights(a) # {}
  <2> DEFINE k == Max(Heights(a))
  <2>1. Len(a) \in Nat /\ Heights(a) \in SUBSET (1 .. Len(a))
    BY ArgumentsAssumption DEF Heights, Given
  <2>2. k \in Heights(a)
    BY <1>2, <2>1, MaxIsIn
  <2> HIDE DEF k
  <2>3. a[k].number[1] \in 1 - Word .. Word - 1
    BY <2>2 DEF Accepted, HeightUnreadable, Readable
  <2>4. Stoull(a[k]) \in 0 .. Word - 1
    BY <2>3, WordAssumption, WrapRange DEF Stoull
  <2>5. ForkOf(a) = IF Stoull(a[k]) > 0 THEN Stoull(a[k]) ELSE Sentinel
    BY <1>2 DEF ForkOf, k
  <2>6. QED
    BY <2>4, <2>5, SentinelAssumption
<1>3. QED
  BY <1>1, <1>2

\* An accepted command line has one real index or more, and each is a number.
LEMMA RealIsNat ==
  ASSUME NEW a \in CommandLines, Accepted(a)
  PROVE  /\ Len(RealIndices(a)) \in Nat /\ Len(RealIndices(a)) + 1 = Len(Positional(a))
         /\ \A k \in 1 .. Len(RealIndices(a)) : RealIndices(a)[k] \in Nat
<1> DEFINE p == Positional(a)
           n == Len(p) - 1
           f == [i \in 1 .. n |-> Stoull(p[i + 1])]
<1>1. p \in Seq(Argument)
  BY ArgumentsAssumption, PositionalIs
<1> HIDE DEF p
<1>2. Len(p) >= 2 /\ Len(p) \in Nat
  BY <1>1 DEF Accepted, WrongUsage, p
<1>3. RealIndices(a) = f
  BY DEF RealIndices, p
<1>4. n \in Nat /\ Len(p) = n + 1 /\ f \in [1 .. n -> {Stoull(p[i + 1]) : i \in 1 .. n}]
  BY <1>2
<1>5. Len(f) = n
  <2> HIDE DEF n, f
  <2>1. QED
    BY <1>4
<1>6. ASSUME NEW k \in 1 .. n PROVE f[k] \in Nat
  <2>1. p[k + 1] \in ToSet(Tail(p))
    <3> DEFINE t == Tail(p)
    <3>1. t \in Seq(Argument) /\ Len(t) = Len(p) - 1 /\ t[k] = p[k + 1]
      BY <1>1, <1>2
    <3>2. k \in DOMAIN t
      BY <3>1
    <3> HIDE DEF t
    <3>3. t[k] \in ToSet(t)
      BY <3>2 DEF ToSet
    <3>4. QED
      BY <3>1, <3>3 DEF t
  <2>2. p[k + 1].number[1] \in 1 - Word .. Word - 1
    BY <2>1 DEF Accepted, IndexUnreadable, Readable, p
  <2>3. PICK x \in Int : x = p[k + 1].number[1]
    BY <2>2, WordAssumption
  <2>4. Stoull(p[k + 1]) \in 0 .. Word - 1
    BY <2>3, WrapRange DEF Stoull
  <2>5. QED
    BY <2>4, WordAssumption
<1> HIDE DEF n, f
<1>7. QED
  BY <1>3, <1>4, <1>5, <1>6 DEF p

----------------------------------------------------------------------------
(* The invariant.  What was settled on the way to the sources stays true    *)
(* while the chain grows, and of what is not replaced.                      *)

ArgsBook == pc \in {"height", "offsets", "window", "sources"} => Accepted(args)

TypeInv == TypeOK /\ ChainBook /\ ArgsBook

HeightBook == reorgs = 0 => chain_height <= Len(chain)

OutsBook ==
  pc \in {"window", "sources", "done"} /\ reorgs = 0 =>
    /\ LastEligible \in 0 .. Len(chain) - 1
    /\ num_outs = chain[LastEligible + 1]

TillBook ==
  /\ pc \in {"args", "height", "offsets", "window"} => ~pre
  /\ honest /\ WindowTaken /\ fork < stable =>
       /\ fork < Len(chain) /\ fork >= RecentBlocks /\ till_fork = chain[fork + 1]
       /\ recent = Wrap(till_fork - chain[fork - RecentBlocks + 1])
       /\ pre => real < till_fork

WhyBook == why # "" => pc = "thrown"

\* What was read from the command line, and how many of the sources are behind.
LineBook ==
  /\ pc = "height" \/ chain_height # 0 => Accepted(args) /\ fork = ForkOf(args)
  /\ chain_height # 0 => RpcUrl(args) = "url"
  /\ pc \in {"args", "height", "offsets", "window"} => src = 0
  /\ pc = "sources" => src <= Len(RealIndices(args))
  /\ pc = "done" => Accepted(args) /\ src = Len(RealIndices(args))

\* The guard of main.cpp:272 ("bad start height") never fires: the subtraction of
\* main.cpp:270 wraps first, and the answer is refused as too small.
LastGuardIsIdle == why # "bad start height"

Inv ==
  /\ TypeInv /\ HeightBook /\ OutsBook /\ TillBook /\ WhyBook
  /\ LineBook /\ ReadsStayInside /\ LastGuardIsIdle /\ RefusedOnlyNearTheEnds

----------------------------------------------------------------------------
(* The answers about the window.                                           *)

LEMMA HonestAnswer ==
  ASSUME TypeInv, WindowExists, honest, NEW w \in Answers
  PROVE  /\ w.start = StartHeight(WindowFrom) /\ w.start \in Nat /\ w.values \in Seq(Nat)
         /\ Cumulative(w.values) /\ fork + 2 <= Len(chain)
         /\ Len(w.values) = Larger((fork + 2) - w.start, 0)
         /\ \A i \in 1 .. Len(w.values) : w.values[i] = chain[w.start + i]
<1>1. /\ chain \in Seq(Nat) /\ Len(chain) \in Nat /\ Cumulative(chain) /\ fork \in Nat
      /\ RecentBlocks \in Nat
  BY RecentAssumption DEF TypeInv, TypeOK, ChainBook
<1>2. w.start = StartHeight(WindowFrom) /\ w.values = Distribution(WindowFrom, WindowTo)
  BY DEF Answers
<1>3. WindowTo + 1 = fork + 2 /\ fork + 2 \in Nat /\ fork + 2 <= Len(chain)
  BY <1>1 DEF WindowExists, HasBlock, WindowTo
<1>4. w.start \in Nat
  BY <1>1, <1>2, RctStartAssumption DEF StartHeight, WindowFrom, Larger
<1> DEFINE m == w.start + 1
           n == fork + 2
<1>5. w.values = SubSeq(chain, m, n)
  BY <1>2, <1>3 DEF Distribution
<1>6. m \in Nat \ {0} /\ n \in Nat /\ n <= Len(chain)
  BY <1>3, <1>4
<1> HIDE DEF m, n
<1>7. /\ w.values \in Seq(Nat) /\ Len(w.values) = Larger(n + 1 - m, 0)
      /\ \A i \in 1 .. Len(w.values) : w.values[i] = chain[m + i - 1]
  <2> DEFINE d == SubSeq(chain, m, n)
  <2>1. /\ d \in Seq(Nat) /\ Len(d) = Larger(n + 1 - m, 0)
        /\ \A i \in 1 .. Len(d) : m + i - 1 <= n /\ d[i] = chain[m + i - 1]
    BY <1>1, <1>6, PartOf
  <2> HIDE DEF d
  <2>2. w.values = d
    BY <1>5 DEF d
  <2>3. QED
    BY <2>1, <2>2
<1>8. Cumulative(w.values)
  BY <1>1, <1>5, <1>6, PartIsCumulative
<1>9. n + 1 - m = (fork + 2) - w.start
  BY <1>1, <1>4 DEF m, n
<1>10. ASSUME NEW i \in 1 .. Len(w.values) PROVE w.values[i] = chain[w.start + i]
  <2>1. i \in Int /\ m + i - 1 = w.start + i
    BY <1>4, <1>7 DEF m
  <2>2. QED
    BY <1>7, <2>1
<1>11. QED
  BY <1>2, <1>3, <1>4, <1>7, <1>8, <1>9, <1>10

\* The vector of any answer is short enough for a position that wraps to be past its
\* end; nothing else is known of the values in it.
LEMMA AnswerType ==
  ASSUME TypeInv, WindowExists, NEW w \in Answers
  PROVE  /\ w \in [start : Nat, values : Seq(Nat)]
         /\ Len(w.values) \in Nat /\ Len(w.values) + RecentBlocks < Word
<1>1. /\ Len(chain) \in Nat /\ Len(chain) <= MaxHeight /\ MaxHeight \in Nat /\ fork \in Nat
      /\ RecentBlocks \in Nat /\ Vicinity \in Nat /\ Word \in Nat
  BY BoundsAssumption, RecentAssumption, VicinityAssumption, WordAssumption
     DEF TypeInv, TypeOK, ChainBook
<1>2. CASE honest
  <2>1. /\ w.start \in Nat /\ w.values \in Seq(Nat)
        /\ fork + 2 <= Len(chain) /\ Len(w.values) = Larger((fork + 2) - w.start, 0)
    BY <1>2, HonestAnswer
  <2>2. Len(w.values) \in Nat /\ Len(w.values) <= MaxHeight
    BY <1>1, <2>1 DEF Larger
  <2>3. w = [start |-> w.start, values |-> w.values]
    BY <1>2 DEF Answers
  <2>4. Len(w.values) + RecentBlocks < Word
    BY <1>1, <2>2, LargeWordAssumption
  <2>5. QED
    BY <2>1, <2>2, <2>3, <2>4
<1>3. CASE ~honest
  <2>1. PICK s \in 0 .. Word - 1, v \in WrongValues : w = [start |-> s, values |-> v]
    BY <1>3 DEF Answers
  <2>2. s \in Nat /\ 0 .. Word - 1 \in SUBSET Nat
    BY <1>1, <2>1
  <2>3. v \in Seq(0 .. Word - 1) /\ Len(v) + RecentBlocks < Word
    BY <2>1, WrongValuesAssumption
  <2>4. v \in Seq(Nat) /\ Len(v) \in Nat
    <3> DEFINE D == 0 .. Word - 1
    <3>1. v \in Seq(D) /\ \A x \in D : x \in Nat
      BY <2>2, <2>3
    <3> HIDE DEF D
    <3>2. Len(v) \in Nat /\ \A k \in 1 .. Len(v) : v[k] \in Nat
      BY <3>1
    <3>3. QED
      BY <3>1, <3>2
  <2>5. QED
    BY <2>1, <2>2, <2>3, <2>4
<1>4. QED
  BY <1>2, <1>3

Passes(w) == Refusal(w) = ""

\* An answer that passes the guards: neither position wraps, though the difference of the
\* two values may.
LEMMA TakenWindow ==
  ASSUME TypeInv, WindowExists, NEW w \in Answers, Passes(w)
  PROVE  /\ ForkAt(w) = fork - w.start /\ RecentAt(w) = (fork - RecentBlocks) - w.start
         /\ RecentAt(w) \in 0 .. ForkAt(w) /\ ForkAt(w) < Len(w.values) /\ fork >= RecentBlocks
         /\ TillFork(w) = w.values[ForkAt(w) + 1] /\ TillFork(w) \in Nat
         /\ Recent(w) = Wrap(TillFork(w) - w.values[RecentAt(w) + 1])
         /\ Recent(w) \in 0 .. Word - 1
<1>0. PICK from, values : from = w.start /\ values = w.values
  OBVIOUS
<1>1. /\ from \in Nat /\ values \in Seq(Nat) /\ Len(values) \in Nat
      /\ fork \in Nat /\ fork < Word /\ RecentBlocks \in Nat /\ Word \in Nat
  <2>1. w \in [start : Nat, values : Seq(Nat)]
    BY AnswerType
  <2>2. from \in Nat /\ values \in Seq(Nat)
    BY <1>0, <2>1
  <2>3. fork \in 0 .. Word - 1 /\ Word \in Nat /\ RecentBlocks \in Nat
    BY RecentAssumption, WordAssumption DEF TypeInv, TypeOK
  <2>4. QED
    BY <2>2, <2>3
<1>2. /\ ~(from > fork) /\ ~(ForkAt(w) >= Len(values)) /\ ~(fork < RecentBlocks)
      /\ ~(fork - RecentBlocks < from)
  BY <1>0 DEF Passes, Refusal
<1>3. ForkAt(w) = fork - from
  <2>1. fork - from \in Nat /\ fork - from < Word
    BY <1>1, <1>2
  <2>2. QED
    BY <1>0, <2>1, WrapSame DEF ForkAt
<1>4. RecentAt(w) = (fork - RecentBlocks) - from
  <2>1. (fork - RecentBlocks) - from \in Nat /\ (fork - RecentBlocks) - from < Word
    BY <1>1, <1>2
  <2>2. QED
    BY <1>0, <2>1, WrapSame DEF RecentAt
<1>5. RecentAt(w) \in 0 .. ForkAt(w) /\ ForkAt(w) \in Nat /\ ForkAt(w) < Len(values)
  BY <1>1, <1>2, <1>3, <1>4
<1> DEFINE f == ForkAt(w)
           r == RecentAt(w)
<1>6. /\ TillFork(w) = values[f + 1]
      /\ Recent(w) = Wrap(values[f + 1] - values[r + 1])
  BY <1>0, <1>1, <1>5 DEF TillFork, Recent, At
<1> HIDE DEF f, r
<1>7. f + 1 \in DOMAIN values /\ r + 1 \in DOMAIN values
  BY <1>1, <1>5 DEF f, r
<1>8. values[r + 1] \in Nat /\ values[f + 1] \in Nat
  BY <1>1, <1>7
<1>9. Recent(w) \in 0 .. Word - 1
  <2>1. values[f + 1] - values[r + 1] \in Int
    BY <1>8
  <2>2. QED
    BY <1>6, <2>1, WrapRange
<1>10. fork >= RecentBlocks
  BY <1>1, <1>2
<1>11. QED
  BY <1>0, <1>3, <1>4, <1>5, <1>6, <1>8, <1>9, <1>10 DEF f, r

----------------------------------------------------------------------------
(* The variables, step by step.                                            *)

LEMMA InitInv == Init => Inv
<1> SUFFICES ASSUME Init PROVE Inv
  OBVIOUS
<1>1. ChainBook
  BY InitChainBook DEF Init
<1>0. /\ fork = 0 /\ chain_height = 0 /\ num_outs = 0 /\ till_fork = 0 /\ recent = 0
      /\ src = 0 /\ real = -1 /\ window = [start |-> 0, values |-> <<>>]
  BY Zenon DEF Init
<1>2. fork \in 0 .. Word - 1 /\ chain_height \in 0 .. MaxHeight
  BY <1>0, BoundsAssumption, WordAssumption
<1>3. TypeOK
  <2>1. segregate \in BOOLEAN /\ mitigate \in BOOLEAN /\ pre \in BOOLEAN
    BY Zenon DEF Init
  <2>2. args \in CommandLines /\ honest \in Honesties /\ pc = "args"
    BY Zenon DEF Init
  <2>3. window \in [start : Nat, values : Seq(Nat)]
    BY <1>0
  <2>4. num_outs \in Nat /\ till_fork \in Nat /\ recent \in 0 .. Word - 1 /\ src \in Nat
    BY <1>0, WordAssumption
  <2>5. real \in Nat \cup {-1}
    BY <1>0
  <2>6. ChainTypeOK
    BY <1>1 DEF ChainTypeOK, ChainBook
  <2>7. QED
    BY <1>2, <2>1, <2>2, <2>3, <2>4, <2>5, <2>6 DEF TypeOK
<1>4. HeightBook
  BY <1>0, <1>1 DEF HeightBook, ChainBook
<1>5. QED
  BY <1>1, <1>3, <1>4
     DEF Init, Inv, TypeInv, ArgsBook, OutsBook, TillBook, WhyBook, LineBook,
         ReadsStayInside, WindowTaken, LastGuardIsIdle, RefusedOnlyNearTheEnds

\* The steps that take nothing from the daemon or the user.
LEMMA OthersType ==
  ASSUME TypeInv, UNCHANGED <<chainVars, runVars, flagVars, chain_height, num_outs, limitVars, sourceVars>>,
         pc' \in {"sources", "done", "usage", "thrown"}, pc' = "sources" => pc = "window",
         pc' = "done" => pc = "sources"
  PROVE  TypeInv'
<1>1. ArgsBook'
  BY DEF TypeInv, ArgsBook, runVars
<1>2. ChainBook'
  BY DEF TypeInv, ChainBook, chainVars
<1>3. TypeOK'
  BY DEF TypeInv, TypeOK, ChainTypeOK, chainVars, runVars, flagVars, limitVars, sourceVars
<1>4. QED
  BY <1>1, <1>2, <1>3 DEF TypeInv

LEMMA NextTypeInv == TypeInv /\ [Next]_vars => TypeInv'
<1> SUFFICES ASSUME TypeInv, [Next]_vars PROVE TypeInv'
  OBVIOUS
<1> USE DEF chainVars, runVars, flagVars, limitVars, sourceVars, toolVars
<1>1. CASE ReadArguments
  <2>1. args \in CommandLines /\ Accepted(args)
    BY <1>1 DEF ReadArguments, TypeInv, TypeOK
  <2>2. fork' \in 0 .. Word - 1
    BY <1>1, <2>1, ForkRange DEF ReadArguments
  <2>3. segregate' \in BOOLEAN /\ mitigate' \in BOOLEAN
    BY <1>1 DEF ReadArguments, SegregateFlag, MitigateFlag
  <2>4. TypeOK'
    BY <1>1, <2>2, <2>3 DEF ReadArguments, TypeInv, TypeOK, ChainTypeOK
  <2>5. ArgsBook' /\ ChainBook'
    BY <1>1, <2>1 DEF ReadArguments, TypeInv, ArgsBook, ChainBook
  <2>6. QED
    BY <2>4, <2>5 DEF TypeInv
<1>2. CASE RefuseArguments
  BY <1>2, OthersType DEF RefuseArguments, Throw
<1>3. CASE FetchHeight
  <2>1. chain_height' \in 0 .. MaxHeight
    BY <1>3, BoundsAssumption DEF FetchHeight, TypeInv, ChainBook
  <2>2. TypeOK'
    BY <1>3, <2>1 DEF FetchHeight, TypeInv, TypeOK, ChainTypeOK
  <2>3. ArgsBook' /\ ChainBook'
    BY <1>3 DEF FetchHeight, TypeInv, ArgsBook, ChainBook
  <2>4. QED
    BY <2>2, <2>3 DEF TypeInv
<1>4. CASE FetchOffsets
  <2>1. chain_height \in Nat /\ chain \in Seq(Nat) /\ Len(chain) \in Nat
    BY DEF TypeInv, TypeOK, ChainBook
  <2>2. LastEligible \in 0 .. Len(chain) - 1
    BY <1>4, <2>1, VicinityAssumption, RctStartAssumption
       DEF FetchOffsets, OffsetsUsable, HasBlock, LastEligible
  <2>3. num_outs' \in Nat /\ num_outs' > 0
    <3>1. LastEligible + 1 \in DOMAIN chain
      BY <2>1, <2>2
    <3>2. QED
      BY <1>4, <2>1, <3>1 DEF FetchOffsets, OffsetsUsable
  <2>4. TypeOK'
    BY <1>4, <2>3 DEF FetchOffsets, TypeInv, TypeOK, ChainTypeOK
  <2>5. ArgsBook' /\ ChainBook'
    BY <1>4 DEF FetchOffsets, TypeInv, ArgsBook, ChainBook
  <2>6. QED
    BY <2>4, <2>5 DEF TypeInv
<1>5. CASE OffsetsFail
  BY <1>5, OthersType DEF OffsetsFail, Throw
<1>6. CASE SkipWindow
  BY <1>6, OthersType DEF SkipWindow
<1>7. CASE FetchWindow
  <2>1. PICK w \in Answers :
          /\ Passes(w) /\ window' = w /\ till_fork' = TillFork(w) /\ recent' = Recent(w)
    BY <1>7 DEF FetchWindow, Passes
  <2>2. w \in [start : Nat, values : Seq(Nat)]
    BY <1>7, AnswerType DEF FetchWindow
  <2>3. TillFork(w) \in Nat /\ Recent(w) \in 0 .. Word - 1
    BY <1>7, <2>1, TakenWindow DEF FetchWindow
  <2>4. PICK tf, rc : tf = TillFork(w) /\ rc = Recent(w)
    OBVIOUS
  <2>5. window' \in [start : Nat, values : Seq(Nat)] /\ till_fork' \in Nat /\ recent' \in 0 .. Word - 1
    BY <2>1, <2>2, <2>3, <2>4
  <2>6. TypeOK'
    BY <1>7, <2>5 DEF FetchWindow, TypeInv, TypeOK, ChainTypeOK
  <2>7. ArgsBook' /\ ChainBook'
    BY <1>7 DEF FetchWindow, TypeInv, ArgsBook, ChainBook
  <2>8. QED
    BY <2>6, <2>7 DEF TypeInv
<1>8. CASE WindowRefused
  BY <1>8, OthersType DEF WindowRefused, Throw
<1>9. CASE WindowMissing
  BY <1>9, OthersType DEF WindowMissing, Throw
<1>10. CASE CheckReal
  <2>1. args \in CommandLines /\ Accepted(args) /\ src \in Nat
    BY <1>10 DEF CheckReal, TypeInv, TypeOK, ArgsBook
  <2> DEFINE n == Len(RealIndices(args))
  <2>2. n \in Nat /\ \A k \in 1 .. n : RealIndices(args)[k] \in Nat
    BY <2>1, RealIsNat
  <2>3. src' = src + 1 /\ src < n /\ real' = RealIndices(args)[src']
    BY <1>10 DEF CheckReal, SourcesLeft
  <2> HIDE DEF n
  <2>4. src + 1 \in 1 .. n
    BY <2>1, <2>2, <2>3
  <2>5. src' \in Nat /\ real' \in Nat
    BY <2>1, <2>2, <2>3, <2>4
  <2>6. pre' \in BOOLEAN
    BY <1>10 DEF CheckReal, IsPreFork
  <2>7. TypeOK'
    BY <1>10, <2>5, <2>6 DEF CheckReal, TypeInv, TypeOK, ChainTypeOK
  <2>8. ArgsBook' /\ ChainBook'
    BY <1>10 DEF CheckReal, TypeInv, ArgsBook, ChainBook
  <2>9. QED
    BY <2>7, <2>8 DEF TypeInv
<1>11. CASE AllSourcesDone
  BY <1>11, OthersType DEF AllSourcesDone
<1>12. CASE RpcFails
  BY <1>12, OthersType DEF RpcFails, Throw
<1>13. CASE ChainChanges
  <2>1. ChainBook'
    BY <1>13, ChainStep DEF ChainChanges, TypeInv
  <2>2. ChainTypeOK'
    BY <2>1, BoundsAssumption DEF ChainBook, ChainTypeOK
  <2>3. TypeOK'
    BY <1>13, <2>2 DEF ChainChanges, TypeInv, TypeOK
  <2>4. ArgsBook'
    BY <1>13 DEF ChainChanges, TypeInv, ArgsBook
  <2>5. QED
    BY <2>1, <2>3, <2>4 DEF TypeInv
<1>14. CASE UNCHANGED vars
  <2>1. TypeOK'
    BY <1>14 DEF vars, TypeInv, TypeOK, ChainTypeOK
  <2>2. ArgsBook' /\ ChainBook'
    BY <1>14 DEF vars, TypeInv, ArgsBook, ChainBook
  <2>3. QED
    BY <2>1, <2>2 DEF TypeInv
<1>15. QED
  BY <1>1, <1>2, <1>3, <1>4, <1>5, <1>6, <1>7, <1>8, <1>9, <1>10, <1>11, <1>12, <1>13, <1>14
     DEF Next, Ended

----------------------------------------------------------------------------
(* The books, step by step.                                                *)

LEMMA NextWhyBook == WhyBook /\ [Next]_vars => WhyBook'
<1> SUFFICES ASSUME WhyBook, [Next]_vars PROVE WhyBook'
  OBVIOUS
<1>1. CASE pc' = "thrown"
  BY <1>1 DEF WhyBook
<1>2. CASE why' = why /\ (pc' = pc \/ pc # "thrown")
  BY <1>2 DEF WhyBook
<1>3. pc' = "thrown" \/ (why' = why /\ (pc' = pc \/ pc # "thrown"))
  BY DEF Next, ReadArguments, RefuseArguments, FetchHeight, FetchOffsets, OffsetsFail,
         SkipWindow, FetchWindow, WindowRefused, WindowMissing, CheckReal, AllSourcesDone,
         RpcFails, ChainChanges, Ended, Throw, vars, toolVars
<1>4. QED
  BY <1>1, <1>2, <1>3

LEMMA NextHeightBook == TypeInv /\ HeightBook /\ [Next]_vars => HeightBook'
<1> SUFFICES ASSUME TypeInv, HeightBook, [Next]_vars PROVE HeightBook'
  OBVIOUS
<1>1. CASE FetchHeight
  <2>1. chain_height' = Len(chain) /\ chain' = chain /\ Len(chain) \in Nat
    BY <1>1 DEF FetchHeight, chainVars, TypeInv, ChainBook
  <2>2. QED
    BY <2>1 DEF HeightBook
<1>2. CASE ChainChanges
  <2>1. PICK h \in 1 .. Len(chain) :
          /\ Len(chain') = h + 1
          /\ (h = Len(chain) /\ reorgs' = reorgs) \/ reorgs' = reorgs + 1
    BY <1>2, ChainStep DEF ChainChanges, TypeInv
  <2>2. reorgs \in Nat /\ chain_height \in Nat /\ Len(chain) \in Nat /\ chain_height' = chain_height
    BY <1>2, BoundsAssumption DEF ChainChanges, toolVars, TypeInv, TypeOK, ChainBook
  <2>3. QED
    BY <2>1, <2>2 DEF HeightBook
<1>3. CASE UNCHANGED <<chainVars, chain_height>>
  BY <1>3 DEF HeightBook, chainVars
<1>4. FetchHeight \/ ChainChanges \/ UNCHANGED <<chainVars, chain_height>>
  BY DEF Next, ReadArguments, RefuseArguments, FetchOffsets, OffsetsFail, SkipWindow,
         FetchWindow, WindowRefused, WindowMissing, CheckReal, AllSourcesDone, RpcFails,
         Ended, vars, toolVars
<1>5. QED
  BY <1>1, <1>2, <1>3, <1>4

LEMMA NextOutsBook == TypeInv /\ OutsBook /\ [Next]_vars => OutsBook'
<1> SUFFICES ASSUME TypeInv, OutsBook, [Next]_vars PROVE OutsBook'
  OBVIOUS
<1>1. CASE FetchOffsets
  <2>1. chain_height \in Nat /\ Len(chain) \in Nat
    BY DEF TypeInv, TypeOK, ChainBook
  <2>2. LastEligible \in 0 .. Len(chain) - 1
    BY <1>1, <2>1, VicinityAssumption, RctStartAssumption
       DEF FetchOffsets, OffsetsUsable, HasBlock, LastEligible
  <2>3. chain' = chain /\ chain_height' = chain_height /\ num_outs' = chain[LastEligible + 1]
    BY <1>1 DEF FetchOffsets, chainVars
  <2>4. QED
    BY <2>2, <2>3 DEF OutsBook, LastEligible
<1>2. CASE ChainChanges
  <2>1. SUFFICES ASSUME pc \in {"window", "sources", "done"}, reorgs' = 0
                 PROVE  /\ LastEligible \in 0 .. Len(chain') - 1
                        /\ num_outs = chain'[LastEligible + 1]
    BY <1>2 DEF ChainChanges, toolVars, OutsBook, LastEligible
  <2>2. PICK h \in 1 .. Len(chain) :
          /\ Len(chain') = h + 1 /\ \A k \in 1 .. h : chain'[k] = chain[k]
          /\ (h = Len(chain) /\ reorgs' = reorgs) \/ reorgs' = reorgs + 1
    BY <1>2, ChainStep DEF ChainChanges, TypeInv
  <2>3. reorgs \in Nat /\ Len(chain) \in Nat
    BY BoundsAssumption DEF TypeInv, ChainBook
  <2>4. reorgs = 0 /\ h = Len(chain)
    BY <2>1, <2>2, <2>3
  <2> DEFINE e == LastEligible
  <2>5. e \in 0 .. Len(chain) - 1 /\ num_outs = chain[e + 1]
    BY <2>1, <2>4 DEF OutsBook
  <2> HIDE DEF e
  <2>6. e \in 0 .. Len(chain') - 1 /\ e + 1 \in 1 .. h
    BY <2>2, <2>3, <2>4, <2>5
  <2>7. num_outs = chain'[e + 1]
    BY <2>2, <2>5, <2>6
  <2>8. QED
    BY <2>6, <2>7 DEF e
<1>3. CASE /\ UNCHANGED <<chainVars, chain_height, num_outs>>
           /\ pc' \in {"window", "sources", "done"} => pc \in {"window", "sources", "done"}
  BY <1>3 DEF OutsBook, LastEligible, chainVars
<1>4. CASE pc' \notin {"window", "sources", "done"}
  BY <1>4 DEF OutsBook
<1>5. \/ FetchOffsets \/ ChainChanges \/ pc' \notin {"window", "sources", "done"}
      \/ /\ UNCHANGED <<chainVars, chain_height, num_outs>>
         /\ pc' \in {"window", "sources", "done"} => pc \in {"window", "sources", "done"}
  BY DEF Next, ReadArguments, RefuseArguments, FetchHeight, OffsetsFail, SkipWindow,
         FetchWindow, WindowRefused, WindowMissing, CheckReal, AllSourcesDone, RpcFails,
         Ended, Throw, vars, toolVars
<1>6. QED
  BY <1>1, <1>2, <1>3, <1>4, <1>5

LEMMA NextTillBook == TypeInv /\ TillBook /\ [Next]_vars => TillBook'
<1> SUFFICES ASSUME TypeInv, TillBook, [Next]_vars PROVE TillBook'
  OBVIOUS
<1> DEFINE Early == {"args", "height", "offsets", "window"}
           Late  == {"sources", "done"}
<1>1. CASE FetchWindow
  <2>1. PICK w \in Answers : Passes(w) /\ till_fork' = TillFork(w) /\ recent' = Recent(w)
    BY <1>1 DEF FetchWindow, Passes
  <2>2. pc' = "sources" /\ ~pre' /\ honest' = honest /\ chain' = chain /\ fork' = fork
    BY <1>1 DEF FetchWindow, TillBook, chainVars, runVars, flagVars, sourceVars
  <2>3. ASSUME honest
        PROVE  /\ fork < Len(chain) /\ fork >= RecentBlocks /\ till_fork' = chain[fork + 1]
               /\ recent' = Wrap(till_fork' - chain[fork - RecentBlocks + 1])
    <3>1. /\ w.start \in Nat /\ fork + 2 <= Len(chain) /\ w.values \in Seq(Nat)
          /\ \A i \in 1 .. Len(w.values) : w.values[i] = chain[w.start + i]
      BY <1>1, <2>3, HonestAnswer DEF FetchWindow
    <3>2. /\ ForkAt(w) = fork - w.start /\ RecentAt(w) = (fork - RecentBlocks) - w.start
          /\ RecentAt(w) \in 0 .. ForkAt(w) /\ fork >= RecentBlocks
          /\ ForkAt(w) < Len(w.values) /\ TillFork(w) = w.values[ForkAt(w) + 1]
          /\ Recent(w) = Wrap(TillFork(w) - w.values[RecentAt(w) + 1])
      BY <1>1, <2>1, TakenWindow DEF FetchWindow
    <3>3. fork \in Nat /\ Len(chain) \in Nat /\ RecentBlocks \in Nat
      BY WordAssumption, RecentAssumption DEF TypeInv, TypeOK, ChainBook
    <3>4. PICK f, r : f = ForkAt(w) /\ r = RecentAt(w)
      OBVIOUS
    <3>5. f = fork - w.start /\ r = (fork - RecentBlocks) - w.start /\ r \in 0 .. f /\ f < Len(w.values)
      BY <3>2, <3>4
    <3>6. /\ f + 1 \in 1 .. Len(w.values) /\ w.start + (f + 1) = fork + 1
          /\ r + 1 \in 1 .. Len(w.values) /\ w.start + (r + 1) = fork - RecentBlocks + 1
      <4>1. PICK g, h, n, b : g = fork /\ h = w.start /\ n = Len(w.values) /\ b = RecentBlocks
        OBVIOUS
      <4>2. g \in Nat /\ h \in Nat /\ n \in Nat /\ b \in Nat
        BY <3>1, <3>3, <4>1
      <4>3. f = g - h /\ r = (g - b) - h /\ r \in 0 .. f /\ f < n
        BY <3>5, <4>1, Zenon
      <4>4. f + 1 \in 1 .. n /\ h + (f + 1) = g + 1 /\ r + 1 \in 1 .. n /\ h + (r + 1) = g - b + 1
        BY <4>2, <4>3
      <4>5. QED
        BY <4>1, <4>4, Zenon
    <3>7. w.values[f + 1] = chain[fork + 1] /\ w.values[r + 1] = chain[fork - RecentBlocks + 1]
      BY <3>1, <3>6
    <3>8. TillFork(w) = chain[fork + 1]
      BY <3>2, <3>4, <3>7
    <3>9. Recent(w) = Wrap(TillFork(w) - chain[fork - RecentBlocks + 1])
      BY <3>2, <3>4, <3>7
    <3>10. fork < Len(chain)
      BY <3>1, <3>3
    <3>11. QED
      BY <2>1, <3>2, <3>8, <3>9, <3>10
  <2>4. QED
    BY <2>2, <2>3 DEF TillBook
<1>2. CASE CheckReal
  <2>1. /\ pc' = pc /\ pc = "sources" /\ real' < Last(chain) /\ pre' = IsPreFork(HeightOf(real'))
        /\ UNCHANGED <<chainVars, honest, flagVars, chain_height, till_fork, recent>>
    BY <1>2 DEF CheckReal, runVars, limitVars
  <2>2. SUFFICES ASSUME honest, WindowTaken, fork < stable, pre'
                 PROVE  real' < till_fork
    BY <2>1 DEF TillBook, WindowTaken, WindowNeeded, IsAfter, chainVars, flagVars
  <2>3. fork < Len(chain) /\ till_fork = chain[fork + 1]
    BY <2>2 DEF TillBook
  <2>4. PICK x : x = real'
    OBVIOUS
  <2>5. x \in Nat
    <3>1. Accepted(args) /\ args \in CommandLines /\ src \in Nat
      BY <2>1 DEF TypeInv, TypeOK, ArgsBook
    <3>2. src' = src + 1 /\ src < Len(RealIndices(args)) /\ x = RealIndices(args)[src']
      BY <1>2, <2>4 DEF CheckReal, SourcesLeft
    <3>3. QED
      BY <3>1, <3>2, RealIsNat
  <2>6. x < Last(chain) /\ HeightIn(chain, x) < fork
    BY <2>1, <2>2, <2>4 DEF IsPreFork, HeightOf
  <2>7. chain \in Seq(Nat) /\ Len(chain) > 0 /\ Cumulative(chain) /\ fork \in Nat
    BY WordAssumption DEF TypeInv, TypeOK, ChainBook
  <2> DEFINE h == HeightIn(chain, x)
  <2>8. h \in 0 .. Len(chain) - 1 /\ chain[h + 1] > x
    BY <2>5, <2>6, <2>7, HeightExists
  <2>9. h < fork
    BY <2>6
  <2> HIDE DEF h
  <2>10. h + 1 \in DOMAIN chain /\ fork + 1 \in DOMAIN chain /\ h + 1 <= fork + 1
    BY <2>3, <2>7, <2>8, <2>9
  <2>11. chain[h + 1] <= chain[fork + 1] /\ chain[h + 1] \in Nat /\ chain[fork + 1] \in Nat
    BY <2>7, <2>10 DEF Cumulative
  <2>12. QED
    BY <2>3, <2>4, <2>5, <2>8, <2>11
<1>3. CASE ChainChanges
  <2>1. UNCHANGED <<honest, fork, segregate, mitigate, pc, chain_height, till_fork, recent, real, pre>>
    BY <1>3 DEF ChainChanges, runVars, flagVars, toolVars, limitVars, sourceVars
  <2>2. PICK h \in 1 .. Len(chain) :
          /\ Len(chain') = h + 1 /\ \A k \in 1 .. h : chain'[k] = chain[k]
          /\ stable' <= stable
          /\ h = Len(chain) \/ stable' <= h
    BY <1>3, ChainStep DEF ChainChanges, TypeInv
  <2>3. fork \in Nat /\ stable \in Nat /\ stable' \in Nat /\ Len(chain) \in Nat
    BY <1>3, BoundsAssumption, ChainStep, WordAssumption DEF ChainChanges, TypeInv, TypeOK, ChainBook
  <2>4. ASSUME honest, WindowTaken, fork < stable'
        PROVE  /\ fork < Len(chain') /\ fork >= RecentBlocks /\ till_fork = chain'[fork + 1]
               /\ recent = Wrap(till_fork - chain'[fork - RecentBlocks + 1])
               /\ pre => real < till_fork
    <3>1. fork < stable
      BY <1>3, <2>3, <2>4, ChainStep DEF ChainChanges, TypeInv
    <3>2. /\ fork < Len(chain) /\ fork >= RecentBlocks /\ till_fork = chain[fork + 1]
          /\ recent = Wrap(till_fork - chain[fork - RecentBlocks + 1])
          /\ pre => real < till_fork
      BY <2>4, <3>1 DEF TillBook
    <3>3. fork < h
      BY <2>2, <2>3, <2>4, <3>2
    <3>4. fork + 1 \in 1 .. h /\ fork - RecentBlocks + 1 \in 1 .. h
      BY <2>2, <2>3, <3>2, <3>3, RecentAssumption
    <3>5. /\ chain'[fork + 1] = chain[fork + 1]
          /\ chain'[fork - RecentBlocks + 1] = chain[fork - RecentBlocks + 1]
      BY <2>2, <3>4
    <3>6. fork < Len(chain')
      BY <2>2, <2>3, <3>3
    <3>7. QED
      BY <3>2, <3>5, <3>6
  <2>5. QED
    BY <2>1, <2>4 DEF TillBook, WindowTaken, WindowNeeded, IsAfter
<1>4. CASE pc' \notin Late /\ pre' = pre /\ (pc' \in Early => pc \in Early)
  BY <1>4 DEF TillBook, WindowTaken
<1>5. CASE SkipWindow
  BY <1>5 DEF SkipWindow, TillBook, WindowTaken, WindowNeeded, IsAfter, flagVars
<1>6. CASE /\ pc \in Late /\ pc' \in Late
           /\ UNCHANGED <<chainVars, honest, flagVars, chain_height, till_fork, recent, real, pre>>
  BY <1>6 DEF TillBook, WindowTaken, WindowNeeded, IsAfter, chainVars, flagVars
<1>7. \/ FetchWindow \/ CheckReal \/ ChainChanges \/ SkipWindow
      \/ pc' \notin Late /\ pre' = pre /\ (pc' \in Early => pc \in Early)
      \/ /\ pc \in Late /\ pc' \in Late
         /\ UNCHANGED <<chainVars, honest, flagVars, chain_height, till_fork, recent, real, pre>>
  BY DEF Next, ReadArguments, RefuseArguments, FetchHeight, FetchOffsets, OffsetsFail,
         WindowRefused, WindowMissing, AllSourcesDone, RpcFails, Ended, Throw, vars, toolVars,
         runVars, limitVars, sourceVars, TypeInv, TypeOK
<1>8. QED
  BY <1>1, <1>2, <1>3, <1>4, <1>5, <1>6, <1>7

LEMMA NextReadsStayInside == TypeInv /\ ReadsStayInside /\ [Next]_vars => ReadsStayInside'
<1> SUFFICES ASSUME TypeInv, ReadsStayInside, [Next]_vars PROVE ReadsStayInside'
  OBVIOUS
<1>1. CASE FetchWindow
  <2>1. PICK w \in Answers : Passes(w) /\ window' = w
    BY <1>1 DEF FetchWindow, Passes
  <2>2. w.start \in Nat /\ Len(w.values) \in Nat /\ fork \in Nat /\ RecentBlocks \in Nat
    <3>1. w \in [start : Nat, values : Seq(Nat)] /\ Len(w.values) \in Nat
      BY <1>1, AnswerType DEF FetchWindow
    <3>2. QED
      BY <3>1, RecentAssumption, WordAssumption DEF TypeInv, TypeOK
  <2>3. ~(ForkAt(w) >= Len(w.values)) /\ ~(RecentAt(w) >= Len(w.values))
    BY <2>1 DEF Passes, Refusal
  <2>4. ForkAt(w) \in 0 .. Word - 1 /\ RecentAt(w) \in 0 .. Word - 1
    <3>1. fork - w.start \in Int /\ fork - RecentBlocks - w.start \in Int
      BY <2>2
    <3>2. QED
      BY <3>1, WrapRange DEF ForkAt, RecentAt
  <2>5. ForkAt(w) < Len(w.values) /\ RecentAt(w) < Len(w.values)
    BY <2>2, <2>3, <2>4, WordAssumption
  <2>6. fork' = fork
    BY <1>1 DEF FetchWindow, flagVars
  <2>7. QED
    BY <2>1, <2>5, <2>6 DEF ReadsStayInside, ForkAt, RecentAt
<1>2. CASE SkipWindow
  BY <1>2 DEF SkipWindow, flagVars, ReadsStayInside, WindowTaken, WindowNeeded, IsAfter
<1>3. CASE pc' \notin {"sources", "done"}
  BY <1>3 DEF ReadsStayInside, WindowTaken
<1>4. CASE /\ pc \in {"sources", "done"}
           /\ UNCHANGED <<fork, segregate, mitigate, chain_height, window>>
  BY <1>4 DEF ReadsStayInside, WindowTaken, WindowNeeded, IsAfter, ForkAt, RecentAt
<1>5. \/ FetchWindow \/ SkipWindow \/ pc' \notin {"sources", "done"}
      \/ /\ pc \in {"sources", "done"}
         /\ UNCHANGED <<fork, segregate, mitigate, chain_height, window>>
  BY DEF Next, ReadArguments, RefuseArguments, FetchHeight, FetchOffsets, OffsetsFail,
         WindowRefused, WindowMissing, CheckReal, AllSourcesDone, RpcFails, ChainChanges, Ended,
         Throw, vars, toolVars, flagVars, limitVars
<1>6. QED
  BY <1>1, <1>2, <1>3, <1>4, <1>5

\* The guard before it fires: what wraps is at least Word - RecentBlocks.
LEMMA NeverBadStart ==
  ASSUME TypeInv, WindowExists, NEW w \in Answers
  PROVE  Refusal(w) # "bad start height"
<1>1. /\ w.start \in Nat /\ Len(w.values) \in Nat /\ Len(w.values) + RecentBlocks < Word
      /\ fork \in Nat /\ RecentBlocks \in Nat /\ Word \in Nat
  <2>1. /\ w \in [start : Nat, values : Seq(Nat)]
        /\ Len(w.values) \in Nat /\ Len(w.values) + RecentBlocks < Word
    BY AnswerType
  <2>2. fork \in Nat /\ RecentBlocks \in Nat /\ Word \in Nat
    BY RecentAssumption, WordAssumption DEF TypeInv, TypeOK
  <2>3. QED
    BY <2>1, <2>2
<1>2. SUFFICES ASSUME ~(w.start > fork), ~(fork < RecentBlocks), fork - RecentBlocks < w.start
               PROVE  RecentAt(w) >= Len(w.values)
  BY DEF Refusal
<1> DEFINE x == fork - RecentBlocks - w.start
<1>3. x \in Int /\ x < 0 /\ x >= 0 - RecentBlocks
  BY <1>1, <1>2
<1>4. x + Word >= 0
  BY <1>1, <1>3
<1>5. RecentAt(w) = x + Word
  BY <1>3, <1>4, WrapNegative DEF RecentAt
<1> HIDE DEF x
<1>6. QED
  BY <1>1, <1>3, <1>5

LEMMA NextLastGuardIsIdle == TypeInv /\ LastGuardIsIdle /\ [Next]_vars => LastGuardIsIdle'
<1> SUFFICES ASSUME TypeInv, LastGuardIsIdle, [Next]_vars PROVE LastGuardIsIdle'
  OBVIOUS
<1>1. CASE WindowRefused
  BY <1>1, NeverBadStart DEF WindowRefused, Throw, LastGuardIsIdle
<1>2. CASE why' = why \/ why' \in {"stoull", "offsets", "no such block", "rpc"}
  BY <1>2 DEF LastGuardIsIdle
<1>3. WindowRefused \/ why' = why \/ why' \in {"stoull", "offsets", "no such block", "rpc"}
  BY DEF Next, ReadArguments, RefuseArguments, FetchHeight, FetchOffsets, OffsetsFail,
         SkipWindow, FetchWindow, WindowMissing, CheckReal, AllSourcesDone, RpcFails,
         ChainChanges, Ended, Throw, vars, toolVars
<1>4. QED
  BY <1>1, <1>2, <1>3

\* An honest answer about a fork that has blocks with RingCT outputs behind it passes.
LEMMA HonestPasses ==
  ASSUME TypeInv, WindowExists, honest, NEW w \in Answers, ~(fork < RctStart + RecentBlocks)
  PROVE  Refusal(w) = ""
<1>1. fork \in Nat /\ RecentBlocks \in Nat /\ RctStart \in Nat /\ Word \in Nat /\ fork < Word
  BY RecentAssumption, RctStartAssumption, WordAssumption DEF TypeInv, TypeOK
<1>2. w.start = fork - RecentBlocks
  <2>1. w.start = StartHeight(WindowFrom)
    BY HonestAnswer
  <2>2. QED
    BY <1>1, <2>1 DEF StartHeight, WindowFrom, Larger
<1>3. w.start \in Nat /\ w.start <= fork
  BY <1>1, <1>2
<1>4. Len(w.values) = RecentBlocks + 2
  <2>1. Len(w.values) = Larger((fork + 2) - w.start, 0)
    BY HonestAnswer
  <2>2. QED
    BY <1>1, <1>2, <2>1 DEF Larger
<1>5. ForkAt(w) = RecentBlocks
  <2>1. fork - w.start = RecentBlocks /\ RecentBlocks < Word
    BY <1>1, <1>2, <1>3
  <2>2. QED
    BY <1>1, <2>1, WrapSame DEF ForkAt
<1>6. RecentAt(w) = 0
  <2>1. fork - RecentBlocks - w.start = 0 /\ 0 < Word
    BY <1>1, <1>2, <1>3
  <2>2. QED
    BY <2>1, WrapSame DEF RecentAt
<1>7. /\ ~(w.start > fork) /\ ~(ForkAt(w) >= Len(w.values)) /\ ~(fork < RecentBlocks)
      /\ ~(RecentAt(w) >= Len(w.values)) /\ ~(fork - RecentBlocks < w.start)
  BY <1>1, <1>2, <1>3, <1>4, <1>5, <1>6
<1>8. QED
  BY Zenon, <1>7 DEF Refusal

LEMMA NextRefused ==
  TypeInv /\ HeightBook /\ WhyBook /\ RefusedOnlyNearTheEnds /\ [Next]_vars
    => RefusedOnlyNearTheEnds'
<1> SUFFICES ASSUME TypeInv, HeightBook, WhyBook, RefusedOnlyNearTheEnds, [Next]_vars
             PROVE  RefusedOnlyNearTheEnds'
  OBVIOUS
<1> DEFINE Near == chain_height < fork + 2 \/ fork < RctStart + RecentBlocks
<1>1. CASE WindowRefused
  <2>1. PICK w \in Answers : Refusal(w) # ""
    BY <1>1 DEF WindowRefused
  <2>2. honest => fork < RctStart + RecentBlocks
    BY <1>1, <2>1, HonestPasses DEF WindowRefused
  <2>3. UNCHANGED <<honest, fork, chain_height>>
    BY <1>1 DEF WindowRefused, runVars, flagVars
  <2>4. QED
    BY <2>2, <2>3 DEF RefusedOnlyNearTheEnds
<1>2. CASE WindowMissing
  <2>1. honest /\ fork + 1 >= Len(chain)
    <3>1. honest /\ ~(fork + 1 < Len(chain))
      BY <1>2, Zenon DEF WindowMissing, WindowExists, HasBlock, WindowTo
    <3>2. fork \in Nat /\ Len(chain) \in Nat
      BY WordAssumption DEF TypeInv, TypeOK, ChainBook
    <3>3. QED
      BY <3>1, <3>2
  <2>2. fork \in Nat /\ Len(chain) \in Nat /\ chain_height \in Nat
    BY WordAssumption DEF TypeInv, TypeOK, ChainBook
  <2>3. reorgs = 0 => chain_height < fork + 2
    BY <2>1, <2>2 DEF HeightBook
  <2>4. UNCHANGED <<chainVars, honest, fork, chain_height>>
    BY <1>2 DEF WindowMissing, runVars, flagVars
  <2>5. QED
    BY <2>3, <2>4 DEF RefusedOnlyNearTheEnds, chainVars
<1>3. CASE why' \in {"", "stoull", "rpc", "offsets"}
  BY <1>3 DEF RefusedOnlyNearTheEnds
<1>4. CASE ChainChanges
  <2>1. UNCHANGED <<honest, fork, chain_height, why>>
    BY <1>4 DEF ChainChanges, runVars, flagVars, toolVars
  <2>2. reorgs' = reorgs \/ reorgs' = reorgs + 1
    BY <1>4, ChainStep DEF ChainChanges, TypeInv
  <2>3. reorgs' = 0 => reorgs = 0
    BY <2>2, BoundsAssumption DEF TypeInv, ChainBook
  <2>4. QED
    BY <2>1, <2>3 DEF RefusedOnlyNearTheEnds
<1>5. CASE UNCHANGED <<chainVars, honest, fork, chain_height, why>>
  BY <1>5 DEF RefusedOnlyNearTheEnds, chainVars
<1>6. \/ WindowRefused \/ WindowMissing \/ ChainChanges
      \/ why' \in {"", "stoull", "rpc", "offsets"}
      \/ UNCHANGED <<chainVars, honest, fork, chain_height, why>>
  <2>1. CASE ReadArguments
    BY <2>1 DEF ReadArguments, WhyBook
  <2>2. CASE FetchHeight
    BY <2>2 DEF FetchHeight, WhyBook
  <2>3. CASE RefuseArguments
    BY <2>3 DEF RefuseArguments, WhyBook, Throw
  <2>4. QED
    BY <2>1, <2>2, <2>3
       DEF Next, FetchOffsets, OffsetsFail, SkipWindow, FetchWindow, CheckReal, AllSourcesDone,
           RpcFails, Ended, Throw, vars, toolVars, runVars, flagVars
<1>7. QED
  BY <1>1, <1>2, <1>3, <1>4, <1>5, <1>6

\* A mistyped option is positional, so it is not the first of the positional arguments,
\* which is a URL, and is none of the others, which have a number in them.
LEMMA AcceptedIsSpelled ==
  ASSUME NEW a \in CommandLines, Accepted(a), RpcUrl(a) = "url", NEW i \in DOMAIN a
  PROVE  a[i].is # "mistyped"
<1>1. SUFFICES ASSUME a[i].is = "mistyped" PROVE FALSE
  OBVIOUS
<1>2. a \in Seq(Argument) /\ i \in 1 .. Len(a)
  BY ArgumentsAssumption
<1>3. a[i].number = <<>>
  <2>1. a[i] \in Argument
    BY <1>2
  <2>2. QED
    BY <1>1, <2>1 DEF Argument, Options
<1> DEFINE p == Positional(a)
<1>4. p \in Seq(Argument) /\ a[i] \in ToSet(p)
  BY <1>1, <1>2, PositionalIs DEF Options
<1> HIDE DEF p
<1>5. PICK j \in 1 .. Len(p) : p[j] = a[i]
  BY <1>4 DEF ToSet
<1>6. CASE j = 1
  BY <1>1, <1>5, <1>6 DEF RpcUrl, p
<1>7. CASE j # 1
  <2> DEFINE t == Tail(p)
  <2>1. j - 1 \in DOMAIN t /\ t[j - 1] = p[j]
    BY <1>4, <1>7
  <2> HIDE DEF t
  <2>2. a[i] \in ToSet(t)
    BY <1>5, <2>1 DEF ToSet
  <2>3. Readable(a[i])
    BY <2>2 DEF t, p, Accepted, IndexUnreadable
  <2>4. QED
    BY <1>3, <2>3 DEF Readable
<1>8. QED
  BY <1>6, <1>7

LEMMA NextLineBook == TypeInv /\ LineBook /\ [Next]_vars => LineBook'
<1> SUFFICES ASSUME TypeInv, LineBook, [Next]_vars PROVE LineBook'
  OBVIOUS
<1>1. CASE ReadArguments
  <2>1. /\ pc = "args" /\ pc' = "height" /\ Accepted(args) /\ fork' = ForkOf(args)
        /\ UNCHANGED <<args, chain_height, src>>
    BY <1>1 DEF ReadArguments, runVars, sourceVars
  <2>2. QED
    BY <2>1 DEF LineBook
<1>2. CASE FetchHeight
  <2>1. /\ pc = "height" /\ pc' = "offsets" /\ RpcUrl(args) = "url"
        /\ UNCHANGED <<args, fork, src>>
    BY <1>2 DEF FetchHeight, runVars, flagVars, sourceVars
  <2>2. QED
    BY <2>1 DEF LineBook
<1>3. CASE CheckReal
  <2>1. /\ pc = "sources" /\ pc' = pc /\ src' = src + 1 /\ src < Len(RealIndices(args))
        /\ UNCHANGED <<args, fork, chain_height>>
    BY <1>3 DEF CheckReal, SourcesLeft, runVars, flagVars
  <2>2. src + 1 <= Len(RealIndices(args))
    BY <2>1, RealIsNat DEF TypeInv, TypeOK, ArgsBook
  <2>3. QED
    BY <2>1, <2>2 DEF LineBook
<1>4. CASE AllSourcesDone
  <2>1. /\ pc = "sources" /\ pc' = "done" /\ ~(src < Len(RealIndices(args)))
        /\ UNCHANGED <<args, fork, chain_height, src>>
    BY <1>4 DEF AllSourcesDone, SourcesLeft, runVars, flagVars, sourceVars
  <2>2. Accepted(args) /\ src = Len(RealIndices(args))
    BY <2>1, RealIsNat DEF TypeInv, TypeOK, ArgsBook, LineBook
  <2>3. QED
    BY <2>1, <2>2 DEF LineBook
<1>5. CASE /\ UNCHANGED <<args, fork, chain_height, src>>
           /\ \/ pc' = pc
              \/ pc' \in {"usage", "thrown"}
              \/ pc = "offsets" /\ pc' = "window"
              \/ pc = "window" /\ pc' = "sources"
  <2>1. pc = "window" => 0 <= Len(RealIndices(args))
    BY RealIsNat DEF TypeInv, TypeOK, ArgsBook
  <2>2. QED
    BY <1>5, <2>1 DEF LineBook
<1>6. \/ ReadArguments \/ FetchHeight \/ CheckReal \/ AllSourcesDone
      \/ /\ UNCHANGED <<args, fork, chain_height, src>>
         /\ \/ pc' = pc
            \/ pc' \in {"usage", "thrown"}
            \/ pc = "offsets" /\ pc' = "window"
            \/ pc = "window" /\ pc' = "sources"
  BY DEF Next, RefuseArguments, FetchOffsets, OffsetsFail, SkipWindow, FetchWindow,
         WindowRefused, WindowMissing, RpcFails, ChainChanges, Ended, Throw, vars, toolVars,
         runVars, flagVars, sourceVars
<1>7. QED
  BY <1>1, <1>2, <1>3, <1>4, <1>5, <1>6

----------------------------------------------------------------------------
(* What the invariant says.                                                *)

\* The vicinity is wider than the spendable age, so the block that is eligible last is
\* at or after the fork.
LEMMA PostForkFollows == Inv => PostForkHasRange
<1> SUFFICES ASSUME Inv, honest, WindowTaken, reorgs = 0, NEW p \in BOOLEAN, PostForkWanted(p)
             PROVE  till_fork <= num_outs
  BY DEF PostForkHasRange
<1>1. /\ chain \in Seq(Nat) /\ Len(chain) \in Nat /\ Len(chain) <= MaxHeight /\ Cumulative(chain)
      /\ stable = MaxHeight /\ fork \in Nat /\ chain_height \in Nat /\ MaxHeight \in Nat
  BY BoundsAssumption, WordAssumption DEF Inv, TypeInv, TypeOK, ChainBook
<1>2. chain_height >= fork /\ ~(chain_height < Wrap(fork + Vicinity))
  BY DEF PostForkWanted, IsShortly, IsAfter
<1>3. chain_height <= Len(chain)
  BY DEF Inv, HeightBook
<1>4. Vicinity \in Nat /\ SpendableAge \in Nat /\ SpendableAge > 0 /\ Vicinity >= SpendableAge
  BY VicinityAssumption
<1>5. Wrap(fork + Vicinity) = fork + Vicinity
  <2>1. fork + Vicinity \in Nat /\ fork + Vicinity < Word
    BY <1>1, <1>2, <1>3, <1>4, RecentAssumption, WordAssumption, LargeWordAssumption
  <2>2. QED
    BY <2>1, WrapSame
<1>6. fork <= LastEligible /\ fork < stable /\ LastEligible \in Int
  BY <1>1, <1>2, <1>3, <1>4, <1>5 DEF LastEligible
<1>7. fork < Len(chain) /\ till_fork = chain[fork + 1]
  BY <1>6 DEF Inv, TillBook
<1>8. LastEligible \in 0 .. Len(chain) - 1 /\ num_outs = chain[LastEligible + 1]
  BY DEF Inv, OutsBook, WindowTaken
<1> DEFINE e == LastEligible
<1> HIDE DEF e
<1>9. fork <= e /\ e \in 0 .. Len(chain) - 1 /\ num_outs = chain[e + 1]
  BY <1>6, <1>8 DEF e
<1>10. fork + 1 \in DOMAIN chain /\ e + 1 \in DOMAIN chain /\ fork + 1 <= e + 1
  BY <1>1, <1>7, <1>9
<1>11. QED
  BY <1>1, <1>7, <1>9, <1>10 DEF Cumulative

\* A height at or below that of the chain is not the one that stands for none.
LEMMA ArgumentsFollow == Inv => ArgumentsCount
<1> SUFFICES ASSUME Inv PROVE ArgumentsCount
  OBVIOUS
<1>1. args \in CommandLines /\ args \in Seq(Argument) /\ TypeInv /\ LineBook
  BY ArgumentsAssumption DEF Inv, TypeInv, TypeOK
<1>2. ASSUME chain_height # 0, NEW i \in DOMAIN args PROVE args[i].is # "mistyped"
  BY <1>1, <1>2, AcceptedIsSpelled DEF LineBook
<1>3. ASSUME pc = "done" PROVE src + 1 = Cardinality({i \in DOMAIN args : NoOption(i)})
  <2>1. src + 1 = Len(Positional(args))
    BY <1>1, <1>3, RealIsNat DEF LineBook
  <2>2. DOMAIN args = 1 .. Len(args)
    BY <1>1
  <2>3. QED
    BY <1>1, <2>1, <2>2, PositionalIs DEF NoOption
<1>4. ASSUME chain_height # 0, IsAfter
      PROVE  \E i \in Heights(args) : /\ fork = Stoull(args[i]) /\ fork > 0
                                     /\ \A j \in Heights(args) : j <= i
  <2>1. fork = ForkOf(args) /\ fork # Sentinel
    <3>1. fork \in Nat /\ chain_height \in Nat /\ chain_height <= MaxHeight /\ MaxHeight \in Nat
      BY <1>1, BoundsAssumption, WordAssumption DEF TypeInv, TypeOK
    <3>2. fork <= chain_height
      BY <1>4, <3>1 DEF IsAfter
    <3>3. QED
      BY <1>1, <1>4, <3>1, <3>2, SentinelAssumption, SentinelBeyondAssumption, WordAssumption
         DEF LineBook
  <2>2. Heights(args) # {}
    <3>1. Heights(args) = {} => ForkOf(args) = Sentinel
      BY DEF ForkOf
    <3>2. QED
      BY <2>1, <3>1
  <2>3. Len(args) \in Nat /\ Heights(args) \in SUBSET (1 .. Len(args))
    BY <1>1 DEF Heights, Given
  <2> DEFINE k == Max(Heights(args))
  <2>4. k \in Heights(args) /\ \A j \in Heights(args) : j <= k
    BY <2>2, <2>3, MaxIsIn
  <2>5. fork = Stoull(args[k]) /\ fork > 0
    BY <2>1, <2>2 DEF ForkOf
  <2> HIDE DEF k
  <2>6. QED
    BY <2>4, <2>5
<1>5. QED
  BY <1>2, <1>3, <1>4 DEF ArgumentsCount

LEMMA AlwaysInv == Spec => []Inv
<1>1. Inv /\ [Next]_vars => Inv'
  BY NextTypeInv, NextHeightBook, NextOutsBook, NextTillBook, NextWhyBook, NextReadsStayInside,
     NextLastGuardIsIdle, NextRefused, NextLineBook
     DEF Inv
<1>2. QED
  BY <1>1, InitInv, PTL DEF Spec

\* Every variable of main() has a value of its type, for any command line and any vector the
\* daemon may send for the window, sorted or not: recent (main.cpp:277) is a 64-bit number
\* that may have wrapped.  There are outputs to draw from once the offsets are there.
THEOREM TypeCorrect == Spec => []TypeOK
<1>1. Inv => TypeOK
  BY DEF Inv, TypeInv
<1>2. QED
  BY <1>1, AlwaysInv, PTL

\* main.cpp:276-277, for any answer of the daemon and any fork height: the two
\* unsigned positions are inside the vector when it is read.
THEOREM ReadsInside == Spec => []ReadsStayInside
<1>1. Inv => ReadsStayInside
  BY DEF Inv
<1>2. QED
  BY <1>1, AlwaysInv, PTL

\* main.cpp:270-273, for any answer and any word that is large enough: a window
\* that begins too late is refused as too small, because the subtraction wraps.
THEOREM LastGuardNeverFires == Spec => []LastGuardIsIdle
<1>1. Inv => LastGuardIsIdle
  BY DEF Inv
<1>2. QED
  BY <1>1, AlwaysInv, PTL

\* main.cpp:276, 488-491: however the chain grows and is replaced behind the fork block,
\* till_fork counts the outputs up to and including that block, recent those of the last
\* RecentBlocks blocks of them, and the real output of each source classified as pre-fork
\* is inside the range of the pre-fork bucket.
THEOREM ForkIsCounted == Spec => []TillForkIsCount
<1>1. Inv => TillForkIsCount
  BY DEF Inv, TillBook, TillForkIsCount
<1>2. QED
  BY <1>1, AlwaysInv, PTL

\* main.cpp:432-433, 560: with any vicinity at least as wide as the spendable age, no
\* post-fork bucket is drawn from a range whose end is before its start.
THEOREM PostForkRangeStands == Spec => []PostForkHasRange
<1>1. QED
  BY PostForkFollows, AlwaysInv, PTL

\* main.cpp:254-273: an honest answer is refused near the end of the chain, or near the
\* start of RingCT, and nowhere else.
THEOREM RefusedNearTheEnds == Spec => []RefusedOnlyNearTheEnds
<1>1. Inv => RefusedOnlyNearTheEnds
  BY DEF Inv
<1>2. QED
  BY <1>1, AlwaysInv, PTL

\* main.cpp:397-425, for any command line: a mistyped option ends the run before the daemon
\* has told its height, at the end every argument that is no option but the URL has been
\* worked on, and segregation is on only at the height that was typed last.
THEOREM ArgumentsHaveEffect == Spec => []ArgumentsCount
<1>1. QED
  BY ArgumentsFollow, AlwaysInv, PTL

----------------------------------------------------------------------------
(* What the second half of main() is handed, and when the range of the     *)
(* pre-fork bucket ends where README.md:56-57 says.                        *)

\* The sources begin with real indices that are numbers, with outputs to draw
\* from, and with no limit but the one fetched: what SourcesAssumption, NumOutsAssumption
\* and Segregations of module DecoySelection take for granted about main.cpp:396-451.
SelectionIsSupplied ==
  pc \in {"sources", "done"} =>
    /\ RealIndices(args) \in Seq(Nat) \ {<<>>}
    /\ num_outs \in Nat \ {0}
    /\ till_fork \in Nat /\ (~WindowNeeded => till_fork = 0)

\* main.cpp:276 takes the count after the fork block: the range ends before that block
\* exactly if it has no RingCT outputs.
FullForkBlockCounts ==
  honest /\ WindowTaken /\ fork < stable =>
    (till_fork <= chain[fork] <=> chain[fork + 1] = chain[fork])

SupplyBook ==
  /\ pc \in {"height", "offsets", "window", "sources", "done"} => Accepted(args)
  /\ pc \in {"args", "height", "offsets", "window"} \/ ~WindowNeeded => till_fork = 0
  /\ WindowTaken => fork >= RecentBlocks

LEMMA NextSupplyBook == TypeInv /\ SupplyBook /\ [Next]_vars => SupplyBook'
<1> SUFFICES ASSUME TypeInv, SupplyBook, [Next]_vars PROVE SupplyBook'
  OBVIOUS
<1> DEFINE Early == {"args", "height", "offsets", "window"}
<1>1. CASE ReadArguments
  BY <1>1 DEF ReadArguments, SupplyBook, WindowTaken, runVars, limitVars
<1>2. CASE FetchHeight
  BY <1>2 DEF FetchHeight, SupplyBook, WindowTaken, runVars, limitVars
<1>3. CASE FetchOffsets
  BY <1>3 DEF FetchOffsets, SupplyBook, WindowTaken, runVars, limitVars
<1>4. CASE SkipWindow
  BY <1>4 DEF SkipWindow, SupplyBook, WindowTaken, WindowNeeded, IsAfter, runVars, flagVars,
              limitVars
<1>5. CASE FetchWindow
  <2>1. PICK w : Passes(w)
    BY <1>5 DEF FetchWindow, Passes
  <2>2. fork \in Nat /\ RecentBlocks \in Nat /\ ~(fork < RecentBlocks)
    BY <2>1, WordAssumption, RecentAssumption DEF TypeInv, TypeOK, Passes, Refusal
  <2>3. fork >= RecentBlocks
    BY <2>2
  <2>4. /\ UNCHANGED <<args, fork, segregate, mitigate, chain_height, num_outs>>
        /\ pc = "window" /\ pc' = "sources" /\ WindowNeeded
    BY <1>5 DEF FetchWindow, runVars, flagVars
  <2>5. QED
    BY <2>3, <2>4 DEF SupplyBook, WindowTaken, WindowNeeded, IsAfter
<1>6. CASE /\ pc = "sources" /\ pc' = "done"
           /\ UNCHANGED <<args, fork, segregate, mitigate, chain_height, num_outs, till_fork>>
  BY <1>6 DEF SupplyBook, WindowTaken, WindowNeeded, IsAfter
<1>7. CASE /\ pc' \in {"usage", "thrown"}
           /\ UNCHANGED <<args, fork, segregate, mitigate, chain_height, num_outs, till_fork>>
  BY <1>7 DEF SupplyBook, WindowTaken, WindowNeeded, IsAfter
<1>8. CASE UNCHANGED <<pc, args, fork, segregate, mitigate, chain_height, num_outs, till_fork>>
  BY <1>8 DEF SupplyBook, WindowTaken, WindowNeeded, IsAfter
<1>9. QED
  <2>1. AllSourcesDone =>
          /\ pc = "sources" /\ pc' = "done"
          /\ UNCHANGED <<args, fork, segregate, mitigate, chain_height, num_outs, till_fork>>
    BY DEF AllSourcesDone, runVars, flagVars, limitVars
  <2>2. RefuseArguments \/ OffsetsFail \/ WindowRefused \/ WindowMissing \/ RpcFails =>
          /\ pc' \in {"usage", "thrown"}
          /\ UNCHANGED <<args, fork, segregate, mitigate, chain_height, num_outs, till_fork>>
    BY DEF RefuseArguments, OffsetsFail, WindowRefused, WindowMissing, RpcFails, Throw, runVars,
           flagVars, limitVars
  <2>3. CheckReal \/ ChainChanges \/ Ended \/ UNCHANGED vars =>
          UNCHANGED <<pc, args, fork, segregate, mitigate, chain_height, num_outs, till_fork>>
    BY DEF CheckReal, ChainChanges, Ended, vars, toolVars, runVars, flagVars, limitVars
  <2>4. QED
    BY <1>1, <1>2, <1>3, <1>4, <1>5, <1>6, <1>7, <1>8, <2>1, <2>2, <2>3 DEF Next

LEMMA AlwaysSupplyBook == Spec => []SupplyBook
<1>1. Init => SupplyBook
  BY DEF Init, SupplyBook, WindowTaken
<1>2. Spec => []TypeInv
  <2>1. Inv => TypeInv
    BY DEF Inv
  <2>2. QED
    BY <2>1, AlwaysInv, PTL
<1>3. QED
  BY <1>1, <1>2, NextSupplyBook, PTL DEF Spec

\* An accepted command line has a sequence of numbers for its real indices.
LEMMA RealsAreSupplied ==
  ASSUME NEW a \in CommandLines, Accepted(a)
  PROVE  RealIndices(a) \in Seq(Nat) \ {<<>>}
<1> DEFINE p == Positional(a)
           n == Len(p) - 1
           f == [i \in 1 .. n |-> Stoull(p[i + 1])]
<1>1. p \in Seq(Argument)
  BY ArgumentsAssumption, PositionalIs
<1>2. n \in Nat /\ n > 0
  BY <1>1 DEF Accepted, WrongUsage
<1>3. RealIndices(a) = f
  BY DEF RealIndices
<1> HIDE DEF p
<1>4. DOMAIN f = 1 .. n
  OBVIOUS
<1> HIDE DEF n, f
<1>5. PICK r : r = RealIndices(a)
  OBVIOUS
<1>6. Len(r) \in Nat /\ \A k \in 1 .. Len(r) : r[k] \in Nat
  BY <1>5, RealIsNat
<1>7. r \in Seq(Nat) /\ Len(r) = n
  <2>1. r = f
    BY <1>3, <1>5
  <2>2. Len(f) = n
    BY <1>2, <1>4
  <2>3. \A k \in 1 .. n : f[k] \in Nat
    BY <1>6, <2>1, <2>2
  <2>4. f = [i \in 1 .. n |-> f[i]]
    BY <1>4 DEF f
  <2>5. f \in [1 .. n -> Nat]
    BY <2>3, <2>4
  <2>6. f \in Seq(Nat)
    BY <1>2, <2>5
  <2>7. QED
    BY <2>1, <2>2, <2>6
<1>8. r # <<>>
  BY <1>2, <1>7
<1>9. QED
  BY <1>5, <1>7, <1>8

\* main.cpp:396-451, for any command line and any answers: when the sources begin there is
\* a real index, each is a number, there are outputs to draw from, and till_fork is 0
\* unless a window was fetched.  It is what module DecoySelection assumes of its run.
THEOREM SelectionStartsWell == Spec => []SelectionIsSupplied
<1>1. TypeInv /\ SupplyBook => SelectionIsSupplied
  <2> SUFFICES ASSUME TypeInv, SupplyBook, pc \in {"sources", "done"}
               PROVE  /\ RealIndices(args) \in Seq(Nat) \ {<<>>}
                      /\ num_outs \in Nat \ {0}
                      /\ till_fork \in Nat /\ (~WindowNeeded => till_fork = 0)
    BY DEF SelectionIsSupplied
  <2>1. args \in CommandLines /\ Accepted(args)
    BY DEF SupplyBook, TypeInv, TypeOK
  <2>2. RealIndices(args) \in Seq(Nat) \ {<<>>}
    BY <2>1, RealsAreSupplied
  <2>3. num_outs \in Nat \ {0}
    BY DEF SupplyBook, TypeInv, TypeOK
  <2>4. till_fork \in Nat /\ (~WindowNeeded => till_fork = 0)
    BY DEF SupplyBook, TypeInv, TypeOK
  <2>5. QED
    BY <2>2, <2>3, <2>4
<1>2. Inv => TypeInv
  BY DEF Inv
<1>3. QED
  BY <1>1, <1>2, AlwaysInv, AlwaysSupplyBook, PTL

\* main.cpp:276 and README.md:56-57, for any chain: the run that refutes
\* PreForkRangeIsBeforeFork is no accident of its chain.  As long as the fork block is not
\* replaced, the pre-fork range ends before it exactly if it has no RingCT outputs.
THEOREM ForkBlockIsCounted == Spec => []FullForkBlockCounts
<1>1. Inv /\ SupplyBook => FullForkBlockCounts
  <2> SUFFICES ASSUME Inv, SupplyBook, honest, WindowTaken, fork < stable
               PROVE  till_fork <= chain[fork] <=> chain[fork + 1] = chain[fork]
    BY DEF FullForkBlockCounts
  <2>1. fork < Len(chain) /\ till_fork = chain[fork + 1]
    BY DEF Inv, TillBook
  <2>2. chain \in Seq(Nat) /\ Cumulative(chain) /\ fork \in Nat /\ fork >= RecentBlocks
    BY WordAssumption DEF Inv, TypeInv, TypeOK, ChainBook, SupplyBook
  <2>3. fork \in DOMAIN chain /\ fork + 1 \in DOMAIN chain /\ fork <= fork + 1
    BY <2>1, <2>2, RecentAssumption
  <2>4. chain[fork] \in Nat /\ chain[fork + 1] \in Nat /\ chain[fork] <= chain[fork + 1]
    BY <2>2, <2>3 DEF Cumulative
  <2>5. QED
    BY <2>1, <2>4
<1>2. QED
  BY <1>1, AlwaysInv, AlwaysSupplyBook, PTL

=============================================================================
