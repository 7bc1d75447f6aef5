-------------------------- MODULE DaemonChain_proofs --------------------------
(***************************************************************************)
(* Lemmas about the daemon: what stays of a chain that grows and is        *)
(* replaced, and in which block an output is.  The proofs about the        *)
(* modules that extend DaemonChain rest on them.                           *)
(***************************************************************************)
EXTENDS DaemonChain, WellFoundedInduction, TLAPS

LEMMA SmallestIn ==
  ASSUME NEW S \in SUBSET Nat, S # {}
  PROVE  \E x \in S : \A y \in S : x <= y
<1> DEFINE R == OpToRel(<, Nat)
<1>1. PICK x \in S : \A y \in S : <<y, x>> \notin R
  <2>1. IsWellFoundedOn(R, Nat)
    BY NatLessThanWellFounded
  <2> HIDE DEF R
  <2>2. QED
    BY <2>1, WFMin
<1>2. \A y \in S : ~(y < x)
  BY <1>1 DEF OpToRel
<1>3. \A y \in S : x <= y
  BY <1>2
<1>4. QED
  BY <1>3

\* A sequence and what it is made of.
LEMMA AddedToSet ==
  ASSUME NEW S, NEW s \in Seq(S), NEW x
  PROVE  /\ Append(s, x) \in Seq(S \cup {x})
         /\ ToSet(Append(s, x)) = ToSet(s) \cup {x}
<1> DEFINE X == S \cup {x}
           t == Append(s, x)
           n == Len(s)
<1>1. s \in Seq(X) /\ n \in Nat /\ DOMAIN s = 1 .. n
  OBVIOUS
<1> HIDE DEF X
<1>2. x \in X
  BY DEF X
<1>3. /\ t \in Seq(X) /\ Len(t) = n + 1 /\ DOMAIN t = 1 .. n + 1
      /\ t[n + 1] = x /\ \A k \in 1 .. n : t[k] = s[k]
  BY <1>1, <1>2
<1> HIDE DEF t, n
<1>4. ToSet(t) = ToSet(s) \cup {x}
  <2>1. ASSUME NEW k \in DOMAIN t PROVE t[k] \in ToSet(s) \cup {x}
    <3>1. CASE k = n + 1
      BY <1>3, <3>1
    <3>2. CASE k \in 1 .. n
      BY <1>1, <1>3, <3>2 DEF ToSet
    <3>3. QED
      BY <1>1, <1>3, <3>1, <3>2
  <2>2. ASSUME NEW y \in ToSet(s) \cup {x} PROVE \E k \in DOMAIN t : t[k] = y
    <3>1. CASE y = x
      <4>1. n + 1 \in DOMAIN t
        BY <1>1, <1>3
      <4>2. QED
        BY <1>3, <3>1, <4>1
    <3>2. CASE y \in ToSet(s)
      <4>1. PICK k \in 1 .. n : s[k] = y
        BY <1>1, <3>2 DEF ToSet
      <4>2. k \in DOMAIN t /\ t[k] = y
        BY <1>1, <1>3, <4>1
      <4>3. QED
        BY <4>2
    <3>3. QED
      BY <3>1, <3>2
  <2>3. QED
    BY <2>1, <2>2 DEF ToSet
<1>5. QED
  BY <1>3, <1>4 DEF X, t

----------------------------------------------------------------------------
(* Chains as sequences.                                                    *)

LEMMA FirstBlocks ==
  ASSUME NEW c \in Seq(Nat), Cumulative(c), NEW h \in 1 .. Len(c)
  PROVE  /\ SubSeq(c, 1, h) \in Seq(Nat) /\ Len(SubSeq(c, 1, h)) = h
         /\ \A k \in 1 .. h : SubSeq(c, 1, h)[k] = c[k]
         /\ Cumulative(SubSeq(c, 1, h))
<1>1. h \in Nat /\ h <= Len(c) /\ h > 0
  OBVIOUS
<1> DEFINE d == SubSeq(c, 1, h)
<1>2. d \in Seq(Nat) /\ Len(d) = h /\ \A k \in 1 .. h : d[k] = c[k]
  BY <1>1
<1> HIDE DEF d
<1>3. DOMAIN d = 1 .. h /\ 1 .. h \subseteq DOMAIN c
  BY <1>1, <1>2
<1>4. Cumulative(d)
  BY <1>2, <1>3 DEF Cumulative
<1>5. QED
  BY <1>2, <1>4 DEF d

LEMMA PartOf ==
  ASSUME NEW c \in Seq(Nat), NEW m \in Nat \ {0}, NEW n \in Nat, n <= Len(c)
  PROVE  /\ SubSeq(c, m, n) \in Seq(Nat)
         /\ Len(SubSeq(c, m, n)) = Larger(n + 1 - m, 0)
         /\ \A i \in 1 .. Len(SubSeq(c, m, n)) :
              m + i - 1 <= n /\ SubSeq(c, m, n)[i] = c[m + i - 1]
<1>1. CASE m <= n
  BY <1>1 DEF Larger
<1>2. CASE m > n
  <2>1. SubSeq(c, m, n) = <<>>
    BY <1>2
  <2>2. QED
    BY <1>2, <2>1 DEF Larger
<1>3. QED
  BY <1>1, <1>2

LEMMA PartIsCumulative ==
  ASSUME NEW c \in Seq(Nat), Cumulative(c), NEW m \in Nat \ {0}, NEW n \in Nat, n <= Len(c)
  PROVE  Cumulative(SubSeq(c, m, n))
<1> DEFINE d == SubSeq(c, m, n)
<1>1. /\ d \in Seq(Nat) /\ Len(d) = Larger(n + 1 - m, 0)
      /\ \A i \in 1 .. Len(d) : m + i - 1 <= n /\ d[i] = c[m + i - 1]
  BY PartOf
<1> HIDE DEF d
<1>2. ASSUME NEW a \in DOMAIN d, NEW b \in DOMAIN d, a <= b
      PROVE  d[a] <= d[b]
  <2>1. a \in 1 .. Len(d) /\ b \in 1 .. Len(d)
    BY <1>1
  <2>2. m + a - 1 \in DOMAIN c /\ m + b - 1 \in DOMAIN c /\ m + a - 1 <= m + b - 1
    <3>1. m + a - 1 <= n /\ m + b - 1 <= n
      BY <1>1, <2>1
    <3>2. a \in Nat /\ b \in Nat /\ a >= 1 /\ b >= 1 /\ m >= 1 /\ m \in Nat
      BY <1>1, <2>1
    <3>3. QED
      BY <1>2, <3>1, <3>2
  <2>3. c[m + a - 1] <= c[m + b - 1]
    BY <2>2 DEF Cumulative
  <2>4. QED
    BY <1>1, <2>1, <2>3
<1>3. QED
  BY <1>2 DEF Cumulative, d

LEMMA OneMoreBlock ==
  ASSUME NEW c \in Seq(Nat), Cumulative(c), Len(c) > 0, NEW n \in BlockOutputs
  PROVE  /\ WithBlock(c, n) \in Seq(Nat) /\ Len(WithBlock(c, n)) = Len(c) + 1
         /\ \A k \in 1 .. Len(c) : WithBlock(c, n)[k] = c[k]
         /\ Cumulative(WithBlock(c, n))
<1> DEFINE x == Last(c) + (IF Len(c) < RctStart THEN 0 ELSE n)
           d == WithBlock(c, n)
<1>1. Last(c) = c[Len(c)] /\ Last(c) \in Nat /\ n \in Nat
  BY OutputsAssumption DEF Last
<1>2. x \in Nat /\ c[Len(c)] <= x
  BY <1>1
<1>3. d = Append(c, x)
  BY DEF WithBlock
<1> HIDE DEF d, x
<1>4. d \in Seq(Nat) /\ Len(d) = Len(c) + 1 /\ d[Len(c) + 1] = x /\ \A k \in 1 .. Len(c) : d[k] = c[k]
  BY <1>2, <1>3
<1>5. ASSUME NEW a \in DOMAIN d, NEW b \in DOMAIN d, a <= b
      PROVE  d[a] <= d[b]
  <2>1. a \in 1 .. Len(c) + 1 /\ b \in 1 .. Len(c) + 1 /\ Len(c) \in Nat
    BY <1>4
  <2>2. CASE b <= Len(c)
    <3>1. a \in DOMAIN c /\ b \in DOMAIN c /\ d[a] = c[a] /\ d[b] = c[b]
      BY <1>4, <1>5, <2>1, <2>2
    <3>2. QED
      BY <1>5, <3>1 DEF Cumulative
  <2>3. CASE a <= Len(c) /\ b = Len(c) + 1
    <3>1. a \in DOMAIN c /\ Len(c) \in DOMAIN c /\ a <= Len(c)
      BY <2>1, <2>3
    <3>2. c[a] <= c[Len(c)] /\ c[a] \in Nat /\ c[Len(c)] \in Nat
      BY <3>1 DEF Cumulative
    <3>3. d[a] = c[a] /\ d[b] = x
      BY <1>4, <2>1, <2>3
    <3>4. QED
      BY <1>2, <3>2, <3>3
  <2>4. CASE a = Len(c) + 1 /\ b = Len(c) + 1
    BY <1>2, <1>4, <2>4
  <2>5. QED
    BY <1>5, <2>1, <2>2, <2>3, <2>4
<1>6. QED
  BY <1>4, <1>5 DEF Cumulative, d

----------------------------------------------------------------------------
(* The block an output is in.                                              *)

\* There is at most one block that ends after an index and does not start after it.
LEMMA HeightIs ==
  ASSUME NEW c \in Seq(Nat), Cumulative(c), NEW i \in Nat, NEW h \in 0 .. Len(c) - 1,
         c[h + 1] > i, h > 0 => c[h] <= i
  PROVE  HeightIn(c, i) = h
<1> DEFINE Is(g) == c[g + 1] > i /\ (g > 0 => c[g] <= i)
<1>1. ASSUME NEW g \in 0 .. Len(c) - 1, Is(g) PROVE g = h
  <2>1. ASSUME NEW a \in 0 .. Len(c) - 1, NEW b \in 0 .. Len(c) - 1, Is(a), Is(b)
        PROVE  ~(a < b)
    <3>1. SUFFICES ASSUME a < b PROVE FALSE
      OBVIOUS
    <3>2. a + 1 \in DOMAIN c /\ b \in DOMAIN c /\ a + 1 <= b /\ b > 0
      BY <3>1
    <3>3. c[a + 1] <= c[b] /\ c[a + 1] \in Nat /\ c[b] \in Nat
      BY <3>2 DEF Cumulative
    <3>4. c[a + 1] > i /\ c[b] <= i
      BY <2>1, <3>2
    <3>5. QED
      BY <3>3, <3>4
  <2>2. Is(h)
    OBVIOUS
  <2>3. ~(g < h) /\ ~(h < g)
    BY <1>1, <2>1, <2>2
  <2>4. QED
    BY <2>3
<1>2. \E g \in 0 .. Len(c) - 1 : Is(g)
  OBVIOUS
<1> DEFINE g == CHOOSE x \in 0 .. Len(c) - 1 : Is(x)
<1>3. g \in 0 .. Len(c) - 1 /\ Is(g)
  BY <1>2
<1>4. HeightIn(c, i) = g
  BY DEF HeightIn
<1> HIDE DEF g
<1>5. QED
  BY <1>1, <1>3, <1>4

\* Every output that exists is in a block.
LEMMA HeightExists ==
  ASSUME NEW c \in Seq(Nat), Len(c) > 0, Cumulative(c), NEW i \in Nat, i < Last(c)
  PROVE  /\ HeightIn(c, i) \in 0 .. Len(c) - 1
         /\ c[HeightIn(c, i) + 1] > i
         /\ HeightIn(c, i) > 0 => c[HeightIn(c, i)] <= i
<1> DEFINE S == {h \in 0 .. Len(c) - 1 : c[h + 1] > i}
<1>1. S \in SUBSET Nat /\ Len(c) - 1 \in S
  BY DEF Last
<1>2. PICK h \in S : \A g \in S : h <= g
  BY <1>1, SmallestIn
<1>3. h \in 0 .. Len(c) - 1 /\ c[h + 1] > i
  OBVIOUS
<1>4. ASSUME h > 0 PROVE c[h] <= i
  <2>1. h - 1 \in 0 .. Len(c) - 1 /\ (h - 1) + 1 = h /\ ~(h <= h - 1)
    BY <1>3, <1>4
  <2>2. ~(c[h] > i)
    BY <1>2, <2>1
  <2>3. c[h] \in Nat
    BY <1>3, <1>4
  <2>4. QED
    BY <2>2, <2>3
<1>5. HeightIn(c, i) = h
  BY <1>3, <1>4, HeightIs
<1>6. QED
  BY <1>3, <1>4, <1>5

\* Two chains with the same first n blocks.
ShareBlocks(c, d, n) ==
  /\ c \in Seq(Nat) /\ Len(c) > 0 /\ Cumulative(c)
  /\ d \in Seq(Nat) /\ Cumulative(d)
  /\ n \in Nat /\ n <= Len(c) /\ n <= Len(d)
  /\ \A k \in 1 .. n : d[k] = c[k]

\* An output is in the same block of two chains that agree up to that block.
LEMMA HeightKept ==
  ASSUME NEW c, NEW d, NEW n, ShareBlocks(c, d, n), NEW i \in Nat,
         i < Last(c), HeightIn(c, i) < n
  PROVE  /\ i < Last(d) /\ HeightIn(d, i) = HeightIn(c, i)
         /\ HeightIn(c, i) \in 0 .. n - 1
<1>0. /\ c \in Seq(Nat) /\ Len(c) > 0 /\ Cumulative(c)
      /\ d \in Seq(Nat) /\ Cumulative(d)
      /\ n \in Nat /\ n <= Len(c) /\ n <= Len(d)
      /\ \A k \in 1 .. n : d[k] = c[k]
  BY DEF ShareBlocks
<1> DEFINE h == HeightIn(c, i)
<1>1. h \in 0 .. Len(c) - 1 /\ c[h + 1] > i /\ (h > 0 => c[h] <= i)
  BY <1>0, HeightExists
<1>2. h < n /\ n \in Nat
  BY <1>0
<1> HIDE DEF h
<1>3. h \in 0 .. n - 1 /\ h + 1 \in 1 .. n /\ (h > 0 => h \in 1 .. n)
  BY <1>1, <1>2
<1>4. d[h + 1] = c[h + 1] /\ (h > 0 => d[h] = c[h])
  BY <1>0, <1>3
<1>5. h \in 0 .. Len(d) - 1 /\ d[h + 1] > i /\ (h > 0 => d[h] <= i)
  BY <1>0, <1>1, <1>3, <1>4
<1>6. HeightIn(d, i) = h
  BY <1>0, <1>5, HeightIs
<1>7. i < Last(d)
  <2>1. Len(d) \in DOMAIN d /\ h + 1 \in DOMAIN d /\ h + 1 <= Len(d) /\ Last(d) = d[Len(d)]
    BY <1>0, <1>3 DEF Last
  <2>2. d[h + 1] <= d[Len(d)] /\ d[h + 1] \in Nat /\ d[Len(d)] \in Nat
    BY <1>0, <2>1 DEF Cumulative
  <2>3. QED
    BY <1>5, <2>1, <2>2
<1>8. QED
  BY <1>3, <1>4, <1>6, <1>7 DEF h

----------------------------------------------------------------------------
(* How the chain changes.                                                  *)

\* Once a block was replaced, the chain is longer than what was never replaced.
ChainBook ==
  /\ chain \in Seq(Nat) /\ Len(chain) \in 1 .. MaxHeight /\ Cumulative(chain)
  /\ stable \in 0 .. MaxHeight /\ reorgs \in 0 .. MaxReorgs
  /\ reorgs = 0 => stable = MaxHeight
  /\ reorgs > 0 => stable < Len(chain)

LEMMA InitChainBook == ChainInit => ChainBook
BY ChainsAssumption, BoundsAssumption DEF ChainInit, ChainBook

\* A step of the chain keeps its first blocks and puts one behind them; a
\* replacement keeps at least those that are stable afterwards.
LEMMA ChainStep ==
  ASSUME ChainBook, Grow \/ Reorg
  PROVE  /\ ChainBook'
         /\ \E h \in 1 .. Len(chain) :
              /\ Len(chain') = h + 1
              /\ \A k \in 1 .. h : chain'[k] = chain[k]
              /\ stable' <= stable
              /\ \/ Grow /\ h = Len(chain) /\ stable' = stable /\ reorgs' = reorgs
                 \/ Reorg /\ h < Len(chain) /\ stable' <= h /\ reorgs' = reorgs + 1
<1>1. /\ chain \in Seq(Nat) /\ Len(chain) \in 1 .. MaxHeight /\ Cumulative(chain)
      /\ stable \in 0 .. MaxHeight /\ reorgs \in 0 .. MaxReorgs
      /\ MaxHeight \in Nat /\ MaxReorgs \in Nat
  BY BoundsAssumption DEF ChainBook
<1>2. CASE Grow
  <2>1. PICK n \in BlockOutputs : chain' = WithBlock(chain, n)
    BY <1>2 DEF Grow
  <2>2. Len(chain) < MaxHeight /\ reorgs' = reorgs /\ stable' = stable
    BY <1>2 DEF Grow
  <2>3. /\ chain' \in Seq(Nat) /\ Len(chain') = Len(chain) + 1 /\ Cumulative(chain')
        /\ \A k \in 1 .. Len(chain) : chain'[k] = chain[k]
    BY <1>1, <2>1, OneMoreBlock
  <2>4. ChainBook'
    BY <1>1, <2>2, <2>3 DEF ChainBook
  <2>5. Len(chain) \in 1 .. Len(chain) /\ stable' <= stable
    BY <1>1, <2>2
  <2>6. QED
    BY <1>2, <2>2, <2>3, <2>4, <2>5
<1>3. CASE Reorg
  <2>1. PICK h \in 1 .. Len(chain) - 1, n \in BlockOutputs :
          chain' = WithBlock(SubSeq(chain, 1, h), n) /\ stable' = Smaller(stable, h)
    BY <1>3 DEF Reorg
  <2>2. reorgs < MaxReorgs /\ reorgs' = reorgs + 1
    BY <1>3 DEF Reorg
  <2>3. h \in 1 .. Len(chain) /\ h < Len(chain) /\ h \in Nat /\ h > 0
    BY <1>1, <2>1
  <2> DEFINE c == SubSeq(chain, 1, h)
  <2>4. /\ c \in Seq(Nat) /\ Len(c) = h /\ Cumulative(c)
        /\ \A k \in 1 .. h : c[k] = chain[k]
    BY <1>1, <2>3, FirstBlocks
  <2>5. chain' = WithBlock(c, n)
    BY <2>1
  <2> HIDE DEF c
  <2>6. /\ chain' \in Seq(Nat) /\ Len(chain') = h + 1 /\ Cumulative(chain')
        /\ \A k \in 1 .. h : chain'[k] = chain[k]
    <3>1. /\ WithBlock(c, n) \in Seq(Nat) /\ Len(WithBlock(c, n)) = Len(c) + 1
          /\ \A k \in 1 .. Len(c) : WithBlock(c, n)[k] = c[k]
          /\ Cumulative(WithBlock(c, n))
      BY <2>3, <2>4, OneMoreBlock
    <3>2. QED
      BY <2>4, <2>5, <3>1
  <2>7. stable' <= stable /\ stable' <= h /\ stable' \in Nat
    BY <1>1, <2>1, <2>3 DEF Smaller
  <2>8. ChainBook'
    BY <1>1, <2>2, <2>3, <2>6, <2>7 DEF ChainBook
  <2>9. QED
    BY <1>3, <2>2, <2>3, <2>6, <2>7, <2>8
<1>4. QED
  BY <1>2, <1>3

\* There are no RingCT outputs before RctStart, also in the blocks that come later.
EarlyBlocks(c) == \A i \in DOMAIN c : i <= RctStart => c[i] = 0

LEMMA OneMoreEarly ==
  ASSUME NEW c \in Seq(Nat), Cumulative(c), Len(c) > 0, EarlyBlocks(c), NEW n \in BlockOutputs
  PROVE  EarlyBlocks(WithBlock(c, n))
<1> DEFINE x == Last(c) + (IF Len(c) < RctStart THEN 0 ELSE n)
           d == WithBlock(c, n)
<1>1. Last(c) = c[Len(c)] /\ Last(c) \in Nat /\ n \in Nat /\ RctStart \in Nat
  BY OutputsAssumption, RctStartAssumption DEF Last
<1>2. x \in Nat /\ d = Append(c, x)
  BY <1>1 DEF WithBlock
<1>3. Len(c) < RctStart => x = 0
  BY <1>1 DEF EarlyBlocks
<1> HIDE DEF d, x
<1>4. /\ DOMAIN d = 1 .. Len(c) + 1 /\ Len(c) \in Nat /\ d[Len(c) + 1] = x
      /\ \A i \in 1 .. Len(c) : d[i] = c[i]
  BY <1>2
<1>5. ASSUME NEW i \in DOMAIN d, i <= RctStart PROVE d[i] = 0
  <2>1. CASE i = Len(c) + 1
    BY <1>1, <1>3, <1>4, <1>5, <2>1
  <2>2. CASE i \in 1 .. Len(c)
    BY <1>4, <1>5, <2>2 DEF EarlyBlocks
  <2>3. QED
    BY <1>4, <1>5, <2>1, <2>2
<1>6. QED
  BY <1>5 DEF EarlyBlocks, d

LEMMA EarlyStep ==
  ASSUME ChainBook, EarlyBlocks(chain), Grow \/ Reorg
  PROVE  EarlyBlocks(chain')
<1>1. chain \in Seq(Nat) /\ Len(chain) > 0 /\ Cumulative(chain)
  BY DEF ChainBook
<1>2. CASE Grow
  <2>1. PICK n \in BlockOutputs : chain' = WithBlock(chain, n)
    BY <1>2 DEF Grow
  <2>2. QED
    BY <1>1, <2>1, OneMoreEarly
<1>3. CASE Reorg
  <2>1. PICK h \in 1 .. Len(chain) - 1, n \in BlockOutputs :
          chain' = WithBlock(SubSeq(chain, 1, h), n)
    BY <1>3 DEF Reorg
  <2> DEFINE c == SubSeq(chain, 1, h)
  <2>2. h \in 1 .. Len(chain)
    BY <1>1, <2>1
  <2>3. /\ c \in Seq(Nat) /\ Len(c) = h /\ Cumulative(c)
        /\ \A k \in 1 .. h : c[k] = chain[k]
    BY <1>1, <2>2, FirstBlocks
  <2>4. EarlyBlocks(c) /\ Len(c) > 0
    BY <1>1, <2>2, <2>3 DEF EarlyBlocks
  <2> HIDE DEF c
  <2>5. EarlyBlocks(WithBlock(c, n))
    BY <2>1, <2>3, <2>4, OneMoreEarly
  <2>6. QED
    BY <2>1, <2>5 DEF c
<1>4. QED
  BY <1>2, <1>3

=============================================================================
