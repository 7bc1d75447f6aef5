--------------------------- MODULE DecoyTool_proofs ---------------------------
(***************************************************************************)
(* Theorems about DecoyTool, for any sources, pool, daemon's chain and any *)
(* growth and replacement of it: main() on a live chain takes the steps of *)
(* DecoySelection; ring members keep pairing an index with its output,     *)
(* decoys stay unlocked, and only miners' outputs are found locked.        *)
(***************************************************************************)
EXTENDS DecoyTool, DecoySelection_proofs, DaemonChain_proofs

----------------------------------------------------------------------------
(* The composition.                                                        *)

\* What is proved of the steps of DecoySelection, where the daemon may answer anything,
\* holds of the steps of the tool, whose answers come from a chain.
LEMMA ToolStep == [ToolNext]_allVars => [Next]_vars
BY DEF ToolNext, ToolCheckReal, ToolFetchStatus, ToolBuildRing, Elsewhere, ChainChanges, allVars,
       Next, Tool, Fill

SelectionInv == TypeInv /\ PoolSound /\ JobBook

LEMMA InitSelectionInv == Init => SelectionInv
<1> SUFFICES ASSUME Init PROVE SelectionInv
  OBVIOUS
<1>1. JobBook
  BY EmptySeq DEF Init, JobBook, InSource, Publishing
<1>2. PoolSound
  BY DEF Init, PoolSound
<1>3. QED
  BY <1>1, <1>2, InitTypeInv DEF SelectionInv

LEMMA NextSelectionInv == SelectionInv /\ [ToolNext]_allVars => SelectionInv'
BY ToolStep, NextTypeInv, NextPoolSound, NextJobBook DEF SelectionInv

----------------------------------------------------------------------------
(* The answers.                                                            *)

\* A failure shows: the transfer fails, or nothing is in the answer.
LEMMA FailureShows ==
  ASSUME NEW f, NEW v, NEW r \in Failures(Reply(f, v))
  PROVE  DirectPostThrows(r) \/ r.fields = {}
<1> DEFINE q == Reply(f, v)
<1>1. \/ r = [q EXCEPT !.curl = "partial file", !.json = FALSE]
      \/ r = [q EXCEPT !.json = FALSE]
      \/ r = [q EXCEPT !.curl = "failed"]
      \/ r = [q EXCEPT !.http_code = 500]
      \/ r = [q EXCEPT !.fields = {}]
  BY DEF Failures, CutOff
<1>2. r.json = FALSE \/ r.curl = "failed" \/ r.http_code = 500 \/ r.fields = {}
  <2>1. DOMAIN q = {"curl", "http_code", "json", "fields", "values"}
    BY DEF Reply
  <2> HIDE DEF q
  <2>2. CASE r = [q EXCEPT !.curl = "partial file", !.json = FALSE]
    BY <2>1, <2>2
  <2>3. CASE r = [q EXCEPT !.json = FALSE]
    BY <2>1, <2>3
  <2>4. CASE r = [q EXCEPT !.curl = "failed"]
    BY <2>1, <2>4
  <2>5. CASE r = [q EXCEPT !.http_code = 500]
    BY <2>1, <2>5
  <2>6. CASE r = [q EXCEPT !.fields = {}]
    BY <2>1, <2>6
  <2>7. QED
    BY <1>1, <2>2, <2>3, <2>4, <2>5, <2>6
<1>3. QED
  <2>1. r.json = FALSE => ~r.json
    BY Zenon
  <2>2. r.curl = "failed" => r.curl # "ok"
    OBVIOUS
  <2>3. r.http_code = 500 => r.http_code # 200
    OBVIOUS
  <2>4. QED
    BY <1>2, <2>1, <2>2, <2>3, Zenon DEF DirectPostThrows

LEMMA PrefixLength ==
  ASSUME NEW X, NEW s \in Seq(X), NEW k \in 0 .. Len(s)
  PROVE  Len(SubSeq(s, 1, k)) = k
OBVIOUS

\* What fetch_outs returns is the whole answer: every output exists, and the i-th
\* result is about the i-th index.
LEMMA FetchedWhole ==
  ASSUME NEW indices \in Seq(Nat), NEW outs \in Fetched(indices)
  PROVE  \A i \in DOMAIN indices : Exists(indices[i]) /\ OutAt(outs, i) = OutputAt(indices[i])
<1> DEFINE v == [i \in DOMAIN indices |-> OutputAt(indices[i])]
           n == Len(indices)
           X == {OutputAt(indices[i]) : i \in DOMAIN indices}
<1>1. n \in Nat /\ DOMAIN indices = 1 .. n
  BY LenProperties
<1>2. v \in Seq(X) /\ Len(v) = n /\ DOMAIN v = 1 .. n
  <2>1. v \in [1 .. n -> X]
    BY <1>1
  <2>2. QED
    BY <1>1, <2>1, FunctionIsSeq
<1>3. Outs(v).values = v
  BY DEF Outs, Reply
<1>4. PICK r :
        /\ ~FetchOutsThrows(r, n) /\ outs = r.values
        /\ r \in (IF \E i \in DOMAIN indices : ~Exists(indices[i]) THEN {Error}
                  ELSE {Outs(v)} \cup Failures(Outs(v)) \cup
                       {Outs(SubSeq(Outs(v).values, 1, k)) : k \in 0 .. n - 1})
  BY DEF Fetched
<1>5. r # Error
  BY <1>4 DEF Error, Reply, FetchOutsThrows
<1>6. r \notin Failures(Outs(v))
  BY <1>4, FailureShows DEF Outs, FetchOutsThrows
<1>7. ASSUME NEW k \in 0 .. n - 1 PROVE r # Outs(SubSeq(v, 1, k))
  <2>1. Len(SubSeq(v, 1, k)) = k /\ k # n
    <3>1. k \in 0 .. Len(v)
      BY <1>1, <1>2
    <3>2. Len(SubSeq(v, 1, k)) = k
      BY <1>2, <3>1, PrefixLength, Zenon
    <3>3. k # n
      <4> HIDE DEF n, v, X
      <4>1. k \in 0 .. n - 1 /\ n \in Nat
        BY <1>1
      <4>2. QED
        BY <4>1
    <3>4. QED
      BY <3>2, <3>3, Zenon
  <2> DEFINE w == SubSeq(v, 1, k)
  <2> HIDE DEF w
  <2>2. Outs(w).values = w
    BY DEF Outs, Reply
  <2>3. Len(w) # n
    BY <2>1 DEF w
  <2>4. Len(r.values) = n
    BY <1>4 DEF FetchOutsThrows
  <2>5. r # Outs(w)
    BY <2>2, <2>3, <2>4
  <2>6. QED
    BY <2>5 DEF w
<1>8. (\A i \in DOMAIN indices : Exists(indices[i])) /\ r = Outs(v)
  BY <1>3, <1>4, <1>5, <1>6, <1>7
<1>9. outs = v
  BY <1>3, <1>4, <1>8
<1>10. QED
  BY <1>8, <1>9 DEF OutAt

----------------------------------------------------------------------------
(* What a step of the chain leaves as it was.                              *)

ToolChainBook == ChainBook /\ born \in Seq(Nat) /\ Len(born) = Len(chain)

\* The first h blocks stay, and the one behind them is new.
Keeps(h) ==
  /\ h \in 1 .. Len(chain) /\ Len(chain') = h + 1
  /\ \A k \in 1 .. h : chain'[k] = chain[k] /\ born'[k] = born[k]
  /\ born'[h + 1] = reorgs'
  /\ \/ h = Len(chain) /\ reorgs' = reorgs
     \/ reorgs' = reorgs + 1

LEMMA ToolChainStep ==
  ASSUME ToolChainBook, ToolGrows \/ ToolReorgs
  PROVE  /\ ToolChainBook'
         /\ \E h \in 1 .. Len(chain) : Keeps(h)
<1>1. /\ born \in Seq(Nat) /\ Len(born) = Len(chain) /\ ChainBook
      /\ chain \in Seq(Nat) /\ Len(chain) \in Nat /\ reorgs \in Nat
  BY DEF ToolChainBook, ChainBook
<1>2. Grow \/ Reorg
  BY DEF ToolGrows, ToolReorgs
<1>3. PICK h \in 1 .. Len(chain) :
        /\ Len(chain') = h + 1
        /\ \A k \in 1 .. h : chain'[k] = chain[k]
        /\ stable' <= stable
        /\ \/ Grow /\ h = Len(chain) /\ stable' = stable /\ reorgs' = reorgs
           \/ Reorg /\ h < Len(chain) /\ stable' <= h /\ reorgs' = reorgs + 1
  BY <1>1, <1>2, ChainStep
<1>4. ChainBook'
  BY <1>1, <1>2, ChainStep
<1>5. h \in Nat /\ h <= Len(born) /\ h > 0
  BY <1>1
<1>6. reorgs' \in Nat
  BY <1>4 DEF ChainBook
<1>7. /\ born' \in Seq(Nat) /\ Len(born') = h + 1
      /\ \A k \in 1 .. h : born'[k] = born[k]
      /\ born'[h + 1] = reorgs'
  <2>1. CASE ToolGrows
    <3>1. h = Len(born) /\ born' = Append(born, reorgs) /\ reorgs' = reorgs
      BY <1>1, <1>3, <2>1 DEF ToolGrows, Grow
    <3>2. QED
      BY <1>1, <3>1
  <2>2. CASE ToolReorgs
    <3> DEFINE c == SubSeq(born, 1, h)
    <3>1. born' = Append(c, reorgs')
      <4>1. Len(chain') - 1 = h
        BY <1>3, <1>5
      <4>2. QED
        BY <2>2, <4>1 DEF ToolReorgs
    <3>2. c \in Seq(Nat) /\ Len(c) = h /\ \A k \in 1 .. h : c[k] = born[k]
      BY <1>1, <1>5
    <3> HIDE DEF c
    <3>3. QED
      BY <1>5, <1>6, <3>1, <3>2
  <2>3. QED
    BY <2>1, <2>2
<1>8. ToolChainBook'
  BY <1>3, <1>4, <1>7 DEF ToolChainBook
<1>9. QED
  BY <1>3, <1>7, <1>8 DEF Keeps

LEMMA KeptBlocks ==
  ASSUME ToolChainBook, ToolGrows \/ ToolReorgs, NEW h \in 1 .. Len(chain), Keeps(h)
  PROVE  /\ h \in Nat \ {0} /\ h <= Len(chain)
         /\ ShareBlocks(chain, chain', h) /\ ShareBlocks(chain', chain, h)
<1>1. /\ chain \in Seq(Nat) /\ Len(chain) \in Nat /\ Len(chain) > 0 /\ Cumulative(chain)
  BY DEF ToolChainBook, ChainBook
<1>2. chain' \in Seq(Nat) /\ Len(chain') > 0 /\ Cumulative(chain')
  <2>1. ToolChainBook'
    BY ToolChainStep
  <2>2. QED
    BY <2>1 DEF ToolChainBook, ChainBook
<1>3. h \in Nat /\ h <= Len(chain) /\ h <= Len(chain') /\ h > 0
  BY <1>1 DEF Keeps
<1>4. \A k \in 1 .. h : chain'[k] = chain[k] /\ chain[k] = chain'[k]
  BY DEF Keeps
<1>5. QED
  BY <1>1, <1>2, <1>3, <1>4 DEF ShareBlocks

\* An output in a block that stays is the same output, and unlocks at the same height.
LEMMA Stays ==
  ASSUME ToolChainBook, ToolGrows \/ ToolReorgs, NEW h \in 1 .. Len(chain), Keeps(h),
         NEW i \in Nat, Exists(i), HeightOf(i) < h
  PROVE  /\ Exists(i)' /\ HeightOf(i)' = HeightOf(i)
         /\ OutputAt(i)' = OutputAt(i) /\ IsMined(i)' = IsMined(i)
         /\ UnlockHeight(i)' = UnlockHeight(i) /\ born'[HeightOf(i) + 1] = born[HeightOf(i) + 1]
<1>1. h \in Nat \ {0} /\ ShareBlocks(chain, chain', h)
  BY KeptBlocks
<1> DEFINE g == HeightIn(chain, i)
<1>2. i < Last(chain') /\ HeightIn(chain', i) = g /\ g \in 0 .. h - 1
  <2>1. i < Last(chain) /\ HeightIn(chain, i) < h
    BY DEF Exists, HeightOf
  <2>2. QED
    BY <1>1, <2>1, HeightKept
<1> HIDE DEF g
<1>3. g + 1 \in 1 .. h /\ (g > 0 => g \in 1 .. h)
  BY <1>1, <1>2
<1>4. born'[g + 1] = born[g + 1] /\ (g > 0 => chain'[g] = chain[g])
  BY <1>3 DEF Keeps
<1>5. HeightOf(i) = g /\ HeightOf(i)' = g
  BY <1>2 DEF HeightOf, g
<1>6. IsMined(i)' = IsMined(i)
  <2>1. g \in Nat
    BY <1>1, <1>2
  <2>2. g = 0 \/ chain'[g] = chain[g]
    BY <1>4, <2>1
  <2>3. IsMined(i) = (g = 0 \/ i = chain[g]) /\ IsMined(i)' = (g = 0 \/ i = chain'[g])
    BY <1>5 DEF IsMined
  <2>4. QED
    BY <2>2, <2>3
<1>7. QED
  BY <1>2, <1>4, <1>5, <1>6 DEF Exists, OutputAt, UnlockHeight

\* An output in such a block after the step was there before it.
LEMMA WasThere ==
  ASSUME ToolChainBook, ToolGrows \/ ToolReorgs, NEW h \in 1 .. Len(chain), Keeps(h),
         NEW i \in Nat, Exists(i)', HeightOf(i)' < h
  PROVE  Exists(i) /\ HeightOf(i) < h
<1>1. h \in Nat \ {0} /\ ShareBlocks(chain', chain, h)
  BY KeptBlocks
<1>2. i < Last(chain') /\ HeightIn(chain', i) < h
  BY DEF Exists, HeightOf
<1>3. i < Last(chain) /\ HeightIn(chain, i) = HeightIn(chain', i)
  BY <1>1, <1>2, HeightKept
<1>4. QED
  BY <1>2, <1>3 DEF Exists, HeightOf

\* Where an output is.
LEMMA HeightRange ==
  ASSUME ToolChainBook, NEW i \in Nat, Exists(i)
  PROVE  HeightOf(i) \in 0 .. Len(chain) - 1 /\ (HeightOf(i) > 0 => chain[HeightOf(i)] <= i)
<1>1. chain \in Seq(Nat) /\ Len(chain) > 0 /\ Cumulative(chain) /\ i < Last(chain)
  BY DEF ToolChainBook, ChainBook, Exists
<1>2. QED
  BY <1>1, HeightExists DEF HeightOf

----------------------------------------------------------------------------
(* The books: what is remembered of the daemon's answers, whatever the     *)
(* chain did since.                                                        *)

\* An index that was asked about after v replacements exists, until there is another one.
Fetchable(i, v) == i \in Nat /\ v \in 0 .. reorgs /\ (v = reorgs => Exists(i))

\* The output o was the answer for the index i after v replacements.
Current(i, o, v) ==
  Fetchable(i, v) /\ (Exists(i) /\ Since(HeightOf(i), v) => o = OutputAt(i))

\* The index d was unlocked on a chain of n blocks, after v replacements.
Rooted(d, n, v) ==
  /\ d \in Nat /\ n \in Nat /\ v \in 0 .. reorgs /\ n - SpendableAge \in Nat
  /\ v = reorgs => Len(chain) >= n
  /\ n - SpendableAge < Len(chain) /\ Since(n - SpendableAge, v) =>
       Exists(d) /\ HeightOf(d) <= n - SpendableAge /\ UnlockHeight(d) <= n

RealBook == pc \in {"draw", "pool_status", "scan", "final_details"} => Current(Real, realOut.output, realOut.reorgs)

MembersBook ==
  /\ members \in Seq(ToSet(members))
  /\ \A m \in Members : Current(m.index, m.answer.output, m.answer.reorgs)

\* One pool was asked about for each finished ring, and one for the ring in work.
AskedBook ==
  /\ asked \in Seq([height : Nat, reorgs : Nat]) /\ Len(rings) <= Len(asked)
  /\ pc \in {"startup", "real_check", "draw", "pool_status"} => Len(asked) = Len(rings)
  /\ pc \in {"scan", "final_details"} => Len(asked) = Len(rings) + 1

RootedAt(d, a) == Rooted(d, a.height, a.reorgs)

StatusBook ==
  pc \in {"scan", "final_details"} =>
    /\ \A i \in DOMAIN status : status[i] => RootedAt(pool[i].index, Last(asked))
    /\ \A i \in DOMAIN confirmed : RootedAt(confirmed[i], Last(asked))

RingsBook ==
  \A k \in DOMAIN rings : \A d \in ToSet(rings[k].decoys) : RootedAt(d, asked[k])

\* While no block was replaced, the block that ends the eligible outputs is still there
\* and is still deep enough.
EligibleBook ==
  reorgs = 0 => \E n \in 1 .. (Len(chain) - SpendableAge) + 1 : chain[n] = NumOuts

Books ==
  /\ ToolChainBook /\ EligibleBook /\ OnlyMinedAreLocked
  /\ RealBook /\ MembersBook /\ AskedBook /\ StatusBook /\ RingsBook

ToolInv == SelectionInv /\ Books

\* Both outlive a step of the chain.
LEMMA CurrentStays ==
  ASSUME ToolChainBook, ToolGrows \/ ToolReorgs, NEW i, NEW o, NEW v, Current(i, o, v)
  PROVE  Current(i, o, v)'
<1>1. PICK h \in 1 .. Len(chain) : Keeps(h)
  BY ToolChainStep
<1>2. ToolChainBook'
  BY ToolChainStep
<1>3. /\ i \in Nat /\ v \in Nat /\ v <= reorgs /\ reorgs \in Nat /\ reorgs' \in Nat
      /\ h \in Nat \ {0} /\ (v = reorgs => Exists(i))
  BY <1>1, <1>2, KeptBlocks DEF Current, Fetchable, ToolChainBook, ChainBook
<1>4. ASSUME v = reorgs' PROVE Exists(i)' /\ HeightOf(i)' < h
  <2>1. h = Len(chain) /\ v = reorgs
    BY <1>1, <1>3, <1>4 DEF Keeps
  <2>2. Exists(i) /\ HeightOf(i) < h
    <3>1. HeightOf(i) \in 0 .. h - 1
      BY <1>3, <2>1, HeightRange
    <3>2. QED
      BY <1>3, <2>1, <3>1
  <2>3. QED
    BY <1>1, <1>3, <2>2, Stays
<1>5. Fetchable(i, v)'
  <2>1. v <= reorgs'
    BY <1>1, <1>3 DEF Keeps
  <2>2. QED
    BY <1>3, <1>4, <2>1 DEF Fetchable
<1>6. ASSUME Exists(i)', Since(HeightOf(i), v)' PROVE HeightOf(i)' < h
  <2>1. HeightOf(i)' \in 0 .. h
    <3>1. HeightOf(i)' \in 0 .. Len(chain') - 1
      <4>1. chain' \in Seq(Nat) /\ Len(chain') > 0 /\ Cumulative(chain') /\ i < Last(chain')
        BY <1>2, <1>6 DEF ToolChainBook, ChainBook, Exists
      <4>2. QED
        BY <1>3, <4>1, HeightExists DEF HeightOf
    <3>2. Len(chain') - 1 = h
      BY <1>1, <1>3 DEF Keeps
    <3>3. QED
      BY <3>1, <3>2
  <2>2. SUFFICES ASSUME HeightOf(i)' = h PROVE FALSE
    BY <1>3, <2>1
  <2>3. reorgs' <= v
    BY <1>1, <1>6, <2>2 DEF Keeps, Since
  <2>4. v = reorgs'
    BY <1>1, <1>3, <2>3 DEF Keeps
  <2>5. QED
    BY <1>3, <1>4, <2>2, <2>4
<1>7. ASSUME Exists(i)', Since(HeightOf(i), v)' PROVE o = OutputAt(i)'
  <2>1. Exists(i) /\ HeightOf(i) < h
    BY <1>1, <1>3, <1>6, <1>7, WasThere
  <2>2. /\ HeightOf(i)' = HeightOf(i) /\ OutputAt(i)' = OutputAt(i)
        /\ born'[HeightOf(i) + 1] = born[HeightOf(i) + 1]
    BY <1>1, <1>3, <2>1, Stays
  <2>3. Since(HeightOf(i), v)
    BY <1>7, <2>2 DEF Since
  <2>4. QED
    BY <2>1, <2>2, <2>3 DEF Current
<1>8. QED
  BY <1>5, <1>7 DEF Current

LEMMA RootedStays ==
  ASSUME ToolChainBook, ToolGrows \/ ToolReorgs, NEW d, NEW n, NEW v, Rooted(d, n, v)
  PROVE  Rooted(d, n, v)'
<1> DEFINE p == n - SpendableAge
<1>1. PICK h \in 1 .. Len(chain) : Keeps(h)
  BY ToolChainStep
<1>2. /\ d \in Nat /\ n \in Nat /\ v \in Nat /\ v <= reorgs /\ reorgs \in Nat /\ reorgs' \in Nat
      /\ h \in Nat \ {0} /\ Len(chain) \in Nat /\ (v = reorgs => Len(chain) >= n)
      /\ SpendableAge \in Nat \ {0} /\ p \in Nat
  <2>1. ToolChainBook'
    BY ToolChainStep
  <2>2. QED
    BY <1>1, <2>1, KeptBlocks, AgeAssumption DEF Rooted, ToolChainBook, ChainBook
<1>3. n = p + SpendableAge /\ n > p
  BY <1>2
<1> HIDE DEF p
<1>4. Len(chain') = h + 1
  BY <1>1 DEF Keeps
<1>5. v <= reorgs' /\ (v = reorgs' => v = reorgs /\ h = Len(chain))
  BY <1>1, <1>2 DEF Keeps
<1>6. v = reorgs' => Len(chain') >= n
  BY <1>2, <1>4, <1>5
<1>7. ASSUME p < Len(chain'), Since(p, v)'
      PROVE  Exists(d)' /\ HeightOf(d)' <= p /\ UnlockHeight(d)' <= n
  <2>1. p < h
    <3>1. SUFFICES ASSUME p = h PROVE FALSE
      BY <1>2, <1>4, <1>7
    <3>2. reorgs' <= v
      BY <1>1, <1>7, <3>1 DEF Keeps, Since
    <3>3. v = reorgs /\ h = Len(chain)
      BY <1>2, <1>5, <3>2
    <3>4. QED
      BY <1>2, <1>3, <3>1, <3>3
  <2>2. p < Len(chain) /\ p + 1 \in 1 .. h
    BY <1>1, <1>2, <2>1
  <2>3. Since(p, v)
    BY <1>1, <1>7, <2>2 DEF Keeps, Since
  <2>4. Exists(d) /\ HeightOf(d) <= p /\ UnlockHeight(d) <= n
    BY <2>2, <2>3 DEF Rooted, p
  <2>5. HeightOf(d) < h
    <3>1. HeightOf(d) \in 0 .. Len(chain) - 1
      BY <1>2, <2>4, HeightRange
    <3>2. QED
      BY <1>2, <2>1, <2>4, <3>1
  <2>6. Exists(d)' /\ HeightOf(d)' = HeightOf(d) /\ UnlockHeight(d)' = UnlockHeight(d)
    BY <1>1, <1>2, <2>4, <2>5, Stays
  <2>7. QED
    BY <2>4, <2>6
<1>8. QED
  BY <1>2, <1>5, <1>6, <1>7 DEF Rooted, p

ChainKept == UNCHANGED <<chainVars, born>>
ChainSteps == ToolGrows \/ ToolReorgs

LEMMA CurrentKept ==
  ASSUME ToolChainBook, ChainKept \/ ChainSteps, NEW i, NEW o, NEW v, Current(i, o, v)
  PROVE  Current(i, o, v)'
<1>1. CASE ChainKept
  BY <1>1 DEF ChainKept, chainVars, Current, Fetchable, Exists, HeightOf, OutputAt, Since
<1>2. CASE ChainSteps
  BY <1>2, CurrentStays DEF ChainSteps
<1>3. QED
  BY <1>1, <1>2

LEMMA RootedKept ==
  ASSUME ToolChainBook, ChainKept \/ ChainSteps, NEW d, NEW a, RootedAt(d, a)
  PROVE  RootedAt(d, a)'
<1>1. PICK n, v : n = a.height /\ v = a.reorgs
  OBVIOUS
<1>2. Rooted(d, n, v)
  BY <1>1 DEF RootedAt
<1>3. Rooted(d, n, v)'
  <2>1. CASE ChainKept
    BY <1>2, <2>1 DEF ChainKept, chainVars, Rooted, Exists, HeightOf, UnlockHeight, IsMined, Since
  <2>2. CASE ChainSteps
    BY <1>2, <2>2, RootedStays DEF ChainSteps
  <2>3. QED
    BY <2>1, <2>2
<1>4. QED
  BY <1>1, <1>3 DEF RootedAt

LEMMA ChainKeptOrSteps == [ToolNext]_allVars => ChainKept \/ ChainSteps
BY DEF ToolNext, ToolCheckReal, ToolFetchStatus, ToolBuildRing, Elsewhere, ChainChanges, ToolGrows,
       ToolReorgs, allVars, chainVars, toolVars, ChainKept, ChainSteps

LEMMA NextToolChainBook == ToolChainBook /\ [ToolNext]_allVars => ToolChainBook'
<1> SUFFICES ASSUME ToolChainBook, [ToolNext]_allVars PROVE ToolChainBook'
  OBVIOUS
<1>1. CASE ChainKept
  BY <1>1 DEF ChainKept, chainVars, ToolChainBook, ChainBook
<1>2. CASE ChainSteps
  BY <1>2, ToolChainStep DEF ChainSteps
<1>3. QED
  BY <1>1, <1>2, ChainKeptOrSteps

----------------------------------------------------------------------------
(* Each book outlives each step.                                           *)

LEMMA NextRealBook ==
  SelectionInv /\ ToolChainBook /\ RealBook /\ [ToolNext]_allVars => RealBook'
<1> SUFFICES ASSUME SelectionInv, ToolChainBook, RealBook, [ToolNext]_allVars,
                    pc' \in {"draw", "pool_status", "scan", "final_details"}
             PROVE  Current(Real, realOut.output, realOut.reorgs)'
  BY DEF RealBook
<1>1. CASE ToolCheckReal
  <2>1. PICK outs \in Fetched(<<Real>>) : realOut' = Answer(OutAt(outs, 1))
    BY <1>1 DEF ToolCheckReal
  <2>2. Real \in Nat
    BY SourcesAssumption, ElementOfSeq DEF SelectionInv, TypeInv, TypeOK, Real
  <2>3. <<Real>> \in Seq(Nat) /\ DOMAIN <<Real>> = {1} /\ <<Real>>[1] = Real
    BY <2>2
  <2>4. Exists(Real) /\ OutAt(outs, 1) = OutputAt(Real)
    <3> DEFINE q == <<Real>>
    <3>1. q \in Seq(Nat) /\ 1 \in DOMAIN q /\ q[1] = Real /\ outs \in Fetched(q)
      BY <2>1, <2>3
    <3> HIDE DEF q
    <3>2. \A i \in DOMAIN q : Exists(q[i]) /\ OutAt(outs, i) = OutputAt(q[i])
      BY <3>1, FetchedWhole
    <3>3. QED
      BY <3>1, <3>2
  <2>5. realOut'.output = OutputAt(Real) /\ realOut'.reorgs = reorgs
    BY <2>1, <2>4 DEF Answer
  <2>6. Current(Real, realOut'.output, realOut'.reorgs)
    <3>1. reorgs \in 0 .. reorgs
      BY DEF ToolChainBook, ChainBook
    <3>2. QED
      BY <2>2, <2>4, <2>5, <3>1 DEF Current, Fetchable
  <2>7. UNCHANGED <<chain, reorgs, stable, born, src>>
    BY <1>1 DEF ToolCheckReal, CheckReal, chainVars
  <2>8. QED
    BY <2>6, <2>7 DEF Current, Fetchable, Exists, HeightOf, OutputAt, Real, Since
<1>2. CASE ~ToolCheckReal
  <2>1. UNCHANGED <<src, realOut>> /\ pc \in {"draw", "pool_status", "scan", "final_details"}
    BY <1>2
       DEF ToolNext, ToolFetchStatus, ToolBuildRing, Elsewhere, ChainChanges, allVars, vars, toolVars,
           Startup, RpcFails, Draw, DrawCandidate, EndBucket, FetchStatus, ScanSlot, PoolTooShort,
           EnoughDecoys, BuildRing, Publish, FetchFee, OpenRingFile, WriteRingFile, Kill, Exited, Stop
  <2>2. PICK i, o, v : i = Real /\ o = realOut.output /\ v = realOut.reorgs
    OBVIOUS
  <2>3. Current(i, o, v)
    BY <2>1, <2>2 DEF RealBook
  <2>4. Current(i, o, v)'
    BY <2>3, ChainKeptOrSteps, CurrentKept
  <2>5. Real' = i /\ realOut'.output = o /\ realOut'.reorgs = v
    BY <2>1, <2>2 DEF Real
  <2>6. QED
    BY <2>4, <2>5
<1>3. QED
  BY <1>1, <1>2

LEMMA NextAskedBook ==
  AskedBook /\ SelectionInv /\ ToolChainBook /\ [ToolNext]_allVars => AskedBook'
<1> SUFFICES ASSUME AskedBook, SelectionInv, ToolChainBook, [ToolNext]_allVars PROVE AskedBook'
  OBVIOUS
<1> DEFINE Askings == [height : Nat, reorgs : Nat]
           a == [height |-> Len(chain), reorgs |-> reorgs]
<1>0. a \in Askings
  BY DEF ToolChainBook, ChainBook
<1> HIDE DEF a
<1>1. rings \in Seq(Jsons) /\ Len(rings) \in Nat /\ asked \in Seq(Askings) /\ Len(asked) \in Nat
  BY LenProperties DEF SelectionInv, JobBook, AskedBook
<1>2. CASE ToolFetchStatus
  <2>1. asked' = Append(asked, a) /\ rings' = rings
    BY <1>2 DEF ToolFetchStatus, FetchStatus, outVars, a
  <2>2. pc = "pool_status" /\ pc' = "scan"
    BY <1>2 DEF ToolFetchStatus, FetchStatus
  <2>3. asked' \in Seq(Askings) /\ Len(asked') = Len(asked) + 1
    <3> HIDE DEF Askings
    <3>1. QED
      BY <1>0, <1>1, <2>1
  <2>4. QED
    BY <1>1, <2>1, <2>2, <2>3 DEF AskedBook
<1>3. CASE ToolBuildRing
  <2>1. asked' = asked /\ pc = "final_details" /\ pc' \in {"real_check", "fee"}
    BY <1>3 DEF ToolBuildRing, BuildRing
  <2>2. Len(rings') = Len(rings) + 1
    BY <1>1, <1>3 DEF ToolBuildRing, BuildRing
  <2>3. QED
    BY <1>1, <2>1, <2>2 DEF AskedBook
<1>4. CASE ~ToolFetchStatus /\ ~ToolBuildRing
  BY <1>4
     DEF ToolNext, ToolCheckReal, CheckReal, Elsewhere, ChainChanges, allVars, vars, toolVars,
         Startup, RpcFails, Draw, DrawCandidate, EndBucket, ScanSlot, PoolTooShort,
         EnoughDecoys, Publish, FetchFee, OpenRingFile, WriteRingFile, Kill, Exited, Stop,
         outVars, AskedBook
<1>5. QED
  BY <1>2, <1>3, <1>4

LEMMA NextMembersBook ==
  SelectionInv /\ ToolChainBook /\ RealBook /\ MembersBook /\ [ToolNext]_allVars => MembersBook'
<1> SUFFICES ASSUME SelectionInv, ToolChainBook, RealBook, MembersBook, [ToolNext]_allVars
             PROVE  MembersBook'
  OBVIOUS
<1>1. ASSUME NEW m \in Members PROVE Current(m.index, m.answer.output, m.answer.reorgs)'
  <2>1. PICK i, o, v : i = m.index /\ o = m.answer.output /\ v = m.answer.reorgs
    OBVIOUS
  <2>2. Current(i, o, v)
    BY <2>1 DEF MembersBook
  <2>3. Current(i, o, v)'
    BY <2>2, ChainKeptOrSteps, CurrentKept
  <2>4. QED
    BY <2>1, <2>3
<1>2. CASE ToolBuildRing
  <2>1. PICK details \in Fetched(FinalList) :
          members' = Append(members,
            {[index |-> Real, answer |-> realOut]} \cup
            {[index |-> confirmed[i], answer |-> Answer(OutAt(details, i))] : i \in DOMAIN confirmed})
    BY <1>2 DEF ToolBuildRing
  <2> DEFINE X == {[index |-> Real, answer |-> realOut]} \cup
                  {[index |-> confirmed[i], answer |-> Answer(OutAt(details, i))] : i \in DOMAIN confirmed}
  <2>2. confirmed \in Seq(Nat) /\ FinalList = confirmed
    BY DEF SelectionInv, TypeInv, TypeOK, FinalList
  <2>3. \A i \in DOMAIN confirmed :
          Exists(confirmed[i]) /\ OutAt(details, i) = OutputAt(confirmed[i])
    BY <2>1, <2>2, FetchedWhole
  <2>4. ASSUME NEW m \in X PROVE Current(m.index, m.answer.output, m.answer.reorgs)
    <3>1. CASE m = [index |-> Real, answer |-> realOut]
      <4>1. Current(Real, realOut.output, realOut.reorgs)
        BY <1>2 DEF ToolBuildRing, BuildRing, RealBook
      <4>2. QED
        BY <3>1, <4>1
    <3>2. CASE m \in {[index |-> confirmed[i], answer |-> Answer(OutAt(details, i))] : i \in DOMAIN confirmed}
      <4>1. PICK i \in DOMAIN confirmed : m = [index |-> confirmed[i], answer |-> Answer(OutAt(details, i))]
        BY <3>2
      <4>2. confirmed[i] \in Nat
        BY <2>2, <4>1, ElementOfSeq, LenProperties
      <4>3. /\ m.index = confirmed[i] /\ m.answer.output = OutputAt(confirmed[i])
            /\ m.answer.reorgs = reorgs /\ Exists(confirmed[i])
        BY <2>3, <4>1 DEF Answer
      <4>4. reorgs \in 0 .. reorgs
        BY DEF ToolChainBook, ChainBook
      <4>5. QED
        BY <4>2, <4>3, <4>4 DEF Current, Fetchable
    <3>3. QED
      BY <3>1, <3>2
  <2> HIDE DEF X
  <2>5. members' = Append(members, X)
    BY <2>1 DEF X
  <2>6. members' \in Seq(ToSet(members')) /\ ToSet(members') = ToSet(members) \cup {X}
    <3>1. members \in Seq(ToSet(members))
      BY DEF MembersBook
    <3>2. /\ Append(members, X) \in Seq(ToSet(members) \cup {X})
          /\ ToSet(Append(members, X)) = ToSet(members) \cup {X}
      BY <3>1, AddedToSet
    <3>3. QED
      BY <2>5, <3>2
  <2>7. Members' = Members \cup X
    BY <2>6 DEF Members
  <2>8. ASSUME NEW m \in Members' PROVE Current(m.index, m.answer.output, m.answer.reorgs)'
    <3>1. CASE m \in Members
      BY <1>1, <3>1
    <3>2. CASE m \in X
      <4>1. PICK i, o, v : i = m.index /\ o = m.answer.output /\ v = m.answer.reorgs
        OBVIOUS
      <4>2. Current(i, o, v)
        BY <2>4, <3>2, <4>1
      <4>3. Current(i, o, v)'
        BY <4>2, ChainKeptOrSteps, CurrentKept
      <4>4. QED
        BY <4>1, <4>3
    <3>3. QED
      BY <2>7, <2>8, <3>1, <3>2
  <2>9. QED
    BY <2>6, <2>8 DEF MembersBook
<1>3. CASE ~ToolBuildRing
  <2>1. members' = members
    BY <1>3 DEF ToolNext, ToolCheckReal, ToolFetchStatus, Elsewhere, ChainChanges, allVars, toolVars
  <2>2. Members' = Members
    BY <2>1 DEF Members
  <2>3. \A m \in Members' : Current(m.index, m.answer.output, m.answer.reorgs)'
    BY <1>1, <2>2
  <2>4. QED
    BY <2>1, <2>3 DEF MembersBook
<1>4. QED
  BY <1>2, <1>3

LEMMA NextRingsBook ==
  SelectionInv /\ ToolChainBook /\ AskedBook /\ StatusBook /\ RingsBook /\ [ToolNext]_allVars
    => RingsBook'
<1> SUFFICES ASSUME SelectionInv, ToolChainBook, AskedBook, StatusBook, RingsBook, [ToolNext]_allVars
             PROVE  RingsBook'
  OBVIOUS
<1>1. /\ rings \in Seq(Jsons) /\ Len(rings) \in Nat /\ DOMAIN rings = 1 .. Len(rings)
      /\ asked \in Seq([height : Nat, reorgs : Nat]) /\ Len(asked) \in Nat
      /\ Len(rings) <= Len(asked)
  BY LenProperties DEF SelectionInv, JobBook, AskedBook
<1>2. ASSUME NEW k \in DOMAIN rings, NEW d \in ToSet(rings[k].decoys)
      PROVE  RootedAt(d, asked[k])'
  <2>1. PICK n : n = asked[k]
    OBVIOUS
  <2>2. RootedAt(d, n)
    BY <2>1 DEF RingsBook
  <2>3. RootedAt(d, n)'
    BY <2>2, ChainKeptOrSteps, RootedKept
  <2>4. asked'[k] = asked[k]
    <3>1. CASE ToolFetchStatus
      <4>1. PICK a : a = [height |-> Len(chain), reorgs |-> reorgs]
        OBVIOUS
      <4>2. asked' = Append(asked, a) /\ k \in 1 .. Len(asked)
        BY <1>1, <3>1, <4>1 DEF ToolFetchStatus
      <4>3. a \in [height : Nat, reorgs : Nat]
        BY <4>1 DEF ToolChainBook, ChainBook
      <4>4. QED
        BY <1>1, <4>2, <4>3, AppendProperties
    <3>2. CASE ~ToolFetchStatus
      BY <3>2 DEF ToolNext, ToolCheckReal, ToolBuildRing, Elsewhere, ChainChanges, allVars, toolVars
    <3>3. QED
      BY <3>1, <3>2
  <2>5. QED
    BY <2>1, <2>3, <2>4
<1>3. CASE ToolBuildRing
  <2> DEFINE r == SourceJson(Real, confirmed, accepted, Len(pool), lockedSkipped,
                             Flags(seg, isPreFork))
  <2>0. PICK n \in Nat : n = Len(rings) + 1
    BY <1>1
  <2>1. r.decoys = confirmed
    BY DEF SourceJson
  <2>2. r \in Jsons
    BY NewRingType DEF SelectionInv
  <2>3. rings' = Append(rings, r) /\ asked' = asked /\ pc = "final_details"
    BY <1>3 DEF ToolBuildRing, BuildRing
  <2> HIDE DEF r
  <2>4. /\ DOMAIN rings' = 1 .. n /\ rings'[n] = r
        /\ \A k \in DOMAIN rings : rings'[k] = rings[k]
    BY <1>1, <2>0, <2>2, <2>3, AppendProperties, LenProperties
  <2>5. Last(asked) = asked[n]
    BY <1>1, <2>0, <2>3 DEF AskedBook, Last
  <2>6. ASSUME NEW d \in ToSet(confirmed) PROVE RootedAt(d, asked[n])'
    <3>1. PICK i \in DOMAIN confirmed : d = confirmed[i]
      BY DEF ToSet
    <3>2. PICK a : a = asked[n]
      OBVIOUS
    <3>3. RootedAt(d, a)
      BY <2>3, <2>5, <3>1, <3>2 DEF StatusBook
    <3>4. RootedAt(d, a)'
      BY <3>3, ChainKeptOrSteps, RootedKept
    <3>5. asked'[n] = a
      BY <2>3, <3>2
    <3>6. QED
      BY <3>4, <3>5
  <2>7. ASSUME NEW k \in DOMAIN rings', NEW d \in ToSet(rings'[k].decoys)
        PROVE  RootedAt(d, asked[k])'
    <3>1. CASE k = n
      <4>1. d \in ToSet(confirmed)
        BY <2>1, <2>4, <3>1
      <4>2. QED
        BY <2>6, <3>1, <4>1
    <3>2. CASE k \in DOMAIN rings
      BY <1>2, <2>4, <3>2
    <3>3. QED
      BY <1>1, <2>0, <2>4, <3>1, <3>2
  <2>8. QED
    BY <2>7 DEF RingsBook
<1>4. CASE ~ToolBuildRing
  <2>1. rings' = rings
    BY <1>4
       DEF ToolNext, ToolCheckReal, CheckReal, ToolFetchStatus, FetchStatus, Elsewhere, ChainChanges,
           allVars, vars, Startup, RpcFails, Draw, DrawCandidate, EndBucket, ScanSlot, PoolTooShort,
           EnoughDecoys, Publish, FetchFee, OpenRingFile, WriteRingFile, Kill, Exited, outVars
  <2>2. QED
    BY <1>2, <2>1 DEF RingsBook
<1>5. QED
  BY <1>3, <1>4

\* What a complete answer about the pool says of a candidate.
LEMMA PoolAnswer ==
  ASSUME TypeInv, ToolFetchStatus, NEW k \in DOMAIN pool
  PROVE  /\ pool[k].index \in Nat /\ Exists(pool[k].index)
         /\ status'[k] = Unlocked(pool[k].index)
<1> DEFINE q == [i \in DOMAIN pool |-> pool[i].index]
<1>1. PICK outs \in Fetched(q) : status' = [i \in DOMAIN pool |-> Unlocked(OutAt(outs, i).index)]
  BY DEF ToolFetchStatus
<1>2. pool \in Seq(Candidates) /\ DOMAIN pool = 1 .. Len(pool) /\ Len(pool) \in Nat
  BY LenProperties DEF TypeInv, TypeOK
<1>3. \A i \in DOMAIN pool : pool[i].index \in Nat
  <2> SUFFICES ASSUME NEW i \in DOMAIN pool PROVE pool[i].index \in Nat
    OBVIOUS
  <2>1. pool[i] \in Candidates
    BY <1>2, ElementOfSeq
  <2>2. QED
    BY <2>1 DEF Candidates
<1>4. q \in Seq(Nat) /\ DOMAIN q = DOMAIN pool /\ \A i \in DOMAIN pool : q[i] = pool[i].index
  <2>1. q \in [1 .. Len(pool) -> Nat]
    BY <1>2, <1>3
  <2>2. q \in Seq(Nat)
    BY <1>2, <2>1, FunctionIsSeq
  <2>3. QED
    BY <2>2
<1> HIDE DEF q
<1>5. Exists(q[k]) /\ OutAt(outs, k) = OutputAt(q[k])
  BY <1>4, FetchedWhole
<1>6. OutAt(outs, k).index = pool[k].index
  BY <1>4, <1>5 DEF OutputAt
<1>7. QED
  BY <1>1, <1>3, <1>4, <1>5, <1>6

\* What is unlocked is in a block at least SpendableAge deep.
LEMMA UnlockedIsRooted ==
  ASSUME ToolChainBook, NEW x \in Nat, Exists(x), Unlocked(x)
  PROVE  Rooted(x, Len(chain), reorgs)
<1>1. reorgs \in Nat /\ Len(chain) \in Nat
  BY DEF ToolChainBook, ChainBook
<1>2. HeightOf(x) \in 0 .. Len(chain) - 1
  BY HeightRange
<1>3. /\ SpendableAge \in Nat /\ MinedWindow \in Nat /\ MinedWindow >= SpendableAge
  BY AgeAssumption
<1>4. UnlockHeight(x) <= Len(chain) /\ HeightOf(x) + SpendableAge <= Len(chain)
  BY <1>1, <1>2, <1>3 DEF Unlocked, UnlockHeight
<1>5. Len(chain) - SpendableAge \in Nat /\ HeightOf(x) <= Len(chain) - SpendableAge
  BY <1>1, <1>2, <1>3, <1>4
<1>6. QED
  BY <1>1, <1>4, <1>5 DEF Rooted

LEMMA NextStatusBook ==
  SelectionInv /\ ToolChainBook /\ AskedBook /\ StatusBook /\ [ToolNext]_allVars => StatusBook'
<1> SUFFICES ASSUME SelectionInv, ToolChainBook, AskedBook, StatusBook, [ToolNext]_allVars,
                    pc' \in {"scan", "final_details"}
             PROVE  /\ \A i \in DOMAIN status' : status'[i] => RootedAt(pool[i].index, Last(asked))'
                    /\ \A i \in DOMAIN confirmed' : RootedAt(confirmed[i], Last(asked))'
  BY DEF StatusBook
<1>1. /\ TypeInv /\ asked \in Seq([height : Nat, reorgs : Nat]) /\ Len(asked) \in Nat
      /\ Len(chain) \in Nat
  BY LenProperties DEF SelectionInv, AskedBook, ToolChainBook, ChainBook
<1>2. CASE ToolFetchStatus
  <2>1. PICK a : a = [height |-> Len(chain), reorgs |-> reorgs]
    OBVIOUS
  <2>2. asked' = Append(asked, a) /\ pool' = pool /\ confirmed' = <<>>
    BY <1>1, <1>2, <2>1 DEF ToolFetchStatus, FetchStatus, drawVars, TypeInv, ScanBook
  <2>3. a \in [height : Nat, reorgs : Nat] /\ a.height = Len(chain) /\ a.reorgs = reorgs
    BY <2>1 DEF ToolChainBook, ChainBook
  <2>4. Last(asked') = a
    BY <1>1, <2>3, <2>2 DEF Last
  <2>5. DOMAIN status' = DOMAIN pool
    BY <1>2 DEF ToolFetchStatus, FetchStatus
  <2>6. ASSUME NEW i \in DOMAIN status', status'[i] PROVE RootedAt(pool[i].index, Last(asked))'
    <3>1. /\ pool[i].index \in Nat /\ Exists(pool[i].index)
          /\ status'[i] = Unlocked(pool[i].index)
      BY <1>1, <1>2, <2>5, PoolAnswer
    <3>2. PICK x \in Nat : x = pool[i].index
      BY <3>1
    <3>3. RootedAt(x, a)
      BY <2>3, <2>6, <3>1, <3>2, UnlockedIsRooted DEF RootedAt
    <3>4. RootedAt(x, a)'
      BY <3>3, ChainKeptOrSteps, RootedKept
    <3>5. pool'[i].index = x /\ Last(asked') = a
      BY <2>2, <2>4, <3>2
    <3>6. QED
      BY <3>4, <3>5
  <2>7. DOMAIN confirmed' = {}
    BY <2>2
  <2>8. QED
    BY <2>6, <2>7
<1>3. CASE ~ToolFetchStatus
  <2>1. /\ pc \in {"scan", "final_details"}
        /\ UNCHANGED <<asked, pool, status>>
        /\ ScanSlot \/ UNCHANGED confirmed
    BY <1>3
       DEF ToolNext, ToolCheckReal, CheckReal, ToolBuildRing, BuildRing, Elsewhere, ChainChanges,
           allVars, vars, toolVars, drawVars, scanVars, Startup, RpcFails, Draw, DrawCandidate,
           EndBucket, ScanSlot, PoolTooShort, EnoughDecoys, Publish, FetchFee, OpenRingFile,
           WriteRingFile, Kill, Exited, Stop
  <2>2. PICK a : a = Last(asked)
    OBVIOUS
  <2>3. Last(asked') = a
    BY <2>1, <2>2
  <2>4. ASSUME NEW x, RootedAt(x, a) PROVE RootedAt(x, Last(asked))'
    <3>1. RootedAt(x, a)'
      BY <2>4, ChainKeptOrSteps, RootedKept
    <3>2. QED
      BY <2>3, <3>1
  <2>5. ASSUME NEW i \in DOMAIN status', status'[i] PROVE RootedAt(pool[i].index, Last(asked))'
    <3>1. PICK x : x = pool[i].index
      OBVIOUS
    <3>2. RootedAt(x, a)
      BY <2>1, <2>2, <2>5, <3>1 DEF StatusBook
    <3>3. RootedAt(x, Last(asked))'
      BY <2>4, <3>2
    <3>4. pool'[i].index = x
      BY <2>1, <3>1
    <3>5. QED
      BY <3>3, <3>4
  <2>6. ASSUME NEW i \in DOMAIN confirmed' PROVE RootedAt(confirmed[i], Last(asked))'
    <3>1. CASE confirmed' = confirmed
      <4>1. PICK x : x = confirmed[i]
        OBVIOUS
      <4>2. RootedAt(x, a)
        BY <2>1, <2>2, <2>6, <3>1, <4>1 DEF StatusBook
      <4>3. RootedAt(x, Last(asked))'
        BY <2>4, <4>2
      <4>4. confirmed'[i] = x
        BY <3>1, <4>1
      <4>5. QED
        BY <4>3, <4>4
    <3>2. CASE ScanSlot /\ confirmed' # confirmed
      <4>1. /\ confirmed' = Append(confirmed, pool[at + 1].index) /\ status[at + 1]
            /\ at + 1 <= Len(pool)
        <5>1. IsUsable(status[at + 1])
          BY <3>2, Zenon DEF ScanSlot
        <5>2. confirmed' = Append(confirmed, pool[at + 1].index)
          BY <3>2, <5>1, Zenon DEF ScanSlot
        <5>3. status[at + 1]
          BY <5>1, Zenon DEF IsUsable
        <5>4. at + 1 <= Len(pool)
          <6>1. at < Len(pool)
            BY <3>2 DEF ScanSlot, ScanGoesOn
          <6>2. at \in Nat /\ Len(pool) \in Nat
            BY LenProperties DEF SelectionInv, TypeInv, TypeOK
          <6>3. QED
            BY <6>1, <6>2
        <5>5. QED
          BY <5>2, <5>3, <5>4
      <4>2. /\ confirmed \in Seq(Nat) /\ Len(confirmed) \in Nat /\ DOMAIN confirmed = 1 .. Len(confirmed)
            /\ at \in Nat /\ pool \in Seq(Candidates) /\ Len(status) = Len(pool) /\ Len(pool) \in Nat
            /\ DOMAIN status = 1 .. Len(status) /\ DOMAIN pool = 1 .. Len(pool)
        BY <3>2, LenProperties DEF SelectionInv, TypeInv, TypeOK, ScanBook, ScanSlot
      <4>3. at + 1 \in DOMAIN status /\ at + 1 \in DOMAIN pool
        BY <4>1, <4>2
      <4>4. pool[at + 1].index \in Nat
        <5>1. pool[at + 1] \in Candidates
          BY <4>2, <4>3, ElementOfSeq
        <5>2. QED
          BY <5>1 DEF Candidates
      <4>5. PICK x : x = confirmed'[i]
        OBVIOUS
      <4>6. RootedAt(x, a)
        <5>1. CASE i \in DOMAIN confirmed
          <6>1. x = confirmed[i]
            BY <4>1, <4>2, <4>4, <4>5, <5>1
          <6>2. QED
            BY <2>1, <2>2, <5>1, <6>1 DEF StatusBook
        <5>2. CASE i = Len(confirmed) + 1
          <6>1. x = pool[at + 1].index
            BY <4>1, <4>2, <4>4, <4>5, <5>2
          <6>2. QED
            BY <2>1, <2>2, <4>1, <4>3, <6>1 DEF StatusBook
        <5>3. QED
          BY <2>6, <4>1, <4>2, <4>4, <5>1, <5>2
      <4>7. QED
        BY <2>4, <4>5, <4>6
    <3>3. QED
      BY <2>1, <3>1, <3>2
  <2>7. QED
    BY <2>5, <2>6
<1>4. QED
  BY <1>2, <1>3

\* The eligible outputs of a chain are in blocks at least SpendableAge deep.
LEMMA EligibleDepth ==
  ASSUME NEW c \in Seq(Nat), Cumulative(c),
         \E n \in 1 .. (Len(c) - SpendableAge) + 1 : c[n] = NumOuts, NEW i \in 0 .. NumOuts - 1
  PROVE  i < Last(c) /\ HeightIn(c, i) \in 0 .. Len(c) - SpendableAge
<1>1. /\ Len(c) \in Nat /\ SpendableAge \in Nat \ {0} /\ NumOuts \in Nat /\ i \in Nat /\ i < NumOuts
  BY AgeAssumption, NumOutsAssumption
<1>2. PICK n \in 1 .. (Len(c) - SpendableAge) + 1 : c[n] = NumOuts
  OBVIOUS
<1>3. /\ n \in DOMAIN c /\ Len(c) \in DOMAIN c /\ n <= Len(c) /\ n \in Nat /\ n > 0
      /\ Len(c) > 0
  BY <1>1, <1>2
<1>4. c[n] <= c[Len(c)] /\ c[Len(c)] \in Nat
  BY <1>1, <1>3 DEF Cumulative
<1>5. i < Last(c)
  BY <1>1, <1>2, <1>4 DEF Last
<1> DEFINE h == HeightIn(c, i)
<1>6. h \in 0 .. Len(c) - 1 /\ (h > 0 => c[h] <= i)
  BY <1>1, <1>3, <1>5, HeightExists
<1> HIDE DEF h
<1>7. h <= n - 1
  <2>1. SUFFICES ASSUME n <= h PROVE FALSE
    BY <1>3, <1>6
  <2>2. h \in DOMAIN c /\ h > 0
    BY <1>1, <1>3, <1>6, <2>1
  <2>3. c[n] <= c[h] /\ c[h] \in Nat
    BY <1>1, <1>3, <2>1, <2>2 DEF Cumulative
  <2>4. QED
    BY <1>1, <1>2, <1>6, <2>2, <2>3
<1>8. h \in 0 .. Len(c) - SpendableAge
  BY <1>1, <1>2, <1>3, <1>6, <1>7
<1>9. QED
  BY <1>5, <1>8 DEF h

LEMMA NextEligibleBook == ToolChainBook /\ EligibleBook /\ [ToolNext]_allVars => EligibleBook'
<1> SUFFICES ASSUME ToolChainBook, EligibleBook, [ToolNext]_allVars PROVE EligibleBook'
  OBVIOUS
<1>1. CASE ChainKept
  BY <1>1 DEF ChainKept, chainVars, EligibleBook
<1>2. CASE ChainSteps
  <2>1. SUFFICES ASSUME reorgs' = 0
                 PROVE  \E n \in 1 .. (Len(chain') - SpendableAge) + 1 : chain'[n] = NumOuts
    BY DEF EligibleBook
  <2>2. PICK h \in 1 .. Len(chain) :
          /\ Len(chain') = h + 1
          /\ \A k \in 1 .. h : chain'[k] = chain[k]
          /\ \/ h = Len(chain) /\ reorgs' = reorgs
             \/ reorgs' = reorgs + 1
    BY <1>2, ToolChainStep DEF ChainSteps, Keeps
  <2>3. reorgs \in Nat /\ Len(chain) \in Nat /\ SpendableAge \in Nat \ {0}
    BY AgeAssumption DEF ToolChainBook, ChainBook
  <2>4. h = Len(chain) /\ reorgs = 0
    BY <2>1, <2>2, <2>3
  <2>5. PICK n \in 1 .. (Len(chain) - SpendableAge) + 1 : chain[n] = NumOuts
    BY <2>4 DEF EligibleBook
  <2>6. Len(chain') = Len(chain) + 1
    BY <2>2, <2>4
  <2>7. n \in 1 .. h /\ n \in 1 .. (Len(chain) + 1 - SpendableAge) + 1
    BY <2>3, <2>4, <2>5
  <2>8. chain'[n] = NumOuts
    BY <2>2, <2>5, <2>7
  <2>9. n \in 1 .. (Len(chain') - SpendableAge) + 1
    BY <2>3, <2>6, <2>7
  <2>10. QED
    BY <2>8, <2>9
<1>3. QED
  BY <1>1, <1>2, ChainKeptOrSteps

LEMMA NextOnlyMined ==
  SelectionInv /\ ToolChainBook /\ EligibleBook /\ OnlyMinedAreLocked /\ [ToolNext]_allVars
    => OnlyMinedAreLocked'
<1> SUFFICES ASSUME SelectionInv, ToolChainBook, EligibleBook, OnlyMinedAreLocked,
                    [ToolNext]_allVars, reorgs' = 0,
                    NEW k \in DOMAIN status', ~status'[k]
             PROVE  IsMined(pool[k].index)'
  BY DEF OnlyMinedAreLocked
<1>1. TypeInv /\ PoolSound
  BY DEF SelectionInv
<1>2. reorgs = 0
  <2>1. reorgs \in Nat
    BY DEF ToolChainBook, ChainBook
  <2>2. reorgs' = reorgs \/ reorgs' = reorgs + 1
    <3>1. CASE ChainKept
      BY <3>1 DEF ChainKept, chainVars
    <3>2. CASE ChainSteps
      BY <3>2, ToolChainStep DEF ChainSteps, Keeps
    <3>3. QED
      BY <3>1, <3>2, ChainKeptOrSteps
  <2>3. QED
    BY <2>1, <2>2
<1>3. /\ pool \in Seq(Candidates) /\ DOMAIN pool = 1 .. Len(pool) /\ Len(pool) \in Nat
      /\ status \in Seq(BOOLEAN) /\ DOMAIN status = 1 .. Len(status) /\ Len(status) \in Nat
      /\ Len(status) <= Len(pool)
  BY <1>1, LenProperties DEF TypeInv, TypeOK
<1>4. ASSUME NEW i \in DOMAIN pool PROVE pool[i].index \in 0 .. NumOuts - 1
  BY <1>1, PickableAssumption DEF PoolSound
<1>5. CASE ToolFetchStatus
  <2>1. DOMAIN status' = DOMAIN pool /\ pool' = pool
    BY <1>5 DEF ToolFetchStatus, FetchStatus, drawVars
  <2>2. k \in DOMAIN pool
    BY <2>1
  <2>3. PICK i \in 0 .. NumOuts - 1 : i = pool[k].index
    BY <1>4, <2>2
  <2>4. status'[k] = Unlocked(i)
    BY <1>1, <1>5, <2>2, <2>3, PoolAnswer
  <2>5. ~Unlocked(i)
    BY <2>4
  <2>6. HeightOf(i) \in 0 .. Len(chain) - SpendableAge
    <3>1. /\ chain \in Seq(Nat) /\ Cumulative(chain)
          /\ \E n \in 1 .. (Len(chain) - SpendableAge) + 1 : chain[n] = NumOuts
      BY <1>2 DEF ToolChainBook, ChainBook, EligibleBook
    <3>2. QED
      BY <3>1, EligibleDepth DEF HeightOf
  <2>7. IsMined(i)
    <3>1. SUFFICES ASSUME ~IsMined(i) PROVE FALSE
      OBVIOUS
    <3>2. UnlockHeight(i) = HeightOf(i) + SpendableAge
      BY <3>1 DEF UnlockHeight
    <3>3. UnlockHeight(i) <= Len(chain)
      <4>1. SpendableAge \in Nat /\ Len(chain) \in Nat
        BY AgeAssumption DEF ToolChainBook, ChainBook
      <4>2. QED
        BY <2>6, <3>2, <4>1
    <3>4. QED
      BY <2>5, <3>3 DEF Unlocked
  <2>8. UNCHANGED <<chain, pool>>
    BY <1>5, <2>1 DEF ToolFetchStatus, chainVars
  <2>9. QED
    BY <2>3, <2>7, <2>8 DEF IsMined, HeightOf
<1>6. CASE ~ToolFetchStatus
  <2>1. UNCHANGED <<status, pool>> \/ DOMAIN status' = {} \/ (DOMAIN status = {} /\ status' = status)
    <3>1. UNCHANGED <<status, pool>> \/ status' = <<>> \/ (pc = "draw" /\ status' = status)
      BY <1>6
         DEF ToolNext, ToolCheckReal, CheckReal, ToolBuildRing, BuildRing, Elsewhere, ChainChanges,
             allVars, vars, drawVars, scanVars, Startup, RpcFails, Draw, DrawCandidate, EndBucket,
             ScanSlot, PoolTooShort, EnoughDecoys, Publish, FetchFee, OpenRingFile, WriteRingFile,
             Kill, Exited
    <3>2. pc = "draw" => status = <<>>
      BY <1>1 DEF TypeInv, ScanBook
    <3>3. DOMAIN <<>> = {}
      OBVIOUS
    <3>4. QED
      BY <3>1, <3>2, <3>3
  <2>2. UNCHANGED <<status, pool>> /\ k \in DOMAIN status
    BY <2>1
  <2>3. k \in DOMAIN pool
    BY <1>3, <2>2
  <2>4. PICK i \in 0 .. NumOuts - 1 : i = pool[k].index
    BY <1>4, <2>3
  <2>5. IsMined(i)
    BY <1>2, <2>2, <2>4 DEF OnlyMinedAreLocked
  <2>6. IsMined(i)'
    <3>1. CASE ChainKept
      BY <2>5, <3>1 DEF ChainKept, chainVars, IsMined, HeightOf
    <3>2. CASE ChainSteps
      <4>1. Exists(i)
        <5>1. /\ chain \in Seq(Nat) /\ Cumulative(chain)
              /\ \E n \in 1 .. (Len(chain) - SpendableAge) + 1 : chain[n] = NumOuts
          BY <1>2 DEF ToolChainBook, ChainBook, EligibleBook
        <5>2. QED
          BY <5>1, EligibleDepth DEF Exists
      <4>2. i \in Nat
        BY NumOutsAssumption
      <4>3. PICK h \in 1 .. Len(chain) : Keeps(h)
        BY <3>2, ToolChainStep DEF ChainSteps
      <4>4. h = Len(chain) /\ h \in Nat
        BY <1>2, <4>3 DEF Keeps, ToolChainBook, ChainBook
      <4>5. HeightOf(i) \in 0 .. h - 1
        BY <4>1, <4>2, <4>4, HeightRange
      <4>6. HeightOf(i) < h
        BY <4>4, <4>5
      <4>7. QED
        BY <2>5, <3>2, <4>1, <4>2, <4>3, <4>6, Stays DEF ChainSteps
    <3>3. QED
      BY <3>1, <3>2, ChainKeptOrSteps
  <2>7. pool'[k].index = i
    BY <2>2, <2>4
  <2>8. QED
    BY <2>6, <2>7
<1>7. QED
  BY <1>5, <1>6

----------------------------------------------------------------------------
(* The invariants.                                                         *)

LEMMA InitBooks == ToolInit => Books
<1> SUFFICES ASSUME ToolInit PROVE Books
  OBVIOUS
<1>1. /\ Init /\ ChainInit /\ pc = "startup" /\ asked = <<>> /\ members = <<>> /\ rings = <<>>
      /\ status = <<>>
  BY DEF ToolInit, Init
<1>2. ChainBook
  BY <1>1, InitChainBook
<1>3. chain \in Seq(Nat) /\ Len(chain) \in Nat /\ DOMAIN chain = 1 .. Len(chain)
  BY <1>2, LenProperties DEF ChainBook
<1>4. ToolChainBook
  <2>1. born \in [1 .. Len(chain) -> Nat]
    BY <1>3 DEF ToolInit
  <2>2. born \in Seq(Nat) /\ Len(born) = Len(chain)
    BY <1>3, <2>1, FunctionIsSeq
  <2>3. QED
    BY <1>2, <2>2 DEF ToolChainBook
<1>5. EligibleBook
  <2> DEFINE n == (Len(chain) - SpendableAge) + 1
  <2>1. n \in 1 .. n /\ chain[n] = NumOuts
    BY <1>3, AgeAssumption DEF ToolInit, EligibleOutputs
  <2>2. QED
    BY <2>1 DEF EligibleBook
<1>6. DOMAIN <<>> = {} /\ Len(<<>>) = 0 /\ \A S : <<>> \in Seq(S)
  BY EmptySeq
<1>7. OnlyMinedAreLocked /\ RealBook /\ StatusBook
  BY <1>1, <1>6 DEF OnlyMinedAreLocked, RealBook, StatusBook
<1>8. ToSet(members) = {} /\ Members = {}
  BY <1>1, <1>6 DEF ToSet, Members
<1>9. MembersBook
  BY <1>1, <1>6, <1>8 DEF MembersBook
<1>10. AskedBook /\ RingsBook
  BY <1>1, <1>6 DEF AskedBook, RingsBook
<1>11. QED
  BY <1>4, <1>5, <1>7, <1>9, <1>10 DEF Books

LEMMA ToolInvariant == ToolSpec => []ToolInv
<1>1. ToolInit => ToolInv
  BY InitBooks, InitSelectionInv DEF ToolInit, ToolInv
<1>2. ToolInv /\ [ToolNext]_allVars => ToolInv'
  BY NextSelectionInv, NextToolChainBook, NextEligibleBook, NextOnlyMined, NextRealBook,
     NextMembersBook, NextAskedBook, NextStatusBook, NextRingsBook DEF ToolInv, Books
<1>3. QED
  BY <1>1, <1>2, PTL DEF ToolSpec

\* Whatever blocks are added or replaced between the three fetch_outs of a source and
\* after them, no ring pairs an index with the key of another output, unless the block of
\* the output was replaced after the very answer the key is from.
THEOREM RingsKeepTheirKeys == ToolSpec => []KeysAreCurrent
<1>1. ToolInv => KeysAreCurrent
  BY DEF ToolInv, Books, MembersBook, Current, KeysAreCurrent
<1>2. QED
  BY <1>1, ToolInvariant, PTL

\* Asking for the lock status before the keys and not again costs nothing: as long as no
\* replacement goes deeper than the spendable age, counted from when its pool was asked
\* about, every decoy of a finished ring exists, and it is unlocked whenever the chain is
\* as long as it was then.
THEOREM DecoysAreSpendable == ToolSpec => []DecoysStayUnlocked
<1>1. ToolInv => DecoysStayUnlocked
  <2> SUFFICES ASSUME ToolInv, NEW k \in DOMAIN rings, NEW d \in ToSet(rings[k].decoys),
                      asked[k].height - SpendableAge < Len(chain),
                      Since(asked[k].height - SpendableAge, asked[k].reorgs)
               PROVE  /\ Exists(d) /\ HeightOf(d) <= asked[k].height - SpendableAge
                      /\ Len(chain) >= asked[k].height => Unlocked(d)
    BY DEF DecoysStayUnlocked
  <2>1. RootedAt(d, asked[k])
    BY DEF ToolInv, Books, RingsBook
  <2>2. /\ d \in Nat /\ Exists(d) /\ HeightOf(d) <= asked[k].height - SpendableAge
        /\ UnlockHeight(d) <= asked[k].height
    BY <2>1 DEF RootedAt, Rooted
  <2>3. asked[k].height \in Nat /\ Len(chain) \in Nat /\ UnlockHeight(d) \in Nat
    <3>1. /\ ToolChainBook /\ Len(chain) \in Nat
          /\ asked \in Seq([height : Nat, reorgs : Nat]) /\ Len(asked) \in Nat
          /\ Len(rings) <= Len(asked)
          /\ rings \in Seq(Jsons) /\ DOMAIN rings = 1 .. Len(rings) /\ Len(rings) \in Nat
      BY LenProperties
         DEF ToolInv, Books, AskedBook, SelectionInv, JobBook, ToolChainBook, ChainBook
    <3>2. asked[k] \in [height : Nat, reorgs : Nat]
      <4> DEFINE X == [height : Nat, reorgs : Nat]
      <4>1. asked \in Seq(X) /\ k \in 1 .. Len(asked)
        BY <3>1
      <4> HIDE DEF X
      <4>2. asked[k] \in X
        BY <4>1, ElementOfSeq
      <4>3. QED
        BY <4>2 DEF X
    <3>3. HeightOf(d) \in Nat
      BY <2>2, <3>1, HeightRange
    <3>4. UnlockHeight(d) \in Nat
      BY <3>3, AgeAssumption DEF UnlockHeight
    <3>5. asked[k].height \in Nat
      BY <3>2
    <3>6. QED
      BY <3>1, <3>4, <3>5
  <2>4. Len(chain) >= asked[k].height => Unlocked(d)
    BY <2>2, <2>3 DEF Unlocked
  <2>5. QED
    BY <2>2, <2>4
<1>2. QED
  BY <1>1, ToolInvariant, PTL

\* The picker's cut of nine blocks is the daemon's own for all but miners' outputs: on
\* a chain that only grows, no candidate from another transaction is found locked.
THEOREM LockedAreMined == ToolSpec => []OnlyMinedAreLocked
<1>1. ToolInv => OnlyMinedAreLocked
  BY DEF ToolInv, Books
<1>2. QED
  BY <1>1, ToolInvariant, PTL

=============================================================================
