----------------------------- MODULE DaemonChain -----------------------------
(***************************************************************************)
(* The daemon's block chain, as decoy_tool sees it through get_info,       *)
(* get_output_distribution and get_outs.  It is not part of the            *)
(* repository: it is what main.cpp takes for granted about its answers.    *)
(* It lives on while the tool runs: blocks are added, and the top blocks   *)
(* may be replaced by others.                                              *)
(***************************************************************************)
EXTENDS Integers, Sequences, SequencesExt

CONSTANTS
  RctStart,     \* the first height with RingCT outputs on the daemon's network
  FirstChains,  \* the chains the daemon may have when the tool starts
  BlockOutputs, \* how many RingCT outputs a new block may have
  MaxHeight,    \* bound: blocks of the daemon's chain
  MaxReorgs     \* bound: replacements of the top of the chain

ASSUME RctStartAssumption == RctStart \in Nat
\* A chain's counts never fall: block after block adds to them.
Cumulative(c) == \A a, b \in DOMAIN c : a <= b => c[a] <= c[b]

ASSUME ChainsAssumption ==
  FirstChains \subseteq {c \in Seq(Nat) : Len(c) \in 1 .. MaxHeight /\ Cumulative(c)}
\* Blocks before RctStart have no RingCT outputs.
ASSUME EarlyBlocksAssumption ==
  \A c \in FirstChains : \A i \in DOMAIN c : i <= RctStart => c[i] = 0
ASSUME OutputsAssumption == BlockOutputs \subseteq Nat
ASSUME BoundsAssumption == MaxHeight \in Nat /\ MaxReorgs \in Nat

VARIABLES
  chain,   \* chain[h + 1]: the number of RingCT outputs in blocks 0 .. h
  reorgs,  \* how often its top was replaced
  stable   \* the blocks below this height have never been replaced

chainVars == <<chain, reorgs, stable>>

Smaller(a, b) == IF a < b THEN a ELSE b
Larger(a, b)  == IF a > b THEN a ELSE b

----------------------------------------------------------------------------
(* What it answers.                                                        *)

\* Whether the blocks up to height h exist: get_output_distribution fails for
\* others.
HasBlock(h) == h < Len(chain)

\* get_output_distribution, cumulative: absolute counts, from the first block
\* of the window that can have RingCT outputs.
StartHeight(from) == Larger(from, RctStart)
Distribution(from, to) == SubSeq(chain, StartHeight(from) + 1, to + 1)

\* get_outs: the height of the block an output is in.
HeightIn(c, index) ==
  CHOOSE h \in 0 .. Len(c) - 1 : c[h + 1] > index /\ (h > 0 => c[h] <= index)
HeightOf(index) == HeightIn(chain, index)

----------------------------------------------------------------------------
(* How it changes.                                                         *)

ChainInit == chain \in FirstChains /\ reorgs = 0 /\ stable = MaxHeight

WithBlock(c, n) == Append(c, Last(c) + (IF Len(c) < RctStart THEN 0 ELSE n))

\* The chain gains a block.
Grow ==
  /\ Len(chain) < MaxHeight
  /\ \E n \in BlockOutputs : chain' = WithBlock(chain, n)
  /\ UNCHANGED <<reorgs, stable>>

\* The blocks from height h on are replaced, by one block to begin with.
Reorg ==
  /\ reorgs < MaxReorgs
  /\ \E h \in 1 .. Len(chain) - 1, n \in BlockOutputs :
       /\ chain' = WithBlock(SubSeq(chain, 1, h), n)
       /\ stable' = Smaller(stable, h)
  /\ reorgs' = reorgs + 1

ChainTypeOK ==
  /\ chain \in Seq(Nat) \ {<<>>} /\ Len(chain) <= MaxHeight
  /\ reorgs \in 0 .. MaxReorgs /\ stable \in 0 .. MaxHeight
=============================================================================
