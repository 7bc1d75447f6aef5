----------------------------- MODULE Segregation -----------------------------
(***************************************************************************)
(* What main() of main.cpp does about the fork height: it reads it from    *)
(* the command line (module CommandLine), compares it with                 *)
(* the height of the chain, fetches the segregation window around it       *)
(* (fetch_segregation_limit) and, for each source, decides on which side   *)
(* of the fork the real output is and which ranges of indices the pre-fork *)
(* and post-fork buckets are drawn from.  Each answer of the daemon is     *)
(* about the chain it has at that moment.                                  *)
(***************************************************************************)
EXTENDS DaemonChain, CommandLine

CONSTANTS
  CommandLines,  \* the arguments the user may give
  RecentBlocks,  \* RECENT_OUTPUT_BLOCKS (1296 in the code)
  Vicinity,      \* SEGREGATION_FORK_VICINITY (1500 in the code)
  SpendableAge,  \* CRYPTONOTE_DEFAULT_TX_SPENDABLE_AGE (10 in the code)
  Honesties,     \* whether the daemon answers for the window it is asked for
  WrongValues    \* the vectors it may send if it does not

ASSUME ArgumentsAssumption == CommandLines \subseteq Seq(Argument)
ASSUME RecentAssumption == RecentBlocks \in Nat \ {0}
ASSUME VicinityAssumption ==
  SpendableAge \in Nat \ {0} /\ Vicinity \in Nat /\ Vicinity >= SpendableAge
ASSUME HonestiesAssumption == Honesties \subseteq BOOLEAN
\* (A vector of 64-bit values is far shorter than 2^64.)
ASSUME WrongValuesAssumption ==
  \A v \in WrongValues : v \in Seq(0 .. Word - 1) /\ Len(v) + RecentBlocks < Word
\* (No chain is as long as the height that stands for "no fork".)
ASSUME SentinelBeyondAssumption == Sentinel > MaxHeight
ASSUME LargeWordAssumption == Word > 2 * MaxHeight + RecentBlocks + Vicinity

VARIABLES
  args,          \* argv
  honest,
  pc,            \* "args", "height", "offsets", "window", "sources", "done",
                 \* "usage", "thrown"
  fork,          \* segregation_fork_height
  segregate,     \* segregate_pre_fork_flag
  mitigate,      \* key_reuse_mitigation2_flag
  chain_height,
  num_outs,      \* gp.get_num_rct_outs()
  window,        \* the chunk_result of the segregation window
  till_fork,     \* seg_limit.till_fork
  recent,        \* seg_limit.recent
  src,           \* how many sources have been worked on
  real,          \* real_index of the last one, -1 before the first
  pre,           \* output_is_pre_fork
  why            \* what ended the run, if an exception did

runVars  == <<args, honest>>
flagVars == <<fork, segregate, mitigate>>
limitVars == <<window, till_fork, recent>>
sourceVars == <<src, real, pre>>
toolVars == <<pc, chain_height, num_outs, limitVars, sourceVars, why>>
vars     == <<chainVars, runVars, flagVars, toolVars>>

----------------------------------------------------------------------------

\* The definitions called Slip... are slips the code does not make; each is put
\* in the place of the definition after it to see that a property notices.
IsAfter == chain_height >= fork

SlipIsShortly == FALSE
IsShortly == IsAfter /\ chain_height < Wrap(fork + Vicinity)

WindowNeeded == IsAfter /\ (segregate \/ mitigate)

\* The window asked for: from_height and to_height.
WindowFrom == Larger(fork, RecentBlocks) - RecentBlocks
SlipWindowTo == fork + 2
WindowTo == fork + 1

\* The position in values, counted from 0, of the fork and of the block
\* RecentBlocks before it: unsigned subtractions.
ForkAt(w) == Wrap(fork - w.start)
RecentAt(w) == Wrap(fork - RecentBlocks - w.start)

\* The guards of fetch_segregation_limit in their order; "" if all are passed.
SlipRefusalFork(w) ==
  IF w.start > fork THEN "start_height too high"
  ELSE IF fork < RecentBlocks THEN "fork height too low"
  ELSE IF RecentAt(w) >= Len(w.values) THEN "too small (recent)"
  ELSE ""

Refusal(w) ==
  IF w.start > fork THEN "start_height too high"
  ELSE IF ForkAt(w) >= Len(w.values) THEN "too small (fork)"
  ELSE IF fork < RecentBlocks THEN "fork height too low"
  ELSE IF RecentAt(w) >= Len(w.values) THEN "too small (recent)"
  ELSE IF fork - RecentBlocks < w.start THEN "bad start height"
  ELSE ""

\* values[i], counted from 0; past the end it would be whatever is in memory (it
\* never gets there, see ReadsStayInside).
At(values, i) == IF i < Len(values) THEN values[i + 1] ELSE Word - 1

SlipTillBefore(w) == At(w.values, Larger(ForkAt(w), 1) - 1)
TillFork(w) == At(w.values, ForkAt(w))

SlipRecent(w) == Wrap(At(w.values, RecentAt(w)) - TillFork(w))
Recent(w) == Wrap(TillFork(w) - At(w.values, RecentAt(w)))

IsPreFork(height) == IsAfter /\ height < fork

\* Whether a source that is (p) or is not older than the fork gets a post-fork
\* bucket.
PostForkWanted(p) ==
  IsAfter /\ mitigate /\ ~(segregate /\ p) /\ ~IsShortly

----------------------------------------------------------------------------

Init ==
  /\ ChainInit
  /\ args \in CommandLines /\ honest \in Honesties
  /\ fork = 0 /\ segregate = TRUE /\ mitigate = TRUE
  /\ pc = "args" /\ chain_height = 0 /\ num_outs = 0
  /\ window = [start |-> 0, values |-> <<>>] /\ till_fork = 0 /\ recent = 0
  /\ src = 0 /\ real = -1 /\ pre = FALSE /\ why = ""

Throw(what) == pc' = "thrown" /\ why' = what

ReadArguments ==
  /\ pc = "args"
  /\ Accepted(args)
  /\ fork' = ForkOf(args)
  /\ segregate' = SegregateFlag(args) /\ mitigate' = MitigateFlag(args)
  /\ pc' = "height"
  /\ UNCHANGED <<chainVars, runVars, chain_height, num_outs, limitVars, sourceVars, why>>

\* The usage text and return 1, or the exception of stoull.
RefuseArguments ==
  /\ pc = "args"
  /\ ~Accepted(args)
  /\ IF WrongUsage(args) THEN pc' = "usage" /\ why' = why ELSE Throw("stoull")
  /\ UNCHANGED <<chainVars, runVars, flagVars, chain_height, num_outs, limitVars, sourceVars>>

\* (Nothing answers at a place that is no URL.)
FetchHeight ==
  /\ pc = "height"
  /\ RpcUrl(args) = "url"
  /\ chain_height' = Len(chain)
  /\ pc' = "offsets"
  /\ UNCHANGED <<chainVars, runVars, flagVars, num_outs, limitVars, sourceVars, why>>

\* fetch_rct_offsets (module RctOffsets) and the picker's constructor (module
\* GammaPicker) in one step: the offsets end at chain_height - 1, and the last
\* SpendableAge - 1 blocks do not count.
\* (The offsets start at the first block with RingCT outputs: 1220516 is that
\* block on the network the tool is written for.)
LastEligible == chain_height - SpendableAge

SlipOffsetsUsable == HasBlock(chain_height - 1) /\ LastEligible >= RctStart

OffsetsUsable ==
  /\ HasBlock(chain_height - 1)
  /\ LastEligible >= RctStart
  /\ chain[LastEligible + 1] > 0

FetchOffsets ==
  /\ pc = "offsets"
  /\ OffsetsUsable
  /\ num_outs' = chain[LastEligible + 1]
  /\ pc' = "window"
  /\ UNCHANGED <<chainVars, runVars, flagVars, chain_height, limitVars, sourceVars, why>>

\* The blocks are gone, or the constructor finds too few of them or no outputs.
OffsetsFail ==
  /\ pc = "offsets"
  /\ ~OffsetsUsable
  /\ Throw("offsets")
  /\ UNCHANGED <<chainVars, runVars, flagVars, chain_height, num_outs, limitVars, sourceVars>>

SkipWindow ==
  /\ pc = "window" /\ ~WindowNeeded
  /\ pc' = "sources"
  /\ UNCHANGED <<chainVars, runVars, flagVars, chain_height, num_outs, limitVars, sourceVars, why>>

\* The chunk_results fetch_chunk may return for the window.  An honest daemon does
\* not answer when it lacks the block after the fork (yet, or any more).  From any
\* other fetch_chunk takes whatever start height and values it sends.
WindowExists == honest => HasBlock(WindowTo)

Answers ==
  IF honest
  THEN {[start |-> StartHeight(WindowFrom), values |-> Distribution(WindowFrom, WindowTo)]}
  ELSE [start : 0 .. Word - 1, values : WrongValues]

\* fetch_segregation_limit returns.
FetchWindow ==
  /\ pc = "window" /\ WindowNeeded /\ WindowExists
  /\ \E w \in Answers :
       /\ Refusal(w) = ""
       /\ window' = w
       /\ till_fork' = TillFork(w) /\ recent' = Recent(w)
  /\ pc' = "sources"
  /\ UNCHANGED <<chainVars, runVars, flagVars, chain_height, num_outs, sourceVars, why>>

\* One of its guards throws.
WindowRefused ==
  /\ pc = "window" /\ WindowNeeded /\ WindowExists
  /\ \E w \in Answers : Refusal(w) # "" /\ Throw(Refusal(w))
  /\ UNCHANGED <<chainVars, runVars, flagVars, chain_height, num_outs, limitVars, sourceVars>>

WindowMissing ==
  /\ pc = "window" /\ WindowNeeded /\ ~WindowExists
  /\ Throw("no such block")
  /\ UNCHANGED <<chainVars, runVars, flagVars, chain_height, num_outs, limitVars, sourceVars>>

\* The loop over the sources: get_outs says in which block the real output is.
SourcesLeft == src < Len(RealIndices(args))

CheckReal ==
  /\ pc = "sources" /\ SourcesLeft
  /\ src' = src + 1
  /\ real' = RealIndices(args)[src']
  /\ real' < Last(chain)
  /\ pre' = IsPreFork(HeightOf(real'))
  /\ UNCHANGED <<chainVars, runVars, flagVars, pc, chain_height, num_outs, limitVars, why>>

AllSourcesDone ==
  /\ pc = "sources" /\ ~SourcesLeft
  /\ pc' = "done"
  /\ UNCHANGED <<chainVars, runVars, flagVars, chain_height, num_outs, limitVars, sourceVars, why>>

\* Any of the calls fails.
RpcFails ==
  /\ \/ pc \in {"height", "offsets"}
     \/ pc = "window" /\ WindowNeeded
     \/ pc = "sources" /\ SourcesLeft
  /\ Throw("rpc")
  /\ UNCHANGED <<chainVars, runVars, flagVars, chain_height, num_outs, limitVars, sourceVars>>

\* (What a daemon says that is not honest does not depend on its chain.)
ChainChanges ==
  /\ pc \in {"offsets", "window", "sources"} /\ honest
  /\ Grow \/ Reorg
  /\ UNCHANGED <<runVars, flagVars, toolVars>>

Ended == pc \in {"done", "usage", "thrown"} /\ UNCHANGED vars

Next ==
  \/ ReadArguments \/ RefuseArguments \/ FetchHeight \/ FetchOffsets \/ OffsetsFail
  \/ SkipWindow \/ FetchWindow \/ WindowRefused \/ WindowMissing
  \/ CheckReal \/ AllSourcesDone \/ RpcFails \/ ChainChanges \/ Ended

Spec == Init /\ [][Next]_vars

----------------------------------------------------------------------------
(* What makes the split right.                                             *)

\* The variables hold what main() can hold, whatever the daemon answers: there are
\* outputs to draw from before the window is asked for, and recent is a 64-bit
\* difference of two values nobody compares (main.cpp:277; it is only printed).
TypeOK ==
  /\ ChainTypeOK
  /\ segregate \in BOOLEAN /\ mitigate \in BOOLEAN
  /\ args \in CommandLines /\ honest \in Honesties
  /\ fork \in 0 .. Word - 1
  /\ pc \in {"args", "height", "offsets", "window", "sources", "done", "usage", "thrown"}
  /\ chain_height \in 0 .. MaxHeight /\ num_outs \in Nat
  /\ pc \in {"window", "sources", "done"} => num_outs > 0
  /\ window \in [start : Nat, values : Seq(Nat)]
  /\ till_fork \in Nat /\ recent \in 0 .. Word - 1
  /\ src \in Nat /\ real \in Nat \cup {-1} /\ pre \in BOOLEAN

NoOption(i) == args[i].is \notin Options

\* What is typed has its effect or ends the run (main.cpp:397-425): a mistyped option
\* does not get as far as the height of the chain, at the end every argument that
\* is no option but the URL has been worked on as a source, and segregation is on
\* only at a height above 0 that was typed, and typed last.  (What follows the
\* number in an argument, and all heights but the last, have no effect.)
ArgumentsCount ==
  /\ chain_height # 0 => \A i \in DOMAIN args : args[i].is # "mistyped"
  /\ pc = "done" => src + 1 = Cardinality({i \in DOMAIN args : NoOption(i)})
  /\ chain_height # 0 /\ IsAfter =>
       \E i \in Heights(args) : /\ fork = Stoull(args[i]) /\ fork > 0
                               /\ \A j \in Heights(args) : j <= i

WindowTaken == pc \in {"sources", "done"} /\ WindowNeeded

\* The guards leave no answer, however wrong, that makes main.cpp:276-277 read
\* outside the vector: the unsigned positions are inside it.
ReadsStayInside ==
  WindowTaken =>
    /\ ForkAt(window) < Len(window.values)
    /\ RecentAt(window) < Len(window.values)

\* till_fork is the number of outputs up to and including the fork block, and recent
\* of those in its last RecentBlocks blocks, as long as that part of the chain is
\* not replaced, however much the chain grows; so a source classified as pre-fork,
\* by a later answer of the daemon, has its real output inside the range of the
\* pre-fork bucket.
TillForkIsCount ==
  honest /\ WindowTaken /\ fork < stable =>
    /\ till_fork = chain[fork + 1]
    /\ recent = Wrap(till_fork - chain[fork - RecentBlocks + 1])
    /\ pre => real < till_fork

\* Whenever a post-fork bucket is drawn its range is not inverted: the fork is
\* among the blocks old enough to spend from, because the vicinity of the fork
\* is wider than the spendable age (main.cpp:432-433, 560).
PostForkHasRange ==
  honest /\ WindowTaken /\ reorgs = 0 /\ (\E p \in BOOLEAN : PostForkWanted(p)) =>
    till_fork <= num_outs

\* With an honest daemon the window is refused only when the chain was less than
\* two blocks past the fork, or the fork is so early that the window has blocks
\* without RingCT outputs.
RefusedOnlyNearTheEnds ==
  honest /\ reorgs = 0 /\ why \notin {"", "stoull", "rpc", "offsets"} =>
    chain_height < fork + 2 \/ fork < RctStart + RecentBlocks

\* README.md:56-57, "split the decoy pool between outputs created before and
\* after a configured fork height", as main.cpp:488 has it: before the fork is
\* height < fork.  till_fork counts the fork block too, so this does not hold.
PreForkRangeIsBeforeFork ==
  honest /\ WindowTaken /\ reorgs = 0 => till_fork <= chain[fork]

=============================================================================
