----------------------------- MODULE RctOffsets -----------------------------
(***************************************************************************)
(* fetch_chain_height and fetch_rct_offsets of main.cpp: the tool reads    *)
(* the height of the daemon's chain once, then collects the cumulative     *)
(* number of RingCT outputs per block window by window, halving a window   *)
(* that fails.  Meanwhile the daemon's chain lives on: it grows, and its   *)
(* top blocks may be replaced.                                             *)
(***************************************************************************)
EXTENDS DaemonChain, Uint64, Rpc

CONSTANTS
  Start,        \* the height the first window starts at (1220516 in the code)
  Chunk,        \* the initial chunk_size (100000 in the code)
  MinTry,       \* the floor of try_size (1000 in the code)
  MaxAttempts,  \* attempts per window (6 in the code)
  ResponseCap   \* the daemon truncates answers for more blocks than this

ASSUME StartAssumption == Start \in Nat
ASSUME ChunkAssumption == Chunk \in Nat \ {0} /\ MinTry \in 1 .. Chunk
ASSUME AttemptsAssumption == MaxAttempts \in Nat \ {0}
ASSUME DaemonAssumption == ResponseCap \in Nat
ASSUME LargeWordAssumption == Word > MaxHeight

VARIABLES
  daemon,      \* "truncates" large answers only, "fails" also for other reasons,
               \* or is "confused": answers short, and 0 as its height, too
  pc,          \* "height", "window", "done", "failed"
  chain_tip,
  from_height,
  try_size,
  attempt,
  offsets,
  real_start   \* real_start_height, 0 before the first window

toolVars == <<pc, chain_tip, from_height, try_size, attempt, offsets, real_start>>
vars     == <<chainVars, daemon, toolVars>>

----------------------------------------------------------------------------
(* The tool.                                                               *)

WindowEnd == Smaller(from_height + try_size - 1, chain_tip)

\* from_height = to_height + 1, where to_height is the end of the window that
\* was fetched in the end, not of the one first tried.
\* The definitions called Slip... are slips the code does not make; each is put
\* in the place of the definition after it to see that a property notices.
SlipNextFrom(to) == Smaller(from_height + Chunk - 1, chain_tip) + 1
SlipOverlap(to) == to
NextFrom(to) == to + 1

SlipNextTry == try_size
SlipNoFloor == try_size \div 2
NextTry == Larger(try_size \div 2, MinTry)

SlipNextAttempt(a) == a
NextAttempt(a) == a + 1

\* chain_tip = chain_height - 1, unsigned: 0 gives the largest height there is.
TipOf(height) == Wrap(height - 1)

\* The values of a chunk go behind those of the earlier ones, as they are.
SlipWithChunk(o, values) == values \o o
WithChunk(o, values) == o \o values

\* What may come back for get_info and for a window.
HeightReplies ==
  {Heights(Len(chain))}
    \cup (IF daemon = "confused" THEN {Heights(0)} ELSE {})
    \cup (IF daemon = "truncates" THEN {} ELSE Failures(Heights(0)))

ChunkReplies ==
  LET whole == Counts(Distribution(from_height, WindowEnd))
  IN  IF ~HasBlock(WindowEnd) THEN {Error}
      ELSE IF WindowEnd - from_height >= ResponseCap THEN CutOff(whole)
      ELSE {whole}
             \cup (IF daemon = "truncates" THEN {} ELSE Failures(whole))
             \cup (IF daemon = "confused"
                   THEN {Counts(SubSeq(whole.values, 1, n)) : n \in 0 .. Len(whole.values)}
                   ELSE {})

Init ==
  /\ ChainInit
  /\ daemon \in {"truncates", "fails", "confused"}
  /\ pc = "height" /\ chain_tip = 0
  /\ from_height = Start /\ try_size = Chunk /\ attempt = 0
  /\ offsets = <<>> /\ real_start = 0

FetchHeight ==
  /\ pc = "height"
  /\ \E r \in HeightReplies :
       ~FetchChainHeightThrows(r) /\ chain_tip' = TipOf(r.values[1])
  /\ pc' = "window"
  /\ UNCHANGED <<chainVars, daemon, from_height, try_size, attempt, offsets, real_start>>

HeightFails ==
  /\ pc = "height"
  /\ \E r \in HeightReplies : FetchChainHeightThrows(r)
  /\ pc' = "failed"
  /\ UNCHANGED <<chainVars, daemon, chain_tip, from_height, try_size, attempt, offsets, real_start>>

Fetching == pc = "window" /\ from_height <= chain_tip /\ attempt < MaxAttempts

\* fetch_chunk succeeds: the next window starts where this one really ended, at
\* full size again.
ChunkArrives ==
  /\ Fetching
  /\ \E r \in ChunkReplies :
       ~FetchChunkThrows(r) /\ offsets' = WithChunk(offsets, r.values)
  /\ real_start' = IF from_height = Start THEN StartHeight(from_height) ELSE real_start
  /\ from_height' = NextFrom(WindowEnd)
  /\ try_size' = Chunk /\ attempt' = 0
  /\ UNCHANGED <<chainVars, daemon, pc, chain_tip>>

\* fetch_chunk throws.
ChunkFails ==
  /\ Fetching
  /\ \E r \in ChunkReplies : FetchChunkThrows(r)
  /\ attempt' = NextAttempt(attempt)
  /\ try_size' = NextTry
  /\ UNCHANGED <<chainVars, daemon, pc, chain_tip, from_height, offsets, real_start>>

\* "a chunk failed after 6 attempts".
GiveUp ==
  /\ pc = "window" /\ from_height <= chain_tip /\ attempt >= MaxAttempts
  /\ pc' = "failed"
  /\ UNCHANGED <<chainVars, daemon, chain_tip, from_height, try_size, attempt, offsets, real_start>>

Finish ==
  /\ pc = "window" /\ from_height > chain_tip
  /\ pc' = "done"
  /\ UNCHANGED <<chainVars, daemon, chain_tip, from_height, try_size, attempt, offsets, real_start>>

\* The chain changes between two windows (before the height is read it is any of
\* the first chains, afterwards it matters to nobody).  What is
\* claimed of a confused daemon is about a chain that only grows.
ChainChanges ==
  /\ pc = "window"
  /\ Grow \/ (daemon # "confused" /\ Reorg)
  /\ UNCHANGED <<daemon, toolVars>>

Returned == pc \in {"done", "failed"} /\ UNCHANGED vars

Fetch == FetchHeight \/ HeightFails \/ ChunkArrives \/ ChunkFails \/ GiveUp \/ Finish

Next == Fetch \/ ChainChanges \/ Returned

Spec == Init /\ [][Next]_vars

\* Every call returns or throws (connect timeout, low-speed cutoff); the daemon
\* owes nothing.
FairSpec == Spec /\ WF_vars(Fetch)

----------------------------------------------------------------------------
(* What makes the offsets right.                                           *)

TypeOK ==
  /\ ChainTypeOK /\ daemon \in {"truncates", "fails", "confused"}
  /\ pc \in {"height", "window", "done", "failed"}
  /\ chain_tip \in Nat /\ from_height \in Nat
  /\ try_size \in MinTry .. Chunk /\ attempt \in 0 .. MaxAttempts
  /\ offsets \in Seq(Nat) /\ real_start \in Nat

FirstHeight == Larger(Start, RctStart)

\* However often windows are halved, the concatenated windows hold one value
\* for every height from the first to the one fetched last, none skipped and
\* none twice, and in the end up to the tip whose height was read, not the blocks
\* that came later (main.cpp:198-232).
OneValuePerHeight ==
  daemon # "confused" =>
    /\ Len(offsets) = Larger(from_height - FirstHeight, 0)
    /\ pc = "done" => Len(offsets) = Larger(chain_tip + 1 - FirstHeight, 0)

\* Each value is the daemon's count for its height, unless the block at that
\* height was replaced while the tool was fetching: growth of the chain does no
\* harm, and a replacement only touches the heights it replaced.
RightWhereStable ==
  daemon # "confused" =>
    \A i \in DOMAIN offsets :
      FirstHeight + i - 1 < stable => offsets[i] = chain[FirstHeight + i]

\* fetch_chunk takes an answer of any length (main.cpp:178-179).  One that is too
\* short moves later counts to earlier heights, and no worse: on a chain whose
\* blocks are not replaced the offsets stay sorted and none is below the count of
\* its height.
ShortAnswersOnlyShift ==
  reorgs = 0 =>
    \A i \in DOMAIN offsets :
      /\ i > 1 => offsets[i - 1] <= offsets[i]
      /\ offsets[i] >= chain[FirstHeight + i]

\* main.cpp:183-188: a daemon that only truncates large answers is no obstacle,
\* as long as one of the sizes tried for a window is small enough for it.
HalvingIsEnough ==
  (daemon = "truncates" /\ reorgs = 0 /\ Larger(Chunk \div 2^(MaxAttempts - 1), MinTry) <= ResponseCap)
    => pc # "failed"

\* The fetch comes to an end while the chain grows and changes under it, and when
\* a height of 0 makes chain_height - 1 wrap (main.cpp:190): the windows run off
\* the chain then, and fail.
FetchEnds == <>(pc \in {"done", "failed"})

=============================================================================
