# Verification of decoy_tool

TLA+ models of `decoy_tool`, the program that picks 15 decoys for each real
Monero output it is given and writes the rings to `ring.json`; TLC runs that
check the models on small instances; and TLAPS proofs, for every value of the
constants, of every safety property a passing run checks, and of the refinement.

Line numbers are those of the files under `src/`.

## The system

The program is one sequential process (`main.cpp`) that talks to a Monero
daemon over HTTP, and a random generator that lives in global state. What is
hard about it is not threads. It is (a) the daemon's chain, which changes
between the many separate calls the tool makes about it, (b) calls that fail,
are truncated or are retried, (c) unsigned arithmetic on heights, counts and
bucket sizes, (d) a fixed pool that is drawn with rejection from overlapping
ranges and then filtered without replacement, and (e) a file that is written in
place at the very end.

| Part | State | Operations | Correct when |
|---|---|---|---|
| Decoy selection, `main` (`main.cpp:386-736`) | the flags and the fork limit; for each source the pool, its lock status, the scan counters; the JSON of finished sources; `ring.json`; the exit status | start-up, real check, three bucket draws, lock batch, scan, ring, fee, file | the pool is free of repeats and of the real output, the scan takes unlocked candidates in order without replacement, the counts are true, the rings decode, the job is published whole or not at all |
| Gamma picker (`gamma_picker.cpp`, `bounded_gamma_pick`) | `rct_offsets`, `begin`/`end`, `num_rct_outputs`, `average_output_time` | construct, `pick()`, draw in a range | picks are old enough to spend, come from the block the target leads to, stay in the range asked for; draws end |
| Height and offsets (`main.cpp:142-240`) | `from_height`, `try_size`, the attempt counter, the concatenated vector | one window at a time, halved and retried | one value per height, right wherever the chain did not change, up to the tip that was read |
| Segregation (`main.cpp:245-279, 431-459, 488-564`) | `chain_height`, the fork, the window, `till_fork` | compare, fetch the window with guards, classify a source | no read outside the vector; `till_fork` is a count of the same chain; ranges and classification agree |
| Random generator (`random.c`, `rng.h`, `hash.c`) | the Keccak state, `curstate`, the mutex | seed before `main`, draw, wipe at exit | the seed is complete, blocks are not repeated, what was handed out cannot be computed from the state |
| Keccak and hashing (`keccak.c`, `hash.c`) | the 25 lanes; a `KECCAK_CTX` | the permutation, a hash at once, a hash piece by piece | the permutation is Keccak-f[1600]; both ways to hash agree |
| Integer helpers (`int-util.h`) | none | products, long division, clamping, rotations, byte swaps | no carry or bit is lost |
| RPC (`main.cpp:72-140, 281-367`) | none that lasts | one call, which returns or throws | a damaged answer is never taken for a good one, as far as it can be told |
| Command line (`main.cpp:391-425`) | the three settings and the real indices | read the arguments | what is typed has its effect or ends the run, as far as `stoull` reads it |

How they interact: `main` calls `fetch_chain_height`, `fetch_rct_offsets`,
builds the picker from the offsets, calls `fetch_segregation_limit` when the
chain is past the fork, and then loops over the sources; every `pick()` draws
from the generator through `crypto::rand`. All of it shares one assumption
about the daemon: its answers describe the chain it has at that moment.

## The modules

| Module | Models | Notes |
|---|---|---|
| `DecoySelection` | `main()` from the end of the start-up to the exit | one action per step of `main`, the daemon's answers are nondeterministic |
| `RingPromise` | what `README.md` promises of a run, without how it is reached | the abstract specification `DecoySelection` implements (`KeepsPromise`) |
| `DecoyTool` | `DecoySelection` on the live chain of `DaemonChain`, asked through `Rpc` | the composition: what the selection leaves free is a fact of the chain |
| `GammaPicker` | the constructor, `pick()`, `rand_idx` and the rejection loop | `std::lower_bound` is its binary search, so unsorted vectors are covered |
| `DaemonChain` | the daemon's chain and its answers (not code of this repository) | growth and replacement of top blocks |
| `Rpc` | which replies make `rpc_call`, `direct_post` and their callers throw | extended by `RctOffsets` and `DecoyTool` |
| `RctOffsets` | `fetch_chain_height`, `fetch_chunk`, `fetch_rct_offsets` | against `DaemonChain` |
| `CommandLine` | the arguments, `stoull`, the defaults | extended by `Segregation` |
| `Segregation` | arguments, fork comparison, `fetch_segregation_limit`, classification of sources | against `DaemonChain` |
| `RandomState` | `init_random`, draws under the mutex, extra entropy, `deinit_random` | the Keccak state is an epoch number |
| `Keccak` | `keccakf` and the sponge: `keccak`, `keccak_init/update/finish`, `cn_fast_hash` | operators; a lane is a set of bits |
| `IntUtil` | `int-util.h` | operators |
| `Hashing` | a caller that hashes piece by piece, inputs for the pure functions, and Keccak's reference definition | the properties of the two modules above |
| `Uint64` | unsigned arithmetic of a word of any size | |
| `DecoySelection_proofs` | theorems about `DecoySelection`, the refinement of `RingPromise` among them | see "What is proved" |
| `DaemonChain_proofs` | lemmas about a chain that grows and is replaced, and about the block of an output | cited by the next three |
| `DecoyTool_proofs`, `RctOffsets_proofs`, `Segregation_proofs` | theorems about these modules | see "What is proved" |
| `GammaPicker_proofs`, `RandomState_proofs`, `Hashing_proofs` | theorems about these modules, the last one about `Keccak` and `IntUtil` | see "What is proved" |
| `MC...` | constant values for TLC | one for each of the modules that is run |

Definitions named `Slip...` are not behaviour of the code. Each one is a
plausible mistake, written beside the definition it would spoil; putting it in
that place makes TLC refute a property, which shows that the property looks at
that piece of the code.

### DecoySelection

`pc` is the place in `main()`. `Startup` is everything up to the source loop
(its parts are the other modules); `CheckReal` the first `fetch_outs` of a source
with the bucket sizes; `DrawCandidate` one turn of the loop in `draw_pool_slot`
and `EndBucket` its three ways out (full, out of tries, an exhausted range);
`FetchStatus` the batched lock check; `ScanSlot` one turn of the scan;
`PoolTooShort` the `return 1`; `EnoughDecoys` and `BuildRing` the rest of the loop
body; `FetchFee`, `OpenRingFile`, `WriteRingFile` the end. `RpcFails` is an
uncaught exception of any call. `Kill` is the end of the process at any point,
with whatever part of the file is on disk by then. The locals of the loop body
are reset by `BuildRing`, where they go out of scope.

`pick()` is reduced here to the set `Pickable` of indices it can return;
`MAX_ATTEMPTS` misses in a row are the constant `UnluckyPicks` (a range that is
not empty may look empty) and are certain for an empty range. Keys and
commitments are copied from the answer to the ring and are left out. When the
whole pool is restricted to pre-fork outputs the code draws 75 candidates from
the full chain; in the model this is the plan with two empty buckets, which
draws the same. `SortedRing` is what `std::sort` makes of members that differ: each
stands at its rank. `Decoded` is what a reader of the file does with the relative
offsets; it is part of a property, not of the program. `SourceJson` is what a source
leaves in the file, with the three flags of its `segregation` block (`Flags`); the fork
limit and the bucket of a decoy are not in it. `Fits` says when counts fit a ring and a
fork limit: `CountsAreTrue` asks it of the counts in the file and the limit of the run,
`SplitIsVerifiable` whether the file alone tells those counts from all others.

### DecoyTool

Each step of `DecoySelection` is taken with the chain beside it. `born` tells which
incarnation of a block is at a height, so that `OutputAt(index)` is another output
once the block was replaced. `ToolCheckReal`, `ToolFetchStatus` and `ToolBuildRing`
are the three `get_outs` of a source; each is answered by the chain of its moment,
through `FetchOutsThrows`, which lets no answer of another length through. The
unlocked field is the daemon's rule (60 blocks for a miner's output, 10 for
others). `asked` keeps for each source which chain its pool was asked about, so that the rings of
earlier sources can be judged after later steps, and each ring member keeps the answer it was
made from with the number of replacements the chain had seen by then (`Answer`). No tool can
notice that a block is replaced after the answer about it. So `KeysAreCurrent` speaks of the
blocks that are still those of the answer, among them blocks that were replaced before it, between
two calls or between two sources; and `DecoysStayUnlocked` allows any replacement of the
`SpendableAge - 1` blocks above the eligible ones, during which decoys may be locked again, and
asks that no decoy is lost and all are unlocked once the chain has its length back. The tool gets
here only with a chain of at least `SpendableAge` blocks, without which the picker's
constructor throws. The chain moves only while the tool waits for an answer; at other
moments nobody would notice.

### GammaPicker

The variate is any age in `Ages`, measured in ticks; `average_output_time` is the
exact ratio of two integers (the code rounds it to a double). Offsets, ranges
and ages are arbitrary, so a vector that mixes two chains is included.
Subtractions that can wrap in the code wrap at `Word`. `LowerBound` is the binary search
as a recursive function of the two ends of the part still searched, `GoesRight` its
comparison.

### RctOffsets and Segregation

`DaemonChain` keeps the cumulative number of outputs per height, and a height
`stable` below which no block was replaced. Both modules let it change between
any two calls. `RctOffsets` models each attempt of each window. `daemon` says what
may go wrong: it only truncates answers for more than `ResponseCap` blocks, or calls
fail for any reason, or it is confused: then it also answers a window with too few
values, and `get_info` with the height 0, for which `TipOf` wraps. A reply is a
record of module `Rpc`; the tool decides with `FetchChunkThrows` whether it throws.

`Segregation` begins with the arguments (`ReadArguments`, `RefuseArguments`), takes the
offsets in one step and models the window with every guard, in order, with unsigned
subtractions. When the daemon is not `honest`, the window comes back with any start
and any vector of `WrongValues`, which need not be sorted or be counts: `fetch_chunk` takes what
it gets (`main.cpp:179`), and `recent` is then the difference of two values nobody compared
and may wrap. In `CommandLine`, `Positional` is the loop over `argv` as a recursive
function. An argument has the numbers in its text, of which `stoull` reads the first if
the text begins with it and passes over the rest: `1234567,2345678` is one source,
not two. A mistyped option begins with `--`, so there is no number in it. The sentinel is a height below `Word`, as `uint64_t` has it, and `Word` is larger than
twice the chain with the window and the vicinity (`LargeWordAssumption`: 2^64 against
heights of a few million).

### RandomState

The permutation is invertible, so who sees the state can compute the state
before the last permutation, unless the data area was zeroed first. That is
what `epoch` and `erased` keep track of. Reads of `/dev/urandom` may be short.
`rng.h` provides a mutex, so the run has two callers; `decoy_tool` has one thread.
`AddEntropy` is `add_extra_entropy_not_thread_safe`: it is not called in this repository
and takes no lock, so it is possible whenever no draw is running.

### Keccak, IntUtil and Hashing

In `keccakf` a lane is the set of its bits. The 24 assignments of rho and pi are a
table applied in order, each on the state the one before left (`Moved`), because
that order is what makes them right. In the sponge the permutation is symbolic: the
state is the sequence of blocks that were absorbed, so two digests are equal exactly
when the same blocks went in. `Hashing` feeds a `KECCAK_CTX` in pieces
(`UpdatePiece`, `FinishDigest`), and holds in `input` an argument for one of the pure
functions, chosen initially; `NextRound` goes through the round constants with the
shift register that defines them. In the arithmetic of `IntUtil` a dword is below `Half`.

## The runs

| Run | Instance | Shows |
|---|---|---|
| `split` | 1 source, 5 outputs, pool of 6, 3 decoys, every combination of flags, fork limits inside, at and past the chain | pool, scan and shortage, and that the counts in the file are those of the ring |
| `verifiable` | 1 source past the fork, one fork limit | refuted: the file alone tells its split from any other |
| `sources` | 2 sources (one of them index 5, just past the 5 unlocked outputs), pool of 4, 2 decoys, a pool that can never be filled for one of them | rings, publication, refinement of `RingPromise`, termination |
| `written` | 1 source | refuted: exit status 0 means the file was written |
| `on_chain` | 2 sources, pool of 3, 2 decoys, three chains of 4 and 5 blocks that grow to 6, 1 replacement | lock status, keys and indices when the chain changes between the calls, for the ring in work and the one before |
| `picks` | all vectors of up to 5 offsets with counts 0..3, `Word` = 8 | where picks fall, bad picks, what a draw returns |
| `block` | the same | refuted: the pick comes from the block of its target |
| `offsets` | windows of 4 blocks, 3 attempts, up to 8 blocks, 2 replacements, `Word` = 16 | no gap or overlap, values right, short answers, height 0, end of the fetch |
| `window` | 30 command lines, up to 9 blocks, 1 replacement, honest answers or any start with any vector of up to 5 of the values 0, 2 and 63, `Word` = 64 | arguments, fork limit, reads, ranges, refusals |
| `before_fork` | 1 fork height | refuted: the pre-fork range holds only outputs before the fork |
| `draws` | blocks of 3 bytes, draws of 0..7 bytes, 2 callers; messages of up to 3 pieces of 0, 1, 135, 136, 137, 271, 272 or 273 bytes; dwords of 2 bits; the permutation at full size | seed, blocks, forward security, mutex; permutation, hashing, helpers |
| `wipe` | the same | refuted: the finalizer finds a ready generator |

Why the bounds are enough. A pool property involves at most two candidates, two
buckets, the real output and the fork limit; the instances have more of each
than that, and pools both larger and smaller than the range they are drawn
from. The chains of `on_chain` have the picker's youngest output just locked,
just unlocked, and a miner's output among the candidates; one replacement can fall
before or after each of the three calls. The picker's properties relate a target to the offsets next to it; five
offsets give empty blocks at both ends and in the middle, and unsorted vectors
of every shape a binary search can take three steps in. Windows of 4, 2 and 1
blocks over 8 heights give full, halved and clipped windows in every order, and a
word of 16 is long enough for windows past the chain when the height wraps. The
fork heights lie below the window size, before the first outputs in the window,
and well inside; chains end before, at, one past and well past them. The command
lines put each option before and behind the others, twice, mistyped and unreadable,
with heights 0, -1 and one that is too large, and with text behind a number. The wrong
vectors are empty, too short, rising and falling, with the largest value of the word. Draws of 0
to 7 bytes over blocks of 3 give zero, partial, exactly full and several blocks.
The lengths of pieces lie on both sides of the end of one and of two blocks of
136, and three pieces fill a block from any of them. Theta, rho and pi are linear,
so single bits are enough for them, and chi mixes the five bits of a row, of which
all 32 values are tried (the theorem `EveryStateIsMixed` is about all states). Dwords of two bits have every pattern of carries of `mul128`.
In all instances the sizes keep the order they have in the code (for example
spendable age <= vicinity), which the named assumptions state.

The generator and the hashing share no variable; the run `draws` moves one of them
while the other is at rest, which loses no order of their steps.

`CHECK_DEADLOCK` is on everywhere: the ends of the process are explicit
stuttering actions.

### Fairness

* `DecoySelection`: weak fairness of the tool's own steps. The process is
  sequential, each loop counts its turns, and each transfer has a connect timeout
  and a low-speed cutoff (`main.cpp:300-302`), so a step that is possible is taken
  (except against a server that trickles bytes above the cutoff for ever).
  Nothing is assumed of the daemon or of `Kill`.
* `RctOffsets`: weak fairness of the fetch as a whole. The daemon may change its
  chain forever or fail every call.

## What is proved

Every invariant that a passing run checks is also a theorem of its specification, for
every value of the constants that satisfies the named assumptions. No theorem assumes
anything else. For four of the five properties that a run refutes a theorem says when
they hold (the fifth is about a stream that nothing in the code looks at). For the loops
over sources, candidates, draws and windows there are theorems that bound their turns
without fairness. A property that no run checks is defined beside its theorem.

None of the invariants is inductive as it stands; each proof has an `Inv`, a conjunction
of "books" that say what the variables add up to between the steps, one lemma for each
book or each action, and a last step by temporal logic.

`DecoySelection_proofs`: any sources, pool size, ring size, fork limits and answers.

* `TypeCorrect`: `Spec => []TypeOK`. The interesting part is arithmetic: the
  shares of the buckets never add up to more than the pool, so `normal_draw` does not
  wrap; `got` never passes the bucket, the pool never passes `PoolSize`, the scan
  never passes the pool. The inductive invariant `TypeInv` adds to `TypeOK` the
  bookkeeping that makes this true: while bucket `b` is being drawn the pool holds at
  most the shares of the earlier buckets plus `got` (`DrawBook`), and during the
  scan `confirmed`, `lockedSkipped` and `at` add up (`ScanBook`). `ShareBounds`
  and `SplitSizes` are the arithmetic of the shares.
* `PoolIsSound`: `Spec => []PoolSound`. Inductive together with `TypeInv`: the one
  action that can disturb it is `DrawCandidate`, which adds a candidate that is not
  the real output, not in the pool, and inside the range of its bucket.
* `PublishesWholeJob`: `Spec => []WholeJobOrNothing`. `JobBook` says that the finished
  rings are those of the first sources in order, that all of them are there once the fee
  is asked for, and that the file is untouched before it is opened.
* `FillsInOrder`: `Spec => []FillInOrder`. `Filled` states the invariant of the scan as a
  relation between a pool, its statuses and what was made of the first `n` candidates;
  `TakesUnlocked` and `SkipsLocked` are the two ways from `n` to `n + 1`.
* `GivesUpOnlyWhenShort`: `Spec => []FailsOnlyWhenShort`. When the scan stops with too
  few decoys it has reached the end of the pool, so `FillInOrder` speaks of all of it.
* `ImplementsPromise`: `Spec => KeepsPromise`, the refinement of `RingPromise`. The
  refinement mapping is `chosen`, `published` and `outcome`. `BuildRing` is the
  abstract `Choose`: that its decoys are a set of `NumDecoys` outputs without the real one
  needs `PoolSound`, and `AcceptedBook` (what was accepted is a set of that many
  candidates of the scanned part). The steps that end the process are the abstract
  `Finish`, for which `JobBook` and `EndBook` (a complete file and an exit status
  come together) are needed; every other step changes nothing the promise speaks of.
* `CountsTellTheSplit`: `Spec => []CountsAreTrue`. The three counts of the scan are
  the sizes of three disjoint parts of what was scanned, so they add up to its
  unlocked candidates; a part drawn from one side of the fork is injected into the
  decoys on that side, and no part is larger than its share. The fork limit is the
  one of the run: that a reader of the file does not have it is what the run `verifiable` shows.
* `SplitShowsWithoutSplit`: `Spec => []UnsplitIsVerifiable`. It says where `SplitIsVerifiable`
  does hold: when the flags in the file tell that the pool was not split, only the counts
  that are there fit the ring, whatever the fork limit and the options were.
* `RingsDecode`: `Spec => []RingDecodes`. The rank of a member among the members is a
  bijection onto `1 .. n` that keeps the order, so sorting by ranks gives every member
  once, ascending; and adding up differences gives back what they are differences of.
* `EveryStepCounts`: each step lowers `StepsLeft`, which begins at `MostSteps` or below: a
  budget for each source still to come, and within a source for the tries and shares of
  each bucket and for what is left of the scan. A candidate lowers the tries, the end of
  a bucket or of the scan moves to a later part, a ring takes a source off.

`DecoyTool_proofs`: any chain, any growth and any replacements between the calls.

Each step of the composition is a step of `DecoySelection` by its definition or leaves its
variables alone (`ToolStep`), so what is proved of the selection holds on a live chain.

* `RingsKeepTheirKeys`: `ToolSpec => []KeysAreCurrent`. `Current(i, o, v)` says that `o` was
  the answer about index `i` when the chain had seen `v` replacements, and is so for as long
  as the block is one of that chain; `CurrentStays` shows that it outlives growth and
  replacement, `FetchedWhole` that what `fetch_outs` returns is about the indices asked for,
  in their order.
* `DecoysAreSpendable`: `ToolSpec => []DecoysStayUnlocked`. `Rooted(d, n, v)` says that `d` was
  unlocked on a chain of `n` blocks, so is at or below the block `SpendableAge` below its tip;
  `RootedStays` that it is there as long as that block is. `StatusBook` and `RingsBook` carry it
  from the pool to the rings, `AskedBook` tells which entry of `asked` belongs to which ring.
* `LockedAreMined`: `ToolSpec => []OnlyMinedAreLocked`. `EligibleBook`: as long as nothing
  was replaced, the block that ends the eligible outputs is `SpendableAge` deep.

`GammaPicker_proofs`: any vector of offsets, sorted or not, any ages, any word.

* `TypeCorrect`, `LowerBoundIsInside` (`AlwaysFound`). `SearchEnds` is about the binary
  search on any vector: it ends at a position behind an element that goes right (or at
  the first) and before one that does not (or at the end). The last eligible offset is
  above every target, so the search ends before it.
* `PicksAreOldEnough`, `PicksFollowTheTarget`, `EmptyBlocksCostNothing`. On a sorted
  vector `PickLies` follows from `SearchEnds`: the pick is in the block that holds the
  output before the target. `PickerBook` ties the last pick to its target.
* `DrawsAreUsable`: `Spec => []ResultsAreDrawable`. `ResultBook` keeps the result of a draw
  equal to the pick that was inside the range (`Kept`). With `SelectionStartsWell` below it is
  what `DecoySelection` assumes about its constants (`PickableAssumption`, `SourcesAssumption`,
  `NumOutsAssumption`), proved of the modules that stand for the code before it.
* `DrawsEndInTime`: each turn lowers `TurnsLeft`, and a draw gives up only when
  `MAX_ATTEMPTS` turns have missed.
* `BlockIsMissedAtItsStart`: on a sorted vector the pick is in the block of its target
  exactly when the target is not the first output of its block. It says when
  `PicksBlockOfTarget`, which the run `block` refutes, holds.

`RctOffsets_proofs`: any window size, floor, number of attempts, chain and replies.

* `TypeCorrect`; `NoHeightMissing`: `Spec => []OneValuePerHeight`. `LengthBook` ties the
  number of offsets to `from_height`, `TipBook` says where the windows end. `ChunkTaken`
  sorts the replies: whatever is not refused is the whole window, or from a confused daemon
  its beginning.
* `ValuesStayRight`: `Spec => []RightWhereStable`, from `ValueBook`: the block of a value
  exists as long as it was not replaced. `ChainInv` shows that growth and replacement
  leave the chain below the replaced height as it was.
* `ShortAnswersShift`: `Spec => []ShortAnswersOnlyShift`, from `Shifted`: the values are
  counts of blocks before the next window, none of a block before its own.
* `HalvingSuffices`: `Spec => []HalvingIsEnough`. `HalvingBook`: the size tried is the first
  one halved once for each attempt, but not below the floor, so before the attempts
  run out one was small enough. (That `2^n` doubles is `PowersOfTwo`, by counting subsets.)
* `FetchReadsAtOnce`: `Spec => []FetchIsSnapshot`. If no block up to the tip was replaced, the
  offsets are a piece of the chain: `NoHeightMissing` gives the length, `ValuesStayRight` the
  values, and `TipIsBlock` that a tip that is stable is a block of the chain.
* `NoteHoldsFromStart`: when the note to the user (`main.cpp:234-236`) is right. If the
  first window is not later than the first RingCT block of the network, the note is right.
  `NoteBook`: blocks before that one have no outputs (`EarlyBlocksAssumption`), nor do
  those that replace them, and `real_start` is one of them.
* `EveryCallCounts`: each call lowers `StepsLeft` and the chain leaves it alone, so
  neither growth nor halving keeps the fetch going. A tip that wrapped is included.

`Segregation_proofs`: any command line, any answer of the daemon and any word that is
large enough.

* `TypeCorrect`: whatever vector the window is, the variables are words, and there are outputs
  to draw from before it is asked for. `recent` may wrap; only for an honest answer is
  it a count (`ForkIsCounted`).
* `ReadsInside`: `Spec => []ReadsStayInside`. `TakenWindow` goes through the
  guards: an answer that passes them has both positions inside, and neither wraps.
* `LastGuardNeverFires`: `Spec => []LastGuardIsIdle`, from `NeverBadStart`: the difference
  that would make the last guard fire wraps to at least `Word - RecentBlocks`, which is
  more than any answer has values (`WrongValuesAssumption`), so an earlier guard fires.
* `ForkIsCounted`: `Spec => []TillForkIsCount`. `TillBook` adds that the fork block still
  exists while it is stable, and that `recent` is the difference of two of its counts; a source in a block before the fork is below the count of the
  fork block because counts never fall.
* `PostForkRangeStands`: `Spec => []PostForkHasRange`, from `OutsBook` and the assumption
  that the vicinity is at least the spendable age.
* `RefusedNearTheEnds`: `Spec => []RefusedOnlyNearTheEnds`; `HonestPasses` is the other
  direction of the guards.
* `SelectionStartsWell`: `Spec => []SelectionIsSupplied`. `SupplyBook`: past the
  arguments the command line is an accepted one, past the offsets there is an output, and
  `till_fork` is 0 until a window is taken.
* `ForkBlockIsCounted`: with an honest answer and a fork block that was not replaced, the
  pre-fork range is before the fork exactly when the fork block has no outputs. It says
  when `PreForkRangeIsBeforeFork`, which the run `before_fork` refutes, holds.
* `ArgumentsHaveEffect`: `Spec => []ArgumentsCount`. A mistyped option stays among the
  positional arguments (`PositionalIs`). It is not the first of an accepted command
  line, which is a URL, nor a later one, which has a number in it. `LineBook`: past the
  arguments the fork is the one of the last height, if that is above 0, and the sources worked on
  are counted. It does not say that nothing typed is passed over: text behind a number is, and
  so is every height but the last.

`RandomState_proofs`: any block size, any callers and draws of any length.

* `TypeCorrect`, with `FillBook`: a draw copies at most what it was asked for.
* `DrawsStayApart`: `Spec => []DrawsNeverAssert`. From `MutexBook`: at most one thread
  is inside, and once the generator is ready `curstate` is 1 exactly when none is.
* `BlocksAreFresh`: `Spec => []NoBlockTwice`, and `StateHidesThePast`:
  `Spec => []PastIsHidden`. From `BlockBook`: every block handed out is of an earlier
  epoch, of the current one only between a copy and its permutation, and all of them
  are at or before the last erased epoch unless a draw still has blocks to deliver.
  That last clause needs `RestBook`: a thread that is about to copy or permute has
  bytes left, so the draw ends with the block that is zeroed.
* `SeedIsWhole`: `Spec => []BufferIsFull`. From `FillBook`: while the seed is read, the
  first `at` bytes are covered and `left` are missing, and a read of any length moves
  both.
* `ExitWipesWhatWasUsed`: `Spec => []WipeFailsOnlyUnused`, and a normal exit wipes the state.
  `UnusedBook`: nothing is handed out before the seed is in. So `WipedOnlyWhenReady`,
  which the run `wipe` refutes, fails only where there is nothing to wipe.
* `HiddenStaysHidden`: a block that cannot be computed from the state stays so in all later
  steps, whatever is drawn or added: the last erased epoch never goes back.

`Hashing_proofs`: `HashSpec`, the part of the run `draws` that is not the generator, with any
number of pieces of any length, dwords of any size, and a bit at any place of its lane.

* `StreamsAgree`: `HashSpec => []StreamIsOneShot`. `StreamBook`: the context has absorbed
  the whole blocks of what it was given, and its buffer begins with the rest; once
  finished it has absorbed the padded rest too. `UpdateGoesOn` is one `keccak_update` (the
  buffer stays partial, is completed, or was empty), `LoopLeaves` its loop, `FinishPads` and
  `HashIs` the two ways to the digest.
* `BlocksFit`: `HashSpec => []BlocksFitBuffer`, from `GoodSizesFit`, which is about every
  integer.
* `ArithmeticIsExact`: `HashSpec => []HelpersAreExact`. `CarryIs` says what a sum that is
  smaller than a summand tells; with it `mul128` is multiplication by hand in two
  digits, and `div128_32` is division by hand digit by digit (`OneDigit`). Swaps and
  rotations are followed bit by bit (`Exchanged`, `SwapMacroReverses`, `RotationKeeps`).
* `PermutationIsRight`: `HashSpec => []PermutationIsKeccak`; `TrialBook` keeps the input what it
  was chosen as. `ThetaOfBit` follows one bit through the parities. For rho and pi the
  walk of the reference is put into a table of lanes (`WalkLanes`, where `Places` says at which
  step of the walk each lane comes); the code's chain of assignments runs backwards along it, so no
  lane is read after it was written (`RhoPiMovesBits`). `ChiIs` is one row. The constants
  of iota follow from what seven shifts make of any register (`RoundShifts`), with which a
  table of the registers and output bits of the 24 rounds is checked line by line
  (`TablesAgree`, `ConstantsAre`).
* `EveryStateIsMixed` needs no run: it is about every state of 25 lanes, where TLC and
  `PermutationIsKeccak` look at single bits and rows. Theta turns a bit over when just one of
  its two columns is odd (`OddColumn`), rho and pi move every bit to its place, chi
  mixes every row.

Loops that are written as recursive functions (`LowerBound`, `Positional`, `Decoded`, the
blocks of `keccak_update` and of `keccak`) need an induction, which the provers cannot cite as
a theorem. The proofs take a smallest counterexample instead (`SmallestIn`, `LeastOf`, from
the well-foundedness of the naturals): there is a function that satisfies the recursive
equation, what is known of it is known of any that does, and so of the one that is chosen.

Some proof attempts failed because the model said too much or too little, and the model
was changed to what the code does: chains are cumulative (`ChainsAssumption`);
`DecoysStayUnlocked` compares a ring with the chain its own pool was asked about, not with
that of a later source; an answer is remembered with the replacements before it; a mistyped option has no number in it; the sentinel is a word and
a word is large against the chain.

Only model-checked:

* Liveness (`Terminates`, `FeeIsOptional`, `FetchEnds`), because fairness and `ENABLED` are out
  of the prover's reach. `EveryStepCounts` and `EveryCallCounts` prove the part that is about
  the code, that it cannot go on for ever; that it does not stop half-way is checked by TLC.
* The five refutations themselves (`written`, `verifiable`, `block`, `before_fork`, `wipe`).

## Disagreements found

* `PicksBlockOfTarget`: `lower_bound` on cumulative counts (`gamma_picker.cpp:80`)
  takes the block before when the target is the first output of its block; the
  comment at `gamma_picker.cpp:54-55` says the block where the output appears.
  Upstream Monero does the same.
* `ExitZeroMeansRingWritten`: the stream of `ring.json` is never checked
  (`main.cpp:731-736`), so a run that could not write it still says "Ring
  written" and ends with 0.
* `PreForkRangeIsBeforeFork`: `till_fork` includes the fork block
  (`main.cpp:276`), the classification of a source does not (`main.cpp:488`).
* `SplitIsVerifiable`: `README.md:206-211` says that the `segregation` block makes the split
  verifiable from the output file. The file has neither `till_fork` nor the bucket of any
  decoy (`main.cpp:692-701`, `720-722`), so other counts would look as right: the run finds a
  ring that fits them too. What the file says is true (`CountsAreTrue`); it cannot be checked
  with the file.
* `WipedOnlyWhenReady`: an entropy failure in `init_random` calls `exit()`, which
  runs `deinit_random`, whose assertion `curstate == 1` fails: the process aborts
  instead of ending with `EXIT_FAILURE`. (The Makefile does not define `NDEBUG`.)

One more is a theorem rather than a run: the first window starts at 1220516 on every network
(`main.cpp:193`), and the note at `main.cpp:235-236` says there are no earlier blocks.
`NoteHoldsFromStart` proves it where the network's first RingCT outputs are not earlier; on
any other network the note denies outputs that exist, and the offsets have no value for their blocks.

## What is not modelled

* The bodies of libcurl and of the JSON library, the options set on a transfer, and
  JSON fields of a wrong type, which end the run with an exception like any other
  failure. Time: a server that sends slightly more than 1 KB/s without end holds a
  call for ever (`main.cpp:103`).
* `div128_64`, the slow hashes and the tree hashes: declared in the headers, not
  defined in this repository.
* The distribution of the picks: only which picks are possible. The rounding of
  `average_output_time` to a double.
* `main.cpp:359` reads the height of an output through an `int`, which the model takes for the
  height itself: the two differ only for heights of 2^31 and more.
* Wording of messages, the build, the compiler headers.

## What is left

Every module of the plan is written, and every safety property of a passing run is
proved. Not proved, and not provable with these tools, is liveness under fairness. Two
hazards have no property. No model of a step can show a server that sends its answer too
slowly to finish and too fast for the cutoff (`main.cpp:103`). And nothing says what a user who
types text behind a number, or two heights, may expect (`main.cpp:400`, `423`).
