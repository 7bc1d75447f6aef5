--------------------------- MODULE DecoySelection ---------------------------
(***************************************************************************)
(* main() of main.cpp from the segregation window on: for every real       *)
(* output given on the command line, draw a pool of candidates, ask the    *)
(* daemon once which of them are unlocked, keep the first NUM_DECOYS       *)
(* unlocked ones, and build the ring; after the last source ask for a fee  *)
(* estimate and write ring.json.                                           *)
(*                                                                         *)
(* The daemon is the environment: every answer it could give is a          *)
(* nondeterministic choice, and every call to it may fail.  The gamma      *)
(* picker is reduced to the set of indices pick() can return (module       *)
(* GammaPicker models pick() itself).  Output keys and masks are left out: *)
(* they are copied from the daemon's answer into the ring untouched.       *)
(***************************************************************************)
EXTENDS Integers, Sequences, FiniteSets, SequencesExt

CONSTANTS
  Sources,        \* real_indices: the real outputs, in command-line order
  NumOuts,        \* gp.get_num_rct_outs()
  Pickable,       \* the indices gp.pick() returns with non-zero probability
  PastFork,       \* the values is_after_segregation_fork may take in a run
  TillForks,      \* the values of till_fork the daemon may lead to
  PoolSize,       \* REQUESTED_POOL_SIZE (75 in the code)
  NumDecoys,      \* NUM_DECOYS (15 in the code)
  MaxLocalTries,  \* MAX_LOCAL_TRIES (400000 in the code)
  UnluckyPicks    \* whether 200000 picks may miss a range that is not empty

ASSUME SourcesAssumption == Sources \in Seq(Nat) /\ Sources # <<>>
ASSUME NumOutsAssumption == NumOuts \in Nat \ {0}
ASSUME PickableAssumption == Pickable \subseteq 0 .. NumOuts - 1
ASSUME PastForkAssumption == PastFork \subseteq BOOLEAN
ASSUME TillForksAssumption == TillForks \subseteq Nat
ASSUME DecoysAssumption == PoolSize \in Nat /\ NumDecoys \in 1 .. PoolSize
ASSUME TriesAssumption == MaxLocalTries \in Nat /\ MaxLocalTries >= PoolSize
ASSUME UnluckyAssumption == UnluckyPicks \in BOOLEAN

VARIABLES
  pc,            \* where main() is
  seg,           \* the flags and the segregation limit of this run
  src,           \* position in Sources of the source being worked on
  isPreFork,     \* output_is_pre_fork of that source
  plan,          \* pre_fork_draw, post_fork_draw, normal_draw
  bucket,        \* which draw_pool_slot call is running, 1 .. 3
  got, tries,    \* the locals of draw_pool_slot
  pool,          \* the candidates drawn, with the bucket each came from
  status,        \* pool_status: for each candidate, whether it is unlocked
  at,            \* how many candidates of the pool the scan has looked at
  confirmed,     \* confirmed_list
  accepted,      \* accepted_pre, accepted_post, accepted_normal
  lockedSkipped, \* locked_skipped
  rings,         \* sources_json
  fee,           \* what get_fee_estimate left in ring_json
  file,          \* ring.json on disk
  exit           \* how the process ended

drawVars == <<isPreFork, plan, bucket, got, tries, pool>>
scanVars == <<status, at, confirmed, accepted, lockedSkipped>>
outVars  == <<rings, fee, file>>
vars     == <<pc, seg, src, drawVars, scanVars, outVars, exit>>

----------------------------------------------------------------------------
(* The data.                                                               *)

SlotTypes == {"PRE_FORK", "POST_FORK", "NORMAL"}

\* The order of the three draw_pool_slot calls.
BucketOrder == <<"PRE_FORK", "POST_FORK", "NORMAL">>

Places == {"startup", "real_check", "draw", "pool_status", "scan",
           "final_details", "fee", "open", "write", "exited"}

\* What the first part of main() settles: the two flags, where the chain is
\* relative to the fork, and till_fork, which stays 0 when it is not fetched.
Segregations ==
  {s \in [after : PastFork, shortly : BOOLEAN, segregate : BOOLEAN,
          mitigate : BOOLEAN, till : TillForks \cup {0}] :
     /\ s.shortly => s.after
     /\ IF s.after /\ (s.segregate \/ s.mitigate)
        THEN s.till \in TillForks
        ELSE s.till = 0}

\* The slips the definitions called Slip... make are not in the code: each is put
\* in the place of the definition it precedes to see that a property notices.

\* (size_t)(REQUESTED_POOL_SIZE * permille/1000 * (1 - RECENT_OUTPUT_RATIO)).
Share(permille) == (PoolSize * permille) \div 2000

\* whole_pool_restricted_to_pre_fork, which despite its name leaves the draw to
\* the full chain.
Restricted(s, pre) == s.after /\ s.segregate /\ pre

\* How the pool is split among the buckets for a source that is (pre) or is
\* not older than the fork.
Split(s, pre) ==
  LET mitigated  == s.after /\ s.mitigate /\ ~Restricted(s, pre)
      preDraw    == IF mitigated /\ pre THEN Share(334) ELSE 0
      postDraw   == IF mitigated /\ ~s.shortly
                    THEN Share(IF pre THEN 334 ELSE 678) ELSE 0
  IN  [t \in SlotTypes |-> CASE t = "PRE_FORK"  -> preDraw
                             [] t = "POST_FORK" -> postDraw
                             [] t = "NORMAL"    -> PoolSize - preDraw - postDraw]

NoPlan == [t \in SlotTypes |-> 0]

SlipBounds(t, s) == CASE t = "PRE_FORK" -> 0 .. s.till
                      [] t = "POST_FORK" -> s.till .. NumOuts - 1
                      [] t = "NORMAL" -> 0 .. NumOuts - 1

\* bounds_for(t): the range [lo, hi) of a bucket.
Bounds(t, s) == CASE t = "PRE_FORK"  -> 0 .. s.till - 1
                  [] t = "POST_FORK" -> s.till .. NumOuts - 1
                  [] t = "NORMAL"    -> 0 .. NumOuts - 1

\* What bounded_gamma_pick can return for a bucket.
Drawable(t, s) == Pickable \cap Bounds(t, s)

IndicesOf(p) == {p[i].index : i \in DOMAIN p}

SlipKeepsReal(i, real, p) == i \in IndicesOf(p)
SlipKeepsRepeats(i, real, p) == i = real

\* draw_pool_slot passes over the real output and over repeated candidates.
PassedOver(i, real, p) == i = real \/ i \in IndicesOf(p)

SlipOneMoreTry(g, n, k) == g < n /\ k <= MaxLocalTries
SlipLastUnscanned(i, p, c) == i + 1 < Len(p) /\ Len(c) < NumDecoys

\* The conditions of the while loop of draw_pool_slot and of the scan.
WantsMore(g, n, k) == g < n /\ k < MaxLocalTries
ScanGoesOn(i, p, c) == i < Len(p) /\ Len(c) < NumDecoys

SlipCountKept(k, wasPassedOver) == IF wasPassedOver THEN k ELSE k + 1

\* local_tries counts every index picked, the ones passed over too.
CountTry(k, wasPassedOver) == k + 1

SlipTakesLocked(unlocked) == TRUE

\* Whether a candidate may join the decoys.
IsUsable(unlocked) == unlocked

\* confirmed_list.size() < NUM_DECOYS after the scan.
TooFew(c) == Len(c) < NumDecoys

\* How many members std::sort, by global index, leaves before the one at i.
Rank(members, i) ==
  Cardinality({j \in DOMAIN members :
                 members[j] < members[i] \/ (members[j] = members[i] /\ j < i)})

SortedRing(members) ==
  [k \in DOMAIN members |->
     members[CHOOSE i \in DOMAIN members : Rank(members, i) = k - 1]]

SlipKeyOffsets(ring) ==
  [i \in DOMAIN ring |-> IF i = 1 THEN ring[1] ELSE ring[i] - ring[1]]

\* key_offsets_relative: the first index, then differences.
KeyOffsets(ring) ==
  [i \in DOMAIN ring |-> IF i = 1 THEN ring[1] ELSE ring[i] - ring[i - 1]]

\* real_output_position counts from 0.
PositionOf(real, ring) == SelectInSeq(ring, LAMBDA m : m = real) - 1

\* The three flags of the "segregation" block.
Flags(s, pre) == [is_after |-> s.after, is_pre_fork |-> pre, restricted |-> Restricted(s, pre)]

\* One element of sources_json.  decoys (the order of acceptance) is not in
\* the file; it is kept for the properties.  till_fork is not in the file either.
SourceJson(real, decoys, counts, poolSize, skipped, flags) ==
  LET ring == SortedRing(<<real>> \o decoys)
  IN  [real |-> real, decoys |-> decoys, ring |-> ring,
       position |-> PositionOf(real, ring), offsets |-> KeyOffsets(ring),
       counts |-> counts, pool_size |-> poolSize, locked_skipped |-> skipped,
       flags |-> flags]

SlipLastSource(s) == s + 1 < Len(Sources)

\* Whether the loop over real_indices goes round again after source s.
MoreSources(s) == s < Len(Sources)

Real == Sources[src]
Bucket == BucketOrder[bucket]

----------------------------------------------------------------------------
(* The steps of main().                                                    *)

Init ==
  /\ pc = "startup"
  /\ seg = [after |-> FALSE, shortly |-> FALSE, segregate |-> TRUE,
            mitigate |-> TRUE, till |-> 0]
  /\ src = 1
  /\ isPreFork = FALSE /\ plan = NoPlan /\ bucket = 1 /\ got = 0 /\ tries = 0 /\ pool = <<>>
  /\ status = <<>> /\ at = 0 /\ confirmed = <<>>
  /\ accepted = NoPlan /\ lockedSkipped = 0
  /\ rings = <<>> /\ fee = "unasked" /\ file = "previous"
  /\ exit = "running"

Stop(how) == pc' = "exited" /\ exit' = how

\* get_info, the offsets, the picker and the segregation window went well.
Startup ==
  /\ pc = "startup"
  /\ seg' \in Segregations
  /\ pc' = "real_check"
  /\ UNCHANGED <<src, drawVars, scanVars, outVars, exit>>

\* fetch_outs for the real output.  A locked real output is only warned of;
\* the height in the answer says whether it is older than the fork.
CheckReal ==
  /\ pc = "real_check"
  /\ isPreFork' \in IF seg.after THEN BOOLEAN ELSE {FALSE}
  /\ plan' = Split(seg, isPreFork')
  /\ pc' = "draw"
  /\ UNCHANGED <<seg, src, bucket, got, tries, pool, scanVars, outVars, exit>>

\* An exception nobody catches: a failed call of the start-up, or one of the
\* three fetch_outs of a source.  The pool is not asked about when it is empty.
RpcFails ==
  /\ \/ pc \in {"startup", "real_check", "final_details"}
     \/ pc = "pool_status" /\ pool # <<>>
  /\ Stop("exception")
  /\ UNCHANGED <<seg, src, drawVars, scanVars, outVars>>

\* One turn of the loop in draw_pool_slot.
DrawCandidate ==
  /\ pc = "draw"
  /\ WantsMore(got, plan[Bucket], tries)
  /\ \E p \in Drawable(Bucket, seg) :
        LET passed == PassedOver(p, Real, pool)
        IN  /\ tries' = CountTry(tries, passed)
            /\ got'   = IF passed THEN got ELSE got + 1
            /\ pool'  = IF passed THEN pool
                        ELSE Append(pool, [index |-> p, bucket |-> Bucket])
  /\ UNCHANGED <<pc, seg, src, isPreFork, plan, bucket, scanVars, outVars, exit>>

\* draw_pool_slot returns: the bucket is full, its tries are used up, or
\* bounded_gamma_pick threw.  A bucket left short is only warned of.
EndBucket ==
  /\ pc = "draw"
  /\ \/ ~WantsMore(got, plan[Bucket], tries)
     \/ Drawable(Bucket, seg) = {}
     \/ UnluckyPicks
  /\ IF bucket < Len(BucketOrder)
     THEN bucket' = bucket + 1 /\ pc' = "draw"
     ELSE bucket' = bucket /\ pc' = "pool_status"
  /\ got' = 0 /\ tries' = 0
  /\ UNCHANGED <<seg, src, isPreFork, plan, pool, scanVars, outVars, exit>>

\* One /get_outs for the whole pool.
FetchStatus ==
  /\ pc = "pool_status"
  /\ status' \in [DOMAIN pool -> BOOLEAN]
  /\ pc' = "scan"
  /\ UNCHANGED <<seg, src, drawVars, at, confirmed, accepted, lockedSkipped,
                 outVars, exit>>

\* One turn of the scan: a locked candidate is skipped and not replaced.
ScanSlot ==
  /\ pc = "scan"
  /\ ScanGoesOn(at, pool, confirmed)
  /\ at' = at + 1
  /\ IF IsUsable(status[at + 1])
     THEN /\ confirmed' = Append(confirmed, pool[at + 1].index)
          /\ accepted' = [accepted EXCEPT ![pool[at + 1].bucket] = @ + 1]
          /\ UNCHANGED lockedSkipped
     ELSE /\ lockedSkipped' = lockedSkipped + 1
          /\ UNCHANGED <<confirmed, accepted>>
  /\ UNCHANGED <<pc, seg, src, drawVars, status, outVars, exit>>

\* The pool ran out: return 1.
PoolTooShort ==
  /\ pc = "scan"
  /\ ~ScanGoesOn(at, pool, confirmed)
  /\ TooFew(confirmed)
  /\ Stop("short")
  /\ UNCHANGED <<seg, src, drawVars, scanVars, outVars>>

EnoughDecoys ==
  /\ pc = "scan"
  /\ ~ScanGoesOn(at, pool, confirmed)
  /\ ~TooFew(confirmed)
  /\ pc' = "final_details"
  /\ UNCHANGED <<seg, src, drawVars, scanVars, outVars, exit>>

\* fetch_outs for the decoys (whose lock status is not looked at again), then
\* the ring, its position and offsets, and the source's JSON.  The locals of the
\* loop body go out of scope.
BuildRing ==
  /\ pc = "final_details"
  /\ rings' = Append(rings, SourceJson(Real, confirmed, accepted, Len(pool),
                                       lockedSkipped, Flags(seg, isPreFork)))
  /\ IF MoreSources(src)
     THEN src' = src + 1 /\ pc' = "real_check"
     ELSE src' = src /\ pc' = "fee"
  /\ isPreFork' = FALSE /\ plan' = NoPlan /\ bucket' = 1 /\ got' = 0 /\ tries' = 0 /\ pool' = <<>>
  /\ status' = <<>> /\ at' = 0 /\ confirmed' = <<>>
  /\ accepted' = NoPlan /\ lockedSkipped' = 0
  /\ UNCHANGED <<seg, fee, file, exit>>

SlipFeeThrows ==
  /\ pc = "fee"
  /\ \/ fee' = "both" /\ pc' = "open" /\ exit' = exit
     \/ fee' = "none" /\ Stop("exception")
  /\ UNCHANGED <<seg, src, drawVars, scanVars, rings, file>>

\* get_fee_estimate: a failure is only warned of, and may come after
\* fee_per_byte is already in ring_json.
FetchFee ==
  /\ pc = "fee"
  /\ fee' \in {"both", "per_byte_only", "none"}
  /\ pc' = "open"
  /\ UNCHANGED <<seg, src, drawVars, scanVars, rings, file, exit>>

\* std::ofstream("ring.json"): truncates the file, or fails unnoticed and the
\* process still ends with "Ring written" and 0.
OpenRingFile ==
  /\ pc = "open"
  /\ \/ file' = "truncated" /\ pc' = "write" /\ exit' = exit
     \/ file' = file /\ Stop("ok")
  /\ UNCHANGED <<seg, src, drawVars, scanVars, rings, fee>>

\* The dump and close(): complete, or cut short by the disk, unnoticed.
WriteRingFile ==
  /\ pc = "write"
  /\ file' \in {"complete", "partial", "truncated"}
  /\ Stop("ok")
  /\ UNCHANGED <<seg, src, drawVars, scanVars, rings, fee>>

\* The user or the system kills the process, perhaps in the middle of write().
Kill ==
  /\ pc # "exited"
  /\ file' \in IF pc = "write" THEN {"truncated", "partial", "complete"}
             ELSE {file}
  /\ Stop("killed")
  /\ UNCHANGED <<seg, src, drawVars, scanVars, rings, fee>>

Exited == pc = "exited" /\ UNCHANGED vars

Draw == DrawCandidate \/ EndBucket
Fill == FetchStatus \/ ScanSlot \/ PoolTooShort \/ EnoughDecoys
Publish == FetchFee \/ OpenRingFile \/ WriteRingFile

Tool == Startup \/ CheckReal \/ RpcFails \/ Draw \/ Fill \/ BuildRing \/ Publish

Next == Tool \/ Kill \/ Exited

Spec == Init /\ [][Next]_vars

\* Every call the tool makes returns: the transfers have a connect timeout and
\* a low-speed cutoff, so the tool keeps taking steps until it exits.
FairSpec == Spec /\ WF_vars(Tool)

----------------------------------------------------------------------------
(* What makes the selection correct.                                       *)

Candidates == [index : Nat, bucket : SlotTypes]

\* The variables hold what main() can hold: no bucket size or counter runs
\* below zero or past the pool, and the scan stays inside the pool.
TypeOK ==
  /\ pc \in Places
  /\ seg \in [after : BOOLEAN, shortly : BOOLEAN, segregate : BOOLEAN,
              mitigate : BOOLEAN, till : Nat]
  /\ src \in 1 .. Len(Sources)
  /\ isPreFork \in BOOLEAN /\ plan \in [SlotTypes -> 0 .. PoolSize]
  /\ bucket \in 1 .. Len(BucketOrder)
  /\ got \in 0 .. PoolSize /\ tries \in 0 .. MaxLocalTries
  /\ pool \in Seq(Candidates) /\ Len(pool) <= PoolSize
  /\ status \in Seq(BOOLEAN) /\ Len(status) <= Len(pool)
  /\ at \in 0 .. Len(status)
  /\ confirmed \in Seq(Nat) /\ Len(confirmed) <= NumDecoys
  /\ accepted \in [SlotTypes -> 0 .. NumDecoys]
  /\ lockedSkipped \in 0 .. PoolSize
  /\ fee \in {"unasked", "both", "per_byte_only", "none"}
  /\ file \in {"previous", "truncated", "partial", "complete"}
  /\ exit \in {"running", "ok", "short", "exception", "killed"}

\* seen_in_pool and the p == real_index test of draw_pool_slot do their work
\* across the three calls: no candidate repeats, even between buckets whose
\* ranges overlap, none is the real output, and each is in its bucket's range.
PoolSound ==
  /\ \A i, j \in DOMAIN pool : pool[i].index = pool[j].index => i = j
  /\ \A i \in DOMAIN pool :
       /\ pool[i].index # Real
       /\ pool[i].index \in Pickable
       /\ pool[i].bucket = "PRE_FORK"  => pool[i].index < seg.till
       /\ pool[i].bucket = "POST_FORK" => pool[i].index >= seg.till

UnlockedUpTo(n) == {i \in 1 .. n : status[i]}

\* The scan takes the first unlocked candidates in pool order and replaces no
\* locked one: what was accepted so far is the unlocked part of the scanned
\* prefix, in order, and the three counters describe exactly that prefix
\* (main.cpp:625-640).
FillInOrder ==
  /\ Len(confirmed) = Cardinality(UnlockedUpTo(at))
  /\ lockedSkipped = at - Len(confirmed)
  /\ \A i \in UnlockedUpTo(at) :
       confirmed[Cardinality(UnlockedUpTo(i))] = pool[i].index
  /\ \A t \in SlotTypes :
       accepted[t] = Cardinality({i \in UnlockedUpTo(at) : pool[i].bucket = t})

\* The tool gives up (return 1 at main.cpp:649) only when the whole pool, not
\* merely the part scanned, holds fewer than NUM_DECOYS unlocked candidates.
FailsOnlyWhenShort ==
  exit = "short" => Cardinality({i \in DOMAIN pool : status[i]}) < NumDecoys

\* The running sums of a sequence of differences.
Decoded(offsets) ==
  LET sum[i \in DOMAIN offsets] == IF i = 1 THEN offsets[1] ELSE sum[i - 1] + offsets[i]
  IN  sum

\* Whoever decodes key_offsets_relative by adding them up gets the ring back:
\* strictly increasing, made of the real output and NUM_DECOYS others, with the
\* real output at real_output_position.
RingDecodes ==
  \A k \in DOMAIN rings :
    LET r == rings[k]
        decoded == Decoded(r.offsets)
    IN  /\ Len(decoded) = NumDecoys + 1
        /\ \A i \in 1 .. NumDecoys : decoded[i] < decoded[i + 1]
        /\ ToSet(decoded) = {r.real} \cup ToSet(r.decoys)
        /\ decoded[r.position + 1] = Sources[k]

\* Whether counts c could be those of ring r in a run with segregation s: they
\* have the flags of the file, add up to the decoys, none is above the size of its
\* bucket, the pre-fork and post-fork ones are covered by decoys on that side of
\* till_fork, and the pool held the decoys and the locked candidates passed over.
Fits(r, c, s) ==
  LET onSide(low) == {d \in ToSet(r.decoys) : (d < s.till) = low}
  IN  /\ r.flags = Flags(s, r.flags.is_pre_fork)
      /\ c["PRE_FORK"] + c["POST_FORK"] + c["NORMAL"] = NumDecoys
      /\ \A t \in SlotTypes : c[t] <= Split(s, r.flags.is_pre_fork)[t]
      /\ c["PRE_FORK"] <= Cardinality(onSide(TRUE))
      /\ c["POST_FORK"] <= Cardinality(onSide(FALSE))
      /\ NumDecoys + r.locked_skipped <= r.pool_size

\* The "segregation" block of main.cpp:692-701 says what happened: in every ring
\* of the file the counts fit the run they come from, with the till_fork and the
\* options that only the run knows.
CountsAreTrue == \A k \in DOMAIN rings : Fits(rings[k], rings[k].counts, seg)

\* README.md:209-211, "This makes the split verifiable just by reading the output
\* file": no other counts fit the ring of a source, even for a reader who knows
\* the options of the run.  Neither till_fork nor the bucket of a member is in
\* the file, so this does not hold.
SplitIsVerifiable ==
  \A k \in DOMAIN rings :
    \A c \in [SlotTypes -> 0 .. NumDecoys] :
      (\E h \in 0 .. NumOuts : Fits(rings[k], c, [seg EXCEPT !.till = h]))
        => c = rings[k].counts

\* The job is published whole or not at all: ring.json is touched only when
\* every source has its ring, in command-line order, so a run that fails on a
\* later source leaves the file of an earlier run alone.
WholeJobOrNothing ==
  /\ file # "previous" =>
       [k \in DOMAIN rings |-> rings[k].real] = Sources
  /\ exit \in {"short", "exception"} => file = "previous"

\* A failed fee estimate never costs the rings: once the last ring is built the
\* tool ends with 0 unless it is killed.
FeeIsOptional ==
  (pc = "fee") ~> (exit \in {"ok", "killed"})

\* However the daemon answers and the picks fall, the tool comes to an end.
Terminates == <>(pc = "exited")

\* README.md, "At the end of the process, ring.json contains the ring or
\* rings", and main.cpp:734 says so whenever it returns 0.  The code never
\* looks at the stream, so this does not hold.
ExitZeroMeansRingWritten == exit = "ok" => file = "complete"

\* The refinement: the settled decoys are those of the finished rings, a reader
\* finds them in the file once it is complete, and the exit status tells
\* success from failure.
Promise == INSTANCE RingPromise WITH
  Outputs   <- 0 .. NumOuts - 1,
  chosen    <- [k \in DOMAIN rings |-> ToSet(rings[k].decoys)],
  published <- IF file = "complete"
               THEN [k \in DOMAIN rings |-> ToSet(rings[k].decoys)] ELSE <<>>,
  outcome   <- IF exit = "running" THEN "running"
               ELSE IF exit = "ok" THEN "success" ELSE "failure"

\* main() implements the promise of module RingPromise: every step is a step of
\* it or changes nothing it speaks of.
KeepsPromise == Promise!Spec

=============================================================================
