----------------------------- MODULE GammaPicker -----------------------------
(***************************************************************************)
(* gamma_picker (gamma_picker.cpp) and the rejection loop around it,       *)
(* bounded_gamma_pick (main.cpp).                                          *)
(*                                                                         *)
(* rct_offsets[b] is the number of RingCT outputs in blocks 0 .. b, as the *)
(* daemon reported it; nothing checks that it is sorted.  Sequences here   *)
(* count from 1: offset i + 1 of the model is rct_offsets[i].              *)
(* The gamma variate is an arbitrary age x in Ages; unsigned arithmetic    *)
(* wraps at Word.  Ages are fractions of a second in the code, ticks here. *)
(***************************************************************************)
EXTENDS Uint64, Sequences

CONSTANTS
  Offsets,       \* the vectors rct_offsets the picker may be given
  Ranges,        \* the pairs <<lo, hi>> bounded_gamma_pick is called with
  Ages,          \* exp(gamma(engine)), in ticks
  Second,        \* ticks in a second
  SpendableAge,  \* CRYPTONOTE_DEFAULT_TX_SPENDABLE_AGE (10 in the code)
  Target,        \* DIFFICULTY_TARGET_V2 (120 in the code)
  RecentBlocks,  \* RECENT_SPEND_WINDOW / DIFFICULTY_TARGET_V2 (15 in the code)
  BlocksInYear,  \* blocks_in_a_year (262800 in the code)
  MaxAttempts    \* MAX_ATTEMPTS (200000 in the code)

ASSUME BlocksAssumption ==
  /\ SpendableAge \in Nat \ {0} /\ Target \in Nat \ {0}
  /\ RecentBlocks \in Nat \ {0} /\ BlocksInYear \in Nat \ {0}
  /\ Second \in Nat \ {0}
ASSUME OffsetsAssumption == Offsets \subseteq Seq(0 .. Word - 1)
ASSUME RangesAssumption == Ranges \subseteq (0 .. Word - 1) \X (0 .. Word - 1)
ASSUME AgesAssumption == Ages \subseteq Nat
ASSUME AttemptsAssumption == MaxAttempts \in Nat

VARIABLES
  phase,             \* "new", "ready", "drawing", "thrown"
  rct_offsets,
  num_rct_outputs,
  average,           \* average_output_time, as <<ticks, outputs>>
  range,             \* the [lo, hi) of the draw in progress
  attempts,          \* a, in bounded_gamma_pick
  target,            \* output_index of the last pick, -1 if it was too old
  picked,            \* what the last pick() returned
  result             \* what the last bounded_gamma_pick returned, -1 if none

vars == <<phase, rct_offsets, num_rct_outputs, average, range, attempts,
          target, picked, result>>

----------------------------------------------------------------------------

BadPick == Word - 1     \* std::numeric_limits<uint64_t>::max()

\* rand_idx: sz - 1 wraps, so that 0 would stand for the whole range of a word.
RandIdx(sz) == 0 .. Wrap(sz - 1)

Smaller(a, b) == IF a < b THEN a ELSE b

DefaultUnlockTime == SpendableAge * Target * Second
RecentSpendWindow == RecentBlocks * Target

\* std::lower_bound on the first n elements of s: the position, counted from 0,
\* where the binary search of libstdc++ ends.  On a sorted s that is the first
\* element not less than v; on another s it still ends somewhere.
\* Definitions called Slip... are slips the code does not make; each is put in the
\* place of the definition after it to see that a property notices.
SlipGoesRight(element, v) == element <= v
GoesRight(element, v) == element < v

LowerBound(s, n, v) ==
  LET search[part \in (0 .. n) \X (0 .. n)] ==
        LET lo  == part[1]
            hi  == part[2]
            mid == lo + (hi - lo) \div 2
        IN  IF hi <= lo THEN lo
            ELSE IF GoesRight(s[mid + 1], v) THEN search[<<mid + 1, hi>>]
                 ELSE search[<<lo, mid>>]
  IN  search[<<0, n>>]

\* end - begin: the blocks old enough to spend from.
SlipEligible(s) == Len(s) - SpendableAge + 2
Eligible(s) == Len(s) - SpendableAge + 1

\* outputs_to_consider: those of the last year of blocks.
OutputsToConsider(s) ==
  LET blocks == Smaller(Len(s), BlocksInYear)
  IN  Wrap(s[Len(s)] - (IF blocks < Len(s) THEN s[Len(s) - blocks] ELSE 0))

\* The age after the unlock time is taken off; a younger one is replaced by
\* rand_idx(RECENT_SPEND_WINDOW), whole seconds.
AgesAfterUnlock(x) == IF x > DefaultUnlockTime THEN {x - DefaultUnlockTime}
                      ELSE {Second * i : i \in RandIdx(RecentSpendWindow)}

\* The target: output_index counted from the oldest output, -1 if there is none
\* that old.
SlipTargetOf(x) == num_rct_outputs - (x * average[2]) \div average[1]
SlipTargetFromTip(x) ==
  LET n == (x * average[2]) \div average[1]
  IN  IF n >= num_rct_outputs THEN -1 ELSE rct_offsets[Len(rct_offsets)] - 1 - n
TargetOf(x) ==
  LET n == (x * average[2]) \div average[1]
  IN  IF n >= num_rct_outputs THEN -1 ELSE num_rct_outputs - 1 - n

\* The block pick() chooses for a target (counted from 0), its first output and
\* its number of outputs.
BlockOf(k) == LowerBound(rct_offsets, Eligible(rct_offsets), k)
FirstRct(b) == IF b = 0 THEN 0 ELSE rct_offsets[b]
SlipNumRct(b) == Wrap(rct_offsets[b + 1] - FirstRct(b) - 1)
NumRct(b) == Wrap(rct_offsets[b + 1] - FirstRct(b))

\* What pick() returns for a target, over the values of rand_idx.
Picks(k) ==
  IF k = -1 \/ NumRct(BlockOf(k)) = 0 THEN {BadPick}
  ELSE {Wrap(FirstRct(BlockOf(k)) + r) : r \in RandIdx(NumRct(BlockOf(k)))}

\* bounded_gamma_pick keeps a pick that is not bad and lies in [lo, hi).
SlipKept(p) == p # BadPick /\ p >= range[1] /\ p <= range[2]
Kept(p) == p # BadPick /\ p >= range[1] /\ p < range[2]

----------------------------------------------------------------------------

Init ==
  /\ phase = "new"
  /\ rct_offsets \in Offsets
  /\ num_rct_outputs = 0 /\ average = <<1, 1>>
  /\ range = <<0, 0>> /\ attempts = 0
  /\ target = -1 /\ picked = BadPick /\ result = -1

\* The constructor's three exceptions.
CannotConstruct(s) ==
  Len(s) >= SpendableAge => s[Eligible(s)] = 0 \/ OutputsToConsider(s) = 0

Construct ==
  /\ phase = "new"
  /\ ~CannotConstruct(rct_offsets)
  /\ phase' = "ready"
  /\ num_rct_outputs' = rct_offsets[Eligible(rct_offsets)]
  /\ average' = <<Target * Second * Smaller(Len(rct_offsets), BlocksInYear),
                  OutputsToConsider(rct_offsets)>>
  /\ UNCHANGED <<rct_offsets, range, attempts, target, picked, result>>

ConstructThrows ==
  /\ phase = "new"
  /\ CannotConstruct(rct_offsets)
  /\ phase' = "thrown"
  /\ UNCHANGED <<rct_offsets, num_rct_outputs, average, range, attempts, target,
                 picked, result>>

\* main() calls bounded_gamma_pick.
StartDraw ==
  /\ phase = "ready"
  /\ range' \in Ranges
  /\ phase' = "drawing" /\ attempts' = 0 /\ result' = -1
  /\ UNCHANGED <<rct_offsets, num_rct_outputs, average, target, picked>>

\* One turn of the loop in bounded_gamma_pick: a whole pick().  The exception
\* "output_index not found" would leave the loop too, and draw_pool_slot would
\* take it for a range without outputs.
Pick ==
  /\ phase = "drawing"
  /\ attempts < MaxAttempts
  /\ \E x \in Ages : \E y \in AgesAfterUnlock(x) : target' = TargetOf(y)
  /\ IF target' # -1 /\ BlockOf(target') = Eligible(rct_offsets)
     THEN phase' = "ready" /\ UNCHANGED <<attempts, picked, result>>
     ELSE /\ picked' \in Picks(target')
          /\ attempts' = attempts + 1
          /\ IF Kept(picked') THEN result' = picked' /\ phase' = "ready"
             ELSE result' = result /\ phase' = "drawing"
  /\ UNCHANGED <<rct_offsets, num_rct_outputs, average, range>>

\* MAX_ATTEMPTS picks missed the range: draw_pool_slot catches the exception and
\* the picker goes on to the next bucket.
DrawThrows ==
  /\ phase = "drawing"
  /\ attempts >= MaxAttempts
  /\ phase' = "ready"
  /\ UNCHANGED <<rct_offsets, num_rct_outputs, average, range, attempts, target,
                 picked, result>>

\* main() has ended with the exception.
Stopped == phase = "thrown" /\ UNCHANGED vars

Next == Construct \/ ConstructThrows \/ StartDraw \/ Pick \/ DrawThrows \/ Stopped

Spec == Init /\ [][Next]_vars

----------------------------------------------------------------------------
(* What makes the picks right.                                             *)

Sorted(s) == \A i, j \in DOMAIN s : i < j => s[i] <= s[j]

TypeOK ==
  /\ phase \in {"new", "ready", "drawing", "thrown"}
  /\ rct_offsets \in Offsets
  /\ num_rct_outputs \in 0 .. Word - 1
  /\ average \in (Nat \ {0}) \X (Nat \ {0})
  /\ range \in Ranges \cup {<<0, 0>>}
  /\ attempts \in 0 .. MaxAttempts
  /\ target \in -1 .. num_rct_outputs - 1
  /\ picked \in 0 .. Word - 1
  /\ result \in -1 .. Word - 1

\* lower_bound stays inside the eligible blocks for every target, on a vector
\* that is not sorted too (gamma_picker.cpp:82-83 can never throw): the last
\* eligible offset is num_rct_outputs, and a target is below it.
AlwaysFound ==
  phase # "new" /\ target # -1 => BlockOf(target) < Eligible(rct_offsets)

\* On a sorted vector no pick is younger than the spendable age: it is in one of
\* the blocks before the last CRYPTONOTE_DEFAULT_TX_SPENDABLE_AGE - 1.
PicksAreSpendable ==
  Sorted(rct_offsets) /\ picked # BadPick =>
    picked < rct_offsets[Len(rct_offsets) - (SpendableAge - 1)]

\* On a sorted vector the pick shares its block with the output before the
\* target (or, for target 0, is in the first block): no block ends between them.
PicksNearTarget ==
  Sorted(rct_offsets) /\ target # -1 /\ picked # BadPick =>
    IF target = 0 THEN picked < rct_offsets[1]
    ELSE \A b \in DOMAIN rct_offsets :
           rct_offsets[b] <= target - 1 <=> rct_offsets[b] <= picked

\* What bounded_gamma_pick returns (main.cpp:373-379) is in the range it was given and,
\* for offsets in order, one of the outputs that are old enough: what PickableAssumption
\* and Drawable of module DecoySelection take for granted.
ResultsAreDrawable ==
  result # -1 =>
    /\ result # BadPick /\ range[1] <= result /\ result < range[2]
    /\ Sorted(rct_offsets) => result \in 0 .. num_rct_outputs - 1

\* On a sorted vector a pick is bad only because the age goes back beyond the
\* first output, or the target is output 0 and block 0 is empty: the emptiness
\* of later blocks never costs a pick.
BadPicksAreRare ==
  Sorted(rct_offsets) /\ attempts > 0 /\ picked = BadPick =>
    target = -1 \/ (target = 0 /\ rct_offsets[1] = 0)

\* gamma_picker.cpp:55-56, "randomly select an output from the block where that
\* output appears".  When the target is the first output of its block, lower_bound
\* stops at the block before, so this does not hold.
PicksBlockOfTarget ==
  Sorted(rct_offsets) /\ target # -1 /\ picked # BadPick =>
    \A b \in DOMAIN rct_offsets : rct_offsets[b] <= target <=> rct_offsets[b] <= picked

=============================================================================
