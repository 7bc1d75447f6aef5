----------------------------- MODULE RandomState -----------------------------
(***************************************************************************)
(* The generator behind crypto::rand: random.c, whose global Keccak state  *)
(* is seeded before main(), squeezed by every draw and wiped at exit, and  *)
(* the mutex of rng.h around each draw.                                    *)
(*                                                                         *)
(* The content of the Keccak state is reduced to an epoch number: each     *)
(* permutation starts a new epoch.  The permutation can be undone, so who  *)
(* sees the state can go back to the end of the epoch before, and on from  *)
(* there, until an epoch whose data area was zeroed before it was permuted.*)
(***************************************************************************)
EXTENDS Integers, Sequences, FiniteSets, Functions

CONSTANTS
  Area,        \* HASH_DATA_AREA (136 in the code)
  KeySize,     \* sizeof(crypto_siphash_key) (16 in the code)
  Threads,     \* who may call crypto::rand (decoy_tool itself has one thread)
  MaxRequest,  \* bound: bytes of a draw
  MaxBlocks    \* bound: blocks squeezed from the state, or added to it

ASSUME AreaAssumption == Area \in Nat \ {0} /\ KeySize \in Nat \ {0}
ASSUME ThreadsAssumption == Threads # {}
ASSUME BoundsAssumption == MaxRequest \in Nat /\ MaxBlocks \in Nat

VARIABLES
  pc,        \* "seed", "key", "ready", "gone": where the process is
  left,      \* n, in generate_system_random_bytes
  at,        \* how far its pointer result has advanced
  covered,   \* the bytes of the buffer that have been read into
  curstate,  \* the assertion variable of random.c
  epoch,     \* how often the Keccak state was permuted
  erased,    \* the last epoch that was zeroed before the permutation, -1 if none
  squeezed,  \* the epochs whose data area was handed out, in order
  where,     \* for each thread, where it is in crypto::rand
  rest,      \* for each thread, the bytes it still has to deliver (n)
  fault      \* the assertion that failed, "" if none

fillVars   == <<left, at, covered>>
keccakVars == <<epoch, erased, squeezed>>
vars == <<pc, fillVars, curstate, keccakVars, where, rest, fault>>

----------------------------------------------------------------------------

BufferSize == IF pc = "seed" THEN Area ELSE KeySize

\* The definitions called Slip... are slips the code does not make; each is put
\* in the place of the definition after it to see that a property notices.
SlipAdvance(a, res) == a
Advance(a, res) == a + res

\* How much of a draw of n bytes one block gives, and whether it is the last
\* block, which is zeroed before the permutation.
SlipTake(n) == Area
Take(n) == IF n > Area THEN Area ELSE n

SlipIsLastBlock(n) == n < Area
IsLastBlock(n) == n <= Area

SlipPermuted(e, n) == IF IsLastBlock(n) THEN e + 1 ELSE e
Permuted(e, n) == e + 1

SlipMutexFree == TRUE
MutexFree == \A t \in Threads : where[t] = "idle"

\* deinit_random, run by exit(): it asserts that the state is idle, and wipes it.
Deinit ==
  /\ pc' = "gone"
  /\ IF curstate = 1 THEN curstate' = 0 /\ fault' = fault
     ELSE curstate' = curstate /\ fault' = "deinit_random"

Init ==
  /\ pc = "seed" /\ left = Area /\ at = 0 /\ covered = {}
  /\ curstate = 0 /\ epoch = 0 /\ erased = -1 /\ squeezed = <<>>
  /\ where = [t \in Threads |-> "idle"] /\ rest = [t \in Threads |-> 0]
  /\ fault = ""

----------------------------------------------------------------------------
(* init_random, before main().                                             *)

\* read() delivers some of the bytes asked for.  (An EINTR changes nothing.)
ReadSome ==
  /\ pc \in {"seed", "key"}
  /\ \E res \in 1 .. left :
       /\ covered' = covered \cup (at .. at + res - 1)
       /\ at' = Advance(at, res) /\ left' = left - res
  /\ UNCHANGED <<pc, curstate, keccakVars, where, rest, fault>>

\* open, read or close fails, or the file ends: err() calls exit().
EntropyFails ==
  /\ pc \in {"seed", "key"}
  /\ Deinit
  /\ UNCHANGED <<fillVars, keccakVars, where, rest>>

\* The state is full: hash_permutation, and on to crypto_siphash_key.
SeedState ==
  /\ pc = "seed" /\ left = 0
  /\ pc' = "key" /\ left' = KeySize /\ at' = 0 /\ covered' = {}
  /\ epoch' = Permuted(epoch, Area)
  /\ UNCHANGED <<curstate, erased, squeezed, where, rest, fault>>

FinishInit ==
  /\ pc = "key" /\ left = 0
  /\ pc' = "ready"
  /\ curstate' = 1
  /\ UNCHANGED <<fillVars, keccakVars, where, rest, fault>>

----------------------------------------------------------------------------
(* crypto::rand.                                                           *)

\* The lock_guard, and the assertion at the start of
\* generate_random_bytes_not_thread_safe.
Enter(t) ==
  /\ pc = "ready" /\ where[t] = "idle"
  /\ MutexFree
  /\ Len(squeezed) < MaxBlocks
  /\ IF curstate = 1
     THEN /\ curstate' = 2
          /\ \E n \in 0 .. MaxRequest :
               /\ rest' = [rest EXCEPT ![t] = n]
               /\ where' = [where EXCEPT ![t] = IF n > 0 THEN "copy" ELSE "leave"]
          /\ UNCHANGED <<pc, fault>>
     ELSE /\ pc' = "gone" /\ fault' = "generate_random_bytes"
          /\ UNCHANGED <<curstate, rest, where>>
  /\ UNCHANGED <<fillVars, keccakVars>>

\* memcpy of the data area, or of the part still wanted.
CopyBlock(t) ==
  /\ pc = "ready" /\ where[t] = "copy"
  /\ squeezed' = Append(squeezed, epoch)
  /\ where' = [where EXCEPT ![t] = "permute"]
  /\ UNCHANGED <<pc, fillVars, curstate, epoch, erased, rest, fault>>

\* For the last block memset to 0, then hash_permutation.
PermuteState(t) ==
  /\ pc = "ready" /\ where[t] = "permute"
  /\ erased' = IF IsLastBlock(rest[t]) THEN epoch ELSE erased
  /\ epoch' = Permuted(epoch, rest[t])
  /\ rest' = [rest EXCEPT ![t] = @ - Take(@)]
  /\ where' = [where EXCEPT ![t] = IF rest'[t] > 0 THEN "copy" ELSE "leave"]
  /\ UNCHANGED <<pc, fillVars, curstate, squeezed, fault>>

\* The assertion at the end, and the end of the lock_guard.
Leave(t) ==
  /\ pc = "ready" /\ where[t] = "leave"
  /\ IF curstate = 2
     THEN curstate' = 1 /\ where' = [where EXCEPT ![t] = "idle"]
          /\ UNCHANGED <<pc, fault>>
     ELSE pc' = "gone" /\ fault' = "generate_random_bytes"
          /\ UNCHANGED <<curstate, where>>
  /\ UNCHANGED <<fillVars, keccakVars, rest>>

\* add_extra_entropy_not_thread_safe (nothing here calls it): each block is xored
\* into the state, nothing is zeroed, and neither the lock nor curstate guards it.
AddEntropy ==
  /\ pc = "ready" /\ MutexFree
  /\ \E blocks \in 0 .. MaxBlocks : epoch + blocks <= MaxBlocks /\ epoch' = epoch + blocks
  /\ UNCHANGED <<pc, fillVars, curstate, erased, squeezed, where, rest, fault>>

\* main() returns, so exit() runs.  (An uncaught exception or a kill ends the
\* process without it.)
ExitProcess ==
  /\ pc = "ready" /\ MutexFree
  /\ Deinit
  /\ UNCHANGED <<fillVars, keccakVars, where, rest>>

Gone == pc = "gone" /\ UNCHANGED vars

Next ==
  \/ ReadSome \/ EntropyFails \/ SeedState \/ FinishInit
  \/ \E t \in Threads : Enter(t) \/ CopyBlock(t) \/ PermuteState(t) \/ Leave(t)
  \/ AddEntropy \/ ExitProcess \/ Gone

Spec == Init /\ [][Next]_vars

----------------------------------------------------------------------------
(* What makes the generator right.                                         *)

TypeOK ==
  /\ pc \in {"seed", "key", "ready", "gone"}
  /\ left \in 0 .. Area + KeySize /\ at \in 0 .. Area + KeySize
  /\ covered \subseteq 0 .. Area + KeySize
  /\ curstate \in 0 .. 2
  /\ epoch \in Nat /\ erased \in -1 .. epoch
  /\ squeezed \in Seq(Nat)
  /\ where \in [Threads -> {"idle", "copy", "permute", "leave"}]
  /\ rest \in [Threads -> 0 .. MaxRequest]
  /\ fault \in {"", "deinit_random", "generate_random_bytes"}

\* However short the reads are, the loop of random.c:76-91 stops only when every
\* byte of the buffer came from /dev/urandom.
BufferIsFull ==
  pc \in {"seed", "key"} /\ left = 0 => covered = 0 .. BufferSize - 1

\* random.c:142-145: once a draw has returned, what it handed out cannot be
\* computed from the state any more, also when it was longer than one block:
\* the way back from the current epoch is blocked at an erased one.
PastIsHidden ==
  pc = "ready" /\ MutexFree =>
    \A i \in DOMAIN squeezed : squeezed[i] <= erased

\* No block of the state is handed out twice, to one caller or to two.
NoBlockTwice == IsInjective(squeezed)

\* The mutex keeps the draws apart: the assertions of
\* generate_random_bytes_not_thread_safe never fail.
DrawsNeverAssert == fault # "generate_random_bytes"

\* assert(curstate == 1) of random.c:108: deinit_random finds an initialized idle
\* state.  When the entropy source fails, exit() runs it before init_random has
\* set curstate, so this does not hold.
WipedOnlyWhenReady == fault # "deinit_random"

=============================================================================
