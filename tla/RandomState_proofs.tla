------------------------- MODULE RandomState_proofs -------------------------
(***************************************************************************)
(* Proofs about RandomState, for any block size, any set of callers and    *)
(* draws of any length: the draws never trip over each other, no block is  *)
(* handed out twice, and the state hides what was handed out.              *)
(***************************************************************************)
EXTENDS RandomState, TLAPS

\* Where a thread may be in crypto::rand.
Steps == {"idle", "copy", "permute", "leave"}

\* The types that matter below.
TypeInv ==
  /\ pc \in {"seed", "key", "ready", "gone"}
  /\ epoch \in Nat /\ erased \in Int
  /\ squeezed \in Seq(Nat)
  /\ where \in [Threads -> Steps]
  /\ rest \in [Threads -> Nat]

\* The mutex: one thread at most is inside, and curstate says whether one is.
MutexBook ==
  /\ pc \in {"seed", "key"} => MutexFree
  /\ \A t, u \in Threads : where[t] # "idle" /\ where[u] # "idle" => t = u
  /\ pc = "ready" => curstate = IF MutexFree THEN 1 ELSE 2
  /\ fault # "generate_random_bytes"

\* A thread that still has to copy or permute has bytes to deliver.
RestBook == \A t \in Threads : where[t] \in {"copy", "permute"} => rest[t] > 0

\* The blocks handed out: of this epoch only between a copy and its permutation,
\* and behind the last erased epoch except in the middle of a draw.
Copying == \E t \in Threads : where[t] = "permute"
Drawing == \E t \in Threads : where[t] \in {"copy", "permute"}

BlockBook ==
  /\ \A i \in DOMAIN squeezed : squeezed[i] <= epoch
  /\ ~Copying => \A i \in DOMAIN squeezed : squeezed[i] < epoch
  /\ ~Drawing => \A i \in DOMAIN squeezed : squeezed[i] <= erased
  /\ \A i, j \in DOMAIN squeezed : squeezed[i] = squeezed[j] => i = j

Inv == TypeInv /\ MutexBook /\ RestBook /\ BlockBook

\* Before the first draw nothing was handed out and nobody is inside.
LEMMA InitInv == Init => Inv
<1>1. SUFFICES ASSUME Init PROVE Inv
  OBVIOUS
<1>2. /\ pc = "seed" /\ epoch = 0 /\ fault = ""
      /\ where = [t \in Threads |-> "idle"] /\ rest = [t \in Threads |-> 0]
  BY <1>1 DEF Init
<1>3. squeezed = <<>>
  BY <1>1 DEF Init
<1>4. erased \in Int
  <2>1. erased = -1
    BY <1>1 DEF Init
  <2>2. QED
    BY <2>1
<1>5. \A t \in Threads : where[t] = "idle"
  BY <1>2
<1>6. TypeInv
  <2>1. squeezed \in Seq(Nat)
    BY <1>3
  <2>2. where \in [Threads -> Steps] /\ rest \in [Threads -> Nat]
    BY <1>2 DEF Steps
  <2>3. pc \in {"seed", "key", "ready", "gone"} /\ epoch \in Nat /\ erased \in Int
    BY <1>2, <1>4
  <2>4. QED
    BY <2>1, <2>2, <2>3 DEF TypeInv
<1>7. MutexBook
  <2>1. fault # "generate_random_bytes" /\ pc # "ready"
    BY <1>2
  <2>2. QED
    BY <1>5, <2>1 DEF MutexBook, MutexFree
<1>8. RestBook
  BY <1>5 DEF RestBook
<1>9. BlockBook
  <2>1. DOMAIN squeezed = {}
    BY <1>3
  <2>2. QED
    BY <2>1 DEF BlockBook
<1>10. QED
  BY <1>6, <1>7, <1>8, <1>9 DEF Inv

\* The steps before main(), at the end of the process and between draws hand
\* nothing out; seeding and extra entropy start new epochs.
LEMMA OutsideInv ==
  ASSUME Inv,
         ReadSome \/ EntropyFails \/ SeedState \/ FinishInit \/ AddEntropy \/ ExitProcess \/ Gone
  PROVE  Inv'
<1>1. CASE ReadSome
  BY <1>1 DEF ReadSome, keccakVars, Inv, TypeInv, MutexBook, RestBook, BlockBook, MutexFree,
              Copying, Drawing
<1>2. CASE EntropyFails
  BY <1>2 DEF EntropyFails, Deinit, keccakVars, fillVars, Inv, TypeInv, MutexBook,
              RestBook, BlockBook, MutexFree, Copying, Drawing
<1>3. CASE SeedState
  <2>1. epoch' = epoch + 1 /\ UNCHANGED <<curstate, erased, squeezed, where, rest, fault>>
    BY <1>3 DEF SeedState, Permuted
  <2>2. TypeInv' /\ MutexBook' /\ RestBook'
    BY <1>3, <2>1 DEF SeedState, Inv, TypeInv, MutexBook, RestBook, MutexFree
  <2>3. BlockBook'
    <3>1. \A i \in DOMAIN squeezed : squeezed[i] \in Nat
      BY DEF Inv, TypeInv
    <3>2. QED
      BY <2>1, <3>1 DEF Inv, TypeInv, BlockBook, Copying, Drawing
  <2>4. QED
    BY <2>2, <2>3 DEF Inv
<1>4. CASE FinishInit
  BY <1>4 DEF FinishInit, keccakVars, fillVars, Inv, TypeInv, MutexBook, RestBook,
              BlockBook, MutexFree, Copying, Drawing
<1>5. CASE ExitProcess
  BY <1>5 DEF ExitProcess, Deinit, keccakVars, fillVars, Inv, TypeInv, MutexBook,
              RestBook, BlockBook, MutexFree, Copying, Drawing
<1>6. CASE Gone
  BY <1>6 DEF Gone, vars, keccakVars, fillVars, Inv, TypeInv, MutexBook, RestBook,
              BlockBook, MutexFree, Copying, Drawing
<1>7. CASE AddEntropy
  <2>1. PICK blocks \in 0 .. MaxBlocks :
          /\ epoch' = epoch + blocks
          /\ UNCHANGED <<pc, curstate, erased, squeezed, where, rest, fault>>
    BY <1>7 DEF AddEntropy
  <2>2. epoch \in Nat /\ blocks \in Nat
    BY BoundsAssumption DEF Inv, TypeInv
  <2>3. TypeInv' /\ MutexBook' /\ RestBook'
    BY <2>1, <2>2 DEF Inv, TypeInv, MutexBook, RestBook, MutexFree
  <2>4. BlockBook'
    <3>1. \A i \in DOMAIN squeezed : squeezed[i] \in Nat
      BY DEF Inv, TypeInv
    <3>2. QED
      BY <2>1, <2>2, <3>1 DEF Inv, BlockBook, Copying, Drawing
  <2>5. QED
    BY <2>3, <2>4 DEF Inv
<1>8. QED
  BY <1>1, <1>2, <1>3, <1>4, <1>5, <1>6, <1>7

\* Entering: the mutex is free, so curstate is 1 and the assertion holds.
LEMMA EnterInv ==
  ASSUME Inv, NEW t \in Threads, Enter(t)
  PROVE  Inv'
<1>1. curstate = 1
  BY DEF Inv, MutexBook, Enter
<1>2. PICK n \in 0 .. MaxRequest :
        /\ curstate' = 2
        /\ rest' = [rest EXCEPT ![t] = n]
        /\ where' = [where EXCEPT ![t] = IF n > 0 THEN "copy" ELSE "leave"]
        /\ UNCHANGED <<pc, fault, epoch, erased, squeezed>>
  BY <1>1 DEF Enter, keccakVars
<1>3. \A u \in Threads : where[u] = "idle"
  BY DEF Enter, MutexFree
<1>4. TypeInv'
  BY <1>2, BoundsAssumption DEF Inv, TypeInv, Steps
<1>5. where'[t] # "idle" /\ \A u \in Threads : u # t => where'[u] = "idle"
  BY <1>2, <1>3 DEF Inv, TypeInv
<1>6. MutexBook'
  BY <1>2, <1>5 DEF Inv, MutexBook, MutexFree, Enter
<1>7. RestBook'
  BY <1>2, <1>3 DEF Inv, TypeInv, RestBook
<1>8. BlockBook'
  BY <1>2, <1>3, <1>5 DEF Inv, TypeInv, BlockBook, Copying, Drawing
<1>9. QED
  BY <1>4, <1>6, <1>7, <1>8 DEF Inv

\* Copying: the current epoch was not handed out before.
LEMMA CopyInv ==
  ASSUME Inv, NEW t \in Threads, CopyBlock(t)
  PROVE  Inv'
<1>1. /\ where[t] = "copy" /\ pc = "ready"
      /\ where' = [where EXCEPT ![t] = "permute"]
      /\ squeezed' = Append(squeezed, epoch)
      /\ UNCHANGED <<pc, curstate, epoch, erased, rest, fault>>
  BY DEF CopyBlock
<1>2. where'[t] = "permute" /\ \A u \in Threads : u # t => where[u] = "idle" /\ where'[u] = "idle"
  BY <1>1 DEF Inv, TypeInv, MutexBook
<1>3. TypeInv'
  BY <1>1 DEF Inv, TypeInv, Steps
<1>4. MutexBook'
  BY <1>1, <1>2 DEF Inv, MutexBook, MutexFree
<1>5. RestBook'
  BY <1>1, <1>2 DEF Inv, RestBook
<1>6. BlockBook'
  <2>1. \A i \in DOMAIN squeezed : squeezed[i] \in Nat /\ squeezed[i] < epoch
    <3>1. ~Copying
      BY <1>1, <1>2 DEF Copying
    <3>2. \A i \in DOMAIN squeezed : squeezed[i] < epoch
      BY <3>1 DEF Inv, BlockBook
    <3>3. \A i \in DOMAIN squeezed : squeezed[i] \in Nat
      BY DEF Inv, TypeInv
    <3>4. QED
      BY <3>2, <3>3
  <2>2. /\ DOMAIN squeezed = 1 .. Len(squeezed) /\ Len(squeezed) \in Nat
        /\ DOMAIN squeezed' = 1 .. Len(squeezed) + 1
        /\ \A i \in DOMAIN squeezed : squeezed'[i] = squeezed[i]
        /\ squeezed'[Len(squeezed) + 1] = epoch
    BY <1>1 DEF Inv, TypeInv
  <2>3. Copying' /\ Drawing'
    BY <1>2 DEF Copying, Drawing
  <2>4. epoch' = epoch /\ epoch \in Nat
    BY <1>1 DEF Inv, TypeInv
  <2>5. \A i \in DOMAIN squeezed' : squeezed'[i] <= epoch'
    BY <2>1, <2>2, <2>4
  <2>6. \A i, j \in DOMAIN squeezed' : squeezed'[i] = squeezed'[j] => i = j
    BY <2>1, <2>2, <2>4 DEF Inv, BlockBook
  <2>7. QED
    BY <2>3, <2>5, <2>6 DEF BlockBook
<1>7. QED
  BY <1>3, <1>4, <1>5, <1>6 DEF Inv

\* Permuting: everything handed out is of an earlier epoch afterwards, and behind
\* the erased one if that was the last block.
LEMMA PermuteInv ==
  ASSUME Inv, NEW t \in Threads, PermuteState(t)
  PROVE  Inv'
<1>1. /\ where[t] = "permute" /\ pc = "ready"
      /\ erased' = IF rest[t] <= Area THEN epoch ELSE erased
      /\ epoch' = epoch + 1
      /\ rest' = [rest EXCEPT ![t] = rest[t] - (IF rest[t] > Area THEN Area ELSE rest[t])]
      /\ where' = [where EXCEPT ![t] = IF rest'[t] > 0 THEN "copy" ELSE "leave"]
      /\ UNCHANGED <<pc, curstate, squeezed, fault>>
  BY DEF PermuteState, IsLastBlock, Permuted, Take
<1>2. rest[t] \in Nat /\ rest[t] > 0 /\ Area \in Nat /\ Area > 0
  BY <1>1, AreaAssumption DEF Inv, TypeInv, RestBook
<1>3. rest'[t] \in Nat /\ (rest'[t] > 0 <=> ~(rest[t] <= Area))
  BY <1>1, <1>2 DEF Inv, TypeInv
<1>4. \A u \in Threads : u # t => where[u] = "idle" /\ where'[u] = "idle"
  BY <1>1 DEF Inv, TypeInv, MutexBook
<1>5. where'[t] = IF rest[t] <= Area THEN "leave" ELSE "copy"
  BY <1>1, <1>3 DEF Inv, TypeInv
<1>6. TypeInv'
  BY <1>1, <1>2, <1>3 DEF Inv, TypeInv, Steps
<1>7. MutexBook'
  BY <1>1, <1>4, <1>5 DEF Inv, MutexBook, MutexFree
<1>8. RestBook'
  BY <1>3, <1>4, <1>5 DEF RestBook
<1>9. BlockBook'
  <2>1. \A i \in DOMAIN squeezed : squeezed[i] \in Nat /\ squeezed[i] <= epoch
    BY DEF Inv, TypeInv, BlockBook
  <2>2. epoch \in Nat
    BY DEF Inv, TypeInv
  <2>3. \A i \in DOMAIN squeezed : squeezed[i] < epoch + 1 /\ squeezed[i] <= epoch + 1
    BY <2>1, <2>2
  <2>4. ~Drawing' => erased' = epoch
    BY <1>1, <1>5 DEF Drawing
  <2>5. QED
    BY <1>1, <2>1, <2>3, <2>4 DEF Inv, BlockBook
<1>10. QED
  BY <1>6, <1>7, <1>8, <1>9 DEF Inv

\* Leaving: this thread holds the mutex, so curstate is 2 and the assertion holds.
LEMMA LeaveInv ==
  ASSUME Inv, NEW t \in Threads, Leave(t)
  PROVE  Inv'
<1>1. where[t] = "leave" /\ pc = "ready" /\ curstate = 2
  BY DEF Inv, MutexBook, MutexFree, Leave
<1>2. /\ curstate' = 1 /\ where' = [where EXCEPT ![t] = "idle"]
      /\ UNCHANGED <<pc, fault, epoch, erased, squeezed, rest>>
  BY <1>1 DEF Leave, keccakVars
<1>3. \A u \in Threads : where'[u] = "idle" /\ (u # t => where[u] = "idle")
  BY <1>1, <1>2 DEF Inv, TypeInv, MutexBook
<1>4. TypeInv' /\ RestBook'
  BY <1>2, <1>3 DEF Inv, TypeInv, RestBook, Steps
<1>5. MutexBook'
  BY <1>2, <1>3 DEF Inv, MutexBook, MutexFree
<1>6. BlockBook'
  BY <1>1, <1>2, <1>3 DEF Inv, BlockBook, Copying, Drawing
<1>7. QED
  BY <1>4, <1>5, <1>6 DEF Inv

LEMMA NextInv == Inv /\ [Next]_vars => Inv'
<1>1. SUFFICES ASSUME Inv, [Next]_vars PROVE Inv'
  OBVIOUS
<1>2. CASE UNCHANGED vars
  BY <1>1, <1>2 DEF vars, keccakVars, fillVars, Inv, TypeInv, MutexBook, RestBook,
                    BlockBook, MutexFree, Copying, Drawing
<1>3. CASE Next
  BY <1>1, <1>3, OutsideInv, EnterInv, CopyInv, PermuteInv, LeaveInv DEF Next
<1>4. QED
  BY <1>1, <1>2, <1>3

LEMMA AlwaysInv == Spec => []Inv
<1>1. Init => Inv
  BY InitInv
<1>2. Inv /\ [Next]_vars => Inv'
  BY NextInv
<1>3. QED
  BY <1>1, <1>2, PTL DEF Spec

\* The mutex of rng.h keeps the assertions of generate_random_bytes_not_thread_safe
\* (random.c:148, 167) true for any number of callers.
THEOREM DrawsStayApart == Spec => []DrawsNeverAssert
<1>1. Inv => DrawsNeverAssert
  BY DEF Inv, MutexBook, DrawsNeverAssert
<1>2. QED
  BY <1>1, AlwaysInv, PTL

\* Every block of the state (random.c:153, 160) is handed out once.
THEOREM BlocksAreFresh == Spec => []NoBlockTwice
<1>1. Inv => NoBlockTwice
  BY DEF Inv, BlockBook, NoBlockTwice, IsInjective
<1>2. QED
  BY <1>1, AlwaysInv, PTL

\* Forward security (random.c:142-145, 161): when no draw is running, the state no
\* longer leads back to any block that was handed out.
THEOREM StateHidesThePast == Spec => []PastIsHidden
<1>1. Inv => PastIsHidden
  BY DEF Inv, BlockBook, PastIsHidden, MutexFree, Drawing
<1>2. QED
  BY <1>1, AlwaysInv, PTL

----------------------------------------------------------------------------
(* The seed.                                                               *)

\* While a buffer is read, what it holds and what is still to come add up to it,
\* and the bytes already read are those before the pointer.
FillBook ==
  pc \in {"seed", "key"} =>
    /\ at \in Nat /\ left \in Nat /\ at + left = BufferSize
    /\ covered = 0 .. at - 1

\* A read of res bytes moves the pointer and the count together.
LEMMA ReadKeepsBook ==
  ASSUME FillBook, ReadSome
  PROVE  FillBook'
<1>1. PICK res \in 1 .. left :
        /\ covered' = covered \cup (at .. at + res - 1)
        /\ at' = at + res /\ left' = left - res
  BY DEF ReadSome, Advance
<1>2. pc' = pc /\ BufferSize' = BufferSize
  BY DEF ReadSome, BufferSize
<1>3. at \in Nat /\ left \in Nat /\ at + left = BufferSize /\ covered = 0 .. at - 1
  BY DEF FillBook, ReadSome
<1>4. res \in Nat /\ res <= left
  BY <1>1, <1>3
<1>5. (0 .. at - 1) \cup (at .. at + res - 1) = 0 .. (at + res) - 1
  BY <1>3, <1>4
<1>6. at + res \in Nat /\ left - res \in Nat /\ (at + res) + (left - res) = BufferSize
  BY <1>3, <1>4
<1>7. at' \in Nat /\ left' \in Nat /\ at' + left' = BufferSize' /\ covered' = 0 .. at' - 1
  BY <1>1, <1>2, <1>3, <1>5, <1>6, Zenon
<1>8. QED
  BY <1>7 DEF FillBook

LEMMA AlwaysFillBook == Spec => []FillBook
<1>1. Init => FillBook
  <2>1. SUFFICES ASSUME Init PROVE FillBook
    OBVIOUS
  <2>2. pc = "seed" /\ left = Area /\ at = 0 /\ covered = {} /\ Area \in Nat
    BY <2>1, AreaAssumption DEF Init
  <2>3. 0 .. 0 - 1 = {}
    OBVIOUS
  <2>4. QED
    BY <2>2, <2>3 DEF FillBook, BufferSize
<1>2. FillBook /\ [Next]_vars => FillBook'
  <2>1. SUFFICES ASSUME FillBook, [Next]_vars PROVE FillBook'
    OBVIOUS
  <2>2. CASE ReadSome
    BY <2>1, <2>2, ReadKeepsBook
  <2>3. CASE SeedState
    <3>1. pc' = "key" /\ left' = KeySize /\ at' = 0 /\ covered' = {} /\ KeySize \in Nat
      BY <2>3, AreaAssumption DEF SeedState
    <3>2. 0 .. 0 - 1 = {}
      OBVIOUS
    <3>3. QED
      BY <3>1, <3>2 DEF FillBook, BufferSize
  <2>4. CASE EntropyFails \/ FinishInit \/ ExitProcess
    BY <2>4 DEF EntropyFails, FinishInit, ExitProcess, Deinit, FillBook
  <2>5. CASE \E t \in Threads : Enter(t) \/ CopyBlock(t) \/ PermuteState(t) \/ Leave(t)
    <3>1. pc = "ready" /\ pc' \in {"ready", "gone"}
      BY <2>5 DEF Enter, CopyBlock, PermuteState, Leave
    <3>2. QED
      BY <3>1 DEF FillBook
  <2>6. CASE AddEntropy
    BY <2>6 DEF AddEntropy, FillBook
  <2>7. CASE Gone \/ UNCHANGED vars
    BY <2>1, <2>7 DEF Gone, vars, fillVars, FillBook, BufferSize
  <2>8. QED
    BY <2>1, <2>2, <2>3, <2>4, <2>5, <2>6, <2>7 DEF Next
<1>3. QED
  BY <1>1, <1>2, PTL DEF Spec

\* However short the reads of /dev/urandom are, the loop of random.c:76-91 stops
\* only when every byte of the buffer came from it, whatever the sizes are.
THEOREM SeedIsWhole == Spec => []BufferIsFull
<1>1. FillBook => BufferIsFull
  <2>1. SUFFICES ASSUME FillBook, pc \in {"seed", "key"}, left = 0
                 PROVE  covered = 0 .. BufferSize - 1
    BY DEF BufferIsFull
  <2>2. at = BufferSize /\ covered = 0 .. at - 1
    BY <2>1 DEF FillBook
  <2>3. QED
    BY <2>2
<1>2. QED
  BY <1>1, AlwaysFillBook, PTL

----------------------------------------------------------------------------
(* The types.                                                              *)

\* exit() wipes the state, or fails its assertion.
LEMMA DeinitType ==
  ASSUME TypeOK, Deinit
  PROVE  /\ pc' \in {"seed", "key", "ready", "gone"} /\ curstate' \in 0 .. 2
         /\ fault' \in {"", "deinit_random", "generate_random_bytes"}
<1>1. curstate \in 0 .. 2 /\ fault \in {"", "deinit_random", "generate_random_bytes"}
  BY Zenon DEF TypeOK
<1>2. pc' = "gone"
  BY Zenon DEF Deinit
<1>3. \/ curstate' = 0 /\ fault' = fault
      \/ curstate' = curstate /\ fault' = "deinit_random"
  BY Zenon DEF Deinit
<1>4. curstate' = 0 \/ curstate' = curstate
  BY <1>3, Zenon
<1>5. curstate' \in 0 .. 2
  <2>1. curstate \in 0 .. 2
    BY <1>1, Zenon
  <2>2. QED
    BY <2>1, <1>4
<1>6. fault' \in {"", "deinit_random", "generate_random_bytes"}
  BY <1>1, <1>3, Zenon
<1>7. QED
  BY <1>2, <1>5, <1>6, Zenon

\* What main() and the threads do: a draw gives at most what it was asked for.
LEMMA ThreadType ==
  ASSUME TypeOK, NEW t \in Threads, Enter(t) \/ CopyBlock(t) \/ PermuteState(t) \/ Leave(t)
  PROVE  TypeOK'
<1> USE DEF fillVars, keccakVars
<1>1. CASE Enter(t)
  <2>1. curstate' \in 0 .. 2 /\ pc' \in {"ready", "gone"} /\ fault' \in {fault, "generate_random_bytes"}
    <3>1. curstate' = 2 \/ curstate' = curstate
      BY <1>1, Zenon DEF Enter
    <3>2. curstate \in 0 .. 2
      BY Zenon DEF TypeOK
    <3>3. curstate' \in 0 .. 2
      BY <3>1, <3>2
    <3>4. pc' \in {"ready", "gone"} /\ fault' \in {fault, "generate_random_bytes"}
      BY <1>1, Zenon DEF Enter
    <3>5. QED
      BY <3>3, <3>4, Zenon
  <2>2. rest' \in [Threads -> 0 .. MaxRequest]
    <3>1. rest' = rest \/ \E n \in 0 .. MaxRequest : rest' = [rest EXCEPT ![t] = n]
      BY <1>1 DEF Enter
    <3>2. QED
      BY <3>1 DEF TypeOK
  <2>3. where' \in [Threads -> {"idle", "copy", "permute", "leave"}]
    <3>1. where' = where \/ \E p \in {"copy", "leave"} : where' = [where EXCEPT ![t] = p]
      BY <1>1 DEF Enter
    <3>2. QED
      BY <3>1 DEF TypeOK
  <2>4. QED
    BY <1>1, <2>1, <2>2, <2>3 DEF Enter, TypeOK
<1>2. CASE CopyBlock(t)
  <2>1. squeezed' \in Seq(Nat)
    <3>1. squeezed' = Append(squeezed, epoch)
      BY <1>2, Zenon DEF CopyBlock
    <3>2. squeezed \in Seq(Nat) /\ epoch \in Nat
      BY Zenon DEF TypeOK
    <3>3. QED
      BY <3>1, <3>2
  <2>2. where' \in [Threads -> {"idle", "copy", "permute", "leave"}]
    BY <1>2 DEF CopyBlock, TypeOK
  <2>3. QED
    BY <1>2, <2>1, <2>2 DEF CopyBlock, TypeOK
<1>3. CASE PermuteState(t)
  <2>1. epoch' = epoch + 1 /\ erased' \in {epoch, erased} /\ epoch \in Nat /\ erased \in -1 .. epoch
    BY <1>3 DEF PermuteState, Permuted, TypeOK
  <2>2. epoch' \in Nat /\ erased' \in -1 .. epoch'
    BY <2>1
  <2>3. rest' \in [Threads -> 0 .. MaxRequest]
    <3>1. rest' = [rest EXCEPT ![t] = rest[t] - Take(rest[t])]
      BY <1>3 DEF PermuteState
    <3>2. rest[t] - Take(rest[t]) \in 0 .. MaxRequest
      <4>1. rest[t] \in 0 .. MaxRequest
        <5>1. rest \in [Threads -> 0 .. MaxRequest]
          BY Zenon DEF TypeOK
        <5>2. QED
          BY <5>1
      <4>2. QED
        BY <4>1, AreaAssumption, BoundsAssumption DEF Take
    <3>3. QED
      BY <3>1, <3>2 DEF TypeOK
  <2>4. where' \in [Threads -> {"idle", "copy", "permute", "leave"}]
    <3>1. \E p \in {"copy", "leave"} : where' = [where EXCEPT ![t] = p]
      BY <1>3 DEF PermuteState
    <3>2. QED
      BY <3>1 DEF TypeOK
  <2>5. QED
    BY <1>3, <2>2, <2>3, <2>4 DEF PermuteState, TypeOK
<1>4. CASE Leave(t)
  <2>1. curstate' \in 0 .. 2 /\ pc' \in {"ready", "gone"} /\ fault' \in {fault, "generate_random_bytes"}
    <3>1. curstate' = 1 \/ curstate' = curstate
      BY <1>4, Zenon DEF Leave
    <3>2. curstate \in 0 .. 2
      BY Zenon DEF TypeOK
    <3>3. curstate' \in 0 .. 2
      BY <3>1, <3>2
    <3>4. pc' \in {"ready", "gone"} /\ fault' \in {fault, "generate_random_bytes"}
      BY <1>4, Zenon DEF Leave
    <3>5. QED
      BY <3>3, <3>4, Zenon
  <2>2. where' \in [Threads -> {"idle", "copy", "permute", "leave"}]
    BY <1>4 DEF Leave, TypeOK
  <2>3. QED
    BY <1>4, <2>1, <2>2 DEF Leave, TypeOK
<1>5. QED
  BY <1>1, <1>2, <1>3, <1>4

LEMMA NextTypeOK == TypeOK /\ FillBook /\ FillBook' /\ [Next]_vars => TypeOK'
<1> SUFFICES ASSUME TypeOK, FillBook, FillBook', [Next]_vars PROVE TypeOK'
  OBVIOUS
<1> USE DEF fillVars, keccakVars
<1>1. CASE ReadSome
  <2>1. pc \in {"seed", "key"} /\ pc' = pc
    BY <1>1 DEF ReadSome
  <2>2. PICK a, l, n : a = at' /\ l = left' /\ n = IF pc = "seed" THEN Area ELSE KeySize
    OBVIOUS
  <2>3. a \in Nat /\ l \in Nat /\ a + l = n /\ covered' = 0 .. a - 1
    BY <2>1, <2>2 DEF FillBook, BufferSize
  <2>4. n \in Nat /\ n <= Area + KeySize
    BY <2>2, AreaAssumption
  <2>5. a \in 0 .. Area + KeySize /\ l \in 0 .. Area + KeySize /\ 0 .. a - 1 \subseteq 0 .. Area + KeySize
    BY <2>3, <2>4, AreaAssumption
  <2>6. QED
    BY <1>1, <2>2, <2>3, <2>5 DEF ReadSome, TypeOK
<1>2. CASE EntropyFails
  <2>1. Deinit /\ UNCHANGED <<left, at, covered, epoch, erased, squeezed, where, rest>>
    BY <1>2, Zenon DEF EntropyFails
  <2>2. QED
    BY <2>1, DeinitType, Zenon DEF TypeOK
<1>3. CASE SeedState
  <2>1. left' \in 0 .. Area + KeySize /\ at' \in 0 .. Area + KeySize
    BY <1>3, AreaAssumption DEF SeedState
  <2>2. epoch' \in Nat /\ erased \in -1 .. epoch'
    <3>1. epoch' = epoch + 1
      BY <1>3, Zenon DEF SeedState, Permuted
    <3>2. epoch \in Nat /\ erased \in -1 .. epoch
      BY Zenon DEF TypeOK
    <3>3. QED
      BY <3>1, <3>2
  <2>3. QED
    BY <1>3, <2>1, <2>2 DEF SeedState, TypeOK
<1>4. CASE FinishInit
  <2>1. pc' = "ready" /\ curstate' = 1 /\ 1 \in 0 .. 2
    BY <1>4 DEF FinishInit
  <2>2. UNCHANGED <<left, at, covered, epoch, erased, squeezed, where, rest, fault>>
    BY <1>4, Zenon DEF FinishInit
  <2>3. QED
    BY <2>1, <2>2, Zenon DEF TypeOK
<1>5. CASE \E t \in Threads : Enter(t) \/ CopyBlock(t) \/ PermuteState(t) \/ Leave(t)
  BY <1>5, ThreadType
<1>6. CASE AddEntropy
  <2>1. PICK blocks \in 0 .. MaxBlocks : epoch' = epoch + blocks
    BY <1>6 DEF AddEntropy
  <2>2. epoch' \in Nat /\ erased \in -1 .. epoch'
    <3>1. epoch \in Nat /\ erased \in -1 .. epoch
      BY Zenon DEF TypeOK
    <3>2. QED
      BY <2>1, <3>1, BoundsAssumption
  <2>3. QED
    BY <1>6, <2>2 DEF AddEntropy, TypeOK
<1>7. CASE ExitProcess
  <2>1. Deinit /\ UNCHANGED <<left, at, covered, epoch, erased, squeezed, where, rest>>
    BY <1>7, Zenon DEF ExitProcess
  <2>2. QED
    BY <2>1, DeinitType, Zenon DEF TypeOK
<1>8. CASE Gone \/ UNCHANGED vars
  BY <1>8 DEF Gone, vars, TypeOK
<1>9. QED
  BY <1>1, <1>2, <1>3, <1>4, <1>5, <1>6, <1>7, <1>8 DEF Next

\* For any sizes and requests: the reads stay inside the buffer, a draw never owes more
\* than it was asked for, and what was erased is not in the future.
THEOREM TypeCorrect == Spec => []TypeOK
<1>1. Init => TypeOK
  <2>1. SUFFICES ASSUME Init PROVE TypeOK
    OBVIOUS
  <2>2. /\ pc = "seed" /\ left = Area /\ at = 0 /\ covered = {} /\ curstate = 0
        /\ epoch = 0 /\ erased = -1 /\ fault = ""
    BY <2>1, Zenon DEF Init
  <2>3. left \in 0 .. Area + KeySize /\ at \in 0 .. Area + KeySize
    <3>1. left = Area /\ at = 0
      BY <2>2, Zenon
    <3>2. QED
      BY <3>1, AreaAssumption
  <2>4. epoch \in Nat /\ erased \in -1 .. epoch /\ curstate \in 0 .. 2
    <3>1. epoch = 0 /\ erased = -1 /\ curstate = 0
      BY <2>2, Zenon
    <3>2. QED
      BY <3>1
  <2>5. squeezed \in Seq(Nat)
    <3>1. squeezed = <<>>
      BY <2>1, Zenon DEF Init
    <3>2. QED
      BY <3>1
  <2>6. where \in [Threads -> {"idle", "copy", "permute", "leave"}]
    BY <2>1 DEF Init
  <2>7. rest \in [Threads -> 0 .. MaxRequest]
    <3>1. rest = [t \in Threads |-> 0]
      BY <2>1, Zenon DEF Init
    <3>2. 0 \in 0 .. MaxRequest
      BY BoundsAssumption
    <3>3. QED
      BY <3>1, <3>2
  <2>8. QED
    BY <2>2, <2>3, <2>4, <2>5, <2>6, <2>7 DEF TypeOK
<1>2. QED
  BY <1>1, NextTypeOK, AlwaysFillBook, PTL DEF Spec

----------------------------------------------------------------------------
(* What stays hidden, and what the exit leaves behind.                     *)

\* A block that is hidden stays hidden: a later draw may be half done, or the process be
\* killed in the middle of one, and the state still does not lead back to it.
HiddenForGood ==
  [][\A i \in DOMAIN squeezed :
       squeezed[i] <= erased =>
         i \in DOMAIN squeezed' /\ squeezed'[i] = squeezed[i] /\ squeezed'[i] <= erased']_vars

\* The assertion of deinit_random (random.c:106-111) fails only in a process that has
\* given no byte away, so no state that anything came from is left behind by it.
WipeFailsOnlyUnused == fault = "deinit_random" => squeezed = <<>>

UnusedBook ==
  /\ pc \in {"seed", "key"} => squeezed = <<>> /\ fault = ""
  /\ pc = "ready" => fault = ""
  /\ fault = "deinit_random" => pc = "gone" /\ squeezed = <<>>

LEMMA NextUnusedBook == Inv /\ UnusedBook /\ [Next]_vars => UnusedBook'
<1>1. SUFFICES ASSUME Inv, UnusedBook, [Next]_vars PROVE UnusedBook'
  OBVIOUS
<1>2. CASE ReadSome
  BY <1>1, <1>2 DEF ReadSome, UnusedBook, keccakVars
<1>3. CASE EntropyFails
  BY <1>1, <1>3 DEF EntropyFails, Deinit, UnusedBook, keccakVars
<1>4. CASE SeedState \/ FinishInit
  BY <1>1, <1>4 DEF SeedState, FinishInit, UnusedBook, keccakVars
<1>5. CASE ExitProcess
  <2>1. pc = "ready" /\ curstate = 1
    BY <1>1, <1>5 DEF ExitProcess, Inv, MutexBook
  <2>2. QED
    BY <1>1, <1>5, <2>1 DEF ExitProcess, Deinit, UnusedBook, keccakVars
<1>6. CASE \E t \in Threads : Enter(t)
  BY <1>1, <1>6 DEF Enter, UnusedBook, keccakVars
<1>7. CASE \E t \in Threads : CopyBlock(t) \/ PermuteState(t)
  BY <1>1, <1>7 DEF CopyBlock, PermuteState, UnusedBook
<1>8. CASE \E t \in Threads : Leave(t)
  BY <1>1, <1>8 DEF Leave, UnusedBook, keccakVars
<1>9. CASE AddEntropy
  BY <1>1, <1>9 DEF AddEntropy, UnusedBook
<1>10. CASE Gone \/ UNCHANGED vars
  BY <1>1, <1>10 DEF Gone, vars, UnusedBook, keccakVars
<1>11. QED
  BY <1>1, <1>2, <1>3, <1>4, <1>5, <1>6, <1>7, <1>8, <1>9, <1>10 DEF Next

LEMMA AlwaysUnusedBook == Spec => []UnusedBook
<1>1. Init => UnusedBook
  BY DEF Init, UnusedBook
<1>2. QED
  BY <1>1, AlwaysInv, NextUnusedBook, PTL DEF Spec

\* random.c:106-111 and its refuted assertion, settled: a normal exit finds the state idle
\* and wipes it, for any callers and draws, and the exit that does not wipe it comes
\* before the first draw.
THEOREM ExitWipesWhatWasUsed ==
  Spec => /\ []WipeFailsOnlyUnused
          /\ [][ExitProcess => curstate' = 0 /\ fault' = ""]_vars
<1>1. UnusedBook => WipeFailsOnlyUnused
  BY DEF UnusedBook, WipeFailsOnlyUnused
<1>2. Inv /\ UnusedBook /\ [Next]_vars => [ExitProcess => curstate' = 0 /\ fault' = ""]_vars
  <2>1. SUFFICES ASSUME Inv, UnusedBook, ExitProcess PROVE curstate' = 0 /\ fault' = ""
    OBVIOUS
  <2>2. curstate = 1 /\ fault = ""
    BY <2>1 DEF ExitProcess, Inv, MutexBook, UnusedBook
  <2>3. QED
    BY <2>1, <2>2 DEF ExitProcess, Deinit
<1>3. QED
  BY <1>1, <1>2, AlwaysInv, AlwaysUnusedBook, PTL DEF Spec

LEMMA ErasedGrows ==
  ASSUME Inv, TypeOK, [Next]_vars
  PROVE  /\ erased \in Int /\ erased' \in Int /\ erased <= erased'
         /\ squeezed' = squeezed \/ squeezed' = Append(squeezed, epoch)
<1>1. erased \in Int /\ epoch \in Int /\ erased <= epoch
  <2>1. epoch \in Nat /\ erased \in -1 .. epoch
    BY Zenon DEF TypeOK
  <2>2. QED
    BY <2>1
<1>2. CASE \E t \in Threads : PermuteState(t)
  <2>1. squeezed' = squeezed /\ erased' \in {epoch, erased}
    BY <1>2 DEF PermuteState
  <2>2. QED
    BY <1>1, <2>1
<1>3. CASE \E t \in Threads : CopyBlock(t)
  <2>1. squeezed' = Append(squeezed, epoch) /\ erased' = erased
    BY <1>3 DEF CopyBlock
  <2>2. QED
    BY <1>1, <2>1
<1>4. CASE UNCHANGED <<squeezed, erased>>
  BY <1>1, <1>4
<1>5. \/ \E t \in Threads : PermuteState(t)
      \/ \E t \in Threads : CopyBlock(t)
      \/ UNCHANGED <<squeezed, erased>>
  BY DEF Next, ReadSome, EntropyFails, SeedState, FinishInit, Enter, Leave, AddEntropy,
         ExitProcess, Gone, vars, keccakVars
<1>6. QED
  BY <1>2, <1>3, <1>4, <1>5

\* random.c:142-165, for any sizes and callers: the epoch that was erased last never goes
\* back, so nothing a later draw or added entropy does uncovers a block handed out before.
THEOREM HiddenStaysHidden == Spec => HiddenForGood
<1>1. Inv /\ TypeOK /\ [Next]_vars =>
        [\A i \in DOMAIN squeezed :
           squeezed[i] <= erased =>
             i \in DOMAIN squeezed' /\ squeezed'[i] = squeezed[i] /\ squeezed'[i] <= erased']_vars
  <2>1. SUFFICES ASSUME Inv, TypeOK, [Next]_vars, NEW i \in DOMAIN squeezed, squeezed[i] <= erased
                 PROVE  i \in DOMAIN squeezed' /\ squeezed'[i] = squeezed[i] /\ squeezed'[i] <= erased'
    OBVIOUS
  <2>2. /\ erased \in Int /\ erased' \in Int /\ erased <= erased'
        /\ squeezed' = squeezed \/ squeezed' = Append(squeezed, epoch)
    BY <2>1, ErasedGrows
  <2>3. squeezed \in Seq(Nat) /\ epoch \in Nat
    BY <2>1 DEF Inv, TypeInv
  <2>4. i \in DOMAIN squeezed' /\ squeezed'[i] = squeezed[i]
    BY <2>2, <2>3
  <2>5. squeezed[i] \in Nat
    BY <2>3
  <2>6. QED
    BY <2>1, <2>2, <2>4, <2>5
<1>2. QED
  BY <1>1, AlwaysInv, TypeCorrect, PTL DEF Spec, HiddenForGood

=============================================================================
