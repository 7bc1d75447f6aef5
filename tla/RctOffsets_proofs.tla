-------------------------- MODULE RctOffsets_proofs --------------------------
(***************************************************************************)
(* Proofs about RctOffsets, for windows and chains of any size and any     *)
(* number of attempts: however windows are halved and retried, no height   *)
(* is skipped or taken twice, and what was read stays right as long as the *)
(* block it was read from does.                                            *)
(***************************************************************************)
EXTENDS RctOffsets, DaemonChain_proofs, FiniteSetTheorems

TypeInv == TypeOK /\ ChainBook /\ from_height >= Start

\* Where the next window starts, and where the windows end.
TipBook ==
  /\ pc = "height" => from_height = Start
  /\ from_height = Start \/ from_height <= chain_tip + 1
  /\ pc = "done" => from_height > chain_tip

LengthBook ==
  daemon # "confused" => Len(offsets) = Larger(from_height - FirstHeight, 0)

\* A count that was read is still that of its height, if the block there is.
ValueBook ==
  daemon # "confused" =>
    \A i \in DOMAIN offsets :
      FirstHeight + i - 1 < stable =>
        FirstHeight + i <= Len(chain) /\ offsets[i] = chain[FirstHeight + i]

\* On a chain that is not replaced the offsets are counts of blocks before the next
\* window, none of a block before its own.
Shifted(c, o, first, from) ==
  /\ o # <<>> => from \in DOMAIN c /\ first + Len(o) <= from
  /\ Cumulative(o)
  /\ \A i \in DOMAIN o : o[i] <= c[from] /\ o[i] >= c[first + i]

ShiftBook == reorgs = 0 => Shifted(chain, offsets, FirstHeight, from_height)

\* The size tried is Chunk halved once for each attempt.
HalvingBook == try_size = Larger(Chunk \div 2^attempt, MinTry)

SmallEnough ==
  /\ daemon = "truncates" /\ reorgs = 0
  /\ Larger(Chunk \div 2^(MaxAttempts - 1), MinTry) <= ResponseCap

EnoughBook ==
  SmallEnough =>
    /\ pc # "failed" /\ attempt < MaxAttempts
    /\ pc # "height" => chain_tip < Len(chain)

Inv ==
  TypeInv /\ TipBook /\ LengthBook /\ ValueBook /\ ShiftBook /\ HalvingBook /\ EnoughBook

\* What the steps below need of the types.
LEMMA TypeFacts ==
  ASSUME TypeInv
  PROVE  /\ chain \in Seq(Nat) /\ Len(chain) \in Nat /\ Len(chain) > 0 /\ stable \in Int
         /\ Len(chain) <= MaxHeight /\ MaxHeight \in Nat /\ Cumulative(chain)
         /\ reorgs \in Nat
         /\ chain_tip \in Nat /\ from_height \in Nat /\ from_height >= Start
         /\ try_size \in Nat /\ try_size >= 1 /\ attempt \in Nat
         /\ offsets \in Seq(Nat)
         /\ Start \in Nat /\ RctStart \in Nat /\ FirstHeight \in Nat
<1>1. TypeOK /\ ChainBook /\ from_height >= Start
  BY DEF TypeInv
<1>2. try_size \in Nat /\ try_size >= 1 /\ attempt \in Nat
  BY <1>1, ChunkAssumption DEF TypeOK
<1>3. Start \in Nat /\ RctStart \in Nat /\ FirstHeight \in Nat
  BY StartAssumption, RctStartAssumption DEF FirstHeight, Larger
<1>4. /\ chain \in Seq(Nat) /\ Len(chain) \in Nat /\ Len(chain) > 0 /\ stable \in Int
      /\ Len(chain) <= MaxHeight /\ MaxHeight \in Nat /\ Cumulative(chain) /\ reorgs \in Nat
  BY <1>1, BoundsAssumption DEF ChainBook
<1>5. chain_tip \in Nat /\ from_height \in Nat /\ offsets \in Seq(Nat)
  BY <1>1 DEF TypeOK
<1>6. QED
  BY <1>1, <1>2, <1>3, <1>4, <1>5

----------------------------------------------------------------------------
(* Halving.                                                                *)

\* A set with one element more has twice as many subsets.
LEMMA PowersOfTwo ==
  ASSUME NEW n \in Nat
  PROVE  2^n \in Nat \ {0} /\ 2^(n + 1) = 2 * 2^n
<1> DEFINE S == 1 .. n
           T == 1 .. n + 1
           A == SUBSET S
           B == {X \cup {n + 1} : X \in A}
<1>1. /\ IsFiniteSet(S) /\ Cardinality(S) = n
      /\ IsFiniteSet(T) /\ Cardinality(T) = n + 1
  BY FS_Interval
<1>2. /\ IsFiniteSet(A) /\ Cardinality(A) = 2^n
      /\ IsFiniteSet(SUBSET T) /\ Cardinality(SUBSET T) = 2^(n + 1)
  <2> HIDE DEF S, T
  <2>1. QED
    BY <1>1, FS_SUBSET
<1>3. IsFiniteSet(B) /\ Cardinality(B) = Cardinality(A)
  <2> DEFINE f == [X \in A |-> X \cup {n + 1}]
  <2>1. \A X \in A : n + 1 \notin X
    OBVIOUS
  <2>2. \A X, Y \in A : f[X] = f[Y] => X = Y
    <3>1. ASSUME NEW X \in A, NEW Y \in A, f[X] = f[Y] PROVE X = Y
      BY <2>1, <3>1
    <3>2. QED
      BY <3>1
  <2>3. f \in [A -> B] /\ \A Z \in B : \E X \in A : f[X] = Z
    OBVIOUS
  <2> HIDE DEF f, A, B
  <2>4. f \in Bijection(A, B)
    BY <2>2, <2>3 DEF Bijection, Injection, Surjection, IsInjective
  <2>5. ExistsBijection(A, B)
    BY <2>4 DEF ExistsBijection
  <2>6. QED
    BY <1>2, <2>5, FS_Bijection
<1>4. A \cup B = SUBSET T
  <2>1. S \subseteq T /\ n + 1 \in T /\ \A x \in T : x \in S \/ x = n + 1
    OBVIOUS
  <2> HIDE DEF S, T
  <2>2. A \subseteq SUBSET T /\ B \subseteq SUBSET T
    BY <2>1
  <2>3. ASSUME NEW Z \in SUBSET T PROVE Z \in A \cup B
    <3>1. CASE n + 1 \in Z
      <4>1. Z \ {n + 1} \in A /\ Z = (Z \ {n + 1}) \cup {n + 1}
        BY <2>1, <3>1
      <4>2. QED
        BY <4>1
    <3>2. CASE n + 1 \notin Z
      BY <2>1, <3>2
    <3>3. QED
      BY <3>1, <3>2
  <2>4. QED
    BY <2>2, <2>3
<1>5. A \cap B = {}
  OBVIOUS
<1> HIDE DEF A, B, T
<1>6. Cardinality(SUBSET T) = Cardinality(A) + Cardinality(B) - Cardinality(A \cap B)
  BY <1>2, <1>3, <1>4, FS_Union
<1>7. Cardinality(A \cap B) = 0
  BY <1>5, FS_EmptySet
<1>8. Cardinality(A) \in Nat /\ Cardinality(A) # 0
  <2>1. {} \in A
    BY DEF A
  <2>2. QED
    BY <1>2, <2>1, FS_CardinalityType, FS_EmptySet
<1>9. QED
  BY <1>2, <1>3, <1>6, <1>7, <1>8

\* Halving what was halved, and never below the floor.
LEMMA HalvedOnce ==
  ASSUME NEW c \in Nat, NEW m \in Nat, NEW n \in Nat
  PROVE  Larger(Larger(c \div 2^n, m) \div 2, m) = Larger(c \div 2^(n + 1), m)
<1> DEFINE p == 2^n
<1>1. p \in Nat \ {0} /\ 2^(n + 1) = p * 2
  BY PowersOfTwo
<1> HIDE DEF p
<1>2. c \div p \in Nat /\ c \div (p * 2) = (c \div p) \div 2
  BY <1>1
<1> DEFINE x == c \div p
<1>3. x \in Nat
  BY <1>2
<1>4. c \div 2^(n + 1) = x \div 2
  BY <1>1, <1>2
<1> HIDE DEF x
<1>5. Larger(Larger(x, m) \div 2, m) = Larger(x \div 2, m)
  BY <1>3 DEF Larger
<1>6. QED
  BY <1>4, <1>5 DEF x, p

LEMMA ChunkAsItIs == Larger(Chunk \div 2^0, MinTry) = Chunk
<1>1. 2^0 = 1 /\ Chunk \div 1 = Chunk
  BY ChunkAssumption
<1>2. QED
  BY <1>1, ChunkAssumption DEF Larger

----------------------------------------------------------------------------
(* What comes back.                                                        *)

\* The highest height there is stands for the one before 0.
LEMMA TipIsNat == ASSUME NEW h \in Nat PROVE TipOf(h) \in Nat
<1>1. h - 1 \in Int /\ Word \in Nat /\ Word > 0
  BY WordAssumption
<1>2. (h - 1) % Word \in 0 .. Word - 1
  BY <1>1
<1>3. QED
  BY <1>1, <1>2 DEF TipOf, Wrap

\* No failure is taken for an answer.
LEMMA FailedHeight == ASSUME NEW h, NEW r \in Failures(Heights(h)) PROVE FetchChainHeightThrows(r)
<1> DEFINE q == Heights(h)
<1>1. \/ r = [q EXCEPT !.curl = "partial file", !.json = FALSE]
      \/ r = [q EXCEPT !.json = FALSE]
      \/ r = [q EXCEPT !.curl = "failed"]
      \/ r = [q EXCEPT !.http_code = 500]
      \/ r = [q EXCEPT !.fields = {}]
  BY DEF Failures, CutOff
<1>2. r.json = FALSE \/ r.curl = "failed" \/ r.http_code = 500 \/ r.fields = {}
  <2>1. DOMAIN q = {"curl", "http_code", "json", "fields", "values"}
    BY DEF Heights, Reply
  <2> HIDE DEF q
  <2>2. CASE r = [q EXCEPT !.curl = "partial file", !.json = FALSE]
    BY <2>1, <2>2
  <2>3. CASE r = [q EXCEPT !.json = FALSE]
    BY <2>1, <2>3
  <2>4. CASE r = [q EXCEPT !.curl = "failed"]
    BY <2>1, <2>4
  <2>5. CASE r = [q EXCEPT !.http_code = 500]
    BY <2>1, <2>5
  <2>6. CASE r = [q EXCEPT !.fields = {}]
    BY <2>1, <2>6
  <2>7. QED
    BY <1>1, <2>2, <2>3, <2>4, <2>5, <2>6
<1>3. QED
  <2>1. r.json = FALSE => ~r.json
    BY Zenon
  <2>2. r.curl = "failed" => r.curl # "ok"
    OBVIOUS
  <2>3. r.http_code = 500 => r.http_code # 200
    OBVIOUS
  <2>4. r.fields = {} => "height" \notin r.fields
    OBVIOUS
  <2>5. QED
    BY <1>2, <2>1, <2>2, <2>3, <2>4, Zenon
       DEF FetchChainHeightThrows, RpcCallThrows, DirectPostThrows

LEMMA FailedChunk == ASSUME NEW v, NEW r \in Failures(Counts(v)) PROVE FetchChunkThrows(r)
<1> DEFINE q == Counts(v)
<1>1. \/ r = [q EXCEPT !.curl = "partial file", !.json = FALSE]
      \/ r = [q EXCEPT !.json = FALSE]
      \/ r = [q EXCEPT !.curl = "failed"]
      \/ r = [q EXCEPT !.http_code = 500]
      \/ r = [q EXCEPT !.fields = {}]
  BY DEF Failures, CutOff
<1>2. r.json = FALSE \/ r.curl = "failed" \/ r.http_code = 500 \/ r.fields = {}
  <2>1. DOMAIN q = {"curl", "http_code", "json", "fields", "values"}
    BY DEF Counts, Reply
  <2> HIDE DEF q
  <2>2. CASE r = [q EXCEPT !.curl = "partial file", !.json = FALSE]
    BY <2>1, <2>2
  <2>3. CASE r = [q EXCEPT !.json = FALSE]
    BY <2>1, <2>3
  <2>4. CASE r = [q EXCEPT !.curl = "failed"]
    BY <2>1, <2>4
  <2>5. CASE r = [q EXCEPT !.http_code = 500]
    BY <2>1, <2>5
  <2>6. CASE r = [q EXCEPT !.fields = {}]
    BY <2>1, <2>6
  <2>7. QED
    BY <1>1, <2>2, <2>3, <2>4, <2>5, <2>6
<1>3. QED
  <2>1. r.json = FALSE => ~r.json
    BY Zenon
  <2>2. r.curl = "failed" => r.curl # "ok"
    OBVIOUS
  <2>3. r.http_code = 500 => r.http_code # 200
    OBVIOUS
  <2>4. r.fields = {} => ~({"distributions", "amount 0"} \subseteq r.fields)
    OBVIOUS
  <2>5. QED
    BY <1>2, <2>1, <2>2, <2>3, <2>4, Zenon DEF FetchChunkThrows, RpcCallThrows, DirectPostThrows

LEMMA CutOffChunk == ASSUME NEW v, NEW r \in CutOff(Counts(v)) PROVE FetchChunkThrows(r)
BY FailedChunk DEF Failures

LEMMA ErrorChunk == FetchChunkThrows(Error)
BY DEF Error, Reply, FetchChunkThrows, RpcCallThrows

\* What is taken for a window is all of its counts, or from a confused daemon
\* the first of them.
LEMMA ChunkTaken ==
  ASSUME NEW r \in ChunkReplies, ~FetchChunkThrows(r)
  PROVE  /\ HasBlock(WindowEnd)
         /\ \/ r.values = Distribution(from_height, WindowEnd)
            \/ /\ daemon = "confused"
               /\ \E n \in 0 .. Len(Distribution(from_height, WindowEnd)) :
                    r.values = SubSeq(Distribution(from_height, WindowEnd), 1, n)
<1> DEFINE d == Distribution(from_height, WindowEnd)
           q == Counts(d)
<1>1. q.values = d
  BY DEF Counts, Reply
<1> HIDE DEF d
<1>2. \/ ~HasBlock(WindowEnd) /\ r = Error
      \/ HasBlock(WindowEnd) /\ r \in CutOff(q)
      \/ HasBlock(WindowEnd) /\ r = q
      \/ HasBlock(WindowEnd) /\ r \in Failures(q)
      \/ /\ HasBlock(WindowEnd) /\ daemon = "confused"
         /\ \E n \in 0 .. Len(q.values) : r = Counts(SubSeq(q.values, 1, n))
  <2>1. q = Counts(Distribution(from_height, WindowEnd))
    BY DEF d
  <2> HIDE DEF q
  <2>2. r \in (IF ~HasBlock(WindowEnd) THEN {Error}
               ELSE IF WindowEnd - from_height >= ResponseCap THEN CutOff(q)
               ELSE {q}
                      \cup (IF daemon = "truncates" THEN {} ELSE Failures(q))
                      \cup (IF daemon = "confused"
                            THEN {Counts(SubSeq(q.values, 1, n)) : n \in 0 .. Len(q.values)}
                            ELSE {}))
    BY <2>1 DEF ChunkReplies
  <2>3. QED
    BY <2>2
<1>3. r # Error /\ r \notin CutOff(q) /\ r \notin Failures(q)
  BY ErrorChunk, FailedChunk, CutOffChunk
<1>4. \/ r.values = d
      \/ daemon = "confused" /\ \E n \in 0 .. Len(d) : r.values = SubSeq(d, 1, n)
  <2>1. CASE r = q
    BY <2>1, <1>1
  <2>2. CASE daemon = "confused" /\ \E n \in 0 .. Len(q.values) : r = Counts(SubSeq(q.values, 1, n))
    <3>1. PICK n \in 0 .. Len(d) : r = Counts(SubSeq(d, 1, n))
      BY <2>2, <1>1
    <3>2. r.values = SubSeq(d, 1, n)
      BY <3>1 DEF Counts, Reply
    <3>3. QED
      BY <2>2, <3>2
  <2>3. QED
    BY <1>2, <1>3, <2>1, <2>2
<1>5. QED
  BY <1>2, <1>3, <1>4 DEF d

\* Nor an answer for a failure.
LEMMA HeightTold == ASSUME NEW h PROVE ~FetchChainHeightThrows(Heights(h))
BY DEF Heights, Reply, FetchChainHeightThrows, RpcCallThrows, DirectPostThrows

LEMMA CountsTold == ASSUME NEW v PROVE ~FetchChunkThrows(Counts(v))
<1> DEFINE q == Counts(v)
<1>1. /\ q.curl = "ok" /\ q.http_code = 200 /\ q.json = TRUE
      /\ q.fields = {"distributions", "amount 0"}
  BY DEF Counts, Reply
<1> HIDE DEF q
<1>2. q.json
  BY Zenon, <1>1
<1>3. "error" \notin q.fields /\ {"distributions", "amount 0"} \subseteq q.fields
  BY <1>1
<1>4. ~FetchChunkThrows(q)
  BY Zenon, <1>1, <1>2, <1>3 DEF FetchChunkThrows, RpcCallThrows, DirectPostThrows
<1>5. QED
  BY <1>4 DEF q

----------------------------------------------------------------------------
(* The steps.                                                              *)

LEMMA InitInv == Init => Inv
<1>1. SUFFICES ASSUME Init PROVE Inv
  OBVIOUS
<1>2. /\ daemon \in {"truncates", "fails", "confused"}
      /\ pc = "height" /\ chain_tip = 0 /\ from_height = Start /\ try_size = Chunk
      /\ attempt = 0 /\ real_start = 0 /\ offsets = <<>>
  BY <1>1 DEF Init
<1>3. ChainBook
  BY <1>1, InitChainBook DEF Init
<1>4. ChainTypeOK
  BY <1>3, BoundsAssumption DEF ChainBook, ChainTypeOK
<1>5. TypeOK
  BY <1>2, <1>4, StartAssumption, ChunkAssumption, AttemptsAssumption DEF TypeOK
<1>6. TypeInv
  BY <1>2, <1>3, <1>5, StartAssumption DEF TypeInv
<1>7. TipBook
  BY <1>2 DEF TipBook
<1>8. LengthBook
  BY <1>2, StartAssumption, RctStartAssumption DEF LengthBook, FirstHeight, Larger
<1>9. ValueBook
  BY <1>2 DEF ValueBook
<1>10. ShiftBook
  BY <1>2 DEF ShiftBook, Shifted, Cumulative
<1>11. HalvingBook
  BY <1>2, ChunkAsItIs DEF HalvingBook
<1>12. EnoughBook
  BY <1>2, AttemptsAssumption DEF EnoughBook
<1>13. QED
  BY <1>6, <1>7, <1>8, <1>9, <1>10, <1>11, <1>12 DEF Inv

\* The height that is read: no window yet.
LEMMA HeightInv ==
  ASSUME Inv, FetchHeight
  PROVE  Inv'
<1>1. PICK r \in HeightReplies : ~FetchChainHeightThrows(r) /\ chain_tip' = TipOf(r.values[1])
  BY DEF FetchHeight
<1>2. /\ pc = "height" /\ pc' = "window"
      /\ UNCHANGED <<chainVars, daemon, from_height, try_size, attempt, offsets, real_start>>
  BY DEF FetchHeight
<1>3. TypeInv
  BY DEF Inv
<1>4. r = Heights(Len(chain)) \/ (r = Heights(0) /\ daemon = "confused")
  <2>1. \A x \in Failures(Heights(0)) : FetchChainHeightThrows(x)
    BY FailedHeight
  <2>2. daemon \in {"truncates", "fails", "confused"}
    BY <1>3 DEF TypeInv, TypeOK
  <2>3. r = Heights(Len(chain)) \/ (r = Heights(0) /\ daemon = "confused") \/ r \in Failures(Heights(0))
    BY <1>1, <2>2 DEF HeightReplies
  <2>4. QED
    BY <1>1, <2>1, <2>3
<1>5. r.values[1] = Len(chain) \/ (r.values[1] = 0 /\ daemon = "confused")
  BY <1>4 DEF Heights, Reply
<1>6. chain_tip' \in Nat
  BY <1>1, <1>3, <1>5, TipIsNat, TypeFacts
<1>7. TypeInv'
  BY <1>2, <1>3, <1>6 DEF TypeInv, TypeOK, ChainTypeOK, ChainBook, chainVars
<1>8. TipBook' /\ LengthBook' /\ ValueBook'
  BY <1>2 DEF Inv, TipBook, LengthBook, ValueBook, FirstHeight, chainVars
<1>9. ShiftBook' /\ HalvingBook'
  BY <1>2 DEF Inv, ShiftBook, Shifted, HalvingBook, FirstHeight, chainVars
<1>10. EnoughBook'
  <2>1. SUFFICES ASSUME SmallEnough PROVE attempt < MaxAttempts /\ chain_tip' < Len(chain)
    BY <1>2 DEF EnoughBook, SmallEnough, chainVars
  <2>2. attempt < MaxAttempts
    BY <2>1 DEF Inv, EnoughBook
  <2>3. chain_tip' = TipOf(Len(chain))
    BY <1>1, <1>5, <2>1 DEF SmallEnough
  <2>4. TipOf(Len(chain)) = Len(chain) - 1
    <3> DEFINE n == Len(chain)
    <3>1. n \in Nat /\ n > 0 /\ n < Word /\ Word \in Nat
      BY <1>3, TypeFacts, LargeWordAssumption, WordAssumption
    <3> HIDE DEF n
    <3>2. TipOf(n) = n - 1
      BY <3>1 DEF TipOf, Wrap
    <3>3. QED
      BY <3>2 DEF n
  <2>5. QED
    BY <1>3, <2>2, <2>3, <2>4, TypeFacts
<1>11. QED
  BY <1>7, <1>8, <1>9, <1>10 DEF Inv

\* The ways in which the fetch ends.
LEMMA EndInv ==
  ASSUME Inv, HeightFails \/ GiveUp \/ Finish \/ Returned
  PROVE  Inv'
<1>1. /\ UNCHANGED <<chainVars, daemon, chain_tip, from_height, try_size, attempt, offsets, real_start>>
      /\ pc' \in {"done", "failed"} \/ pc' = pc
      /\ pc' = "done" => pc = "done" \/ from_height > chain_tip
  <2>1. CASE HeightFails
    BY <2>1 DEF HeightFails
  <2>2. CASE GiveUp
    BY <2>2 DEF GiveUp
  <2>3. CASE Finish
    BY <2>3 DEF Finish
  <2>4. CASE Returned
    BY <2>4 DEF Returned, vars, toolVars
  <2>5. QED
    BY <2>1, <2>2, <2>3, <2>4
<1>2. TypeInv'
  BY <1>1 DEF Inv, TypeInv, TypeOK, ChainTypeOK, ChainBook, chainVars
<1>3. TipBook' /\ LengthBook' /\ ValueBook'
  BY <1>1 DEF Inv, TipBook, LengthBook, ValueBook, FirstHeight, chainVars
<1>4. ShiftBook' /\ HalvingBook'
  BY <1>1 DEF Inv, ShiftBook, Shifted, HalvingBook, FirstHeight, chainVars
<1>5. EnoughBook'
  <2>1. SUFFICES ASSUME SmallEnough
                 PROVE  /\ pc' # "failed" /\ attempt < MaxAttempts
                        /\ pc' # "height" => chain_tip < Len(chain)
    BY <1>1 DEF EnoughBook, SmallEnough, chainVars
  <2>2. /\ pc # "failed" /\ attempt < MaxAttempts
        /\ pc # "height" => chain_tip < Len(chain)
    BY <2>1 DEF Inv, EnoughBook
  <2>3. ~HeightFails
    <3>1. HeightReplies = {Heights(Len(chain))}
      BY <2>1 DEF SmallEnough, HeightReplies
    <3>2. QED
      BY <3>1, HeightTold DEF HeightFails
  <2>4. ~GiveUp
    <3>1. attempt \in Nat /\ MaxAttempts \in Nat
      BY TypeFacts, AttemptsAssumption DEF Inv
    <3>2. QED
      BY <2>2, <3>1 DEF GiveUp
  <2>5. QED
    BY <1>1, <2>2, <2>3, <2>4 DEF Finish, Returned, vars, toolVars
<1>6. QED
  BY <1>2, <1>3, <1>4, <1>5 DEF Inv

\* A window fails: a smaller one is tried, and once that is small enough it is answered.
LEMMA FailInv ==
  ASSUME Inv, ChunkFails
  PROVE  Inv'
<1>1. /\ UNCHANGED <<chainVars, daemon, pc, chain_tip, from_height, offsets, real_start>>
      /\ attempt' = attempt + 1 /\ try_size' = Larger(try_size \div 2, MinTry)
      /\ pc = "window" /\ from_height <= chain_tip /\ attempt < MaxAttempts
  BY DEF ChunkFails, Fetching, NextTry, NextAttempt
<1>2. TypeInv
  BY DEF Inv
<1>3. /\ try_size \in MinTry .. Chunk /\ attempt \in Nat /\ MaxAttempts \in Nat
      /\ MinTry \in 1 .. Chunk /\ Chunk \in Nat
  BY <1>2, TypeFacts, ChunkAssumption, AttemptsAssumption DEF TypeInv, TypeOK
<1>4. TypeInv'
  <2>1. try_size' \in MinTry .. Chunk
    BY <1>1, <1>3 DEF Larger
  <2>2. attempt' \in 0 .. MaxAttempts
    BY <1>1, <1>3
  <2>3. QED
    BY <1>1, <1>2, <2>1, <2>2 DEF TypeInv, TypeOK, ChainTypeOK, ChainBook, chainVars
<1>5. TipBook' /\ LengthBook' /\ ValueBook'
  BY <1>1 DEF Inv, TipBook, LengthBook, ValueBook, FirstHeight, chainVars
<1>6. ShiftBook'
  BY <1>1 DEF Inv, ShiftBook, Shifted, FirstHeight, chainVars
<1>7. HalvingBook'
  <2>1. try_size = Larger(Chunk \div 2^attempt, MinTry)
    BY DEF Inv, HalvingBook
  <2>2. Larger(Larger(Chunk \div 2^attempt, MinTry) \div 2, MinTry)
          = Larger(Chunk \div 2^(attempt + 1), MinTry)
    <3>1. MinTry \in Nat
      BY <1>3
    <3>2. QED
      BY <1>3, <3>1, HalvedOnce
  <2>3. QED
    BY <1>1, <2>1, <2>2 DEF HalvingBook
<1>8. EnoughBook'
  <2>1. SUFFICES ASSUME SmallEnough PROVE attempt + 1 < MaxAttempts /\ chain_tip < Len(chain)
    BY <1>1 DEF EnoughBook, SmallEnough, chainVars
  <2>2. chain_tip < Len(chain)
    BY <1>1, <2>1 DEF Inv, EnoughBook
  <2>3. PICK r \in ChunkReplies : FetchChunkThrows(r)
    BY DEF ChunkFails
  <2>4. /\ WindowEnd <= chain_tip /\ WindowEnd <= from_height + try_size - 1 /\ WindowEnd \in Int
        /\ chain_tip \in Nat /\ from_height \in Nat /\ Len(chain) \in Nat
    BY <1>2, <1>3, TypeFacts DEF WindowEnd, Smaller
  <2>5. HasBlock(WindowEnd)
    BY <2>2, <2>4 DEF HasBlock
  <2>6. ~(try_size <= ResponseCap)
    <3>1. SUFFICES ASSUME try_size <= ResponseCap PROVE FALSE
      OBVIOUS
    <3>2. ~(WindowEnd - from_height >= ResponseCap)
      BY <1>3, <2>4, <3>1, DaemonAssumption
    <3>3. daemon = "truncates"
      BY <2>1 DEF SmallEnough
    <3>4. r = Counts(Distribution(from_height, WindowEnd))
      BY <2>3, <2>5, <3>2, <3>3 DEF ChunkReplies
    <3>5. QED
      BY <2>3, <3>4, CountsTold
  <2>7. attempt # MaxAttempts - 1
    BY <2>1, <2>6 DEF Inv, HalvingBook, SmallEnough
  <2>8. QED
    BY <1>1, <1>3, <2>2, <2>7
<1>9. QED
  BY <1>4, <1>5, <1>6, <1>7, <1>8 DEF Inv

\* A window of counts behind those before it.
Window(c, o, first, from, v, start, next) ==
  /\ c \in Seq(Nat) /\ Cumulative(c) /\ o \in Seq(Nat) /\ v \in Seq(Nat)
  /\ first \in Nat /\ from \in Nat /\ start \in Nat /\ next \in Nat
  /\ Shifted(c, o, first, from)
  /\ from < next /\ next <= Len(c) /\ start = Larger(from, first)
  /\ \A j \in DOMAIN v : start + j <= next /\ v[j] = c[start + j]

\* Whether the window is whole or cut short, the counts stay sorted, and none comes to
\* stand at a later height than its own.
LEMMA ShiftedOn ==
  ASSUME NEW c, NEW o, NEW first, NEW from, NEW v, NEW start, NEW next,
         Window(c, o, first, from, v, start, next)
  PROVE  Shifted(c, o \o v, first, next)
<1>1. /\ c \in Seq(Nat) /\ Cumulative(c) /\ o \in Seq(Nat) /\ v \in Seq(Nat)
      /\ first \in Nat /\ from \in Nat /\ start \in Nat /\ next \in Nat
      /\ from < next /\ next <= Len(c) /\ start = Larger(from, first)
      /\ \A j \in DOMAIN v : start + j <= next /\ v[j] = c[start + j]
  BY DEF Window
<1>2. /\ o # <<>> => from \in DOMAIN c /\ first + Len(o) <= from
      /\ Cumulative(o)
      /\ \A i \in DOMAIN o : o[i] <= c[from] /\ o[i] >= c[first + i]
  BY DEF Window, Shifted
<1>3. start >= from /\ start >= first /\ first + Len(o) <= start
  <2>1. CASE o = <<>>
    BY <1>1, <2>1 DEF Larger
  <2>2. CASE o # <<>>
    BY <1>1, <1>2, <2>2 DEF Larger
  <2>3. QED
    BY <2>1, <2>2
<1> DEFINE w == o \o v
           l == Len(o)
<1>4. /\ w \in Seq(Nat) /\ Len(w) = l + Len(v) /\ l \in Nat /\ Len(v) \in Nat
      /\ \A i \in 1 .. l : w[i] = o[i]
      /\ \A j \in 1 .. Len(v) : w[l + j] = v[j]
  BY <1>1
<1>5. \A i \in DOMAIN o : i \in 1 .. l
  BY <1>1
<1>6. next \in DOMAIN c /\ (o # <<>> => c[from] <= c[next])
  <2>1. next \in DOMAIN c
    BY <1>1
  <2>2. QED
    BY <1>1, <1>2, <2>1 DEF Cumulative
<1> HIDE DEF w, l
\* A position in w is one in o, or one in v.
<1>7. ASSUME NEW i \in DOMAIN w
      PROVE  \/ i \in DOMAIN o /\ i \in 1 .. l /\ w[i] = o[i] /\ o # <<>>
             \/ /\ i - l \in DOMAIN v /\ i - l \in 1 .. Len(v)
                /\ w[i] = c[start + (i - l)] /\ start + (i - l) \in DOMAIN c
                /\ start + (i - l) <= next
  <2>1. i \in 1 .. l + Len(v)
    BY <1>4
  <2>2. CASE i <= l
    <3>1. i \in DOMAIN o /\ i \in 1 .. l /\ w[i] = o[i]
      BY <1>1, <1>4, <2>1, <2>2 DEF l
    <3>2. QED
      BY <3>1
  <2>3. CASE i > l
    <3> DEFINE j == i - l
    <3>1. j \in 1 .. Len(v) /\ l + j = i
      BY <1>4, <2>1, <2>3
    <3> HIDE DEF j
    <3>2. j \in DOMAIN v /\ w[i] = v[j]
      <4>1. j \in DOMAIN v
        BY <1>1, <3>1
      <4>2. w[l + j] = v[j]
        BY <1>4, <3>1
      <4>3. QED
        BY <3>1, <4>1, <4>2
    <3>3. start + j <= next /\ v[j] = c[start + j]
      BY <1>1, <3>2
    <3>4. start + j \in DOMAIN c
      BY <1>1, <3>1, <3>3
    <3>5. QED
      BY <3>1, <3>2, <3>3, <3>4 DEF j
  <2>4. QED
    BY <1>4, <2>1, <2>2, <2>3
<1>8. w # <<>> => first + Len(w) <= next
  <2>1. CASE v = <<>>
    <3>1. Len(w) = l /\ (w # <<>> => o # <<>>)
      BY <1>1, <1>4, <2>1 DEF w, l
    <3>2. QED
      BY <1>1, <1>2, <1>4, <3>1 DEF l
  <2>2. CASE v # <<>>
    <3>1. Len(v) \in DOMAIN v
      BY <1>1, <2>2
    <3>2. start + Len(v) <= next
      BY <1>1, <3>1
    <3>3. first + l <= start
      BY <1>3 DEF l
    <3>4. QED
      BY <1>1, <1>4, <3>2, <3>3
  <2>3. QED
    BY <2>1, <2>2
<1>9. ASSUME NEW i \in DOMAIN w
      PROVE  w[i] <= c[next] /\ w[i] >= c[first + i]
  <2>1. CASE i \in DOMAIN o /\ i \in 1 .. l /\ w[i] = o[i] /\ o # <<>>
    <3>1. w[i] <= c[from] /\ w[i] >= c[first + i] /\ c[from] <= c[next]
      BY <1>2, <1>6, <2>1
    <3>2. w[i] \in Nat /\ c[from] \in Nat /\ c[next] \in Nat
      <4>1. w[i] \in Nat
        BY <1>4
      <4>2. from \in DOMAIN c /\ next \in DOMAIN c
        BY <1>2, <1>6, <2>1
      <4>3. QED
        BY <1>1, <4>1, <4>2
    <3>3. QED
      BY <3>1, <3>2
  <2>2. CASE /\ i - l \in 1 .. Len(v) /\ w[i] = c[start + (i - l)]
             /\ start + (i - l) \in DOMAIN c /\ start + (i - l) <= next
    <3>1. c[start + (i - l)] <= c[next]
      BY <1>1, <1>6, <2>2 DEF Cumulative
    <3>2. first + i \in DOMAIN c /\ first + i <= start + (i - l)
      <4>1. first + l <= start /\ i \in Nat /\ i > 0
        BY <1>3, <1>4 DEF l
      <4>2. start + (i - l) \in Nat /\ start + (i - l) <= Len(c)
        BY <1>1, <2>2
      <4>3. first + i \in Nat /\ first + i > 0 /\ first + i <= start + (i - l)
        BY <1>1, <1>4, <4>1
      <4>4. first + i <= Len(c)
        BY <1>1, <4>2, <4>3
      <4>5. QED
        BY <1>1, <4>3, <4>4
    <3>3. c[first + i] <= c[start + (i - l)]
      BY <1>1, <2>2, <3>2 DEF Cumulative
    <3>4. QED
      BY <2>2, <3>1, <3>3
  <2>3. QED
    BY <1>7, <2>1, <2>2
<1>10. ASSUME NEW a \in DOMAIN w, NEW b \in DOMAIN w, a <= b
       PROVE  w[a] <= w[b]
  <2>0. a \in Nat /\ b \in Nat
    BY <1>4
  <2>1. CASE a \in DOMAIN o /\ b \in DOMAIN o
    <3>1. w[a] = o[a] /\ w[b] = o[b]
      BY <1>4, <1>5, <2>1
    <3>2. QED
      BY <1>2, <1>10, <2>1, <3>1 DEF Cumulative
  <2>2. CASE /\ a \in DOMAIN o /\ a \in 1 .. l /\ w[a] = o[a] /\ o # <<>>
             /\ b - l \in 1 .. Len(v) /\ w[b] = c[start + (b - l)]
             /\ start + (b - l) \in DOMAIN c
    <3>1. from \in DOMAIN c /\ from <= start + (b - l)
      <4>1. from \in DOMAIN c
        BY <1>2, <2>2
      <4>2. b - l \in Nat /\ from <= start
        BY <1>3, <1>4, <2>2
      <4>3. QED
        BY <1>1, <4>1, <4>2
    <3>2. w[a] <= c[from] /\ c[from] <= w[b]
      BY <1>1, <1>2, <2>2, <3>1 DEF Cumulative
    <3>3. w[a] \in Nat /\ c[from] \in Nat /\ w[b] \in Nat
      <4>1. w[a] \in Nat /\ w[b] \in Nat
        BY <1>4
      <4>2. QED
        BY <1>1, <3>1, <4>1
    <3>4. QED
      BY <3>2, <3>3
  <2>3. CASE /\ a - l \in 1 .. Len(v) /\ w[a] = c[start + (a - l)] /\ start + (a - l) \in DOMAIN c
             /\ b - l \in 1 .. Len(v) /\ w[b] = c[start + (b - l)] /\ start + (b - l) \in DOMAIN c
    <3>1. start + (a - l) <= start + (b - l)
      BY <1>1, <1>4, <1>10, <2>0
    <3>2. QED
      BY <1>1, <2>3, <3>1 DEF Cumulative
  <2>4. CASE a - l \in 1 .. Len(v) /\ b \in 1 .. l
    BY <1>4, <1>10, <2>0, <2>4
  <2>5. QED
    BY <1>7, <2>1, <2>2, <2>3, <2>4
<1>11. QED
  <2>1. w # <<>> => next \in DOMAIN c /\ first + Len(w) <= next
    BY <1>6, <1>8
  <2>2. Cumulative(w)
    BY <1>10 DEF Cumulative
  <2>3. Shifted(c, w, first, next)
    BY <1>9, <2>1, <2>2 DEF Shifted
  <2>4. QED
    BY <2>3 DEF w

\* A window arrives: its values start where those before it end.
LEMMA ChunkInv ==
  ASSUME Inv, ChunkArrives
  PROVE  Inv'
<1>1. PICK r \in ChunkReplies : ~FetchChunkThrows(r) /\ offsets' = offsets \o r.values
  BY DEF ChunkArrives, WithChunk
<1>2. /\ from_height <= chain_tip /\ pc = "window"
      /\ from_height' = WindowEnd + 1 /\ try_size' = Chunk
      /\ attempt' = 0 /\ attempt < MaxAttempts
      /\ real_start' = IF from_height = Start THEN StartHeight(from_height) ELSE real_start
      /\ UNCHANGED <<chain, stable, reorgs, daemon, pc, chain_tip>>
  BY DEF ChunkArrives, Fetching, NextFrom, chainVars
<1>3. /\ chain \in Seq(Nat) /\ Len(chain) > 0 /\ stable \in Int /\ Cumulative(chain)
      /\ chain_tip \in Nat /\ from_height \in Nat /\ from_height >= Start
      /\ try_size \in Nat /\ try_size >= 1 /\ offsets \in Seq(Nat)
      /\ Start \in Nat /\ RctStart \in Nat
  BY TypeFacts DEF Inv
<1>4. WindowEnd \in Nat /\ from_height <= WindowEnd /\ WindowEnd <= chain_tip
  BY <1>2, <1>3 DEF WindowEnd, Smaller
<1> DEFINE whole == Distribution(from_height, WindowEnd)
<1> HIDE DEF whole
<1>5. HasBlock(WindowEnd)
  BY <1>1, ChunkTaken
<1>6. \/ r.values = whole
      \/ daemon = "confused" /\ \E n \in 0 .. Len(whole) : r.values = SubSeq(whole, 1, n)
  BY <1>1, ChunkTaken DEF whole
<1>7. /\ whole \in Seq(Nat)
      /\ Len(whole) = Larger((WindowEnd + 1) - StartHeight(from_height), 0)
      /\ \A j \in 1 .. Len(whole) : /\ StartHeight(from_height) + j <= Len(chain)
                                    /\ whole[j] = chain[StartHeight(from_height) + j]
  <2>1. StartHeight(from_height) \in Nat
    BY <1>3 DEF StartHeight, Larger
  <2>2. WindowEnd + 1 \in Nat /\ WindowEnd + 1 <= Len(chain)
    BY <1>3, <1>4, <1>5 DEF HasBlock
  <2> DEFINE m == StartHeight(from_height) + 1
             n == WindowEnd + 1
  <2>3. whole = SubSeq(chain, m, n)
    BY DEF Distribution, whole
  <2>4. m \in Nat \ {0} /\ n \in Nat /\ n <= Len(chain)
    BY <2>1, <2>2
  <2> HIDE DEF m, n
  <2>5. /\ whole \in Seq(Nat) /\ Len(whole) = Larger(n + 1 - m, 0)
        /\ \A i \in 1 .. Len(whole) : m + i - 1 <= n /\ whole[i] = chain[m + i - 1]
    BY <1>3, <2>3, <2>4, PartOf
  <2>6. n + 1 - m = (WindowEnd + 1) - StartHeight(from_height)
    BY <1>4, <2>1 DEF m, n
  <2>7. ASSUME NEW i \in 1 .. Len(whole)
        PROVE  /\ StartHeight(from_height) + i <= Len(chain)
               /\ whole[i] = chain[StartHeight(from_height) + i]
    <3>1. m + i - 1 = StartHeight(from_height) + i /\ i \in Int
      BY <2>1, <2>5 DEF m
    <3>2. m + i - 1 <= n /\ whole[i] = chain[m + i - 1]
      BY <2>5
    <3>3. QED
      BY <2>1, <2>4, <3>1, <3>2, <1>3
  <2>8. QED
    BY <2>5, <2>6, <2>7
<1>8. r.values \in Seq(Nat) /\ \A j \in DOMAIN r.values : j \in 1 .. Len(whole) /\ r.values[j] = whole[j]
  <2>1. CASE r.values = whole
    BY <1>7, <2>1
  <2>2. CASE \E n \in 0 .. Len(whole) : r.values = SubSeq(whole, 1, n)
    <3>1. PICK n \in 0 .. Len(whole) : r.values = SubSeq(whole, 1, n)
      BY <2>2
    <3>0. PICK m \in Nat \ {0} : m = 1
      OBVIOUS
    <3> DEFINE v == SubSeq(whole, m, n)
    <3>2. n \in Nat /\ n <= Len(whole)
      BY <1>7, <3>1
    <3>3. /\ v \in Seq(Nat) /\ Len(v) = Larger(n + 1 - m, 0)
          /\ \A j \in 1 .. Len(v) : m + j - 1 <= n /\ v[j] = whole[m + j - 1]
      BY <1>7, <3>2, PartOf
    <3>5. r.values = v
      BY <3>0, <3>1
    <3> HIDE DEF v
    <3>4. \A j \in DOMAIN v : j \in 1 .. Len(whole) /\ v[j] = whole[j]
      <4>1. ASSUME NEW j \in 1 .. Len(v) PROVE j \in 1 .. Len(whole) /\ v[j] = whole[j]
        <5>1. m + j - 1 = j /\ j <= n
          BY <3>0, <3>2, <3>3
        <5>2. v[j] = whole[j]
          BY <3>3, <5>1
        <5>3. QED
          BY <1>7, <3>2, <3>3, <5>1, <5>2
      <4>2. QED
        BY <3>3, <4>1
    <3>6. QED
      BY <3>3, <3>4, <3>5
  <2>3. QED
    BY <1>6, <2>1, <2>2
<1>18. offsets' \in Seq(Nat)
  BY <1>1, <1>3, <1>8
<1>9. TypeInv'
  <2>1. try_size' \in MinTry .. Chunk /\ attempt' \in 0 .. MaxAttempts
    BY <1>2, ChunkAssumption, AttemptsAssumption
  <2>2. from_height' \in Nat /\ from_height' >= Start
    BY <1>2, <1>3, <1>4
  <2>3. real_start' \in Nat
    <3>1. StartHeight(from_height) \in Nat /\ real_start \in Nat
      BY <1>3 DEF Inv, TypeInv, TypeOK, StartHeight, Larger
    <3>2. QED
      BY <1>2, <3>1
  <2>4. QED
    BY <1>2, <1>18, <2>1, <2>2, <2>3 DEF Inv, TypeInv, TypeOK, ChainTypeOK, ChainBook
<1>10. TipBook'
  BY <1>2, <1>3, <1>4 DEF TipBook
<1>11. ASSUME daemon # "confused"
       PROVE  /\ offsets' = offsets \o whole
              /\ Len(offsets) = Larger(from_height - FirstHeight, 0)
              /\ Len(whole) > 0 => FirstHeight + Len(offsets) = StartHeight(from_height)
              /\ Len(offsets') = Len(offsets) + Len(whole)
              /\ FirstHeight \in Nat
  <2>1. offsets' = offsets \o whole
    BY <1>1, <1>6, <1>11
  <2>2. Len(offsets) = Larger(from_height - FirstHeight, 0)
    BY <1>11 DEF Inv, LengthBook
  <2>3. FirstHeight \in Nat
    BY <1>3 DEF FirstHeight, Larger
  <2>4. FirstHeight + Len(offsets) = StartHeight(from_height)
    BY <1>3, <2>2 DEF FirstHeight, StartHeight, Larger
  <2>5. Len(offsets \o whole) = Len(offsets) + Len(whole)
    <3>1. offsets \in Seq(Nat) /\ whole \in Seq(Nat)
      BY <1>3, <1>7
    <3>2. QED
      BY <3>1
  <2>6. QED
    BY <2>1, <2>2, <2>3, <2>4, <2>5
<1>12. LengthBook'
  <2>1. ASSUME daemon # "confused"
        PROVE  Len(offsets') = Larger((WindowEnd + 1) - FirstHeight, 0)
    <3>1. Len(offsets') = Larger(from_height - FirstHeight, 0)
                            + Larger((WindowEnd + 1) - StartHeight(from_height), 0)
      BY <1>7, <1>11, <2>1
    <3>2. QED
      BY <1>3, <1>4, <3>1 DEF FirstHeight, StartHeight, Larger
  <2>2. daemon' = daemon /\ from_height' = WindowEnd + 1
    BY <1>2
  <2>3. daemon' # "confused" => Len(offsets') = Larger(from_height' - FirstHeight, 0)
    BY <2>1, <2>2, Zenon
  <2>4. QED
    BY <2>3 DEF LengthBook, FirstHeight
<1>13. ValueBook'
  <2>1. SUFFICES ASSUME daemon # "confused", NEW i \in DOMAIN offsets', FirstHeight + i - 1 < stable
                 PROVE  FirstHeight + i <= Len(chain) /\ offsets'[i] = chain[FirstHeight + i]
    BY <1>2 DEF ValueBook, FirstHeight
  <2>2. i \in 1 .. Len(offsets) + Len(whole)
    BY <1>18, <1>11, <2>1
  <2>3. CASE i <= Len(offsets)
    <3>1. i \in DOMAIN offsets /\ offsets'[i] = offsets[i]
      BY <1>3, <1>7, <1>11, <2>1, <2>2, <2>3
    <3>2. QED
      BY <2>1, <3>1 DEF Inv, ValueBook
  <2>4. CASE i > Len(offsets)
    <3>1. i - Len(offsets) \in 1 .. Len(whole) /\ offsets'[i] = whole[i - Len(offsets)]
      BY <1>3, <1>7, <1>11, <2>1, <2>2, <2>4
    <3>2. StartHeight(from_height) + (i - Len(offsets)) = FirstHeight + i
      <4>1. Len(offsets) \in Nat /\ Len(whole) \in Nat
        BY <1>3, <1>7
      <4>2. Len(whole) > 0 /\ i \in Nat
        BY <2>2, <2>4, <4>1
      <4>3. FirstHeight \in Nat
        BY <1>11, <2>1
      <4>4. FirstHeight + Len(offsets) = StartHeight(from_height)
        BY <1>11, <2>1, <4>2
      <4>5. QED
        BY <4>1, <4>2, <4>3, <4>4
    <3>3. QED
      BY <1>7, <3>1, <3>2
  <2>5. QED
    BY <1>3, <2>2, <2>3, <2>4
<1>14. ShiftBook'
  <2>1. SUFFICES ASSUME reorgs = 0
                 PROVE  Shifted(chain, offsets \o r.values, FirstHeight, WindowEnd + 1)
    BY <1>1, <1>2 DEF ShiftBook, Shifted, FirstHeight
  <2> DEFINE v == r.values
             start == StartHeight(from_height)
             next == WindowEnd + 1
  <2>2. Shifted(chain, offsets, FirstHeight, from_height)
    BY <2>1 DEF Inv, ShiftBook
  <2>3. /\ start \in Nat /\ FirstHeight \in Nat /\ start >= from_height
        /\ start = Larger(from_height, FirstHeight)
    BY <1>3 DEF StartHeight, FirstHeight, Larger
  <2>4. next \in Nat /\ from_height < next /\ next <= Len(chain)
    BY <1>3, <1>4, <1>5 DEF HasBlock
  <2>5. \A j \in DOMAIN v : start + j <= next /\ v[j] = chain[start + j]
    <3>1. Len(whole) = Larger(next - start, 0)
      BY <1>7
    <3>2. ASSUME NEW j \in DOMAIN v PROVE start + j <= next /\ v[j] = chain[start + j]
      <4>1. j \in 1 .. Len(whole) /\ v[j] = chain[start + j]
        BY <1>7, <1>8
      <4>2. QED
        BY <2>3, <2>4, <3>1, <4>1 DEF Larger
    <3>3. QED
      BY <3>2
  <2>6. v \in Seq(Nat)
    BY <1>8
  <2> HIDE DEF v, start, next
  <2>7. Window(chain, offsets, FirstHeight, from_height, v, start, next)
    BY <1>3, <2>2, <2>3, <2>4, <2>5, <2>6 DEF Window
  <2>8. QED
    BY <2>7, ShiftedOn DEF v, next
<1>15. HalvingBook'
  BY <1>2, ChunkAsItIs DEF HalvingBook
<1>16. EnoughBook'
  <2>1. 0 < MaxAttempts
    BY AttemptsAssumption
  <2>2. QED
    BY <1>2, <2>1 DEF Inv, EnoughBook, SmallEnough
<1>17. QED
  BY <1>9, <1>10, <1>12, <1>13, <1>14, <1>15, <1>16 DEF Inv

\* The chain changes: the blocks below the height of a replacement stay.
LEMMA ChainInv ==
  ASSUME Inv, ChainChanges
  PROVE  Inv'
<1>1. UNCHANGED <<daemon, pc, chain_tip, from_height, try_size, attempt, offsets, real_start>>
  BY DEF ChainChanges, toolVars
<1>2. TypeInv
  BY DEF Inv
<1>3. ChainBook'
  BY <1>2, ChainStep DEF ChainChanges, TypeInv
<1>4. PICK h \in 1 .. Len(chain) :
        /\ Len(chain') = h + 1 /\ \A k \in 1 .. h : chain'[k] = chain[k]
        /\ stable' <= stable
        /\ \/ h = Len(chain) /\ reorgs' = reorgs
           \/ stable' <= h /\ reorgs' = reorgs + 1
  <2>1. ChainBook /\ (Grow \/ Reorg)
    BY <1>2 DEF ChainChanges, TypeInv
  <2>2. PICK h \in 1 .. Len(chain) :
          /\ Len(chain') = h + 1 /\ \A k \in 1 .. h : chain'[k] = chain[k]
          /\ stable' <= stable
          /\ \/ Grow /\ h = Len(chain) /\ stable' = stable /\ reorgs' = reorgs
             \/ Reorg /\ h < Len(chain) /\ stable' <= h /\ reorgs' = reorgs + 1
    BY <2>1, ChainStep
  <2>3. QED
    BY <2>2
<1>5. /\ chain \in Seq(Nat) /\ Len(chain) \in Nat /\ stable \in Int /\ reorgs \in Nat
      /\ FirstHeight \in Nat /\ offsets \in Seq(Nat) /\ chain_tip \in Nat
  BY <1>2, TypeFacts
<1>6. stable' \in Int
  BY <1>3, BoundsAssumption DEF ChainBook
<1>7. TypeInv'
  <2>1. ChainTypeOK'
    BY <1>3, BoundsAssumption DEF ChainBook, ChainTypeOK
  <2>2. QED
    BY <1>1, <1>2, <1>3, <2>1 DEF TypeInv, TypeOK
<1>8. TipBook' /\ LengthBook' /\ HalvingBook'
  BY <1>1 DEF Inv, TipBook, LengthBook, HalvingBook, FirstHeight
<1>9. ValueBook'
  <2>1. SUFFICES ASSUME daemon # "confused", NEW i \in DOMAIN offsets, FirstHeight + i - 1 < stable'
                 PROVE  FirstHeight + i <= Len(chain') /\ offsets[i] = chain'[FirstHeight + i]
    BY <1>1 DEF ValueBook, FirstHeight
  <2>2. i \in Nat \ {0}
    BY <1>5
  <2>3. FirstHeight + i <= Len(chain) /\ offsets[i] = chain[FirstHeight + i]
    BY <1>4, <1>5, <1>6, <2>1, <2>2 DEF Inv, ValueBook
  <2>4. FirstHeight + i \in 1 .. h
    <3>1. FirstHeight + i \in Nat /\ FirstHeight + i > 0
      BY <1>5, <2>2
    <3>2. h = Len(chain) \/ stable' <= h
      BY <1>4
    <3>3. FirstHeight + i <= h
      BY <1>4, <1>5, <1>6, <2>1, <2>2, <2>3, <3>2
    <3>4. QED
      BY <1>4, <1>5, <3>1, <3>3
  <2>5. QED
    BY <1>4, <2>3, <2>4
<1>10. ShiftBook'
  <2>1. SUFFICES ASSUME reorgs' = 0 PROVE Shifted(chain', offsets, FirstHeight, from_height)
    BY <1>1 DEF ShiftBook, Shifted, FirstHeight
  <2>2. reorgs = 0 /\ h = Len(chain) /\ Len(chain') = Len(chain) + 1
    BY <1>4, <1>5, <2>1
  <2>3. Shifted(chain, offsets, FirstHeight, from_height)
    BY <2>2 DEF Inv, ShiftBook
  <2>4. chain' \in Seq(Nat)
    BY <1>3 DEF ChainBook
  <2>5. \A k \in DOMAIN chain : k \in DOMAIN chain' /\ chain'[k] = chain[k]
    BY <1>4, <1>5, <2>2, <2>4
  <2>6. ASSUME offsets # <<>>
        PROVE  /\ from_height \in DOMAIN chain
               /\ \A i \in DOMAIN offsets : FirstHeight + i \in DOMAIN chain
    <3>1. /\ from_height \in DOMAIN chain /\ from_height <= Len(chain) /\ from_height \in Nat
          /\ FirstHeight + Len(offsets) <= from_height
      BY <1>5, <2>3, <2>6 DEF Shifted
    <3>2. ASSUME NEW i \in DOMAIN offsets PROVE FirstHeight + i \in DOMAIN chain
      <4>1. i \in 1 .. Len(offsets) /\ Len(offsets) \in Nat
        BY <1>5
      <4>2. QED
        BY <1>5, <3>1, <4>1
    <3>3. QED
      BY <3>1, <3>2
  <2>7. \A i \in DOMAIN offsets : offsets # <<>>
    OBVIOUS
  <2>8. QED
    BY <2>3, <2>5, <2>6, <2>7 DEF Shifted
<1>11. EnoughBook'
  <2>1. SUFFICES ASSUME SmallEnough'
                 PROVE  /\ pc # "failed" /\ attempt < MaxAttempts
                        /\ pc # "height" => chain_tip < Len(chain')
    BY <1>1 DEF EnoughBook
  <2>2. SmallEnough /\ Len(chain') = Len(chain) + 1
    BY <1>1, <1>4, <1>5, <2>1 DEF SmallEnough
  <2>3. /\ pc # "failed" /\ attempt < MaxAttempts
        /\ pc # "height" => chain_tip < Len(chain)
    BY <2>2 DEF Inv, EnoughBook
  <2>4. QED
    BY <1>5, <2>2, <2>3
<1>12. QED
  BY <1>7, <1>8, <1>9, <1>10, <1>11 DEF Inv

LEMMA AlwaysInv == Spec => []Inv
<1>1. Inv /\ [Next]_vars => Inv'
  <2>1. SUFFICES ASSUME Inv, [Next]_vars PROVE Inv'
    OBVIOUS
  <2>2. CASE UNCHANGED vars
    BY <2>1, <2>2, EndInv DEF Returned, vars, toolVars, chainVars, Inv, TypeInv, TypeOK, ChainTypeOK,
       ChainBook, TipBook, LengthBook, ValueBook, ShiftBook, Shifted, HalvingBook, EnoughBook,
       SmallEnough, FirstHeight
  <2>3. CASE Next
    BY <2>1, <2>3, HeightInv, EndInv, FailInv, ChunkInv, ChainInv DEF Next, Fetch
  <2>4. QED
    BY <2>1, <2>2, <2>3
<1>2. QED
  BY <1>1, InitInv, PTL DEF Spec

----------------------------------------------------------------------------
(* What the invariant says.                                                *)

\* The sizes stay between the floor and the chunk, for any of them, and the attempts
\* within their bound.
THEOREM TypeCorrect == Spec => []TypeOK
<1>1. Inv => TypeOK
  BY DEF Inv, TypeInv
<1>2. QED
  BY <1>1, AlwaysInv, PTL

LEMMA AllHeights == Inv => OneValuePerHeight
<1>1. SUFFICES ASSUME Inv, daemon # "confused"
               PROVE  /\ Len(offsets) = Larger(from_height - FirstHeight, 0)
                      /\ pc = "done" => Len(offsets) = Larger(chain_tip + 1 - FirstHeight, 0)
  BY DEF OneValuePerHeight
<1>2. Len(offsets) = Larger(from_height - FirstHeight, 0)
  BY <1>1 DEF Inv, LengthBook
<1>3. ASSUME pc = "done"
      PROVE  Larger(from_height - FirstHeight, 0) = Larger(chain_tip + 1 - FirstHeight, 0)
  <2>1. /\ from_height > chain_tip /\ from_height \in Nat /\ chain_tip \in Nat
        /\ from_height = Start \/ from_height <= chain_tip + 1
    BY <1>1, <1>3, TypeFacts DEF Inv, TipBook
  <2>2. QED
    BY <2>1, StartAssumption, RctStartAssumption DEF FirstHeight, Larger
<1>4. QED
  BY <1>2, <1>3

\* main.cpp:198-232, for any window size, floor and number of attempts: one value
\* for every height, up to the tip that was read.
THEOREM NoHeightMissing == Spec => []OneValuePerHeight
BY AllHeights, AlwaysInv, PTL

\* main.cpp:225-232: growth of the chain does no harm to what was read, and a
\* replacement only touches the heights it replaced.
THEOREM ValuesStayRight == Spec => []RightWhereStable
<1>1. Inv => RightWhereStable
  BY DEF Inv, ValueBook, RightWhereStable
<1>2. QED
  BY <1>1, AlwaysInv, PTL

\* main.cpp:178-179, for any answer that is too short, and while the chain grows: the
\* offsets stay sorted and none is below the count of its height.
THEOREM ShortAnswersShift == Spec => []ShortAnswersOnlyShift
<1>1. Inv => ShortAnswersOnlyShift
  <2>1. SUFFICES ASSUME Inv, reorgs = 0, NEW i \in DOMAIN offsets
                 PROVE  /\ i > 1 => offsets[i - 1] <= offsets[i]
                        /\ offsets[i] >= chain[FirstHeight + i]
    BY DEF ShortAnswersOnlyShift
  <2>2. Cumulative(offsets) /\ offsets[i] >= chain[FirstHeight + i]
    BY <2>1 DEF Inv, ShiftBook, Shifted
  <2>3. ASSUME i > 1 PROVE offsets[i - 1] <= offsets[i]
    <3>1. offsets \in Seq(Nat)
      BY <2>1, TypeFacts DEF Inv
    <3>2. i - 1 \in DOMAIN offsets /\ i - 1 <= i
      BY <2>1, <2>3, <3>1
    <3>3. QED
      BY <2>1, <2>2, <3>2 DEF Cumulative
  <2>4. QED
    BY <2>2, <2>3
<1>2. QED
  BY <1>1, AlwaysInv, PTL

\* main.cpp:183-188, for any chunk size, floor, number of attempts and daemon's limit: if
\* the smallest size tried is small enough for the daemon, the fetch does not fail.
THEOREM HalvingSuffices == Spec => []HalvingIsEnough
<1>1. Inv => HalvingIsEnough
  BY DEF Inv, EnoughBook, SmallEnough, HalvingIsEnough
<1>2. QED
  BY <1>1, AlwaysInv, PTL

----------------------------------------------------------------------------
(* The chain may change at any moment; for the result it might as well not. *)

\* What the tool holds in the end is what it would have read in one piece when the last
\* window came: if no block up to the tip was replaced meanwhile, the offsets are those
\* blocks' counts, all of them, whatever was added on top and however windows were split
\* (main.cpp:186-232).
FetchIsSnapshot ==
  daemon # "confused" /\ pc = "done" /\ chain_tip < stable =>
    chain_tip < Len(chain) /\ offsets = SubSeq(chain, FirstHeight + 1, chain_tip + 1)

\* The block at the tip that was read is still there.
TipIsBlock ==
  daemon # "confused" /\ chain_tip < stable => chain_tip < Len(chain)

LEMMA HeightGiven ==
  ASSUME Inv, FetchHeight, daemon # "confused"
  PROVE  chain_tip' = Len(chain) - 1
<1>1. PICK r \in HeightReplies : ~FetchChainHeightThrows(r) /\ chain_tip' = TipOf(r.values[1])
  BY DEF FetchHeight
<1>2. r = Heights(Len(chain))
  <2>1. \A x \in Failures(Heights(0)) : FetchChainHeightThrows(x)
    BY FailedHeight
  <2>2. r = Heights(Len(chain)) \/ r \in Failures(Heights(0))
    BY <1>1 DEF HeightReplies
  <2>3. QED
    BY <1>1, <2>1, <2>2
<1>3. chain_tip' = Wrap(Len(chain) - 1)
  BY <1>1, <1>2 DEF Heights, Reply, TipOf
<1>4. Len(chain) - 1 \in 0 .. Word - 1 /\ Word \in Nat \ {0}
  BY TypeFacts, LargeWordAssumption, WordAssumption DEF Inv
<1>5. QED
  BY <1>3, <1>4 DEF Wrap

LEMMA NextTipIsBlock == Inv /\ TipIsBlock /\ [Next]_vars => TipIsBlock'
<1>1. SUFFICES ASSUME Inv, TipIsBlock, [Next]_vars,
                      daemon' # "confused", chain_tip' < stable'
               PROVE  chain_tip' < Len(chain')
  BY DEF TipIsBlock
<1>2. /\ Len(chain) \in Nat /\ chain_tip \in Nat /\ stable \in Int /\ Inv
  BY <1>1, TypeFacts DEF Inv
<1>3. CASE FetchHeight
  <2>1. chain' = chain /\ daemon' = daemon
    BY <1>3 DEF FetchHeight, chainVars
  <2>2. chain_tip' = Len(chain) - 1
    BY <1>1, <1>2, <1>3, <2>1, HeightGiven
  <2>3. QED
    BY <1>2, <2>1, <2>2
<1>4. CASE ChainChanges
  <2>1. UNCHANGED <<daemon, pc, chain_tip>>
    BY <1>4 DEF ChainChanges, toolVars
  <2>2. PICK h \in 1 .. Len(chain) :
          /\ Len(chain') = h + 1
          /\ stable' <= stable
          /\ h = Len(chain) \/ stable' <= h
    <3>1. ChainBook /\ (Grow \/ Reorg)
      BY <1>2, <1>4 DEF ChainChanges, Inv, TypeInv
    <3>2. QED
      BY <3>1, ChainStep
  <2>3. stable' \in Int
    BY <1>1, <1>2, <1>4, ChainInv, TypeFacts, BoundsAssumption DEF Inv, TypeInv, ChainBook
  <2>4. chain_tip < stable
    BY <1>1, <1>2, <2>1, <2>2, <2>3
  <2>5. chain_tip < Len(chain)
    BY <1>1, <2>1, <2>4 DEF TipIsBlock
  <2>6. QED
    BY <1>1, <1>2, <2>1, <2>2, <2>3, <2>5
<1>5. CASE UNCHANGED <<chain, stable, daemon, chain_tip>>
  BY <1>1, <1>5 DEF TipIsBlock
<1>6. HeightFails \/ ChunkArrives \/ ChunkFails \/ GiveUp \/ Finish \/ Returned \/ UNCHANGED vars =>
        UNCHANGED <<chain, stable, daemon, chain_tip>>
  BY DEF HeightFails, ChunkArrives, ChunkFails, GiveUp, Finish, Returned, vars, toolVars, chainVars
<1>7. QED
  BY <1>1, <1>3, <1>4, <1>5, <1>6 DEF Next, Fetch

\* main.cpp:190-239: the many calls of the fetch add up to one reading of the chain, as
\* long as no block that was asked for is replaced.
THEOREM FetchReadsAtOnce == Spec => []FetchIsSnapshot
<1>1. Init => TipIsBlock
  BY InitInv, TypeFacts DEF Init, Inv, TipIsBlock
<1>2. Inv /\ TipIsBlock => FetchIsSnapshot
  <2>1. SUFFICES ASSUME Inv, TipIsBlock, daemon # "confused", pc = "done", chain_tip < stable
                 PROVE  chain_tip < Len(chain) /\ offsets = SubSeq(chain, FirstHeight + 1, chain_tip + 1)
    BY DEF FetchIsSnapshot
  <2>2. /\ chain \in Seq(Nat) /\ Len(chain) \in Nat /\ offsets \in Seq(Nat) /\ chain_tip \in Nat
        /\ FirstHeight \in Nat /\ stable \in Int
    BY <2>1, TypeFacts DEF Inv
  <2>3. chain_tip < Len(chain)
    BY <2>1 DEF TipIsBlock
  <2>4. Len(offsets) = Larger((chain_tip + 1) - FirstHeight, 0)
    <3>1. Len(offsets) = Larger(chain_tip + 1 - FirstHeight, 0)
      BY <2>1, AllHeights DEF OneValuePerHeight
    <3>2. chain_tip + 1 - FirstHeight = (chain_tip + 1) - FirstHeight
      BY <2>2
    <3>3. QED
      BY <3>1, <3>2
  <2> DEFINE m == FirstHeight + 1
             n == chain_tip + 1
             part == SubSeq(chain, m, n)
  <2>5. m \in Nat \ {0} /\ n \in Nat /\ n <= Len(chain)
    BY <2>2, <2>3
  <2>6. /\ part \in Seq(Nat) /\ Len(part) = Larger(n + 1 - m, 0)
        /\ \A i \in 1 .. Len(part) : m + i - 1 <= n /\ part[i] = chain[m + i - 1]
    BY <2>2, <2>5, PartOf
  <2>7. Len(part) = Len(offsets)
    BY <2>2, <2>4, <2>6 DEF m, n
  <2>8. ASSUME NEW i \in 1 .. Len(part) PROVE part[i] = offsets[i]
    <3>1. m + i - 1 = FirstHeight + i /\ FirstHeight + i <= chain_tip + 1 /\ i \in Nat
      BY <2>2, <2>6 DEF m, n
    <3>2. i \in DOMAIN offsets
      BY <2>2, <2>7
    <3>3. FirstHeight + i - 1 < stable
      BY <2>1, <2>2, <3>1
    <3>4. offsets[i] = chain[FirstHeight + i]
      BY <2>1, <3>2, <3>3 DEF Inv, ValueBook
    <3>5. QED
      BY <2>6, <3>1, <3>4
  <2> HIDE DEF part, m, n
  <2>9. part = offsets
    <3>1. part \in Seq(Nat) /\ offsets \in Seq(Nat) /\ Len(part) = Len(offsets)
      BY <2>2, <2>6, <2>7
    <3>2. \A i \in 1 .. Len(part) : part[i] = offsets[i]
      BY <2>8
    <3>3. QED
      BY <3>1, <3>2
  <2>10. QED
    BY <2>3, <2>9 DEF part, m, n
<1>3. QED
  BY <1>1, <1>2, AlwaysInv, NextTipIsBlock, PTL DEF Spec

----------------------------------------------------------------------------
(* The note to the user, "RCT outputs start at height ... no earlier blocks". *)

\* When the windows start no later than the network's RingCT outputs, the note is right:
\* there is no output before the height it names.  (Else the blocks from RctStart on are
\* before it, and the note denies their outputs.)
NoteIsRight ==
  Start <= RctStart /\ real_start \in DOMAIN chain => chain[real_start] = 0

NoteBook ==
  /\ real_start \in {0, StartHeight(Start)}
  /\ EarlyBlocks(chain)

LEMMA NextNoteBook == Inv /\ NoteBook /\ [Next]_vars => NoteBook'
<1>1. SUFFICES ASSUME Inv, NoteBook, [Next]_vars PROVE NoteBook'
  OBVIOUS
<1>2. /\ chain \in Seq(Nat) /\ Len(chain) \in Nat /\ Len(chain) > 0 /\ Inv
  BY <1>1, TypeFacts DEF Inv
<1>3. CASE ChainChanges
  <2>1. real_start' = real_start
    BY <1>3 DEF ChainChanges, toolVars
  <2>2. ChainBook /\ (Grow \/ Reorg) /\ EarlyBlocks(chain)
    BY <1>1, <1>2, <1>3 DEF ChainChanges, Inv, TypeInv, NoteBook
  <2>3. EarlyBlocks(chain')
    BY <2>2, EarlyStep
  <2>4. QED
    BY <1>1, <2>1, <2>3 DEF NoteBook, StartHeight
<1>4. CASE ChunkArrives
  <2>1. chain' = chain /\ real_start' = IF from_height = Start THEN StartHeight(from_height) ELSE real_start
    BY <1>4 DEF ChunkArrives, chainVars
  <2>2. QED
    BY <1>1, <2>1 DEF NoteBook, StartHeight
<1>5. CASE UNCHANGED <<chain, real_start>>
  BY <1>1, <1>5 DEF NoteBook, StartHeight
<1>6. FetchHeight \/ HeightFails \/ ChunkFails \/ GiveUp \/ Finish \/ Returned \/ UNCHANGED vars =>
        UNCHANGED <<chain, real_start>>
  BY DEF FetchHeight, HeightFails, ChunkFails, GiveUp, Finish, Returned, vars, toolVars, chainVars
<1>7. QED
  BY <1>1, <1>3, <1>4, <1>5, <1>6 DEF Next, Fetch

\* main.cpp:234-236, for any chain that grows and is replaced, and any answers: the note is
\* right wherever the first window is not later than the network's first RingCT outputs.
THEOREM NoteHoldsFromStart == Spec => []NoteIsRight
<1>1. Init => NoteBook
  BY EarlyBlocksAssumption DEF Init, ChainInit, NoteBook, EarlyBlocks
<1>2. Inv /\ NoteBook => NoteIsRight
  <2>1. SUFFICES ASSUME Inv, NoteBook, Start <= RctStart, real_start \in DOMAIN chain
                 PROVE  chain[real_start] = 0
    BY DEF NoteIsRight
  <2>2. real_start # 0
    BY <2>1, TypeFacts DEF Inv
  <2>3. real_start = RctStart
    BY <2>1, <2>2, StartAssumption, RctStartAssumption DEF NoteBook, StartHeight, Larger
  <2>4. QED
    BY <2>1, <2>3, RctStartAssumption DEF NoteBook, EarlyBlocks
<1>3. QED
  BY <1>1, <1>2, AlwaysInv, NextNoteBook, PTL DEF Spec

----------------------------------------------------------------------------
(* The work left.                                                          *)

\* The windows still to fetch: each takes MinTry heights at least, or all that are left.
WindowsFor(heights) == (heights + MinTry - 1) \div MinTry
HeightsLeft == Larger(chain_tip + 1 - from_height, 0)

\* How many steps the fetch can still take: for a window MaxAttempts failures and a success.
StepsLeft ==
  [height |-> WindowsFor(Word) * (MaxAttempts + 1) + MaxAttempts + 2,
   window |-> WindowsFor(HeightsLeft) * (MaxAttempts + 1) + (MaxAttempts - attempt) + 1,
   done   |-> 0,
   failed |-> 0][pc]

\* A window that takes MinTry heights, or all that are left, leaves one window fewer.
LEMMA OneWindowLess ==
  ASSUME NEW m \in Nat \ {0}, NEW a \in Nat, NEW b \in Nat, a > 0, b = 0 \/ b + m <= a
  PROVE  (b + m - 1) \div m + 1 <= (a + m - 1) \div m
<1>1. PICK q \in Nat, r \in 0 .. m - 1 : b + m - 1 = m * q + r /\ q = (b + m - 1) \div m
  OBVIOUS
<1>2. PICK p \in Nat, s \in 0 .. m - 1 : a + m - 1 = m * p + s /\ p = (a + m - 1) \div m
  OBVIOUS
<1>3. CASE b = 0
  <2>1. q = 0
    BY <1>1, <1>3
  <2>2. p >= 1
    <3>1. a + m - 1 >= m
      OBVIOUS
    <3>2. m * p + s >= m /\ s < m
      BY <1>2, <3>1
    <3>3. p # 0
      BY <3>2
    <3>4. QED
      BY <3>3
  <2>3. QED
    BY <1>1, <1>2, <2>1, <2>2
<1>4. CASE b + m <= a
  <2>1. m * (q + 1) < m * (p + 1)
    <3>1. m * (q + 1) = m * q + m /\ m * (p + 1) = m * p + m
      OBVIOUS
    <3>2. m * q \in Nat /\ m * p \in Nat
      OBVIOUS
    <3>3. QED
      BY <1>1, <1>2, <1>4, <3>1, <3>2
  <2>2. q + 1 < p + 1
    BY <2>1
  <2>3. QED
    BY <1>1, <1>2, <2>2
<1>5. QED
  BY <1>3, <1>4

\* The budget as numbers, for whatever happens: with m = MaxAttempts, w windows before and
\* v after.
LEMMA OneShareLess ==
  ASSUME NEW m \in Nat, NEW v \in Nat, NEW w \in Nat, v + 1 <= w
  PROVE  v * (m + 1) + (m + 1) <= w * (m + 1)
<1>1. PICK k \in Nat : w = (v + 1) + k
  <2>1. w - (v + 1) \in Nat /\ w = (v + 1) + (w - (v + 1))
    OBVIOUS
  <2>2. QED
    BY <2>1
<1>2. w * (m + 1) = v * (m + 1) + (m + 1) + k * (m + 1) /\ k * (m + 1) \in Nat
  BY <1>1
<1>3. v * (m + 1) \in Nat
  OBVIOUS
<1>4. QED
  BY <1>2, <1>3

LEMMA MoreWindows ==
  ASSUME NEW a \in Nat, NEW b \in Nat, b <= a
  PROVE  WindowsFor(a) \in Nat /\ WindowsFor(b) <= WindowsFor(a)
<1> DEFINE m == MinTry
<1>1. m \in Nat \ {0}
  BY ChunkAssumption
<1> HIDE DEF m
<1>2. PICK q \in Nat, r \in 0 .. m - 1 : b + m - 1 = m * q + r /\ q = (b + m - 1) \div m
  BY <1>1 DEF m
<1>3. PICK p \in Nat, s \in 0 .. m - 1 : a + m - 1 = m * p + s /\ p = (a + m - 1) \div m
  BY <1>1 DEF m
<1>4. q <= p
  <2>1. m * q < m * (p + 1)
    <3>1. m * (p + 1) = m * p + m /\ m * q \in Nat /\ m * p \in Nat
      BY <1>1
    <3>2. QED
      BY <1>1, <1>2, <1>3, <3>1
  <2>2. q < p + 1
    BY <1>1, <2>1
  <2>3. QED
    BY <2>2
<1>5. WindowsFor(a) = p /\ WindowsFor(b) = q
  BY <1>2, <1>3 DEF WindowsFor, m
<1>6. QED
  BY <1>4, <1>5

Counted == StepsLeft \in Nat

\* What the budget is made of, where the fetch is.
Budget(left, windows) ==
  /\ windows \in Nat
  /\ pc = "height" => left = WindowsFor(Word) * (MaxAttempts + 1) + MaxAttempts + 2
  /\ pc = "window" => left = windows * (MaxAttempts + 1) + (MaxAttempts - attempt) + 1
  /\ pc \in {"done", "failed"} => left = 0

LEMMA BudgetIs == Inv => Budget(StepsLeft, WindowsFor(HeightsLeft))
<1>1. SUFFICES ASSUME Inv PROVE Budget(StepsLeft, WindowsFor(HeightsLeft))
  OBVIOUS
<1>2. HeightsLeft \in Nat
  <2>1. chain_tip \in Nat /\ from_height \in Nat
    BY <1>1, TypeFacts DEF Inv
  <2>2. QED
    BY <2>1 DEF HeightsLeft, Larger
<1>3. WindowsFor(HeightsLeft) \in Nat
  BY <1>2, MoreWindows
<1>4. QED
  BY <1>3 DEF StepsLeft, Budget

LEMMA StepsAreCounted == Inv => Counted
<1>1. SUFFICES ASSUME Inv PROVE Counted
  OBVIOUS
<1>2. Budget(StepsLeft, WindowsFor(HeightsLeft))
  BY <1>1, BudgetIs
<1>3. PICK w \in Nat : w = WindowsFor(HeightsLeft)
  BY <1>2, Zenon DEF Budget
<1>4. PICK v \in Nat : v = WindowsFor(Word)
  <2>1. Word \in Nat
    BY WordAssumption
  <2>2. QED
    BY <2>1, MoreWindows
<1>5. MaxAttempts \in Nat /\ attempt \in 0 .. MaxAttempts
  BY <1>1, AttemptsAssumption DEF Inv, TypeInv, TypeOK
<1>6. /\ w * (MaxAttempts + 1) + (MaxAttempts - attempt) + 1 \in Nat
      /\ v * (MaxAttempts + 1) + MaxAttempts + 2 \in Nat
  BY <1>5
<1>7. pc \in {"height", "window", "done", "failed"}
  BY <1>1 DEF Inv, TypeInv, TypeOK
<1>8. QED
  BY <1>2, <1>3, <1>4, <1>6, <1>7 DEF Budget, Counted

\* Every step of the fetch leaves fewer, and the chain takes none of them.
LEMMA StepsFall ==
  ASSUME Inv, Inv', Next
  PROVE  IF Fetch THEN StepsLeft' < StepsLeft ELSE StepsLeft' = StepsLeft
<1> DEFINE m == MaxAttempts
<1>1. /\ Budget(StepsLeft, WindowsFor(HeightsLeft))
      /\ Budget(StepsLeft, WindowsFor(HeightsLeft))'
  BY BudgetIs, PTL
<1>2. StepsLeft \in Nat /\ StepsLeft' \in Nat
  <2>1. Counted /\ Counted'
    BY StepsAreCounted, PTL
  <2>2. QED
    BY <2>1 DEF Counted
<1>3. PICK w \in Nat, v \in Nat : w = WindowsFor(HeightsLeft) /\ v = WindowsFor(HeightsLeft)'
  BY <1>1, Zenon DEF Budget
<1>4. PICK old \in Nat, new \in Nat : old = StepsLeft /\ new = StepsLeft'
  BY <1>2
<1>5. m \in Nat /\ m # 0 /\ attempt \in 0 .. m /\ attempt' \in 0 .. m
  BY AttemptsAssumption DEF Inv, TypeInv, TypeOK
<1>6. chain_tip \in Nat /\ from_height \in Nat /\ try_size \in MinTry .. Chunk /\ MinTry \in Nat \ {0}
  BY ChunkAssumption DEF Inv, TypeInv, TypeOK
<1>7. ASSUME pc = "window" PROVE old = w * (m + 1) + (m - attempt) + 1
  BY <1>1, <1>3, <1>4, <1>7, Zenon DEF Budget
<1>8. ASSUME pc' = "window" PROVE new = v * (m + 1) + (m - attempt') + 1
  BY <1>1, <1>3, <1>4, <1>8, Zenon DEF Budget
<1>9. ASSUME pc' \in {"done", "failed"} PROVE new = 0
  BY <1>1, <1>3, <1>4, <1>9, Zenon DEF Budget
<1>10. ASSUME UNCHANGED <<chain_tip, from_height>> PROVE v = w
  BY <1>3, <1>10 DEF HeightsLeft
<1>11. ASSUME pc = "window", pc' \in {"done", "failed"} PROVE new < old
  <2>1. w * (m + 1) \in Nat
    BY <1>5
  <2>2. QED
    BY <1>5, <1>7, <1>9, <1>11, <2>1
<1>12. ASSUME FetchHeight PROVE new < old
  <2>1. pc = "height" /\ pc' = "window" /\ from_height' = from_height /\ attempt' = attempt
    BY <1>12 DEF FetchHeight
  <2>2. PICK most \in Nat : most = WindowsFor(Word)
    <3>1. Word \in Nat
      BY WordAssumption
    <3>2. QED
      BY <3>1, MoreWindows
  <2>3. old = most * (m + 1) + m + 2
    BY <1>1, <1>4, <2>1, <2>2, Zenon DEF Budget
  <2>4. v <= most
    <3>1. PICK h : chain_tip' = Wrap(h - 1) /\ h \in Nat
      <4>1. PICK r \in HeightReplies : ~FetchChainHeightThrows(r) /\ chain_tip' = TipOf(r.values[1])
        BY <1>12 DEF FetchHeight
      <4>2. \A x \in Failures(Heights(0)) : FetchChainHeightThrows(x)
        BY FailedHeight
      <4>3. r \in {Heights(Len(chain)), Heights(0)}
        BY <4>1, <4>2 DEF HeightReplies
      <4>4. r.values[1] \in {Len(chain), 0}
        BY <4>3 DEF Heights, Reply
      <4>5. Len(chain) \in Nat
        BY TypeFacts DEF Inv
      <4>6. QED
        BY <4>1, <4>4, <4>5 DEF TipOf
    <3>2. Wrap(h - 1) \in 0 .. Word - 1 /\ Word \in Nat
      <4>1. h - 1 \in Int /\ Word \in Nat /\ Word > 0
        BY <3>1, WordAssumption
      <4>2. (h - 1) % Word \in 0 .. Word - 1
        BY <4>1
      <4>3. QED
        BY <4>1, <4>2 DEF Wrap
    <3>3. HeightsLeft' \in Nat /\ HeightsLeft' <= Word
      <4>1. PICK t \in 0 .. Word - 1 : chain_tip' = t
        BY <3>1, <3>2
      <4>2. HeightsLeft' = Larger(t + 1 - from_height, 0)
        BY <2>1, <4>1 DEF HeightsLeft
      <4>3. Larger(t + 1 - from_height, 0) \in Nat /\ Larger(t + 1 - from_height, 0) <= Word
        BY <1>6, <3>2, <4>1 DEF Larger
      <4>4. QED
        BY <4>2, <4>3
    <3>4. WindowsFor(HeightsLeft') <= WindowsFor(Word)
      BY <3>2, <3>3, MoreWindows
    <3>5. QED
      BY <1>3, <2>2, <3>4
  <2>5. v * (m + 1) <= most * (m + 1)
    BY <1>5, <2>4
  <2>6. new = v * (m + 1) + (m - attempt') + 1
    BY <1>8, <2>1
  <2>7. PICK x \in Nat, y \in Nat, t \in 0 .. m :
          x = v * (m + 1) /\ y = most * (m + 1) /\ t = attempt'
    BY <1>5
  <2>8. x <= y /\ new = x + (m - t) + 1 /\ old = y + m + 2
    BY <2>3, <2>5, <2>6, <2>7
  <2>9. m \in Nat
    BY <1>5
  <2> HIDE DEF m
  <2>10. QED
    BY <2>8, <2>9
<1>13. ASSUME HeightFails PROVE new < old
  <2>1. pc = "height" /\ pc' = "failed"
    BY <1>13 DEF HeightFails
  <2>2. PICK most \in Nat : most = WindowsFor(Word)
    <3>1. Word \in Nat
      BY WordAssumption
    <3>2. QED
      BY <3>1, MoreWindows
  <2>3. old = most * (m + 1) + m + 2
    BY <1>1, <1>4, <2>1, <2>2, Zenon DEF Budget
  <2>4. most * (m + 1) \in Nat /\ new = 0
    BY <1>5, <1>9, <2>1
  <2>5. QED
    BY <1>5, <2>3, <2>4
<1>14. ASSUME ChunkArrives PROVE new < old
  <2>1. /\ pc = "window" /\ pc' = "window" /\ from_height <= chain_tip
        /\ chain_tip' = chain_tip /\ from_height' = WindowEnd + 1 /\ attempt' = 0
    BY <1>14 DEF ChunkArrives, Fetching, NextFrom
  <2> DEFINE a == HeightsLeft
             b == HeightsLeft'
             n == MinTry
  <2>2. a \in Nat /\ a > 0 /\ b \in Nat /\ (b = 0 \/ b + n <= a)
    <3>1. PICK t \in Nat, f \in Nat, s \in Nat :
            t = chain_tip /\ f = from_height /\ s = try_size /\ n <= s /\ f <= t
      BY <1>6, <2>1, ChunkAssumption
    <3>2. from_height' = Smaller(f + s - 1, t) + 1
      BY <2>1, <3>1 DEF WindowEnd
    <3>3. a = Larger(t + 1 - f, 0) /\ b = Larger(t + 1 - (Smaller(f + s - 1, t) + 1), 0)
      BY <2>1, <3>1, <3>2 DEF HeightsLeft
    <3> HIDE DEF a, b
    <3>4. QED
      BY <1>6, <3>1, <3>3 DEF Larger, Smaller
  <2> HIDE DEF a, b
  <2>3. v + 1 <= w
    <3>1. n \in Nat \ {0}
      BY <1>6
    <3> HIDE DEF n
    <3>2. (b + n - 1) \div n + 1 <= (a + n - 1) \div n
      BY <2>2, <3>1, OneWindowLess
    <3>3. v = (b + n - 1) \div n /\ w = (a + n - 1) \div n
      BY <1>3 DEF WindowsFor, a, b, n
    <3>4. QED
      BY <3>2, <3>3
  <2>4. v * (m + 1) + (m + 1) <= w * (m + 1)
    BY <1>5, <2>3, OneShareLess
  <2>5. new = v * (m + 1) + (m - attempt') + 1 /\ old = w * (m + 1) + (m - attempt) + 1
    BY <1>7, <1>8, <2>1
  <2>6. PICK x \in Nat, y \in Nat : x = v * (m + 1) /\ y = w * (m + 1)
    BY <1>5
  <2>7. x + (m + 1) <= y /\ new = x + (m - 0) + 1 /\ old = y + (m - attempt) + 1
    BY <2>1, <2>4, <2>5, <2>6
  <2>8. QED
    BY <1>5, <2>6, <2>7
<1>15. ASSUME ChunkFails PROVE new < old
  <2>1. /\ pc = "window" /\ pc' = "window" /\ UNCHANGED <<chain_tip, from_height>>
        /\ attempt' = attempt + 1
    BY <1>15 DEF ChunkFails, Fetching, NextAttempt
  <2>2. new = w * (m + 1) + (m - (attempt + 1)) + 1 /\ old = w * (m + 1) + (m - attempt) + 1
    BY <1>7, <1>8, <1>10, <2>1
  <2>3. w * (m + 1) \in Nat
    BY <1>5
  <2>4. QED
    BY <1>5, <2>2, <2>3
<1>16. ASSUME GiveUp \/ Finish PROVE new < old
  BY <1>11, <1>16 DEF GiveUp, Finish
<1>17. ASSUME ChainChanges \/ Returned PROVE new = old /\ ~(new < old)
  <2>1. UNCHANGED toolVars
    BY <1>17 DEF ChainChanges, Returned, vars
  <2>2. new = old
    BY <1>4, <2>1 DEF toolVars, StepsLeft, HeightsLeft
  <2>3. QED
    BY <2>2
<1>18. Fetch => new < old
  BY <1>12, <1>13, <1>14, <1>15, <1>16 DEF Fetch
<1>19. Fetch \/ (ChainChanges \/ Returned)
  BY DEF Next
<1>20. QED
  BY <1>4, <1>17, <1>18, <1>19

\* main.cpp:158-232, for any window sizes, heights and answers, also when a height of 0
\* makes the tip wrap: each call that fails or succeeds brings the fetch nearer its end,
\* which at the latest comes after MaxAttempts failures and a success for every MinTry
\* heights up to the tip that was read; the growth of the chain does not put it off.
THEOREM EveryCallCounts ==
  Spec => /\ [](StepsLeft \in Nat)
          /\ [][IF Fetch THEN StepsLeft' < StepsLeft ELSE StepsLeft' = StepsLeft]_vars
<1>1. Inv => StepsLeft \in Nat
  BY StepsAreCounted DEF Counted
<1>2. Inv /\ Inv' /\ [Next]_vars
        => [IF Fetch THEN StepsLeft' < StepsLeft ELSE StepsLeft' = StepsLeft]_vars
  BY StepsFall
<1>3. QED
  BY <1>1, <1>2, AlwaysInv, PTL DEF Spec

=============================================================================
