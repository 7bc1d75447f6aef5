------------------------ MODULE DecoySelection_proofs ------------------------
(***************************************************************************)
(* Theorems about DecoySelection, for every list of sources, every size of *)
(* the pool and of the ring, and every set of outputs that can be picked.  *)
(***************************************************************************)
EXTENDS DecoySelection, SequenceTheorems, FiniteSetTheorems, WellFoundedInduction, TLAPS

----------------------------------------------------------------------------
(* The operators.                                                          *)

\* The shares of the pre-fork and post-fork buckets never add up to more than
\* the pool, so normal_draw (a size_t) does not wrap below zero, and they leave
\* at least half the pool to the full chain.
LEMMA ShareBounds ==
  /\ Share(334) \in Nat /\ Share(678) \in Nat
  /\ 2 * (Share(334) + Share(334)) <= PoolSize
  /\ 2 * Share(678) <= PoolSize
BY DecoysAssumption DEF Share

\* Split gives each bucket a size, and the sizes add up to the pool.
LEMMA SplitSizes ==
  ASSUME NEW s \in Segregations, NEW pre \in BOOLEAN
  PROVE  /\ Split(s, pre) \in [SlotTypes -> 0 .. PoolSize]
         /\ Split(s, pre)["PRE_FORK"] + Split(s, pre)["POST_FORK"]
              + Split(s, pre)["NORMAL"] = PoolSize
         /\ 2 * Split(s, pre)["NORMAL"] >= PoolSize
<1> DEFINE mitigated  == s.after /\ s.mitigate /\ ~Restricted(s, pre)
           preDraw    == IF mitigated /\ pre THEN Share(334) ELSE 0
           postDraw   == IF mitigated /\ ~s.shortly
                         THEN Share(IF pre THEN 334 ELSE 678) ELSE 0
<1>1. /\ preDraw \in Nat /\ postDraw \in Nat
      /\ 2 * (preDraw + postDraw) <= PoolSize
  BY ShareBounds, DecoysAssumption
<1>2. /\ Split(s, pre)["PRE_FORK"] = preDraw
      /\ Split(s, pre)["POST_FORK"] = postDraw
      /\ Split(s, pre)["NORMAL"] = PoolSize - preDraw - postDraw
      /\ Split(s, pre) = [t \in SlotTypes |-> Split(s, pre)[t]]
  BY DEF Split, SlotTypes
<1> HIDE DEF preDraw, postDraw
<1>3. \A t \in SlotTypes : Split(s, pre)[t] \in 0 .. PoolSize
  BY <1>1, <1>2, DecoysAssumption DEF SlotTypes
<1> QED
  BY <1>1, <1>2, <1>3, DecoysAssumption


\* Arithmetic on values the SMT encoding does not see to be integers.
LEMMA AtMost ==
  ASSUME NEW a \in Nat, NEW b \in Nat, NEW c \in Nat, NEW d \in Nat,
         a <= b + c, b + c <= d
  PROVE  a <= d
OBVIOUS

\* A function on 1 .. n is a sequence of length n.
LEMMA FunctionIsSeq ==
  ASSUME NEW S, NEW n \in Nat, NEW f \in [1 .. n -> S]
  PROVE  f \in Seq(S) /\ Len(f) = n
<1>1. f \in Seq(S)
  <2>1. Seq(S) = UNION {[1 .. m -> S] : m \in Nat}
    BY SeqDef
  <2> QED
    BY <2>1, Zenon
<1>2. DOMAIN f = 1 .. n /\ DOMAIN f = 1 .. Len(f) /\ Len(f) \in Nat
  BY <1>1, LenProperties
<1> QED
  BY <1>1, <1>2

----------------------------------------------------------------------------
(* Type correctness.  TypeOK alone is not inductive: that the pool stays    *)
(* within PoolSize needs the bookkeeping of draw_pool_slot, and that the    *)
(* counters stay in range needs the bookkeeping of the scan.                *)

\* The candidates the buckets before the current one may have contributed.
DrawnBefore ==
  (IF bucket > 1 THEN plan["PRE_FORK"] ELSE 0) + (IF bucket > 2 THEN plan["POST_FORK"] ELSE 0)

\* Where the loop body has not started or is over, its locals are fresh.
Idle == {"startup", "real_check", "fee", "open", "write"}

DrawBook ==
  /\ plan["PRE_FORK"] + plan["POST_FORK"] + plan["NORMAL"] <= PoolSize
  /\ pc \in Idle => pool = <<>> /\ got = 0 /\ tries = 0 /\ bucket = 1
  /\ pc = "draw" => /\ got <= plan[Bucket]
                    /\ Len(pool) <= DrawnBefore + got
  /\ pc \in {"draw", "pool_status", "scan"} => 2 * plan["NORMAL"] >= PoolSize

ScanBook ==
  /\ pc \in Idle \cup {"draw", "pool_status"} =>
       /\ status = <<>> /\ at = 0 /\ confirmed = <<>>
       /\ accepted = NoPlan /\ lockedSkipped = 0
  /\ pc \in {"scan", "final_details"} => Len(status) = Len(pool)
  /\ pc = "final_details" => Len(confirmed) = NumDecoys
  /\ Len(confirmed) + lockedSkipped = at
  /\ \A t \in SlotTypes : accepted[t] <= Len(confirmed)

TypeInv ==
  TypeOK /\ DrawBook /\ ScanBook /\ (pc \notin {"startup", "exited"} => seg \in Segregations)

LEMMA BucketType ==
  ASSUME bucket \in 1 .. Len(BucketOrder)
  PROVE  /\ bucket \in {1, 2, 3}
         /\ Bucket \in SlotTypes
         /\ bucket = 1 => Bucket = "PRE_FORK"
         /\ bucket = 2 => Bucket = "POST_FORK"
         /\ bucket = 3 => Bucket = "NORMAL"
<1>1. Len(BucketOrder) = 3
  BY DEF BucketOrder
<1>2. bucket \in {1, 2, 3}
  BY <1>1
<1> QED
  BY <1>2 DEF Bucket, BucketOrder, SlotTypes

LEMMA SegType ==
  Segregations \subseteq [after : BOOLEAN, shortly : BOOLEAN, segregate : BOOLEAN,
                          mitigate : BOOLEAN, till : Nat]
<1>1. Segregations \subseteq [after : PastFork, shortly : BOOLEAN, segregate : BOOLEAN,
                              mitigate : BOOLEAN, till : TillForks \cup {0}]
  BY Zenon DEF Segregations
<1>2. PastFork \subseteq BOOLEAN /\ TillForks \cup {0} \subseteq Nat
  BY PastForkAssumption, TillForksAssumption
<1> QED
  BY <1>1, <1>2

LEMMA InitTypeInv == Init => TypeInv
<1> SUFFICES ASSUME Init PROVE TypeInv
  OBVIOUS
<1> USE DEF Init
<1>1. NoPlan \in [SlotTypes -> {0}] /\ \A t \in SlotTypes : NoPlan[t] = 0
  BY DEF NoPlan
<1>2. TypeOK
  <2>1. src \in 1 .. Len(Sources)
    BY SourcesAssumption, EmptySeq, LenProperties
  <2>2. plan \in [SlotTypes -> 0 .. PoolSize] /\ accepted \in [SlotTypes -> 0 .. NumDecoys]
    BY <1>1, DecoysAssumption
  <2>3. bucket \in 1 .. Len(BucketOrder)
    BY DEF BucketOrder
  <2>4. isPreFork \in BOOLEAN
    BY Zenon
  <2> QED
    BY <2>1, <2>2, <2>3, <2>4, DecoysAssumption, TriesAssumption DEF TypeOK, Places
<1>3. DrawBook
  BY <1>1, DecoysAssumption DEF DrawBook, Idle, SlotTypes
<1>4. ScanBook
  BY <1>1 DEF ScanBook, Idle
<1> QED
  BY <1>2, <1>3, <1>4 DEF TypeInv

LEMMA NextTypeInv == TypeInv /\ [Next]_vars => TypeInv'
<1> SUFFICES ASSUME TypeInv, [Next]_vars PROVE TypeInv'
  OBVIOUS
<1> USE DecoysAssumption, TriesAssumption DEF TypeInv, TypeOK, Places
<1>a. /\ TypeOK /\ DrawBook /\ ScanBook
  BY DEF TypeInv
<1>0. /\ NoPlan \in [SlotTypes -> 0 .. PoolSize] /\ NoPlan \in [SlotTypes -> 0 .. NumDecoys]
      /\ \A t \in SlotTypes : NoPlan[t] = 0
  BY DEF NoPlan
<1>1. CASE Startup
  <2>1. seg' \in Segregations
    BY <1>1 DEF Startup
  <2>2. seg' \in [after : BOOLEAN, shortly : BOOLEAN, segregate : BOOLEAN,
                  mitigate : BOOLEAN, till : Nat]
    BY <2>1, SegType
  <2> QED
    BY <1>1, <2>1, <2>2
       DEF Startup, drawVars, scanVars, outVars, DrawBook, ScanBook, Idle, DrawnBefore, Bucket
<1>2. CASE CheckReal
  <2>1. isPreFork' \in BOOLEAN /\ plan' = Split(seg, isPreFork')
    BY <1>2 DEF CheckReal
  <2>2. /\ plan' \in [SlotTypes -> 0 .. PoolSize]
        /\ plan'["PRE_FORK"] + plan'["POST_FORK"] + plan'["NORMAL"] = PoolSize
        /\ 2 * plan'["NORMAL"] >= PoolSize
    BY <1>2, <2>1, SplitSizes DEF CheckReal
  <2>3. TypeOK'
    BY <1>2, <2>1, <2>2 DEF CheckReal, scanVars, outVars
  <2>4. DrawBook'
    BY <1>2, <2>2, BucketType DEF CheckReal, DrawBook, Idle, DrawnBefore, Bucket, BucketOrder, SlotTypes
  <2>5. ScanBook'
    BY <1>2 DEF CheckReal, ScanBook, Idle, scanVars
  <2> QED
    BY <1>2, <2>3, <2>4, <2>5 DEF CheckReal
<1>3. CASE RpcFails
  <2>1. TypeOK'
    BY <1>3 DEF RpcFails, Stop, drawVars, scanVars, outVars
  <2>2. DrawBook' /\ ScanBook'
    BY <1>3 DEF RpcFails, Stop, drawVars, scanVars, outVars, DrawBook, ScanBook, Idle,
                DrawnBefore, Bucket
  <2> QED
    BY <1>3, <2>1, <2>2 DEF RpcFails, Stop, drawVars, scanVars, outVars
<1>4. CASE DrawCandidate
  <2>1. Bucket \in SlotTypes /\ plan[Bucket] \in 0 .. PoolSize /\ Bucket' = Bucket
    BY <1>4, BucketType DEF DrawCandidate, Bucket
  <2>2. PICK p \in Drawable(Bucket, seg) :
          LET passed == PassedOver(p, Real, pool)
          IN  /\ tries' = CountTry(tries, passed)
              /\ got'   = IF passed THEN got ELSE got + 1
              /\ pool'  = IF passed THEN pool
                          ELSE Append(pool, [index |-> p, bucket |-> Bucket])
    BY <1>4 DEF DrawCandidate
  <2>3. [index |-> p, bucket |-> Bucket] \in Candidates
    BY <2>1, PickableAssumption, NumOutsAssumption DEF Drawable, Candidates
  <2>4. pool' \in Seq(Candidates) /\ Len(pool') <= Len(pool) + (got' - got)
    BY <2>2, <2>3, AppendProperties
  <2>5. tries' \in 0 .. MaxLocalTries /\ got' \in 0 .. PoolSize /\ got' <= plan[Bucket]
    BY <1>4, <2>1, <2>2 DEF DrawCandidate, WantsMore, CountTry
  <2>6. Len(pool') <= DrawnBefore + got'
    <3>1. Len(pool) <= DrawnBefore + got /\ Len(pool) \in Nat /\ Len(pool') \in Nat
      BY <1>4, <2>4, LenProperties DEF DrawCandidate, DrawBook
    <3>2. DrawnBefore \in Nat
      BY DEF DrawnBefore, SlotTypes
    <3>3. got \in Nat /\ got' \in Nat
      BY <2>5
    <3> HIDE DEF TypeInv, TypeOK, Places
    <3> QED
      BY <2>4, <3>1, <3>2, <3>3
  <2>7. DrawnBefore' = DrawnBefore /\ DrawnBefore + got' <= PoolSize
    <3>1. bucket' = bucket /\ plan' = plan
      BY <1>4 DEF DrawCandidate
    <3>2. DrawnBefore + plan[Bucket] <= PoolSize
      BY BucketType DEF DrawBook, DrawnBefore, SlotTypes
    <3>3. DrawnBefore \in Nat
      BY DEF DrawnBefore, SlotTypes
    <3> QED
      BY <2>1, <2>5, <3>1, <3>2, <3>3 DEF DrawnBefore
  <2>8. TypeOK'
    <3>1. Len(pool') <= PoolSize
      <4>1. DrawnBefore \in Nat
        BY DEF DrawnBefore, SlotTypes
      <4>2. got \in Nat /\ got' \in Nat
        BY <2>5
      <4>3. PoolSize \in Nat
        BY DecoysAssumption
      <4>4. DrawnBefore + got' <= PoolSize /\ Len(pool') <= DrawnBefore + got'
        BY <2>6, <2>7
      <4>5. pool' \in Seq(Candidates) /\ Len(pool') \in Nat
        BY <2>4, LenProperties
      <4> QED
        BY <4>1, <4>2, <4>3, <4>4, <4>5, AtMost, Zenon
    <3>2. status = <<>> /\ at = 0 /\ Len(status) = 0
      BY <1>4 DEF DrawCandidate, ScanBook, Idle
    <3>3. Len(status) <= Len(pool')
      BY <2>4, <3>2, LenProperties
    <3> QED
      BY <1>4, <2>4, <2>5, <3>1, <3>3 DEF DrawCandidate, scanVars, outVars
  <2>9. DrawBook'
    BY <1>4, <2>1, <2>5, <2>6, <2>7 DEF DrawCandidate, DrawBook, Idle
  <2> QED
    BY <1>4, <2>8, <2>9 DEF DrawCandidate, ScanBook, Idle, scanVars
<1>5. CASE EndBucket
  <2>1. plan[Bucket] \in 0 .. PoolSize /\ got <= plan[Bucket] /\ Len(pool) <= DrawnBefore + got
    BY <1>5, BucketType DEF EndBucket, DrawBook
  <2>2. bucket \in {1, 2, 3} /\ bucket' \in {1, 2, 3} /\ bucket' \in 1 .. Len(BucketOrder)
    BY <1>5, BucketType DEF EndBucket, BucketOrder
  <2>3. pc' = "draw" => bucket < 3 /\ bucket' = bucket + 1
    BY <1>5, <2>2 DEF EndBucket, BucketOrder
  <2>4. pc' = "draw" => Len(pool') <= DrawnBefore' + got'
    BY <1>5, <2>1, <2>2, <2>3, BucketType DEF EndBucket, DrawnBefore, SlotTypes
  <2>5. TypeOK'
    BY <1>5, <2>2 DEF EndBucket, scanVars, outVars
  <2>6. Bucket' \in SlotTypes
    BY <2>2 DEF Bucket, BucketOrder, SlotTypes
  <2>7. DrawBook'
    BY <1>5, <2>4, <2>5, <2>6 DEF EndBucket, DrawBook, Idle
  <2> QED
    BY <1>5, <2>5, <2>7 DEF EndBucket, ScanBook, Idle, scanVars
<1>6. CASE FetchStatus
  <2>1. DOMAIN pool = 1 .. Len(pool) /\ Len(pool) \in Nat
    BY LenProperties
  <2>2. status' \in Seq(BOOLEAN) /\ Len(status') = Len(pool)
    <3>1. status' \in [1 .. Len(pool) -> BOOLEAN]
      BY <1>6, <2>1 DEF FetchStatus
    <3> QED
      BY <2>1, <3>1, FunctionIsSeq
  <2> QED
    BY <1>6, <2>1, <2>2 DEF FetchStatus, drawVars, outVars, DrawBook, ScanBook, Idle,
                            DrawnBefore, Bucket
<1>7. CASE ScanSlot
  <2>1. /\ Len(status) = Len(pool) /\ at \in Nat /\ at + 1 \in 1 .. Len(pool)
        /\ Len(confirmed) < NumDecoys
    BY <1>7, LenProperties DEF ScanSlot, ScanGoesOn, ScanBook
  <2>2. pool[at + 1] \in Candidates
    BY <2>1, ElementOfSeq
  <2>3. pool[at + 1].index \in Nat /\ pool[at + 1].bucket \in SlotTypes
    BY <2>2 DEF Candidates
  <2>4. /\ confirmed' \in Seq(Nat)
        /\ accepted' \in [SlotTypes -> Nat]
        /\ lockedSkipped' \in Nat
        /\ Len(confirmed') <= Len(confirmed) + 1
        /\ Len(confirmed') + lockedSkipped' = at'
        /\ \A t \in SlotTypes : accepted'[t] <= Len(confirmed')
    <3>0. /\ Len(confirmed) \in Nat /\ at' = at + 1
          /\ Len(confirmed) + lockedSkipped = at
          /\ \A t \in SlotTypes : accepted[t] \in Nat /\ accepted[t] <= Len(confirmed)
      BY <1>7, LenProperties DEF ScanSlot, ScanBook
    <3>1. CASE IsUsable(status[at + 1])
      <4> DEFINE b == pool[at + 1].bucket
      <4>1. /\ confirmed' = Append(confirmed, pool[at + 1].index)
            /\ accepted' = [accepted EXCEPT ![b] = @ + 1]
            /\ lockedSkipped' = lockedSkipped
        BY <1>7, <3>1 DEF ScanSlot
      <4>2. confirmed' \in Seq(Nat) /\ Len(confirmed') = Len(confirmed) + 1
        BY <2>3, <4>1, AppendProperties
      <4>3. b \in SlotTypes
        BY <2>3
      <4> HIDE DEF b
      <4>4. \A t \in SlotTypes : accepted'[t] = IF t = b THEN accepted[t] + 1 ELSE accepted[t]
        BY <4>1, <4>3
      <4>5. accepted' \in [SlotTypes -> Nat]
        BY <3>0, <4>1, <4>3
      <4>6. Len(confirmed') + lockedSkipped' = at' /\ lockedSkipped' \in Nat
        <5>1. Len(confirmed) \in Nat /\ lockedSkipped \in Nat
          BY <3>0
        <5>2. at' = at + 1 /\ Len(confirmed) + lockedSkipped = at
          BY <3>0
        <5>3. Len(confirmed') = Len(confirmed) + 1 /\ lockedSkipped' = lockedSkipped
          BY <4>1, <4>2
        <5> HIDE DEF TypeInv, TypeOK, Places
        <5> QED
          BY <5>1, <5>2, <5>3
      <4>7. \A t \in SlotTypes : accepted'[t] <= Len(confirmed')
        <5> SUFFICES ASSUME NEW t \in SlotTypes PROVE accepted'[t] <= Len(confirmed')
          OBVIOUS
        <5>1. accepted[t] \in Nat /\ accepted[t] <= Len(confirmed) /\ Len(confirmed) \in Nat
          BY <3>0
        <5>2. accepted'[t] \in {accepted[t], accepted[t] + 1}
          BY <4>4
        <5> QED
          BY <4>2, <5>1, <5>2
      <4> QED
        BY <4>2, <4>5, <4>6, <4>7
    <3>2. CASE ~IsUsable(status[at + 1])
      BY <1>7, <3>0, <3>2 DEF ScanSlot
    <3> QED
      BY <3>1, <3>2
  <2>5. Len(confirmed) \in Nat /\ Len(confirmed') \in Nat
    BY <2>4, LenProperties
  <2>6. Len(confirmed') <= NumDecoys /\ lockedSkipped' <= PoolSize
    <3>1. at' = at + 1
      BY <1>7 DEF ScanSlot
    <3> QED
      BY <2>1, <2>4, <2>5, <3>1, LenProperties
  <2>7. accepted' \in [SlotTypes -> 0 .. NumDecoys]
    <3> SUFFICES ASSUME NEW t \in SlotTypes PROVE accepted'[t] \in 0 .. NumDecoys
      BY <2>4
    <3> QED
      BY <2>4, <2>5, <2>6
  <2>8. TypeOK'
    <3>1. at' \in 0 .. Len(status') /\ Len(status') <= Len(pool')
      BY <1>7, <2>1, LenProperties DEF ScanSlot, drawVars
    <3>2. /\ lockedSkipped' \in 0 .. PoolSize /\ confirmed' \in Seq(Nat)
          /\ Len(confirmed') <= NumDecoys
      BY <2>4, <2>6
    <3>3. UNCHANGED <<pc, seg, src, isPreFork, plan, bucket, got, tries, pool, status, fee, file, exit>>
      BY <1>7 DEF ScanSlot, drawVars, outVars
    <3> QED
      BY <2>7, <3>1, <3>2, <3>3
  <2>9. DrawBook'
    BY <1>7 DEF ScanSlot, drawVars, DrawBook, Idle, DrawnBefore, Bucket
  <2>10. ScanBook'
    BY <1>7, <2>1, <2>4 DEF ScanSlot, drawVars, ScanBook, Idle
  <2> QED
    BY <1>7, <2>8, <2>9, <2>10 DEF ScanSlot
<1>8. CASE PoolTooShort
  <2>1. TypeOK'
    BY <1>8 DEF PoolTooShort, Stop, drawVars, scanVars, outVars
  <2>2. DrawBook' /\ ScanBook'
    BY <1>8 DEF PoolTooShort, Stop, drawVars, scanVars, outVars, DrawBook, ScanBook, Idle,
                DrawnBefore, Bucket
  <2> QED
    BY <1>8, <2>1, <2>2 DEF PoolTooShort, Stop, drawVars, scanVars, outVars
<1>9. CASE EnoughDecoys
  <2>1. Len(confirmed) = NumDecoys
    BY <1>9, LenProperties DEF EnoughDecoys, TooFew
  <2> QED
    BY <1>9, <2>1 DEF EnoughDecoys, drawVars, scanVars, outVars, DrawBook, ScanBook, Idle,
                      DrawnBefore, Bucket
<1>10. CASE BuildRing
  <2>1. src' \in 1 .. Len(Sources)
    BY <1>10, SourcesAssumption, LenProperties DEF BuildRing, MoreSources
  <2>2. Len(<<>>) = 0 /\ bucket' \in 1 .. Len(BucketOrder)
    BY <1>10 DEF BuildRing, BucketOrder
  <2>3. TypeOK'
    <3>1. isPreFork' \in BOOLEAN
      BY <1>10, Zenon DEF BuildRing
    <3> QED
      BY <1>10, <1>0, <2>1, <2>2, <3>1 DEF BuildRing
  <2>4. DrawBook' /\ ScanBook'
    <3>1. /\ plan' = NoPlan /\ accepted' = NoPlan /\ pc' \in Idle
          /\ pool' = <<>> /\ got' = 0 /\ tries' = 0 /\ bucket' = 1
          /\ status' = <<>> /\ at' = 0 /\ confirmed' = <<>> /\ lockedSkipped' = 0
      BY <1>10 DEF BuildRing, Idle
    <3>2. DrawBook'
      BY <1>0, <3>1 DEF DrawBook, Idle, SlotTypes
    <3> QED
      BY <1>0, <2>2, <3>1, <3>2 DEF ScanBook, Idle
  <2> QED
    BY <1>10, <2>3, <2>4 DEF BuildRing
<1>11. CASE FetchFee
  BY <1>11 DEF FetchFee, drawVars, scanVars, DrawBook, ScanBook, Idle, DrawnBefore, Bucket
<1>12. CASE OpenRingFile
  <2>1. TypeOK'
    BY <1>12 DEF OpenRingFile, Stop, drawVars, scanVars
  <2>2. DrawBook' /\ ScanBook'
    BY <1>12 DEF OpenRingFile, Stop, drawVars, scanVars, DrawBook, ScanBook, Idle,
                DrawnBefore, Bucket
  <2> QED
    BY <1>12, <2>1, <2>2 DEF OpenRingFile, Stop, drawVars, scanVars
<1>13. CASE WriteRingFile
  <2>1. TypeOK'
    BY <1>13 DEF WriteRingFile, Stop, drawVars, scanVars
  <2>2. DrawBook' /\ ScanBook'
    BY <1>13 DEF WriteRingFile, Stop, drawVars, scanVars, DrawBook, ScanBook, Idle,
                DrawnBefore, Bucket
  <2> QED
    BY <1>13, <2>1, <2>2 DEF WriteRingFile, Stop, drawVars, scanVars
<1>14. CASE Kill
  <2>1. TypeOK'
    BY <1>14 DEF Kill, Stop, drawVars, scanVars
  <2>2. DrawBook' /\ ScanBook'
    BY <1>14 DEF Kill, Stop, drawVars, scanVars, DrawBook, ScanBook, Idle,
                DrawnBefore, Bucket
  <2> QED
    BY <1>14, <2>1, <2>2 DEF Kill, Stop, drawVars, scanVars
<1>15. CASE UNCHANGED vars
  BY <1>15 DEF vars, drawVars, scanVars, outVars, DrawBook, ScanBook, Idle, DrawnBefore, Bucket
<1> QED
  BY <1>1, <1>2, <1>3, <1>4, <1>5, <1>6, <1>7, <1>8, <1>9, <1>10, <1>11, <1>12, <1>13,
     <1>14, <1>15
     DEF Next, Tool, Draw, Fill, Publish, Exited

\* In every reachable state the variables have their types: no bucket size wraps
\* below zero, the pool never outgrows REQUESTED_POOL_SIZE, and the scan never
\* reads past the statuses the daemon returned.
THEOREM TypeCorrect == Spec => []TypeOK
<1>1. Spec => []TypeInv
  BY InitTypeInv, NextTypeInv, PTL DEF Spec
<1>2. TypeInv => TypeOK
  BY DEF TypeInv
<1> QED
  BY <1>1, <1>2, PTL

----------------------------------------------------------------------------
(* The pool.                                                               *)

LEMMA NextPoolSound == TypeInv /\ PoolSound /\ [Next]_vars => PoolSound'
<1> SUFFICES ASSUME TypeInv, PoolSound, [Next]_vars PROVE PoolSound'
  OBVIOUS
<1>1. CASE DrawCandidate
  <2>1. bucket \in 1 .. Len(BucketOrder) /\ pool \in Seq(Candidates)
    BY DEF TypeInv, TypeOK
  <2>2. PICK p \in Drawable(Bucket, seg) :
          pool' = IF PassedOver(p, Real, pool) THEN pool
                  ELSE Append(pool, [index |-> p, bucket |-> Bucket])
    BY <1>1 DEF DrawCandidate
  <2>3. Bucket \in SlotTypes /\ Real' = Real /\ seg' = seg
    BY <1>1, <2>1, BucketType DEF DrawCandidate, Real
  <2>4. CASE PassedOver(p, Real, pool)
    BY <2>2, <2>3, <2>4 DEF PoolSound
  <2>5. CASE ~PassedOver(p, Real, pool)
    <3> DEFINE c == [index |-> p, bucket |-> Bucket]
               n == Len(pool)
    <3>1. /\ c \in Candidates /\ c.index = p /\ c.bucket = Bucket
      BY <2>3, PickableAssumption, NumOutsAssumption DEF Drawable, Candidates
    <3>2. /\ n \in Nat /\ DOMAIN pool = 1 .. n /\ DOMAIN pool' = 1 .. n + 1
          /\ pool'[n + 1] = c /\ \A i \in 1 .. n : pool'[i] = pool[i]
      BY <2>1, <2>2, <2>5, <3>1, AppendProperties, LenProperties
    <3>3. p # Real /\ \A i \in 1 .. n : pool[i].index # p
      BY <2>5, <3>2 DEF PassedOver, IndicesOf
    <3>4. /\ p \in Pickable
          /\ Bucket = "PRE_FORK" => p < seg.till
          /\ Bucket = "POST_FORK" => p >= seg.till
      <4>1. p \in Bounds(Bucket, seg) /\ p \in Pickable
        BY DEF Drawable
      <4>2. seg.till \in Nat
        BY DEF TypeInv, TypeOK
      <4>3. /\ Bounds("PRE_FORK", seg) = 0 .. seg.till - 1
            /\ Bounds("POST_FORK", seg) = seg.till .. NumOuts - 1
        BY DEF Bounds
      <4> QED
        BY <4>1, <4>2, <4>3, NumOutsAssumption
    <3> HIDE DEF c, n
    <3>5. ASSUME NEW i \in DOMAIN pool'
          PROVE  /\ pool'[i].index # Real'
                 /\ pool'[i].index \in Pickable
                 /\ pool'[i].bucket = "PRE_FORK"  => pool'[i].index < seg'.till
                 /\ pool'[i].bucket = "POST_FORK" => pool'[i].index >= seg'.till
      <4>1. CASE i = n + 1
        BY <2>3, <3>1, <3>2, <3>3, <3>4, <4>1
      <4>2. CASE i \in DOMAIN pool
        <5>1. pool'[i] = pool[i]
          BY <3>2, <4>2
        <5> QED
          BY <2>3, <4>2, <5>1 DEF PoolSound
      <4> QED
        BY <3>2, <4>1, <4>2
    <3>6. ASSUME NEW i \in DOMAIN pool', NEW j \in DOMAIN pool',
                 pool'[i].index = pool'[j].index
          PROVE  i = j
      <4>1. i \in 1 .. n \/ i = n + 1
        BY <3>2
      <4>2. j \in 1 .. n \/ j = n + 1
        BY <3>2
      <4>3. CASE i \in 1 .. n /\ j \in 1 .. n
        BY <3>2, <3>6, <4>3 DEF PoolSound
      <4>4. CASE i = n + 1 /\ j \in 1 .. n
        BY <3>1, <3>2, <3>3, <3>6, <4>4
      <4>5. CASE j = n + 1 /\ i \in 1 .. n
        BY <3>1, <3>2, <3>3, <3>6, <4>5
      <4> QED
        BY <4>1, <4>2, <4>3, <4>4, <4>5
    <3> QED
      BY <3>5, <3>6 DEF PoolSound
  <2> QED
    BY <2>4, <2>5
<1>2. CASE BuildRing \/ Startup
  <2>1. pool' = <<>>
    BY <1>2 DEF BuildRing, Startup, drawVars, TypeInv, DrawBook, Idle
  <2>2. DOMAIN pool' = {}
    BY <2>1
  <2> QED
    BY <2>2 DEF PoolSound
<1>3. CASE UNCHANGED <<pool, src, seg>>
  BY <1>3 DEF PoolSound, Real
<1>4. UNCHANGED <<pool, src, seg>> \/ DrawCandidate \/ BuildRing \/ Startup
  BY DEF Next, Tool, Draw, Fill, Publish, CheckReal, RpcFails, EndBucket, FetchStatus,
         ScanSlot, PoolTooShort, EnoughDecoys, FetchFee, OpenRingFile, WriteRingFile,
         Kill, Exited, vars, drawVars
<1> QED
  BY <1>1, <1>2, <1>3, <1>4

\* seen_in_pool, the test against real_index and bounds_for together keep the
\* pool sound however the picks fall: candidates are distinct across the three
\* buckets, never the real output, and on their side of the fork.
THEOREM PoolIsSound == Spec => []PoolSound
<1>1. Init => PoolSound
  BY DEF Init, PoolSound
<1> QED
  BY <1>1, InitTypeInv, NextTypeInv, NextPoolSound, PTL DEF Spec

----------------------------------------------------------------------------
(* The file.                                                               *)

FlagSets == [is_after : BOOLEAN, is_pre_fork : BOOLEAN, restricted : BOOLEAN]

Jsons == {SourceJson(x, d, c, n, k, f) : x \in Nat, d \in Seq(Nat), c \in [SlotTypes -> Nat],
                                         n \in Nat, k \in Nat, f \in FlagSets}

\* What BuildRing appends is a source's JSON.
LEMMA NewRingType ==
  ASSUME TypeInv
  PROVE  SourceJson(Real, confirmed, accepted, Len(pool), lockedSkipped,
                    Flags(seg, isPreFork)) \in Jsons
<1>1. Real \in Nat
  BY SourcesAssumption, ElementOfSeq DEF Real, TypeInv, TypeOK
<1>2. /\ confirmed \in Seq(Nat) /\ accepted \in [SlotTypes -> Nat] /\ lockedSkipped \in Nat
      /\ Len(pool) \in Nat
  BY DecoysAssumption, LenProperties DEF TypeInv, TypeOK
<1>3. Flags(seg, isPreFork) \in FlagSets
  BY DEF Flags, FlagSets, Restricted, TypeInv, TypeOK
<1>4. ASSUME NEW x \in Nat, NEW d \in Seq(Nat), NEW c \in [SlotTypes -> Nat],
             NEW n \in Nat, NEW k \in Nat, NEW f \in FlagSets
      PROVE  SourceJson(x, d, c, n, k, f) \in Jsons
  BY DEF Jsons
<1>5. QED
  BY <1>1, <1>2, <1>3, <1>4, Zenon

InSource == {"real_check", "draw", "pool_status", "scan", "final_details"}
Publishing == {"fee", "open", "write"}

\* There is a ring for each source before src, and one for each source before
\* the file is touched; once it is touched only an exit with 0 or a kill is left.
JobBook ==
  /\ rings \in Seq(Jsons)
  /\ \A k \in 1 .. Len(rings) : rings[k].real = Sources[k]
  /\ pc = "startup" => Len(rings) = 0 /\ src = 1
  /\ pc \in InSource => Len(rings) = src - 1
  /\ pc \in Publishing \/ file # "previous" => Len(rings) = Len(Sources)
  /\ file # "previous" => pc \in {"write", "exited"}
  /\ exit \in {"short", "exception"} => file = "previous" /\ pc = "exited"

LEMMA NextJobBook == TypeInv /\ JobBook /\ [Next]_vars => JobBook'
<1> SUFFICES ASSUME TypeInv, JobBook, [Next]_vars PROVE JobBook'
  OBVIOUS
<1>1. CASE BuildRing
  <2>1. /\ confirmed \in Seq(Nat) /\ accepted \in [SlotTypes -> Nat] /\ lockedSkipped \in Nat
        /\ Len(pool) \in Nat /\ src \in 1 .. Len(Sources) /\ Len(Sources) \in Nat
    BY DecoysAssumption, SourcesAssumption, LenProperties DEF TypeInv, TypeOK
  <2>2. Real \in Nat /\ Real = Sources[src]
    BY <2>1, SourcesAssumption, ElementOfSeq DEF Real
  <2> DEFINE r == SourceJson(Real, confirmed, accepted, Len(pool), lockedSkipped,
                      Flags(seg, isPreFork))
  <2>3. r \in Jsons
    BY NewRingType
  <2>4. r.real = Real
    BY DEF SourceJson
  <2>5. rings' = Append(rings, r) /\ file' = file /\ exit' = exit
    BY <1>1 DEF BuildRing
  <2>6. Len(rings) = src - 1 /\ rings \in Seq(Jsons) /\ Len(rings) \in Nat
    BY <1>1, LenProperties DEF BuildRing, JobBook, InSource
  <2> HIDE DEF r
  <2>7. /\ rings' \in Seq(Jsons) /\ Len(rings') = src
        /\ rings'[src] = r /\ \A k \in 1 .. src - 1 : rings'[k] = rings[k]
    BY <2>1, <2>3, <2>5, <2>6, AppendProperties
  <2>8. \A k \in 1 .. Len(rings') : rings'[k].real = Sources[k]
    <3> SUFFICES ASSUME NEW k \in 1 .. src PROVE rings'[k].real = Sources[k]
      BY <2>7
    <3>1. CASE k = src
      BY <2>2, <2>4, <2>7, <3>1
    <3>2. CASE k \in 1 .. src - 1
      BY <2>6, <2>7, <3>2 DEF JobBook
    <3> QED
      BY <2>1, <3>1, <3>2
  <2>9. /\ pc' = "real_check" => Len(rings') = src' - 1
        /\ pc' = "fee" => Len(rings') = Len(Sources)
        /\ pc' \in {"real_check", "fee"} /\ pc = "final_details"
    BY <1>1, <2>1, <2>7 DEF BuildRing, MoreSources
  <2>10. file' = "previous" /\ exit' \notin {"short", "exception"}
    BY <2>5, <2>9 DEF JobBook
  <2> QED
    BY <2>7, <2>8, <2>9, <2>10 DEF JobBook, InSource, Publishing
<1>2. CASE UNCHANGED <<rings, src>>
  <2>1. /\ rings' \in Seq(Jsons)
        /\ \A k \in 1 .. Len(rings') : rings'[k].real = Sources[k]
    BY <1>2 DEF JobBook
  <2>2. CASE UNCHANGED <<pc, file, exit>>
    BY <1>2, <2>2 DEF JobBook
  <2>3. CASE Startup \/ CheckReal \/ EndBucket \/ FetchStatus \/ EnoughDecoys
    <3>1. /\ UNCHANGED <<file, exit>> /\ pc' \in InSource
          /\ pc \in InSource \cup {"startup"} /\ pc \notin {"write", "exited"}
      BY <2>3
         DEF Startup, CheckReal, EndBucket, FetchStatus, EnoughDecoys, outVars, InSource
    <3>2. file' = "previous" /\ Len(rings') = src' - 1 /\ pc' \notin Publishing
      BY <1>2, <3>1, SourcesAssumption DEF JobBook, InSource, Publishing
    <3> QED
      BY <2>1, <3>1, <3>2 DEF JobBook, InSource
  <2>4. CASE RpcFails \/ PoolTooShort
    <3>1. file' = file /\ pc' = "exited" /\ pc \notin {"write", "exited"}
      BY <2>4 DEF RpcFails, PoolTooShort, Stop, outVars
    <3> QED
      BY <2>1, <3>1 DEF JobBook, InSource, Publishing
  <2>6. CASE FetchFee
    BY <1>2, <2>1, <2>6 DEF FetchFee, JobBook, InSource, Publishing
  <2>7. CASE OpenRingFile
    <3>1. /\ pc = "open" /\ pc' \in {"write", "exited"}
          /\ exit' = exit \/ exit' = "ok"
          /\ file' # "previous" => pc' \in {"write", "exited"}
          /\ exit' \in {"short", "exception"} => exit' = exit
      BY <2>7 DEF OpenRingFile, Stop, JobBook
    <3>2. exit \notin {"short", "exception"}
      BY <3>1 DEF JobBook
    <3> QED
      BY <1>2, <2>1, <3>1, <3>2 DEF JobBook, InSource, Publishing
  <2>8. CASE WriteRingFile
    BY <1>2, <2>1, <2>8 DEF WriteRingFile, Stop, JobBook, InSource, Publishing
  <2>5. CASE Kill
    BY <1>2, <2>1, <2>5 DEF Kill, Stop, JobBook, InSource, Publishing
  <2> QED
    BY <1>1, <2>2, <2>3, <2>4, <2>5, <2>6, <2>7, <2>8
       DEF Next, Tool, Draw, Fill, Publish, DrawCandidate, ScanSlot, Exited, vars, outVars,
           BuildRing
<1>3. BuildRing \/ UNCHANGED <<rings, src>>
  BY DEF Next, Tool, Draw, Fill, Publish, Startup, CheckReal, RpcFails, DrawCandidate,
         EndBucket, FetchStatus, ScanSlot, PoolTooShort, EnoughDecoys, FetchFee,
         OpenRingFile, WriteRingFile, Kill, Exited, vars, outVars
<1> QED
  BY <1>1, <1>2, <1>3

\* Whatever fails, and whenever the process is killed, ring.json is touched only
\* with a ring for every source, in command-line order: no run leaves a file
\* with the rings of some of the sources.
THEOREM PublishesWholeJob == Spec => []WholeJobOrNothing
<1>1. Init => JobBook
  BY EmptySeq DEF Init, JobBook, InSource, Publishing
<1>2. JobBook => WholeJobOrNothing
  <2> SUFFICES ASSUME JobBook, file # "previous"
               PROVE  [k \in DOMAIN rings |-> rings[k].real] = Sources
    BY DEF WholeJobOrNothing, JobBook
  <2>1. DOMAIN rings = 1 .. Len(Sources) /\ DOMAIN Sources = 1 .. Len(Sources)
    BY SourcesAssumption, LenProperties DEF JobBook
  <2>2. \A k \in DOMAIN rings : rings[k].real = Sources[k]
    BY <2>1 DEF JobBook
  <2>3. Sources = [k \in DOMAIN Sources |-> Sources[k]]
    BY SourcesAssumption, LenProperties
  <2> QED
    BY <2>1, <2>2, <2>3
<1> QED
  BY <1>1, <1>2, InitTypeInv, NextTypeInv, NextJobBook, PTL DEF Spec

----------------------------------------------------------------------------
(* The scan, as a relation between a pool, the statuses of its candidates  *)
(* and what was made of the first n of them.                               *)

UnlockedOf(st, n) == {i \in 1 .. n : st[i]}
UnlockedIn(st, p, n, t) == {i \in UnlockedOf(st, n) : p[i].bucket = t}

Filled(st, p, n, c, acc, skipped) ==
  /\ Len(c) = Cardinality(UnlockedOf(st, n))
  /\ skipped = n - Len(c)
  /\ \A i \in UnlockedOf(st, n) : c[Cardinality(UnlockedOf(st, i))] = p[i].index
  /\ \A t \in SlotTypes : acc[t] = Cardinality(UnlockedIn(st, p, n, t))

LEMMA FilledIsFillInOrder ==
  FillInOrder <=> Filled(status, pool, at, confirmed, accepted, lockedSkipped)
BY DEF FillInOrder, Filled, UnlockedUpTo, UnlockedOf, UnlockedIn

LEMMA UnlockedFinite ==
  ASSUME NEW st, NEW n \in Nat, NEW T \in SUBSET UnlockedOf(st, n)
  PROVE  /\ IsFiniteSet(T) /\ Cardinality(T) \in Nat
         /\ Cardinality(T) <= Cardinality(UnlockedOf(st, n))
         /\ Cardinality(UnlockedOf(st, n)) \in Nat
<1>1. IsFiniteSet(1 .. n)
  BY FS_Interval
<1>2. UnlockedOf(st, n) \in SUBSET (1 .. n)
  BY DEF UnlockedOf
<1>3. IsFiniteSet(UnlockedOf(st, n))
  BY <1>1, <1>2, FS_Subset
<1>4. QED
  BY <1>3, FS_Subset, FS_CardinalityType

\* One more candidate: it joins the unlocked ones, or they stay the same.
LEMMA UnlockedNext ==
  ASSUME NEW st \in Seq(BOOLEAN), NEW n \in Nat, n + 1 <= Len(st)
  PROVE  /\ st[n + 1] => UnlockedOf(st, n + 1) = UnlockedOf(st, n) \cup {n + 1}
         /\ ~st[n + 1] => UnlockedOf(st, n + 1) = UnlockedOf(st, n)
         /\ n + 1 \notin UnlockedOf(st, n)
<1>1. 1 .. n + 1 = (1 .. n) \cup {n + 1} /\ n + 1 \notin 1 .. n
  OBVIOUS
<1> DEFINE m == n + 1
           S == 1 .. n
<1>2. 1 .. m = S \cup {m} /\ m \notin S
  BY <1>1
<1> HIDE DEF m, S
<1>3. /\ st[m] => {i \in S \cup {m} : st[i]} = {i \in S : st[i]} \cup {m}
      /\ ~st[m] => {i \in S \cup {m} : st[i]} = {i \in S : st[i]}
      /\ m \notin {i \in S : st[i]}
  BY <1>2, Zenon
<1>4. QED
  BY <1>2, <1>3, Zenon DEF UnlockedOf, m, S

LEMMA TakesUnlocked ==
  ASSUME NEW st \in Seq(BOOLEAN), NEW p \in Seq(Candidates), NEW n \in Nat, n + 1 <= Len(st),
         Len(st) = Len(p), NEW c \in Seq(Nat), NEW acc \in [SlotTypes -> Nat], NEW skipped,
         Filled(st, p, n, c, acc, skipped), st[n + 1]
  PROVE  Filled(st, p, n + 1, Append(c, p[n + 1].index),
                [acc EXCEPT ![p[n + 1].bucket] = @ + 1], skipped)
<1> DEFINE b  == p[n + 1].bucket
           x  == p[n + 1].index
           U  == UnlockedOf(st, n)
           U1 == UnlockedOf(st, n + 1)
           d  == Append(c, x)
<1>1. p[n + 1] \in Candidates
  BY LenProperties, ElementOfSeq
<1>2. b \in SlotTypes /\ x \in Nat
  BY <1>1 DEF Candidates
<1>3. U1 = U \cup {n + 1} /\ n + 1 \notin U
  BY UnlockedNext
<1>4. IsFiniteSet(U) /\ Cardinality(U) \in Nat /\ Len(c) = Cardinality(U)
  BY UnlockedFinite DEF Filled
<1>5. Cardinality(U1) = Cardinality(U) + 1
  BY <1>3, <1>4, FS_AddElement
<1>6. /\ d \in Seq(Nat) /\ Len(d) = Len(c) + 1
      /\ \A k \in 1 .. Len(c) : d[k] = c[k]
      /\ d[Len(c) + 1] = x
  BY <1>2, AppendProperties
<1>7. skipped = n - Len(c)
  BY DEF Filled
<1> HIDE DEF U, U1, d, x, b
<1>8. skipped = (n + 1) - Len(d)
  BY <1>4, <1>6, <1>7
<1>9. ASSUME NEW i \in U1 PROVE d[Cardinality(UnlockedOf(st, i))] = p[i].index
  <2>1. CASE i = n + 1
    BY <1>4, <1>5, <1>6, <2>1 DEF U1, x
  <2>2. CASE i \in U
    <3>1. i \in Nat /\ i \in 1 .. n
      BY <2>2 DEF U, UnlockedOf
    <3>2. UnlockedOf(st, i) \in SUBSET U /\ i \in UnlockedOf(st, i)
      BY <2>2, <3>1 DEF U, UnlockedOf
    <3>3. /\ IsFiniteSet(UnlockedOf(st, i)) /\ Cardinality(UnlockedOf(st, i)) \in Nat
          /\ Cardinality(UnlockedOf(st, i)) <= Len(c)
      BY <1>4, <3>2, UnlockedFinite DEF U
    <3>4. Cardinality(UnlockedOf(st, i)) # 0
      BY <3>2, <3>3, FS_EmptySet
    <3>5. Cardinality(UnlockedOf(st, i)) \in 1 .. Len(c)
      BY <1>4, <3>3, <3>4
    <3>6. c[Cardinality(UnlockedOf(st, i))] = p[i].index
      BY <2>2 DEF Filled, U
    <3>7. QED
      BY <1>6, <3>5, <3>6
  <2>3. QED
    BY <1>3, <2>1, <2>2
<1>10. ASSUME NEW t \in SlotTypes
       PROVE  [acc EXCEPT ![b] = @ + 1][t] = Cardinality(UnlockedIn(st, p, n + 1, t))
  <2> DEFINE V  == UnlockedIn(st, p, n, t)
             V1 == UnlockedIn(st, p, n + 1, t)
  <2>1. acc[t] = Cardinality(V)
    BY DEF Filled
  <2>2. V \in SUBSET U /\ n + 1 \notin V
    BY <1>3 DEF UnlockedIn, U
  <2>3. IsFiniteSet(V)
    BY <2>2, UnlockedFinite DEF U
  <2>4. V1 = {i \in U \cup {n + 1} : p[i].bucket = t} /\ V = {i \in U : p[i].bucket = t}
    BY <1>3 DEF UnlockedIn, U, U1
  <2> HIDE DEF V, V1
  <2>5. CASE t = b
    <3>1. V1 = V \cup {n + 1}
      BY <2>4, <2>5 DEF b
    <3>2. Cardinality(V1) = Cardinality(V) + 1
      BY <2>2, <2>3, <3>1, FS_AddElement
    <3>3. QED
      BY <1>2, <2>1, <2>5, <3>2 DEF V1
  <2>6. CASE t # b
    <3>1. V1 = V
      BY <2>4, <2>6 DEF b
    <3>2. QED
      BY <2>1, <2>6, <3>1 DEF V1
  <2>7. QED
    BY <2>5, <2>6
<1>11. Len(d) = Cardinality(U1)
  BY <1>4, <1>5, <1>6
<1>12. QED
  BY <1>8, <1>9, <1>10, <1>11 DEF Filled, U1, d, x, b

LEMMA SkipsLocked ==
  ASSUME NEW st \in Seq(BOOLEAN), NEW p, NEW n \in Nat, n + 1 <= Len(st), NEW c \in Seq(Nat),
         NEW acc, NEW skipped, Filled(st, p, n, c, acc, skipped), ~st[n + 1]
  PROVE  Filled(st, p, n + 1, c, acc, skipped + 1)
<1>1. UnlockedOf(st, n + 1) = UnlockedOf(st, n)
  BY UnlockedNext
<1>2. \A t : UnlockedIn(st, p, n + 1, t) = UnlockedIn(st, p, n, t)
  BY <1>1 DEF UnlockedIn
<1>3. skipped + 1 = (n + 1) - Len(c)
  BY LenProperties DEF Filled
<1>4. QED
  BY <1>1, <1>2, <1>3 DEF Filled

LEMMA FilledAtFirst == ASSUME NEW st, NEW p PROVE Filled(st, p, 0, <<>>, NoPlan, 0)
<1>1. UnlockedOf(st, 0) = {} /\ \A t : UnlockedIn(st, p, 0, t) = {}
  BY DEF UnlockedOf, UnlockedIn
<1>2. Len(<<>>) = 0 /\ \A t \in SlotTypes : NoPlan[t] = 0
  BY DEF NoPlan
<1>3. Len(<<>>) = Cardinality(UnlockedOf(st, 0)) /\ 0 = 0 - Len(<<>>)
  <2>1. Cardinality(UnlockedOf(st, 0)) = 0
    BY <1>1, FS_EmptySet
  <2>2. 0 = 0 - 0
    OBVIOUS
  <2>3. QED
    BY <1>2, <2>1, <2>2
<1>4. \A t \in SlotTypes : NoPlan[t] = Cardinality(UnlockedIn(st, p, 0, t))
  BY <1>1, <1>2, FS_EmptySet
<1>5. \A i \in UnlockedOf(st, 0) : <<>>[Cardinality(UnlockedOf(st, i))] = p[i].index
  BY <1>1
<1>6. QED
  BY <1>3, <1>4, <1>5 DEF Filled

LEMMA NextFillInOrder == TypeInv /\ FillInOrder /\ [Next]_vars => FillInOrder'
<1> SUFFICES ASSUME TypeInv, FillInOrder, [Next]_vars PROVE FillInOrder'
  OBVIOUS
<1>1. Filled(status, pool, at, confirmed, accepted, lockedSkipped)
  BY FilledIsFillInOrder
<1>2. SUFFICES Filled(status', pool', at', confirmed', accepted', lockedSkipped')
  BY DEF FillInOrder, Filled, UnlockedUpTo, UnlockedOf, UnlockedIn
<1>3. CASE ScanSlot
  <2>1. /\ status \in Seq(BOOLEAN) /\ pool \in Seq(Candidates) /\ Len(status) = Len(pool)
        /\ confirmed \in Seq(Nat) /\ accepted \in [SlotTypes -> Nat] /\ at \in Nat
    BY <1>3, DecoysAssumption DEF ScanSlot, TypeInv, TypeOK, ScanBook
  <2>2. at + 1 <= Len(status) /\ at' = at + 1 /\ status' = status /\ pool' = pool
    BY <1>3, <2>1, LenProperties DEF ScanSlot, ScanGoesOn, drawVars
  <2>3. CASE status[at + 1]
    <3>1. /\ confirmed' = Append(confirmed, pool[at + 1].index)
          /\ accepted' = [accepted EXCEPT ![pool[at + 1].bucket] = @ + 1]
          /\ lockedSkipped' = lockedSkipped
      BY <1>3, <2>3 DEF ScanSlot, IsUsable
    <3>2. Filled(status, pool, at + 1, Append(confirmed, pool[at + 1].index),
                 [accepted EXCEPT ![pool[at + 1].bucket] = @ + 1], lockedSkipped)
      BY <1>1, <2>1, <2>2, <2>3, TakesUnlocked
    <3>3. QED
      BY <2>2, <3>1, <3>2
  <2>4. CASE ~status[at + 1]
    <3>1. confirmed' = confirmed /\ accepted' = accepted /\ lockedSkipped' = lockedSkipped + 1
      BY <1>3, <2>4 DEF ScanSlot, IsUsable
    <3>2. Filled(status, pool, at + 1, confirmed, accepted, lockedSkipped + 1)
      BY <1>1, <2>1, <2>2, <2>4, SkipsLocked
    <3>3. QED
      BY <2>2, <3>1, <3>2
  <2>5. QED
    BY <2>3, <2>4
<1>4. CASE Startup \/ CheckReal \/ DrawCandidate \/ EndBucket \/ FetchStatus \/ BuildRing
  <2>1. at' = 0 /\ confirmed' = <<>> /\ accepted' = NoPlan /\ lockedSkipped' = 0
    BY <1>4 DEF Startup, CheckReal, DrawCandidate, EndBucket, FetchStatus, BuildRing, scanVars,
                TypeInv, ScanBook, Idle
  <2>2. QED
    BY <2>1, FilledAtFirst
<1>5. CASE UNCHANGED <<pool, scanVars>>
  BY <1>1, <1>5 DEF scanVars
<1>6. \/ ScanSlot \/ UNCHANGED <<pool, scanVars>>
      \/ Startup \/ CheckReal \/ DrawCandidate \/ EndBucket \/ FetchStatus \/ BuildRing
  BY DEF Next, Tool, Draw, Fill, Publish, RpcFails, PoolTooShort, EnoughDecoys, FetchFee,
         OpenRingFile, WriteRingFile, Kill, Exited, vars, drawVars, scanVars
<1>7. QED
  BY <1>3, <1>4, <1>5, <1>6

\* main.cpp:625-640, for any pool and any statuses: the decoys are the first
\* unlocked candidates in the order of the pool, and the counts are theirs.
THEOREM FillsInOrder == Spec => []FillInOrder
<1>1. Init => FillInOrder
  <2> SUFFICES ASSUME Init PROVE FillInOrder
    OBVIOUS
  <2>1. QED
    BY FilledAtFirst, FilledIsFillInOrder DEF Init
<1>2. QED
  BY <1>1, InitTypeInv, NextTypeInv, NextFillInOrder, PTL DEF Spec

----------------------------------------------------------------------------
(* Giving up.                                                              *)

LEMMA NextFailsOnlyWhenShort ==
  TypeInv /\ FillInOrder /\ JobBook /\ FailsOnlyWhenShort /\ [Next]_vars => FailsOnlyWhenShort'
<1> SUFFICES ASSUME TypeInv, FillInOrder, JobBook, FailsOnlyWhenShort, [Next]_vars
             PROVE  FailsOnlyWhenShort'
  OBVIOUS
<1>1. CASE PoolTooShort
  <2>1. /\ pool' = pool /\ status' = status /\ Len(status) = Len(pool) /\ Len(pool) \in Nat
        /\ DOMAIN pool = 1 .. Len(pool) /\ at \in 0 .. Len(status) /\ Len(confirmed) < NumDecoys
        /\ at >= Len(pool)
    BY <1>1, LenProperties, DecoysAssumption
       DEF PoolTooShort, TooFew, ScanGoesOn, drawVars, scanVars, TypeInv, TypeOK, ScanBook
  <2>2. at = Len(pool)
    BY <2>1
  <2>3. {i \in DOMAIN pool : status[i]} = UnlockedUpTo(at)
    BY <2>1, <2>2 DEF UnlockedUpTo
  <2>4. Cardinality({i \in DOMAIN pool : status[i]}) < NumDecoys
    BY <2>1, <2>3 DEF FillInOrder
  <2>5. QED
    BY <2>1, <2>4 DEF FailsOnlyWhenShort
<1>2. CASE UNCHANGED <<pool, status, exit>>
  BY <1>2 DEF FailsOnlyWhenShort
<1>3. CASE exit' # "short"
  BY <1>3 DEF FailsOnlyWhenShort
<1>4. PoolTooShort \/ UNCHANGED <<pool, status, exit>> \/ exit' # "short"
  <2>1. exit = "short" => pc = "exited"
    BY DEF JobBook
  <2>2. QED
    BY <2>1 DEF Next, Tool, Draw, Fill, Publish, Startup, CheckReal, RpcFails, DrawCandidate,
                EndBucket, FetchStatus, ScanSlot, EnoughDecoys, BuildRing, FetchFee,
                OpenRingFile, WriteRingFile, Kill, Exited, Stop, vars, drawVars, scanVars
<1>5. QED
  BY <1>1, <1>2, <1>3, <1>4

\* main.cpp:649, for any pool and any number of decoys: the tool ends with 1 only
\* when the whole pool has too few unlocked candidates.
THEOREM GivesUpOnlyWhenShort == Spec => []FailsOnlyWhenShort
<1>1. Init => FillInOrder /\ JobBook /\ FailsOnlyWhenShort
  <2>1. Init => FillInOrder
    BY FilledAtFirst, FilledIsFillInOrder DEF Init
  <2>2. QED
    BY <2>1, EmptySeq DEF Init, JobBook, InSource, Publishing, FailsOnlyWhenShort
<1>2. QED
  BY <1>1, InitTypeInv, NextTypeInv, NextFillInOrder, NextJobBook, NextFailsOnlyWhenShort, PTL
     DEF Spec

----------------------------------------------------------------------------
(* The promise.                                                            *)

\* What was accepted so far is a set of that many candidates, from the part of
\* the pool that was scanned.
AcceptedBook ==
  /\ IsFiniteSet(ToSet(confirmed)) /\ Cardinality(ToSet(confirmed)) = Len(confirmed)
  /\ \A x \in ToSet(confirmed) : \E i \in 1 .. at : pool[i].index = x

\* The process has ended exactly if its status is known, and the file is complete
\* only then.
EndBook ==
  /\ pc = "exited" <=> exit # "running"
  /\ file = "complete" => pc = "exited"
  /\ exit \in {"running", "ok", "short", "exception", "killed"}

LEMMA NextAcceptedBook ==
  TypeInv /\ PoolSound /\ AcceptedBook /\ [Next]_vars => AcceptedBook'
<1> SUFFICES ASSUME TypeInv, PoolSound, AcceptedBook, [Next]_vars PROVE AcceptedBook'
  OBVIOUS
<1>1. CASE ScanSlot
  <2>1. /\ pool \in Seq(Candidates) /\ confirmed \in Seq(Nat) /\ at \in Nat /\ Len(pool) \in Nat
        /\ DOMAIN pool = 1 .. Len(pool) /\ at + 1 \in DOMAIN pool /\ at' = at + 1 /\ pool' = pool
    BY <1>1, LenProperties DEF ScanSlot, ScanGoesOn, drawVars, TypeInv, TypeOK
  <2>2. pool[at + 1].index \in Nat
    <3>1. pool[at + 1] \in Candidates
      BY <2>1, ElementOfSeq
    <3>2. QED
      BY <3>1 DEF Candidates
  <2> DEFINE x == pool[at + 1].index
  <2>3. CASE confirmed' = confirmed
    BY <2>1, <2>3 DEF AcceptedBook
  <2>4. CASE confirmed' = Append(confirmed, x)
    <3>1. ToSet(confirmed') = ToSet(confirmed) \cup {x} /\ Len(confirmed') = Len(confirmed) + 1
      <4>1. /\ Len(confirmed') = Len(confirmed) + 1 /\ Len(confirmed) \in Nat
            /\ DOMAIN confirmed = 1 .. Len(confirmed) /\ DOMAIN confirmed' = 1 .. Len(confirmed) + 1
            /\ \A k \in 1 .. Len(confirmed) : confirmed'[k] = confirmed[k]
            /\ confirmed'[Len(confirmed) + 1] = x
        BY <2>1, <2>2, <2>4, AppendProperties, LenProperties
      <4> HIDE DEF x
      <4>2. QED
        BY <4>1 DEF ToSet
    <3>2. x \notin ToSet(confirmed)
      <4>1. ASSUME NEW i \in 1 .. at, pool[i].index = x PROVE FALSE
        BY <2>1, <4>1 DEF PoolSound
      <4>2. QED
        BY <4>1 DEF AcceptedBook
    <3>3. /\ IsFiniteSet(ToSet(confirmed'))
          /\ Cardinality(ToSet(confirmed')) = Len(confirmed')
      <4>1. IsFiniteSet(ToSet(confirmed)) /\ Cardinality(ToSet(confirmed)) = Len(confirmed)
        BY DEF AcceptedBook
      <4> HIDE DEF x
      <4>2. /\ IsFiniteSet(ToSet(confirmed) \cup {x})
            /\ Cardinality(ToSet(confirmed) \cup {x}) = Cardinality(ToSet(confirmed)) + 1
        BY <3>2, <4>1, FS_AddElement
      <4>3. QED
        BY <3>1, <4>1, <4>2
    <3>4. \A y \in ToSet(confirmed') : \E i \in 1 .. at + 1 : pool[i].index = y
      BY <2>1, <3>1 DEF AcceptedBook
    <3>5. QED
      BY <2>1, <3>3, <3>4 DEF AcceptedBook
  <2>5. QED
    BY <1>1, <2>3, <2>4 DEF ScanSlot
<1>2. CASE confirmed' = <<>>
  <2>1. ToSet(confirmed') = {} /\ Len(confirmed') = 0
    BY <1>2 DEF ToSet
  <2>2. QED
    BY <2>1, FS_EmptySet DEF AcceptedBook
<1>3. CASE UNCHANGED <<pool, at, confirmed>>
  BY <1>3 DEF AcceptedBook
<1>4. ScanSlot \/ confirmed' = <<>> \/ UNCHANGED <<pool, at, confirmed>>
  <2>1. DrawCandidate \/ BuildRing => confirmed' = <<>>
    BY DEF DrawCandidate, BuildRing, scanVars, TypeInv, ScanBook, Idle
  <2>2. QED
    BY <2>1 DEF Next, Tool, Draw, Fill, Publish, Startup, CheckReal, RpcFails, EndBucket,
                FetchStatus, PoolTooShort, EnoughDecoys, FetchFee, OpenRingFile,
                WriteRingFile, Kill, Exited, vars, drawVars, scanVars
<1>5. QED
  BY <1>1, <1>2, <1>3, <1>4

LEMMA NextEndBook == EndBook /\ [Next]_vars => EndBook'
BY DEF EndBook, Next, Tool, Draw, Fill, Publish, Startup, CheckReal, RpcFails, DrawCandidate,
       EndBucket, FetchStatus, ScanSlot, PoolTooShort, EnoughDecoys, BuildRing, FetchFee,
       OpenRingFile, WriteRingFile, Kill, Exited, Stop, vars, outVars

\* What main() settles with a ring, what a reader of the file finds and how the
\* run ended: the variables of RingPromise.
chosen == [k \in DOMAIN rings |-> ToSet(rings[k].decoys)]
published == IF file = "complete" THEN chosen ELSE <<>>
outcome == IF exit = "running" THEN "running"
           ELSE IF exit = "ok" THEN "success" ELSE "failure"

PromiseInv == TypeInv /\ PoolSound /\ JobBook /\ AcceptedBook /\ EndBook

\* A finished ring is what RingPromise asks of the next source.
LEMMA BuildRingChooses ==
  ASSUME PromiseInv, BuildRing
  PROVE  Promise!Choose
<1> DEFINE D == ToSet(confirmed)
           r == SourceJson(Real, confirmed, accepted, Len(pool), lockedSkipped,
                      Flags(seg, isPreFork))
<1>1. /\ rings' = Append(rings, r) /\ UNCHANGED <<file, exit>> /\ pc = "final_details"
      /\ rings \in Seq(Jsons) /\ Len(rings) \in Nat /\ Len(rings) = src - 1
      /\ src \in 1 .. Len(Sources) /\ Len(Sources) \in Nat
  BY SourcesAssumption, LenProperties
     DEF BuildRing, PromiseInv, TypeInv, TypeOK, JobBook, InSource
<1>2. exit = "running" /\ file # "complete"
  BY <1>1 DEF PromiseInv, EndBook
<1>3. D \in Promise!DecoySets(Real)
  <2>1. Cardinality(D) = NumDecoys
    BY <1>1 DEF PromiseInv, AcceptedBook, TypeInv, ScanBook
  <2>2. ASSUME NEW x \in D PROVE x \in 0 .. NumOuts - 1 /\ x # Real
    <3>1. PICK i \in 1 .. at : pool[i].index = x
      BY DEF PromiseInv, AcceptedBook
    <3>2. i \in DOMAIN pool
      BY LenProperties DEF PromiseInv, TypeInv, TypeOK
    <3>3. QED
      BY <3>1, <3>2, PickableAssumption DEF PromiseInv, PoolSound
  <2> HIDE DEF D
  <2>3. D \in SUBSET (0 .. NumOuts - 1) /\ Real \notin D
    BY <2>2
  <2>4. Promise!Cardinality(D) = Cardinality(D)
    BY Zenon DEF Promise!Cardinality, Cardinality
  <2>5. QED
    BY <2>1, <2>3, <2>4 DEF Promise!DecoySets
<1>4. chosen' = Append(chosen, D)
  <2>1. r.decoys = confirmed
    BY DEF SourceJson
  <2> HIDE DEF r
  <2>2. r \in Jsons
    BY NewRingType DEF PromiseInv, r
  <2>3. /\ DOMAIN rings = 1 .. Len(rings) /\ DOMAIN rings' = 1 .. Len(rings) + 1
        /\ \A k \in 1 .. Len(rings) : rings'[k] = rings[k]
        /\ rings'[Len(rings) + 1] = r
    BY <1>1, <2>2, AppendProperties, LenProperties
  <2>4. chosen = [k \in 1 .. Len(rings) |-> ToSet(rings[k].decoys)]
    BY <2>3 DEF chosen
  <2>5. chosen' = [k \in 1 .. Len(rings) + 1 |-> ToSet(rings'[k].decoys)]
    BY <2>3 DEF chosen
  <2> DEFINE n == Len(rings)
  <2>6. n \in Nat /\ D \in {D} \cup {chosen[k] : k \in 1 .. n}
    BY <1>1
  <2>7. chosen \in Seq({D} \cup {chosen[k] : k \in 1 .. n}) /\ Len(chosen) = n
    <3>1. chosen \in [1 .. n -> {D} \cup {chosen[k] : k \in 1 .. n}]
      BY <2>4
    <3>2. QED
      BY <2>6, <3>1, FunctionIsSeq
  <2>8. Append(chosen, D) = [k \in 1 .. n + 1 |-> IF k = n + 1 THEN D ELSE chosen[k]]
    <3>1. /\ Append(chosen, D) \in Seq({D} \cup {chosen[k] : k \in 1 .. n})
          /\ Len(Append(chosen, D)) = n + 1 /\ Append(chosen, D)[n + 1] = D
          /\ \A k \in 1 .. n : Append(chosen, D)[k] = chosen[k]
      BY <2>7, AppendProperties
    <3> DEFINE w == Append(chosen, D)
    <3>2. DOMAIN w = 1 .. n + 1 /\ w = [k \in DOMAIN w |-> w[k]]
      BY <3>1, LenProperties
    <3> HIDE DEF w, D
    <3>3. \A k \in 1 .. n + 1 : w[k] = IF k = n + 1 THEN D ELSE chosen[k]
      BY <2>6, <3>1 DEF w
    <3>4. w = [k \in 1 .. n + 1 |-> IF k = n + 1 THEN D ELSE chosen[k]]
      BY <3>2, <3>3
    <3>5. QED
      BY <3>4 DEF w
  <2>9. QED
    BY <2>1, <2>3, <2>4, <2>5, <2>6, <2>8
<1>5. Len(chosen) = Len(rings)
  <2>1. DOMAIN chosen = 1 .. Len(rings)
    BY <1>1, LenProperties DEF chosen
  <2>2. chosen \in [1 .. Len(rings) -> {chosen[k] : k \in 1 .. Len(rings)}]
    BY <1>1, LenProperties DEF chosen
  <2>3. QED
    BY <1>1, <2>2, FunctionIsSeq
<1>6. Len(chosen) < Len(Sources) /\ Sources[Len(chosen) + 1] = Real
  BY <1>1, <1>5 DEF Real
<1>7. published' = published /\ outcome' = outcome /\ outcome = "running"
  BY <1>1, <1>2 DEF published, outcome
<1> HIDE DEF D, r
<1>8. QED
  BY <1>3, <1>4, <1>6, <1>7 DEF Promise!Choose, chosen, published, outcome

\* Every other step ends the run or changes nothing the promise speaks of.
LEMMA StepKeepsPromise ==
  ASSUME PromiseInv, [Next]_vars
  PROVE  [Promise!Next]_<<chosen, published, outcome>>
<1>1. CASE BuildRing
  BY <1>1, BuildRingChooses DEF Promise!Next
<1>2. CASE ~BuildRing /\ exit' = exit
  <2>1. rings' = rings
    BY <1>2 DEF Next, Tool, Draw, Fill, Publish, Startup, CheckReal, RpcFails, DrawCandidate,
                EndBucket, FetchStatus, ScanSlot, PoolTooShort, EnoughDecoys, FetchFee,
                OpenRingFile, WriteRingFile, Kill, Exited, vars, outVars
  <2>2. file' = file \/ (file' = "truncated" /\ file # "complete")
    BY <1>2 DEF Next, Tool, Draw, Fill, Publish, Startup, CheckReal, RpcFails, DrawCandidate,
                EndBucket, FetchStatus, ScanSlot, PoolTooShort, EnoughDecoys, FetchFee,
                OpenRingFile, WriteRingFile, Kill, Exited, vars, outVars, Stop,
                PromiseInv, EndBook
  <2>3. QED
    BY <1>2, <2>1, <2>2 DEF chosen, published, outcome
<1>3. CASE ~BuildRing /\ exit' # exit
  <2>1. /\ RpcFails \/ PoolTooShort \/ OpenRingFile \/ WriteRingFile \/ Kill
        /\ rings' = rings /\ pc # "exited" /\ exit' \in {"ok", "short", "exception", "killed"}
    BY <1>3 DEF Next, Tool, Draw, Fill, Publish, Startup, CheckReal, RpcFails, DrawCandidate,
                EndBucket, FetchStatus, ScanSlot, PoolTooShort, EnoughDecoys, FetchFee,
                OpenRingFile, WriteRingFile, Kill, Exited, vars, outVars, Stop
  <2>2. exit = "running" /\ file # "complete"
    BY <2>1 DEF PromiseInv, EndBook
  <2>3. Len(chosen) = Len(rings)
    <3>1. rings \in Seq(Jsons) /\ Len(rings) \in Nat /\ DOMAIN rings = 1 .. Len(rings)
      BY LenProperties DEF PromiseInv, JobBook
    <3>2. chosen \in [1 .. Len(rings) -> {chosen[k] : k \in 1 .. Len(rings)}]
      BY <3>1 DEF chosen
    <3>3. QED
      BY <3>1, <3>2, FunctionIsSeq
  <2>4. exit' = "ok" \/ file' # file => pc \in Publishing
    BY <2>1, <2>2 DEF RpcFails, PoolTooShort, OpenRingFile, WriteRingFile, Kill, Stop,
                      Publishing, outVars, PromiseInv, EndBook
  <2>5. exit' = "ok" \/ file' # file => Len(chosen) = Len(Sources)
    BY <2>3, <2>4 DEF PromiseInv, JobBook
  <2>6. chosen' = chosen
    BY <2>1 DEF chosen
  <2>7. /\ outcome = "running" /\ outcome' \in {"success", "failure"}
        /\ outcome' = "success" => exit' = "ok"
    BY <2>1, <2>2 DEF outcome
  <2>8. \/ published' = published
        \/ file' # file /\ published' = chosen
    BY <2>2, <2>6 DEF published
  <2>9. Promise!Finish
    BY <2>5, <2>6, <2>7, <2>8 DEF Promise!Finish, chosen, published, outcome
  <2>10. QED
    BY <2>9 DEF Promise!Next
<1>4. QED
  BY <1>1, <1>2, <1>3

\* main() as a whole, for any sources, pool, chain and failures: it implements
\* RingPromise.  Every source gets its set of NumDecoys others once and for all,
\* the file has all of them or none, and success is for complete jobs only.
THEOREM ImplementsPromise == Spec => KeepsPromise
<1>1. Init => PromiseInv
  <2> SUFFICES ASSUME Init PROVE PromiseInv
    OBVIOUS
  <2>1. ToSet(confirmed) = {} /\ Len(confirmed) = 0
    BY DEF Init, ToSet
  <2>2. AcceptedBook
    BY <2>1, FS_EmptySet DEF AcceptedBook
  <2>3. JobBook
    BY EmptySeq DEF Init, JobBook, InSource, Publishing
  <2>4. QED
    BY <2>2, <2>3, InitTypeInv DEF Init, PromiseInv, PoolSound, EndBook
<1>2. PromiseInv /\ [Next]_vars => PromiseInv'
  BY NextTypeInv, NextPoolSound, NextJobBook, NextAcceptedBook, NextEndBook DEF PromiseInv
<1>3. Init => Promise!Init
  <2> SUFFICES ASSUME Init PROVE Promise!Init
    OBVIOUS
  <2>1. DOMAIN rings = {} /\ <<>> = [k \in {} |-> ToSet(rings[k].decoys)]
    BY DEF Init
  <2>2. QED
    BY <2>1 DEF Init, Promise!Init
<1>4. PromiseInv /\ [Next]_vars => [Promise!Next]_<<chosen, published, outcome>>
  BY StepKeepsPromise
<1>5. QED
  BY <1>1, <1>2, <1>3, <1>4, PTL DEF Spec, KeepsPromise, Promise!Spec, chosen, published, outcome

----------------------------------------------------------------------------
(* The segregation block.                                                  *)

\* Every candidate the scan took is among what it collected.
LEMMA TakenIsCollected ==
  ASSUME NEW st, NEW p, NEW n \in Nat, NEW c \in Seq(Nat), NEW acc, NEW skipped,
         Filled(st, p, n, c, acc, skipped), NEW i \in UnlockedOf(st, n)
  PROVE  p[i].index \in ToSet(c)
<1> DEFINE k == Cardinality(UnlockedOf(st, i))
<1>1. i \in Nat /\ i \in 1 .. n
  BY DEF UnlockedOf
<1>2. UnlockedOf(st, i) \in SUBSET UnlockedOf(st, n) /\ i \in UnlockedOf(st, i)
  BY <1>1 DEF UnlockedOf
<1>3. /\ IsFiniteSet(UnlockedOf(st, i)) /\ k \in Nat /\ k <= Cardinality(UnlockedOf(st, n))
      /\ Len(c) = Cardinality(UnlockedOf(st, n))
  BY <1>2, UnlockedFinite DEF Filled
<1>4. k # 0
  BY <1>2, <1>3, FS_EmptySet
<1>5. c[k] = p[i].index
  BY DEF Filled
<1> HIDE DEF k
<1>6. k \in DOMAIN c
  BY <1>3, <1>4, LenProperties
<1>7. QED
  BY <1>5, <1>6 DEF ToSet

\* What a bucket contributed fits into any set that has its indices, because no index
\* is in the pool twice.
LEMMA CountFits ==
  ASSUME NEW st, NEW p, NEW n \in Nat, NEW t,
         \A i, j \in UnlockedOf(st, n) : p[i].index = p[j].index => i = j,
         NEW D, IsFiniteSet(D), \A i \in UnlockedIn(st, p, n, t) : p[i].index \in D
  PROVE  Cardinality(UnlockedIn(st, p, n, t)) <= Cardinality(D)
<1> DEFINE U == UnlockedIn(st, p, n, t)
           f == [i \in U |-> p[i].index]
<1>1. U \in SUBSET UnlockedOf(st, n)
  BY DEF UnlockedIn
<1>2. IsFiniteSet(U) /\ Cardinality(U) \in Nat /\ Cardinality(D) \in Nat
  BY <1>1, UnlockedFinite, FS_CardinalityType
<1>3. f \in [U -> D]
  OBVIOUS
<1>4. \A i, j \in U : f[i] = f[j] => i = j
  BY <1>1
<1> HIDE DEF U, f
<1>5. ~(Cardinality(D) < Cardinality(U))
  BY <1>2, <1>3, <1>4, FS_PigeonHole
<1>6. QED
  BY <1>2, <1>5 DEF U

\* The three counts are those of all that was collected.
LEMMA CountsAddUp ==
  ASSUME NEW st, NEW p, NEW n \in Nat, \A i \in 1 .. n : p[i].bucket \in SlotTypes
  PROVE  Cardinality(UnlockedIn(st, p, n, "PRE_FORK"))
           + Cardinality(UnlockedIn(st, p, n, "POST_FORK"))
           + Cardinality(UnlockedIn(st, p, n, "NORMAL")) = Cardinality(UnlockedOf(st, n))
<1> DEFINE A == UnlockedIn(st, p, n, "PRE_FORK")
           B == UnlockedIn(st, p, n, "POST_FORK")
           C == UnlockedIn(st, p, n, "NORMAL")
           U == UnlockedOf(st, n)
<1>1. A \in SUBSET U /\ B \in SUBSET U /\ C \in SUBSET U
  BY DEF UnlockedIn
<1>2. /\ IsFiniteSet(A) /\ IsFiniteSet(B) /\ IsFiniteSet(C)
      /\ Cardinality(A) \in Nat /\ Cardinality(B) \in Nat /\ Cardinality(C) \in Nat
  BY <1>1, UnlockedFinite
<1>3. U = (A \cup B) \cup C
  <2>1. U \subseteq 1 .. n
    BY DEF UnlockedOf
  <2>2. \A i \in U : p[i].bucket \in {"PRE_FORK", "POST_FORK", "NORMAL"}
    BY <2>1 DEF SlotTypes
  <2>3. QED
    BY <1>1, <2>2 DEF UnlockedIn
<1>4. A \cap B = {} /\ (A \cup B) \cap C = {}
  BY DEF UnlockedIn
<1> HIDE DEF A, B, C, U
<1>5. IsFiniteSet(A \cup B) /\ Cardinality(A \cup B) = Cardinality(A) + Cardinality(B)
  <2>1. Cardinality(A \cup B) = Cardinality(A) + Cardinality(B) - Cardinality(A \cap B)
    BY <1>2, FS_Union
  <2>2. Cardinality(A \cap B) = 0
    BY <1>4, FS_EmptySet
  <2>3. IsFiniteSet(A \cup B)
    BY <1>2, FS_Union
  <2>4. QED
    BY <1>2, <2>1, <2>2, <2>3
<1>6. Cardinality((A \cup B) \cup C) = Cardinality(A \cup B) + Cardinality(C)
  <2>1. Cardinality((A \cup B) \cup C)
          = Cardinality(A \cup B) + Cardinality(C) - Cardinality((A \cup B) \cap C)
    BY <1>2, <1>5, FS_Union
  <2>2. Cardinality((A \cup B) \cap C) = 0
    BY <1>4, FS_EmptySet
  <2>3. QED
    BY <1>2, <1>5, <2>1, <2>2
<1>7. QED
  BY <1>3, <1>5, <1>6 DEF A, B, C, U

\* The candidates of a bucket that are in the pool.
InPool(p, t) == {i \in DOMAIN p : p[i].bucket = t}

\* What the bucket of the i-th draw_pool_slot call may have contributed so far.
Quota(i) == IF i < bucket THEN plan[BucketOrder[i]] ELSE IF i = bucket THEN got ELSE 0

\* The buckets fill up one after the other, none beyond its size, and the sizes
\* are those of the source's place relative to the fork.
QuotaBook ==
  /\ pc = "draw" =>
       \A i \in {1, 2, 3} : Cardinality(InPool(pool, BucketOrder[i])) <= Quota(i)
  /\ pc \in {"pool_status", "scan", "final_details"} =>
       \A t \in SlotTypes : Cardinality(InPool(pool, t)) <= plan[t]
  /\ pc \in InSource \ {"real_check"} => plan = Split(seg, isPreFork)

LEMMA InPoolFinite ==
  ASSUME NEW p \in Seq(Candidates), NEW t
  PROVE  IsFiniteSet(InPool(p, t)) /\ Cardinality(InPool(p, t)) \in Nat
<1>1. DOMAIN p = 1 .. Len(p) /\ Len(p) \in Nat
  BY LenProperties
<1>2. IsFiniteSet(DOMAIN p)
  BY <1>1, FS_Interval
<1>3. InPool(p, t) \in SUBSET DOMAIN p
  BY DEF InPool
<1>4. QED
  BY <1>2, <1>3, FS_Subset, FS_CardinalityType

\* One more candidate counts for its own bucket only.
LEMMA InPoolNext ==
  ASSUME NEW p \in Seq(Candidates), NEW c \in Candidates, NEW t
  PROVE  Cardinality(InPool(Append(p, c), t))
           <= (IF c.bucket = t THEN Cardinality(InPool(p, t)) + 1 ELSE Cardinality(InPool(p, t)))
<1> DEFINE n == Len(p)
           q == Append(p, c)
<1>1. /\ n \in Nat /\ DOMAIN p = 1 .. n /\ DOMAIN q = 1 .. n + 1
      /\ q[n + 1] = c /\ \A i \in 1 .. n : q[i] = p[i]
  BY AppendProperties, LenProperties
<1>2. IsFiniteSet(InPool(p, t)) /\ Cardinality(InPool(p, t)) \in Nat
  BY InPoolFinite
<1> HIDE DEF n, q
<1>3. n + 1 \notin DOMAIN p /\ DOMAIN q = DOMAIN p \cup {n + 1}
  BY <1>1
<1>4. CASE c.bucket = t
  <2>1. InPool(q, t) = InPool(p, t) \cup {n + 1} /\ n + 1 \notin InPool(p, t)
    BY <1>1, <1>3, <1>4 DEF InPool
  <2>2. Cardinality(InPool(q, t)) = Cardinality(InPool(p, t)) + 1
    BY <1>2, <2>1, FS_AddElement
  <2>3. QED
    BY <1>2, <1>4, <2>2 DEF q
<1>5. CASE c.bucket # t
  <2>1. InPool(q, t) = InPool(p, t)
    BY <1>1, <1>3, <1>5 DEF InPool
  <2>2. QED
    BY <1>2, <1>5, <2>1 DEF q
<1>6. QED
  BY <1>4, <1>5

LEMMA NextQuotaBook == TypeInv /\ QuotaBook /\ [Next]_vars => QuotaBook'
<1> SUFFICES ASSUME TypeInv, QuotaBook, [Next]_vars PROVE QuotaBook'
  OBVIOUS
<1>0. /\ BucketOrder[1] = "PRE_FORK" /\ BucketOrder[2] = "POST_FORK" /\ BucketOrder[3] = "NORMAL"
      /\ Len(BucketOrder) = 3 /\ bucket \in {1, 2, 3} /\ got \in Nat /\ pool \in Seq(Candidates)
      /\ \A t \in SlotTypes : plan[t] \in Nat
  BY BucketType DEF BucketOrder, TypeInv, TypeOK
<1>1. CASE CheckReal
  <2>1. pool' = <<>> /\ got' = 0 /\ bucket' = 1 /\ pc' = "draw" /\ seg' = seg
    BY <1>1 DEF CheckReal, TypeInv, DrawBook, Idle
  <2>2. \A t : Cardinality(InPool(<<>>, t)) = 0
    <3>1. \A t : InPool(<<>>, t) = {}
      BY DEF InPool
    <3>2. QED
      BY <3>1, FS_EmptySet
  <2>3. \A i \in {1, 2, 3} : Quota(i)' \in Nat /\ (i # 1 => Quota(i)' = 0) /\ Quota(1)' = 0
    BY <2>1 DEF Quota
  <2>4. plan' = Split(seg', isPreFork')
    BY <1>1, <2>1 DEF CheckReal
  <2>5. \A i \in {1, 2, 3} : Cardinality(InPool(pool', BucketOrder[i])) <= Quota(i)'
    BY <2>1, <2>2, <2>3
  <2>6. QED
    BY <2>1, <2>4, <2>5 DEF QuotaBook
<1>2. CASE DrawCandidate
  <2>1. /\ pc = "draw" /\ pc' = pc /\ plan' = plan /\ bucket' = bucket /\ seg' = seg
        /\ isPreFork' = isPreFork
    BY <1>2 DEF DrawCandidate
  <2>2. PICK p \in Drawable(Bucket, seg) :
          LET passed == PassedOver(p, Real, pool)
          IN  /\ got'   = IF passed THEN got ELSE got + 1
              /\ pool'  = IF passed THEN pool
                          ELSE Append(pool, [index |-> p, bucket |-> Bucket])
    BY <1>2 DEF DrawCandidate
  <2> DEFINE c == [index |-> p, bucket |-> Bucket]
  <2>3. c \in Candidates /\ c.bucket = Bucket
    BY <1>0, BucketType, PickableAssumption, NumOutsAssumption DEF Drawable, Candidates, BucketOrder
  <2>4. CASE PassedOver(p, Real, pool)
    BY <2>1, <2>2, <2>4 DEF QuotaBook, Quota
  <2>5. CASE ~PassedOver(p, Real, pool)
    <3>1. got' = got + 1 /\ pool' = Append(pool, c)
      BY <2>2, <2>5
    <3> HIDE DEF c
    <3>2. ASSUME NEW i \in {1, 2, 3}
          PROVE  Cardinality(InPool(pool', BucketOrder[i])) <= Quota(i)'
      <4> DEFINE k == Cardinality(InPool(pool, BucketOrder[i]))
                 m == Cardinality(InPool(pool', BucketOrder[i]))
      <4>1. k \in Nat
        BY <1>0, InPoolFinite
      <4>2. k <= Quota(i)
        BY <2>1 DEF QuotaBook
      <4>3. pool' \in Seq(Candidates) /\ m \in Nat
        <5>1. pool' \in Seq(Candidates)
          BY <1>0, <2>3, <3>1, AppendProperties
        <5>2. QED
          BY <5>1, InPoolFinite
      <4>4. m <= (IF Bucket = BucketOrder[i] THEN k + 1 ELSE k)
        BY <1>0, <2>3, <3>1, InPoolNext
      <4>5. Bucket = BucketOrder[i] <=> bucket = i
        BY <1>0 DEF Bucket
      <4> HIDE DEF k, m
      <4>6. Quota(i)' = IF i = bucket THEN got + 1 ELSE Quota(i)
        BY <2>1, <3>1 DEF Quota
      <4>7. Quota(i) = (IF i = bucket THEN got ELSE Quota(i)) /\ Quota(i) \in Nat
        BY <1>0 DEF Quota, SlotTypes
      <4>8. m <= Quota(i)'
        BY <1>0, <4>1, <4>2, <4>3, <4>4, <4>5, <4>6, <4>7
      <4>9. QED
        BY <4>8 DEF m
    <3>3. QED
      BY <2>1, <3>2 DEF QuotaBook
  <2>6. QED
    BY <2>4, <2>5
<1>3. CASE EndBucket
  <2>1. /\ pc = "draw" /\ plan' = plan /\ pool' = pool /\ got' = 0 /\ seg' = seg
        /\ isPreFork' = isPreFork
        /\ IF bucket < 3 THEN bucket' = bucket + 1 /\ pc' = "draw"
           ELSE bucket' = bucket /\ pc' = "pool_status"
    BY <1>0, <1>3 DEF EndBucket
  <2>2. got <= plan[BucketOrder[bucket]]
    BY <2>1 DEF TypeInv, DrawBook, Bucket
  <2>3. \A i \in {1, 2, 3} : Cardinality(InPool(pool, BucketOrder[i])) \in Nat
    BY <1>0, InPoolFinite
  <2>4. \A i \in {1, 2, 3} : Cardinality(InPool(pool, BucketOrder[i])) <= Quota(i)
    BY <2>1 DEF QuotaBook
  <2>5. \A i \in {1, 2, 3} : i <= bucket =>
          Cardinality(InPool(pool, BucketOrder[i])) <= plan[BucketOrder[i]]
    BY <1>0, <2>2, <2>3, <2>4 DEF Quota, SlotTypes
  <2>6. CASE bucket < 3
    <3>1. \A i \in {1, 2, 3} :
            Quota(i)' = IF i <= bucket THEN plan[BucketOrder[i]] ELSE 0
      BY <1>0, <2>1, <2>6 DEF Quota
    <3>2. \A i \in {1, 2, 3} : i > bucket => Cardinality(InPool(pool, BucketOrder[i])) <= 0
      BY <1>0, <2>4 DEF Quota
    <3>3. \A i \in {1, 2, 3} : Cardinality(InPool(pool', BucketOrder[i])) <= Quota(i)'
      BY <1>0, <2>1, <2>5, <3>1, <3>2
    <3>4. QED
      BY <2>1, <2>6, <3>3 DEF QuotaBook
  <2>7. CASE bucket = 3
    <3>1. \A t \in SlotTypes : Cardinality(InPool(pool', t)) <= plan'[t]
      BY <1>0, <2>1, <2>5, <2>7 DEF SlotTypes
    <3>2. pc' = "pool_status" /\ plan' = Split(seg', isPreFork')
      BY <1>0, <2>1, <2>7 DEF QuotaBook, InSource
    <3>3. QED
      BY <3>1, <3>2 DEF QuotaBook
  <2>8. QED
    BY <1>0, <2>6, <2>7
<1>4. CASE FetchStatus \/ ScanSlot \/ EnoughDecoys
  BY <1>4 DEF FetchStatus, ScanSlot, EnoughDecoys, QuotaBook, InSource, drawVars
<1>5. CASE UNCHANGED <<pc, seg, drawVars>>
  BY <1>5 DEF QuotaBook, Quota, drawVars
<1>6. CASE pc' \in {"real_check", "fee", "open", "write", "exited"}
  BY <1>6 DEF QuotaBook, InSource
<1>7. \/ CheckReal \/ DrawCandidate \/ EndBucket \/ FetchStatus \/ ScanSlot \/ EnoughDecoys
      \/ UNCHANGED <<pc, seg, drawVars>>
      \/ pc' \in {"real_check", "fee", "open", "write", "exited"}
  <2>1. BuildRing => pc' \in {"real_check", "fee"}
    BY DEF BuildRing
  <2>2. QED
    BY <2>1 DEF Next, Tool, Draw, Fill, Publish, Startup, RpcFails, PoolTooShort, FetchFee,
                OpenRingFile, WriteRingFile, Kill, Exited, Stop, vars
<1>8. QED
  BY <1>1, <1>2, <1>3, <1>4, <1>5, <1>6, <1>7

CountInv ==
  /\ TypeInv /\ PoolSound /\ FillInOrder /\ JobBook /\ AcceptedBook /\ QuotaBook
  /\ CountsAreTrue

LEMMA NewRingFits ==
  ASSUME TypeInv, PoolSound, FillInOrder, AcceptedBook, QuotaBook, pc = "final_details"
  PROVE  Fits(SourceJson(Real, confirmed, accepted, Len(pool), lockedSkipped,
                         Flags(seg, isPreFork)), accepted, seg)
<1> DEFINE r  == SourceJson(Real, confirmed, accepted, Len(pool), lockedSkipped,
                      Flags(seg, isPreFork))
           D  == ToSet(confirmed)
           U(t) == UnlockedIn(status, pool, at, t)
<1>1. r.counts = accepted /\ r.decoys = confirmed /\ r.pool_size = Len(pool)
      /\ r.locked_skipped = lockedSkipped /\ r.flags = Flags(seg, isPreFork)
      /\ r.flags.is_pre_fork = isPreFork
  BY DEF SourceJson, Flags
<1>2. Filled(status, pool, at, confirmed, accepted, lockedSkipped)
  BY FilledIsFillInOrder
<1>3. /\ pool \in Seq(Candidates) /\ confirmed \in Seq(Nat) /\ at \in Nat /\ Len(pool) \in Nat
      /\ DOMAIN pool = 1 .. Len(pool) /\ at <= Len(pool) /\ Len(confirmed) = NumDecoys
      /\ seg.till \in Nat
  BY LenProperties DEF TypeInv, TypeOK, ScanBook
<1>4. \A i \in 1 .. at : i \in DOMAIN pool
  BY <1>3
<1>5. \A i \in 1 .. at : pool[i].bucket \in SlotTypes /\ pool[i].index \in Nat
  <2>1. \A i \in DOMAIN pool : pool[i] \in Candidates
    BY <1>3, ElementOfSeq
  <2>2. QED
    BY <1>4, <2>1 DEF Candidates
<1>6. accepted["PRE_FORK"] + accepted["POST_FORK"] + accepted["NORMAL"] = NumDecoys
  <2>1. /\ accepted["PRE_FORK"] = Cardinality(U("PRE_FORK"))
        /\ accepted["POST_FORK"] = Cardinality(U("POST_FORK"))
        /\ accepted["NORMAL"] = Cardinality(U("NORMAL"))
        /\ Len(confirmed) = Cardinality(UnlockedOf(status, at))
    BY <1>2 DEF Filled, SlotTypes
  <2>2. Cardinality(U("PRE_FORK")) + Cardinality(U("POST_FORK")) + Cardinality(U("NORMAL"))
          = Cardinality(UnlockedOf(status, at))
    BY <1>3, <1>5, CountsAddUp
  <2> HIDE DEF U
  <2>3. QED
    BY <1>3, <2>1, <2>2
<1>7. \A i \in UnlockedOf(status, at) : pool[i].index \in D /\ i \in DOMAIN pool
  BY <1>2, <1>3, <1>4, TakenIsCollected DEF UnlockedOf
<1>8. \A i, j \in UnlockedOf(status, at) : pool[i].index = pool[j].index => i = j
  BY <1>7 DEF PoolSound
<1>9. IsFiniteSet(D)
  BY DEF AcceptedBook
<1>10. accepted["PRE_FORK"] <= Cardinality({d \in D : (d < seg.till) = TRUE})
  <2> DEFINE S == {d \in D : (d < seg.till) = TRUE}
  <2>1. IsFiniteSet(S)
    BY <1>9, FS_Subset
  <2>2. \A i \in U("PRE_FORK") : pool[i].index \in S
    <3>1. SUFFICES ASSUME NEW i \in U("PRE_FORK") PROVE pool[i].index \in S
      OBVIOUS
    <3>2. i \in UnlockedOf(status, at) /\ pool[i].bucket = "PRE_FORK"
      BY DEF UnlockedIn
    <3>3. pool[i].index < seg.till
      BY <1>7, <3>2 DEF PoolSound
    <3>4. QED
      BY <1>7, <3>2, <3>3
  <2>3. Cardinality(U("PRE_FORK")) <= Cardinality(S)
    BY <1>3, <1>8, <2>1, <2>2, CountFits
  <2>4. accepted["PRE_FORK"] = Cardinality(U("PRE_FORK"))
    BY <1>2 DEF Filled, SlotTypes
  <2> HIDE DEF U, S
  <2>5. accepted["PRE_FORK"] <= Cardinality(S)
    BY <2>3, <2>4
  <2>6. QED
    BY <2>5 DEF S
<1>11. accepted["POST_FORK"] <= Cardinality({d \in D : (d < seg.till) = FALSE})
  <2> DEFINE S == {d \in D : (d < seg.till) = FALSE}
  <2>1. IsFiniteSet(S)
    BY <1>9, FS_Subset
  <2>2. \A i \in U("POST_FORK") : pool[i].index \in S
    <3>1. SUFFICES ASSUME NEW i \in U("POST_FORK") PROVE pool[i].index \in S
      OBVIOUS
    <3>2. i \in UnlockedOf(status, at) /\ pool[i].bucket = "POST_FORK"
      BY DEF UnlockedIn
    <3>3. pool[i].index >= seg.till /\ pool[i].index \in Nat
      BY <1>5, <1>7, <3>2 DEF PoolSound, UnlockedOf
    <3>4. (pool[i].index < seg.till) = FALSE
      BY <1>3, <3>3
    <3>5. QED
      BY <1>7, <3>2, <3>4
  <2>3. Cardinality(U("POST_FORK")) <= Cardinality(S)
    BY <1>3, <1>8, <2>1, <2>2, CountFits
  <2>4. accepted["POST_FORK"] = Cardinality(U("POST_FORK"))
    BY <1>2 DEF Filled, SlotTypes
  <2> HIDE DEF U, S
  <2>5. accepted["POST_FORK"] <= Cardinality(S)
    BY <2>3, <2>4
  <2>6. QED
    BY <2>5 DEF S
<1>12. NumDecoys + lockedSkipped <= Len(pool)
  <2>1. lockedSkipped = at - NumDecoys /\ NumDecoys \in Nat
    BY <1>2, <1>3, DecoysAssumption DEF Filled
  <2>2. QED
    BY <1>3, <2>1
<1>13. \A t \in SlotTypes : accepted[t] <= Split(seg, isPreFork)[t]
  <2> SUFFICES ASSUME NEW t \in SlotTypes PROVE accepted[t] <= Split(seg, isPreFork)[t]
    OBVIOUS
  <2>1. accepted[t] = Cardinality(U(t))
    BY <1>2 DEF Filled
  <2>2. U(t) \in SUBSET InPool(pool, t)
    BY <1>7 DEF UnlockedIn, InPool
  <2>3. IsFiniteSet(InPool(pool, t)) /\ Cardinality(InPool(pool, t)) \in Nat
    BY <1>3, InPoolFinite
  <2>4. Cardinality(U(t)) <= Cardinality(InPool(pool, t)) /\ Cardinality(U(t)) \in Nat
    BY <2>2, <2>3, FS_Subset, FS_CardinalityType
  <2>5. Cardinality(InPool(pool, t)) <= plan[t] /\ plan = Split(seg, isPreFork) /\ plan[t] \in Nat
    BY DEF QuotaBook, InSource, TypeInv, TypeOK
  <2> HIDE DEF U
  <2>6. QED
    BY <2>1, <2>3, <2>4, <2>5
<1> HIDE DEF r
<1>14. QED
  BY <1>1, <1>6, <1>10, <1>11, <1>12, <1>13 DEF Fits, r

LEMMA NextCountsAreTrue == CountInv /\ [Next]_vars => CountsAreTrue'
<1> SUFFICES ASSUME CountInv, [Next]_vars PROVE CountsAreTrue'
  OBVIOUS
<1>1. \A k \in DOMAIN rings : Fits(rings[k], rings[k].counts, seg)
  BY DEF CountInv, CountsAreTrue
<1>2. SUFFICES \A k \in DOMAIN rings' : Fits(rings'[k], rings'[k].counts, seg')
  BY DEF CountsAreTrue
<1>3. CASE BuildRing
  <2> DEFINE r == SourceJson(Real, confirmed, accepted, Len(pool), lockedSkipped,
                      Flags(seg, isPreFork))
             n == Len(rings)
  <2>1. pc = "final_details" /\ rings' = Append(rings, r) /\ seg' = seg
    BY <1>3 DEF BuildRing
  <2>2. r.counts = accepted /\ Fits(r, r.counts, seg)
    BY <2>1, NewRingFits DEF CountInv, SourceJson
  <2>3. rings \in Seq(Jsons)
    BY DEF CountInv, JobBook
  <2>4. r \in Jsons
    BY NewRingType DEF CountInv
  <2> HIDE DEF r
  <2>5. /\ DOMAIN rings' = 1 .. n + 1 /\ rings'[n + 1] = r /\ n \in Nat
        /\ \A k \in 1 .. n : rings'[k] = rings[k] /\ k \in DOMAIN rings
    BY <2>1, <2>3, <2>4, AppendProperties, LenProperties
  <2> HIDE DEF n
  <2>6. \A k \in 1 .. n + 1 : k = n + 1 \/ k \in 1 .. n
    BY <2>5
  <2>7. QED
    BY <1>1, <2>1, <2>2, <2>5, <2>6
<1>4. CASE Startup
  <2>1. rings \in Seq(Jsons) /\ Len(rings) = 0 /\ rings' = rings
    BY <1>4 DEF Startup, outVars, CountInv, JobBook
  <2>2. DOMAIN rings' = {}
    BY <2>1, LenProperties
  <2>3. QED
    BY <2>2
<1>5. CASE UNCHANGED <<seg, rings>>
  BY <1>1, <1>5
<1>6. BuildRing \/ Startup \/ UNCHANGED <<seg, rings>>
  BY DEF Next, Tool, Draw, Fill, Publish, CheckReal, RpcFails, DrawCandidate, EndBucket,
         FetchStatus, ScanSlot, PoolTooShort, EnoughDecoys, FetchFee, OpenRingFile,
         WriteRingFile, Kill, Exited, vars, outVars
<1>7. QED
  BY <1>3, <1>4, <1>5, <1>6

LEMMA CountInvHolds == Spec => []CountInv
<1>1. Init => CountInv
  <2> SUFFICES ASSUME Init PROVE CountInv
    OBVIOUS
  <2>1. ToSet(confirmed) = {} /\ Len(confirmed) = 0
    BY DEF Init, ToSet
  <2>2. AcceptedBook
    BY <2>1, FS_EmptySet DEF AcceptedBook
  <2>3. JobBook
    BY EmptySeq DEF Init, JobBook, InSource, Publishing
  <2>4. FillInOrder
    BY FilledAtFirst, FilledIsFillInOrder DEF Init
  <2>5. PoolSound /\ CountsAreTrue /\ QuotaBook
    BY DEF Init, PoolSound, CountsAreTrue, QuotaBook, InSource
  <2>6. QED
    BY <2>2, <2>3, <2>4, <2>5, InitTypeInv DEF CountInv
<1>2. CountInv /\ [Next]_vars => CountInv'
  BY NextTypeInv, NextPoolSound, NextFillInOrder, NextJobBook, NextAcceptedBook,
     NextQuotaBook, NextCountsAreTrue DEF CountInv
<1>3. QED
  BY <1>1, <1>2, PTL DEF Spec

\* The counts of main.cpp:692-701 are true, for every chain, pool, ring size and
\* fork limit: in each ring they fit the run that wrote them.
THEOREM CountsTellTheSplit == Spec => []CountsAreTrue
<1>1. CountInv => CountsAreTrue
  BY DEF CountInv
<1>2. QED
  BY <1>1, CountInvHolds, PTL

\* The segregation of any run a reader has to reckon with.
AnyRun == [after : BOOLEAN, shortly : BOOLEAN, segregate : BOOLEAN, mitigate : BOOLEAN, till : Nat]

\* Where the refuted SplitIsVerifiable does hold (README.md:209-211): in a ring whose
\* flags say that its pool was not split, because the chain is before the fork or
\* the pool is "restricted", no other counts fit, whatever till_fork and the options of
\* the run were.
UnsplitIsVerifiable ==
  \A k \in DOMAIN rings :
    ~rings[k].flags.is_after \/ rings[k].flags.restricted =>
      \A c \in [SlotTypes -> Nat], s \in AnyRun :
        Fits(rings[k], c, s) => c = rings[k].counts

\* Without a split all the decoys come from the full chain.
LEMMA UnsplitCounts ==
  ASSUME NEW r, r.flags.is_pre_fork \in BOOLEAN, ~r.flags.is_after \/ r.flags.restricted,
         NEW c \in [SlotTypes -> Nat],
         NEW s \in AnyRun, Fits(r, c, s)
  PROVE  c["PRE_FORK"] = 0 /\ c["POST_FORK"] = 0 /\ c["NORMAL"] = NumDecoys
<1> DEFINE pre == r.flags.is_pre_fork
<1>1. r.flags.is_after = s.after /\ r.flags.restricted = Restricted(s, pre)
  <2>1. r.flags = Flags(s, pre)
    BY DEF Fits
  <2>2. QED
    BY <2>1 DEF Flags
<1>2. ~(s.after /\ s.mitigate /\ ~Restricted(s, pre))
  BY <1>1
<1>3. Split(s, pre)["PRE_FORK"] = 0 /\ Split(s, pre)["POST_FORK"] = 0
  BY <1>2 DEF Split, SlotTypes
<1>4. /\ c["PRE_FORK"] <= Split(s, pre)["PRE_FORK"] /\ c["POST_FORK"] <= Split(s, pre)["POST_FORK"]
      /\ c["PRE_FORK"] + c["POST_FORK"] + c["NORMAL"] = NumDecoys
  BY DEF Fits, SlotTypes
<1>5. c["PRE_FORK"] \in Nat /\ c["POST_FORK"] \in Nat /\ c["NORMAL"] \in Nat
  BY DEF SlotTypes
<1> HIDE DEF pre
<1>6. QED
  BY <1>3, <1>4, <1>5

\* The sources of a job have flags and counts of their types.
RingTypes ==
  \A k \in DOMAIN rings : /\ rings[k].flags \in FlagSets
                          /\ rings[k].counts \in [SlotTypes -> Nat]

LEMMA RingsTyped == JobBook => RingTypes
<1> SUFFICES ASSUME JobBook, NEW k \in DOMAIN rings
             PROVE  rings[k].flags \in FlagSets /\ rings[k].counts \in [SlotTypes -> Nat]
  BY DEF RingTypes
<1>1. rings[k] \in Jsons
  <2>1. rings \in Seq(Jsons)
    BY DEF JobBook
  <2>2. QED
    BY <2>1, ElementOfSeq
<1> DEFINE Typed(y) == y.flags \in FlagSets /\ y.counts \in [SlotTypes -> Nat]
<1>2. \A x \in Nat, d \in Seq(Nat), c \in [SlotTypes -> Nat], n \in Nat, m \in Nat,
         f \in FlagSets : Typed(SourceJson(x, d, c, n, m, f))
  BY DEF SourceJson
<1> HIDE DEF Typed
<1>3. \A y \in Jsons : Typed(y)
  BY <1>2 DEF Jsons
<1>4. QED
  BY <1>1, <1>3 DEF Typed

\* The condition that README.md:209-211 lacks, for every chain, pool and fork.
THEOREM SplitShowsWithoutSplit == Spec => []UnsplitIsVerifiable
<1>1. CountInv => UnsplitIsVerifiable
  <2> SUFFICES ASSUME CountInv, NEW k \in DOMAIN rings,
                      ~rings[k].flags.is_after \/ rings[k].flags.restricted,
                      NEW c \in [SlotTypes -> Nat], NEW s \in AnyRun,
                      Fits(rings[k], c, s)
               PROVE  c = rings[k].counts
    BY DEF UnsplitIsVerifiable
  <2> DEFINE d == rings[k].counts
  <2>1. rings[k].flags.is_pre_fork \in BOOLEAN /\ d \in [SlotTypes -> Nat]
    BY RingsTyped DEF CountInv, RingTypes, FlagSets
  <2>2. Fits(rings[k], d, seg)
    BY DEF CountInv, CountsAreTrue
  <2>3. seg \in AnyRun
    BY DEF CountInv, TypeInv, TypeOK, AnyRun
  <2>4. d["PRE_FORK"] = 0 /\ d["POST_FORK"] = 0 /\ d["NORMAL"] = NumDecoys
    BY <2>1, <2>2, <2>3, UnsplitCounts
  <2>5. c["PRE_FORK"] = 0 /\ c["POST_FORK"] = 0 /\ c["NORMAL"] = NumDecoys
    BY <2>1, UnsplitCounts
  <2> HIDE DEF d
  <2>6. \A t \in SlotTypes : c[t] = d[t]
    BY <2>4, <2>5 DEF SlotTypes
  <2>7. c = d
    BY <2>1, <2>6
  <2>8. QED
    BY <2>7 DEF d
<1>2. QED
  BY <1>1, CountInvHolds, PTL

----------------------------------------------------------------------------
\* A set of numbers that is not empty has a smallest element.
LEMMA LeastOf ==
  ASSUME NEW S \in SUBSET Nat, S # {}
  PROVE  \E x \in S : \A y \in S : x <= y
<1> DEFINE R == OpToRel(<, Nat)
<1>1. PICK x \in S : \A y \in S : <<y, x>> \notin R
  <2>1. IsWellFoundedOn(R, Nat)
    BY NatLessThanWellFounded
  <2> HIDE DEF R
  <2>2. QED
    BY <2>1, WFMin
<1>2. \A y \in S : ~(y < x)
  BY <1>1 DEF OpToRel
<1>3. \A y \in S : x <= y
  BY <1>2
<1>4. QED
  BY <1>3

----------------------------------------------------------------------------
(* The ring.                                                               *)

\* The members are all different.
Distinct(m) == \A i, j \in DOMAIN m : m[i] = m[j] => i = j

LessThan(m, i) == {j \in DOMAIN m : m[j] < m[i] \/ (m[j] = m[i] /\ j < i)}

LEMMA RankIs == \A m, i : Rank(m, i) = Cardinality(LessThan(m, i))
BY DEF Rank, LessThan

\* A larger member has a larger rank, and every rank is below the number of members.
LEMMA RankGrows ==
  ASSUME NEW n \in Nat, NEW m \in [1 .. n -> Nat]
  PROVE  /\ \A i \in 1 .. n : Rank(m, i) \in 0 .. n - 1
         /\ \A i, j \in 1 .. n : m[i] < m[j] => Rank(m, i) < Rank(m, j)
<1>1. ASSUME NEW i \in 1 .. n
      PROVE  /\ IsFiniteSet(LessThan(m, i)) /\ Cardinality(LessThan(m, i)) \in 0 .. n - 1
             /\ i \notin LessThan(m, i)
  <2>1. i \notin LessThan(m, i) /\ LessThan(m, i) \in SUBSET (1 .. n)
    BY DEF LessThan
  <2>2. IsFiniteSet(1 .. n) /\ Cardinality(1 .. n) = n
    BY FS_Interval
  <2>3. LessThan(m, i) # 1 .. n
    BY <2>1
  <2>4. /\ IsFiniteSet(LessThan(m, i)) /\ Cardinality(LessThan(m, i)) <= n
        /\ Cardinality(LessThan(m, i)) = n => LessThan(m, i) = 1 .. n
    BY <2>1, <2>2, FS_Subset
  <2>5. Cardinality(LessThan(m, i)) \in Nat
    BY <2>4, FS_CardinalityType
  <2>6. QED
    BY <2>1, <2>3, <2>4, <2>5
<1>2. ASSUME NEW i \in 1 .. n, NEW j \in 1 .. n, m[i] < m[j]
      PROVE  Cardinality(LessThan(m, i)) < Cardinality(LessThan(m, j))
  <2> DEFINE A == LessThan(m, i)
             B == LessThan(m, j)
  <2>1. A \cup {i} \subseteq B
    BY <1>2 DEF LessThan
  <2>2. /\ IsFiniteSet(A) /\ i \notin A /\ Cardinality(A) \in Nat
        /\ IsFiniteSet(B) /\ Cardinality(B) \in Nat
    BY <1>1
  <2> HIDE DEF A, B
  <2>3. Cardinality(A \cup {i}) = Cardinality(A) + 1
    BY <2>2, FS_AddElement
  <2>4. Cardinality(A \cup {i}) <= Cardinality(B)
    BY <2>1, <2>2, FS_Subset
  <2>5. QED
    BY <2>2, <2>3, <2>4 DEF A, B
<1>3. QED
  BY <1>1, <1>2, RankIs

\* std::sort: when the members are all different every rank below their number belongs
\* to one of them, so the ring has the same members, in order.
LEMMA SortedRingIs ==
  ASSUME NEW n \in Nat, NEW m \in [1 .. n -> Nat], Distinct(m)
  PROVE  /\ SortedRing(m) \in [1 .. n -> Nat]
         /\ \A k \in 1 .. n - 1 : SortedRing(m)[k] < SortedRing(m)[k + 1]
         /\ ToSet(SortedRing(m)) = ToSet(m)
<1> DEFINE f == [i \in 1 .. n |-> Rank(m, i) + 1]
           At(k) == CHOOSE i \in 1 .. n : Rank(m, i) = k - 1
           r == SortedRing(m)
<1>1. /\ \A i \in 1 .. n : Rank(m, i) \in 0 .. n - 1
      /\ \A i, j \in 1 .. n : m[i] < m[j] => Rank(m, i) < Rank(m, j)
  BY RankGrows
<1>2. \A i, j \in 1 .. n : Rank(m, i) = Rank(m, j) => i = j
  <2>1. ASSUME NEW i \in 1 .. n, NEW j \in 1 .. n, Rank(m, i) = Rank(m, j) PROVE i = j
    <3>1. ~(Rank(m, i) < Rank(m, j)) /\ ~(Rank(m, j) < Rank(m, i))
      BY <1>1, <2>1
    <3>2. ~(m[i] < m[j]) /\ ~(m[j] < m[i])
      BY <1>1, <3>1
    <3>3. m[i] = m[j]
      BY <3>2
    <3>4. QED
      BY <3>3 DEF Distinct
  <2>2. QED
    BY <2>1
<1>3. \A k \in 1 .. n : \E i \in 1 .. n : Rank(m, i) = k - 1
  <2>1. f \in [1 .. n -> 1 .. n]
    BY <1>1
  <2>2. \A i, j \in 1 .. n : f[i] = f[j] => i = j
    BY <1>1, <1>2
  <2> HIDE DEF f
  <2>3. f \in Injection(1 .. n, 1 .. n)
    BY <2>1, <2>2 DEF Injection, IsInjective
  <2>4. IsFiniteSet(1 .. n)
    BY FS_Interval
  <2>5. f \in Surjection(1 .. n, 1 .. n)
    BY <2>3, <2>4, FS_Injection
  <2>6. \A k \in 1 .. n : \E i \in 1 .. n : f[i] = k
    BY <2>5 DEF Surjection
  <2>7. ASSUME NEW k \in 1 .. n PROVE \E i \in 1 .. n : Rank(m, i) = k - 1
    <3>1. PICK i \in 1 .. n : f[i] = k
      BY <2>6
    <3>2. Rank(m, i) + 1 = k /\ Rank(m, i) \in Nat
      BY <1>1, <3>1 DEF f
    <3>3. QED
      BY <3>2
  <2>8. QED
    BY <2>7
<1>4. \A k \in 1 .. n : At(k) \in 1 .. n /\ Rank(m, At(k)) = k - 1
  BY <1>3
<1>5. r = [k \in 1 .. n |-> m[At(k)]]
  BY DEF SortedRing
<1> HIDE DEF At, r, f
<1>6. r \in [1 .. n -> Nat]
  BY <1>4, <1>5
<1>7. ASSUME NEW k \in 1 .. n - 1 PROVE r[k] < r[k + 1]
  <2>1. k \in 1 .. n /\ k + 1 \in 1 .. n
    OBVIOUS
  <2> DEFINE i == At(k)
             j == At(k + 1)
  <2>2. i \in 1 .. n /\ j \in 1 .. n /\ Rank(m, i) = k - 1 /\ Rank(m, j) = k
    <3>1. Rank(m, At(k + 1)) = (k + 1) - 1
      BY <1>4, <2>1
    <3>2. QED
      BY <1>4, <2>1, <3>1
  <2>3. r[k] = m[i] /\ r[k + 1] = m[j]
    BY <1>5, <2>1
  <2> HIDE DEF i, j
  <2>4. ~(m[j] < m[i])
    BY <1>1, <2>2
  <2>5. m[i] # m[j]
    BY <2>2 DEF Distinct
  <2>6. QED
    BY <2>2, <2>3, <2>4, <2>5
<1>8. ToSet(r) = ToSet(m)
  <2>1. ASSUME NEW k \in 1 .. n PROVE \E i \in 1 .. n : r[k] = m[i]
    BY <1>4, <1>5
  <2>2. ASSUME NEW i \in 1 .. n PROVE \E k \in 1 .. n : r[k] = m[i]
    <3>1. PICK k \in 1 .. n : Rank(m, i) = k - 1
      <4>1. Rank(m, i) + 1 \in 1 .. n /\ Rank(m, i) = (Rank(m, i) + 1) - 1
        BY <1>1
      <4>2. QED
        BY <4>1
    <3>2. At(k) = i
      BY <1>2, <1>4, <3>1
    <3>3. QED
      BY <1>5, <3>2
  <2>3. DOMAIN r = 1 .. n /\ DOMAIN m = 1 .. n
    BY <1>6
  <2>4. ToSet(r) \subseteq ToSet(m)
    BY <2>1, <2>3 DEF ToSet
  <2>5. ToSet(m) \subseteq ToSet(r)
    <3>1. ASSUME NEW i \in 1 .. n PROVE m[i] \in ToSet(r)
      <4>1. PICK k \in 1 .. n : r[k] = m[i]
        BY <2>2
      <4>2. QED
        BY <2>3, <4>1 DEF ToSet
    <3>2. QED
      BY <2>3, <3>1 DEF ToSet
  <2>6. QED
    BY <2>4, <2>5
<1>9. QED
  BY <1>6, <1>7, <1>8 DEF r

\* Adding up the differences gives the ring back: the ring itself obeys the equation of
\* the sums, and no two functions do.
LEMMA DecodedIs ==
  ASSUME NEW n \in Nat, NEW ring \in [1 .. n -> Nat]
  PROVE  DOMAIN KeyOffsets(ring) = 1 .. n /\ Decoded(KeyOffsets(ring)) = ring
<1> DEFINE o == KeyOffsets(ring)
           Sums(f) == f = [i \in DOMAIN o |-> IF i = 1 THEN o[1] ELSE f[i - 1] + o[i]]
<1>1. DOMAIN o = 1 .. n /\ \A i \in 1 .. n : o[i] = IF i = 1 THEN ring[1] ELSE ring[i] - ring[i - 1]
  BY DEF KeyOffsets
<1>2. Decoded(o) = CHOOSE f : Sums(f)
  BY DEF Decoded
<1> HIDE DEF o
<1>3. Sums(ring)
  <2>1. ASSUME NEW i \in 1 .. n
        PROVE  ring[i] = IF i = 1 THEN o[1] ELSE ring[i - 1] + o[i]
    <3>1. CASE i = 1
      BY <1>1, <3>1
    <3>2. CASE i # 1
      <4>1. ring[i] \in Nat /\ ring[i - 1] \in Nat /\ o[i] = ring[i] - ring[i - 1]
        BY <1>1, <3>2
      <4>2. QED
        BY <3>2, <4>1
    <3>3. QED
      BY <3>1, <3>2
  <2>2. ring = [i \in 1 .. n |-> IF i = 1 THEN o[1] ELSE ring[i - 1] + o[i]]
    BY <2>1
  <2>3. QED
    BY <1>1, <2>2
<1>4. ASSUME NEW f, Sums(f) PROVE f = ring
  <2> DEFINE S == {i \in 1 .. n : f[i] # ring[i]}
  <2>1. f = [i \in 1 .. n |-> IF i = 1 THEN o[1] ELSE f[i - 1] + o[i]]
    BY <1>1, <1>4
  <2>2. ring = [i \in 1 .. n |-> IF i = 1 THEN o[1] ELSE ring[i - 1] + o[i]]
    BY <1>1, <1>3
  <2> HIDE DEF Sums
  <2>3. S = {}
    <3>1. SUFFICES ASSUME S # {} PROVE FALSE
      OBVIOUS
    <3>2. PICK i \in S : \A j \in S : i <= j
      <4>1. S \in SUBSET Nat
        OBVIOUS
      <4> HIDE DEF S
      <4>2. QED
        BY <3>1, <4>1, LeastOf
    <3>3. i \in 1 .. n /\ f[i] # ring[i]
      OBVIOUS
    <3>4. CASE i = 1
      BY <2>1, <2>2, <3>3, <3>4
    <3>5. CASE i # 1
      <4>1. i - 1 \in 1 .. n /\ ~(i <= i - 1)
        BY <3>3, <3>5
      <4>2. f[i - 1] = ring[i - 1]
        BY <3>2, <4>1
      <4>3. f[i] = f[i - 1] + o[i] /\ ring[i] = ring[i - 1] + o[i]
        BY <2>1, <2>2, <3>3, <3>5
      <4>4. QED
        BY <3>3, <4>2, <4>3
    <3>6. QED
      BY <3>4, <3>5
  <2>4. \A i \in 1 .. n : f[i] = ring[i]
    BY <2>3
  <2> DEFINE e(i) == IF i = 1 THEN o[1] ELSE f[i - 1] + o[i]
  <2>5. DOMAIN f = 1 .. n /\ f = [i \in 1 .. n |-> f[i]]
    BY <2>1
  <2>6. QED
    BY <2>4, <2>5
<1> HIDE DEF Sums
<1>5. Decoded(o) = ring
  BY <1>2, <1>3, <1>4
<1>6. QED
  BY <1>1, <1>5 DEF o

\* real_output_position is where the real output is.
LEMMA PositionIs ==
  ASSUME NEW n \in Nat, NEW ring \in [1 .. n -> Nat], NEW real \in ToSet(ring)
  PROVE  PositionOf(real, ring) + 1 \in 1 .. n /\ ring[PositionOf(real, ring) + 1] = real
<1> DEFINE I == {i \in 1 .. Len(ring) : ring[i] = real}
<1>1. Len(ring) = n /\ DOMAIN ring = 1 .. n
  BY FunctionIsSeq
<1>2. I \in SUBSET (1 .. n) /\ I # {} /\ \A i \in I : ring[i] = real
  BY <1>1 DEF ToSet
<1>3. PositionOf(real, ring) = Min(I) - 1
  BY <1>2 DEF PositionOf, SelectInSeq
<1> HIDE DEF I
<1>4. Min(I) \in I
  <2>1. \E x \in I : \A y \in I : x <= y
    <3>1. I \in SUBSET Nat
      BY <1>2
    <3>2. QED
      BY <1>2, <3>1, LeastOf
  <2>2. QED
    BY <2>1 DEF Min
<1>5. Min(I) \in 1 .. n /\ ring[Min(I)] = real
  BY <1>2, <1>4
<1>6. PositionOf(real, ring) + 1 = Min(I)
  BY <1>3, <1>5
<1>7. QED
  BY <1>5, <1>6

\* What a reader of the file makes of one ring.
Decodes(r, real) ==
  /\ Len(Decoded(r.offsets)) = NumDecoys + 1
  /\ \A i \in 1 .. NumDecoys : Decoded(r.offsets)[i] < Decoded(r.offsets)[i + 1]
  /\ ToSet(Decoded(r.offsets)) = {r.real} \cup ToSet(r.decoys)
  /\ Decoded(r.offsets)[r.position + 1] = real

\* A list with as many members as it has elements repeats none.
LEMMA AllDifferent ==
  ASSUME NEW c \in Seq(Nat), IsFiniteSet(ToSet(c)), Cardinality(ToSet(c)) = Len(c)
  PROVE  \A i, j \in 1 .. Len(c) : c[i] = c[j] => i = j
<1> DEFINE n == Len(c)
           T == ToSet(c)
<1>1. n \in Nat /\ DOMAIN c = 1 .. n
  BY LenProperties
<1>2. c \in [1 .. n -> T] /\ \A t \in T : \E i \in 1 .. n : c[i] = t
  <2>1. \A i \in DOMAIN c : c[i] \in T
    BY DEF ToSet
  <2>2. \A t \in T : \E i \in DOMAIN c : c[i] = t
    BY DEF ToSet
  <2>3. c = [i \in 1 .. n |-> c[i]]
    BY <1>1, LenProperties
  <2> HIDE DEF T, n
  <2>4. QED
    BY <1>1, <2>1, <2>2, <2>3
<1>3. Cardinality(T) = n
  OBVIOUS
<1> HIDE DEF T, n
<1>4. c \in Surjection(1 .. n, T)
  BY <1>2 DEF Surjection
<1>5. IsFiniteSet(1 .. n) /\ Cardinality(1 .. n) = n
  BY <1>1, FS_Interval
<1>6. c \in Injection(1 .. n, T)
  BY <1>3, <1>4, <1>5, FS_Surjection
<1>7. QED
  BY <1>6 DEF Injection, IsInjective, n

\* The real output and the decoys, as std::sort is given them, are all different.
LEMMA MembersAre ==
  ASSUME NEW real \in Nat, NEW c \in Seq(Nat), IsFiniteSet(ToSet(c)),
         Cardinality(ToSet(c)) = Len(c), real \notin ToSet(c)
  PROVE  /\ <<real>> \o c \in [1 .. Len(c) + 1 -> Nat]
         /\ Distinct(<<real>> \o c)
         /\ ToSet(<<real>> \o c) = {real} \cup ToSet(c)
<1> DEFINE n == Len(c)
           m == <<real>> \o c
<1>1. /\ n \in Nat /\ DOMAIN c = 1 .. n /\ \A i \in 1 .. n : c[i] \in Nat /\ c[i] \in ToSet(c)
  BY LenProperties, ElementOfSeq DEF ToSet
<1>2. /\ m \in Seq(Nat) /\ Len(m) = 1 + n
      /\ \A i \in 1 .. 1 + n : m[i] = IF i <= 1 THEN <<real>>[i] ELSE c[i - 1]
  <2>1. <<real>> \in Seq(Nat) /\ Len(<<real>>) = 1
    OBVIOUS
  <2>2. QED
    BY <2>1, ConcatProperties
<1>3. m[1] = real /\ \A i \in 1 .. n : m[i + 1] = c[i]
  BY <1>1, <1>2
<1>4. DOMAIN m = 1 .. n + 1 /\ m \in [1 .. n + 1 -> Nat]
  <2>1. Len(m) = n + 1 /\ m \in Seq(Nat)
    BY <1>1, <1>2
  <2> HIDE DEF m, n
  <2>2. m \in [1 .. Len(m) -> Nat] /\ DOMAIN m = 1 .. Len(m)
    BY <2>1, LenProperties, ElementOfSeq
  <2>3. QED
    BY <2>1, <2>2
<1>5. \A i, j \in 1 .. n : c[i] = c[j] => i = j
  BY AllDifferent
<1>6. \A i \in 1 .. n + 1 : i = 1 \/ (i - 1 \in 1 .. n /\ m[i] = c[i - 1])
  BY <1>1, <1>2
<1> HIDE DEF m, n
<1>7. Distinct(m)
  <2>1. SUFFICES ASSUME NEW i \in 1 .. n + 1, NEW j \in 1 .. n + 1, m[i] = m[j] PROVE i = j
    BY <1>4 DEF Distinct
  <2>2. CASE i = 1
    BY <1>1, <1>3, <1>6, <2>1, <2>2
  <2>3. CASE j = 1
    BY <1>1, <1>3, <1>6, <2>1, <2>3
  <2>4. CASE i # 1 /\ j # 1
    <3>1. i - 1 \in 1 .. n /\ j - 1 \in 1 .. n /\ c[i - 1] = c[j - 1]
      BY <1>6, <2>1, <2>4
    <3>2. i - 1 = j - 1
      BY <1>5, <3>1
    <3>3. QED
      BY <3>2
  <2>5. QED
    BY <2>2, <2>3, <2>4
<1>8. ToSet(m) \subseteq {real} \cup ToSet(c)
  <2>1. \A i \in 1 .. n + 1 : m[i] \in {real} \cup ToSet(c)
    BY <1>1, <1>3, <1>6
  <2>2. QED
    BY <1>4, <2>1 DEF ToSet
<1>9. {real} \cup ToSet(c) \subseteq ToSet(m)
  <2>1. 1 \in 1 .. n + 1 /\ \A i \in 1 .. n : i + 1 \in 1 .. n + 1
    BY <1>1
  <2>2. \A i \in DOMAIN m : m[i] \in ToSet(m)
    BY DEF ToSet
  <2>3. real \in ToSet(m) /\ \A i \in 1 .. n : c[i] \in ToSet(m)
    BY <1>3, <1>4, <2>1, <2>2
  <2>4. QED
    BY <1>1, <2>3 DEF ToSet
<1>10. QED
  BY <1>4, <1>7, <1>8, <1>9 DEF m, n

LEMMA NewRingDecodes ==
  ASSUME TypeInv, PoolSound, AcceptedBook, pc = "final_details"
  PROVE  Decodes(SourceJson(Real, confirmed, accepted, Len(pool), lockedSkipped,
                      Flags(seg, isPreFork)), Real)
<1> DEFINE r == SourceJson(Real, confirmed, accepted, Len(pool), lockedSkipped,
                      Flags(seg, isPreFork))
           m == <<Real>> \o confirmed
           n == NumDecoys + 1
           ring == SortedRing(m)
<1>1. /\ r.real = Real /\ r.decoys = confirmed /\ r.offsets = KeyOffsets(ring)
      /\ r.position = PositionOf(Real, ring)
  BY DEF SourceJson
<1>2. /\ pool \in Seq(Candidates) /\ confirmed \in Seq(Nat) /\ at \in Nat /\ Len(pool) \in Nat
      /\ DOMAIN pool = 1 .. Len(pool) /\ at <= Len(pool) /\ Len(confirmed) = NumDecoys
  BY LenProperties DEF TypeInv, TypeOK, ScanBook
<1>3. Real \in Nat
  BY SourcesAssumption, ElementOfSeq DEF Real, TypeInv, TypeOK
<1>4. Real \notin ToSet(confirmed)
  <2>1. \A i \in 1 .. at : i \in DOMAIN pool
    BY <1>2
  <2>2. \A i \in 1 .. at : pool[i].index # Real
    BY <2>1 DEF PoolSound
  <2>3. QED
    BY <2>2 DEF AcceptedBook
<1>5. n \in Nat /\ n - 1 = NumDecoys
  BY DecoysAssumption
<1>6. m \in [1 .. n -> Nat] /\ Distinct(m) /\ ToSet(m) = {Real} \cup ToSet(confirmed)
  BY <1>2, <1>3, <1>4, MembersAre DEF AcceptedBook
<1> HIDE DEF r, m, n
<1>7. /\ ring \in [1 .. n -> Nat] /\ ToSet(ring) = ToSet(m)
      /\ \A k \in 1 .. n - 1 : ring[k] < ring[k + 1]
  BY <1>5, <1>6, SortedRingIs
<1> HIDE DEF ring
<1>8. Decoded(r.offsets) = ring
  BY <1>1, <1>5, <1>7, DecodedIs
<1>9. Len(ring) = n
  BY <1>5, <1>7, FunctionIsSeq
<1>10. ring[PositionOf(Real, ring) + 1] = Real
  <2>1. Real \in ToSet(ring)
    BY <1>6, <1>7
  <2>2. QED
    BY <1>5, <1>7, <2>1, PositionIs
<1>11. ring[r.position + 1] = Real
  BY <1>1, <1>10
<1>12. \A k \in 1 .. NumDecoys : ring[k] < ring[k + 1]
  BY <1>5, <1>7
<1>13. ToSet(ring) = {r.real} \cup ToSet(r.decoys)
  BY <1>1, <1>6, <1>7
<1>14. Len(ring) = NumDecoys + 1
  BY <1>9 DEF n
<1>15. QED
  BY <1>8, <1>11, <1>12, <1>13, <1>14, Zenon DEF Decodes, r

RingInv == TypeInv /\ PoolSound /\ JobBook /\ AcceptedBook /\ RingDecodes

LEMMA NextRingDecodes == RingInv /\ [Next]_vars => RingDecodes'
<1> SUFFICES ASSUME RingInv, [Next]_vars PROVE RingDecodes'
  OBVIOUS
<1>1. \A k \in DOMAIN rings : Decodes(rings[k], Sources[k])
  BY DEF RingInv, RingDecodes, Decodes
<1>2. SUFFICES \A k \in DOMAIN rings' : Decodes(rings'[k], Sources[k])
  BY DEF RingDecodes, Decodes
<1>3. CASE BuildRing
  <2> DEFINE r == SourceJson(Real, confirmed, accepted, Len(pool), lockedSkipped,
                      Flags(seg, isPreFork))
             n == Len(rings)
  <2>1. pc = "final_details" /\ rings' = Append(rings, r)
    BY <1>3 DEF BuildRing
  <2>2. Decodes(r, Real)
    BY <2>1, NewRingDecodes DEF RingInv
  <2>3. rings \in Seq(Jsons)
    BY DEF RingInv, JobBook
  <2>4. r \in Jsons
    BY NewRingType DEF RingInv
  <2> HIDE DEF r
  <2>5. /\ DOMAIN rings' = 1 .. n + 1 /\ rings'[n + 1] = r /\ n \in Nat
        /\ \A k \in 1 .. n : rings'[k] = rings[k] /\ k \in DOMAIN rings
    BY <2>1, <2>3, <2>4, AppendProperties, LenProperties
  <2>6. n + 1 = src
    <3>1. Len(rings) = src - 1 /\ src \in Nat
      BY <2>1 DEF RingInv, JobBook, InSource, TypeInv, TypeOK
    <3>2. QED
      BY <3>1
  <2>7. Real = Sources[n + 1]
    BY <2>6 DEF Real
  <2> HIDE DEF n
  <2>8. \A k \in 1 .. n + 1 : k = n + 1 \/ k \in 1 .. n
    BY <2>5
  <2>9. QED
    BY <1>1, <2>2, <2>5, <2>7, <2>8
<1>4. CASE UNCHANGED rings
  BY <1>1, <1>4
<1>5. BuildRing \/ UNCHANGED rings
  BY DEF Next, Tool, Draw, Fill, Publish, Startup, CheckReal, RpcFails, DrawCandidate, EndBucket,
         FetchStatus, ScanSlot, PoolTooShort, EnoughDecoys, FetchFee, OpenRingFile,
         WriteRingFile, Kill, Exited, vars, outVars
<1>6. QED
  BY <1>3, <1>4, <1>5

\* main.cpp:661-684, for any sources, any pool and any number of decoys: the offsets of
\* every ring, added up, give the ring back, in strictly increasing order, made of the
\* real output and as many others as asked, and the real output is where
\* real_output_position says.
THEOREM RingsDecode == Spec => []RingDecodes
<1>1. Init => RingInv
  <2> SUFFICES ASSUME Init PROVE RingInv
    OBVIOUS
  <2>1. ToSet(confirmed) = {} /\ Len(confirmed) = 0
    BY DEF Init, ToSet
  <2>2. AcceptedBook
    BY <2>1, FS_EmptySet DEF AcceptedBook
  <2>3. JobBook
    BY EmptySeq DEF Init, JobBook, InSource, Publishing
  <2>4. PoolSound
    BY DEF Init, PoolSound
  <2>5. RingDecodes
    BY DEF Init, RingDecodes
  <2>6. QED
    BY <2>2, <2>3, <2>4, <2>5, InitTypeInv DEF RingInv
<1>2. RingInv /\ [Next]_vars => RingInv'
  BY NextTypeInv, NextPoolSound, NextJobBook, NextAcceptedBook, NextRingDecodes DEF RingInv
<1>3. RingInv => RingDecodes
  BY DEF RingInv
<1>4. QED
  BY <1>1, <1>2, <1>3, PTL DEF Spec

----------------------------------------------------------------------------
(* The work left.  Without a word of fairness: the run cannot go on for     *)
(* ever, as each of its steps uses up some of a budget fixed at the start.  *)

\* What one source costs at most: its look-up, MAX_LOCAL_TRIES picks for each of the
\* three buckets and the step that ends it, and what follows the pool.
SourceSteps == 3 * (MaxLocalTries + 1) + PoolSize + 4

\* The sources after this one, the fee, the opening and the writing of the file.
AfterSource == (Len(Sources) - src) * SourceSteps + 3

DrawSteps == (3 - bucket) * (MaxLocalTries + 1) + (MaxLocalTries - tries) + 1

\* How many steps the run can still take, wherever it is.
StepsLeft ==
  [startup       |-> AfterSource + SourceSteps + 1,
   real_check    |-> AfterSource + SourceSteps,
   draw          |-> AfterSource + DrawSteps + PoolSize + 3,
   pool_status   |-> AfterSource + PoolSize + 3,
   scan          |-> AfterSource + (PoolSize - at) + 2,
   final_details |-> AfterSource + 1,
   fee           |-> 3,
   open          |-> 2,
   write         |-> 1,
   exited        |-> 0][pc]

MostSteps == Len(Sources) * SourceSteps + 4

\* The ranges the budget rests on.
Budgeted ==
  /\ pc \in Places /\ src \in 1 .. Len(Sources) /\ bucket \in {1, 2, 3}
  /\ tries \in 0 .. MaxLocalTries /\ at \in 0 .. PoolSize
  /\ pc \in Idle => bucket = 1 /\ tries = 0
  /\ pc \in Idle \cup {"draw", "pool_status"} => at = 0

LEMMA InvBudgeted == TypeInv => Budgeted
<1> SUFFICES ASSUME TypeInv PROVE Budgeted
  OBVIOUS
<1>1. bucket \in {1, 2, 3}
  BY BucketType DEF TypeInv, TypeOK
<1>2. at \in 0 .. PoolSize
  <2>1. at \in Nat /\ at <= Len(status) /\ Len(status) <= Len(pool) /\ Len(pool) <= PoolSize
    BY DEF TypeInv, TypeOK
  <2>2. Len(status) \in Nat /\ Len(pool) \in Nat /\ PoolSize \in Nat
    BY DecoysAssumption, LenProperties DEF TypeInv, TypeOK
  <2>3. QED
    BY <2>1, <2>2
<1>3. QED
  BY <1>1, <1>2 DEF TypeInv, TypeOK, DrawBook, ScanBook, Budgeted

\* The sources left, as a count: one fewer source is one share of the budget less.
LEMMA OneShareLess ==
  ASSUME NEW n \in Nat, NEW k \in 1 .. n, NEW s \in Nat
  PROVE  /\ (n - k) * s \in Nat
         /\ k + 1 <= n => (n - k) * s = (n - (k + 1)) * s + s
         /\ (n - k) * s + s <= n * s
<1>1. PICK m \in Nat : n - k = m
  OBVIOUS
<1>2. m * s \in Nat /\ n = m + k /\ n * s = m * s + k * s
  BY <1>1
<1>3. s <= k * s
  <2>1. PICK j \in Nat : k = j + 1
    BY <1>1
  <2>2. k * s = j * s + s /\ j * s \in Nat
    BY <2>1
  <2>3. QED
    BY <2>2
<1>4. k + 1 <= n => m * s = (n - (k + 1)) * s + s
  BY <1>1, <1>2
<1>5. QED
  BY <1>1, <1>2, <1>3, <1>4

\* The budget as numbers.
Costs(left, after, drawing) ==
  /\ after \in Nat /\ after >= 3 /\ drawing \in Nat
  /\ pc = "startup" => left = after + SourceSteps + 1
  /\ pc = "real_check" => left = after + SourceSteps
  /\ pc = "draw" => left = after + drawing + PoolSize + 3
  /\ pc = "pool_status" => left = after + PoolSize + 3
  /\ pc = "scan" => left = after + (PoolSize - at) + 2
  /\ pc = "final_details" => left = after + 1
  /\ pc = "fee" => left = 3
  /\ pc = "open" => left = 2
  /\ pc = "write" => left = 1
  /\ pc = "exited" => left = 0

LEMMA StepsAreCosts == Budgeted => Costs(StepsLeft, AfterSource, DrawSteps)
<1> SUFFICES ASSUME Budgeted PROVE Costs(StepsLeft, AfterSource, DrawSteps)
  OBVIOUS
<1>1. AfterSource \in Nat /\ AfterSource >= 3
  <2>1. Len(Sources) \in Nat /\ SourceSteps \in Nat /\ src \in 1 .. Len(Sources)
    BY SourcesAssumption, LenProperties, DecoysAssumption, TriesAssumption DEF SourceSteps, Budgeted
  <2>2. (Len(Sources) - src) * SourceSteps \in Nat
    BY <2>1, OneShareLess
  <2>3. QED
    BY <2>2 DEF AfterSource
<1>2. DrawSteps \in Nat
  <2>1. bucket \in {1, 2, 3} /\ tries \in 0 .. MaxLocalTries /\ MaxLocalTries \in Nat
    BY TriesAssumption DEF Budgeted
  <2>2. QED
    BY <2>1 DEF DrawSteps
<1>3. QED
  BY <1>1, <1>2 DEF StepsLeft, Costs

LEMMA StepsInRange == Budgeted => StepsLeft \in 0 .. MostSteps
<1> SUFFICES ASSUME Budgeted PROVE StepsLeft \in 0 .. MostSteps
  OBVIOUS
<1>1. Costs(StepsLeft, AfterSource, DrawSteps)
  BY StepsAreCosts
<1>2. /\ Len(Sources) \in Nat /\ SourceSteps \in Nat /\ src \in 1 .. Len(Sources)
      /\ PoolSize \in Nat /\ MaxLocalTries \in Nat /\ MostSteps = Len(Sources) * SourceSteps + 4
      /\ SourceSteps = 3 * (MaxLocalTries + 1) + PoolSize + 4
  BY SourcesAssumption, LenProperties, DecoysAssumption, TriesAssumption
     DEF SourceSteps, MostSteps, Budgeted
<1>3. PICK most \in Nat : most = Len(Sources) * SourceSteps
  BY <1>2
<1>4. AfterSource + SourceSteps <= most + 3 /\ SourceSteps <= most
  <2>1. (Len(Sources) - src) * SourceSteps + SourceSteps <= most
    BY <1>2, <1>3, OneShareLess
  <2>2. (Len(Sources) - src) * SourceSteps \in Nat
    BY <1>2, OneShareLess
  <2>3. QED
    BY <1>2, <2>1, <2>2 DEF AfterSource
<1>5. DrawSteps <= 3 * (MaxLocalTries + 1)
  BY <1>2 DEF DrawSteps, Budgeted
<1>6. at \in 0 .. PoolSize /\ pc \in Places
  BY DEF Budgeted
<1>7. MostSteps = most + 4
  BY <1>2, <1>3
<1> HIDE DEF MostSteps
<1>8. QED
  BY <1>1, <1>2, <1>4, <1>5, <1>6, <1>7 DEF Costs, Places

LEMMA StepsAreNat == Budgeted => StepsLeft \in Nat
BY StepsInRange

LEMMA StepsFall == TypeInv /\ TypeInv' /\ [Next]_vars => [StepsLeft' < StepsLeft]_vars
<1> SUFFICES ASSUME TypeInv, TypeInv', Next, vars' # vars PROVE StepsLeft' < StepsLeft
  OBVIOUS
<1>1. Budgeted /\ Costs(StepsLeft, AfterSource, DrawSteps)
  BY InvBudgeted, StepsAreCosts
<1>2. Budgeted' /\ Costs(StepsLeft, AfterSource, DrawSteps)'
  BY InvBudgeted, StepsAreCosts, PTL
<1>3. PICK old \in Nat, new \in Nat, after \in Nat, later \in Nat, drawing \in Nat, further \in Nat :
        /\ old = StepsLeft /\ new = StepsLeft' /\ after = AfterSource /\ later = AfterSource'
        /\ drawing = DrawSteps /\ further = DrawSteps'
  <2>1. StepsLeft \in Nat /\ StepsLeft' \in Nat
    <3>1. StepsLeft \in Nat
      BY <1>1, StepsAreNat
    <3>2. (StepsLeft \in Nat)'
      BY <1>2, StepsAreNat, PTL
    <3>3. QED
      BY <3>1, <3>2
  <2>2. /\ AfterSource \in Nat /\ AfterSource' \in Nat /\ DrawSteps \in Nat /\ DrawSteps' \in Nat
    BY <1>1, <1>2, Zenon DEF Costs
  <2>3. QED
    BY <2>1, <2>2
<1>4. /\ PoolSize \in Nat /\ SourceSteps \in Nat /\ MaxLocalTries \in Nat
      /\ SourceSteps = 3 * (MaxLocalTries + 1) + PoolSize + 4
  BY DecoysAssumption, TriesAssumption DEF SourceSteps
<1>5. after >= 3 /\ later >= 3
  BY <1>1, <1>2, <1>3, Zenon DEF Costs
<1>6. ASSUME pc # "exited", pc' = "exited" PROVE new < old
  <2>1. new = 0
    BY <1>2, <1>3, <1>6, Zenon DEF Costs
  <2>2. pc \in Places /\ at \in 0 .. PoolSize
    BY <1>1 DEF Budgeted
  <2>3. old >= 1
    BY <1>1, <1>3, <1>4, <1>5, <1>6, <2>2 DEF Costs, Places
  <2>4. QED
    BY <2>1, <2>3
<1>7. ASSUME src' = src PROVE later = after
  BY <1>3, <1>7 DEF AfterSource
<1>8. SUFFICES new < old
  BY <1>3
<1>9. CASE Startup
  <2>1. pc = "startup" /\ pc' = "real_check" /\ src' = src
    BY <1>9 DEF Startup
  <2>2. old = after + SourceSteps + 1 /\ new = later + SourceSteps
    BY <1>1, <1>2, <1>3, <2>1, Zenon DEF Costs
  <2>3. QED
    BY <1>4, <1>7, <2>1, <2>2
<1>10. CASE CheckReal
  <2>1. pc = "real_check" /\ pc' = "draw" /\ src' = src /\ bucket' = bucket /\ tries' = tries
    BY <1>10 DEF CheckReal
  <2>2. old = after + SourceSteps /\ new = later + further + PoolSize + 3
    BY <1>1, <1>2, <1>3, <2>1, Zenon DEF Costs
  <2>3. bucket' = 1 /\ tries' = 0
    BY <1>1, <2>1 DEF Budgeted, Idle
  <2>4. further = 2 * (MaxLocalTries + 1) + MaxLocalTries + 1
    BY <1>3, <1>4, <2>3 DEF DrawSteps
  <2>5. QED
    BY <1>4, <1>7, <2>1, <2>2, <2>4
<1>11. CASE RpcFails
  BY <1>6, <1>11 DEF RpcFails, Stop
<1>12. CASE DrawCandidate
  <2>1. pc = "draw" /\ pc' = "draw" /\ src' = src /\ bucket' = bucket /\ tries' = tries + 1
    BY <1>12 DEF DrawCandidate, CountTry
  <2>2. old = after + drawing + PoolSize + 3 /\ new = later + further + PoolSize + 3
    BY <1>1, <1>2, <1>3, <2>1, Zenon DEF Costs
  <2>3. bucket \in {1, 2, 3} /\ tries \in Nat
    BY <1>1 DEF Budgeted
  <2>4. further = drawing - 1
    BY <1>3, <1>4, <2>1, <2>3 DEF DrawSteps
  <2>5. QED
    BY <1>3, <1>4, <1>7, <2>1, <2>2, <2>4
<1>13. CASE EndBucket
  <2>1. pc = "draw" /\ src' = src
    BY <1>13 DEF EndBucket
  <2>2. old = after + drawing + PoolSize + 3 /\ later = after
    BY <1>1, <1>3, <1>7, <2>1, Zenon DEF Costs
  <2>3. bucket \in {1, 2, 3} /\ tries \in 0 .. MaxLocalTries
    BY <1>1 DEF Budgeted
  <2>4. CASE bucket < 3
    <3>1. pc' = "draw" /\ bucket' = bucket + 1 /\ tries' = 0
      BY <1>13, <2>4 DEF EndBucket, BucketOrder
    <3>2. new = later + further + PoolSize + 3
      BY <1>2, <1>3, <3>1, Zenon DEF Costs
    <3>3. further < drawing
      BY <1>3, <1>4, <2>3, <2>4, <3>1 DEF DrawSteps
    <3>4. QED
      BY <1>4, <2>2, <3>2, <3>3
  <2>5. CASE ~(bucket < 3)
    <3>1. pc' = "pool_status"
      BY <1>13, <2>5 DEF EndBucket, BucketOrder
    <3>2. new = later + PoolSize + 3
      BY <1>2, <1>3, <3>1, Zenon DEF Costs
    <3>3. drawing >= 1
      BY <1>3, <1>4, <2>3 DEF DrawSteps
    <3>4. QED
      BY <1>4, <2>2, <3>2, <3>3
  <2>6. QED
    BY <2>4, <2>5
<1>14. CASE FetchStatus
  <2>1. pc = "pool_status" /\ pc' = "scan" /\ src' = src /\ at' = at
    BY <1>14 DEF FetchStatus
  <2>2. old = after + PoolSize + 3 /\ new = later + (PoolSize - at') + 2
    BY <1>1, <1>2, <1>3, <2>1, Zenon DEF Costs
  <2>3. at' = 0
    BY <1>1, <2>1 DEF Budgeted
  <2>4. QED
    BY <1>4, <1>7, <2>1, <2>2, <2>3
<1>15. CASE ScanSlot
  <2>1. pc = "scan" /\ pc' = "scan" /\ src' = src /\ at' = at + 1
    BY <1>15 DEF ScanSlot, drawVars
  <2>2. old = after + (PoolSize - at) + 2 /\ new = later + (PoolSize - at') + 2
    BY <1>1, <1>2, <1>3, <2>1, Zenon DEF Costs
  <2>3. at \in Nat
    BY <1>1 DEF Budgeted
  <2>4. QED
    BY <1>4, <1>7, <2>1, <2>2, <2>3
<1>16. CASE PoolTooShort
  BY <1>6, <1>16 DEF PoolTooShort, Stop
<1>17. CASE EnoughDecoys
  <2>1. pc = "scan" /\ pc' = "final_details" /\ src' = src
    BY <1>17 DEF EnoughDecoys
  <2>2. old = after + (PoolSize - at) + 2 /\ new = later + 1
    BY <1>1, <1>2, <1>3, <2>1, Zenon DEF Costs
  <2>3. at \in 0 .. PoolSize
    BY <1>1 DEF Budgeted
  <2>4. QED
    BY <1>4, <1>7, <2>1, <2>2, <2>3
<1>18. CASE BuildRing
  <2>1. pc = "final_details"
    BY <1>18 DEF BuildRing
  <2>2. old = after + 1
    BY <1>1, <1>3, <2>1, Zenon DEF Costs
  <2>3. CASE MoreSources(src)
    <3>1. pc' = "real_check" /\ src' = src + 1 /\ src < Len(Sources)
      BY <1>18, <2>3 DEF BuildRing, MoreSources
    <3>2. new = later + SourceSteps
      BY <1>2, <1>3, <3>1, Zenon DEF Costs
    <3>3. src \in 1 .. Len(Sources) /\ Len(Sources) \in Nat
      BY <1>1, SourcesAssumption, LenProperties DEF Budgeted
    <3>4. (Len(Sources) - src) * SourceSteps = (Len(Sources) - src') * SourceSteps + SourceSteps
      BY <1>4, <3>1, <3>3, OneShareLess
    <3>5. (Len(Sources) - src') * SourceSteps \in Nat
      BY <1>4, <1>2, <3>3, OneShareLess DEF Budgeted
    <3>6. after = later + SourceSteps
      BY <1>3, <1>4, <3>4, <3>5 DEF AfterSource
    <3>7. QED
      BY <1>4, <2>2, <3>2, <3>6
  <2>4. CASE ~MoreSources(src)
    <3>1. pc' = "fee"
      BY <1>18, <2>4 DEF BuildRing
    <3>2. new = 3
      BY <1>2, <1>3, <3>1, Zenon DEF Costs
    <3>3. QED
      BY <1>5, <2>2, <3>2
  <2>5. QED
    BY <2>3, <2>4
<1>19. CASE FetchFee
  <2>1. pc = "fee" /\ pc' = "open"
    BY <1>19 DEF FetchFee
  <2>2. old = 3 /\ new = 2
    BY <1>1, <1>2, <1>3, <2>1, Zenon DEF Costs
  <2>3. QED
    BY <2>2
<1>20. CASE OpenRingFile
  <2>1. CASE pc = "open" /\ pc' = "write"
    <3>1. old = 2 /\ new = 1
      BY <1>1, <1>2, <1>3, <2>1, Zenon DEF Costs
    <3>2. QED
      BY <3>1
  <2>2. CASE pc = "open" /\ pc' = "exited"
    BY <1>6, <2>2
  <2>3. QED
    BY <1>20, <2>1, <2>2 DEF OpenRingFile, Stop
<1>21. CASE WriteRingFile
  BY <1>6, <1>21 DEF WriteRingFile, Stop
<1>22. CASE Kill
  BY <1>6, <1>22 DEF Kill, Stop
<1>23. QED
  BY <1>9, <1>10, <1>11, <1>12, <1>13, <1>14, <1>15, <1>16, <1>17, <1>18, <1>19, <1>20, <1>21, <1>22
     DEF Next, Tool, Draw, Fill, Publish, Exited

\* main.cpp:449-734: the run takes at most as many steps as the sources, the pool and the
\* limit of tries allow, and each step leaves fewer: no loop of the selection, whatever
\* the daemon answers and the picks are, goes round without getting nearer the end.
THEOREM EveryStepCounts == Spec => [](StepsLeft \in 0 .. MostSteps) /\ [][StepsLeft' < StepsLeft]_vars
<1>1. Spec => []TypeInv
  BY InitTypeInv, NextTypeInv, PTL DEF Spec
<1>2. TypeInv => StepsLeft \in 0 .. MostSteps
  BY InvBudgeted, StepsInRange
<1>3. TypeInv /\ TypeInv' /\ [Next]_vars => [StepsLeft' < StepsLeft]_vars
  BY StepsFall
<1>4. QED
  BY <1>1, <1>2, <1>3, PTL DEF Spec

=============================================================================
