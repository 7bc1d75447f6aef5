------------------------------- MODULE Keccak -------------------------------
(***************************************************************************)
(* keccak.c with the part of hash.c that calls it: the permutation, a      *)
(* whole message hashed at once, and the same message hashed piece by      *)
(* piece.  In the permutation a lane is the set of its bits that are 1.    *)
(* In the sponge the permutation is left symbolic: the state is the        *)
(* sequence of the blocks that were absorbed, and a byte is a set of bits  *)
(* or of symbols that stand for what the caller hashes.                    *)
(***************************************************************************)
EXTENDS IntUtil, SequencesExt

Lanes == 0 .. 24

Xor(a, b) == (a \ b) \cup (b \ a)

\* ROTL64: for amounts from 1 to 63 only.
ROTL64(x, y) == Shl(x, y, 64) \cup Shr(x, 64 - y)

----------------------------------------------------------------------------
(* keccakf, step by step.                                                  *)

Theta(st) ==
  LET bc == [i \in 0 .. 4 |-> Xor(st[i], Xor(st[i + 5], Xor(st[i + 10], Xor(st[i + 15], st[i + 20]))))]
      t  == [i \in 0 .. 4 |-> Xor(bc[(i + 4) % 5], ROTL64(bc[(i + 1) % 5], 1))]
  IN  [l \in Lanes |-> Xor(st[l], t[l % 5])]

\* The assignments between t = st[1] and st[10] = ROTL64(t, 1), in their order: to,
\* from, by.  Each lane is read before it is overwritten.
RhoPiChain == <<
  <<1, 6, 44>>, <<6, 9, 20>>, <<9, 22, 61>>, <<22, 14, 39>>, <<14, 20, 18>>,
  <<20, 2, 62>>, <<2, 12, 43>>, <<12, 13, 25>>, <<13, 19, 8>>, <<19, 23, 56>>,
  <<23, 15, 41>>, <<15, 4, 27>>, <<4, 24, 14>>, <<24, 21, 2>>, <<21, 8, 55>>,
  <<8, 16, 45>>, <<16, 5, 36>>, <<5, 3, 28>>, <<3, 18, 21>>, <<18, 17, 15>>,
  <<17, 11, 10>>, <<11, 7, 6>>, <<7, 10, 3>> >>

Moved(st) ==
  LET after[k \in 0 .. Len(RhoPiChain)] ==
        IF k = 0 THEN st
        ELSE LET s == after[k - 1]
                 m == RhoPiChain[k]
             IN  [s EXCEPT ![m[1]] = ROTL64(s[m[2]], m[3])]
  IN  after[Len(RhoPiChain)]

\* The slip: t is not kept, st[1] is read when it is another lane already.
SlipRhoPi(st) == [Moved(st) EXCEPT ![10] = ROTL64(Moved(st)[1], 1)]
RhoPi(st) == [Moved(st) EXCEPT ![10] = ROTL64(st[1], 1)]

Chi(st) ==
  [l \in Lanes |->
     LET row == l - (l % 5)
     IN  Xor(st[l], st[row + ((l + 2) % 5)] \ st[row + ((l + 1) % 5)])]

\* keccakf_rndc, the bits of each constant.
RoundConstants == <<
  {0}, {1, 7, 15}, {1, 3, 7, 15, 63}, {15, 31, 63}, {0, 1, 3, 7, 15}, {0, 31},
  {0, 7, 15, 31, 63}, {0, 3, 15, 63}, {1, 3, 7}, {3, 7}, {0, 3, 15, 31}, {1, 3, 31},
  {0, 1, 3, 7, 15, 31}, {0, 1, 3, 7, 63}, {0, 3, 7, 15, 63}, {0, 1, 15, 63},
  {1, 15, 63}, {7, 63}, {1, 3, 15}, {1, 3, 31, 63}, {0, 7, 15, 31, 63}, {7, 15, 63},
  {0, 31}, {3, 15, 31, 63} >>

Iota(st, round) == [st EXCEPT ![0] = Xor(@, RoundConstants[round])]

----------------------------------------------------------------------------
(* The sponge.                                                             *)

StateBytes == 200
HashDataArea == 136
TempBytes == 18 * 8
BlockLen == 136
DigestSize == 32

\* The two tests of keccak() that end in "Bad keccak use".
Rsiz(mdlen) == IF mdlen = StateBytes THEN HashDataArea ELSE StateBytes - 2 * mdlen
SlipBadUse(mdlen) ==
  mdlen <= 0 \/ (mdlen >= 100 /\ mdlen # StateBytes) \/ mdlen % 8 # 0
BadUse(mdlen) ==
  \/ mdlen <= 0 \/ (mdlen >= 100 /\ mdlen # StateBytes) \/ mdlen % 8 # 0
  \/ Rsiz(mdlen) = 0 \/ Rsiz(mdlen) > TempBytes

\* The first n bytes of a message, and what is left.
Before(m, n) == SubSeq(m, 1, n)
Behind(m, n) == SubSeq(m, n + 1, Len(m))

\* The last block: the message, a byte 1, zeros, and 0x80 in the last byte, which
\* may be the byte 1 too.
Padded(m, rsiz) ==
  [i \in 1 .. rsiz |->
     (IF i <= Len(m) THEN m[i] ELSE IF i = Len(m) + 1 THEN {0} ELSE {})
       \cup (IF i = rsiz THEN {7} ELSE {})]

\* keccak(): the blocks absorbed, and how much of the state is handed out.
Hash(m, mdlen) ==
  LET rsiz == Rsiz(mdlen)
      n    == Len(m) \div rsiz
      full == [k \in 1 .. n |-> SubSeq(m, (k - 1) * rsiz + 1, k * rsiz)]
  IN  [blocks |-> Append(full, Padded(Behind(m, n * rsiz), rsiz)), bytes |-> mdlen]

\* hash_process fills a whole state, cn_fast_hash takes the front of it.
HashProcess(m) == Hash(m, StateBytes)
CnFastHash(m) == [HashProcess(m) EXCEPT !.bytes = DigestSize]

\* A KECCAK_CTX.  rest is -1 when it is KECCAK_FINALIZED.
Context == [hash |-> <<>>, message |-> [i \in 1 .. BlockLen |-> {}], rest |-> 0]

\* memcpy into the message, from position idx on.
Copied(message, idx, in) ==
  [i \in 1 .. BlockLen |->
     IF i > idx /\ i <= idx + Len(in) THEN in[i - idx] ELSE message[i]]

Process(ctx) == [ctx EXCEPT !.hash = Append(@, ctx.message)]

\* The slip: a piece that fills the buffer to the last byte is left in it.
SlipStillPartial(in, left) == Len(in) <= left
StillPartial(in, left) == Len(in) < left

\* The while loop of keccak_update, and what it leaves in the buffer.
WholeBlocks(ctx, in) ==
  LET n == Len(in) \div BlockLen
      after[k \in 0 .. n] ==
        IF k = 0 THEN ctx
        ELSE Process([after[k - 1] EXCEPT
                        !.message = SubSeq(in, (k - 1) * BlockLen + 1, k * BlockLen)])
  IN  [after[n] EXCEPT !.message = Copied(@, 0, Behind(in, n * BlockLen))]

\* (With KECCAK_FINALIZED it aborts instead.)
Update(ctx, in) ==
  LET idx     == ctx.rest
      left    == BlockLen - idx
      counted == [ctx EXCEPT !.rest = (idx + Len(in)) % BlockLen]
      filled  == [counted EXCEPT !.message = Copied(@, idx, Before(in, left))]
  IN  IF idx = 0 THEN WholeBlocks(counted, in)
      ELSE IF StillPartial(in, left)
      THEN [counted EXCEPT !.message = Copied(@, idx, in)]
      ELSE WholeBlocks(Process(filled), Behind(in, left))

\* keccak_finish: the second time it only hands the digest out again.
Finish(ctx) ==
  IF ctx.rest = -1 THEN ctx
  ELSE [Process([ctx EXCEPT !.message = Padded(Before(@, ctx.rest), BlockLen)])
          EXCEPT !.rest = -1]
Digest(ctx) == [blocks |-> ctx.hash, bytes |-> DigestSize]
=============================================================================
