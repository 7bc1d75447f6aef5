------------------------------- MODULE Hashing -------------------------------
(***************************************************************************)
(* A caller that hashes a message piece by piece with a KECCAK_CTX, and    *)
(* inputs for the pure functions of module Keccak and IntUtil, with what   *)
(* is checked of them: keccakf is Keccak-f[1600] as its designers define   *)
(* it, with lane (x, y) at 5y + x; the ways to hash a message agree; and   *)
(* the arithmetic is exact.                                                *)
(***************************************************************************)
EXTENDS Keccak

CONSTANTS
  Lengths,   \* the lengths of pieces to look at
  MaxPieces  \* bound: pieces of a message

ASSUME LengthsAssumption == Lengths \subseteq Nat
ASSUME PiecesAssumption == MaxPieces \in Nat

VARIABLES
  ctx,     \* a KECCAK_CTX
  fed,     \* the number of bytes it was given
  pieces,  \* in how many pieces
  input    \* what a pure function is tried on

hashVars == <<ctx, fed, pieces, input>>

----------------------------------------------------------------------------
(* The reference.                                                          *)

\* A state as the set of its bits <<x, y, z>> that are 1.
BitsOf(st) == UNION {{<<l % 5, l \div 5, z>> : z \in st[l]} : l \in Lanes}

\* Theta adds to a bit the parities of two columns: a single bit also turns up in
\* the column after its own, and in the one before, a place higher.
ThetaOf(x, y, z) ==
  {<<x, y, z>>} \cup {<<(x + 1) % 5, k, z>> : k \in 0 .. 4}
    \cup {<<(x + 4) % 5, k, (z + 1) % 64>> : k \in 0 .. 4}

\* Rho: lane (0, 0) stays; along (1, 0), (0, 2), ..., each the image of the one
\* before under pi, (x, y) -> (y, 2x + 3y), the amounts are the triangular numbers.
PiOf(x, y) == <<y, (2 * x + 3 * y) % 5>>
Walk ==
  LET w[t \in 0 .. 23] ==
        IF t = 0 THEN <<1, 0>> ELSE LET p == w[t - 1] IN PiOf(p[1], p[2])
  IN  w
RhoOf(x, y) ==
  IF <<x, y>> = <<0, 0>> THEN 0
  ELSE LET t == CHOOSE t \in 0 .. 23 : Walk[t] = <<x, y>>
       IN  (((t + 1) * (t + 2)) \div 2) % 64

\* Chi on the five bits of a row, here the set of those that are 1.
ChiOf(s) == {x \in 0 .. 4 : (x \in s) # ((x + 1) % 5 \notin s /\ (x + 2) % 5 \in s)}

\* The round constants come out of a shift register, seven bits a round.
Seven(s) ==
  LET r[t \in 0 .. 7] ==
        IF t = 0 THEN s
        ELSE LET before == r[t - 1]
                 up     == {b + 1 : b \in before \ {7}}
             IN  IF 7 \in before THEN Xor(up, {0, 4, 5, 6}) ELSE up
  IN  r
IotaOf(register) == {2^j - 1 : j \in {k \in 0 .. 6 : 0 \in Seven(register)[k]}}

Zero == [l \in Lanes |-> {}]

----------------------------------------------------------------------------

Nothing == [of |-> "nothing"]

HashInit ==
  /\ ctx = Context /\ fed = 0 /\ pieces = 0
  /\ \/ input = Nothing
     \/ input \in [of : {"bit"}, x : 0 .. 4, y : 0 .. 4, z : {0, 31, 63}]
     \/ input \in [of : {"row"}, y : 0 .. 4, s : SUBSET (0 .. 4)]
     \/ input = [of |-> "round", number |-> 1, register |-> {0}]
     \/ input \in [of : {"digest"}, mdlen : -1 .. 2 * StateBytes]
     \/ input \in [of : {"words"}, x : 0 .. Full - 1, y : 0 .. Full - 1]
     \/ \E w \in {16, 32, 64} : input \in [of : {"bytes"}, w : {w}, b : 0 .. w - 1]

\* Messages whose bytes are all different: byte i is the symbol 1000 + i.
Message(n) == [i \in 1 .. n |-> {1000 + i}]

\* keccak_update with the next piece of the message.
UpdatePiece ==
  /\ ctx.rest # -1 /\ pieces < MaxPieces
  /\ \E n \in Lengths :
       /\ ctx' = Update(ctx, Behind(Message(fed + n), fed))
       /\ fed' = fed + n
  /\ pieces' = pieces + 1
  /\ UNCHANGED input

\* keccak_finish, once or again.
FinishDigest ==
  /\ ctx' = Finish(ctx)
  /\ UNCHANGED <<fed, pieces, input>>

\* The next round of keccakf, with the shift register of the reference.
NextRound ==
  /\ input.number < 24
  /\ input' = [input EXCEPT !.number = @ + 1, !.register = Seven(@)[7]]
  /\ UNCHANGED <<ctx, fed, pieces>>

HashNext ==
  \/ input = Nothing /\ (UpdatePiece \/ FinishDigest)
  \/ input.of = "round" /\ NextRound

HashSpec == HashInit /\ [][HashNext]_hashVars

----------------------------------------------------------------------------
(* What is checked.                                                        *)

\* The unrolled theta, rho, pi, chi and iota of keccakf, with its tables, are those
\* of Keccak-f[1600] (keccak.c:24-112).  Theta, rho and pi are linear, so single
\* bits are enough; chi mixes only the bits of a row.
PermutationIsKeccak ==
  /\ input.of = "bit" =>
       LET one   == [Zero EXCEPT ![5 * input.y + input.x] = {input.z}]
           moved == {<<PiOf(b[1], b[2]), (b[3] + RhoOf(b[1], b[2])) % 64>> :
                       b \in ThetaOf(input.x, input.y, input.z)}
       IN  BitsOf(RhoPi(Theta(one))) = {<<m[1][1], m[1][2], m[2]>> : m \in moved}
  /\ input.of = "row" =>
       LET row == [l \in Lanes |-> IF l \div 5 = input.y /\ l % 5 \in input.s THEN {0} ELSE {}]
       IN  BitsOf(Chi(row)) = {<<x, input.y, 0>> : x \in ChiOf(input.s)}
  /\ input.of = "round" => Iota(Zero, input.number)[0] = IotaOf(input.register)

\* However a message is cut into pieces, also empty ones and ones that end where a
\* block does, the digest of the KECCAK_CTX is that of the whole message at once,
\* by keccak() and by cn_fast_hash, also when it is asked for twice
\* (keccak.c:118-233, hash.c:49-57).
StreamIsOneShot ==
  ctx.rest = -1 =>
    /\ Digest(ctx) = Hash(Message(fed), DigestSize)
    /\ Digest(ctx) = CnFastHash(Message(fed))

\* The tests of keccak() leave only digest sizes whose blocks are whole lanes and
\* fit its buffer of 144 bytes, with room for the padding (keccak.c:124-155).
BlocksFitBuffer ==
  input.of = "digest" /\ ~BadUse(input.mdlen) =>
    LET rsiz == Rsiz(input.mdlen)
    IN  rsiz \in 8 .. TempBytes /\ rsiz % 8 = 0 /\ input.mdlen <= StateBytes

\* mul128 is the whole product, its assertion holds, div128_32 the quotient and
\* remainder, and the clamping sums stop at the ends of the range: no carry
\* between the dwords is lost (int-util.h:62-134).  The macros and the functions that
\* swap bytes, written in two ways, both reverse the bytes of a word, so converting
\* twice gives it back, and a rotation by any amount, also by 0 or a negative one,
\* loses no bit (46-52, 136-197).  One bit stands for all: these operations treat
\* each bit alike.
HelpersAreExact ==
  /\ input.of = "words" =>
       LET x == input.x
           y == input.y
           p == Mul128(x, y)
       IN  /\ p.hi * Full + p.lo = x * y
           /\ HiDword(x) * HiDword(y) <= p.hi
           /\ Add64Clamp(x, y) = (IF x + y < Full THEN x + y ELSE Full - 1)
           /\ Sub64Clamp(x, y) = (IF x > y THEN x - y ELSE 0)
           /\ \A divisor \in 1 .. Half - 1 :
                LET q == Div128By32(x, y, divisor)
                IN  /\ q.hi < Full /\ q.lo < Full /\ q.remainder < divisor
                    /\ (q.hi * Full + q.lo) * divisor + q.remainder = x * Full + y
  /\ input.of = "bytes" =>
       LET w == input.w
           x == {input.b}
       IN  /\ SwapMacro(x, w) = {w - 8 - 8 * (input.b \div 8) + (input.b % 8)}
           /\ SwapOf(x, w) = SwapMacro(x, w)
           /\ MemcpySwap(MemcpySwap(<<x, {}>>, w), w) = <<x, {}>>
           /\ w # 16 => \A r \in -w .. w : Rol(x, r, w) = {(input.b + r) % w}
=============================================================================
