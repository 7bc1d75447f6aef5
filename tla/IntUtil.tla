------------------------------- MODULE IntUtil -------------------------------
(***************************************************************************)
(* int-util.h.  For its arithmetic a word is a number, of two dwords below *)
(* Half; for its shifts, rotations and byte swaps it is the set of the     *)
(* bits that are 1.                                                        *)
(***************************************************************************)
EXTENDS Integers, Sequences

CONSTANT Half  \* 2^32 in the code

ASSUME HalfAssumption == Half \in Nat /\ Half > 1

----------------------------------------------------------------------------
(* Numbers.                                                                *)

Full == Half * Half
Truncated(n) == n % Full
HiDword(val) == val \div Half
LoDword(val) == val % Half

\* Whether a sum of two words, cut to a word, lost a carry: it is smaller than one
\* of them.
SlipCarry(sum, addend) == 0
Carry(sum, addend) == IF sum < addend THEN 1 ELSE 0

Mul128(multiplier, multiplicand) ==
  LET a == HiDword(multiplier)   b == LoDword(multiplier)
      c == HiDword(multiplicand) d == LoDword(multiplicand)
      adbc == Truncated(a * d + b * c)
      lo   == Truncated(b * d + Truncated(adbc * Half))
  IN  [lo |-> lo,
       hi |-> Truncated(a * c + HiDword(adbc) + Truncated(Carry(adbc, a * d) * Half)
                        + Carry(lo, b * d))]

\* (The remainder is below 2^32 and so is each dword: | is +.)
DivWithReminder(dividend, divisor, remainder) ==
  LET whole == dividend + remainder * Half
  IN  [quotient |-> whole \div divisor, remainder |-> whole % divisor]

Div128By32(hi, lo, divisor) ==
  LET d3 == DivWithReminder(HiDword(hi), divisor, 0)
      d2 == DivWithReminder(LoDword(hi), divisor, d3.remainder)
      d1 == DivWithReminder(HiDword(lo), divisor, d2.remainder)
      d0 == DivWithReminder(LoDword(lo), divisor, d1.remainder)
  IN  [hi |-> Truncated(d3.quotient * Half) + d2.quotient,
       lo |-> Truncated(d1.quotient * Half) + d0.quotient,
       remainder |-> d0.remainder]

Add64Clamp(value, add) == IF value > Full - 1 - add THEN Full - 1 ELSE value + add
Sub64Clamp(value, sub) == IF value < sub THEN 0 ELSE value - sub

----------------------------------------------------------------------------
(* Sets of bits; w is the width of the word.                               *)

Shl(x, n, w) == {b + n : b \in {c \in x : c + n < w}}
Shr(x, n) == {b - n : b \in {c \in x : c >= n}}

\* (x << (r & (w - 1))) | (x >> (-r & (w - 1))): no shift by the whole width.
Rol(x, r, w) == Shl(x, r % w, w) \cup Shr(x, (-r) % w)

\* The bits of byte i, and of every second byte, pair of bytes, ... from the first.
Byte(i) == 8 * i .. 8 * i + 7
Alternate(n) == {b \in 0 .. 63 : (b \div n) % 2 = 0}

\* SWAP16, SWAP32 and SWAP64 move each byte by itself.
SwapMacro(x, w) ==
  LET last == w \div 8 - 1
      moved(i) == IF i <= last - i THEN Shl(x \cap Byte(i), 8 * (last - 2 * i), w)
                  ELSE Shr(x \cap Byte(i), 8 * (2 * i - last))
  IN  UNION {moved(i) : i \in 0 .. last}

\* swap16, swap32 and swap64 exchange neighbours: bytes, then pairs, then fours.
Exchange(x, n, w) == Shl(x \cap Alternate(n), n, w) \cup Shr(x \ Alternate(n), n)
Swap16(x) == Exchange(x, 8, 16)
Swap32(x) == Exchange(Exchange(x, 8, 32), 16, 32)
Swap64(x) == Exchange(Exchange(Exchange(x, 8, 64), 16, 64), 32, 64)
SwapOf(x, w) == IF w = 16 THEN Swap16(x) ELSE IF w = 32 THEN Swap32(x) ELSE Swap64(x)

\* memcpy_swap16, 32, 64 and their mem_inplace_ forms, which replace the words of
\* the array by the same values.
MemcpySwap(src, w) == [i \in DOMAIN src |-> SwapOf(src[i], w)]

\* The ...le and ...be names: one of them is the identity, by the byte order.
SwapTo(order, native, x, w) == IF order = native THEN x ELSE SwapOf(x, w)
=============================================================================
