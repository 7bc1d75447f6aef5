--------------------------- MODULE Hashing_proofs ---------------------------
(***************************************************************************)
(* Theorems about Keccak and IntUtil, through the inputs of Hashing: a     *)
(* message of any length, cut into any number of pieces of any length, has *)
(* the digest of the whole; the arithmetic of int-util.h is exact for      *)
(* dwords of any size; and keccakf, with its tables and its chain of       *)
(* assignments, is Keccak-f[1600], on any state.                           *)
(***************************************************************************)
EXTENDS Hashing, SequenceTheorems, WellFoundedInduction, TLAPS

----------------------------------------------------------------------------
(* Numbers.                                                                *)

LEMMA Division ==
  ASSUME NEW n \in Nat, NEW m \in Nat \ {0}
  PROVE  /\ n \div m \in Nat /\ n % m \in 0 .. m - 1
         /\ n = (n \div m) * m + (n % m)
OBVIOUS

LEMMA DivisionIs ==
  ASSUME NEW m \in Nat \ {0}, NEW n \in Nat, NEW q \in Nat, NEW r \in 0 .. m - 1, n = q * m + r
  PROVE  n \div m = q /\ n % m = r
OBVIOUS

\* A sum of two words, cut to a word, is smaller than the first if a carry is lost.
LEMMA CarryIs ==
  ASSUME NEW F \in Nat \ {0}, NEW u \in 0 .. F - 1, NEW v \in 0 .. F - 1
  PROVE  /\ (u + v) % F \in 0 .. F - 1
         /\ u + v = Carry((u + v) % F, u) * F + ((u + v) % F)
         /\ Carry((u + v) % F, u) \in {0, 1}
<1>1. CASE u + v < F
  <2>1. u + v = 0 * F + (u + v) /\ u + v \in 0 .. F - 1
    BY <1>1
  <2>2. (u + v) % F = u + v
    BY <2>1, DivisionIs
  <2>3. QED
    BY <2>2 DEF Carry
<1>2. CASE ~(u + v < F)
  <2>1. u + v = 1 * F + (u + v - F) /\ u + v - F \in 0 .. F - 1
    BY <1>2
  <2>2. (u + v) % F = u + v - F
    BY <2>1, DivisionIs
  <2>3. QED
    BY <2>2 DEF Carry
<1>3. QED
  BY <1>1, <1>2

\* Multiplication keeps the order.
LEMMA ProductOrder ==
  ASSUME NEW a \in Nat, NEW b \in Nat, NEW m \in Nat, a <= b
  PROVE  a * m \in Nat /\ b * m \in Nat /\ a * m <= b * m
OBVIOUS

LEMMA LessThanSquare ==
  ASSUME NEW F \in Nat, NEW t \in Nat, NEW l \in Nat, t * F + l < F * F
  PROVE  t < F
<1>1. SUFFICES ASSUME F <= t PROVE FALSE
  OBVIOUS
<1>2. t * F \in Nat /\ F * F \in Nat /\ F * F <= t * F
  BY <1>1, ProductOrder
<1>3. QED
  BY <1>2

LEMMA ProductLess ==
  ASSUME NEW F \in Nat, NEW p \in Nat, NEW q \in Nat, p < F, q < F
  PROVE  p * q \in Nat /\ p * q < F * F
<1>1. p * q \in Nat
  OBVIOUS
<1>2. p * q < F * F
  OBVIOUS
<1>3. QED
  BY <1>1, <1>2

LEMMA ProductBelow ==
  ASSUME NEW a \in 0 .. Half - 1, NEW b \in 0 .. Half - 1
  PROVE  a * b \in 0 .. Full - 1
<1>1. Half \in Nat
  BY HalfAssumption
<1>2. a \in Nat /\ b \in Nat /\ a < Half /\ b < Half
  BY <1>1
<1>3. a * b \in Nat /\ a * b < Half * Half
  BY <1>1, <1>2, ProductLess
<1>4. QED
  BY <1>1, <1>3 DEF Full

LEMMA FullIs == Half \in Nat /\ Half > 1 /\ Full \in Nat \ {0} /\ Half < Full /\ Full = Half * Half
<1>1. Half \in Nat /\ Half > 1
  BY HalfAssumption
<1>2. \A H \in Nat : H > 1 => H * H \in Nat \ {0} /\ H < H * H
  OBVIOUS
<1>3. QED
  BY <1>1, <1>2 DEF Full

\* A word has two dwords.
LEMMA DwordsOf ==
  ASSUME NEW x \in 0 .. Full - 1
  PROVE  /\ HiDword(x) \in 0 .. Half - 1 /\ LoDword(x) \in 0 .. Half - 1
         /\ x = HiDword(x) * Half + LoDword(x)
<1>1. Half \in Nat \ {0} /\ x \in Nat
  BY FullIs
<1> DEFINE q == x \div Half
           r == x % Half
<1>2. q \in Nat /\ r \in 0 .. Half - 1 /\ x = q * Half + r
  BY <1>1, Division
<1> HIDE DEF q, r
<1>3. q < Half
  <2>1. x < Half * Half
    BY FullIs
  <2>2. QED
    BY <1>1, <1>2, <2>1, LessThanSquare
<1>4. QED
  BY <1>1, <1>2, <1>3 DEF HiDword, LoDword, q, r

\* The lower dword of a word moves up, the upper one falls off.
LEMMA ShiftedUp ==
  ASSUME NEW x \in 0 .. Full - 1
  PROVE  /\ Truncated(x * Half) = LoDword(x) * Half
         /\ LoDword(x) * Half \in 0 .. Full - 1
<1> DEFINE e == HiDword(x)
           f == LoDword(x)
<1>1. e \in 0 .. Half - 1 /\ f \in 0 .. Half - 1 /\ x = e * Half + f
  BY DwordsOf
<1> HIDE DEF e, f
<1>2. Half \in Nat /\ Full \in Nat \ {0} /\ Full = Half * Half
  BY FullIs
<1>3. \A H, k, s \in Nat : (k * H + s) * H = k * (H * H) + s * H
  OBVIOUS
<1>4. x * Half = e * Full + f * Half /\ f * Half \in 0 .. Full - 1
  <2>1. x * Half = e * Full + f * Half
    BY <1>1, <1>2, <1>3
  <2>2. \A H, s \in Nat : s < H => s * H \in Nat /\ s * H + H <= H * H
    <3>1. ASSUME NEW H \in Nat, NEW s \in Nat, s < H PROVE s * H \in Nat /\ s * H + H <= H * H
      <4>1. (s + 1) * H <= H * H /\ s * H \in Nat
        BY <3>1, ProductOrder
      <4>2. (s + 1) * H = s * H + H
        OBVIOUS
      <4>3. QED
        BY <4>1, <4>2
    <3>2. QED
      BY <3>1
  <2>3. f * Half \in Nat /\ f * Half + Half <= Full /\ Half > 0
    BY <1>1, <1>2, <2>2
  <2>4. QED
    BY <1>2, <2>1, <2>3
<1>5. e \in Nat /\ x * Half \in Nat
  BY <1>1, <1>2, <1>4
<1>6. (x * Half) % Full = f * Half
  BY <1>2, <1>4, <1>5, DivisionIs
<1>7. QED
  BY <1>4, <1>6 DEF Truncated, f

\* mul128: the dwords of the product, with both carries, are the product.
LEMMA Mul128IsProduct ==
  ASSUME NEW x \in 0 .. Full - 1, NEW y \in 0 .. Full - 1
  PROVE  /\ Mul128(x, y).hi * Full + Mul128(x, y).lo = x * y
         /\ HiDword(x) * HiDword(y) <= Mul128(x, y).hi
<1> DEFINE a == HiDword(x)
           b == LoDword(x)
           c == HiDword(y)
           d == LoDword(y)
           adbc == Truncated(a * d + b * c)
           lo == Truncated(b * d + Truncated(adbc * Half))
           k1 == Carry(adbc, a * d)
           k2 == Carry(lo, b * d)
           e == HiDword(adbc)
           f == LoDword(adbc)
           top == a * c + e + k1 * Half + k2
<1>1. /\ a \in 0 .. Half - 1 /\ b \in 0 .. Half - 1 /\ x = a * Half + b
      /\ c \in 0 .. Half - 1 /\ d \in 0 .. Half - 1 /\ y = c * Half + d
  BY DwordsOf
<1>2. /\ Mul128(x, y).lo = lo
      /\ Mul128(x, y).hi = Truncated(a * c + HiDword(adbc) + Truncated(k1 * Half) + k2)
  BY DEF Mul128
<1> HIDE DEF a, b, c, d
<1>3. /\ Half \in Nat /\ Half > 1 /\ Full \in Nat \ {0} /\ Full = Half * Half /\ Half < Full
  BY FullIs
<1>4. /\ a * d \in 0 .. Full - 1 /\ b * c \in 0 .. Full - 1
      /\ b * d \in 0 .. Full - 1 /\ a * c \in 0 .. Full - 1
  BY <1>1, ProductBelow
<1>5. adbc \in 0 .. Full - 1 /\ a * d + b * c = k1 * Full + adbc /\ k1 \in {0, 1}
  BY <1>3, <1>4, CarryIs DEF Truncated
<1> HIDE DEF adbc, k1
<1>6. e \in 0 .. Half - 1 /\ f \in 0 .. Half - 1 /\ adbc = e * Half + f
  BY <1>5, DwordsOf
<1>7. Truncated(adbc * Half) = f * Half /\ f * Half \in 0 .. Full - 1
  BY <1>5, ShiftedUp
<1> HIDE DEF e, f
<1>8. lo \in 0 .. Full - 1 /\ b * d + f * Half = k2 * Full + lo /\ k2 \in {0, 1}
  <2>1. lo = (b * d + f * Half) % Full
    BY <1>7 DEF Truncated
  <2> HIDE DEF lo
  <2>2. \A u, v \in 0 .. Full - 1 :
          /\ (u + v) % Full \in 0 .. Full - 1
          /\ u + v = Carry((u + v) % Full, u) * Full + ((u + v) % Full)
          /\ Carry((u + v) % Full, u) \in {0, 1}
    BY <1>3, CarryIs
  <2>3. QED
    BY <1>4, <1>7, <2>1, <2>2
<1> HIDE DEF lo, k2
<1>9. Truncated(k1 * Half) = k1 * Half
  <2>1. k1 * Half \in 0 .. Full - 1
    BY <1>3, <1>5
  <2>2. k1 * Half = 0 * Full + k1 * Half
    BY <1>3, <2>1
  <2>3. QED
    BY <1>3, <2>1, <2>2, DivisionIs DEF Truncated
<1>10. x * y = top * Full + lo
  <2>1. ASSUME NEW H \in Nat, NEW p \in Nat, NEW q \in Nat, NEW r \in Nat, NEW s \in Nat
        PROVE  (p * H + q) * (r * H + s) = (p * r) * (H * H) + (p * s + q * r) * H + q * s
    OBVIOUS
  <2>2. x * y = (a * c) * Full + (a * d + b * c) * Half + b * d
    BY <1>1, <1>3, <2>1
  <2>3. ASSUME NEW H \in Nat, NEW F \in Nat, F = H * H, NEW ac \in Nat, NEW bd \in Nat,
               NEW j1 \in {0, 1}, NEW j2 \in {0, 1}, NEW g \in Nat, NEW h \in Nat, NEW l \in Nat,
               bd + h * H = j2 * F + l
        PROVE  ac * F + (j1 * F + (g * H + h)) * H + bd = (ac + g + j1 * H + j2) * F + l
    <3>1. (j1 * F + (g * H + h)) * H = j1 * (F * H) + g * (H * H) + h * H
      BY <2>3
    <3>2. (ac + g + j1 * H + j2) * F = ac * F + g * F + j1 * (F * H) + j2 * F
      BY <2>3
    <3>3. QED
      BY <2>3, <3>1, <3>2
  <2>4. a * d + b * c = k1 * Full + (e * Half + f)
    BY <1>5, <1>6
  <2>5. (a * c) * Full + (k1 * Full + (e * Half + f)) * Half + b * d
          = (a * c + e + k1 * Half + k2) * Full + lo
    BY <1>3, <1>4, <1>5, <1>6, <1>8, <2>3
  <2>6. QED
    BY <2>2, <2>4, <2>5
<1>11. top \in Nat
  BY <1>3, <1>4, <1>5, <1>6, <1>8
<1>12. a * c <= top
  <2>1. k1 * Half \in Nat
    BY <1>3, <1>5
  <2>2. a * c \in Nat /\ e \in Nat /\ k2 \in Nat
    BY <1>4, <1>6, <1>8
  <2>3. QED
    BY <2>1, <2>2
<1>13. Mul128(x, y).hi = top % Full
  BY <1>2, <1>9 DEF e, Truncated
<1> HIDE DEF top
<1>14. top \in 0 .. Full - 1
  <2>1. x * y < Full * Full
    <3>1. x \in Nat /\ y \in Nat /\ x < Full /\ y < Full
      BY <1>3
    <3>2. QED
      BY <1>3, <3>1, ProductLess
  <2>2. QED
    BY <1>3, <1>8, <1>10, <1>11, <2>1, LessThanSquare
<1>15. top % Full = top
  <2>1. top = 0 * Full + top
    BY <1>3, <1>11
  <2>2. QED
    BY <1>3, <1>11, <1>14, <2>1, DivisionIs
<1>16. QED
  BY <1>2, <1>10, <1>12, <1>13, <1>15 DEF a, c

\* One step of the long division of div128_32.
LEMMA OneDigit ==
  ASSUME NEW divisor \in 1 .. Half - 1, NEW digit \in 0 .. Half - 1,
         NEW remainder \in 0 .. divisor - 1
  PROVE  /\ DivWithReminder(digit, divisor, remainder).quotient \in 0 .. Half - 1
         /\ DivWithReminder(digit, divisor, remainder).remainder \in 0 .. divisor - 1
         /\ remainder * Half + digit
              = DivWithReminder(digit, divisor, remainder).quotient * divisor
                + DivWithReminder(digit, divisor, remainder).remainder
<1> DEFINE whole == digit + remainder * Half
           q == whole \div divisor
           r == whole % divisor
<1>1. Half \in Nat /\ divisor \in Nat \ {0} /\ remainder \in Nat /\ digit \in Nat
  BY FullIs
<1>2. whole \in Nat /\ whole < divisor * Half
  <2>1. (remainder + 1) * Half <= divisor * Half /\ remainder * Half \in Nat
    BY <1>1, ProductOrder
  <2>2. (remainder + 1) * Half = remainder * Half + Half
    BY <1>1
  <2>3. divisor * Half \in Nat
    BY <1>1
  <2>4. QED
    BY <1>1, <2>1, <2>2, <2>3
<1>3. /\ DivWithReminder(digit, divisor, remainder).quotient = q
      /\ DivWithReminder(digit, divisor, remainder).remainder = r
  BY DEF DivWithReminder
<1>4. whole = remainder * Half + digit
  BY <1>1, <1>2
<1> HIDE DEF whole
<1>5. q \in Nat /\ r \in 0 .. divisor - 1 /\ whole = q * divisor + r
  BY <1>1, <1>2, Division
<1> HIDE DEF q, r
<1>6. q < Half
  <2>1. SUFFICES ASSUME Half <= q PROVE FALSE
    BY <1>1, <1>5
  <2>2. Half * divisor <= q * divisor /\ q * divisor \in Nat
    BY <1>1, <1>5, <2>1, ProductOrder
  <2>3. Half * divisor = divisor * Half
    BY <1>1
  <2>4. QED
    BY <1>1, <1>2, <1>5, <2>2, <2>3
<1>7. QED
  BY <1>1, <1>3, <1>4, <1>5, <1>6

\* Two dwords make a word.
LEMMA TwoDwords ==
  ASSUME NEW a \in 0 .. Half - 1, NEW b \in 0 .. Half - 1
  PROVE  Truncated(a * Half) + b = a * Half + b /\ a * Half + b \in 0 .. Full - 1
<1>1. Half \in Nat /\ Full \in Nat \ {0} /\ Full = Half * Half /\ a \in Nat /\ b \in Nat
  BY FullIs
<1>2. a * Half \in Nat /\ a * Half + Half <= Full
  <2>1. (a + 1) * Half <= Half * Half
    BY <1>1, ProductOrder
  <2>2. (a + 1) * Half = a * Half + Half /\ a * Half \in Nat
    BY <1>1
  <2>3. QED
    BY <1>1, <2>1, <2>2
<1>3. (a * Half) % Full = a * Half
  <2>1. a * Half \in 0 .. Full - 1 /\ a * Half = 0 * Full + a * Half
    BY <1>1, <1>2
  <2>2. QED
    BY <1>1, <2>1, DivisionIs
<1>4. a * Half + b \in 0 .. Full - 1
  BY <1>1, <1>2
<1>5. QED
  BY <1>3, <1>4 DEF Truncated

\* div128_32: dividing dword by dword divides the whole.
LEMMA Div128By32IsDivision ==
  ASSUME NEW x \in 0 .. Full - 1, NEW y \in 0 .. Full - 1, NEW divisor \in 1 .. Half - 1
  PROVE  LET q == Div128By32(x, y, divisor)
         IN  /\ q.hi < Full /\ q.lo < Full /\ q.remainder < divisor
             /\ (q.hi * Full + q.lo) * divisor + q.remainder = x * Full + y
<1> DEFINE a == HiDword(x)
           b == LoDword(x)
           c == HiDword(y)
           d == LoDword(y)
           d3 == DivWithReminder(a, divisor, 0)
           d2 == DivWithReminder(b, divisor, d3.remainder)
           d1 == DivWithReminder(c, divisor, d2.remainder)
           d0 == DivWithReminder(d, divisor, d1.remainder)
           q3 == d3.quotient  r3 == d3.remainder
           q2 == d2.quotient  r2 == d2.remainder
           q1 == d1.quotient  r1 == d1.remainder
           q0 == d0.quotient  r0 == d0.remainder
           q == Div128By32(x, y, divisor)
<1>1. /\ a \in 0 .. Half - 1 /\ b \in 0 .. Half - 1 /\ x = a * Half + b
      /\ c \in 0 .. Half - 1 /\ d \in 0 .. Half - 1 /\ y = c * Half + d
  BY DwordsOf
<1>2. /\ q.hi = Truncated(q3 * Half) + q2
      /\ q.lo = Truncated(q1 * Half) + q0
      /\ q.remainder = r0
  BY DEF Div128By32
<1> HIDE DEF a, b, c, d, q
<1>3. /\ Half \in Nat /\ Half > 1 /\ Full \in Nat \ {0} /\ Full = Half * Half
      /\ divisor \in Nat \ {0}
  BY FullIs
<1>4. /\ q3 \in 0 .. Half - 1 /\ r3 \in 0 .. divisor - 1
      /\ 0 * Half + a = q3 * divisor + r3
  <2>1. 0 \in 0 .. divisor - 1
    BY <1>3
  <2>2. QED
    BY <1>1, <2>1, OneDigit
<1>5. /\ q2 \in 0 .. Half - 1 /\ r2 \in 0 .. divisor - 1
      /\ r3 * Half + b = q2 * divisor + r2
  BY <1>1, <1>4, OneDigit
<1>6. /\ q1 \in 0 .. Half - 1 /\ r1 \in 0 .. divisor - 1
      /\ r2 * Half + c = q1 * divisor + r1
  BY <1>1, <1>5, OneDigit
<1>7. /\ q0 \in 0 .. Half - 1 /\ r0 \in 0 .. divisor - 1
      /\ r1 * Half + d = q0 * divisor + r0
  BY <1>1, <1>6, OneDigit
<1> HIDE DEF d3, d2, d1, d0, q3, q2, q1, q0, r3, r2, r1, r0
<1>8. /\ q.hi = q3 * Half + q2 /\ q.hi \in 0 .. Full - 1
      /\ q.lo = q1 * Half + q0 /\ q.lo \in 0 .. Full - 1
  BY <1>2, <1>4, <1>5, <1>6, <1>7, TwoDwords
<1>9. x = (q3 * Half + q2) * divisor + r2
  <2>1. \A H, D, s, t, u, v, w \in Nat :
          w = s * D + u => w * H + v = (s * H) * D + (u * H + v)
    OBVIOUS
  <2>2. x = (q3 * Half) * divisor + (r3 * Half + b)
    BY <1>1, <1>3, <1>4, <2>1
  <2>3. QED
    BY <1>3, <1>4, <1>5, <2>2
<1>10. r2 * Full + y = (q1 * Half + q0) * divisor + r0
  <2>1. r2 * Full + y = (r2 * Half + c) * Half + d
    BY <1>1, <1>3, <1>5
  <2>2. (r2 * Half + c) * Half + d = (q1 * Half) * divisor + (r1 * Half + d)
    BY <1>1, <1>3, <1>6
  <2>3. QED
    BY <1>3, <1>6, <1>7, <2>1, <2>2
<1>11. (q.hi * Full + q.lo) * divisor + r0 = x * Full + y
  <2>1. /\ \A F, D, h, r \in Nat : (h * D + r) * F = (h * D) * F + r * F
        /\ \A F, D, h, l \in Nat : (h * F + l) * D = (h * D) * F + l * D
        /\ \A F, D, h \in Nat : (h * D) * F \in Nat /\ h * F \in Nat
    OBVIOUS
  <2>2. x = q.hi * divisor + r2 /\ r2 * Full + y = q.lo * divisor + r0
    BY <1>8, <1>9, <1>10
  <2>3. x * Full = (q.hi * divisor) * Full + r2 * Full
    BY <1>3, <1>5, <1>8, <2>1, <2>2
  <2>4. (q.hi * Full + q.lo) * divisor = (q.hi * divisor) * Full + q.lo * divisor
    BY <1>3, <1>8, <2>1
  <2>5. /\ (q.hi * divisor) * Full \in Nat /\ r2 * Full \in Nat /\ q.lo * divisor \in Nat
        /\ y \in Nat /\ r0 \in Nat
    BY <1>3, <1>5, <1>7, <1>8, <2>1
  <2>6. QED
    BY <2>2, <2>3, <2>4, <2>5
<1>12. QED
  BY <1>2, <1>3, <1>7, <1>8, <1>11 DEF q, r0

\* add64clamp and sub64clamp stop at the ends of the range.
LEMMA ClampsStop ==
  ASSUME NEW x \in 0 .. Full - 1, NEW y \in 0 .. Full - 1
  PROVE  /\ Add64Clamp(x, y) = (IF x + y < Full THEN x + y ELSE Full - 1)
         /\ Sub64Clamp(x, y) = (IF x > y THEN x - y ELSE 0)
BY FullIs DEF Add64Clamp, Sub64Clamp

----------------------------------------------------------------------------
(* Bits.                                                                   *)

\* A shift moves a bit or drops it.
LEMMA OneBit ==
  ASSUME NEW b \in Nat, NEW n \in Nat, NEW w \in Nat
  PROVE  /\ Shl({b}, n, w) = (IF b + n < w THEN {b + n} ELSE {})
         /\ Shr({b}, n) = (IF b >= n THEN {b - n} ELSE {})
         /\ Shl({}, n, w) = {} /\ Shr({}, n) = {}
BY DEF Shl, Shr

\* swap16, swap32, swap64: neighbours change places.
Neighbour(b, n) == IF (b \div n) % 2 = 0 THEN b + n ELSE b - n

LEMMA Exchanged ==
  ASSUME NEW w \in {16, 32, 64}, NEW b \in 0 .. w - 1, NEW n \in {8, 16, 32}, 2 * n <= w
  PROVE  /\ Exchange({b}, n, w) = {Neighbour(b, n)} /\ Neighbour(b, n) \in 0 .. w - 1
         /\ Exchange({}, n, w) = {}
<1>0. b \in Nat /\ n \in Nat /\ w \in Nat
  OBVIOUS
<1>e. Exchange({}, n, w) = {}
  <2>1. {} \cap Alternate(n) = {} /\ {} \ Alternate(n) = {}
    OBVIOUS
  <2>2. Exchange({}, n, w) = Shl({}, n, w) \cup Shr({}, n)
    BY <2>1, Zenon DEF Exchange
  <2>3. Shl({}, n, w) = {} /\ Shr({}, n) = {}
    BY <1>0, OneBit
  <2>4. QED
    BY <2>2, <2>3
<1>1. CASE (b \div n) % 2 = 0
  <2>1. {b} \cap Alternate(n) = {b} /\ {b} \ Alternate(n) = {}
    BY <1>1 DEF Alternate
  <2>2. b + n < w /\ Neighbour(b, n) = b + n
    BY <1>1 DEF Neighbour
  <2>3. Exchange({b}, n, w) = Shl({b}, n, w) \cup Shr({}, n)
    BY <2>1, Zenon DEF Exchange
  <2>4. Shl({b}, n, w) = {b + n} /\ Shr({}, n) = {}
    BY <1>0, <2>2, OneBit
  <2>5. Exchange({b}, n, w) = {Neighbour(b, n)}
    BY <2>2, <2>3, <2>4, Zenon
  <2>6. Neighbour(b, n) \in 0 .. w - 1
    BY <1>0, <2>2
  <2>7. QED
    BY <1>e, <2>5, <2>6
<1>2. CASE (b \div n) % 2 # 0
  <2>1. {b} \cap Alternate(n) = {} /\ {b} \ Alternate(n) = {b}
    BY <1>2 DEF Alternate
  <2>2. b >= n /\ Neighbour(b, n) = b - n
    BY <1>2 DEF Neighbour
  <2>3. Exchange({b}, n, w) = Shl({}, n, w) \cup Shr({b}, n)
    BY <2>1, Zenon DEF Exchange
  <2>4. Shl({}, n, w) = {} /\ Shr({b}, n) = {b - n}
    BY <1>0, <2>2, OneBit
  <2>5. Exchange({b}, n, w) = {Neighbour(b, n)}
    BY <2>2, <2>3, <2>4, Zenon
  <2>6. Neighbour(b, n) \in 0 .. w - 1
    BY <1>0, <2>2
  <2>7. QED
    BY <1>e, <2>5, <2>6
<1>4. QED
  BY <1>1, <1>2

\* Where a bit goes when the bytes of a word are reversed.
Reversed(b, w) == w - 8 - 8 * (b \div 8) + (b % 8)

LEMMA ReversedIs ==
  ASSUME NEW w \in {16, 32, 64}, NEW b \in 0 .. w - 1
  PROVE  /\ Reversed(b, w) \in 0 .. w - 1
         /\ Reversed(Reversed(b, w), w) = b
BY DEF Reversed

LEMMA SwapOfReverses ==
  ASSUME NEW w \in {16, 32, 64}, NEW b \in 0 .. w - 1
  PROVE  SwapOf({b}, w) = {Reversed(b, w)} /\ SwapOf({}, w) = {}
<1> DEFINE c == Neighbour(b, 8)
           d == Neighbour(c, 16)
           e == Neighbour(d, 32)
<1>1. Exchange({b}, 8, w) = {c} /\ c \in 0 .. w - 1 /\ Exchange({}, 8, w) = {}
  <2>1. 2 * 8 <= w
    OBVIOUS
  <2>2. QED
    BY <2>1, Exchanged
<1>2. CASE w = 16
  <2>1. c = Reversed(b, w)
    BY <1>2 DEF Reversed, Neighbour
  <2> HIDE DEF c
  <2>2. QED
    BY <1>1, <1>2, <2>1 DEF SwapOf, Swap16
<1>3. CASE w \in {32, 64}
  <2>1. Exchange({c}, 16, w) = {d} /\ d \in 0 .. w - 1 /\ Exchange({}, 16, w) = {}
    <3>1. 2 * 16 <= w
      BY <1>3
    <3> HIDE DEF c
    <3>2. QED
      BY <1>1, <3>1, Exchanged
  <2>2. CASE w = 32
    <3>1. d = Reversed(b, w)
      BY <2>2 DEF Reversed, Neighbour
    <3> HIDE DEF c, d
    <3>2. QED
      <4>1. SwapOf({b}, w) = Exchange(Exchange({b}, 8, w), 16, w)
        BY <2>2 DEF SwapOf, Swap32
      <4>2. SwapOf({}, w) = Exchange(Exchange({}, 8, w), 16, w)
        BY <2>2 DEF SwapOf, Swap32
      <4>3. QED
        BY <1>1, <2>1, <3>1, <4>1, <4>2
  <2>3. CASE w = 64
    <3>1. Exchange({d}, 32, w) = {e} /\ Exchange({}, 32, w) = {}
      <4>1. 2 * 32 <= w
        BY <2>3
      <4> HIDE DEF c, d
      <4>2. QED
        BY <2>1, <4>1, Exchanged
    <3>2. e = Reversed(b, w)
      BY <2>3 DEF Reversed, Neighbour
    <3> HIDE DEF c, d, e
    <3>3. QED
      <4>1. SwapOf({b}, w) = Exchange(Exchange(Exchange({b}, 8, w), 16, w), 32, w)
        BY <2>3 DEF SwapOf, Swap64
      <4>2. SwapOf({}, w) = Exchange(Exchange(Exchange({}, 8, w), 16, w), 32, w)
        BY <2>3 DEF SwapOf, Swap64
      <4>3. QED
        BY <1>1, <2>1, <3>1, <3>2, <4>1, <4>2
  <2>4. QED
    BY <1>3, <2>2, <2>3
<1>4. QED
  BY <1>2, <1>3

LEMMA SwapMacroReverses ==
  ASSUME NEW w \in {16, 32, 64}, NEW b \in 0 .. w - 1
  PROVE  SwapMacro({b}, w) = {Reversed(b, w)}
<1> DEFINE last == w \div 8 - 1
           moved(i) == IF i <= last - i THEN Shl({b} \cap Byte(i), 8 * (last - 2 * i), w)
                       ELSE Shr({b} \cap Byte(i), 8 * (2 * i - last))
           k == b \div 8
<1>1. SwapMacro({b}, w) = UNION {moved(i) : i \in 0 .. last}
  BY DEF SwapMacro
<1>2. k \in 0 .. last /\ last \in Nat /\ 8 * (last + 1) = w
  OBVIOUS
<1>3. ASSUME NEW i \in 0 .. last
      PROVE  {b} \cap Byte(i) = IF i = k THEN {b} ELSE {}
  BY <1>2 DEF Byte
<1>4. ASSUME NEW i \in 0 .. last, i # k PROVE moved(i) = {}
  <2>1. {b} \cap Byte(i) = {}
    BY <1>3, <1>4
  <2>2. \A n \in Nat : Shl({}, n, w) = {} /\ Shr({}, n) = {}
    BY OneBit
  <2>3. i <= last - i => 8 * (last - 2 * i) \in Nat
    BY <1>2
  <2>4. ~(i <= last - i) => 8 * (2 * i - last) \in Nat
    BY <1>2
  <2>5. QED
    BY <2>1, <2>2, <2>3, <2>4
<1>5. moved(k) = {Reversed(b, w)}
  <2>1. {b} \cap Byte(k) = {b}
    BY <1>2, <1>3
  <2>2. CASE k <= last - k
    <3>1. moved(k) = Shl({b}, 8 * (last - 2 * k), w)
      BY <2>1, <2>2
    <3>2. 8 * (last - 2 * k) \in Nat /\ b + 8 * (last - 2 * k) = Reversed(b, w)
      BY <1>2, <2>2 DEF Reversed
    <3>3. Reversed(b, w) < w
      BY ReversedIs
    <3>4. Shl({b}, 8 * (last - 2 * k), w) = {b + 8 * (last - 2 * k)}
      <4>1. b \in Nat /\ w \in Nat
        OBVIOUS
      <4> DEFINE m == 8 * (last - 2 * k)
      <4>2. m \in Nat /\ b + m < w
        BY <3>2, <3>3
      <4> HIDE DEF m
      <4>3. Shl({b}, m, w) = {b + m}
        BY <4>1, <4>2, OneBit
      <4>4. QED
        BY <4>3 DEF m
    <3>5. QED
      BY <3>1, <3>2, <3>4
  <2>3. CASE ~(k <= last - k)
    <3>1. moved(k) = Shr({b}, 8 * (2 * k - last))
      BY <2>1, <2>3
    <3>2. 8 * (2 * k - last) \in Nat /\ b - 8 * (2 * k - last) = Reversed(b, w)
      BY <1>2, <2>3 DEF Reversed
    <3>3. Reversed(b, w) >= 0
      BY ReversedIs
    <3>4. b >= 8 * (2 * k - last)
      BY <3>2, <3>3
    <3>5. Shr({b}, 8 * (2 * k - last)) = {b - 8 * (2 * k - last)}
      <4>1. b \in Nat /\ w \in Nat
        OBVIOUS
      <4> DEFINE m == 8 * (2 * k - last)
      <4>2. m \in Nat /\ b >= m
        BY <3>2, <3>4
      <4> HIDE DEF m
      <4>3. Shr({b}, m) = {b - m}
        BY <4>1, <4>2, OneBit
      <4>4. QED
        BY <4>3 DEF m
    <3>6. QED
      BY <3>1, <3>2, <3>5
  <2>4. QED
    BY <2>2, <2>3
<1> HIDE DEF moved, last, k
<1>6. QED
  BY <1>1, <1>2, <1>4, <1>5

\* A rotation, by an amount of either sign, loses no bit.
LEMMA RotationKeeps ==
  ASSUME NEW w \in {32, 64}, NEW b \in 0 .. w - 1, NEW r \in -w .. w
  PROVE  Rol({b}, r, w) = {(b + r) % w}
<1> DEFINE s == r % w
           t == (-r) % w
<1>1. s \in 0 .. w - 1 /\ t = (IF s = 0 THEN 0 ELSE w - s)
  OBVIOUS
<1>2. (b + r) % w = IF b + s < w THEN b + s ELSE b + s - w
  OBVIOUS
<1>3. Rol({b}, r, w) = Shl({b}, s, w) \cup Shr({b}, t)
  BY DEF Rol
<1> HIDE DEF s, t
<1>4. Rol({b}, r, w) = (IF b + s < w THEN {b + s} ELSE {}) \cup (IF b >= t THEN {b - t} ELSE {})
  <2>1. s \in Nat /\ t \in Nat /\ b \in Nat /\ w \in Nat
    BY <1>1
  <2>2. QED
    BY <1>3, <2>1, OneBit
<1>5. CASE b + s < w
  <2>1. b >= t => b - t = b + s
    BY <1>1, <1>5
  <2>2. QED
    BY <1>2, <1>4, <1>5, <2>1
<1>6. CASE ~(b + s < w)
  <2>1. b >= t /\ b - t = b + s - w
    BY <1>1, <1>6
  <2>2. QED
    BY <1>2, <1>4, <1>6, <2>1
<1>7. QED
  BY <1>5, <1>6

----------------------------------------------------------------------------
(* The inputs of the pure functions.                                       *)

\* Only the number of a round and its register change.
InputBook ==
  \/ input.of \in {"nothing", "bit", "row"}
  \/ \E n, s : input = [of |-> "round", number |-> n, register |-> s]
  \/ input \in [of : {"digest"}, mdlen : Int]
  \/ input \in [of : {"words"}, x : 0 .. Full - 1, y : 0 .. Full - 1]
  \/ \E w \in {16, 32, 64} : input \in [of : {"bytes"}, w : {w}, b : 0 .. w - 1]

LEMMA InitInputBook == HashInit => InputBook
<1> SUFFICES ASSUME HashInit PROVE InputBook
  OBVIOUS
<1>1. CASE input = Nothing
  BY <1>1 DEF Nothing, InputBook
<1>2. CASE input \in [of : {"bit"}, x : 0 .. 4, y : 0 .. 4, z : {0, 31, 63}]
  BY <1>2 DEF InputBook
<1>3. CASE input \in [of : {"row"}, y : 0 .. 4, s : SUBSET (0 .. 4)]
  BY <1>3 DEF InputBook
<1>4. CASE input = [of |-> "round", number |-> 1, register |-> {0}]
  BY <1>4, Zenon DEF InputBook
<1>5. CASE input \in [of : {"digest"}, mdlen : -1 .. 2 * StateBytes]
  <2>1. -1 .. 2 * StateBytes \in SUBSET Int
    BY DEF StateBytes
  <2>2. input \in [of : {"digest"}, mdlen : Int]
    BY <1>5, <2>1
  <2>3. QED
    BY <2>2, Zenon DEF InputBook
<1>6. CASE input \in [of : {"words"}, x : 0 .. Full - 1, y : 0 .. Full - 1]
  BY <1>6, Zenon DEF InputBook
<1>7. CASE \E w \in {16, 32, 64} : input \in [of : {"bytes"}, w : {w}, b : 0 .. w - 1]
  BY <1>7, Zenon DEF InputBook
<1>8. QED
  BY <1>1, <1>2, <1>3, <1>4, <1>5, <1>6, <1>7, Zenon DEF HashInit

LEMMA NextInputBook == InputBook /\ [HashNext]_hashVars => InputBook'
<1> SUFFICES ASSUME InputBook, [HashNext]_hashVars PROVE InputBook'
  OBVIOUS
<1>1. CASE UNCHANGED input
  BY <1>1 DEF InputBook
<1>2. CASE input.of = "round" /\ NextRound
  <2>1. PICK n, s : input = [of |-> "round", number |-> n, register |-> s]
    BY <1>2 DEF InputBook
  <2>2. \E m, t : input' = [of |-> "round", number |-> m, register |-> t]
    BY <1>2, <2>1 DEF NextRound
  <2>3. QED
    BY <2>2, Zenon DEF InputBook
<1>3. QED
  BY <1>1, <1>2 DEF HashNext, UpdatePiece, FinishDigest, hashVars

\* keccak.c:124-155, for any digest size an int can hold.
LEMMA GoodSizesFit ==
  ASSUME NEW mdlen \in Int, ~BadUse(mdlen)
  PROVE  Rsiz(mdlen) \in 8 .. TempBytes /\ Rsiz(mdlen) % 8 = 0 /\ mdlen <= StateBytes
BY DEF BadUse, Rsiz, TempBytes, StateBytes, HashDataArea

\* keccak.c:124-155: whatever digest size a caller asks for, the tests of keccak() leave
\* only those whose blocks are whole lanes and fit its buffer.
THEOREM BlocksFit == HashSpec => []BlocksFitBuffer
<1>1. InputBook => BlocksFitBuffer
  <2> SUFFICES ASSUME InputBook, input.of = "digest", ~BadUse(input.mdlen)
               PROVE  LET rsiz == Rsiz(input.mdlen)
                      IN  rsiz \in 8 .. TempBytes /\ rsiz % 8 = 0 /\ input.mdlen <= StateBytes
    BY DEF BlocksFitBuffer
  <2>1. input.mdlen \in Int
    BY DEF InputBook
  <2>2. QED
    BY <2>1, GoodSizesFit
<1>2. QED
  BY <1>1, InitInputBook, NextInputBook, PTL DEF HashSpec

\* memcpy_swap16, 32 and 64 undo themselves.
LEMMA SwappedTwice ==
  ASSUME NEW w \in {16, 32, 64}, NEW b \in 0 .. w - 1
  PROVE  MemcpySwap(MemcpySwap(<<{b}, {}>>, w), w) = <<{b}, {}>>
<1> DEFINE once == MemcpySwap(<<{b}, {}>>, w)
           c == Reversed(b, w)
<1>1. SwapOf({b}, w) = {c} /\ SwapOf({}, w) = {}
  BY SwapOfReverses
<1>2. c \in 0 .. w - 1 /\ Reversed(c, w) = b
  BY ReversedIs
<1> HIDE DEF c
<1>3. SwapOf({c}, w) = {b}
  BY <1>2, SwapOfReverses
<1>4. DOMAIN <<{b}, {}>> = 1 .. 2 /\ DOMAIN <<{c}, {}>> = 1 .. 2
  OBVIOUS
<1>5. once = <<{c}, {}>>
  BY <1>1, <1>4 DEF MemcpySwap
<1> HIDE DEF once
<1>6. MemcpySwap(<<{c}, {}>>, w) = <<{b}, {}>>
  BY <1>1, <1>3, <1>4 DEF MemcpySwap
<1>7. QED
  BY <1>5, <1>6 DEF once

\* int-util.h:46-197, for dwords of any size, 2^32 among them: the product, the quotient,
\* the clamping sums, the byte swaps and the rotations are exact.
THEOREM ArithmeticIsExact == HashSpec => []HelpersAreExact
<1>1. InputBook => HelpersAreExact
  <2> SUFFICES ASSUME InputBook PROVE HelpersAreExact
    OBVIOUS
  <2>1. ASSUME input.of = "words", NEW x, NEW y, x = input.x, y = input.y
        PROVE  /\ Mul128(x, y).hi * Full + Mul128(x, y).lo = x * y
               /\ HiDword(x) * HiDword(y) <= Mul128(x, y).hi
               /\ Add64Clamp(x, y) = (IF x + y < Full THEN x + y ELSE Full - 1)
               /\ Sub64Clamp(x, y) = (IF x > y THEN x - y ELSE 0)
               /\ \A divisor \in 1 .. Half - 1 :
                    LET q == Div128By32(x, y, divisor)
                    IN  /\ q.hi < Full /\ q.lo < Full /\ q.remainder < divisor
                        /\ (q.hi * Full + q.lo) * divisor + q.remainder = x * Full + y
    <3>1. x \in 0 .. Full - 1 /\ y \in 0 .. Full - 1
      BY <2>1 DEF InputBook
    <3>2. QED
      BY <3>1, Mul128IsProduct, ClampsStop, Div128By32IsDivision, Zenon
  <2>2. ASSUME input.of = "bytes", NEW w, NEW b, w = input.w, b = input.b
        PROVE  /\ SwapMacro({b}, w) = {w - 8 - 8 * (b \div 8) + (b % 8)}
               /\ SwapOf({b}, w) = SwapMacro({b}, w)
               /\ MemcpySwap(MemcpySwap(<<{b}, {}>>, w), w) = <<{b}, {}>>
               /\ w # 16 => \A r \in -w .. w : Rol({b}, r, w) = {(b + r) % w}
    <3>1. w \in {16, 32, 64} /\ b \in 0 .. w - 1
      BY <2>2 DEF InputBook
    <3>2. SwapMacro({b}, w) = {Reversed(b, w)} /\ SwapOf({b}, w) = {Reversed(b, w)}
      <4>1. SwapMacro({b}, w) = {Reversed(b, w)}
        BY <3>1, SwapMacroReverses, Zenon
      <4>2. SwapOf({b}, w) = {Reversed(b, w)}
        BY <3>1, SwapOfReverses, Zenon
      <4>3. QED
        BY <4>1, <4>2
    <3>3. MemcpySwap(MemcpySwap(<<{b}, {}>>, w), w) = <<{b}, {}>>
      BY <3>1, SwappedTwice
    <3>4. w # 16 => \A r \in -w .. w : Rol({b}, r, w) = {(b + r) % w}
      <4>1. w # 16 => w \in {32, 64}
        BY <3>1
      <4>2. QED
        BY <3>1, <4>1, RotationKeeps
    <3>5. QED
      BY <3>2, <3>3, <3>4, Zenon DEF Reversed
  <2>3. QED
    BY <2>1, <2>2, Zenon DEF HelpersAreExact
<1>2. QED
  BY <1>1, InitInputBook, NextInputBook, PTL DEF HashSpec

----------------------------------------------------------------------------
(* The sponge.                                                             *)

\* n bytes of the message, behind the first a.
Piece(a, n) == [i \in 1 .. n |-> {1000 + a + i}]

\* The first q whole blocks of the message.
Blocks(q) == [k \in 1 .. q |-> Piece((k - 1) * BlockLen, BlockLen)]

\* A context that has absorbed them.
Absorbed(q, m, r) == [hash |-> Blocks(q), message |-> m, rest |-> r]

\* The first k bytes of the buffer m are those of the message behind the first a.
Holds(m, a, k) ==
  /\ m = [i \in 1 .. BlockLen |-> m[i]]
  /\ \A i \in 1 .. k : m[i] = {1000 + a + i}

\* The same of a buffer that may be anything else.
Begins(m, a, k) == \A i \in 1 .. k : m[i] = {1000 + a + i}

\* A set of numbers that is not empty has a smallest element.
LEMMA SmallestIn ==
  ASSUME NEW S \in SUBSET Nat, S # {}
  PROVE  \E x \in S : \A y \in S : x <= y
<1> DEFINE R == OpToRel(<, Nat)
<1>1. PICK x \in S : \A y \in S : <<y, x>> \notin R
  <2>1. IsWellFoundedOn(R, Nat)
    BY NatLessThanWellFounded
  <2> HIDE DEF R
  <2>2. QED
    BY <2>1, WFMin
<1>2. \A y \in S : ~(y < x)
  BY <1>1 DEF OpToRel
<1>3. QED
  BY <1>2

LEMMA PieceIs ==
  ASSUME NEW a \in Nat, NEW n \in Nat
  PROVE  /\ Piece(a, n) \in Seq(SUBSET Int) /\ Len(Piece(a, n)) = n
         /\ DOMAIN Piece(a, n) = 1 .. n
         /\ \A i \in 1 .. n : Piece(a, n)[i] = {1000 + a + i}
<1>1. /\ Piece(a, n) \in [1 .. n -> SUBSET Int] /\ DOMAIN Piece(a, n) = 1 .. n
      /\ \A i \in 1 .. n : Piece(a, n)[i] = {1000 + a + i}
  BY DEF Piece
<1> DEFINE p == Piece(a, n)
<1> HIDE DEF p
<1>2. p \in [1 .. n -> SUBSET Int] => p \in Seq(SUBSET Int)
  BY SeqDef, Zenon
<1>3. p \in Seq(SUBSET Int) /\ DOMAIN p = 1 .. n
  BY <1>1, <1>2 DEF p
<1>4. Len(p) = n
  BY <1>3, LenProperties
<1>5. QED
  BY <1>1, <1>3, <1>4 DEF p

\* A part of a piece is a piece.
LEMMA PartOfPiece ==
  ASSUME NEW a \in Nat, NEW n \in Nat, NEW j \in 0 .. n, NEW k \in j .. n
  PROVE  SubSeq(Piece(a, n), j + 1, k) = Piece(a + j, k - j)
<1> DEFINE p == Piece(a, n)
           s == SubSeq(p, j + 1, k)
           t == Piece(a + j, k - j)
<1>1. k - j \in Nat /\ a + j \in Nat /\ j + 1 \in Int /\ k \in Int
  OBVIOUS
<1>2. \A i \in 1 .. n : p[i] = {1000 + a + i}
  BY DEF Piece
<1>3. /\ DOMAIN t = 1 .. k - j /\ t = [i \in 1 .. k - j |-> t[i]]
      /\ \A i \in 1 .. k - j : t[i] = {1000 + (a + j) + i}
  BY <1>1 DEF Piece
<1>4. \A i \in j + 1 .. k : p[i] \in SUBSET Int
  <2>1. \A i \in j + 1 .. k : i \in 1 .. n
    OBVIOUS
  <2>2. QED
    BY <1>2, <2>1
<1> HIDE DEF p, t
<1>5. /\ s \in Seq(SUBSET Int) /\ Len(s) = (IF j + 1 <= k THEN k - (j + 1) + 1 ELSE 0)
      /\ \A i \in 1 .. k - (j + 1) + 1 : s[i] = p[(j + 1) + i - 1]
  BY <1>1, <1>4, SubSeqProperties
<1> HIDE DEF s
<1>6. Len(s) = k - j
  BY <1>5
<1>7. DOMAIN s = 1 .. k - j /\ s = [i \in 1 .. k - j |-> s[i]]
  <2>1. DOMAIN s = 1 .. Len(s) /\ s \in [1 .. Len(s) -> SUBSET Int]
    BY <1>5, LenProperties
  <2>2. QED
    BY <1>6, <2>1
<1>8. \A i \in 1 .. k - j : s[i] = t[i]
  <2>1. SUFFICES ASSUME NEW i \in 1 .. k - j PROVE s[i] = t[i]
    OBVIOUS
  <2>2. i \in 1 .. k - (j + 1) + 1 /\ (j + 1) + i - 1 = i + j /\ i + j \in 1 .. n
    OBVIOUS
  <2>3. s[i] = {1000 + a + (i + j)}
    BY <1>2, <1>5, <2>2
  <2>4. t[i] = {1000 + (a + j) + i}
    BY <1>3
  <2>5. 1000 + a + (i + j) = 1000 + (a + j) + i
    OBVIOUS
  <2>6. QED
    BY <2>3, <2>4, <2>5
<1>9. QED
  BY <1>3, <1>7, <1>8 DEF s, t, p

LEMMA FrontAndRear ==
  ASSUME NEW a \in Nat, NEW n \in Nat, NEW k \in 0 .. n
  PROVE  /\ Before(Piece(a, n), k) = Piece(a, k)
         /\ Behind(Piece(a, n), k) = Piece(a + k, n - k)
<1>1. SubSeq(Piece(a, n), 0 + 1, k) = Piece(a + 0, k - 0)
  <2>1. 0 \in 0 .. n /\ k \in 0 .. n
    OBVIOUS
  <2>2. QED
    BY <2>1, PartOfPiece
<1>2. SubSeq(Piece(a, n), k + 1, n) = Piece(a + k, n - k)
  <2>1. n \in k .. n
    OBVIOUS
  <2>2. QED
    BY <2>1, PartOfPiece
<1>3. 0 + 1 = 1 /\ a + 0 = a /\ k - 0 = k /\ Len(Piece(a, n)) = n
  BY PieceIs
<1>4. QED
  BY <1>1, <1>2, <1>3 DEF Before, Behind

LEMMA MessageIs == ASSUME NEW n \in Nat PROVE Message(n) = Piece(0, n)
<1>1. \A i \in 1 .. n : 1000 + 0 + i = 1000 + i
  OBVIOUS
<1>2. QED
  BY <1>1 DEF Message, Piece

LEMMA MoreBlocks ==
  ASSUME NEW q \in Nat
  PROVE  /\ Append(Blocks(q), Piece(q * BlockLen, BlockLen)) = Blocks(q + 1)
         /\ Len(Blocks(q)) = q
<1> DEFINE b == Blocks(q)
           x == Piece(q * BlockLen, BlockLen)
           S == {Piece(a, BlockLen) : a \in Nat}
           t == Blocks(q + 1)
<1>1. \A k \in 1 .. q + 1 : (k - 1) * BlockLen \in Nat
  BY DEF BlockLen
<1>2. /\ DOMAIN b = 1 .. q /\ \A k \in 1 .. q : b[k] = Piece((k - 1) * BlockLen, BlockLen)
      /\ b = [k \in 1 .. q |-> b[k]]
  BY DEF Blocks
<1>3. /\ DOMAIN t = 1 .. q + 1 /\ \A k \in 1 .. q + 1 : t[k] = Piece((k - 1) * BlockLen, BlockLen)
      /\ t = [k \in 1 .. q + 1 |-> t[k]]
  BY DEF Blocks
<1>4. \A k \in 1 .. q : b[k] \in S
  BY <1>1, <1>2
<1>5. x \in S
  BY DEF BlockLen
<1> HIDE DEF b, t, x, S
<1>6. b \in Seq(S) /\ Len(b) = q
  <2>1. b \in [1 .. q -> S]
    BY <1>2, <1>4
  <2>2. b \in Seq(S)
    BY <2>1, SeqDef, Zenon
  <2>3. QED
    BY <1>2, <2>2, LenProperties
<1> DEFINE u == Append(b, x)
<1>7. /\ u \in Seq(S) /\ Len(u) = q + 1 /\ \A k \in 1 .. q : u[k] = b[k] /\ u[q + 1] = x
  BY <1>5, <1>6, AppendProperties
<1>8. u[q + 1] = x
  BY <1>5, <1>6, AppendProperties
<1> HIDE DEF u
<1>9. u = [k \in 1 .. q + 1 |-> u[k]]
  BY <1>7, LenProperties
<1>10. \A k \in 1 .. q + 1 : u[k] = t[k]
  <2>1. SUFFICES ASSUME NEW k \in 1 .. q + 1 PROVE u[k] = t[k]
    OBVIOUS
  <2>2. CASE k = q + 1
    <3>1. (q + 1) - 1 = q
      OBVIOUS
    <3>2. QED
      BY <1>3, <1>8, <2>2, <3>1 DEF x
  <2>3. CASE k \in 1 .. q
    BY <1>2, <1>3, <1>7, <2>3
  <2>4. QED
    BY <2>2, <2>3
<1>11. u = t
  BY <1>3, <1>9, <1>10
<1>12. QED
  BY <1>6, <1>11 DEF u, t, b, x

\* KECCAK_PROCESS_BLOCK, on a context taken apart.
LEMMA ProcessIs ==
  ASSUME NEW h, NEW m, NEW r
  PROVE  Process([hash |-> h, message |-> m, rest |-> r])
           = [hash |-> Append(h, m), message |-> m, rest |-> r]
<1> DEFINE c == [hash |-> h, message |-> m, rest |-> r]
           b == Append(h, m)
<1>1. c.hash = h /\ c.message = m
  OBVIOUS
<1>2. [c EXCEPT !.hash = b] = [hash |-> b, message |-> m, rest |-> r]
  <2> HIDE DEF b
  <2>1. QED
    OBVIOUS
<1>3. Process(c) = [c EXCEPT !.hash = Append(c.hash, c.message)]
  BY DEF Process
<1> HIDE DEF c
<1>4. Process(c) = [c EXCEPT !.hash = b]
  BY <1>1, <1>3
<1>5. QED
  BY <1>2, <1>4 DEF c, b

\* The while loop of keccak_update: what is absorbed goes on where it was.
LEMMA LoopAbsorbs ==
  ASSUME NEW q \in Nat, NEW n \in Nat, NEW m, NEW r
  PROVE  LET done == q + (n \div BlockLen)
         IN  \E m2 : WholeBlocks(Absorbed(q, m, r), Piece(q * BlockLen, n))
                       = Absorbed(done, Copied(m2, 0, Piece(done * BlockLen, n % BlockLen)), r)
<1> DEFINE c == Absorbed(q, m, r)
           in == Piece(q * BlockLen, n)
           d == Len(in) \div BlockLen
           Taken(k) == SubSeq(in, (k - 1) * BlockLen + 1, k * BlockLen)
           Eq(f) == f = [k \in 0 .. d |-> IF k = 0 THEN c
                                          ELSE Process([f[k - 1] EXCEPT !.message = Taken(k)])]
           buffer(k) == IF k = 0 THEN m ELSE Piece((q + k - 1) * BlockLen, BlockLen)
           g == [k \in 0 .. d |-> Absorbed(q + k, buffer(k), r)]
<1>1. /\ q * BlockLen \in Nat /\ Len(in) = n /\ d \in Nat /\ d * BlockLen <= n
      /\ d = n \div BlockLen /\ n - d * BlockLen = n % BlockLen /\ BlockLen \in Nat
  <2>1. q * BlockLen \in Nat /\ BlockLen = 136
    BY DEF BlockLen
  <2>2. Len(in) = n
    BY <2>1, PieceIs
  <2> HIDE DEF in
  <2>3. QED
    BY <2>1, <2>2
<1>2. \A k \in 1 .. d : Taken(k) = Piece((q + k - 1) * BlockLen, BlockLen)
  <2>1. SUFFICES ASSUME NEW k \in 1 .. d PROVE Taken(k) = Piece((q + k - 1) * BlockLen, BlockLen)
    OBVIOUS
  <2> DEFINE j == (k - 1) * BlockLen
             l == k * BlockLen
  <2>2. /\ j \in 0 .. n /\ l \in j .. n /\ l - j = BlockLen
        /\ q * BlockLen + j = (q + k - 1) * BlockLen
    <3> HIDE DEF d
    <3>1. QED
      BY <1>1 DEF BlockLen
  <2> HIDE DEF j, l
  <2>3. SubSeq(Piece(q * BlockLen, n), j + 1, l) = Piece(q * BlockLen + j, l - j)
    BY <1>1, <2>2, PartOfPiece
  <2>4. QED
    BY <2>2, <2>3 DEF j, l
<1>3. WholeBlocks(c, in) = [(CHOOSE f : Eq(f))[d] EXCEPT !.message = Copied(@, 0, Behind(in, d * BlockLen))]
  BY DEF WholeBlocks
<1> HIDE DEF in, d, Taken
<1>4. ASSUME NEW k \in 1 .. d
      PROVE  Process([g[k - 1] EXCEPT !.message = Taken(k)]) = g[k]
  <2>1. k - 1 \in 0 .. d /\ k \in 0 .. d /\ k # 0 /\ q + (k - 1) \in Nat
        /\ (q + (k - 1)) + 1 = q + k /\ (q + (k - 1)) = q + k - 1
    BY <1>1
  <2> DEFINE x == Piece((q + k - 1) * BlockLen, BlockLen)
  <2>2. g[k - 1] = [hash |-> Blocks(q + (k - 1)), message |-> buffer(k - 1), rest |-> r]
    BY <2>1 DEF Absorbed
  <2>3. g[k] = [hash |-> Blocks(q + k), message |-> x, rest |-> r]
    BY <2>1 DEF Absorbed
  <2>4. Append(Blocks(q + (k - 1)), x) = Blocks(q + k)
    BY <2>1, MoreBlocks
  <2>5. Taken(k) = x
    BY <1>2
  <2> HIDE DEF g, x, buffer
  <2>6. [g[k - 1] EXCEPT !.message = Taken(k)]
          = [hash |-> Blocks(q + (k - 1)), message |-> x, rest |-> r]
    BY <2>2, <2>5
  <2>7. Process([hash |-> Blocks(q + (k - 1)), message |-> x, rest |-> r])
          = [hash |-> Append(Blocks(q + (k - 1)), x), message |-> x, rest |-> r]
    BY ProcessIs
  <2>8. QED
    BY <2>3, <2>4, <2>6, <2>7
<1>5. g[0] = c /\ DOMAIN g = 0 .. d
  BY <1>1
<1>6. Eq(g)
  <2>1. g = [k \in 0 .. d |-> g[k]]
    OBVIOUS
  <2> HIDE DEF g
  <2>2. \A k \in 0 .. d : g[k] = IF k = 0 THEN c ELSE Process([g[k - 1] EXCEPT !.message = Taken(k)])
    <3>1. SUFFICES ASSUME NEW k \in 0 .. d
                   PROVE  g[k] = IF k = 0 THEN c ELSE Process([g[k - 1] EXCEPT !.message = Taken(k)])
      OBVIOUS
    <3>2. CASE k = 0
      BY <1>5, <3>2
    <3>3. CASE k # 0
      <4>1. k \in 1 .. d
        BY <1>1, <3>3
      <4>2. QED
        BY <1>4, <3>3, <4>1
    <3>4. QED
      BY <3>2, <3>3
  <2>3. QED
    BY <2>1, <2>2
<1>7. ASSUME NEW f, Eq(f) PROVE f = g
  <2> DEFINE S == {k \in 0 .. d : f[k] # g[k]}
             e(h, k) == IF k = 0 THEN c ELSE Process([h[k - 1] EXCEPT !.message = Taken(k)])
  <2>1. f = [k \in 0 .. d |-> e(f, k)] /\ g = [k \in 0 .. d |-> e(g, k)]
    BY <1>6, <1>7
  <2>2. \A k \in 1 .. d : f[k - 1] = g[k - 1] => e(f, k) = e(g, k)
    BY <1>1
  <2>3. e(f, 0) = e(g, 0)
    OBVIOUS
  <2> HIDE DEF Eq, g, e
  <2>4. S = {}
    <3>1. SUFFICES ASSUME S # {} PROVE FALSE
      OBVIOUS
    <3>2. PICK k \in S : \A j \in S : k <= j
      <4>1. S \in SUBSET Nat
        BY <1>1
      <4> HIDE DEF S
      <4>2. QED
        BY <3>1, <4>1, SmallestIn
    <3>3. k \in 0 .. d /\ f[k] # g[k]
      OBVIOUS
    <3>4. f[k] = e(f, k) /\ g[k] = e(g, k)
      BY <2>1, <3>3
    <3>5. CASE k = 0
      BY <2>3, <3>3, <3>4, <3>5
    <3>6. CASE k # 0
      <4>1. k \in 1 .. d /\ k - 1 \in 0 .. d /\ ~(k <= k - 1)
        BY <1>1, <3>3, <3>6
      <4>2. f[k - 1] = g[k - 1]
        BY <3>2, <4>1
      <4>3. QED
        BY <2>2, <3>3, <3>4, <4>1, <4>2
    <3>7. QED
      BY <3>5, <3>6
  <2>5. \A k \in 0 .. d : f[k] = g[k]
    BY <2>4
  <2>6. f = [k \in 0 .. d |-> f[k]] /\ g = [k \in 0 .. d |-> g[k]]
    BY <2>1
  <2>7. QED
    BY <2>5, <2>6
<1>8. (CHOOSE f : Eq(f)) = g
  <2> HIDE DEF Eq, g
  <2>1. QED
    BY <1>6, <1>7
<1>9. g[d] = [hash |-> Blocks(q + d), message |-> buffer(d), rest |-> r]
  BY <1>1 DEF Absorbed
<1>10. Behind(in, d * BlockLen) = Piece((q + d) * BlockLen, n % BlockLen)
  <2>1. d * BlockLen \in 0 .. n /\ q * BlockLen + d * BlockLen = (q + d) * BlockLen
    BY <1>1 DEF BlockLen
  <2>2. Behind(in, d * BlockLen) = Piece(q * BlockLen + d * BlockLen, n - d * BlockLen)
    BY <1>1, <2>1, FrontAndRear DEF in
  <2>3. QED
    BY <1>1, <2>1, <2>2
<1> HIDE DEF g, Eq, buffer
<1>11. WholeBlocks(c, in)
         = [hash |-> Blocks(q + d),
            message |-> Copied(buffer(d), 0, Piece((q + d) * BlockLen, n % BlockLen)), rest |-> r]
  <2> DEFINE p == Piece((q + d) * BlockLen, n % BlockLen)
             h == Blocks(q + d)
             b == buffer(d)
             w == Copied(b, 0, p)
  <2>1. WholeBlocks(c, in) = [g[d] EXCEPT !.message = Copied(@, 0, p)]
    BY <1>3, <1>8, <1>10
  <2>2. g[d] = [hash |-> h, message |-> b, rest |-> r]
    BY <1>9
  <2> HIDE DEF h, b, p
  <2>3. WholeBlocks(c, in) = [[hash |-> h, message |-> b, rest |-> r] EXCEPT !.message = w]
    BY <2>1, <2>2
  <2> HIDE DEF w
  <2>4. WholeBlocks(c, in) = [hash |-> h, message |-> w, rest |-> r]
    BY <2>3
  <2>5. QED
    BY <2>4 DEF h, b, p, w
<1>12. WholeBlocks(Absorbed(q, m, r), Piece(q * BlockLen, n))
         = Absorbed(q + d, Copied(buffer(d), 0, Piece((q + d) * BlockLen, n % BlockLen)), r)
  BY <1>11 DEF Absorbed, c, in
<1>13. QED
  BY <1>1, <1>12

\* memcpy behind the bytes the buffer holds already.
LEMMA CopiedHolds ==
  ASSUME NEW m, NEW a \in Nat, NEW j \in Nat, NEW k \in Nat, j + k <= BlockLen,
         Begins(m, a, j)
  PROVE  Holds(Copied(m, j, Piece(a + j, k)), a, j + k)
<1> DEFINE p == Piece(a + j, k)
           c == Copied(m, j, p)
<1>1. Len(p) = k /\ \A i \in 1 .. k : p[i] = {1000 + (a + j) + i}
  <2>1. a + j \in Nat
    OBVIOUS
  <2>2. Len(p) = k
    BY <2>1, PieceIs
  <2>3. QED
    BY <2>2 DEF Piece
<1> HIDE DEF p
<1>2. c = [i \in 1 .. BlockLen |-> IF i > j /\ i <= j + k THEN p[i - j] ELSE m[i]]
  BY <1>1 DEF Copied
<1>3. c = [i \in 1 .. BlockLen |-> c[i]] /\ BlockLen \in Nat
  BY <1>2 DEF BlockLen
<1>4. \A i \in 1 .. j + k : c[i] = {1000 + a + i}
  <2>1. SUFFICES ASSUME NEW i \in 1 .. j + k PROVE c[i] = {1000 + a + i}
    OBVIOUS
  <2>2. i \in 1 .. BlockLen
    BY <1>3
  <2>3. CASE i <= j
    BY <1>2, <2>2, <2>3 DEF Begins
  <2>4. CASE ~(i <= j)
    <3>1. c[i] = p[i - j] /\ i - j \in 1 .. k
      BY <1>2, <2>2, <2>4
    <3>2. p[i - j] = {1000 + (a + j) + (i - j)}
      BY <1>1, <3>1
    <3>3. 1000 + (a + j) + (i - j) = 1000 + a + i
      OBVIOUS
    <3>4. QED
      BY <3>1, <3>2, <3>3
  <2>5. QED
    BY <2>3, <2>4
<1> HIDE DEF c
<1>5. QED
  BY <1>3, <1>4 DEF Holds, c, p

\* So a copy up to the end of the buffer completes the block.
LEMMA CopiedFills ==
  ASSUME NEW m, NEW a \in Nat, NEW j \in Nat, NEW k \in Nat, j + k = BlockLen,
         Begins(m, a, j)
  PROVE  Copied(m, j, Piece(a + j, k)) = Piece(a, BlockLen)
<1> DEFINE c == Copied(m, j, Piece(a + j, k))
<1>1. j + k <= BlockLen /\ BlockLen \in Nat
  BY DEF BlockLen
<1>2. Holds(c, a, j + k)
  BY <1>1, CopiedHolds
<1> HIDE DEF c
<1>3. c = [i \in 1 .. BlockLen |-> c[i]] /\ \A i \in 1 .. BlockLen : c[i] = {1000 + a + i}
  BY <1>2 DEF Holds
<1>4. [i \in 1 .. BlockLen |-> c[i]] = [i \in 1 .. BlockLen |-> {1000 + a + i}]
  BY <1>3
<1>5. c = Piece(a, BlockLen)
  BY <1>3, <1>4, Zenon DEF Piece
<1>6. QED
  BY <1>5 DEF c

\* The loop, and what it leaves in the buffer.
LEMMA LoopLeaves ==
  ASSUME NEW q \in Nat, NEW n \in Nat, NEW m, NEW r
  PROVE  LET done == q + (n \div BlockLen)
         IN  \E m2 : /\ WholeBlocks(Absorbed(q, m, r), Piece(q * BlockLen, n)) = Absorbed(done, m2, r)
                     /\ Holds(m2, done * BlockLen, n % BlockLen)
<1> DEFINE done == q + (n \div BlockLen)
           rem == n % BlockLen
<1>1. PICK m1 : WholeBlocks(Absorbed(q, m, r), Piece(q * BlockLen, n))
                  = Absorbed(done, Copied(m1, 0, Piece(done * BlockLen, rem)), r)
  BY LoopAbsorbs
<1>2. done * BlockLen \in Nat /\ rem \in Nat /\ 0 + rem <= BlockLen
  BY DEF BlockLen
<1> HIDE DEF done, rem
<1>3. done * BlockLen + 0 = done * BlockLen /\ 0 + rem = rem
  BY <1>2
<1>4. Holds(Copied(m1, 0, Piece(done * BlockLen + 0, rem)), done * BlockLen, 0 + rem)
  <2>1. Begins(m1, done * BlockLen, 0)
    BY DEF Begins
  <2>2. QED
    BY <1>2, <2>1, CopiedHolds
<1>5. QED
  BY <1>1, <1>3, <1>4 DEF done, rem

\* keccak_update: with the rest of a block in the buffer, the next piece goes on
\* where the last one ended.
LEMMA UpdateGoesOn ==
  ASSUME NEW q \in Nat, NEW r \in 0 .. BlockLen - 1, NEW m, Holds(m, q * BlockLen, r), NEW n \in Nat
  PROVE  LET done == q + ((r + n) \div BlockLen)
         IN  \E m2 : /\ Update(Absorbed(q, m, r), Piece(q * BlockLen + r, n))
                          = Absorbed(done, m2, (r + n) % BlockLen)
                     /\ Holds(m2, done * BlockLen, (r + n) % BlockLen)
<1> DEFINE c == Absorbed(q, m, r)
           a == q * BlockLen
           in == Piece(a + r, n)
           room == BlockLen - r
           after == (r + n) % BlockLen
           done == q + ((r + n) \div BlockLen)
           counted == Absorbed(q, m, after)
<1>1. a \in Nat /\ r \in Nat /\ room \in Nat /\ BlockLen \in Nat /\ r < BlockLen
  BY DEF BlockLen
<1>2. c.rest = r /\ c.message = m /\ [c EXCEPT !.rest = after] = counted /\ counted.message = m
  BY DEF Absorbed
<1>3. Len(in) = n
  BY <1>1, PieceIs
<1>4. Begins(m, a, r)
  BY DEF Holds, Begins
<1> DEFINE filled == [counted EXCEPT !.message = Copied(@, r, Before(in, room))]
<1>5. Update(c, in) = IF r = 0 THEN WholeBlocks(counted, in)
                      ELSE IF StillPartial(in, room)
                      THEN [counted EXCEPT !.message = Copied(@, r, in)]
                      ELSE WholeBlocks(Process(filled), Behind(in, room))
  <2> HIDE DEF counted, c, in
  <2>1. Update(c, in)
          = IF c.rest = 0 THEN WholeBlocks([c EXCEPT !.rest = (c.rest + Len(in)) % BlockLen], in)
            ELSE IF StillPartial(in, BlockLen - c.rest)
            THEN [[c EXCEPT !.rest = (c.rest + Len(in)) % BlockLen]
                    EXCEPT !.message = Copied(@, c.rest, in)]
            ELSE WholeBlocks(Process([[c EXCEPT !.rest = (c.rest + Len(in)) % BlockLen]
                                        EXCEPT !.message = Copied(@, c.rest, Before(in, BlockLen - c.rest))]),
                             Behind(in, BlockLen - c.rest))
    BY Zenon DEF Update
  <2>2. [c EXCEPT !.rest = (c.rest + Len(in)) % BlockLen] = counted
    BY <1>2, <1>3
  <2>3. QED
    BY <1>2, <2>1, <2>2, Zenon
<1> SUFFICES \E m2 : Update(c, in) = Absorbed(done, m2, after) /\ Holds(m2, done * BlockLen, after)
  OBVIOUS
<1>6. CASE r = 0
  <2>1. a + r = a /\ r + n = n
    BY <1>1, <1>6
  <2>2. Update(c, in) = WholeBlocks(Absorbed(q, m, after), Piece(a, n))
    BY <1>5, <1>6, <2>1
  <2>3. QED
    BY <1>6, <2>1, <2>2, LoopLeaves
<1>7. CASE r # 0 /\ n < room
  <2>1. done = q /\ after = r + n /\ r + n <= BlockLen
    BY <1>1, <1>7 DEF BlockLen
  <2> DEFINE m2 == Copied(m, r, in)
  <2>2. Holds(m2, a, r + n)
    BY <1>1, <1>4, <2>1, CopiedHolds
  <2>3. Update(c, in) = [counted EXCEPT !.message = Copied(@, r, in)]
    BY <1>3, <1>5, <1>7 DEF StillPartial
  <2>4. Update(c, in) = Absorbed(q, m2, after)
    <3>1. Update(c, in) = [counted EXCEPT !.message = m2]
      BY <1>2, <2>3
    <3> HIDE DEF m2, after, c, in
    <3>2. QED
      BY <3>1 DEF Absorbed
  <2>5. QED
    BY <2>1, <2>2, <2>4
<1>8. CASE r # 0 /\ ~(n < room)
  <2> DEFINE x == Piece(a, BlockLen)
             rest2 == n - room
             m1 == Copied(m, r, Piece(a + r, room))
  <2>1. /\ rest2 \in Nat /\ room \in 0 .. n /\ r + room = BlockLen
        /\ (q + 1) + (rest2 \div BlockLen) = done /\ rest2 % BlockLen = after
        /\ (a + r) + room = (q + 1) * BlockLen
    BY <1>1, <1>8 DEF BlockLen
  <2>2. Before(in, room) = Piece(a + r, room) /\ Behind(in, room) = Piece((q + 1) * BlockLen, rest2)
    <3>1. a + r \in Nat
      BY <1>1
    <3>2. /\ Before(Piece(a + r, n), room) = Piece(a + r, room)
          /\ Behind(Piece(a + r, n), room) = Piece((a + r) + room, n - room)
      BY <2>1, <3>1, FrontAndRear
    <3>3. QED
      BY <2>1, <3>2
  <2>3. m1 = x
    <3>1. a \in Nat /\ r \in Nat /\ room \in Nat /\ r + room <= BlockLen
      BY <1>1, <2>1 DEF BlockLen
    <3> HIDE DEF room, a
    <3>2. r + room = BlockLen
      BY <2>1
    <3>3. Copied(m, r, Piece(a + r, room)) = Piece(a, BlockLen)
      BY <1>4, <3>1, <3>2, CopiedFills
    <3>4. QED
      BY <3>3
  <2>4. Process(filled) = Absorbed(q + 1, x, after)
    <3>1. filled = [counted EXCEPT !.message = x]
      BY <1>2, <2>2, <2>3
    <3>2. filled = [hash |-> Blocks(q), message |-> x, rest |-> after]
      <4> HIDE DEF x, after, filled
      <4>1. QED
        BY <3>1 DEF Absorbed
    <3>3. Process([hash |-> Blocks(q), message |-> x, rest |-> after])
            = [hash |-> Append(Blocks(q), x), message |-> x, rest |-> after]
      BY ProcessIs
    <3>4. Append(Blocks(q), x) = Blocks(q + 1)
      BY MoreBlocks
    <3> HIDE DEF x, after, filled
    <3>5. QED
      BY <3>2, <3>3, <3>4 DEF Absorbed
  <2>5. Update(c, in) = WholeBlocks(Process(filled), Behind(in, room))
    BY <1>3, <1>5, <1>8 DEF StillPartial
  <2>6. Update(c, in) = WholeBlocks(Absorbed(q + 1, x, after), Piece((q + 1) * BlockLen, rest2))
    BY <2>2, <2>4, <2>5
  <2>7. q + 1 \in Nat
    OBVIOUS
  <2> HIDE DEF rest2, x, c, in, m1, filled, counted, after, done
  <2>8. QED
    BY <2>1, <2>6, <2>7, LoopLeaves
<1>9. QED
  BY <1>6, <1>7, <1>8

\* keccak_finish pads what the buffer holds.
LEMMA FinishPads ==
  ASSUME NEW q \in Nat, NEW r \in 0 .. BlockLen - 1, NEW m, Holds(m, q * BlockLen, r)
  PROVE  /\ Finish(Absorbed(q, m, r)).hash
              = Append(Blocks(q), Padded(Piece(q * BlockLen, r), BlockLen))
         /\ Finish(Absorbed(q, m, r)).rest = -1
<1> DEFINE c == Absorbed(q, m, r)
           a == q * BlockLen
           p == Padded(Before(m, r), BlockLen)
<1>1. a \in Nat /\ r \in Nat /\ r # -1
  BY DEF BlockLen
<1>2. c.rest = r /\ c.message = m
  BY DEF Absorbed
<1>3. Before(m, r) = Piece(a, r)
  <2> DEFINE s == SubSeq(m, 1, r)
             t == Piece(a, r)
  <2>1. \A i \in 1 .. r : m[i] = {1000 + a + i}
    BY DEF Holds
  <2>2. \A i \in 1 .. r : m[i] \in SUBSET Int
    BY <1>1, <2>1
  <2>3. 1 \in Int /\ r \in Int
    BY <1>1
  <2> HIDE DEF a
  <2>4. /\ s \in Seq(SUBSET Int) /\ Len(s) = (IF 1 <= r THEN r - 1 + 1 ELSE 0)
        /\ \A i \in 1 .. r - 1 + 1 : s[i] = m[1 + i - 1]
    BY <2>2, <2>3, SubSeqProperties
  <2> HIDE DEF s
  <2>5. Len(s) = r
    BY <1>1, <2>4
  <2>6. s = [i \in 1 .. r |-> s[i]]
    BY <2>4, <2>5, LenProperties
  <2>7. \A i \in 1 .. r : s[i] = {1000 + a + i}
    <3>1. SUFFICES ASSUME NEW i \in 1 .. r PROVE s[i] = {1000 + a + i}
      OBVIOUS
    <3>2. i \in 1 .. r - 1 + 1 /\ 1 + i - 1 = i
      OBVIOUS
    <3>3. QED
      BY <2>1, <2>4, <3>2
  <2>8. s = t
    BY <2>6, <2>7 DEF Piece
  <2>9. QED
    BY <2>8 DEF Before, s
<1>4. [c EXCEPT !.message = Padded(Before(@, c.rest), BlockLen)]
        = [hash |-> Blocks(q), message |-> p, rest |-> r]
  <2>1. [c EXCEPT !.message = Padded(Before(@, c.rest), BlockLen)] = [c EXCEPT !.message = p]
    BY <1>2
  <2> HIDE DEF p
  <2>2. QED
    BY <2>1 DEF Absorbed
<1>5. Finish(c) = [Process([hash |-> Blocks(q), message |-> p, rest |-> r]) EXCEPT !.rest = -1]
  BY <1>1, <1>2, <1>4, Zenon DEF Finish
<1> DEFINE h == Append(Blocks(q), p)
<1>6. Process([hash |-> Blocks(q), message |-> p, rest |-> r]) = [hash |-> h, message |-> p, rest |-> r]
  BY ProcessIs
<1> HIDE DEF c, h, p
<1>7. Finish(c).hash = h /\ Finish(c).rest = -1
  BY <1>5, <1>6
<1>8. QED
  BY <1>3, <1>7 DEF c, h, p

\* keccak() of a whole message.
LEMMA HashIs ==
  ASSUME NEW n \in Nat, NEW mdlen \in {DigestSize, StateBytes}
  PROVE  Hash(Message(n), mdlen)
           = [blocks |-> Append(Blocks(n \div BlockLen),
                                Padded(Piece((n \div BlockLen) * BlockLen, n % BlockLen), BlockLen)),
              bytes |-> mdlen]
<1> DEFINE q == n \div BlockLen
           p == Piece(0, n)
<1>1. Rsiz(mdlen) = BlockLen
  BY DEF Rsiz, DigestSize, StateBytes, HashDataArea, BlockLen
<1>2. Message(n) = p /\ Len(p) = n
  BY MessageIs, PieceIs
<1>3. q \in Nat /\ q * BlockLen \in 0 .. n /\ n - q * BlockLen = n % BlockLen
  BY DEF BlockLen
<1>4. Behind(p, q * BlockLen) = Piece(q * BlockLen, n % BlockLen)
  <2> DEFINE x == q * BlockLen
  <2>1. x \in 0 .. n /\ n - x = n % BlockLen /\ 0 + x = x
    BY <1>3
  <2> HIDE DEF x
  <2>2. Behind(Piece(0, n), x) = Piece(0 + x, n - x)
    BY <2>1, FrontAndRear
  <2>3. QED
    BY <2>1, <2>2 DEF x
<1>5. \A k \in 1 .. q :
        SubSeq(p, (k - 1) * BlockLen + 1, k * BlockLen) = Piece((k - 1) * BlockLen, BlockLen)
  <2>1. SUFFICES ASSUME NEW k \in 1 .. q
                 PROVE  SubSeq(p, (k - 1) * BlockLen + 1, k * BlockLen)
                          = Piece((k - 1) * BlockLen, BlockLen)
    OBVIOUS
  <2> DEFINE j == (k - 1) * BlockLen
             l == k * BlockLen
  <2>2. j \in 0 .. n /\ l \in j .. n /\ l - j = BlockLen /\ 0 + j = j
    <3> HIDE DEF q
    <3>1. QED
      BY <1>3 DEF BlockLen
  <2> HIDE DEF j, l
  <2>3. SubSeq(Piece(0, n), j + 1, l) = Piece(0 + j, l - j)
    BY <2>2, PartOfPiece
  <2>4. QED
    BY <2>2, <2>3 DEF j, l
<1>6. Hash(p, mdlen)
        = [blocks |-> Append([k \in 1 .. q |-> SubSeq(p, (k - 1) * BlockLen + 1, k * BlockLen)],
                             Padded(Behind(p, q * BlockLen), BlockLen)),
           bytes |-> mdlen]
  BY <1>1, <1>2, Zenon DEF Hash
<1> HIDE DEF q, p
<1>7. [k \in 1 .. q |-> SubSeq(p, (k - 1) * BlockLen + 1, k * BlockLen)] = Blocks(q)
  BY <1>5 DEF Blocks
<1>8. QED
  BY <1>2, <1>4, <1>6, <1>7 DEF q

\* The context has absorbed the whole blocks of what it was given, and its buffer
\* holds the rest; once finished it has the digest of all of it.
StreamBook ==
  /\ fed \in Nat
  /\ ctx.rest # -1 =>
       /\ ctx = Absorbed(fed \div BlockLen, ctx.message, fed % BlockLen)
       /\ Holds(ctx.message, (fed \div BlockLen) * BlockLen, fed % BlockLen)
  /\ ctx.rest = -1 =>
       ctx.hash = Append(Blocks(fed \div BlockLen),
                         Padded(Piece((fed \div BlockLen) * BlockLen, fed % BlockLen), BlockLen))

LEMMA InitStreamBook == HashInit => StreamBook
<1> SUFFICES ASSUME HashInit PROVE StreamBook
  OBVIOUS
<1>1. ctx = Context /\ fed = 0
  BY Zenon DEF HashInit
<1>2. 0 \div BlockLen = 0 /\ 0 % BlockLen = 0 /\ BlockLen = 136
  BY DEF BlockLen
<1>3. Blocks(0) = <<>>
  BY DEF Blocks
<1>4. ctx.rest = 0 /\ ctx.message = [i \in 1 .. BlockLen |-> {}] /\ ctx = Absorbed(0, ctx.message, 0)
  BY <1>1, <1>3 DEF Context, Absorbed
<1>5. Holds(ctx.message, 0 * BlockLen, 0)
  BY <1>4 DEF Holds
<1>6. QED
  BY <1>1, <1>2, <1>4, <1>5 DEF StreamBook

LEMMA NextStreamBook == StreamBook /\ [HashNext]_hashVars => StreamBook'
<1> SUFFICES ASSUME StreamBook, [HashNext]_hashVars PROVE StreamBook'
  OBVIOUS
<1> DEFINE q == fed \div BlockLen
           r == fed % BlockLen
<1>1. fed \in Nat /\ q \in Nat /\ r \in 0 .. BlockLen - 1 /\ fed = q * BlockLen + r
  BY DEF StreamBook, BlockLen
<1>2. CASE UpdatePiece
  <2>1. PICK n \in Lengths : ctx' = Update(ctx, Behind(Message(fed + n), fed)) /\ fed' = fed + n
    BY <1>2 DEF UpdatePiece
  <2>2. n \in Nat
    BY LengthsAssumption
  <2>3. Behind(Message(fed + n), fed) = Piece(q * BlockLen + r, n)
    <3>1. Message(fed + n) = Piece(0, fed + n)
      BY <1>1, <2>2, MessageIs
    <3>2. fed + n \in Nat /\ fed \in 0 .. fed + n /\ 0 + fed = fed /\ (fed + n) - fed = n
      BY <1>1, <2>2
    <3>3. Behind(Piece(0, fed + n), fed) = Piece(0 + fed, (fed + n) - fed)
      BY <3>2, FrontAndRear
    <3>4. QED
      BY <1>1, <3>1, <3>2, <3>3
  <2>4. ctx = Absorbed(q, ctx.message, r) /\ Holds(ctx.message, q * BlockLen, r)
    BY <1>2 DEF UpdatePiece, StreamBook
  <2> DEFINE done == q + ((r + n) \div BlockLen)
             after == (r + n) % BlockLen
  <2>5. (fed + n) \div BlockLen = done /\ (fed + n) % BlockLen = after /\ after # -1
    BY <1>1, <2>2 DEF BlockLen
  <2> HIDE DEF q, r
  <2>6. PICK m2 : /\ Update(Absorbed(q, ctx.message, r), Piece(q * BlockLen + r, n))
                      = Absorbed(done, m2, after)
                  /\ Holds(m2, done * BlockLen, after)
    BY <1>1, <2>2, <2>4, UpdateGoesOn
  <2> HIDE DEF done, after
  <2>7. ctx' = Absorbed(done, m2, after)
    BY <2>1, <2>3, <2>4, <2>6
  <2>8. ctx'.message = m2 /\ ctx'.rest = after
    BY <2>7 DEF Absorbed
  <2>9. fed' \div BlockLen = done /\ fed' % BlockLen = after /\ fed' \in Nat
    BY <1>1, <2>1, <2>2, <2>5
  <2>10. QED
    BY <2>5, <2>6, <2>7, <2>8, <2>9 DEF StreamBook
<1>3. CASE FinishDigest
  <2>1. ctx' = Finish(ctx) /\ fed' = fed
    BY <1>3 DEF FinishDigest
  <2>2. CASE ctx.rest = -1
    <3>1. ctx' = ctx
      BY <2>1, <2>2 DEF Finish
    <3>2. QED
      BY <2>1, <3>1 DEF StreamBook
  <2>3. CASE ctx.rest # -1
    <3>1. ctx = Absorbed(q, ctx.message, r) /\ Holds(ctx.message, q * BlockLen, r)
      BY <2>3 DEF StreamBook
    <3> HIDE DEF q, r
    <3>2. /\ Finish(Absorbed(q, ctx.message, r)).hash
               = Append(Blocks(q), Padded(Piece(q * BlockLen, r), BlockLen))
          /\ Finish(Absorbed(q, ctx.message, r)).rest = -1
      BY <1>1, <3>1, FinishPads
    <3>3. /\ ctx'.rest = -1
          /\ ctx'.hash = Append(Blocks(q), Padded(Piece(q * BlockLen, r), BlockLen))
      BY <2>1, <3>1, <3>2
    <3>4. QED
      BY <1>1, <2>1, <3>3 DEF StreamBook, q, r
  <2>4. QED
    BY <2>2, <2>3
<1>4. CASE UNCHANGED <<ctx, fed>>
  BY <1>4 DEF StreamBook
<1>5. QED
  BY <1>2, <1>3, <1>4 DEF HashNext, NextRound, hashVars

\* keccak.c:118-233 and hash.c:49-57, for a message of any length in pieces of any
\* lengths: the digest of the KECCAK_CTX is that of keccak() and of cn_fast_hash().
THEOREM StreamsAgree == HashSpec => []StreamIsOneShot
<1>1. StreamBook => StreamIsOneShot
  <2> SUFFICES ASSUME StreamBook, ctx.rest = -1
               PROVE  /\ Digest(ctx) = Hash(Message(fed), DigestSize)
                      /\ Digest(ctx) = CnFastHash(Message(fed))
    BY DEF StreamIsOneShot
  <2> DEFINE b == Append(Blocks(fed \div BlockLen),
                         Padded(Piece((fed \div BlockLen) * BlockLen, fed % BlockLen), BlockLen))
  <2>1. fed \in Nat /\ ctx.hash = b
    BY DEF StreamBook
  <2>2. /\ Hash(Message(fed), DigestSize) = [blocks |-> b, bytes |-> DigestSize]
        /\ Hash(Message(fed), StateBytes) = [blocks |-> b, bytes |-> StateBytes]
    BY <2>1, HashIs
  <2> HIDE DEF b
  <2>3. Digest(ctx) = [blocks |-> b, bytes |-> DigestSize]
    BY <2>1 DEF Digest
  <2>4. CnFastHash(Message(fed)) = [blocks |-> b, bytes |-> DigestSize]
    BY <2>2 DEF CnFastHash, HashProcess
  <2>5. QED
    BY <2>2, <2>3, <2>4
<1>2. QED
  BY <1>1, InitStreamBook, NextStreamBook, PTL DEF HashSpec

----------------------------------------------------------------------------
(* Rho and pi: the chain of assignments.                                   *)

\* The lanes in the order of the walk, and the place of each lane but 0 in it.
WalkLanes ==
  <<1, 10, 7, 11, 17, 18, 3, 5, 16, 8, 21, 24, 4, 15, 23, 19, 13, 12, 2, 20, 14, 22, 9, 6>>
Places ==
  <<0, 18, 6, 12, 7, 23, 2, 9, 22, 1, 3, 17, 16, 20, 13, 8, 4, 5, 15, 19, 10, 21, 14, 11>>
Amounts ==
  <<1, 3, 6, 10, 15, 21, 28, 36, 45, 55, 2, 14, 27, 41, 56, 8, 25, 43, 62, 18, 39, 61, 20, 44>>
LaneAt(t) == WalkLanes[t + 1]
PlaceOf(l) == Places[l]
Triangle(t) == (((t + 1) * (t + 2)) \div 2) % 64

\* The two tables are inverse to each other.
LEMMA PlacesAre ==
  /\ \A t \in 0 .. 23 : LaneAt(t) \in 1 .. 24 /\ PlaceOf(LaneAt(t)) = t
  /\ \A l \in 1 .. 24 : PlaceOf(l) \in 0 .. 23 /\ LaneAt(PlaceOf(l)) = l
<1>1. ASSUME NEW t \in 0 .. 23 PROVE LaneAt(t) \in 1 .. 24 /\ PlaceOf(LaneAt(t)) = t
  BY DEF LaneAt, PlaceOf, WalkLanes, Places
<1>2. ASSUME NEW l \in 1 .. 24 PROVE PlaceOf(l) \in 0 .. 23 /\ LaneAt(PlaceOf(l)) = l
  BY DEF LaneAt, PlaceOf, WalkLanes, Places
<1>3. QED
  BY <1>1, <1>2

\* The amounts are the triangular numbers, cut to a lane, and none is 0.
LEMMA TriangleIs ==
  ASSUME NEW t \in 0 .. 23
  PROVE  Triangle(t) = Amounts[t + 1] /\ Triangle(t) \in 1 .. 63
<1>1. /\ Triangle(0) = 1 /\ Triangle(1) = 3 /\ Triangle(2) = 6 /\ Triangle(3) = 10
      /\ Triangle(4) = 15 /\ Triangle(5) = 21 /\ Triangle(6) = 28 /\ Triangle(7) = 36
      /\ Triangle(8) = 45 /\ Triangle(9) = 55 /\ Triangle(10) = 2 /\ Triangle(11) = 14
      /\ Triangle(12) = 27 /\ Triangle(13) = 41 /\ Triangle(14) = 56 /\ Triangle(15) = 8
      /\ Triangle(16) = 25 /\ Triangle(17) = 43 /\ Triangle(18) = 62 /\ Triangle(19) = 18
      /\ Triangle(20) = 39 /\ Triangle(21) = 61 /\ Triangle(22) = 20 /\ Triangle(23) = 44
  BY DEF Triangle
<1>2. QED
  BY <1>1 DEF Amounts

\* The chain of the code goes backwards along the walk.
LEMMA ChainIs ==
  ASSUME NEW k \in 1 .. 23
  PROVE  /\ RhoPiChain[k][1] = LaneAt((25 - k) % 24)
         /\ RhoPiChain[k][2] = LaneAt(24 - k)
         /\ RhoPiChain[k][3] = Triangle(24 - k)
<1>1. RhoPiChain[k][1] = LaneAt((25 - k) % 24)
  BY DEF RhoPiChain, LaneAt, WalkLanes
<1>2. RhoPiChain[k][2] = LaneAt(24 - k)
  BY DEF RhoPiChain, LaneAt, WalkLanes
<1>3. RhoPiChain[k][3] = Triangle(24 - k)
  <2>1. RhoPiChain[k][3] = Amounts[(24 - k) + 1]
    BY DEF RhoPiChain, Amounts
  <2>2. QED
    BY <2>1, TriangleIs
<1>4. QED
  BY <1>1, <1>2, <1>3

LEMMA ChainLen == Len(RhoPiChain) = 23
BY DEF RhoPiChain

\* ROTL64 moves each bit of a lane, and loses none.
LEMMA RotlMoves ==
  ASSUME NEW s \in SUBSET (0 .. 63), NEW y \in 1 .. 63
  PROVE  ROTL64(s, y) = {(b + y) % 64 : b \in s}
<1>1. ROTL64(s, y) = {b + y : b \in {c \in s : c + y < 64}}
                       \cup {b - (64 - y) : b \in {c \in s : c >= 64 - y}}
  BY DEF ROTL64, Shl, Shr
<1>2. ASSUME NEW b \in s PROVE (b + y) % 64 = IF b + y < 64 THEN b + y ELSE b - (64 - y)
  OBVIOUS
<1>3. ASSUME NEW b \in s PROVE b + y < 64 \/ b >= 64 - y
  OBVIOUS
<1>4. ASSUME NEW x PROVE x \in ROTL64(s, y) <=> \E b \in s : x = (b + y) % 64
  BY <1>1, <1>2, <1>3
<1>5. QED
  BY <1>4

\* Two sequences of steps that begin alike and go on alike are the same.
LEMMA SameAlong ==
  ASSUME NEW d \in Nat, NEW f, NEW g,
         f = [k \in 0 .. d |-> f[k]], g = [k \in 0 .. d |-> g[k]], f[0] = g[0],
         \A k \in 1 .. d : f[k - 1] = g[k - 1] => f[k] = g[k]
  PROVE  f = g
<1> DEFINE S == {k \in 0 .. d : f[k] # g[k]}
<1>1. S = {}
  <2>1. SUFFICES ASSUME S # {} PROVE FALSE
    OBVIOUS
  <2>2. PICK k \in S : \A j \in S : k <= j
    <3>1. S \in SUBSET Nat
      OBVIOUS
    <3> HIDE DEF S
    <3>2. QED
      BY <2>1, <3>1, SmallestIn
  <2>3. k \in 1 .. d /\ f[k] # g[k]
    OBVIOUS
  <2>4. k - 1 \in 0 .. d /\ ~(k <= k - 1)
    BY <2>3
  <2>5. f[k - 1] = g[k - 1]
    BY <2>2, <2>4
  <2>6. QED
    BY <2>3, <2>5
<1>2. \A k \in 0 .. d : f[k] = g[k]
  BY <1>1
<1> HIDE DEF S
<1>3. QED
  BY <1>2

\* In which assignment of the chain a lane is written (25: in none), and what it gets.
StepOf(l) == IF l = 0 THEN 25 ELSE IF PlaceOf(l) = 0 THEN 1 ELSE 25 - PlaceOf(l)
SourceOf(l) == LaneAt((PlaceOf(l) + 23) % 24)
AmountOf(l) == Triangle((PlaceOf(l) + 23) % 24)

\* Each assignment writes a lane that no other writes, from one that is not written yet.
LEMMA ChainStepIs ==
  ASSUME NEW k \in 1 .. 23, NEW to, NEW from, NEW by,
         to = RhoPiChain[k][1], from = RhoPiChain[k][2], by = RhoPiChain[k][3]
  PROVE  /\ to \in 1 .. 24 /\ StepOf(to) = k /\ SourceOf(to) = from /\ AmountOf(to) = by
         /\ from \in 1 .. 24 /\ StepOf(from) > k - 1
         /\ \A l \in Lanes : StepOf(l) = k => l = to
<1> DEFINE u == (25 - k) % 24
           v == 24 - k
<1>1. u \in 0 .. 23 /\ v \in 1 .. 23 /\ (u + 23) % 24 = v /\ (u = 0 => k = 1) /\ (u # 0 => u = 25 - k)
  OBVIOUS
<1>2. to = LaneAt(u) /\ from = LaneAt(v) /\ by = Triangle(v)
  BY ChainIs
<1>3. to \in 1 .. 24 /\ PlaceOf(to) = u /\ from \in 1 .. 24 /\ PlaceOf(from) = v
  BY <1>1, <1>2, PlacesAre
<1> HIDE DEF u
<1>4. StepOf(to) = k /\ SourceOf(to) = from /\ AmountOf(to) = by /\ StepOf(from) > k - 1
  BY <1>1, <1>2, <1>3 DEF StepOf, SourceOf, AmountOf
<1>5. ASSUME NEW l \in Lanes, StepOf(l) = k PROVE l = to
  <2>1. l \in 1 .. 24
    BY <1>5 DEF StepOf, Lanes
  <2>2. PlaceOf(l) \in 0 .. 23 /\ LaneAt(PlaceOf(l)) = l
    BY <2>1, PlacesAre
  <2>3. PlaceOf(l) = u
    BY <1>1, <1>5, <2>1, <2>2 DEF StepOf
  <2>4. QED
    BY <1>2, <2>2, <2>3
<1>6. QED
  BY <1>3, <1>4, <1>5

\* The state when k assignments of the chain are done.
After(st, k) ==
  [l \in Lanes |-> IF StepOf(l) <= k THEN ROTL64(st[SourceOf(l)], AmountOf(l)) ELSE st[l]]

LEMMA StepIsNat == ASSUME NEW l \in Lanes PROVE StepOf(l) \in 1 .. 25
<1>1. CASE l = 0
  BY <1>1 DEF StepOf
<1>2. CASE l # 0
  <2>1. PlaceOf(l) \in 0 .. 23
    BY <1>2, PlacesAre DEF Lanes
  <2>2. QED
    BY <1>2, <2>1 DEF StepOf
<1>3. QED
  BY <1>1, <1>2

\* One more assignment.
LEMMA AfterGoesOn ==
  ASSUME NEW st, NEW k \in 1 .. 23
  PROVE  LET s == After(st, k - 1)
             m == RhoPiChain[k]
         IN  [s EXCEPT ![m[1]] = ROTL64(s[m[2]], m[3])] = After(st, k)
<1>1. PICK to, from, by : to = RhoPiChain[k][1] /\ from = RhoPiChain[k][2] /\ by = RhoPiChain[k][3]
  OBVIOUS
<1>2. /\ to \in Lanes /\ StepOf(to) = k /\ SourceOf(to) = from /\ AmountOf(to) = by
      /\ from \in Lanes /\ StepOf(from) > k - 1
      /\ \A l \in Lanes : StepOf(l) = k => l = to
  <2>1. /\ to \in 1 .. 24 /\ StepOf(to) = k /\ SourceOf(to) = from /\ AmountOf(to) = by
        /\ from \in 1 .. 24 /\ StepOf(from) > k - 1
        /\ \A l \in Lanes : StepOf(l) = k => l = to
    BY <1>1, ChainStepIs
  <2>2. QED
    BY <2>1 DEF Lanes
<1> DEFINE s == After(st, k - 1)
           e == [s EXCEPT ![to] = ROTL64(s[from], by)]
           a == After(st, k)
<1>3. s[from] = st[from]
  <2>1. ~(StepOf(from) <= k - 1)
    BY <1>2, StepIsNat
  <2>2. QED
    BY <1>2, <2>1 DEF After
<1>4. a[to] = ROTL64(st[from], by)
  <2>1. StepOf(to) <= k
    BY <1>2
  <2>2. QED
    BY <1>2, <2>1 DEF After
<1>5. ASSUME NEW l \in Lanes, l # to PROVE a[l] = s[l]
  <2>1. StepOf(l) <= k <=> StepOf(l) <= k - 1
    BY <1>2, <1>5, StepIsNat
  <2>2. QED
    BY <2>1 DEF After
<1>6. s = [l \in Lanes |-> s[l]] /\ a = [l \in Lanes |-> a[l]]
  BY DEF After
<1> HIDE DEF s, a
<1>7. e = a
  <2>1. e = [l \in Lanes |-> e[l]]
    BY <1>6
  <2>2. \A l \in Lanes : e[l] = a[l]
    <3>1. e[to] = ROTL64(s[from], by)
      BY <1>2, <1>6
    <3>2. \A l \in Lanes : l # to => e[l] = s[l]
      BY <1>6
    <3> HIDE DEF e
    <3>3. QED
      BY <1>3, <1>4, <1>5, <3>1, <3>2
  <2> HIDE DEF e
  <2>3. QED
    BY <1>6, <2>1, <2>2
<1>8. QED
  BY <1>1, <1>7 DEF s, a

\* The chain of assignments, as a whole.
LEMMA MovedIs ==
  ASSUME NEW st, st = [l \in Lanes |-> st[l]]
  PROVE  Moved(st) = After(st, 23)
<1> DEFINE Next1(s, k) == [s EXCEPT ![RhoPiChain[k][1]] = ROTL64(s[RhoPiChain[k][2]], RhoPiChain[k][3])]
           Eq(f) == f = [k \in 0 .. 23 |-> IF k = 0 THEN st ELSE Next1(f[k - 1], k)]
           g == [k \in 0 .. 23 |-> After(st, k)]
<1>1. Moved(st) = (CHOOSE f : Eq(f))[23]
  BY ChainLen DEF Moved
<1>2. After(st, 0) = st
  <2>1. After(st, 0) = [l \in Lanes |-> st[l]]
    BY StepIsNat DEF After
  <2>2. QED
    BY <2>1
<1>3. \A k \in 1 .. 23 : Next1(After(st, k - 1), k) = After(st, k)
  BY AfterGoesOn
<1>4. Eq(g)
  <2>1. \A k \in 0 .. 23 : g[k] = IF k = 0 THEN st ELSE Next1(g[k - 1], k)
    <3>1. ASSUME NEW k \in 1 .. 23 PROVE g[k] = Next1(g[k - 1], k)
      <4>1. g[k] = After(st, k) /\ g[k - 1] = After(st, k - 1)
        OBVIOUS
      <4> HIDE DEF g, Next1
      <4>2. QED
        BY <1>3, <4>1
    <3>2. g[0] = st
      BY <1>2
    <3> HIDE DEF g, Next1
    <3>3. QED
      BY <3>1, <3>2
  <2>2. g = [k \in 0 .. 23 |-> g[k]]
    OBVIOUS
  <2> HIDE DEF g, Next1
  <2>3. QED
    BY <2>1, <2>2
<1>5. ASSUME NEW f, Eq(f) PROVE f = g
  <2> HIDE DEF g, Next1
  <2>1. f = [k \in 0 .. 23 |-> f[k]] /\ f[0] = st /\ \A k \in 1 .. 23 : f[k] = Next1(f[k - 1], k)
    BY <1>5
  <2>2. g = [k \in 0 .. 23 |-> g[k]] /\ g[0] = st /\ \A k \in 1 .. 23 : g[k] = Next1(g[k - 1], k)
    BY <1>4
  <2>3. \A k \in 1 .. 23 : f[k - 1] = g[k - 1] => f[k] = g[k]
    BY <2>1, <2>2
  <2>4. QED
    BY <2>1, <2>2, <2>3, SameAlong
<1>6. g[23] = After(st, 23)
  OBVIOUS
<1> HIDE DEF Eq, g
<1>7. (CHOOSE f : Eq(f)) = g
  BY <1>4, <1>5
<1>8. QED
  BY <1>1, <1>6, <1>7

\* What rho and pi do: every lane but lane 0 gets another one, rotated.
LEMMA RhoPiIs ==
  ASSUME NEW st, st = [l \in Lanes |-> st[l]]
  PROVE  RhoPi(st) = [l \in Lanes |-> IF l = 0 THEN st[0]
                                      ELSE ROTL64(st[SourceOf(l)], AmountOf(l))]
<1> DEFINE a == After(st, 23)
           r == [a EXCEPT ![10] = ROTL64(st[1], 1)]
<1>1. RhoPi(st) = r
  BY MovedIs DEF RhoPi
<1>2. 10 \in Lanes /\ SourceOf(10) = 1 /\ AmountOf(10) = 1 /\ StepOf(10) = 24
  <2>1. PlaceOf(10) = 1 /\ LaneAt(0) = 1
    BY DEF PlaceOf, Places, LaneAt, WalkLanes
  <2>2. Triangle(0) = 1
    BY DEF Triangle
  <2>3. QED
    BY <2>1, <2>2 DEF SourceOf, AmountOf, StepOf, Lanes
<1>3. ASSUME NEW l \in Lanes, l # 10, l # 0 PROVE StepOf(l) <= 23
  <2>1. l \in 1 .. 24 /\ PlaceOf(l) \in 0 .. 23 /\ LaneAt(PlaceOf(l)) = l
    BY <1>3, PlacesAre DEF Lanes
  <2>2. PlaceOf(l) # 1
    <3>1. LaneAt(1) = 10
      BY DEF LaneAt, WalkLanes
    <3>2. QED
      BY <1>3, <2>1, <3>1
  <2>3. QED
    BY <1>3, <2>1, <2>2 DEF StepOf
<1>4. StepOf(0) = 25
  BY DEF StepOf
<1>5. a = [l \in Lanes |-> a[l]]
      /\ \A l \in Lanes : a[l] = IF StepOf(l) <= 23 THEN ROTL64(st[SourceOf(l)], AmountOf(l)) ELSE st[l]
  BY DEF After
<1> HIDE DEF a
<1>6. r = [l \in Lanes |-> r[l]] /\ r[10] = ROTL64(st[1], 1) /\ \A l \in Lanes : l # 10 => r[l] = a[l]
  BY <1>2, <1>5
<1> HIDE DEF r
<1>7. \A l \in Lanes : r[l] = IF l = 0 THEN st[0] ELSE ROTL64(st[SourceOf(l)], AmountOf(l))
  BY <1>2, <1>3, <1>4, <1>5, <1>6
<1>8. QED
  BY <1>1, <1>6, <1>7

----------------------------------------------------------------------------
(* Where the reference sends each lane, and each bit.                      *)

\* The coordinates of a lane.
LEMMA Coordinates ==
  /\ \A l \in Lanes : l % 5 \in 0 .. 4 /\ l \div 5 \in 0 .. 4 /\ 5 * (l \div 5) + (l % 5) = l
  /\ \A x, y \in 0 .. 4 : 5 * y + x \in Lanes /\ (5 * y + x) % 5 = x /\ (5 * y + x) \div 5 = y
<1>1. ASSUME NEW l \in Lanes
      PROVE  l % 5 \in 0 .. 4 /\ l \div 5 \in 0 .. 4 /\ 5 * (l \div 5) + (l % 5) = l
  BY DEF Lanes
<1>2. ASSUME NEW x \in 0 .. 4, NEW y \in 0 .. 4
      PROVE  5 * y + x \in Lanes /\ (5 * y + x) % 5 = x /\ (5 * y + x) \div 5 = y
  BY DEF Lanes
<1>3. QED
  BY <1>1, <1>2

\* Where a lane is.
At(l) == <<l % 5, l \div 5>>

\* From each lane of the walk pi leads to the next, and from the last to the first.
LEMMA PiWalks ==
  ASSUME NEW t \in 0 .. 23
  PROVE  PiOf(LaneAt(t) % 5, LaneAt(t) \div 5) = At(LaneAt((t + 1) % 24))
<1> DEFINE l == LaneAt(t)
           x == l % 5
           y == l \div 5
           n == LaneAt((t + 1) % 24)
<1>1. l \in 1 .. 24 /\ n \in 1 .. 24
  BY PlacesAre
<1>2. n = 5 * ((2 * x + 3 * y) % 5) + y
  BY DEF LaneAt, WalkLanes
<1>3. x \in 0 .. 4 /\ y \in 0 .. 4 /\ (2 * x + 3 * y) % 5 \in 0 .. 4
  BY <1>1
<1> HIDE DEF l, n
<1>4. n % 5 = y /\ n \div 5 = (2 * x + 3 * y) % 5
  BY <1>2, <1>3
<1>5. QED
  BY <1>4 DEF PiOf, At, l, n

\* The walk of the reference is that of the table.
LEMMA WalkIs == Walk = [t \in 0 .. 23 |-> At(LaneAt(t))]
<1> DEFINE Eq(f) == f = [t \in 0 .. 23 |-> IF t = 0 THEN <<1, 0>>
                                           ELSE PiOf(f[t - 1][1], f[t - 1][2])]
           g == [t \in 0 .. 23 |-> At(LaneAt(t))]
<1>1. Walk = CHOOSE f : Eq(f)
  BY DEF Walk
<1>2. g[0] = <<1, 0>>
  <2>1. LaneAt(0) = 1
    BY DEF LaneAt, WalkLanes
  <2>2. QED
    BY <2>1 DEF At
<1>3. ASSUME NEW t \in 1 .. 23 PROVE g[t] = PiOf(g[t - 1][1], g[t - 1][2])
  <2>1. t - 1 \in 0 .. 23 /\ ((t - 1) + 1) % 24 = t
    OBVIOUS
  <2>2. PiOf(LaneAt(t - 1) % 5, LaneAt(t - 1) \div 5) = At(LaneAt(t))
    BY <2>1, PiWalks
  <2>3. g[t] = At(LaneAt(t)) /\ g[t - 1] = At(LaneAt(t - 1))
    BY <2>1
  <2> HIDE DEF g
  <2>4. QED
    BY <2>2, <2>3 DEF At
<1>4. g = [t \in 0 .. 23 |-> g[t]]
  OBVIOUS
<1> HIDE DEF g
<1>5. Eq(g)
  <2>1. \A t \in 0 .. 23 : g[t] = IF t = 0 THEN <<1, 0>> ELSE PiOf(g[t - 1][1], g[t - 1][2])
    BY <1>2, <1>3
  <2>2. QED
    BY <1>4, <2>1
<1>6. ASSUME NEW f, Eq(f) PROVE f = g
  <2>1. /\ f = [t \in 0 .. 23 |-> f[t]] /\ f[0] = <<1, 0>>
        /\ \A t \in 1 .. 23 : f[t] = PiOf(f[t - 1][1], f[t - 1][2])
    BY <1>6
  <2>2. \A t \in 1 .. 23 : f[t - 1] = g[t - 1] => f[t] = g[t]
    BY <1>3, <2>1
  <2>3. f[0] = g[0]
    BY <1>2, <2>1
  <2>4. QED
    BY <1>4, <2>1, <2>2, <2>3, SameAlong
<1> HIDE DEF Eq
<1>7. (CHOOSE f : Eq(f)) = g
  BY <1>5, <1>6
<1>8. QED
  BY <1>1, <1>7 DEF g

\* The amount of a lane of the walk is the triangular number of its place.
LEMMA RhoOfIs ==
  ASSUME NEW t \in 0 .. 23
  PROVE  RhoOf(LaneAt(t) % 5, LaneAt(t) \div 5) = Triangle(t)
<1> DEFINE l == LaneAt(t)
<1>1. l \in 1 .. 24 /\ l \in Lanes
  BY PlacesAre DEF Lanes
<1>2. At(l) # <<0, 0>>
  BY <1>1, Coordinates DEF At
<1>3. \A u \in 0 .. 23 : Walk[u] = At(l) => u = t
  <2>1. SUFFICES ASSUME NEW u \in 0 .. 23, Walk[u] = At(l) PROVE u = t
    OBVIOUS
  <2>2. At(LaneAt(u)) = At(l)
    BY <2>1, WalkIs
  <2>3. LaneAt(u) \in Lanes
    BY PlacesAre DEF Lanes
  <2>4. LaneAt(u) = l
    <3>1. LaneAt(u) % 5 = l % 5 /\ LaneAt(u) \div 5 = l \div 5
      BY <2>2 DEF At
    <3>2. QED
      BY <1>1, <2>3, <3>1, Coordinates
  <2>5. QED
    BY <2>4, PlacesAre
<1>4. Walk[t] = At(l)
  BY WalkIs
<1> HIDE DEF l
<1>5. (CHOOSE u \in 0 .. 23 : Walk[u] = At(l)) = t
  BY <1>3, <1>4
<1>6. RhoOf(l % 5, l \div 5) = LET u == CHOOSE u \in 0 .. 23 : Walk[u] = At(l)
                               IN  (((u + 1) * (u + 2)) \div 2) % 64
  BY <1>2 DEF RhoOf, At
<1>7. RhoOf(l % 5, l \div 5) = Triangle(t)
  BY <1>5, <1>6 DEF Triangle
<1>8. QED
  BY <1>7 DEF l

\* A lane gets what rho and pi of the reference send to it.
LEMMA SourceIs ==
  ASSUME NEW l \in Lanes, l # 0
  PROVE  /\ SourceOf(l) \in Lanes \ {0} /\ AmountOf(l) \in 1 .. 63
         /\ PiOf(SourceOf(l) % 5, SourceOf(l) \div 5) = At(l)
         /\ RhoOf(SourceOf(l) % 5, SourceOf(l) \div 5) = AmountOf(l)
<1>1. l \in 1 .. 24
  BY DEF Lanes
<1>2. PICK p : p = PlaceOf(l)
  OBVIOUS
<1>3. p \in 0 .. 23 /\ LaneAt(p) = l
  BY <1>1, <1>2, PlacesAre
<1>4. PICK t : t = (p + 23) % 24
  OBVIOUS
<1>5. t \in 0 .. 23 /\ (t + 1) % 24 = p
  BY <1>3, <1>4
<1>6. SourceOf(l) = LaneAt(t) /\ AmountOf(l) = Triangle(t)
  BY <1>2, <1>4 DEF SourceOf, AmountOf
<1>7. LaneAt(t) \in 1 .. 24 /\ Triangle(t) \in 1 .. 63
  BY <1>5, PlacesAre, TriangleIs
<1>8. PiOf(LaneAt(t) % 5, LaneAt(t) \div 5) = At(l)
  BY <1>3, <1>5, PiWalks
<1>9. RhoOf(LaneAt(t) % 5, LaneAt(t) \div 5) = Triangle(t)
  BY <1>5, RhoOfIs
<1>10. QED
  BY <1>6, <1>7, <1>8, <1>9 DEF Lanes

\* Each lane is the source of one.
LEMMA TargetExists ==
  ASSUME NEW s \in Lanes, s # 0
  PROVE  \E l \in Lanes : l # 0 /\ SourceOf(l) = s
<1>1. s \in 1 .. 24
  BY DEF Lanes
<1>2. PICK t : t = PlaceOf(s)
  OBVIOUS
<1>3. t \in 0 .. 23 /\ LaneAt(t) = s
  BY <1>1, <1>2, PlacesAre
<1>4. PICK u : u = (t + 1) % 24
  OBVIOUS
<1>5. u \in 0 .. 23 /\ (u + 23) % 24 = t
  BY <1>3, <1>4
<1>6. LaneAt(u) \in 1 .. 24 /\ PlaceOf(LaneAt(u)) = u
  BY <1>5, PlacesAre
<1>7. SourceOf(LaneAt(u)) = s
  BY <1>3, <1>5, <1>6 DEF SourceOf
<1>8. QED
  BY <1>6, <1>7 DEF Lanes

\* The states of keccakf.
States == [Lanes -> SUBSET (0 .. 63)]

\* Rho and pi, for any state: each bit goes where the reference sends it.
LEMMA RhoPiMovesBits ==
  ASSUME NEW st \in States
  PROVE  BitsOf(RhoPi(st)) =
           {<<PiOf(b[1], b[2])[1], PiOf(b[1], b[2])[2], (b[3] + RhoOf(b[1], b[2])) % 64>> :
              b \in BitsOf(st)}
<1> DEFINE r == RhoPi(st)
           Image(b) == <<PiOf(b[1], b[2])[1], PiOf(b[1], b[2])[2], (b[3] + RhoOf(b[1], b[2])) % 64>>
<1>0. \A l \in Lanes : st[l] \in SUBSET (0 .. 63)
  BY DEF States
<1>1. r[0] = st[0] /\ \A l \in Lanes : l # 0 => r[l] = ROTL64(st[SourceOf(l)], AmountOf(l))
  <2>1. r = [l \in Lanes |-> IF l = 0 THEN st[0] ELSE ROTL64(st[SourceOf(l)], AmountOf(l))]
    BY RhoPiIs DEF States
  <2>2. 0 \in Lanes
    BY DEF Lanes
  <2> HIDE DEF r
  <2>3. QED
    BY <2>1, <2>2
<1>2. \A l \in Lanes : l # 0 => r[l] = {(z + AmountOf(l)) % 64 : z \in st[SourceOf(l)]}
  BY <1>0, <1>1, RotlMoves, SourceIs
<1> HIDE DEF r
<1>3. ASSUME NEW z \in 0 .. 63 PROVE Image(<<0, 0, z>>) = <<0, 0, z>>
  <2>1. PiOf(0, 0) = <<0, 0>> /\ RhoOf(0, 0) = 0 /\ (z + 0) % 64 = z
    BY DEF PiOf, RhoOf
  <2>2. QED
    BY <2>1
<1>4. ASSUME NEW l \in Lanes, l # 0, NEW z \in 0 .. 63
      PROVE  Image(<<SourceOf(l) % 5, SourceOf(l) \div 5, z>>)
               = <<l % 5, l \div 5, (z + AmountOf(l)) % 64>>
  <2>1. PiOf(SourceOf(l) % 5, SourceOf(l) \div 5) = <<l % 5, l \div 5>>
    BY <1>4, SourceIs DEF At
  <2>2. RhoOf(SourceOf(l) % 5, SourceOf(l) \div 5) = AmountOf(l)
    BY <1>4, SourceIs
  <2>3. QED
    BY <2>1, <2>2
<1> DEFINE I == {Image(b) : b \in BitsOf(st)}
<1>5. ASSUME NEW q \in BitsOf(r) PROVE q \in I
  <2>1. PICK l, z : l \in Lanes /\ z \in r[l] /\ q = <<l % 5, l \div 5, z>>
    BY DEF BitsOf
  <2>2. CASE l = 0
    <3>1. z \in st[0] /\ z \in 0 .. 63 /\ q = <<0, 0, z>> /\ 0 \in Lanes
      BY <1>0, <1>1, <2>1, <2>2
    <3>2. <<0, 0, z>> \in BitsOf(st)
      <4>1. 0 % 5 = 0 /\ 0 \div 5 = 0
        OBVIOUS
      <4>2. <<0 % 5, 0 \div 5, z>> \in BitsOf(st)
        BY <3>1 DEF BitsOf
      <4>3. QED
        BY <4>1, <4>2
    <3>3. QED
      BY <1>3, <3>1, <3>2
  <2>3. CASE l # 0
    <3>1. PICK y \in st[SourceOf(l)] : z = (y + AmountOf(l)) % 64
      BY <1>2, <2>1, <2>3
    <3>2. SourceOf(l) \in Lanes
      BY <2>1, <2>3, SourceIs
    <3>3. y \in 0 .. 63
      BY <1>0, <3>1, <3>2
    <3>4. <<SourceOf(l) % 5, SourceOf(l) \div 5, y>> \in BitsOf(st)
      BY <3>1, <3>2 DEF BitsOf
    <3>5. q = Image(<<SourceOf(l) % 5, SourceOf(l) \div 5, y>>)
      BY <1>4, <2>1, <2>3, <3>1, <3>3
    <3> HIDE DEF Image
    <3>6. QED
      BY <3>4, <3>5
  <2>4. QED
    BY <2>2, <2>3
<1>6. ASSUME NEW b \in BitsOf(st) PROVE Image(b) \in BitsOf(r)
  <2>1. PICK s, z : s \in Lanes /\ z \in st[s] /\ b = <<s % 5, s \div 5, z>>
    BY DEF BitsOf
  <2>2. z \in 0 .. 63
    BY <1>0, <2>1
  <2>3. CASE s = 0
    <3>1. 0 \in Lanes /\ z \in r[0] /\ 0 % 5 = 0 /\ 0 \div 5 = 0
      BY <1>1, <2>1, <2>3
    <3>2. <<0 % 5, 0 \div 5, z>> \in BitsOf(r)
      BY <3>1 DEF BitsOf
    <3>3. b = <<0, 0, z>>
      BY <2>1, <2>3, <3>1
    <3>4. Image(b) = <<0, 0, z>>
      BY <1>3, <2>2, <3>3
    <3> HIDE DEF Image
    <3>5. QED
      BY <3>1, <3>2, <3>4
  <2>4. CASE s # 0
    <3>1. PICK l \in Lanes : l # 0 /\ SourceOf(l) = s
      BY <2>1, <2>4, TargetExists
    <3>2. (z + AmountOf(l)) % 64 \in r[l]
      BY <1>2, <2>1, <3>1
    <3>3. <<l % 5, l \div 5, (z + AmountOf(l)) % 64>> \in BitsOf(r)
      BY <3>2 DEF BitsOf
    <3>4. Image(b) = <<l % 5, l \div 5, (z + AmountOf(l)) % 64>>
      BY <1>4, <2>1, <2>2, <3>1
    <3> HIDE DEF Image
    <3>5. QED
      BY <3>3, <3>4
  <2>5. QED
    BY <2>3, <2>4
<1>7. BitsOf(r) = I
  <2> HIDE DEF Image
  <2>1. QED
    BY <1>5, <1>6
<1>8. QED
  BY <1>7 DEF r

----------------------------------------------------------------------------
(* Theta and chi.                                                          *)

\* Sums with nothing, and of five of which one is something.
LEMMA XorNone == ASSUME NEW s PROVE Xor(s, {}) = s /\ Xor({}, s) = s /\ Xor(s, s) = {}
BY DEF Xor

LEMMA XorFive ==
  ASSUME NEW s
  PROVE  /\ Xor(s, Xor({}, Xor({}, Xor({}, {})))) = s /\ Xor({}, Xor(s, Xor({}, Xor({}, {})))) = s
         /\ Xor({}, Xor({}, Xor(s, Xor({}, {})))) = s /\ Xor({}, Xor({}, Xor({}, Xor(s, {})))) = s
         /\ Xor({}, Xor({}, Xor({}, Xor({}, s)))) = s
<1>1. Xor({}, {}) = {} /\ Xor(s, {}) = s /\ Xor({}, s) = s
  BY XorNone
<1>2. QED
  BY <1>1

\* The state with a single bit.
Alone(x, y, z) == [Zero EXCEPT ![5 * y + x] = {z}]

LEMMA AloneIs ==
  ASSUME NEW x \in 0 .. 4, NEW y \in 0 .. 4, NEW z \in 0 .. 63
  PROVE  /\ Alone(x, y, z) \in States
         /\ \A l \in Lanes : Alone(x, y, z)[l] = IF l = 5 * y + x THEN {z} ELSE {}
<1>1. 5 * y + x \in Lanes
  BY Coordinates
<1>2. Alone(x, y, z) = [l \in Lanes |-> IF l = 5 * y + x THEN {z} ELSE {}]
  BY <1>1 DEF Alone, Zero
<1>3. QED
  BY <1>2 DEF States

\* The parities of the columns of a single bit, and what they add.
LEMMA ThetaOfAlone ==
  ASSUME NEW x \in 0 .. 4, NEW y \in 0 .. 4, NEW z \in 0 .. 63
  PROVE  LET s == Theta(Alone(x, y, z))
         IN  /\ s = [l \in Lanes |-> s[l]]
             /\ \A l \in Lanes : s[l] = IF l = 5 * y + x THEN {z}
                                        ELSE IF l % 5 = (x + 1) % 5 THEN {z}
                                        ELSE IF l % 5 = (x + 4) % 5 THEN {(z + 1) % 64}
                                        ELSE {}
<1> DEFINE st == Alone(x, y, z)
           bc == [i \in 0 .. 4 |-> Xor(st[i], Xor(st[i + 5], Xor(st[i + 10], Xor(st[i + 15], st[i + 20]))))]
           t  == [i \in 0 .. 4 |-> Xor(bc[(i + 4) % 5], ROTL64(bc[(i + 1) % 5], 1))]
<1>1. Theta(st) = [l \in Lanes |-> Xor(st[l], t[l % 5])]
  BY DEF Theta
<1>2. \A l \in Lanes : st[l] = IF l = 5 * y + x THEN {z} ELSE {}
  BY AloneIs
<1> HIDE DEF st
<1>3. ASSUME NEW i \in 0 .. 4 PROVE bc[i] = IF i = x THEN {z} ELSE {}
  <2>1. bc[i] = Xor(st[i], Xor(st[i + 5], Xor(st[i + 10], Xor(st[i + 15], st[i + 20]))))
    OBVIOUS
  <2>2. i \in Lanes /\ i + 5 \in Lanes /\ i + 10 \in Lanes /\ i + 15 \in Lanes /\ i + 20 \in Lanes
    BY DEF Lanes
  <2> HIDE DEF bc
  <2>3. CASE i # x
    <3>1. /\ i # 5 * y + x /\ i + 5 # 5 * y + x /\ i + 10 # 5 * y + x /\ i + 15 # 5 * y + x
          /\ i + 20 # 5 * y + x
      BY <2>3
    <3>2. st[i] = {} /\ st[i + 5] = {} /\ st[i + 10] = {} /\ st[i + 15] = {} /\ st[i + 20] = {}
      BY <1>2, <2>2, <3>1
    <3>3. Xor({}, {}) = {}
      BY XorNone
    <3>4. QED
      BY <2>1, <2>3, <3>2, <3>3
  <2>4. CASE i = x
    <3>1. /\ st[i] = IF y = 0 THEN {z} ELSE {}
          /\ st[i + 5] = IF y = 1 THEN {z} ELSE {}
          /\ st[i + 10] = IF y = 2 THEN {z} ELSE {}
          /\ st[i + 15] = IF y = 3 THEN {z} ELSE {}
          /\ st[i + 20] = IF y = 4 THEN {z} ELSE {}
      BY <1>2, <2>2, <2>4
    <3>2. bc[i] = {z}
      <4>1. CASE y = 0
        BY <2>1, <3>1, <4>1, XorFive
      <4>2. CASE y = 1
        BY <2>1, <3>1, <4>2, XorFive
      <4>3. CASE y = 2
        BY <2>1, <3>1, <4>3, XorFive
      <4>4. CASE y = 3
        BY <2>1, <3>1, <4>4, XorFive
      <4>5. CASE y = 4
        BY <2>1, <3>1, <4>5, XorFive
      <4>6. QED
        BY <4>1, <4>2, <4>3, <4>4, <4>5
    <3>3. QED
      BY <2>4, <3>2
  <2>5. QED
    BY <2>3, <2>4
<1>4. ROTL64({z}, 1) = {(z + 1) % 64} /\ ROTL64({}, 1) = {}
  <2>1. {z} \in SUBSET (0 .. 63) /\ {} \in SUBSET (0 .. 63) /\ 1 \in 1 .. 63
    OBVIOUS
  <2>2. ROTL64({z}, 1) = {(b + 1) % 64 : b \in {z}} /\ ROTL64({}, 1) = {(b + 1) % 64 : b \in {}}
    BY <2>1, RotlMoves
  <2>3. QED
    BY <2>2
<1> HIDE DEF bc
<1>5. ASSUME NEW i \in 0 .. 4
      PROVE  t[i] = IF i = (x + 1) % 5 THEN {z}
                    ELSE IF i = (x + 4) % 5 THEN {(z + 1) % 64} ELSE {}
  <2>1. t[i] = Xor(bc[(i + 4) % 5], ROTL64(bc[(i + 1) % 5], 1))
    OBVIOUS
  <2>2. /\ (i + 4) % 5 \in 0 .. 4 /\ (i + 1) % 5 \in 0 .. 4
        /\ (i + 4) % 5 = x <=> i = (x + 1) % 5
        /\ (i + 1) % 5 = x <=> i = (x + 4) % 5
        /\ (x + 1) % 5 # (x + 4) % 5
    OBVIOUS
  <2> HIDE DEF t
  <2>3. PICK u, v : u = (i + 4) % 5 /\ v = (i + 1) % 5
    OBVIOUS
  <2>4. PICK f, g : f = (x + 1) % 5 /\ g = (x + 4) % 5
    OBVIOUS
  <2>5. bc[u] = (IF i = f THEN {z} ELSE {}) /\ bc[v] = (IF i = g THEN {z} ELSE {}) /\ f # g
    BY <1>3, <2>2, <2>3, <2>4
  <2>6. CASE i = f
    <3>1. bc[u] = {z} /\ bc[v] = {}
      BY <2>5, <2>6
    <3>2. t[i] = Xor({z}, {})
      BY <1>4, <2>1, <2>3, <3>1
    <3>3. t[i] = {z}
      BY <3>2, XorNone
    <3>4. QED
      BY <2>4, <2>6, <3>3
  <2>7. CASE i = g
    <3>1. bc[u] = {} /\ bc[v] = {z}
      BY <2>5, <2>7
    <3>2. t[i] = Xor({}, {(z + 1) % 64})
      BY <1>4, <2>1, <2>3, <3>1
    <3>3. t[i] = {(z + 1) % 64}
      BY <3>2, XorNone
    <3>4. QED
      BY <2>4, <2>5, <2>7, <3>3
  <2>8. CASE i # f /\ i # g
    BY <1>4, <2>1, <2>3, <2>4, <2>5, <2>8, XorNone
  <2>9. QED
    BY <2>6, <2>7, <2>8
<1> HIDE DEF t
<1>6. ASSUME NEW l \in Lanes
      PROVE  Xor(st[l], t[l % 5]) = IF l = 5 * y + x THEN {z}
                                    ELSE IF l % 5 = (x + 1) % 5 THEN {z}
                                    ELSE IF l % 5 = (x + 4) % 5 THEN {(z + 1) % 64}
                                    ELSE {}
  <2>1. l % 5 \in 0 .. 4
    BY Coordinates
  <2>2. CASE l = 5 * y + x
    <3>1. l % 5 = x
      BY <2>2, Coordinates
    <3>2. x # (x + 1) % 5 /\ x # (x + 4) % 5
      OBVIOUS
    <3>3. t[l % 5] = {}
      BY <1>5, <3>1, <3>2
    <3>4. QED
      BY <1>2, <2>2, <3>3, XorNone
  <2>3. CASE l # 5 * y + x
    <3>1. st[l] = {}
      BY <1>2, <2>3
    <3>2. Xor(st[l], t[l % 5]) = t[l % 5]
      BY <3>1, XorNone
    <3>3. QED
      BY <1>5, <2>1, <2>3, <3>2
  <2>4. QED
    BY <2>2, <2>3
<1>7. PICK s : s = Theta(st)
  OBVIOUS
<1>8. s = [l \in Lanes |-> s[l]] /\ \A l \in Lanes : s[l] = Xor(st[l], t[l % 5])
  BY <1>1, <1>7
<1>9. QED
  BY <1>6, <1>7, <1>8 DEF st

\* Theta gives those bits that the reference does.
LEMMA ThetaOfBit ==
  ASSUME NEW x \in 0 .. 4, NEW y \in 0 .. 4, NEW z \in 0 .. 63
  PROVE  /\ Theta(Alone(x, y, z)) \in States
         /\ BitsOf(Theta(Alone(x, y, z))) = ThetaOf(x, y, z)
<1> DEFINE s == Theta(Alone(x, y, z))
           up == (z + 1) % 64
           after == (x + 1) % 5
           before == (x + 4) % 5
<1>1. /\ s = [l \in Lanes |-> s[l]]
      /\ \A l \in Lanes : s[l] = IF l = 5 * y + x THEN {z}
                                 ELSE IF l % 5 = after THEN {z}
                                 ELSE IF l % 5 = before THEN {up}
                                 ELSE {}
  BY ThetaOfAlone
<1>2. up \in 0 .. 63 /\ after \in 0 .. 4 /\ before \in 0 .. 4 /\ after # x /\ before # x
      /\ after # before
  OBVIOUS
<1> HIDE DEF s
<1>3. s \in States
  <2>1. \A l \in Lanes : s[l] \in SUBSET (0 .. 63)
    BY <1>1, <1>2
  <2>2. QED
    BY <1>1, <2>1 DEF States
<1>4. ThetaOf(x, y, z) = {<<x, y, z>>} \cup {<<after, k, z>> : k \in 0 .. 4}
                           \cup {<<before, k, up>> : k \in 0 .. 4}
  BY DEF ThetaOf
<1> HIDE DEF up, after, before
<1>5. ASSUME NEW q \in BitsOf(s) PROVE q \in ThetaOf(x, y, z)
  <2>1. PICK l, c : l \in Lanes /\ c \in s[l] /\ q = <<l % 5, l \div 5, c>>
    BY <1>5 DEF BitsOf
  <2>2. l \div 5 \in 0 .. 4
    BY <2>1, Coordinates
  <2>3. CASE l = 5 * y + x
    BY <1>1, <1>4, <2>1, <2>3, Coordinates
  <2>4. CASE l # 5 * y + x
    BY <1>1, <1>4, <2>1, <2>2, <2>4
  <2>5. QED
    BY <2>3, <2>4
<1>6. ASSUME NEW q \in ThetaOf(x, y, z) PROVE q \in BitsOf(s)
  <2>1. CASE q = <<x, y, z>>
    <3>1. 5 * y + x \in Lanes /\ z \in s[5 * y + x]
      BY <1>1, Coordinates
    <3>2. <<(5 * y + x) % 5, (5 * y + x) \div 5, z>> \in BitsOf(s)
      BY <3>1 DEF BitsOf
    <3>3. QED
      BY <2>1, <3>2, Coordinates
  <2>2. ASSUME NEW k \in 0 .. 4, q = <<after, k, z>> PROVE q \in BitsOf(s)
    <3>1. PICK l : l = 5 * k + after
      OBVIOUS
    <3>2. l \in Lanes /\ l % 5 = after /\ l \div 5 = k
      BY <1>2, <3>1, Coordinates
    <3>3. l # 5 * y + x
      BY <1>2, <3>2, Coordinates
    <3>4. z \in s[l]
      BY <1>1, <3>2, <3>3
    <3>5. <<l % 5, l \div 5, z>> \in BitsOf(s)
      BY <3>2, <3>4 DEF BitsOf
    <3>6. QED
      BY <2>2, <3>2, <3>5
  <2>3. ASSUME NEW k \in 0 .. 4, q = <<before, k, up>> PROVE q \in BitsOf(s)
    <3>1. PICK l : l = 5 * k + before
      OBVIOUS
    <3>2. l \in Lanes /\ l % 5 = before /\ l \div 5 = k
      BY <1>2, <3>1, Coordinates
    <3>3. l # 5 * y + x
      BY <1>2, <3>2, Coordinates
    <3>4. up \in s[l]
      BY <1>1, <1>2, <3>2, <3>3
    <3>5. <<l % 5, l \div 5, up>> \in BitsOf(s)
      BY <3>2, <3>4 DEF BitsOf
    <3>6. QED
      BY <2>3, <3>2, <3>5
  <2>4. QED
    BY <1>4, <1>6, <2>1, <2>2, <2>3
<1>7. BitsOf(s) = ThetaOf(x, y, z)
  BY <1>5, <1>6
<1>8. QED
  BY <1>3, <1>7 DEF s

\* A single bit through theta, rho and pi.
LEMMA BitIsMixed ==
  ASSUME NEW x \in 0 .. 4, NEW y \in 0 .. 4, NEW z \in 0 .. 63
  PROVE  LET moved == {<<PiOf(b[1], b[2]), (b[3] + RhoOf(b[1], b[2])) % 64>> : b \in ThetaOf(x, y, z)}
         IN  BitsOf(RhoPi(Theta(Alone(x, y, z)))) = {<<m[1][1], m[1][2], m[2]>> : m \in moved}
<1> DEFINE moved == {<<PiOf(b[1], b[2]), (b[3] + RhoOf(b[1], b[2])) % 64>> : b \in ThetaOf(x, y, z)}
<1>1. BitsOf(RhoPi(Theta(Alone(x, y, z)))) =
        {<<PiOf(b[1], b[2])[1], PiOf(b[1], b[2])[2], (b[3] + RhoOf(b[1], b[2])) % 64>> :
           b \in ThetaOf(x, y, z)}
  <2>1. PICK st : st = Theta(Alone(x, y, z))
    OBVIOUS
  <2>2. st \in States /\ BitsOf(st) = ThetaOf(x, y, z)
    BY <2>1, ThetaOfBit
  <2>3. BitsOf(RhoPi(st)) =
        {<<PiOf(b[1], b[2])[1], PiOf(b[1], b[2])[2], (b[3] + RhoOf(b[1], b[2])) % 64>> :
           b \in BitsOf(st)}
    BY <2>2, RhoPiMovesBits
  <2>4. QED
    BY <2>1, <2>2, <2>3
<1>2. {<<m[1][1], m[1][2], m[2]>> : m \in moved} =
        {<<PiOf(b[1], b[2])[1], PiOf(b[1], b[2])[2], (b[3] + RhoOf(b[1], b[2])) % 64>> :
           b \in ThetaOf(x, y, z)}
  <2> DEFINE F(b) == <<PiOf(b[1], b[2]), (b[3] + RhoOf(b[1], b[2])) % 64>>
             H(m) == <<m[1][1], m[1][2], m[2]>>
             G(b) == <<PiOf(b[1], b[2])[1], PiOf(b[1], b[2])[2], (b[3] + RhoOf(b[1], b[2])) % 64>>
             B == ThetaOf(x, y, z)
  <2>1. \A b : H(F(b)) = G(b)
    OBVIOUS
  <2> HIDE DEF F, G, H, B
  <2>2. {H(m) : m \in {F(b) : b \in B}} = {G(b) : b \in B}
    BY <2>1
  <2>3. QED
    BY <2>2 DEF F, G, H, B
<1>3. QED
  BY <1>1, <1>2

\* Chi, for any state: a bit depends on the bits of its row, and as the reference says.
LEMMA ChiIs ==
  ASSUME NEW st, NEW x \in 0 .. 4, NEW y \in 0 .. 4, NEW z, NEW s,
         \A i \in 0 .. 4 : i \in s <=> z \in st[5 * y + i]
  PROVE  z \in Chi(st)[5 * y + x] <=> x \in ChiOf(s)
<1> DEFINE one == (x + 1) % 5
           two == (x + 2) % 5
<1>1. one \in 0 .. 4 /\ two \in 0 .. 4
  OBVIOUS
<1>2. PICK l : l = 5 * y + x
  OBVIOUS
<1>3. l \in Lanes /\ l % 5 = x /\ l - x = 5 * y
  BY <1>2, Coordinates
<1>4. Chi(st)[l] = Xor(st[l], st[5 * y + two] \ st[5 * y + one])
  <2>1. Chi(st)[l] = Xor(st[l], st[(l - (l % 5)) + ((l + 2) % 5)] \ st[(l - (l % 5)) + ((l + 1) % 5)])
    BY <1>3 DEF Chi
  <2>2. (l + 2) % 5 = two /\ (l + 1) % 5 = one
    BY <1>2
  <2>3. QED
    BY <1>3, <2>1, <2>2
<1>5. x \in ChiOf(s) <=> \/ x \in s /\ ~(one \notin s /\ two \in s)
                         \/ x \notin s /\ one \notin s /\ two \in s
  BY DEF ChiOf
<1> HIDE DEF one, two
<1>6. z \in Chi(st)[l] <=> \/ z \in st[l] /\ ~(z \notin st[5 * y + one] /\ z \in st[5 * y + two])
                           \/ z \notin st[l] /\ z \notin st[5 * y + one] /\ z \in st[5 * y + two]
  BY <1>4 DEF Xor
<1>7. /\ x \in s <=> z \in st[l]
      /\ one \in s <=> z \in st[5 * y + one]
      /\ two \in s <=> z \in st[5 * y + two]
  BY <1>1, <1>2
<1>8. x \in ChiOf(s) <=> z \in Chi(st)[l]
  BY <1>5, <1>6, <1>7, Zenon
<1>9. QED
  BY <1>2, <1>8

\* A row at bit 0 of its lanes.
LEMMA RowIsMixed ==
  ASSUME NEW y \in 0 .. 4, NEW s \in SUBSET (0 .. 4)
  PROVE  LET row == [l \in Lanes |-> IF l \div 5 = y /\ l % 5 \in s THEN {0} ELSE {}]
         IN  BitsOf(Chi(row)) = {<<x, y, 0>> : x \in ChiOf(s)}
<1> DEFINE row == [l \in Lanes |-> IF l \div 5 = y /\ l % 5 \in s THEN {0} ELSE {}]
           c == Chi(row)
<1>1. ASSUME NEW x \in 0 .. 4, NEW h \in 0 .. 4, NEW z
      PROVE  z \in row[5 * h + x] <=> h = y /\ x \in s /\ z = 0
  <2>1. PICK l : l = 5 * h + x
    OBVIOUS
  <2>2. l \in Lanes /\ l % 5 = x /\ l \div 5 = h
    BY <2>1, Coordinates
  <2>3. row[l] = IF h = y /\ x \in s THEN {0} ELSE {}
    BY <2>2
  <2> HIDE DEF row
  <2>4. QED
    BY <2>1, <2>3
<1> HIDE DEF row
<1>2. ChiOf({}) = {} /\ ChiOf(s) \in SUBSET (0 .. 4)
  BY DEF ChiOf
<1>3. ASSUME NEW x \in 0 .. 4, NEW h \in 0 .. 4, NEW z
      PROVE  z \in c[5 * h + x] <=> h = y /\ z = 0 /\ x \in ChiOf(s)
  <2>1. CASE h = y /\ z = 0
    <3>1. \A i \in 0 .. 4 : i \in s <=> z \in row[5 * h + i]
      BY <1>1, <2>1
    <3>2. z \in c[5 * h + x] <=> x \in ChiOf(s)
      BY <3>1, ChiIs
    <3>3. QED
      BY <2>1, <3>2
  <2>2. CASE ~(h = y /\ z = 0)
    <3>1. \A i \in 0 .. 4 : i \in {} <=> z \in row[5 * h + i]
      BY <1>1, <2>2
    <3>2. z \in c[5 * h + x] <=> x \in ChiOf({})
      BY <3>1, ChiIs
    <3>3. QED
      BY <1>2, <2>2, <3>2
  <2>3. QED
    BY <2>1, <2>2
<1> HIDE DEF c
<1>4. ASSUME NEW q \in BitsOf(c) PROVE q \in {<<x, y, 0>> : x \in ChiOf(s)}
  <2>1. PICK l, z : l \in Lanes /\ z \in c[l] /\ q = <<l % 5, l \div 5, z>>
    BY <1>4 DEF BitsOf
  <2>2. PICK x \in 0 .. 4, h \in 0 .. 4 : l = 5 * h + x /\ x = l % 5 /\ h = l \div 5
    BY <2>1, Coordinates
  <2>3. h = y /\ z = 0 /\ x \in ChiOf(s)
    BY <1>3, <2>1, <2>2
  <2>4. QED
    BY <2>1, <2>2, <2>3
<1>5. ASSUME NEW x \in ChiOf(s) PROVE <<x, y, 0>> \in BitsOf(c)
  <2>1. x \in 0 .. 4
    BY <1>2
  <2>2. PICK l : l = 5 * y + x
    OBVIOUS
  <2>3. l \in Lanes /\ l % 5 = x /\ l \div 5 = y
    BY <2>1, <2>2, Coordinates
  <2>4. 0 \in c[l]
    BY <1>3, <2>1, <2>2
  <2>5. <<l % 5, l \div 5, 0>> \in BitsOf(c)
    BY <2>3, <2>4 DEF BitsOf
  <2>6. QED
    BY <2>3, <2>5
<1>6. BitsOf(c) = {<<x, y, 0>> : x \in ChiOf(s)}
  BY <1>4, <1>5
<1>7. QED
  BY <1>6 DEF c, row

----------------------------------------------------------------------------
(* Iota: the shift register.                                               *)

\* One shift of the register of the reference.
Shift(s) == LET up == {b + 1 : b \in s \ {7}} IN IF 7 \in s THEN Xor(up, {0, 4, 5, 6}) ELSE up

LEMMA ShiftIs ==
  ASSUME NEW s \in SUBSET (0 .. 7)
  PROVE  /\ Shift(s) \in SUBSET (0 .. 7)
         /\ 0 \in Shift(s) <=> 7 \in s
         /\ 1 \in Shift(s) <=> 0 \in s
         /\ 2 \in Shift(s) <=> 1 \in s
         /\ 3 \in Shift(s) <=> 2 \in s
         /\ 4 \in Shift(s) <=> ((3 \in s) # (7 \in s))
         /\ 5 \in Shift(s) <=> ((4 \in s) # (7 \in s))
         /\ 6 \in Shift(s) <=> ((5 \in s) # (7 \in s))
         /\ 7 \in Shift(s) <=> 6 \in s
<1> DEFINE up == {b + 1 : b \in s \ {7}}
<1>1. /\ up \in SUBSET (0 .. 7) /\ 0 \notin up
      /\ \A b \in 0 .. 6 : b + 1 \in up <=> b \in s
  OBVIOUS
<1>2. /\ 1 \in up <=> 0 \in s
      /\ 2 \in up <=> 1 \in s
      /\ 3 \in up <=> 2 \in s
      /\ 4 \in up <=> 3 \in s
      /\ 5 \in up <=> 4 \in s
      /\ 6 \in up <=> 5 \in s
      /\ 7 \in up <=> 6 \in s
  OBVIOUS
<1>3. Shift(s) = IF 7 \in s THEN Xor(up, {0, 4, 5, 6}) ELSE up
  BY DEF Shift
<1> HIDE DEF up
<1>4. CASE 7 \in s
  <2>1. Shift(s) = (up \ {0, 4, 5, 6}) \cup ({0, 4, 5, 6} \ up)
    BY <1>3, <1>4 DEF Xor
  <2>2. QED
    BY <1>1, <1>2, <1>4, <2>1
<1>5. CASE 7 \notin s
  BY <1>1, <1>2, <1>3, <1>5
<1>6. QED
  BY <1>4, <1>5

\* Seven of them, one after the other.
LEMMA SevenShifts ==
  ASSUME NEW s
  PROVE  Seven(s)[0] = s /\ \A t \in 1 .. 7 : Seven(s)[t] = Shift(Seven(s)[t - 1])
<1> DEFINE Eq(r) == r = [t \in 0 .. 7 |-> IF t = 0 THEN s ELSE Shift(r[t - 1])]
           s1 == Shift(s)   s2 == Shift(s1)  s3 == Shift(s2)  s4 == Shift(s3)
           s5 == Shift(s4)  s6 == Shift(s5)  s7 == Shift(s6)
           g == [t \in 0 .. 7 |-> IF t = 0 THEN s ELSE IF t = 1 THEN s1 ELSE IF t = 2 THEN s2
                                  ELSE IF t = 3 THEN s3 ELSE IF t = 4 THEN s4 ELSE IF t = 5 THEN s5
                                  ELSE IF t = 6 THEN s6 ELSE s7]
<1>1. Seven(s) = CHOOSE r : Eq(r)
  BY DEF Seven, Shift
<1>2. s1 = Shift(s) /\ s2 = Shift(s1) /\ s3 = Shift(s2) /\ s4 = Shift(s3) /\ s5 = Shift(s4)
      /\ s6 = Shift(s5) /\ s7 = Shift(s6)
  OBVIOUS
<1> HIDE DEF s1, s2, s3, s4, s5, s6, s7
<1>3. /\ g = [t \in 0 .. 7 |-> g[t]] /\ g[0] = s /\ g[1] = s1 /\ g[2] = s2 /\ g[3] = s3 /\ g[4] = s4
      /\ g[5] = s5 /\ g[6] = s6 /\ g[7] = s7
  OBVIOUS
<1> HIDE DEF g
<1>4. ASSUME NEW t \in 1 .. 7 PROVE g[t] = Shift(g[t - 1])
  <2>1. t = 1 \/ t = 2 \/ t = 3 \/ t = 4 \/ t = 5 \/ t = 6 \/ t = 7
    OBVIOUS
  <2>2. QED
    BY <1>2, <1>3, <2>1
<1>5. Eq(g)
  <2>1. \A t \in 0 .. 7 : g[t] = IF t = 0 THEN s ELSE Shift(g[t - 1])
    BY <1>3, <1>4
  <2>2. QED
    BY <1>3, <2>1
<1>6. ASSUME NEW r, Eq(r) PROVE r = g
  <2>1. r = [t \in 0 .. 7 |-> r[t]] /\ r[0] = s /\ \A t \in 1 .. 7 : r[t] = Shift(r[t - 1])
    BY <1>6
  <2>2. \A t \in 1 .. 7 : r[t - 1] = g[t - 1] => r[t] = g[t]
    BY <1>4, <2>1
  <2>3. r[0] = g[0]
    BY <1>3, <2>1
  <2>4. QED
    BY <1>3, <2>1, <2>2, <2>3, SameAlong
<1> HIDE DEF Eq
<1>7. Seven(s) = g
  BY <1>1, <1>5, <1>6
<1>8. QED
  BY <1>3, <1>4, <1>7

\* What a round takes out of the register, and what it leaves in it, as sums of the bits
\* that were in it.
LEMMA RoundShifts ==
  ASSUME NEW s \in SUBSET (0 .. 7)
  PROVE  LET r == Seven(s)
         IN
             /\ 0 \in r[0] <=> 0 \in s
             /\ 0 \in r[1] <=> 7 \in s
             /\ 0 \in r[2] <=> 6 \in s
             /\ 0 \in r[3] <=> ((5 \in s) # (7 \in s))
             /\ 0 \in r[4] <=> (((4 \in s) # (6 \in s)) # (7 \in s))
             /\ 0 \in r[5] <=> (((3 \in s) # (5 \in s)) # (6 \in s))
             /\ 0 \in r[6] <=> (((2 \in s) # (4 \in s)) # (5 \in s))
             /\ r[7] \in SUBSET (0 .. 7)
             /\ 0 \in r[7] <=> (((1 \in s) # (3 \in s)) # (4 \in s))
             /\ 1 \in r[7] <=> (((2 \in s) # (4 \in s)) # (5 \in s))
             /\ 2 \in r[7] <=> (((3 \in s) # (5 \in s)) # (6 \in s))
             /\ 3 \in r[7] <=> (((4 \in s) # (6 \in s)) # (7 \in s))
             /\ 4 \in r[7] <=> (((((1 \in s) # (3 \in s)) # (4 \in s)) # (5 \in s)) # (7 \in s))
             /\ 5 \in r[7] <=> (((((1 \in s) # (2 \in s)) # (3 \in s)) # (5 \in s)) # (6 \in s))
             /\ 6 \in r[7] <=> ((((1 \in s) # (2 \in s)) # (6 \in s)) # (7 \in s))
             /\ 7 \in r[7] <=> ((((0 \in s) # (2 \in s)) # (3 \in s)) # (7 \in s))
<1> DEFINE r == Seven(s)
<1>0. r[0] = s
  BY SevenShifts
<1>1. /\ r[1] \in SUBSET (0 .. 7)
      /\ 0 \in r[1] <=> 7 \in s
      /\ 1 \in r[1] <=> 0 \in s
      /\ 2 \in r[1] <=> 1 \in s
      /\ 3 \in r[1] <=> 2 \in s
      /\ 4 \in r[1] <=> ((3 \in s) # (7 \in s))
      /\ 5 \in r[1] <=> ((4 \in s) # (7 \in s))
      /\ 6 \in r[1] <=> ((5 \in s) # (7 \in s))
      /\ 7 \in r[1] <=> 6 \in s
  <2>1. r[1] = Shift(r[0])
    BY SevenShifts
  <2> HIDE DEF r
  <2>2. QED
    BY <1>0, <2>1, ShiftIs
<1>2. /\ r[2] \in SUBSET (0 .. 7)
      /\ 0 \in r[2] <=> 6 \in s
      /\ 1 \in r[2] <=> 7 \in s
      /\ 2 \in r[2] <=> 0 \in s
      /\ 3 \in r[2] <=> 1 \in s
      /\ 4 \in r[2] <=> ((2 \in s) # (6 \in s))
      /\ 5 \in r[2] <=> (((3 \in s) # (6 \in s)) # (7 \in s))
      /\ 6 \in r[2] <=> (((4 \in s) # (6 \in s)) # (7 \in s))
      /\ 7 \in r[2] <=> ((5 \in s) # (7 \in s))
  <2>1. r[2] = Shift(r[1])
    BY SevenShifts
  <2> HIDE DEF r
  <2>2. QED
    BY <1>1, <2>1, ShiftIs
<1>3. /\ r[3] \in SUBSET (0 .. 7)
      /\ 0 \in r[3] <=> ((5 \in s) # (7 \in s))
      /\ 1 \in r[3] <=> 6 \in s
      /\ 2 \in r[3] <=> 7 \in s
      /\ 3 \in r[3] <=> 0 \in s
      /\ 4 \in r[3] <=> (((1 \in s) # (5 \in s)) # (7 \in s))
      /\ 5 \in r[3] <=> ((((2 \in s) # (5 \in s)) # (6 \in s)) # (7 \in s))
      /\ 6 \in r[3] <=> (((3 \in s) # (5 \in s)) # (6 \in s))
      /\ 7 \in r[3] <=> (((4 \in s) # (6 \in s)) # (7 \in s))
  <2>1. r[3] = Shift(r[2])
    BY SevenShifts
  <2> HIDE DEF r
  <2>2. QED
    BY <1>2, <2>1, ShiftIs
<1>4. /\ r[4] \in SUBSET (0 .. 7)
      /\ 0 \in r[4] <=> (((4 \in s) # (6 \in s)) # (7 \in s))
      /\ 1 \in r[4] <=> ((5 \in s) # (7 \in s))
      /\ 2 \in r[4] <=> 6 \in s
      /\ 3 \in r[4] <=> 7 \in s
      /\ 4 \in r[4] <=> ((((0 \in s) # (4 \in s)) # (6 \in s)) # (7 \in s))
      /\ 5 \in r[4] <=> ((((1 \in s) # (4 \in s)) # (5 \in s)) # (6 \in s))
      /\ 6 \in r[4] <=> (((2 \in s) # (4 \in s)) # (5 \in s))
      /\ 7 \in r[4] <=> (((3 \in s) # (5 \in s)) # (6 \in s))
  <2>1. r[4] = Shift(r[3])
    BY SevenShifts
  <2> HIDE DEF r
  <2>2. QED
    BY <1>3, <2>1, ShiftIs
<1>5. /\ r[5] \in SUBSET (0 .. 7)
      /\ 0 \in r[5] <=> (((3 \in s) # (5 \in s)) # (6 \in s))
      /\ 1 \in r[5] <=> (((4 \in s) # (6 \in s)) # (7 \in s))
      /\ 2 \in r[5] <=> ((5 \in s) # (7 \in s))
      /\ 3 \in r[5] <=> 6 \in s
      /\ 4 \in r[5] <=> ((((3 \in s) # (5 \in s)) # (6 \in s)) # (7 \in s))
      /\ 5 \in r[5] <=> (((((0 \in s) # (3 \in s)) # (4 \in s)) # (5 \in s)) # (7 \in s))
      /\ 6 \in r[5] <=> (((1 \in s) # (3 \in s)) # (4 \in s))
      /\ 7 \in r[5] <=> (((2 \in s) # (4 \in s)) # (5 \in s))
  <2>1. r[5] = Shift(r[4])
    BY SevenShifts
  <2> HIDE DEF r
  <2>2. QED
    BY <1>4, <2>1, ShiftIs
<1>6. /\ r[6] \in SUBSET (0 .. 7)
      /\ 0 \in r[6] <=> (((2 \in s) # (4 \in s)) # (5 \in s))
      /\ 1 \in r[6] <=> (((3 \in s) # (5 \in s)) # (6 \in s))
      /\ 2 \in r[6] <=> (((4 \in s) # (6 \in s)) # (7 \in s))
      /\ 3 \in r[6] <=> ((5 \in s) # (7 \in s))
      /\ 4 \in r[6] <=> ((((2 \in s) # (4 \in s)) # (5 \in s)) # (6 \in s))
      /\ 5 \in r[6] <=> (((((2 \in s) # (3 \in s)) # (4 \in s)) # (6 \in s)) # (7 \in s))
      /\ 6 \in r[6] <=> ((((0 \in s) # (2 \in s)) # (3 \in s)) # (7 \in s))
      /\ 7 \in r[6] <=> (((1 \in s) # (3 \in s)) # (4 \in s))
  <2>1. r[6] = Shift(r[5])
    BY SevenShifts
  <2> HIDE DEF r
  <2>2. QED
    BY <1>5, <2>1, ShiftIs
<1>7. /\ r[7] \in SUBSET (0 .. 7)
      /\ 0 \in r[7] <=> (((1 \in s) # (3 \in s)) # (4 \in s))
      /\ 1 \in r[7] <=> (((2 \in s) # (4 \in s)) # (5 \in s))
      /\ 2 \in r[7] <=> (((3 \in s) # (5 \in s)) # (6 \in s))
      /\ 3 \in r[7] <=> (((4 \in s) # (6 \in s)) # (7 \in s))
      /\ 4 \in r[7] <=> (((((1 \in s) # (3 \in s)) # (4 \in s)) # (5 \in s)) # (7 \in s))
      /\ 5 \in r[7] <=> (((((1 \in s) # (2 \in s)) # (3 \in s)) # (5 \in s)) # (6 \in s))
      /\ 6 \in r[7] <=> ((((1 \in s) # (2 \in s)) # (6 \in s)) # (7 \in s))
      /\ 7 \in r[7] <=> ((((0 \in s) # (2 \in s)) # (3 \in s)) # (7 \in s))
  <2>1. r[7] = Shift(r[6])
    BY SevenShifts
  <2> HIDE DEF r
  <2>2. QED
    BY <1>6, <2>1, ShiftIs
<1> HIDE DEF r
<1>8. QED
  BY <1>0, <1>1, <1>2, <1>3, <1>4, <1>5, <1>6, <1>7 DEF r

\* What the register of the reference is in each round, and after the last.
Registers == <<
  {0}, {7}, {3, 4, 6, 7}, {1, 3, 4}, {0, 1, 2, 3, 4, 6, 7}, {0, 3}, {0, 2, 4, 5},
  {0, 1, 2, 3, 6}, {1, 3, 6, 7}, {4, 5, 6}, {0, 6}, {2, 3, 5, 6, 7}, {0, 2, 4, 6, 7},
  {0, 2, 3, 6, 7}, {0, 1, 5, 6}, {0, 1, 3, 5, 7}, {1, 3, 5, 7}, {1, 3, 5}, {1, 4, 5, 6, 7},
  {3, 5, 6, 7}, {0, 1, 2, 4, 5}, {1, 2, 3, 4, 5}, {0, 1, 3}, {2, 6}, {1, 2, 3, 7} >>

\* In each round, the shifts after which its lowest bit is 1.
Outs == <<
  {0}, {1, 3, 4}, {1, 2, 3, 4, 6}, {4, 5, 6}, {0, 1, 2, 3, 4}, {0, 5}, {0, 3, 4, 5, 6},
  {0, 2, 4, 6}, {1, 2, 3}, {2, 3}, {0, 2, 4, 5}, {1, 2, 5}, {0, 1, 2, 3, 4, 5},
  {0, 1, 2, 3, 6}, {0, 2, 3, 4, 6}, {0, 1, 4, 6}, {1, 4, 6}, {3, 6}, {1, 2, 4},
  {1, 2, 5, 6}, {0, 3, 4, 5, 6}, {3, 4, 6}, {0, 5}, {2, 4, 5, 6} >>

\* The same sums, of what is in one set, for what is in another two.
Sums(s, out, next) ==
  /\ 0 \in out <=> (0 \in s)
  /\ 1 \in out <=> (7 \in s)
  /\ 2 \in out <=> (6 \in s)
  /\ 3 \in out <=> ((5 \in s) # (7 \in s))
  /\ 4 \in out <=> (((4 \in s) # (6 \in s)) # (7 \in s))
  /\ 5 \in out <=> (((3 \in s) # (5 \in s)) # (6 \in s))
  /\ 6 \in out <=> (((2 \in s) # (4 \in s)) # (5 \in s))
  /\ 0 \in next <=> (((1 \in s) # (3 \in s)) # (4 \in s))
  /\ 1 \in next <=> (((2 \in s) # (4 \in s)) # (5 \in s))
  /\ 2 \in next <=> (((3 \in s) # (5 \in s)) # (6 \in s))
  /\ 3 \in next <=> (((4 \in s) # (6 \in s)) # (7 \in s))
  /\ 4 \in next <=> (((((1 \in s) # (3 \in s)) # (4 \in s)) # (5 \in s)) # (7 \in s))
  /\ 5 \in next <=> (((((1 \in s) # (2 \in s)) # (3 \in s)) # (5 \in s)) # (6 \in s))
  /\ 6 \in next <=> ((((1 \in s) # (2 \in s)) # (6 \in s)) # (7 \in s))
  /\ 7 \in next <=> ((((0 \in s) # (2 \in s)) # (3 \in s)) # (7 \in s))

\* Sets that agree with the sums are what comes out of a round, and what is left.
LEMMA SumsDecide ==
  ASSUME NEW s \in SUBSET (0 .. 7), NEW out \in SUBSET (0 .. 6), NEW next \in SUBSET (0 .. 7),
         Sums(s, out, next)
  PROVE  /\ Seven(s)[7] = next
         /\ \A k \in 0 .. 6 : 0 \in Seven(s)[k] <=> k \in out
<1> DEFINE r == Seven(s)
<1>1. /\ 0 \in r[0] <=> 0 \in out
      /\ 0 \in r[1] <=> 1 \in out
      /\ 0 \in r[2] <=> 2 \in out
      /\ 0 \in r[3] <=> 3 \in out
      /\ 0 \in r[4] <=> 4 \in out
      /\ 0 \in r[5] <=> 5 \in out
      /\ 0 \in r[6] <=> 6 \in out
  BY RoundShifts DEF Sums
<1>2. /\ r[7] \in SUBSET (0 .. 7)
      /\ 0 \in r[7] <=> 0 \in next
      /\ 1 \in r[7] <=> 1 \in next
      /\ 2 \in r[7] <=> 2 \in next
      /\ 3 \in r[7] <=> 3 \in next
      /\ 4 \in r[7] <=> 4 \in next
      /\ 5 \in r[7] <=> 5 \in next
      /\ 6 \in r[7] <=> 6 \in next
      /\ 7 \in r[7] <=> 7 \in next
  BY RoundShifts DEF Sums
<1> HIDE DEF r
<1>3. r[7] = next
  <2>1. ASSUME NEW b \in 0 .. 7 PROVE b \in r[7] <=> b \in next
    <3>1. b = 0 \/ b = 1 \/ b = 2 \/ b = 3 \/ b = 4 \/ b = 5 \/ b = 6 \/ b = 7
      OBVIOUS
    <3>2. QED
      BY <1>2, <3>1
  <2>2. QED
    BY <1>2, <2>1
<1>4. ASSUME NEW k \in 0 .. 6 PROVE 0 \in r[k] <=> k \in out
  <2>1. k = 0 \/ k = 1 \/ k = 2 \/ k = 3 \/ k = 4 \/ k = 5 \/ k = 6
    OBVIOUS
  <2>2. QED
    BY <1>1, <2>1
<1>5. QED
  BY <1>3, <1>4 DEF r

\* The register goes from row to row of the table.
LEMMA TablesAgree ==
  \A n \in 1 .. 24 :
    /\ Registers[n] \in SUBSET (0 .. 7) /\ Outs[n] \in SUBSET (0 .. 6)
    /\ Registers[n + 1] \in SUBSET (0 .. 7)
    /\ Sums(Registers[n], Outs[n], Registers[n + 1])
<1>1. Sums({0}, {0}, {7})
  BY DEF Sums
<1>2. Sums({7}, {1, 3, 4}, {3, 4, 6, 7})
  BY DEF Sums
<1>3. Sums({3, 4, 6, 7}, {1, 2, 3, 4, 6}, {1, 3, 4})
  BY DEF Sums
<1>4. Sums({1, 3, 4}, {4, 5, 6}, {0, 1, 2, 3, 4, 6, 7})
  BY DEF Sums
<1>5. Sums({0, 1, 2, 3, 4, 6, 7}, {0, 1, 2, 3, 4}, {0, 3})
  BY DEF Sums
<1>6. Sums({0, 3}, {0, 5}, {0, 2, 4, 5})
  BY DEF Sums
<1>7. Sums({0, 2, 4, 5}, {0, 3, 4, 5, 6}, {0, 1, 2, 3, 6})
  BY DEF Sums
<1>8. Sums({0, 1, 2, 3, 6}, {0, 2, 4, 6}, {1, 3, 6, 7})
  BY DEF Sums
<1>9. Sums({1, 3, 6, 7}, {1, 2, 3}, {4, 5, 6})
  BY DEF Sums
<1>10. Sums({4, 5, 6}, {2, 3}, {0, 6})
  BY DEF Sums
<1>11. Sums({0, 6}, {0, 2, 4, 5}, {2, 3, 5, 6, 7})
  BY DEF Sums
<1>12. Sums({2, 3, 5, 6, 7}, {1, 2, 5}, {0, 2, 4, 6, 7})
  BY DEF Sums
<1>13. Sums({0, 2, 4, 6, 7}, {0, 1, 2, 3, 4, 5}, {0, 2, 3, 6, 7})
  BY DEF Sums
<1>14. Sums({0, 2, 3, 6, 7}, {0, 1, 2, 3, 6}, {0, 1, 5, 6})
  BY DEF Sums
<1>15. Sums({0, 1, 5, 6}, {0, 2, 3, 4, 6}, {0, 1, 3, 5, 7})
  BY DEF Sums
<1>16. Sums({0, 1, 3, 5, 7}, {0, 1, 4, 6}, {1, 3, 5, 7})
  BY DEF Sums
<1>17. Sums({1, 3, 5, 7}, {1, 4, 6}, {1, 3, 5})
  BY DEF Sums
<1>18. Sums({1, 3, 5}, {3, 6}, {1, 4, 5, 6, 7})
  BY DEF Sums
<1>19. Sums({1, 4, 5, 6, 7}, {1, 2, 4}, {3, 5, 6, 7})
  BY DEF Sums
<1>20. Sums({3, 5, 6, 7}, {1, 2, 5, 6}, {0, 1, 2, 4, 5})
  BY DEF Sums
<1>21. Sums({0, 1, 2, 4, 5}, {0, 3, 4, 5, 6}, {1, 2, 3, 4, 5})
  BY DEF Sums
<1>22. Sums({1, 2, 3, 4, 5}, {3, 4, 6}, {0, 1, 3})
  BY DEF Sums
<1>23. Sums({0, 1, 3}, {0, 5}, {2, 6})
  BY DEF Sums
<1>24. Sums({2, 6}, {2, 4, 5, 6}, {1, 2, 3, 7})
  BY DEF Sums
<1> DEFINE good(m) == Sums(Registers[m], Outs[m], Registers[m + 1])
<1>25. good(1)
  <2>1. Registers[1] = {0} /\ Outs[1] = {0} /\ Registers[1 + 1] = {7}
    BY DEF Registers, Outs
  <2>2. QED
    BY <1>1, <2>1, Zenon
<1>26. good(2)
  <2>1. Registers[2] = {7} /\ Outs[2] = {1, 3, 4} /\ Registers[2 + 1] = {3, 4, 6, 7}
    BY DEF Registers, Outs
  <2>2. QED
    BY <1>2, <2>1, Zenon
<1>27. good(3)
  <2>1. Registers[3] = {3, 4, 6, 7} /\ Outs[3] = {1, 2, 3, 4, 6} /\ Registers[3 + 1] = {1, 3, 4}
    BY DEF Registers, Outs
  <2>2. QED
    BY <1>3, <2>1, Zenon
<1>28. good(4)
  <2>1. Registers[4] = {1, 3, 4} /\ Outs[4] = {4, 5, 6} /\ Registers[4 + 1] = {0, 1, 2, 3, 4, 6, 7}
    BY DEF Registers, Outs
  <2>2. QED
    BY <1>4, <2>1, Zenon
<1>29. good(5)
  <2>1. Registers[5] = {0, 1, 2, 3, 4, 6, 7} /\ Outs[5] = {0, 1, 2, 3, 4} /\ Registers[5 + 1] = {0, 3}
    BY DEF Registers, Outs
  <2>2. QED
    BY <1>5, <2>1, Zenon
<1>30. good(6)
  <2>1. Registers[6] = {0, 3} /\ Outs[6] = {0, 5} /\ Registers[6 + 1] = {0, 2, 4, 5}
    BY DEF Registers, Outs
  <2>2. QED
    BY <1>6, <2>1, Zenon
<1>31. good(7)
  <2>1. Registers[7] = {0, 2, 4, 5} /\ Outs[7] = {0, 3, 4, 5, 6} /\ Registers[7 + 1] = {0, 1, 2, 3, 6}
    BY DEF Registers, Outs
  <2>2. QED
    BY <1>7, <2>1, Zenon
<1>32. good(8)
  <2>1. Registers[8] = {0, 1, 2, 3, 6} /\ Outs[8] = {0, 2, 4, 6} /\ Registers[8 + 1] = {1, 3, 6, 7}
    BY DEF Registers, Outs
  <2>2. QED
    BY <1>8, <2>1, Zenon
<1>33. good(9)
  <2>1. Registers[9] = {1, 3, 6, 7} /\ Outs[9] = {1, 2, 3} /\ Registers[9 + 1] = {4, 5, 6}
    BY DEF Registers, Outs
  <2>2. QED
    BY <1>9, <2>1, Zenon
<1>34. good(10)
  <2>1. Registers[10] = {4, 5, 6} /\ Outs[10] = {2, 3} /\ Registers[10 + 1] = {0, 6}
    BY DEF Registers, Outs
  <2>2. QED
    BY <1>10, <2>1, Zenon
<1>35. good(11)
  <2>1. Registers[11] = {0, 6} /\ Outs[11] = {0, 2, 4, 5} /\ Registers[11 + 1] = {2, 3, 5, 6, 7}
    BY DEF Registers, Outs
  <2>2. QED
    BY <1>11, <2>1, Zenon
<1>36. good(12)
  <2>1. Registers[12] = {2, 3, 5, 6, 7} /\ Outs[12] = {1, 2, 5} /\ Registers[12 + 1] = {0, 2, 4, 6, 7}
    BY DEF Registers, Outs
  <2>2. QED
    BY <1>12, <2>1, Zenon
<1>37. good(13)
  <2>1. Registers[13] = {0, 2, 4, 6, 7} /\ Outs[13] = {0, 1, 2, 3, 4, 5} /\ Registers[13 + 1] = {0, 2, 3, 6, 7}
    BY DEF Registers, Outs
  <2>2. QED
    BY <1>13, <2>1, Zenon
<1>38. good(14)
  <2>1. Registers[14] = {0, 2, 3, 6, 7} /\ Outs[14] = {0, 1, 2, 3, 6} /\ Registers[14 + 1] = {0, 1, 5, 6}
    BY DEF Registers, Outs
  <2>2. QED
    BY <1>14, <2>1, Zenon
<1>39. good(15)
  <2>1. Registers[15] = {0, 1, 5, 6} /\ Outs[15] = {0, 2, 3, 4, 6} /\ Registers[15 + 1] = {0, 1, 3, 5, 7}
    BY DEF Registers, Outs
  <2>2. QED
    BY <1>15, <2>1, Zenon
<1>40. good(16)
  <2>1. Registers[16] = {0, 1, 3, 5, 7} /\ Outs[16] = {0, 1, 4, 6} /\ Registers[16 + 1] = {1, 3, 5, 7}
    BY DEF Registers, Outs
  <2>2. QED
    BY <1>16, <2>1, Zenon
<1>41. good(17)
  <2>1. Registers[17] = {1, 3, 5, 7} /\ Outs[17] = {1, 4, 6} /\ Registers[17 + 1] = {1, 3, 5}
    BY DEF Registers, Outs
  <2>2. QED
    BY <1>17, <2>1, Zenon
<1>42. good(18)
  <2>1. Registers[18] = {1, 3, 5} /\ Outs[18] = {3, 6} /\ Registers[18 + 1] = {1, 4, 5, 6, 7}
    BY DEF Registers, Outs
  <2>2. QED
    BY <1>18, <2>1, Zenon
<1>43. good(19)
  <2>1. Registers[19] = {1, 4, 5, 6, 7} /\ Outs[19] = {1, 2, 4} /\ Registers[19 + 1] = {3, 5, 6, 7}
    BY DEF Registers, Outs
  <2>2. QED
    BY <1>19, <2>1, Zenon
<1>44. good(20)
  <2>1. Registers[20] = {3, 5, 6, 7} /\ Outs[20] = {1, 2, 5, 6} /\ Registers[20 + 1] = {0, 1, 2, 4, 5}
    BY DEF Registers, Outs
  <2>2. QED
    BY <1>20, <2>1, Zenon
<1>45. good(21)
  <2>1. Registers[21] = {0, 1, 2, 4, 5} /\ Outs[21] = {0, 3, 4, 5, 6} /\ Registers[21 + 1] = {1, 2, 3, 4, 5}
    BY DEF Registers, Outs
  <2>2. QED
    BY <1>21, <2>1, Zenon
<1>46. good(22)
  <2>1. Registers[22] = {1, 2, 3, 4, 5} /\ Outs[22] = {3, 4, 6} /\ Registers[22 + 1] = {0, 1, 3}
    BY DEF Registers, Outs
  <2>2. QED
    BY <1>22, <2>1, Zenon
<1>47. good(23)
  <2>1. Registers[23] = {0, 1, 3} /\ Outs[23] = {0, 5} /\ Registers[23 + 1] = {2, 6}
    BY DEF Registers, Outs
  <2>2. QED
    BY <1>23, <2>1, Zenon
<1>48. good(24)
  <2>1. Registers[24] = {2, 6} /\ Outs[24] = {2, 4, 5, 6} /\ Registers[24 + 1] = {1, 2, 3, 7}
    BY DEF Registers, Outs
  <2>2. QED
    BY <1>24, <2>1, Zenon
<1>49. \A m \in 1 .. 25 : Registers[m] \in SUBSET (0 .. 7)
  BY DEF Registers
<1>50. \A m \in 1 .. 24 : Outs[m] \in SUBSET (0 .. 6)
  BY DEF Outs
<1>51. ASSUME NEW n \in 1 .. 24 PROVE good(n)
  <2> HIDE DEF good
  <2>1. \/ n = 1 \/ n = 2 \/ n = 3 \/ n = 4 \/ n = 5 \/ n = 6 \/ n = 7 \/ n = 8
        \/ n = 9 \/ n = 10 \/ n = 11 \/ n = 12 \/ n = 13 \/ n = 14 \/ n = 15 \/ n = 16
        \/ n = 17 \/ n = 18 \/ n = 19 \/ n = 20 \/ n = 21 \/ n = 22 \/ n = 23 \/ n = 24
    OBVIOUS
  <2>2. QED
    BY <2>1, <1>25, <1>26, <1>27, <1>28, <1>29, <1>30, <1>31, <1>32, <1>33, <1>34, <1>35, <1>36,
       <1>37, <1>38, <1>39, <1>40, <1>41, <1>42, <1>43, <1>44, <1>45, <1>46, <1>47, <1>48
<1>52. \A n \in 1 .. 24 : n + 1 \in 1 .. 25
  OBVIOUS
<1>53. QED
  BY <1>49, <1>50, <1>51, <1>52

\* The places 2^j - 1 of the shifts that give a 1 are the bits of the constants of keccakf.
LEMMA ConstantsAre ==
  \A n \in 1 .. 24 : {2^j - 1 : j \in Outs[n]} = RoundConstants[n]
<1>1. 2^0 - 1 = 0 /\ 2^1 - 1 = 1 /\ 2^2 - 1 = 3 /\ 2^3 - 1 = 7 /\ 2^4 - 1 = 15 /\ 2^5 - 1 = 31
      /\ 2^6 - 1 = 63
  OBVIOUS
<1> DEFINE at(j) == 2^j - 1
<1>2. at(0) = 0 /\ at(1) = 1 /\ at(2) = 3 /\ at(3) = 7 /\ at(4) = 15 /\ at(5) = 31 /\ at(6) = 63
  BY <1>1
<1> HIDE DEF at
<1>3. {at(j) : j \in {0}} = {0}
  BY <1>2
<1>4. {at(j) : j \in {1, 3, 4}} = {1, 7, 15}
  BY <1>2
<1>5. {at(j) : j \in {1, 2, 3, 4, 6}} = {1, 3, 7, 15, 63}
  BY <1>2
<1>6. {at(j) : j \in {4, 5, 6}} = {15, 31, 63}
  BY <1>2
<1>7. {at(j) : j \in {0, 1, 2, 3, 4}} = {0, 1, 3, 7, 15}
  BY <1>2
<1>8. {at(j) : j \in {0, 5}} = {0, 31}
  BY <1>2
<1>9. {at(j) : j \in {0, 3, 4, 5, 6}} = {0, 7, 15, 31, 63}
  BY <1>2
<1>10. {at(j) : j \in {0, 2, 4, 6}} = {0, 3, 15, 63}
  BY <1>2
<1>11. {at(j) : j \in {1, 2, 3}} = {1, 3, 7}
  BY <1>2
<1>12. {at(j) : j \in {2, 3}} = {3, 7}
  BY <1>2
<1>13. {at(j) : j \in {0, 2, 4, 5}} = {0, 3, 15, 31}
  BY <1>2
<1>14. {at(j) : j \in {1, 2, 5}} = {1, 3, 31}
  BY <1>2
<1>15. {at(j) : j \in {0, 1, 2, 3, 4, 5}} = {0, 1, 3, 7, 15, 31}
  BY <1>2
<1>16. {at(j) : j \in {0, 1, 2, 3, 6}} = {0, 1, 3, 7, 63}
  BY <1>2
<1>17. {at(j) : j \in {0, 2, 3, 4, 6}} = {0, 3, 7, 15, 63}
  BY <1>2
<1>18. {at(j) : j \in {0, 1, 4, 6}} = {0, 1, 15, 63}
  BY <1>2
<1>19. {at(j) : j \in {1, 4, 6}} = {1, 15, 63}
  BY <1>2
<1>20. {at(j) : j \in {3, 6}} = {7, 63}
  BY <1>2
<1>21. {at(j) : j \in {1, 2, 4}} = {1, 3, 15}
  BY <1>2
<1>22. {at(j) : j \in {1, 2, 5, 6}} = {1, 3, 31, 63}
  BY <1>2
<1>23. {at(j) : j \in {0, 3, 4, 5, 6}} = {0, 7, 15, 31, 63}
  BY <1>2
<1>24. {at(j) : j \in {3, 4, 6}} = {7, 15, 63}
  BY <1>2
<1>25. {at(j) : j \in {0, 5}} = {0, 31}
  BY <1>2
<1>26. {at(j) : j \in {2, 4, 5, 6}} = {3, 15, 31, 63}
  BY <1>2
<1>27. Outs[1] = {0} /\ RoundConstants[1] = {0}
  BY DEF Outs, RoundConstants
<1>28. Outs[2] = {1, 3, 4} /\ RoundConstants[2] = {1, 7, 15}
  BY DEF Outs, RoundConstants
<1>29. Outs[3] = {1, 2, 3, 4, 6} /\ RoundConstants[3] = {1, 3, 7, 15, 63}
  BY DEF Outs, RoundConstants
<1>30. Outs[4] = {4, 5, 6} /\ RoundConstants[4] = {15, 31, 63}
  BY DEF Outs, RoundConstants
<1>31. Outs[5] = {0, 1, 2, 3, 4} /\ RoundConstants[5] = {0, 1, 3, 7, 15}
  BY DEF Outs, RoundConstants
<1>32. Outs[6] = {0, 5} /\ RoundConstants[6] = {0, 31}
  BY DEF Outs, RoundConstants
<1>33. Outs[7] = {0, 3, 4, 5, 6} /\ RoundConstants[7] = {0, 7, 15, 31, 63}
  BY DEF Outs, RoundConstants
<1>34. Outs[8] = {0, 2, 4, 6} /\ RoundConstants[8] = {0, 3, 15, 63}
  BY DEF Outs, RoundConstants
<1>35. Outs[9] = {1, 2, 3} /\ RoundConstants[9] = {1, 3, 7}
  BY DEF Outs, RoundConstants
<1>36. Outs[10] = {2, 3} /\ RoundConstants[10] = {3, 7}
  BY DEF Outs, RoundConstants
<1>37. Outs[11] = {0, 2, 4, 5} /\ RoundConstants[11] = {0, 3, 15, 31}
  BY DEF Outs, RoundConstants
<1>38. Outs[12] = {1, 2, 5} /\ RoundConstants[12] = {1, 3, 31}
  BY DEF Outs, RoundConstants
<1>39. Outs[13] = {0, 1, 2, 3, 4, 5} /\ RoundConstants[13] = {0, 1, 3, 7, 15, 31}
  BY DEF Outs, RoundConstants
<1>40. Outs[14] = {0, 1, 2, 3, 6} /\ RoundConstants[14] = {0, 1, 3, 7, 63}
  BY DEF Outs, RoundConstants
<1>41. Outs[15] = {0, 2, 3, 4, 6} /\ RoundConstants[15] = {0, 3, 7, 15, 63}
  BY DEF Outs, RoundConstants
<1>42. Outs[16] = {0, 1, 4, 6} /\ RoundConstants[16] = {0, 1, 15, 63}
  BY DEF Outs, RoundConstants
<1>43. Outs[17] = {1, 4, 6} /\ RoundConstants[17] = {1, 15, 63}
  BY DEF Outs, RoundConstants
<1>44. Outs[18] = {3, 6} /\ RoundConstants[18] = {7, 63}
  BY DEF Outs, RoundConstants
<1>45. Outs[19] = {1, 2, 4} /\ RoundConstants[19] = {1, 3, 15}
  BY DEF Outs, RoundConstants
<1>46. Outs[20] = {1, 2, 5, 6} /\ RoundConstants[20] = {1, 3, 31, 63}
  BY DEF Outs, RoundConstants
<1>47. Outs[21] = {0, 3, 4, 5, 6} /\ RoundConstants[21] = {0, 7, 15, 31, 63}
  BY DEF Outs, RoundConstants
<1>48. Outs[22] = {3, 4, 6} /\ RoundConstants[22] = {7, 15, 63}
  BY DEF Outs, RoundConstants
<1>49. Outs[23] = {0, 5} /\ RoundConstants[23] = {0, 31}
  BY DEF Outs, RoundConstants
<1>50. Outs[24] = {2, 4, 5, 6} /\ RoundConstants[24] = {3, 15, 31, 63}
  BY DEF Outs, RoundConstants
<1>51. ASSUME NEW n \in 1 .. 24 PROVE {at(j) : j \in Outs[n]} = RoundConstants[n]
  <2>1. CASE n \in 1 .. 12
    <3>1. n = 1 \/ n = 2 \/ n = 3 \/ n = 4 \/ n = 5 \/ n = 6
          \/ n = 7 \/ n = 8 \/ n = 9 \/ n = 10 \/ n = 11 \/ n = 12
      BY <2>1
    <3>2. QED
      BY <3>1, <1>3, <1>4, <1>5, <1>6, <1>7, <1>8, <1>9, <1>10, <1>11, <1>12, <1>13, <1>14,
         <1>27, <1>28, <1>29, <1>30, <1>31, <1>32, <1>33, <1>34, <1>35, <1>36, <1>37, <1>38
  <2>2. CASE n \in 13 .. 24
    <3>1. n = 13 \/ n = 14 \/ n = 15 \/ n = 16 \/ n = 17 \/ n = 18
          \/ n = 19 \/ n = 20 \/ n = 21 \/ n = 22 \/ n = 23 \/ n = 24
      BY <2>2
    <3>2. QED
      BY <3>1, <1>15, <1>16, <1>17, <1>18, <1>19, <1>20, <1>21, <1>22, <1>23, <1>24, <1>25, <1>26,
         <1>39, <1>40, <1>41, <1>42, <1>43, <1>44, <1>45, <1>46, <1>47, <1>48, <1>49, <1>50
  <2>3. QED
    BY <2>1, <2>2
<1>52. QED
  BY <1>51 DEF at

\* Iota, and the register of the next round.
LEMMA RoundIsMixed ==
  ASSUME NEW n \in 1 .. 24
  PROVE  /\ Iota(Zero, n)[0] = IotaOf(Registers[n])
         /\ Seven(Registers[n])[7] = Registers[n + 1]
<1> DEFINE s == Registers[n]
<1>1. /\ Seven(s)[7] = Registers[n + 1]
      /\ \A k \in 0 .. 6 : 0 \in Seven(s)[k] <=> k \in Outs[n]
      /\ Outs[n] \in SUBSET (0 .. 6)
  <2> DEFINE out == Outs[n]
             next == Registers[n + 1]
  <2>1. /\ s \in SUBSET (0 .. 7) /\ out \in SUBSET (0 .. 6) /\ next \in SUBSET (0 .. 7)
        /\ Sums(s, out, next)
    BY TablesAgree
  <2> HIDE DEF s, out, next
  <2>2. Seven(s)[7] = next /\ \A k \in 0 .. 6 : 0 \in Seven(s)[k] <=> k \in out
    BY <2>1, SumsDecide
  <2>3. QED
    BY <2>1, <2>2 DEF out, next
<1> HIDE DEF s
<1>2. {k \in 0 .. 6 : 0 \in Seven(s)[k]} = Outs[n]
  BY <1>1
<1>3. IotaOf(s) = RoundConstants[n]
  BY <1>2, ConstantsAre DEF IotaOf
<1>4. Iota(Zero, n)[0] = RoundConstants[n]
  BY DEF Iota, Zero, Lanes, Xor
<1>5. QED
  BY <1>1, <1>3, <1>4 DEF s

----------------------------------------------------------------------------
(* The permutation.                                                        *)

\* Membership in a sum.
LEMMA InXor ==
  ASSUME NEW z, NEW a, NEW b
  PROVE  z \in Xor(a, b) <=> ((z \in a) # (z \in b))
<1>1. z \in Xor(a, b) <=> \/ z \in a /\ z \notin b
                          \/ z \in b /\ z \notin a
  BY DEF Xor
<1>2. QED
  BY <1>1

\* Whether an odd number of the bits of a column are 1.
OddColumn(st, x, z) ==
  (z \in st[x]) # ((z \in st[x + 5]) # ((z \in st[x + 10]) # ((z \in st[x + 15]) # (z \in st[x + 20]))))

\* Theta, for any state: a bit is turned over when just one of the column before it and the
\* column after it, a place lower, is odd.
LEMMA ThetaAddsColumns ==
  ASSUME NEW st \in States, NEW x \in 0 .. 4, NEW y \in 0 .. 4, NEW z \in 0 .. 63
  PROVE  z \in Theta(st)[5 * y + x]
           <=> ((z \in st[5 * y + x])
                  # (OddColumn(st, (x + 4) % 5, z) # OddColumn(st, (x + 1) % 5, (z + 63) % 64)))
<1> DEFINE bc == [i \in 0 .. 4 |-> Xor(st[i], Xor(st[i + 5], Xor(st[i + 10], Xor(st[i + 15], st[i + 20]))))]
           t  == [i \in 0 .. 4 |-> Xor(bc[(i + 4) % 5], ROTL64(bc[(i + 1) % 5], 1))]
           down == (z + 63) % 64
<1>1. Theta(st) = [l \in Lanes |-> Xor(st[l], t[l % 5])]
  BY DEF Theta
<1>2. PICK l : l = 5 * y + x
  OBVIOUS
<1>3. l \in Lanes /\ l % 5 = x
  BY <1>2, Coordinates
<1>4. Theta(st)[l] = Xor(st[l], t[x])
  BY <1>1, <1>3
<1>5. ASSUME NEW i \in 0 .. 4
      PROVE  /\ bc[i] \in SUBSET (0 .. 63)
             /\ \A b : b \in bc[i] <=> OddColumn(st, i, b)
  <2>1. bc[i] = Xor(st[i], Xor(st[i + 5], Xor(st[i + 10], Xor(st[i + 15], st[i + 20]))))
    OBVIOUS
  <2>2. i \in Lanes /\ i + 5 \in Lanes /\ i + 10 \in Lanes /\ i + 15 \in Lanes /\ i + 20 \in Lanes
    BY DEF Lanes
  <2>3. /\ st[i] \in SUBSET (0 .. 63) /\ st[i + 5] \in SUBSET (0 .. 63)
        /\ st[i + 10] \in SUBSET (0 .. 63) /\ st[i + 15] \in SUBSET (0 .. 63)
        /\ st[i + 20] \in SUBSET (0 .. 63)
    BY <2>2 DEF States
  <2> HIDE DEF bc
  <2>4. bc[i] \in SUBSET (0 .. 63)
    <3>1. \A a, b \in SUBSET (0 .. 63) : Xor(a, b) \in SUBSET (0 .. 63)
      BY DEF Xor
    <3>2. QED
      BY <2>1, <2>3, <3>1
  <2>5. ASSUME NEW b PROVE b \in bc[i] <=> OddColumn(st, i, b)
    <3>1. \A u, v : b \in Xor(u, v) <=> ((b \in u) # (b \in v))
      BY InXor
    <3>2. QED
      BY <2>1, <3>1 DEF OddColumn
  <2>6. QED
    BY <2>4, <2>5
<1> HIDE DEF bc
<1>6. PICK before, after : before = (x + 4) % 5 /\ after = (x + 1) % 5
  OBVIOUS
<1>7. before \in 0 .. 4 /\ after \in 0 .. 4
  BY <1>6
<1>8. t[x] = Xor(bc[before], ROTL64(bc[after], 1))
  BY <1>6
<1> HIDE DEF t
<1>9. z \in ROTL64(bc[after], 1) <=> down \in bc[after]
  <2>1. ROTL64(bc[after], 1) = {(b + 1) % 64 : b \in bc[after]}
    BY <1>5, <1>7, RotlMoves
  <2>2. down \in 0 .. 63 /\ (down + 1) % 64 = z /\ \A b \in 0 .. 63 : (b + 1) % 64 = z => b = down
    OBVIOUS
  <2>3. bc[after] \in SUBSET (0 .. 63)
    BY <1>5, <1>7
  <2> HIDE DEF down
  <2>4. QED
    BY <2>1, <2>2, <2>3
<1>10. z \in t[x] <=> (OddColumn(st, before, z) # OddColumn(st, after, down))
  <2>1. z \in t[x] <=> ((z \in bc[before]) # (z \in ROTL64(bc[after], 1)))
    BY <1>8, InXor
  <2>2. z \in bc[before] <=> OddColumn(st, before, z)
    BY <1>5, <1>7
  <2>3. down \in bc[after] <=> OddColumn(st, after, down)
    BY <1>5, <1>7
  <2> HIDE DEF down
  <2>4. OddColumn(st, before, z) \in BOOLEAN /\ OddColumn(st, after, down) \in BOOLEAN
    BY DEF OddColumn
  <2>5. /\ (z \in bc[before]) = OddColumn(st, before, z)
        /\ (z \in ROTL64(bc[after], 1)) = OddColumn(st, after, down)
    BY <1>9, <2>2, <2>3, <2>4
  <2>6. QED
    BY <2>1, <2>5
<1>11. z \in Theta(st)[l] <=> ((z \in st[l]) # (z \in t[x]))
  BY <1>4, InXor
<1>12. z \in Theta(st)[l]
         <=> ((z \in st[l]) # (OddColumn(st, before, z) # OddColumn(st, after, down)))
  BY <1>10, <1>11
<1>13. QED
  BY <1>2, <1>6, <1>12

\* keccak.c:45-106, for any state: theta turns over a bit when just one of its two columns is
\* odd; rho and pi move each bit to where the walk and the triangular numbers send it; and
\* chi mixes each row as the reference does.
THEOREM EveryStateIsMixed ==
  \A st \in States :
    /\ \A x, y \in 0 .. 4, z \in 0 .. 63 :
         z \in Theta(st)[5 * y + x]
           <=> ((z \in st[5 * y + x])
                  # (OddColumn(st, (x + 4) % 5, z) # OddColumn(st, (x + 1) % 5, (z + 63) % 64)))
    /\ BitsOf(RhoPi(st)) =
         {<<PiOf(b[1], b[2])[1], PiOf(b[1], b[2])[2], (b[3] + RhoOf(b[1], b[2])) % 64>> :
            b \in BitsOf(st)}
    /\ \A x, y \in 0 .. 4, z \in 0 .. 63 :
         z \in Chi(st)[5 * y + x] <=> x \in ChiOf({i \in 0 .. 4 : z \in st[5 * y + i]})
<1>1. SUFFICES ASSUME NEW st \in States
      PROVE
    /\ \A x, y \in 0 .. 4, z \in 0 .. 63 :
         z \in Theta(st)[5 * y + x]
           <=> ((z \in st[5 * y + x])
                  # (OddColumn(st, (x + 4) % 5, z) # OddColumn(st, (x + 1) % 5, (z + 63) % 64)))
    /\ BitsOf(RhoPi(st)) =
         {<<PiOf(b[1], b[2])[1], PiOf(b[1], b[2])[2], (b[3] + RhoOf(b[1], b[2])) % 64>> :
            b \in BitsOf(st)}
    /\ \A x, y \in 0 .. 4, z \in 0 .. 63 :
         z \in Chi(st)[5 * y + x] <=> x \in ChiOf({i \in 0 .. 4 : z \in st[5 * y + i]})
  OBVIOUS
<1>2. ASSUME NEW x \in 0 .. 4, NEW y \in 0 .. 4, NEW z \in 0 .. 63
      PROVE  z \in Chi(st)[5 * y + x] <=> x \in ChiOf({i \in 0 .. 4 : z \in st[5 * y + i]})
  <2> DEFINE s == {i \in 0 .. 4 : z \in st[5 * y + i]}
  <2>1. \A i \in 0 .. 4 : i \in s <=> z \in st[5 * y + i]
    OBVIOUS
  <2> HIDE DEF s
  <2>2. z \in Chi(st)[5 * y + x] <=> x \in ChiOf(s)
    BY <2>1, ChiIs
  <2>3. QED
    BY <2>2 DEF s
<1>3. BitsOf(RhoPi(st)) =
         {<<PiOf(b[1], b[2])[1], PiOf(b[1], b[2])[2], (b[3] + RhoOf(b[1], b[2])) % 64>> :
            b \in BitsOf(st)}
  BY RhoPiMovesBits
<1>4. ASSUME NEW x \in 0 .. 4, NEW y \in 0 .. 4, NEW z \in 0 .. 63
      PROVE  z \in Theta(st)[5 * y + x]
           <=> ((z \in st[5 * y + x])
                  # (OddColumn(st, (x + 4) % 5, z) # OddColumn(st, (x + 1) % 5, (z + 63) % 64)))
  BY ThetaAddsColumns
<1>5. QED
  BY <1>2, <1>3, <1>4, Zenon

\* A single bit, a row, or the register the reference has in a round.
TrialBook ==
  \/ input.of \notin {"bit", "row", "round"}
  \/ \E x, y \in 0 .. 4, z \in 0 .. 63 : input = [of |-> "bit", x |-> x, y |-> y, z |-> z]
  \/ \E y \in 0 .. 4, s \in SUBSET (0 .. 4) : input = [of |-> "row", y |-> y, s |-> s]
  \/ \E n \in 1 .. 24 : input = [of |-> "round", number |-> n, register |-> Registers[n]]

LEMMA InitTrialBook == HashInit => TrialBook
<1> SUFFICES ASSUME HashInit PROVE TrialBook
  OBVIOUS
<1>1. CASE input = Nothing
  BY <1>1 DEF Nothing, TrialBook
<1>2. CASE input \in [of : {"bit"}, x : 0 .. 4, y : 0 .. 4, z : {0, 31, 63}]
  <2>1. \E x, y \in 0 .. 4, z \in {0, 31, 63} : input = [of |-> "bit", x |-> x, y |-> y, z |-> z]
    BY <1>2
  <2>2. \A z \in {0, 31, 63} : z \in 0 .. 63
    OBVIOUS
  <2>3. QED
    BY <2>1, <2>2, Zenon DEF TrialBook
<1>3. CASE input \in [of : {"row"}, y : 0 .. 4, s : SUBSET (0 .. 4)]
  <2>1. \E y \in 0 .. 4, s \in SUBSET (0 .. 4) : input = [of |-> "row", y |-> y, s |-> s]
    BY <1>3
  <2>2. QED
    BY <2>1, Zenon DEF TrialBook
<1>4. CASE input = [of |-> "round", number |-> 1, register |-> {0}]
  <2>1. Registers[1] = {0} /\ 1 \in 1 .. 24
    BY DEF Registers
  <2>2. QED
    BY <1>4, <2>1, Zenon DEF TrialBook
<1>5. CASE input \in [of : {"digest"}, mdlen : -1 .. 2 * StateBytes]
  BY <1>5 DEF TrialBook
<1>6. CASE input \in [of : {"words"}, x : 0 .. Full - 1, y : 0 .. Full - 1]
  BY <1>6 DEF TrialBook
<1>7. CASE \E w \in {16, 32, 64} : input \in [of : {"bytes"}, w : {w}, b : 0 .. w - 1]
  BY <1>7 DEF TrialBook
<1>8. QED
  BY <1>1, <1>2, <1>3, <1>4, <1>5, <1>6, <1>7, Zenon DEF HashInit

LEMMA NextTrialBook == TrialBook /\ [HashNext]_hashVars => TrialBook'
<1> SUFFICES ASSUME TrialBook, [HashNext]_hashVars PROVE TrialBook'
  OBVIOUS
<1>1. CASE UNCHANGED input
  BY <1>1 DEF TrialBook
<1>2. CASE input.of = "round" /\ NextRound
  <2>1. PICK n \in 1 .. 24 : input = [of |-> "round", number |-> n, register |-> Registers[n]]
    BY <1>2 DEF TrialBook
  <2>2. input.number = n /\ input.register = Registers[n]
    BY <2>1
  <2>3. PICK m : m = n + 1
    OBVIOUS
  <2>4. n < 24 /\ input' = [input EXCEPT !.number = n + 1, !.register = Seven(Registers[n])[7]]
    BY <1>2, <2>2 DEF NextRound
  <2>5. m \in 1 .. 24
    BY <2>3, <2>4
  <2>6. Seven(Registers[n])[7] = Registers[m]
    BY <2>3, RoundIsMixed
  <2>7. input' = [input EXCEPT !.number = m, !.register = Registers[m]]
    BY <2>3, <2>4, <2>6
  <2>8. input' = [of |-> "round", number |-> m, register |-> Registers[m]]
    BY <2>1, <2>7
  <2>9. QED
    BY <2>5, <2>8, Zenon DEF TrialBook
<1>3. QED
  BY <1>1, <1>2 DEF HashNext, UpdatePiece, FinishDigest, hashVars

\* keccak.c:24-112: a single bit goes through theta, rho and pi, and a row through chi, as in
\* Keccak-f[1600], and in each round iota adds the constant of the shift register.
THEOREM PermutationIsRight == HashSpec => []PermutationIsKeccak
<1>1. TrialBook => PermutationIsKeccak
  <2> SUFFICES ASSUME TrialBook PROVE PermutationIsKeccak
    OBVIOUS
  <2>1. ASSUME input.of = "bit"
        PROVE  LET one   == [Zero EXCEPT ![5 * input.y + input.x] = {input.z}]
                   moved == {<<PiOf(b[1], b[2]), (b[3] + RhoOf(b[1], b[2])) % 64>> :
                               b \in ThetaOf(input.x, input.y, input.z)}
               IN  BitsOf(RhoPi(Theta(one))) = {<<m[1][1], m[1][2], m[2]>> : m \in moved}
    <3>1. PICK x \in 0 .. 4, y \in 0 .. 4, z \in 0 .. 63 :
            input = [of |-> "bit", x |-> x, y |-> y, z |-> z]
      BY <2>1 DEF TrialBook
    <3>2. input.x = x /\ input.y = y /\ input.z = z
      BY <3>1
    <3>3. LET moved == {<<PiOf(b[1], b[2]), (b[3] + RhoOf(b[1], b[2])) % 64>> : b \in ThetaOf(x, y, z)}
          IN  BitsOf(RhoPi(Theta(Alone(x, y, z)))) = {<<m[1][1], m[1][2], m[2]>> : m \in moved}
      BY BitIsMixed
    <3>4. QED
      BY <3>2, <3>3, Zenon DEF Alone
  <2>2. ASSUME input.of = "row"
        PROVE  LET row == [l \in Lanes |-> IF l \div 5 = input.y /\ l % 5 \in input.s THEN {0} ELSE {}]
               IN  BitsOf(Chi(row)) = {<<x, input.y, 0>> : x \in ChiOf(input.s)}
    <3>1. PICK y \in 0 .. 4, s \in SUBSET (0 .. 4) : input = [of |-> "row", y |-> y, s |-> s]
      BY <2>2 DEF TrialBook
    <3>2. input.y = y /\ input.s = s
      BY <3>1
    <3>3. LET row == [l \in Lanes |-> IF l \div 5 = y /\ l % 5 \in s THEN {0} ELSE {}]
          IN  BitsOf(Chi(row)) = {<<x, y, 0>> : x \in ChiOf(s)}
      BY RowIsMixed
    <3>4. QED
      BY <3>2, <3>3, Zenon
  <2>3. ASSUME input.of = "round" PROVE Iota(Zero, input.number)[0] = IotaOf(input.register)
    <3>1. PICK n \in 1 .. 24 : input = [of |-> "round", number |-> n, register |-> Registers[n]]
      BY <2>3 DEF TrialBook
    <3>2. input.number = n /\ input.register = Registers[n]
      BY <3>1
    <3>3. Iota(Zero, n)[0] = IotaOf(Registers[n])
      BY RoundIsMixed
    <3>4. QED
      BY <3>2, <3>3
  <2>4. QED
    BY <2>1, <2>2, <2>3, Zenon DEF PermutationIsKeccak
<1>2. QED
  BY <1>1, InitTrialBook, NextTrialBook, PTL DEF HashSpec

=============================================================================
