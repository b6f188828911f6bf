---- MODULE ExchangeProofs ----
(***************************************************************************)
(* The two serial protocols.  First the checksums: a frame with one byte    *)
(* changed is refused (CrcDetectsDamage, LrcDetectsDamage, and the same of  *)
(* frames).  Then the inductive invariant IInv of Exchange, which says what *)
(* is on the line at every pc, and the properties of Exchange that follow.  *)
(***************************************************************************)
EXTENDS Exchange, FrameProofs, WellFoundedInduction

----------------------------------------------------------------------------
(* Exclusive or *)

\* The bits of a byte make up the byte.
LEMMA ByteFromBits ==
  ASSUME NEW x \in Byte
  PROVE  x = ((x \div 1) % 2) + 2 * ((x \div 2) % 2) + 4 * ((x \div 4) % 2)
             + 8 * ((x \div 8) % 2) + 16 * ((x \div 16) % 2) + 32 * ((x \div 32) % 2)
             + 64 * ((x \div 64) % 2) + 128 * ((x \div 128) % 2)
BY Z3 DEF Byte

\* Eight binary digits and the number they make up.
Binary(a, b, c, d, e, f, g, h) ==
  a + 2 * b + 4 * c + 8 * d + 16 * e + 32 * f + 64 * g + 128 * h

\* One digit of the exclusive or.
Digit(x, y, m) == (x \div m + y \div m) % 2

LEMMA DigitIsBit ==
  ASSUME NEW x \in Byte, NEW y \in Byte
  PROVE  /\ Digit(x, y, 1) \in Bit /\ Digit(x, y, 2) \in Bit /\ Digit(x, y, 4) \in Bit
         /\ Digit(x, y, 8) \in Bit /\ Digit(x, y, 16) \in Bit /\ Digit(x, y, 32) \in Bit
         /\ Digit(x, y, 64) \in Bit /\ Digit(x, y, 128) \in Bit
BY Z3 DEF Digit, Bit, Byte

LEMMA XorDigits ==
  ASSUME NEW x \in Byte, NEW y \in Byte
  PROVE  XorByte(x, y) = Binary(Digit(x, y, 1), Digit(x, y, 2), Digit(x, y, 4), Digit(x, y, 8),
                                Digit(x, y, 16), Digit(x, y, 32), Digit(x, y, 64), Digit(x, y, 128))
<1>1. /\ Digit(x, y, 1) \in Int /\ Digit(x, y, 2) \in Int /\ Digit(x, y, 4) \in Int
      /\ Digit(x, y, 8) \in Int /\ Digit(x, y, 16) \in Int /\ Digit(x, y, 32) \in Int
      /\ Digit(x, y, 64) \in Int /\ Digit(x, y, 128) \in Int
  BY DigitIsBit, Z3 DEF Bit
<1>2. XorByte(x, y) = 1 * Digit(x, y, 1) + 2 * Digit(x, y, 2) + 4 * Digit(x, y, 4)
                      + 8 * Digit(x, y, 8) + 16 * Digit(x, y, 16) + 32 * Digit(x, y, 32)
                      + 64 * Digit(x, y, 64) + 128 * Digit(x, y, 128)
  BY Zenon DEF XorByte, Digit
<1>3. QED
  BY <1>1, <1>2, Z3 DEF Binary

LEMMA XorIsByte ==
  ASSUME NEW x \in Byte, NEW y \in Byte
  PROVE  XorByte(x, y) \in Byte
<1> DEFINE a == Digit(x, y, 1)  b == Digit(x, y, 2)  c == Digit(x, y, 4)
           d == Digit(x, y, 8)  e == Digit(x, y, 16) f == Digit(x, y, 32)
           g == Digit(x, y, 64) h == Digit(x, y, 128)
<1>1. a \in Bit /\ b \in Bit /\ c \in Bit /\ d \in Bit /\ e \in Bit /\ f \in Bit /\ g \in Bit /\ h \in Bit
  BY DigitIsBit
<1>2. XorByte(x, y) = Binary(a, b, c, d, e, f, g, h)
  BY XorDigits
<1> HIDE DEF a, b, c, d, e, f, g, h
<1>3. QED
  BY <1>1, <1>2, Z3 DEF Binary, Bit, Byte

LEMMA XorSym ==
  ASSUME NEW x \in Byte, NEW y \in Byte
  PROVE  XorByte(x, y) = XorByte(y, x)
BY Z3 DEF XorByte, Byte

\* A digit that is the same comes from the same digit.
LEMMA SameDigit ==
  ASSUME NEW x \in Int, NEW y \in Int, NEW z \in Int, (x + y) % 2 = (x + z) % 2
  PROVE  y % 2 = z % 2
BY Z3

\* What a byte is combined with can be told from the result.
LEMMA XorInjective ==
  ASSUME NEW x \in Byte, NEW y \in Byte, NEW z \in Byte, XorByte(x, y) = XorByte(x, z)
  PROVE  y = z
<1>1. /\ Digit(x, y, 1) = Digit(x, z, 1) /\ Digit(x, y, 2) = Digit(x, z, 2)
      /\ Digit(x, y, 4) = Digit(x, z, 4) /\ Digit(x, y, 8) = Digit(x, z, 8)
      /\ Digit(x, y, 16) = Digit(x, z, 16) /\ Digit(x, y, 32) = Digit(x, z, 32)
      /\ Digit(x, y, 64) = Digit(x, z, 64) /\ Digit(x, y, 128) = Digit(x, z, 128)
  <2> DEFINE a == Digit(x, y, 1)  b == Digit(x, y, 2)  c == Digit(x, y, 4)
             d == Digit(x, y, 8)  e == Digit(x, y, 16) f == Digit(x, y, 32)
             g == Digit(x, y, 64) h == Digit(x, y, 128)
             a2 == Digit(x, z, 1)  b2 == Digit(x, z, 2)  c2 == Digit(x, z, 4)
             d2 == Digit(x, z, 8)  e2 == Digit(x, z, 16) f2 == Digit(x, z, 32)
             g2 == Digit(x, z, 64) h2 == Digit(x, z, 128)
  <2>1. a \in Bit /\ b \in Bit /\ c \in Bit /\ d \in Bit /\ e \in Bit /\ f \in Bit /\ g \in Bit /\ h \in Bit
    BY DigitIsBit
  <2>2. /\ a2 \in Bit /\ b2 \in Bit /\ c2 \in Bit /\ d2 \in Bit
        /\ e2 \in Bit /\ f2 \in Bit /\ g2 \in Bit /\ h2 \in Bit
    BY DigitIsBit
  <2>3. XorByte(x, y) = Binary(a, b, c, d, e, f, g, h)
    BY XorDigits
  <2>4. XorByte(x, z) = Binary(a2, b2, c2, d2, e2, f2, g2, h2)
    BY XorDigits
  <2>5. a = a2 /\ b = b2 /\ c = c2 /\ d = d2 /\ e = e2 /\ f = f2 /\ g = g2 /\ h = h2
    <3> HIDE DEF a, b, c, d, e, f, g, h, a2, b2, c2, d2, e2, f2, g2, h2
    <3>1. Binary(a, b, c, d, e, f, g, h) = Binary(a2, b2, c2, d2, e2, f2, g2, h2)
      BY <2>3, <2>4, Zenon
    <3>2. QED
      BY <2>1, <2>2, <3>1, Z3 DEF Binary, Bit
  <2>6. QED
    BY <2>5
<1>2. ASSUME NEW m \in {1, 2, 4, 8, 16, 32, 64, 128}, Digit(x, y, m) = Digit(x, z, m)
      PROVE  (y \div m) % 2 = (z \div m) % 2
  <2>1. m \in Int /\ m > 0
    BY <1>2
  <2>2. x \div m \in Int /\ y \div m \in Int /\ z \div m \in Int
    BY <2>1 DEF Byte
  <2>3. (x \div m + y \div m) % 2 = (x \div m + z \div m) % 2
    BY <1>2, Zenon DEF Digit
  <2>4. QED
    BY <2>2, <2>3, SameDigit
<1>3. /\ (y \div 1) % 2 = (z \div 1) % 2 /\ (y \div 2) % 2 = (z \div 2) % 2
      /\ (y \div 4) % 2 = (z \div 4) % 2 /\ (y \div 8) % 2 = (z \div 8) % 2
      /\ (y \div 16) % 2 = (z \div 16) % 2 /\ (y \div 32) % 2 = (z \div 32) % 2
      /\ (y \div 64) % 2 = (z \div 64) % 2 /\ (y \div 128) % 2 = (z \div 128) % 2
  BY <1>1, <1>2
<1>4. QED
  BY <1>3, ByteFromBits, Zenon

LEMMA Halves ==
  ASSUME NEW a \in Byte, NEW b \in Byte
  PROVE  256 * a + b \in Word /\ Hi(256 * a + b) = a /\ Lo(256 * a + b) = b
<1> DEFINE v == 256 * a + b
<1>1. v \in Int /\ 0 <= v /\ v <= 65535 /\ v \div 256 = a /\ v % 256 = b /\ a % 256 = a
  BY Z3 DEF Byte
<1> HIDE DEF v
<1>2. v <= U16_MAX
  BY <1>1 DEF U16_MAX
<1>3. v \in Word
  BY <1>1, <1>2, WordIs DEF Word
<1>4. Hi(v) = a /\ Lo(v) = b
  BY <1>1, Z3 DEF Hi, Lo
<1>5. QED
  BY <1>3, <1>4, Zenon DEF v

LEMMA XorIsWord ==
  ASSUME NEW x \in Word, NEW y \in Word
  PROVE  /\ Xor(x, y) \in Word /\ Hi(Xor(x, y)) = XorByte(Hi(x), Hi(y))
         /\ Lo(Xor(x, y)) = XorByte(Lo(x), Lo(y))
<1>1. Hi(x) \in Byte /\ Lo(x) \in Byte /\ Hi(y) \in Byte /\ Lo(y) \in Byte
  BY HalvesOfWord, Zenon
<1>2. XorByte(Hi(x), Hi(y)) \in Byte /\ XorByte(Lo(x), Lo(y)) \in Byte
  BY <1>1, XorIsByte, Zenon
<1>3. QED
  BY <1>2, Halves, Zenon DEF Xor

----------------------------------------------------------------------------
(* The table of the RTU checksum *)

LEMMA WordBounds ==
  ASSUME NEW v \in Word
  PROVE  v \in Int /\ 0 <= v /\ v <= 65535
BY Z3 DEF Word, U16_MAX

\* Half of a word, digit by digit where the polynomial has one.
Digits12 == 0..4095
HalfFrom(l, r, b, p) == l + 2 * (r + 4096 * (b + 2 * p))

LEMMA HalfOfWord ==
  ASSUME NEW c \in Word, c % 2 = 1
  PROVE  \E l \in Bit, r \in Digits12, b \in Bit, p \in Bit :
           c = 1 + 2 * HalfFrom(l, r, b, p) /\ c \div 2 = HalfFrom(l, r, b, p)
<1> DEFINE d == c \div 2
           l == d % 2
           q == d \div 2
           r == q % 4096
           u == q \div 4096
           b == u % 2
           p == u \div 2
<1>1. c \in Int /\ 0 <= c /\ c <= 65535
  BY Z3 DEF Word, U16_MAX
<1>2. d \in Int /\ 0 <= d /\ d <= 32767 /\ c = 1 + 2 * d
  BY <1>1, Z3
<1>3. l \in Bit /\ q \in Int /\ d = l + 2 * q /\ 0 <= q /\ q <= 16383
  BY <1>2, Z3 DEF Bit
<1>4. r \in 0..4095 /\ u \in Int /\ q = r + 4096 * u /\ 0 <= u /\ u <= 3
  <2> HIDE DEF q
  <2>1. r \in Int /\ 0 <= r /\ r <= 4095
    BY <1>3, Z3
  <2>2. u \in Int /\ q = r + 4096 * u /\ 0 <= u /\ u <= 3
    BY <1>3, Z3
  <2> HIDE DEF r
  <2>3. QED
    BY <2>1, <2>2, Z3
<1>5. b \in Bit /\ p \in Bit /\ u = b + 2 * p
  BY <1>4, Z3 DEF Bit
<1>6. c = 1 + 2 * (l + 2 * (r + 4096 * (b + 2 * p))) /\ d = l + 2 * (r + 4096 * (b + 2 * p))
  <2> HIDE DEF d, l, q, r, u, b, p
  <2>1. QED
    BY <1>2, <1>3, <1>4, <1>5, Z3 DEF Bit
<1> HIDE DEF l, r, b, p
<1>7. l \in Bit /\ b \in Bit /\ p \in Bit /\ r \in Digits12
  BY <1>3, <1>4, <1>5 DEF Digits12
<1>8. c = 1 + 2 * HalfFrom(l, r, b, p) /\ c \div 2 = HalfFrom(l, r, b, p)
  BY <1>6 DEF HalfFrom
<1>9. QED
  BY <1>7, <1>8, Zenon

LEMMA XorPolynomial ==
  ASSUME NEW l \in Bit, NEW r \in Digits12, NEW b \in Bit, NEW p \in Bit
  PROVE  Xor(HalfFrom(l, r, b, p), 40961) = HalfFrom(1 - l, r, 1 - b, p + 2)
<1>1. Hi(40961) = 160 /\ Lo(40961) = 1
  BY Z3 DEF Hi, Lo
<1>2. PICK s \in 0..127, t \in 0..31 : r = s + 128 * t
  <2>1. r % 128 \in 0..127 /\ r \div 128 \in 0..31 /\ r = (r % 128) + 128 * (r \div 128)
    BY Z3 DEF Digits12
  <2>2. QED
    BY <2>1
<1> DEFINE w == HalfFrom(l, r, b, p)
<1>3. Hi(w) = t + 32 * (b + 2 * p) /\ Lo(w) = l + 2 * s
  BY <1>2, Z3 DEF Hi, Lo, Bit, HalfFrom
<1>4. XorByte(t + 32 * (b + 2 * p), 160) = t + 32 * ((1 - b) + 2 * (p + 2))
  BY <1>2, Z3 DEF XorByte, Bit
<1>5. XorByte(l + 2 * s, 1) = (1 - l) + 2 * s
  BY <1>2, Z3 DEF XorByte, Bit
<1>6. Xor(w, 40961) = 256 * (t + 32 * ((1 - b) + 2 * (p + 2))) + ((1 - l) + 2 * s)
  BY <1>1, <1>3, <1>4, <1>5 DEF Xor
<1>7. QED
  BY <1>2, <1>6, Z3 DEF Bit, HalfFrom

\* One bit of the polynomial, without its operators: an even word is halved,
\* and the result has the top bit exactly when the word was odd.
LEMMA CrcBitEven ==
  ASSUME NEW c \in Word, c % 2 = 0
  PROVE  CrcBit(c) \in Word /\ CrcBit(c) < 32768 /\ c = 2 * CrcBit(c)
<1>1. c \in Int /\ 0 <= c /\ c <= 65535
  BY Z3 DEF Word, U16_MAX
<1> DEFINE e == CrcBit(c)
<1>2. e \in Int /\ 0 <= e /\ e < 32768 /\ c = 2 * e
  BY <1>1, Z3 DEF CrcBit
<1> HIDE DEF e
<1>3. e <= U16_MAX
  BY <1>2 DEF U16_MAX
<1>4. e \in Word
  BY <1>2, <1>3, WordIs DEF Word
<1>5. QED
  BY <1>2, <1>4 DEF e

LEMMA CrcBitOdd ==
  ASSUME NEW c \in Word, c % 2 = 1
  PROVE  \E l \in Bit, r \in Digits12, b \in Bit, p \in Bit :
           c = 1 + 2 * HalfFrom(l, r, b, p) /\ CrcBit(c) = HalfFrom(1 - l, r, 1 - b, p + 2)
<1>1. PICK l \in Bit, r \in Digits12, b \in Bit, p \in Bit :
        c = 1 + 2 * HalfFrom(l, r, b, p) /\ c \div 2 = HalfFrom(l, r, b, p)
  BY HalfOfWord, Zenon
<1>2. CrcBit(c) = Xor(c \div 2, 40961)
  BY Z3 DEF CrcBit
<1>3. CrcBit(c) = HalfFrom(1 - l, r, 1 - b, p + 2)
  BY <1>1, <1>2, XorPolynomial
<1>4. QED
  BY <1>1, <1>3, Zenon

LEMMA CrcBitIs ==
  ASSUME NEW c \in Word
  PROVE  CrcBit(c) \in Word /\ (CrcBit(c) >= 32768 <=> c % 2 = 1)
<1>1. c % 2 = 0 \/ c % 2 = 1
  BY Z3 DEF Word
<1>2. CASE c % 2 = 0
  <2>1. CrcBit(c) \in Word /\ CrcBit(c) < 32768
    BY <1>2, CrcBitEven
  <2>2. QED
    BY <1>2, <2>1, Z3 DEF Word
<1>3. CASE c % 2 = 1
  <2>1. PICK l \in Bit, r \in Digits12, b \in Bit, p \in Bit :
          CrcBit(c) = HalfFrom(1 - l, r, 1 - b, p + 2)
    BY <1>3, CrcBitOdd, Zenon
  <2> DEFINE e == CrcBit(c)
  <2>2. e \in Int /\ 32768 <= e /\ e <= 65535
    BY <2>1, Z3 DEF Bit, Digits12, HalfFrom
  <2> HIDE DEF e
  <2>3. e <= U16_MAX /\ e >= 32768
    BY <2>2 DEF U16_MAX
  <2>4. e \in Word
    BY <2>2, <2>3, WordIs DEF Word
  <2>5. QED
    BY <1>3, <2>3, <2>4 DEF e
<1>4. QED
  BY <1>1, <1>2, <1>3

\* Two words are alike at their ends when they have the same rest and the same
\* quotient: the low digits and the high ones.
Alike(c, d, low, high) == c % low = d % low /\ c \div high = d \div high

\* The digits of two odd words from those of the next ones, first the low ones
\* and then the high ones.
LEMMA AlikeOdd ==
  ASSUME NEW c \in Word, NEW d \in Word, c % 2 = 1, d % 2 = 1
  PROVE  /\ Alike(CrcBit(c), CrcBit(d), 1, 256) => Alike(c, d, 2, 512)
         /\ Alike(CrcBit(c), CrcBit(d), 2, 512) => Alike(c, d, 4, 1024)
         /\ Alike(CrcBit(c), CrcBit(d), 4, 1024) => Alike(c, d, 8, 2048)
         /\ Alike(CrcBit(c), CrcBit(d), 8, 2048) => Alike(c, d, 16, 4096)
         /\ Alike(CrcBit(c), CrcBit(d), 16, 4096) => Alike(c, d, 32, 8192)
         /\ Alike(CrcBit(c), CrcBit(d), 32, 8192) => Alike(c, d, 64, 16384)
         /\ Alike(CrcBit(c), CrcBit(d), 64, 16384) => Alike(c, d, 128, 32768)
         /\ Alike(CrcBit(c), CrcBit(d), 128, 32768) => Alike(c, d, 256, 65536)
<1>1. PICK l \in Bit, r \in Digits12, b \in Bit, p \in Bit :
        c = 1 + 2 * HalfFrom(l, r, b, p) /\ CrcBit(c) = HalfFrom(1 - l, r, 1 - b, p + 2)
  BY CrcBitOdd, Zenon
<1>2. PICK l2 \in Bit, r2 \in Digits12, b2 \in Bit, p2 \in Bit :
        d = 1 + 2 * HalfFrom(l2, r2, b2, p2) /\ CrcBit(d) = HalfFrom(1 - l2, r2, 1 - b2, p2 + 2)
  BY CrcBitOdd, Zenon
<1> DEFINE e == CrcBit(c)
           f == CrcBit(d)
<1>3. /\ l \in Int /\ r \in Int /\ b \in Int /\ p \in Int
      /\ 0 <= l /\ l <= 1 /\ 0 <= r /\ r <= 4095 /\ 0 <= b /\ b <= 1 /\ 0 <= p /\ p <= 1
      /\ l2 \in Int /\ r2 \in Int /\ b2 \in Int /\ p2 \in Int
      /\ 0 <= l2 /\ l2 <= 1 /\ 0 <= r2 /\ r2 <= 4095 /\ 0 <= b2 /\ b2 <= 1 /\ 0 <= p2 /\ p2 <= 1
  BY <1>1, <1>2, Z3 DEF Bit, Digits12
<1>4. /\ c = 1 + 2 * (l + 2 * (r + 4096 * (b + 2 * p)))
      /\ e = (1 - l) + 2 * (r + 4096 * ((1 - b) + 2 * (p + 2)))
      /\ d = 1 + 2 * (l2 + 2 * (r2 + 4096 * (b2 + 2 * p2)))
      /\ f = (1 - l2) + 2 * (r2 + 4096 * ((1 - b2) + 2 * (p2 + 2)))
  BY <1>1, <1>2 DEF HalfFrom
<1>5. c \in Int /\ d \in Int /\ e \in Int /\ f \in Int
  BY <1>3, <1>4, Z3
<1> HIDE DEF e, f
<1>6. e % 1 = f % 1 => c % 2 = d % 2
  BY <1>3, <1>4, <1>5, Z3
<1>7. e % 2 = f % 2 => c % 4 = d % 4
  BY <1>3, <1>4, <1>5, Z3
<1>8. e % 4 = f % 4 => c % 8 = d % 8
  BY <1>3, <1>4, <1>5, Z3
<1>9. e % 8 = f % 8 => c % 16 = d % 16
  BY <1>3, <1>4, <1>5, Z3
<1>10. e % 16 = f % 16 => c % 32 = d % 32
  BY <1>3, <1>4, <1>5, Z3
<1>11. e % 32 = f % 32 => c % 64 = d % 64
  BY <1>3, <1>4, <1>5, Z3
<1>12. e % 64 = f % 64 => c % 128 = d % 128
  BY <1>3, <1>4, <1>5, Z3
<1>13. e % 128 = f % 128 => c % 256 = d % 256
  BY <1>3, <1>4, <1>5, Z3
<1>14. e \div 256 = f \div 256 => c \div 512 = d \div 512
  BY <1>3, <1>4, <1>5, Z3
<1>15. e \div 512 = f \div 512 => c \div 1024 = d \div 1024
  BY <1>3, <1>4, <1>5, Z3
<1>16. e \div 1024 = f \div 1024 => c \div 2048 = d \div 2048
  BY <1>3, <1>4, <1>5, Z3
<1>17. e \div 2048 = f \div 2048 => c \div 4096 = d \div 4096
  BY <1>3, <1>4, <1>5, Z3
<1>18. e \div 4096 = f \div 4096 => c \div 8192 = d \div 8192
  BY <1>3, <1>4, <1>5, Z3
<1>19. e \div 8192 = f \div 8192 => c \div 16384 = d \div 16384
  BY <1>3, <1>4, <1>5, Z3
<1>20. e \div 16384 = f \div 16384 => c \div 32768 = d \div 32768
  BY <1>3, <1>4, <1>5, Z3
<1>21. e \div 32768 = f \div 32768 => c \div 65536 = d \div 65536
  BY <1>3, <1>4, <1>5, Z3
<1>22. QED
  BY <1>6, <1>7, <1>8, <1>9, <1>10, <1>11, <1>12, <1>13, <1>14, <1>15, <1>16, <1>17, <1>18, <1>19, <1>20, <1>21 DEF Alike, e, f

LEMMA AlikeEven ==
  ASSUME NEW c \in Word, NEW d \in Word, c % 2 = 0, d % 2 = 0
  PROVE  /\ Alike(CrcBit(c), CrcBit(d), 1, 256) => Alike(c, d, 2, 512)
         /\ Alike(CrcBit(c), CrcBit(d), 2, 512) => Alike(c, d, 4, 1024)
         /\ Alike(CrcBit(c), CrcBit(d), 4, 1024) => Alike(c, d, 8, 2048)
         /\ Alike(CrcBit(c), CrcBit(d), 8, 2048) => Alike(c, d, 16, 4096)
         /\ Alike(CrcBit(c), CrcBit(d), 16, 4096) => Alike(c, d, 32, 8192)
         /\ Alike(CrcBit(c), CrcBit(d), 32, 8192) => Alike(c, d, 64, 16384)
         /\ Alike(CrcBit(c), CrcBit(d), 64, 16384) => Alike(c, d, 128, 32768)
         /\ Alike(CrcBit(c), CrcBit(d), 128, 32768) => Alike(c, d, 256, 65536)
<1> DEFINE e == CrcBit(c)
           f == CrcBit(d)
<1>1. e \in Int /\ f \in Int /\ 0 <= e /\ 0 <= f
  BY CrcBitIs, Z3 DEF Word
<1>2. c = 2 * e /\ d = 2 * f
  BY CrcBitEven
<1> HIDE DEF e, f
<1>3. e % 1 = f % 1 => c % 2 = d % 2
  BY <1>1, <1>2, Z3
<1>4. e % 2 = f % 2 => c % 4 = d % 4
  BY <1>1, <1>2, Z3
<1>5. e % 4 = f % 4 => c % 8 = d % 8
  BY <1>1, <1>2, Z3
<1>6. e % 8 = f % 8 => c % 16 = d % 16
  BY <1>1, <1>2, Z3
<1>7. e % 16 = f % 16 => c % 32 = d % 32
  BY <1>1, <1>2, Z3
<1>8. e % 32 = f % 32 => c % 64 = d % 64
  BY <1>1, <1>2, Z3
<1>9. e % 64 = f % 64 => c % 128 = d % 128
  BY <1>1, <1>2, Z3
<1>10. e % 128 = f % 128 => c % 256 = d % 256
  BY <1>1, <1>2, Z3
<1>11. e \div 256 = f \div 256 => c \div 512 = d \div 512
  BY <1>1, <1>2, Z3
<1>12. e \div 512 = f \div 512 => c \div 1024 = d \div 1024
  BY <1>1, <1>2, Z3
<1>13. e \div 1024 = f \div 1024 => c \div 2048 = d \div 2048
  BY <1>1, <1>2, Z3
<1>14. e \div 2048 = f \div 2048 => c \div 4096 = d \div 4096
  BY <1>1, <1>2, Z3
<1>15. e \div 4096 = f \div 4096 => c \div 8192 = d \div 8192
  BY <1>1, <1>2, Z3
<1>16. e \div 8192 = f \div 8192 => c \div 16384 = d \div 16384
  BY <1>1, <1>2, Z3
<1>17. e \div 16384 = f \div 16384 => c \div 32768 = d \div 32768
  BY <1>1, <1>2, Z3
<1>18. e \div 32768 = f \div 32768 => c \div 65536 = d \div 65536
  BY <1>1, <1>2, Z3
<1>19. QED
  BY <1>3, <1>4, <1>5, <1>6, <1>7, <1>8, <1>9, <1>10, <1>11, <1>12, <1>13, <1>14, <1>15, <1>16, <1>17, <1>18 DEF Alike, e, f

Highs == {256, 512, 1024, 2048, 4096, 8192, 16384, 32768}

\* Words whose successors have the same high digits are both odd or both even.
LEMMA SameParity ==
  ASSUME NEW c \in Word, NEW d \in Word,
         \E m \in Highs :
           CrcBit(c) \div m = CrcBit(d) \div m
  PROVE  (c % 2 = 0 /\ d % 2 = 0) \/ (c % 2 = 1 /\ d % 2 = 1)
<1> DEFINE e == CrcBit(c)
           f == CrcBit(d)
<1>1. e \in Int /\ f \in Int /\ 0 <= e /\ 0 <= f /\ e <= 65535 /\ f <= 65535
  <2>1. e \in Word /\ f \in Word
    BY CrcBitIs
  <2> HIDE DEF e, f
  <2>2. QED
    BY <2>1, WordBounds
<1>2. (e >= 32768 <=> c % 2 = 1) /\ (f >= 32768 <=> d % 2 = 1)
  BY CrcBitIs
<1>3. \E m \in Highs : e \div m = f \div m
  OBVIOUS
<1> HIDE DEF e, f
<1>4. e \div 256 = f \div 256 => (e >= 32768 <=> f >= 32768)
  BY <1>1, Z3
<1>5. e \div 512 = f \div 512 => (e >= 32768 <=> f >= 32768)
  BY <1>1, Z3
<1>6. e \div 1024 = f \div 1024 => (e >= 32768 <=> f >= 32768)
  BY <1>1, Z3
<1>7. e \div 2048 = f \div 2048 => (e >= 32768 <=> f >= 32768)
  BY <1>1, Z3
<1>8. e \div 4096 = f \div 4096 => (e >= 32768 <=> f >= 32768)
  BY <1>1, Z3
<1>9. e \div 8192 = f \div 8192 => (e >= 32768 <=> f >= 32768)
  BY <1>1, Z3
<1>10. e \div 16384 = f \div 16384 => (e >= 32768 <=> f >= 32768)
  BY <1>1, Z3
<1>11. e \div 32768 = f \div 32768 => (e >= 32768 <=> f >= 32768)
  BY <1>1, Z3
<1>12. e >= 32768 <=> f >= 32768
  BY <1>3, <1>4, <1>5, <1>6, <1>7, <1>8, <1>9, <1>10, <1>11 DEF Highs
<1>13. (c % 2 = 0 \/ c % 2 = 1) /\ (d % 2 = 0 \/ d % 2 = 1)
  BY Z3 DEF Word
<1>14. QED
  BY <1>2, <1>12, <1>13

\* Words whose successors are alike are alike in one more digit at either end.
LEMMA AlikeBack ==
  ASSUME NEW c \in Word, NEW d \in Word
  PROVE  /\ Alike(CrcBit(c), CrcBit(d), 1, 256) => Alike(c, d, 2, 512)
         /\ Alike(CrcBit(c), CrcBit(d), 2, 512) => Alike(c, d, 4, 1024)
         /\ Alike(CrcBit(c), CrcBit(d), 4, 1024) => Alike(c, d, 8, 2048)
         /\ Alike(CrcBit(c), CrcBit(d), 8, 2048) => Alike(c, d, 16, 4096)
         /\ Alike(CrcBit(c), CrcBit(d), 16, 4096) => Alike(c, d, 32, 8192)
         /\ Alike(CrcBit(c), CrcBit(d), 32, 8192) => Alike(c, d, 64, 16384)
         /\ Alike(CrcBit(c), CrcBit(d), 64, 16384) => Alike(c, d, 128, 32768)
         /\ Alike(CrcBit(c), CrcBit(d), 128, 32768) => Alike(c, d, 256, 65536)
<1>1. CASE c % 2 = 0 /\ d % 2 = 0
  BY <1>1, AlikeEven
<1>2. CASE c % 2 = 1 /\ d % 2 = 1
  BY <1>2, AlikeOdd
<1>3. CASE ~((c % 2 = 0 /\ d % 2 = 0) \/ (c % 2 = 1 /\ d % 2 = 1))
  <2>1. \A m \in Highs : CrcBit(c) \div m # CrcBit(d) \div m
    BY <1>3, SameParity
  <2>2. /\ CrcBit(c) \div 256 # CrcBit(d) \div 256
        /\ CrcBit(c) \div 512 # CrcBit(d) \div 512
        /\ CrcBit(c) \div 1024 # CrcBit(d) \div 1024
        /\ CrcBit(c) \div 2048 # CrcBit(d) \div 2048
        /\ CrcBit(c) \div 4096 # CrcBit(d) \div 4096
        /\ CrcBit(c) \div 8192 # CrcBit(d) \div 8192
        /\ CrcBit(c) \div 16384 # CrcBit(d) \div 16384
        /\ CrcBit(c) \div 32768 # CrcBit(d) \div 32768
    BY <2>1 DEF Highs
  <2>3. QED
    BY <2>2 DEF Alike
<1>4. QED
  BY <1>1, <1>2, <1>3

LEMMA ByteIsWord ==
  ASSUME NEW b \in Byte
  PROVE  b \in Word
<1>1. b \in Int /\ 0 <= b /\ b <= 65535
  BY Z3 DEF Byte
<1>2. b <= U16_MAX
  BY <1>1 DEF U16_MAX
<1>3. QED
  BY <1>1, <1>2, WordIs DEF Word

\* No two entries of the table have the same high byte: it can be told from
\* the high byte of an entry which entry it is.
LEMMA TableIs ==
  /\ \A i \in Byte : CRC_TABLE[i] \in Word
  /\ \A i, j \in Byte : Hi(CRC_TABLE[i]) = Hi(CRC_TABLE[j]) => i = j
<1> DEFINE c1(i) == CrcBit(i)     c2(i) == CrcBit(c1(i)) c3(i) == CrcBit(c2(i))
           c4(i) == CrcBit(c3(i)) c5(i) == CrcBit(c4(i)) c6(i) == CrcBit(c5(i))
           c7(i) == CrcBit(c6(i)) c8(i) == CrcBit(c7(i))
<1>1. ASSUME NEW i \in Byte PROVE CRC_TABLE[i] = c8(i)
  BY Zenon DEF CRC_TABLE, Byte
<1>2. ASSUME NEW i \in Byte
      PROVE  /\ i \in Word /\ c1(i) \in Word /\ c2(i) \in Word /\ c3(i) \in Word /\ c4(i) \in Word
             /\ c5(i) \in Word /\ c6(i) \in Word /\ c7(i) \in Word /\ c8(i) \in Word
  <2>1. i \in Word
    BY ByteIsWord
  <2>2. \A c \in Word : CrcBit(c) \in Word
    BY CrcBitIs
  <2>3. QED
    BY <2>1, <2>2, Zenon
<1>3. ASSUME NEW i \in Byte, NEW j \in Byte, Hi(c8(i)) = Hi(c8(j)) PROVE i = j
  <2>1. Alike(c8(i), c8(j), 1, 256)
    <3> DEFINE v == c8(i)
               w == c8(j)
    <3>1. v \in Word /\ w \in Word /\ Hi(v) = Hi(w)
      BY <1>2, <1>3, Zenon
    <3> HIDE DEF v, w
    <3>2. v \in Int /\ 0 <= v /\ v <= 65535 /\ w \in Int /\ 0 <= w /\ w <= 65535
      BY <3>1, WordBounds
    <3>3. v % 1 = w % 1 /\ v \div 256 = w \div 256
      BY <3>1, <3>2, Z3 DEF Hi
    <3>4. QED
      BY <3>3, Zenon DEF Alike, v, w
  <2> HIDE DEF c1, c2, c3, c4, c5, c6, c7, c8
  <2>2. Alike(c7(i), c7(j), 2, 512)
    BY <1>2, <2>1, AlikeBack DEF c8
  <2>3. Alike(c6(i), c6(j), 4, 1024)
    BY <1>2, <2>2, AlikeBack DEF c7
  <2>4. Alike(c5(i), c5(j), 8, 2048)
    BY <1>2, <2>3, AlikeBack DEF c6
  <2>5. Alike(c4(i), c4(j), 16, 4096)
    BY <1>2, <2>4, AlikeBack DEF c5
  <2>6. Alike(c3(i), c3(j), 32, 8192)
    BY <1>2, <2>5, AlikeBack DEF c4
  <2>7. Alike(c2(i), c2(j), 64, 16384)
    BY <1>2, <2>6, AlikeBack DEF c3
  <2>8. Alike(c1(i), c1(j), 128, 32768)
    BY <1>2, <2>7, AlikeBack DEF c2
  <2>9. Alike(i, j, 256, 65536)
    BY <1>2, <2>8, AlikeBack DEF c1
  <2>10. i % 256 = j % 256
    BY <2>9 DEF Alike
  <2>11. QED
    BY <2>10, Z3 DEF Byte
<1> HIDE DEF c1, c2, c3, c4, c5, c6, c7, c8
<1>4. \A i \in Byte : CRC_TABLE[i] \in Word
  BY <1>1, <1>2, Zenon
<1>5. \A i, j \in Byte : Hi(CRC_TABLE[i]) = Hi(CRC_TABLE[j]) => i = j
  BY <1>1, <1>3, Zenon
<1>6. QED
  BY <1>4, <1>5

LEMMA HighAndLow ==
  ASSUME NEW crc \in Word
  PROVE  /\ crc \div 256 \in Byte /\ crc % 256 \in Byte
         /\ crc = 256 * (crc \div 256) + (crc % 256)
         /\ Hi(crc \div 256) = 0 /\ Lo(crc \div 256) = crc \div 256
<1>1. crc \in Int /\ 0 <= crc /\ crc <= 65535
  BY WordBounds
<1> DEFINE h == crc \div 256
           l == crc % 256
<1>2. h \in Int /\ 0 <= h /\ h <= 255
  BY <1>1, Z3
<1>3. l \in Int /\ 0 <= l /\ l <= 255 /\ crc = 256 * h + l
  BY <1>1, Z3
<1> HIDE DEF h, l
<1>4. h \div 256 = 0 /\ 0 % 256 = 0 /\ h % 256 = h
  BY <1>2, Z3
<1>5. h \in Byte /\ l \in Byte
  BY <1>2, <1>3, Z3 DEF Byte
<1>6. Hi(h) = 0 /\ Lo(h) = h
  BY <1>4, Z3 DEF Hi, Lo
<1>7. QED
  BY <1>1, <1>3, <1>5, <1>6 DEF h, l

LEMMA CrcByteIs ==
  ASSUME NEW crc \in Word, NEW b \in Byte
  PROVE  CrcByte(crc, b) \in Word
<1>1. crc \div 256 \in Word /\ XorByte(crc % 256, b) \in Byte
  BY HighAndLow, ByteIsWord, XorIsByte
<1>2. CRC_TABLE[XorByte(crc % 256, b)] \in Word
  BY <1>1, TableIs
<1>3. QED
  BY <1>1, <1>2, XorIsWord DEF CrcByte

\* What can be told from the checksum of the step before and of the byte.
LEMMA CrcByteBack ==
  ASSUME NEW crc \in Word, NEW b \in Byte, NEW crc2 \in Word, NEW b2 \in Byte,
         CrcByte(crc, b) = CrcByte(crc2, b2)
  PROVE  crc \div 256 = crc2 \div 256 /\ XorByte(crc % 256, b) = XorByte(crc2 % 256, b2)
<1> DEFINE h == crc \div 256
           k == XorByte(crc % 256, b)
           t == CRC_TABLE[k]
           h2 == crc2 \div 256
           k2 == XorByte(crc2 % 256, b2)
           t2 == CRC_TABLE[k2]
<1>1. /\ h \in Byte /\ h \in Word /\ k \in Byte /\ Hi(h) = 0 /\ Lo(h) = h
      /\ h2 \in Byte /\ h2 \in Word /\ k2 \in Byte /\ Hi(h2) = 0 /\ Lo(h2) = h2
  BY HighAndLow, ByteIsWord, XorIsByte
<1>2. Xor(h, t) = Xor(h2, t2)
  BY DEF CrcByte
<1> HIDE DEF h, k, h2, k2
<1>3. t \in Word /\ t2 \in Word
  BY <1>1, TableIs
<1>4. Hi(t) \in Byte /\ Lo(t) \in Byte /\ Hi(t2) \in Byte /\ Lo(t2) \in Byte /\ 0 \in Byte
  BY <1>3, HalvesOfWord DEF Byte
<1>5. k = k2
  <2>1. XorByte(0, Hi(t)) = XorByte(0, Hi(t2))
    BY <1>1, <1>2, <1>3, XorIsWord
  <2>2. Hi(t) = Hi(t2)
    BY <1>4, <2>1, XorInjective
  <2>3. QED
    BY <1>1, <2>2, TableIs
<1>6. h = h2
  <2>1. XorByte(h, Lo(t)) = XorByte(h2, Lo(t))
    BY <1>1, <1>2, <1>3, <1>5, XorIsWord
  <2>2. XorByte(Lo(t), h) = XorByte(Lo(t), h2)
    BY <1>1, <1>4, <2>1, XorSym
  <2>3. QED
    BY <1>1, <1>4, <2>2, XorInjective
<1>7. QED
  BY <1>5, <1>6 DEF h, k, h2, k2

\* A different byte gives a different checksum.
LEMMA CrcSeesByte ==
  ASSUME NEW crc \in Word, NEW b \in Byte, NEW b2 \in Byte, b # b2
  PROVE  CrcByte(crc, b) # CrcByte(crc, b2)
<1>1. crc % 256 \in Byte
  BY HighAndLow
<1>2. QED
  BY <1>1, CrcByteBack, XorInjective

\* A checksum that differs stays different.
LEMMA CrcStaysDifferent ==
  ASSUME NEW crc \in Word, NEW crc2 \in Word, NEW b \in Byte, crc # crc2
  PROVE  CrcByte(crc, b) # CrcByte(crc2, b)
<1> SUFFICES ASSUME CrcByte(crc, b) = CrcByte(crc2, b) PROVE FALSE
  OBVIOUS
<1> DEFINE l == crc % 256
           l2 == crc2 % 256
<1>1. crc \div 256 = crc2 \div 256 /\ XorByte(l, b) = XorByte(l2, b)
  BY CrcByteBack
<1>2. l \in Byte /\ l2 \in Byte
  BY HighAndLow
<1>3. l = l2
  <2> HIDE DEF l, l2
  <2>1. XorByte(b, l) = XorByte(b, l2)
    BY <1>1, <1>2, XorSym
  <2>2. QED
    BY <1>2, <2>1, XorInjective
<1>4. crc = 256 * (crc \div 256) + l /\ crc2 = 256 * (crc2 \div 256) + l2
  <2>1. crc \in Int /\ crc2 \in Int
    BY WordBounds
  <2>2. QED
    BY <2>1, HighAndLow
<1> HIDE DEF l, l2
<1>5. QED
  BY <1>1, <1>3, <1>4

----------------------------------------------------------------------------
(* Induction *)

LEMMA LeastExists ==
  ASSUME NEW S \in SUBSET Nat, S # {}
  PROVE  \E n \in S : \A m \in S : n <= m
<1>1. PICK n \in S : \A m \in S : ~(<<m, n>> \in OpToRel(<, Nat))
  BY NatLessThanWellFounded, WFMin
<1>2. ASSUME NEW m \in S PROVE n <= m
  <2>1. m \in Nat /\ n \in Nat /\ ~(m < n)
    BY <1>1 DEF OpToRel
  <2>2. QED
    BY <2>1
<1>3. QED
  BY <1>2

\* A set that holds a number when it holds the smaller ones holds all of them.
LEMMA AllNumbers ==
  ASSUME NEW S, \A n \in Nat : (\A m \in Nat : m < n => m \in S) => n \in S
  PROVE  Nat \subseteq S
<1> SUFFICES ASSUME ~(Nat \subseteq S) PROVE FALSE
  OBVIOUS
<1> DEFINE T == Nat \ S
<1>1. T \in SUBSET Nat /\ T # {}
  OBVIOUS
<1>2. PICK n \in T : \A m \in T : n <= m
  BY <1>1, LeastExists
<1>3. ASSUME NEW m \in Nat, m < n PROVE m \in S
  BY <1>2, <1>3
<1>4. QED
  BY <1>2, <1>3

----------------------------------------------------------------------------
(* The RTU checksum of a sequence *)

\* f holds the checksum before byte i and after each of the bytes i..j.
CrcRun(data, f, i, j) ==
  f \in [(i - 1)..j -> Word] /\ \A k \in i..j : f[k] = CrcByte(f[k - 1], data[k])

LEMMA RunExists ==
  ASSUME NEW data \in Seq(Byte), NEW c \in Word, NEW i \in 1..(Len(data) + 1),
         NEW j \in (i - 1)..Len(data)
  PROVE  \E f : CrcRun(data, f, i, j) /\ f[i - 1] = c
<1> DEFINE n == Len(data)
           S == {m \in Nat : i - 1 + m <= n => \E f : CrcRun(data, f, i, i - 1 + m) /\ f[i - 1] = c}
<1>1. n \in Nat /\ i \in Nat /\ 1 <= i /\ i <= n + 1
  OBVIOUS
<1>2. ASSUME NEW k \in 1..n PROVE data[k] \in Byte
  OBVIOUS
<1> HIDE DEF n
<1>3. ASSUME NEW m \in Nat, \A l \in Nat : l < m => l \in S PROVE m \in S
  <2>1. CASE m = 0
    <3> DEFINE f == [k \in (i - 1)..(i - 1) |-> c]
    <3>1. CrcRun(data, f, i, i - 1 + 0) /\ f[i - 1] = c
      BY <1>1 DEF CrcRun
    <3> HIDE DEF f
    <3>2. QED
      BY <2>1, <3>1
  <2>2. CASE m # 0 /\ i - 1 + m <= n
    <3>1. m - 1 \in Nat /\ m - 1 < m /\ i - 1 + (m - 1) <= n
      BY <1>1, <2>2
    <3>2. PICK f : CrcRun(data, f, i, i - 1 + (m - 1)) /\ f[i - 1] = c
      BY <1>3, <3>1
    <3> DEFINE e == i - 1 + m
    <3>3. e \in 1..n /\ e = i - 1 + m /\ i - 1 + (m - 1) = e - 1 /\ i - 1 <= e - 1
      BY <1>1, <2>2
    <3> HIDE DEF e
    <3> DEFINE g == [k \in (i - 1)..e |-> IF k = e THEN CrcByte(f[e - 1], data[e]) ELSE f[k]]
    <3>4. f \in [(i - 1)..(e - 1) -> Word] /\ \A k \in i..(e - 1) : f[k] = CrcByte(f[k - 1], data[k])
      BY <3>2, <3>3 DEF CrcRun
    <3>5. CrcByte(f[e - 1], data[e]) \in Word
      BY <1>1, <1>2, <3>3, <3>4, CrcByteIs
    <3>6. g \in [(i - 1)..e -> Word]
      BY <1>1, <3>3, <3>4, <3>5
    <3>7. ASSUME NEW k \in i..e PROVE g[k] = CrcByte(g[k - 1], data[k])
      <4>1. /\ k \in (i - 1)..e /\ k - 1 \in (i - 1)..e /\ k - 1 # e
            /\ e - 1 \in (i - 1)..e /\ e - 1 # e
        BY <1>1, <3>3, <3>7
      <4>2. g[k - 1] = f[k - 1]
        BY <4>1
      <4>3. CASE k = e
        BY <4>1, <4>2, <4>3
      <4>4. CASE k # e
        <5>1. k \in i..(e - 1)
          BY <1>1, <3>3, <3>7, <4>4
        <5>2. g[k] = f[k]
          BY <4>1, <4>4
        <5>3. QED
          BY <3>4, <4>2, <5>1, <5>2
      <4>5. QED
        BY <4>3, <4>4
    <3>8. g[i - 1] = c
      BY <1>1, <3>2, <3>3
    <3> HIDE DEF g
    <3>9. QED
      BY <3>3, <3>6, <3>7, <3>8 DEF CrcRun
  <2>3. QED
    BY <2>1, <2>2
<1>4. Nat \subseteq S
  <2> HIDE DEF S
  <2>1. QED
    BY <1>3, AllNumbers
<1>5. j - (i - 1) \in Nat /\ i - 1 + (j - (i - 1)) = j /\ j <= n
  BY <1>1 DEF n
<1>6. QED
  BY <1>4, <1>5

\* Two runs over the same bytes: from the same checksum to the same one, from
\* different ones to different ones.
LEMMA TwoRuns ==
  ASSUME NEW data \in Seq(Byte), NEW data2 \in Seq(Byte), NEW f, NEW g,
         NEW i \in 1..(Len(data) + 1), NEW j \in (i - 1)..Len(data), Len(data2) = Len(data),
         CrcRun(data, f, i, j), CrcRun(data2, g, i, j), \A k \in i..j : data[k] = data2[k]
  PROVE  /\ f[i - 1] = g[i - 1] => f[j] = g[j]
         /\ f[i - 1] # g[i - 1] => f[j] # g[j]
<1> DEFINE n == Len(data)
           S == {m \in Nat : i - 1 + m <= j => (f[i - 1] = g[i - 1] <=> f[i - 1 + m] = g[i - 1 + m])}
<1>1. n \in Nat /\ i \in Nat /\ 1 <= i /\ j \in Int /\ i - 1 <= j /\ j <= n
  OBVIOUS
<1>2. ASSUME NEW k \in 1..n PROVE data[k] \in Byte
  OBVIOUS
<1>3. /\ f \in [(i - 1)..j -> Word] /\ \A k \in i..j : f[k] = CrcByte(f[k - 1], data[k])
      /\ g \in [(i - 1)..j -> Word] /\ \A k \in i..j : g[k] = CrcByte(g[k - 1], data2[k])
  BY DEF CrcRun
<1> HIDE DEF n
<1>4. ASSUME NEW m \in Nat, \A l \in Nat : l < m => l \in S PROVE m \in S
  <2>1. CASE m = 0
    BY <1>1, <2>1
  <2>2. CASE m # 0 /\ i - 1 + m <= j
    <3> DEFINE e == i - 1 + m
    <3>1. m - 1 \in Nat /\ m - 1 < m /\ i - 1 + (m - 1) = e - 1 /\ e - 1 <= j
      BY <1>1, <2>2
    <3>2. e \in i..j /\ e \in 1..n /\ e - 1 \in (i - 1)..j
      BY <1>1, <2>2
    <3>3. f[i - 1] = g[i - 1] <=> f[e - 1] = g[e - 1]
      BY <1>4, <3>1
    <3> HIDE DEF e
    <3>4. f[e] = CrcByte(f[e - 1], data[e]) /\ g[e] = CrcByte(g[e - 1], data[e])
      BY <1>3, <3>2
    <3>5. f[e - 1] \in Word /\ g[e - 1] \in Word /\ data[e] \in Byte
      BY <1>2, <1>3, <3>2
    <3>6. f[e - 1] = g[e - 1] <=> f[e] = g[e]
      BY <3>4, <3>5, CrcStaysDifferent
    <3>7. f[i - 1] = g[i - 1] <=> f[e] = g[e]
      BY <3>3, <3>6
    <3>8. QED
      BY <3>7 DEF e
  <2>3. QED
    BY <2>1, <2>2
<1>5. Nat \subseteq S
  <2> HIDE DEF S
  <2>1. QED
    BY <1>4, AllNumbers
<1>6. j - (i - 1) \in Nat /\ i - 1 + (j - (i - 1)) = j
  BY <1>1
<1> DEFINE d == j - (i - 1)
<1>7. f[i - 1] = g[i - 1] <=> f[i - 1 + d] = g[i - 1 + d]
  <2>1. d \in Nat /\ i - 1 + d <= j
    BY <1>1, <1>6
  <2> HIDE DEF d
  <2>2. d \in S
    BY <1>5, <2>1, Zenon
  <2>3. QED
    BY <2>1, <2>2
<1>8. QED
  BY <1>6, <1>7

\* A part of a run is a run.
LEMMA PartOfRun ==
  ASSUME NEW data, NEW f, NEW i \in Nat \ {0}, NEW j \in Nat, i - 1 <= j, CrcRun(data, f, i, j),
         NEW a \in i..(j + 1), NEW b \in (a - 1)..j
  PROVE  LET g == [k \in (a - 1)..b |-> f[k]]
         IN CrcRun(data, g, a, b) /\ g[a - 1] = f[a - 1] /\ g[b] = f[b]
<1> DEFINE g == [k \in (a - 1)..b |-> f[k]]
<1>1. f \in [(i - 1)..j -> Word] /\ \A k \in i..j : f[k] = CrcByte(f[k - 1], data[k])
  BY DEF CrcRun
<1>2. a \in Int /\ b \in Int /\ i <= a /\ a - 1 <= b /\ b <= j
  OBVIOUS
<1>3. \A k \in (a - 1)..b : k \in (i - 1)..j /\ g[k] = f[k]
  BY <1>2
<1>4. g \in [(a - 1)..b -> Word]
  BY <1>1, <1>3
<1>5. ASSUME NEW k \in a..b PROVE g[k] = CrcByte(g[k - 1], data[k])
  <2>1. k \in i..j /\ k \in (a - 1)..b /\ k - 1 \in (a - 1)..b
    BY <1>2, <1>5
  <2>2. QED
    BY <1>1, <1>3, <2>1
<1>6. a - 1 \in (a - 1)..b /\ b \in (a - 1)..b
  BY <1>2
<1>7. QED
  BY <1>3, <1>4, <1>5, <1>6 DEF CrcRun

\* The checksum c with the bytes i..j taken in.
Crc(data, c, i, j) == CHOOSE v : \E f : CrcRun(data, f, i, j) /\ f[i - 1] = c /\ f[j] = v

LEMMA CrcOfRun ==
  ASSUME NEW data \in Seq(Byte), NEW f, NEW i \in 1..(Len(data) + 1),
         NEW j \in (i - 1)..Len(data), CrcRun(data, f, i, j)
  PROVE  Crc(data, f[i - 1], i, j) = f[j] /\ f[j] \in Word
<1> DEFINE P(v) == \E g : CrcRun(data, g, i, j) /\ g[i - 1] = f[i - 1] /\ g[j] = v
<1>1. P(f[j])
  OBVIOUS
<1>2. ASSUME NEW v, P(v) PROVE v = f[j]
  BY <1>2, TwoRuns
<1>3. Crc(data, f[i - 1], i, j) = CHOOSE v : P(v)
  BY DEF Crc
<1>4. (CHOOSE v : P(v)) = f[j]
  <2> HIDE DEF P
  <2>1. QED
    BY <1>1, <1>2
<1>5. f[j] \in Word
  BY DEF CrcRun
<1>6. QED
  BY <1>3, <1>4, <1>5

LEMMA CrcOfNothing ==
  ASSUME NEW data \in Seq(Byte), NEW c \in Word, NEW i \in 1..(Len(data) + 1)
  PROVE  Crc(data, c, i, i - 1) = c
<1>1. i - 1 \in (i - 1)..Len(data)
  OBVIOUS
<1>2. PICK f : CrcRun(data, f, i, i - 1) /\ f[i - 1] = c
  BY <1>1, RunExists
<1>3. QED
  BY <1>1, <1>2, CrcOfRun

LEMMA CrcOfOne ==
  ASSUME NEW data \in Seq(Byte), NEW c \in Word, NEW i \in 1..Len(data)
  PROVE  Crc(data, c, i, i) = CrcByte(c, data[i])
<1>1. i \in 1..(Len(data) + 1) /\ i \in (i - 1)..Len(data) /\ i \in i..i
  OBVIOUS
<1>2. PICK f : CrcRun(data, f, i, i) /\ f[i - 1] = c
  BY <1>1, RunExists
<1>3. f[i] = CrcByte(f[i - 1], data[i])
  BY <1>1, <1>2 DEF CrcRun
<1>4. QED
  BY <1>1, <1>2, <1>3, CrcOfRun

\* The bytes taken in in two parts.
LEMMA CrcOfParts ==
  ASSUME NEW data \in Seq(Byte), NEW c \in Word, NEW i \in 1..(Len(data) + 1),
         NEW j \in (i - 1)..Len(data), NEW m \in (i - 1)..j
  PROVE  /\ Crc(data, c, i, j) \in Word /\ Crc(data, c, i, m) \in Word
         /\ Crc(data, Crc(data, c, i, m), m + 1, j) = Crc(data, c, i, j)
<1> DEFINE n == Len(data)
<1>1. /\ n \in Nat /\ i \in Nat \ {0} /\ j \in Nat /\ m \in Nat /\ i - 1 <= j /\ j <= n
      /\ i - 1 <= m /\ m <= j
  OBVIOUS
<1>2. PICK f : CrcRun(data, f, i, j) /\ f[i - 1] = c
  BY RunExists
<1> HIDE DEF n
<1> DEFINE g == [k \in (i - 1)..m |-> f[k]]
           h == [k \in (m + 1 - 1)..j |-> f[k]]
<1>3. CrcRun(data, g, i, m) /\ g[i - 1] = f[i - 1] /\ g[m] = f[m]
  <2>1. i \in i..(j + 1) /\ m \in (i - 1)..j
    BY <1>1
  <2>2. QED
    BY <1>1, <1>2, <2>1, PartOfRun
<1>4. CrcRun(data, h, m + 1, j) /\ h[m + 1 - 1] = f[m + 1 - 1] /\ h[j] = f[j]
  <2>1. m + 1 \in i..(j + 1) /\ j \in (m + 1 - 1)..j
    BY <1>1
  <2>2. QED
    BY <1>1, <1>2, <2>1, PartOfRun
<1> HIDE DEF g, h
<1>5. Crc(data, c, i, j) = f[j] /\ f[j] \in Word
  BY <1>2, CrcOfRun
<1>6. Crc(data, c, i, m) = f[m] /\ f[m] \in Word
  <2>1. m \in (i - 1)..Len(data)
    BY <1>1 DEF n
  <2>2. Crc(data, g[i - 1], i, m) = g[m] /\ g[m] \in Word
    BY <1>3, <2>1, CrcOfRun
  <2>3. QED
    BY <1>2, <1>3, <2>2
<1>7. Crc(data, f[m], m + 1, j) = f[j]
  <2>1. m + 1 \in 1..(Len(data) + 1) /\ j \in (m + 1 - 1)..Len(data) /\ m + 1 - 1 = m
    BY <1>1 DEF n
  <2>2. Crc(data, h[m + 1 - 1], m + 1, j) = h[j]
    BY <1>4, <2>1, CrcOfRun
  <2>3. QED
    BY <1>4, <2>1, <2>2
<1>8. QED
  BY <1>5, <1>6, <1>7

\* Up to and including byte j, when there is one.
Taken(data, i, j, c) == IF i > j THEN c ELSE Crc(data, c, i, j)

\* One step of the recursion of CalculateCrc.
Halved(data, f, i, j, c) ==
  IF i > j THEN c
  ELSE IF i = j THEN CrcByte(c, data[i])
  ELSE f[(i + j) \div 2 + 1][j][f[i][(i + j) \div 2][c]]

Middle(i, j) == (i + j) \div 2

LEMMA MiddleIs ==
  ASSUME NEW i \in Int, NEW j \in Int, i < j
  PROVE  Middle(i, j) \in Int /\ i <= Middle(i, j) /\ Middle(i, j) < j
BY Z3 DEF Middle

LEMMA TakenIs ==
  ASSUME NEW data \in Seq(Byte), NEW i \in 1..(Len(data) + 1), NEW j \in 0..Len(data),
         NEW c \in Word
  PROVE  /\ Taken(data, i, j, c) \in Word
         /\ i > j => Taken(data, i, j, c) = c
         /\ i = j => Taken(data, i, j, c) = CrcByte(c, data[i])
         /\ i < j => Taken(data, Middle(i, j) + 1, j, Taken(data, i, Middle(i, j), c))
                     = Taken(data, i, j, c)
<1> DEFINE n == Len(data)
<1>1. n \in Nat /\ i \in Int /\ j \in Int /\ 1 <= i /\ 0 <= j /\ j <= n
  OBVIOUS
<1>2. CASE i > j
  BY <1>1, <1>2 DEF Taken
<1>3. CASE i = j
  <2>1. i \in 1..n /\ ~(i > j) /\ j \in (i - 1)..n /\ j \in (i - 1)..j
    BY <1>1, <1>3
  <2>2. Crc(data, c, i, j) = CrcByte(c, data[i]) /\ Crc(data, c, i, j) \in Word
    BY <1>3, <2>1, CrcOfOne, CrcOfParts
  <2>3. QED
    BY <1>1, <1>3, <2>1, <2>2 DEF Taken
<1>4. CASE i < j
  <2> DEFINE k == Middle(i, j)
  <2>1. k \in Int /\ i <= k /\ k < j
    BY <1>1, <1>4, MiddleIs
  <2> HIDE DEF k
  <2>2. ~(i > j) /\ i # j /\ ~(i > k) /\ ~(k + 1 > j) /\ j \in (i - 1)..n /\ k \in (i - 1)..j
    BY <1>1, <1>4, <2>1
  <2>3. /\ Crc(data, c, i, j) \in Word
        /\ Crc(data, Crc(data, c, i, k), k + 1, j) = Crc(data, c, i, j)
    BY <2>2, CrcOfParts
  <2>4. /\ Taken(data, i, j, c) = Crc(data, c, i, j)
        /\ Taken(data, i, k, c) = Crc(data, c, i, k)
        /\ Taken(data, k + 1, j, Crc(data, c, i, k)) = Crc(data, Crc(data, c, i, k), k + 1, j)
    BY <2>2, Zenon DEF Taken
  <2>5. QED
    BY <2>2, <2>3, <2>4, Zenon DEF k
<1>5. QED
  BY <1>1, <1>2, <1>3, <1>4

\* The recursion has a solution.
LEMMA HalvedSolution ==
  ASSUME NEW data \in Seq(Byte)
  PROVE  LET F == [i \in 1..(Len(data) + 1) |-> [j \in 0..Len(data) |->
                     [c \in Word |-> Taken(data, i, j, c)]]]
         IN F = [i \in 1..(Len(data) + 1) |-> [j \in 0..Len(data) |->
                   [c \in Word |-> Halved(data, F, i, j, c)]]]
<1> DEFINE n == Len(data)
           I == 1..(n + 1)
           J == 0..n
           F == [i \in I |-> [j \in J |-> [c \in Word |-> Taken(data, i, j, c)]]]
<1>1. n \in Nat
  OBVIOUS
<1>2. \A i \in I, j \in J, c \in Word : F[i][j][c] = Taken(data, i, j, c)
  BY Zenon
<1> HIDE DEF F
<1>3. ASSUME NEW i \in I, NEW j \in J, NEW c \in Word
      PROVE  Taken(data, i, j, c) = Halved(data, F, i, j, c)
  <2>1. i \in Int /\ j \in Int /\ 1 <= i /\ j <= n
    BY <1>1
  <2>2. CASE i > j
    BY <2>2, TakenIs DEF Halved
  <2>3. CASE ~(i > j) /\ i = j
    BY <2>3, TakenIs DEF Halved
  <2>4. CASE ~(i > j) /\ i # j
    <3> DEFINE k == Middle(i, j)
    <3>1. i < j
      BY <2>1, <2>4
    <3>2. k \in Int /\ i <= k /\ k < j
      BY <2>1, <3>1, MiddleIs
    <3> HIDE DEF k
    <3>3. k \in J /\ k + 1 \in I
      BY <1>1, <2>1, <3>2
    <3>4. Taken(data, i, k, c) \in Word
      BY <3>3, TakenIs
    <3>5. Taken(data, k + 1, j, Taken(data, i, k, c)) = Taken(data, i, j, c)
      BY <3>1, TakenIs DEF k
    <3>6. F[i][k][c] = Taken(data, i, k, c)
      BY <1>2, <3>3, Zenon
    <3>7. F[k + 1][j][Taken(data, i, k, c)] = Taken(data, k + 1, j, Taken(data, i, k, c))
      BY <1>2, <3>3, <3>4, Zenon
    <3>8. Halved(data, F, i, j, c) = F[k + 1][j][F[i][k][c]]
      BY <2>4, Zenon DEF Halved, k, Middle
    <3>9. QED
      BY <3>5, <3>6, <3>7, <3>8, Zenon
  <2>5. QED
    BY <2>2, <2>3, <2>4
<1> HIDE DEF I, J
<1>4. ASSUME NEW i \in I, NEW j \in J
      PROVE  [c \in Word |-> Taken(data, i, j, c)] = [c \in Word |-> Halved(data, F, i, j, c)]
  BY <1>3, Zenon
<1>5. ASSUME NEW i \in I
      PROVE  [j \in J |-> [c \in Word |-> Taken(data, i, j, c)]]
             = [j \in J |-> [c \in Word |-> Halved(data, F, i, j, c)]]
  BY <1>4, Zenon
<1>6. [i \in I |-> [j \in J |-> [c \in Word |-> Taken(data, i, j, c)]]]
      = [i \in I |-> [j \in J |-> [c \in Word |-> Halved(data, F, i, j, c)]]]
  BY <1>5, Zenon
<1>7. QED
  BY <1>6, Zenon DEF F, I, J

\* calculate_crc takes in the bytes one after the other.
LEMMA CrcIs ==
  ASSUME NEW data \in Seq(Byte)
  PROVE  CalculateCrc(data) = Crc(data, CRC_START, 1, Len(data))
<1> DEFINE n == Len(data)
           I == 1..(n + 1)
           J == 0..n
           Body(f) == [i \in I |-> [j \in J |-> [c \in Word |-> Halved(data, f, i, j, c)]]]
           take == CHOOSE f : f = Body(f)
<1>1. CalculateCrc(data) = take[1][n][CRC_START]
  BY Zenon DEF CalculateCrc, Halved, Word
<1>2. n \in Nat
  OBVIOUS
<1>3. take = Body(take)
  <2>1. \E f : f = Body(f)
    BY HalvedSolution, Zenon
  <2> HIDE DEF Body
  <2>2. QED
    BY <2>1, Zenon
<1> HIDE DEF take, I, J
<1>4. ASSUME NEW c \in Word, NEW i \in I, NEW j \in J
      PROVE  take[i][j][c] = Halved(data, take, i, j, c)
  <2>1. take[i] = [y \in J |-> [z \in Word |-> Halved(data, take, i, y, z)]]
    BY <1>3, Zenon
  <2>2. take[i][j] = [z \in Word |-> Halved(data, take, i, j, z)]
    BY <2>1, Zenon
  <2>3. QED
    BY <2>2, Zenon
<1> HIDE DEF Body
<1> DEFINE V(i, j, c) == Taken(data, i, j, c)
           S == {d \in Nat : \A c \in Word, i \in I, j \in J : j <= i + d => take[i][j][c] = V(i, j, c)}
<1>5. ASSUME NEW d \in Nat, \A e \in Nat : e < d => e \in S PROVE d \in S
  <2>1. ASSUME NEW c \in Word, NEW i \in I, NEW j \in J, j <= i + d
        PROVE  take[i][j][c] = V(i, j, c)
    <3>1. i \in Int /\ j \in Int /\ 1 <= i /\ j <= n
      BY <1>2 DEF I, J
    <3>2. i \in 1..(Len(data) + 1) /\ j \in 0..Len(data)
      BY DEF I, J, n
    <3>3. CASE i > j
      BY <1>4, <3>2, <3>3, TakenIs DEF Halved
    <3>4. CASE ~(i > j) /\ i = j
      BY <1>4, <3>2, <3>4, TakenIs DEF Halved
    <3>5. CASE ~(i > j) /\ i # j
      <4> DEFINE k == Middle(i, j)
      <4>1. i < j
        BY <3>1, <3>5
      <4>2. k \in Int /\ i <= k /\ k < j
        BY <3>1, <4>1, MiddleIs
      <4> HIDE DEF k
      <4>3. k \in 0..Len(data) /\ k + 1 \in 1..(Len(data) + 1) /\ k \in J /\ k + 1 \in I
        BY <1>2, <3>1, <4>2 DEF I, J, n
      <4>4. V(i, k, c) \in Word
        BY <3>2, <4>3, TakenIs
      <4>5. V(k + 1, j, V(i, k, c)) = V(i, j, c)
        BY <3>2, <4>1, TakenIs DEF k
      <4>6. take[i][j][c] = take[k + 1][j][take[i][k][c]]
        <5>1. take[i][j][c] = Halved(data, take, i, j, c)
          BY <1>4, Zenon
        <5>2. QED
          BY <3>5, <5>1, Zenon DEF Halved, k, Middle
      <4> DEFINE d1 == d - 1
      <4>7. d1 \in Nat /\ d1 < d /\ k <= i + d1 /\ j <= k + 1 + d1
        BY <2>1, <3>1, <4>1, <4>2
      <4> HIDE DEF d1
      <4>8. d1 \in S
        BY <1>5, <4>7, Zenon
      <4>9. \A y \in Word, x \in I, z \in J : z <= x + d1 => take[x][z][y] = V(x, z, y)
        BY <4>8, Zenon
      <4>10. take[i][k][c] = V(i, k, c)
        BY <4>3, <4>7, <4>9, Zenon
      <4>11. take[k + 1][j][V(i, k, c)] = V(k + 1, j, V(i, k, c))
        BY <4>3, <4>4, <4>7, <4>9, Zenon
      <4>12. QED
        BY <4>5, <4>6, <4>10, <4>11, Zenon
    <3>6. QED
      BY <3>3, <3>4, <3>5
  <2>2. QED
    BY <2>1
<1>6. n \in S
  <2> HIDE DEF S
  <2>1. QED
    BY <1>2, <1>5, AllNumbers
<1>7. CRC_START \in Word /\ 1 \in I /\ n \in J /\ n <= 1 + n
  BY <1>2 DEF CRC_START, Word, U16_MAX, I, J
<1>8. take[1][n][CRC_START] = V(1, n, CRC_START)
  BY <1>6, <1>7, Zenon
<1>9. V(1, n, CRC_START) = Crc(data, CRC_START, 1, n)
  <2>1. CASE 1 > n
    <3>1. n = 1 - 1 /\ 1 \in 1..(Len(data) + 1)
      BY <1>2, <2>1
    <3>2. Crc(data, CRC_START, 1, 1 - 1) = CRC_START
      BY <1>7, <3>1, CrcOfNothing
    <3>3. QED
      BY <2>1, <3>1, <3>2 DEF Taken
  <2>2. CASE ~(1 > n)
    BY <2>2 DEF Taken
  <2>3. QED
    BY <2>1, <2>2
<1>10. QED
  BY <1>1, <1>8, <1>9, Zenon

\* t is s with another byte at position p.
Damaged(s, t, p) ==
  /\ t \in Seq(Byte) /\ Len(t) = Len(s) /\ p \in 1..Len(s) /\ t[p] # s[p]
  /\ \A k \in 1..Len(s) : k # p => t[k] = s[k]

LEMMA CrcIsWord ==
  ASSUME NEW data \in Seq(Byte)
  PROVE  CalculateCrc(data) \in Word
<1>1. /\ 1 \in 1..(Len(data) + 1) /\ Len(data) \in (1 - 1)..Len(data)
      /\ Len(data) \in (1 - 1)..Len(data)
  OBVIOUS
<1>2. CRC_START \in Word
  BY DEF CRC_START, Word, U16_MAX
<1>3. QED
  BY <1>1, <1>2, CrcIs, CrcOfParts

\* The RTU checksum tells a sequence of bytes, of any length, from every one
\* that differs from it in a single byte: no error of up to eight bits within
\* a byte goes unnoticed by calculate_crc.
THEOREM CrcDetectsDamage ==
  ASSUME NEW s \in Seq(Byte), NEW t, NEW p, Damaged(s, t, p)
  PROVE  CalculateCrc(t) # CalculateCrc(s)
<1> DEFINE n == Len(s)
<1>1. n \in Nat /\ p \in 1..n /\ p \in Int /\ 1 <= p /\ p <= n
  BY DEF Damaged
<1>2. t \in Seq(Byte) /\ Len(t) = n /\ t[p] # s[p] /\ s[p] \in Byte /\ t[p] \in Byte
  BY DEF Damaged
<1>3. \A k \in 1..n : k # p => s[k] = t[k]
  BY DEF Damaged
<1>4. CRC_START \in Word
  BY DEF CRC_START, Word, U16_MAX
<1>5. 1 \in 1..(n + 1) /\ n \in (1 - 1)..n
  BY <1>1
<1>6. PICK f : CrcRun(s, f, 1, n) /\ f[1 - 1] = CRC_START
  BY <1>4, <1>5, RunExists
<1>7. PICK g : CrcRun(t, g, 1, n) /\ g[1 - 1] = CRC_START
  BY <1>2, <1>4, <1>5, RunExists
<1>8. CalculateCrc(s) = f[n]
  BY <1>5, <1>6, CrcIs, CrcOfRun
<1>9. CalculateCrc(t) = g[n]
  BY <1>2, <1>5, <1>7, CrcIs, CrcOfRun
<1> HIDE DEF n
<1>10. f[p - 1] = g[p - 1]
  <2> DEFINE f1 == [k \in (1 - 1)..(p - 1) |-> f[k]]
             g1 == [k \in (1 - 1)..(p - 1) |-> g[k]]
  <2>1. 1 \in 1..(n + 1) /\ p - 1 \in (1 - 1)..n /\ 1 \in Nat \ {0} /\ 1 - 1 <= n
    BY <1>1
  <2>2. CrcRun(s, f1, 1, p - 1) /\ f1[1 - 1] = f[1 - 1] /\ f1[p - 1] = f[p - 1]
    BY <1>1, <1>6, <2>1, PartOfRun
  <2>3. CrcRun(t, g1, 1, p - 1) /\ g1[1 - 1] = g[1 - 1] /\ g1[p - 1] = g[p - 1]
    BY <1>1, <1>7, <2>1, PartOfRun
  <2> HIDE DEF f1, g1
  <2>4. \A k \in 1..(p - 1) : s[k] = t[k]
    BY <1>1, <1>3
  <2>5. 1 \in 1..(Len(s) + 1) /\ p - 1 \in (1 - 1)..Len(s) /\ Len(t) = Len(s)
    BY <1>2, <2>1 DEF n
  <2>6. f1[1 - 1] = g1[1 - 1]
    BY <1>6, <1>7, <2>2, <2>3
  <2>7. f1[p - 1] = g1[p - 1]
    <3> DEFINE a == 1
               b == p - 1
    <3>1. /\ a \in 1..(Len(s) + 1) /\ b \in (a - 1)..Len(s) /\ CrcRun(s, f1, a, b)
          /\ CrcRun(t, g1, a, b) /\ f1[a - 1] = g1[a - 1]
      BY <2>2, <2>3, <2>5, <2>6
    <3>2. \A k \in a..b : s[k] = t[k]
      BY <2>4
    <3> HIDE DEF a, b
    <3>3. f1[b] = g1[b]
      <4>1. t \in Seq(Byte) /\ Len(t) = Len(s)
        BY <1>2, <2>5
      <4>2. f1[a - 1] = g1[a - 1] => f1[b] = g1[b]
        BY <3>1, <3>2, <4>1, TwoRuns
      <4>3. QED
        BY <3>1, <4>2
    <3>4. QED
      BY <3>3 DEF b
  <2>8. QED
    BY <2>2, <2>3, <2>7
<1>11. f[p] # g[p]
  <2>1. f[p] = CrcByte(f[p - 1], s[p]) /\ g[p] = CrcByte(g[p - 1], t[p]) /\ f[p - 1] \in Word
    <3>1. p \in 1..n /\ p - 1 \in (1 - 1)..n
      BY <1>1
    <3>2. QED
      BY <1>6, <1>7, <3>1 DEF CrcRun
  <2>2. QED
    BY <1>2, <1>10, <2>1, CrcSeesByte
<1>12. f[n] # g[n]
  <2> DEFINE f1 == [k \in (p + 1 - 1)..n |-> f[k]]
             g1 == [k \in (p + 1 - 1)..n |-> g[k]]
  <2>1. p + 1 \in 1..(n + 1) /\ n \in (p + 1 - 1)..n /\ 1 \in Nat \ {0} /\ 1 - 1 <= n /\ p + 1 - 1 = p
    BY <1>1
  <2>2. CrcRun(s, f1, p + 1, n) /\ f1[p + 1 - 1] = f[p + 1 - 1] /\ f1[n] = f[n]
    BY <1>1, <1>6, <2>1, PartOfRun
  <2>3. CrcRun(t, g1, p + 1, n) /\ g1[p + 1 - 1] = g[p + 1 - 1] /\ g1[n] = g[n]
    BY <1>1, <1>7, <2>1, PartOfRun
  <2> HIDE DEF f1, g1
  <2>4. \A k \in (p + 1)..n : s[k] = t[k]
    BY <1>1, <1>3
  <2>5. p + 1 \in 1..(Len(s) + 1) /\ n \in (p + 1 - 1)..Len(s) /\ Len(t) = Len(s)
    BY <1>2, <2>1 DEF n
  <2>6. f1[p + 1 - 1] # g1[p + 1 - 1]
    BY <1>11, <2>1, <2>2, <2>3
  <2>7. f1[n] # g1[n]
    <3> DEFINE a == p + 1
    <3>1. /\ a \in 1..(Len(s) + 1) /\ n \in (a - 1)..Len(s) /\ CrcRun(s, f1, a, n)
          /\ CrcRun(t, g1, a, n) /\ f1[a - 1] # g1[a - 1]
      BY <1>1, <2>1, <2>2, <2>3, <2>5, <2>6
    <3>2. \A k \in a..n : s[k] = t[k]
      BY <2>4
    <3> HIDE DEF a
    <3>3. t \in Seq(Byte) /\ Len(t) = Len(s)
      BY <1>2, <2>5
    <3>4. f1[a - 1] # g1[a - 1] => f1[n] # g1[n]
      BY <3>1, <3>2, <3>3, TwoRuns
    <3>5. QED
      BY <3>1, <3>4
  <2>8. QED
    BY <2>2, <2>3, <2>7
<1>13. QED
  BY <1>8, <1>9, <1>12 DEF n

----------------------------------------------------------------------------
(* The ASCII checksum of a sequence *)

AddByte(total, b) == (total + b) % 256

\* The sum without what came before.
Difference(a, b) == (a - b) % 256

LEMMA AddByteIs ==
  ASSUME NEW x \in Byte, NEW b \in Byte
  PROVE  AddByte(x, b) \in Byte
<1>1. (x + b) % 256 \in Int /\ 0 <= (x + b) % 256 /\ (x + b) % 256 <= 255
  BY Z3 DEF Byte
<1> DEFINE y == (x + b) % 256
<1> HIDE DEF y
<1>2. y \in Byte
  BY <1>1, Z3 DEF Byte, y
<1>3. QED
  BY <1>2 DEF AddByte, y

LEMMA AddByteSees ==
  ASSUME NEW x \in Byte, NEW b \in Byte, NEW x2 \in Byte, NEW b2 \in Byte,
         AddByte(x, b) = AddByte(x2, b2)
  PROVE  x = x2 <=> b = b2
<1>1. ASSUME NEW u \in Byte, NEW v \in Byte
      PROVE  AddByte(u, v) = IF u + v < 256 THEN u + v ELSE u + v - 256
  BY Z3 DEF AddByte, Byte
<1>2. /\ x \in Int /\ 0 <= x /\ x <= 255 /\ b \in Int /\ 0 <= b /\ b <= 255
      /\ x2 \in Int /\ 0 <= x2 /\ x2 <= 255 /\ b2 \in Int /\ 0 <= b2 /\ b2 <= 255
  BY Z3 DEF Byte
<1>3. (IF x + b < 256 THEN x + b ELSE x + b - 256)
      = (IF x2 + b2 < 256 THEN x2 + b2 ELSE x2 + b2 - 256)
  BY <1>1
<1>4. QED
  BY <1>2, <1>3, Z3

LEMMA Differences ==
  ASSUME NEW x \in Byte, NEW y \in Byte, NEW z \in Byte
  PROVE  /\ (Difference(y, x) + Difference(z, y)) % 256 = Difference(z, x)
         /\ Difference(AddByte(x, y), x) = y
         /\ Difference(x, 0) = x
<1>1. (Difference(y, x) + Difference(z, y)) % 256 = Difference(z, x)
  BY Z3 DEF Difference, Byte
<1>2. Difference(AddByte(x, y), x) = y
  BY Z3 DEF Difference, AddByte, Byte
<1>3. Difference(x, 0) = x
  BY Z3 DEF Difference, Byte
<1>4. QED
  BY <1>1, <1>2, <1>3

\* f holds the sum after each byte.
SumRun(data, f) ==
  /\ f \in [0..Len(data) -> Byte] /\ f[0] = 0
  /\ \A k \in 1..Len(data) : f[k] = AddByte(f[k - 1], data[k])

LEMMA SumRunExists ==
  ASSUME NEW data \in Seq(Byte)
  PROVE  \E f : SumRun(data, f)
<1> DEFINE n == Len(data)
           P(f, m) == /\ f \in [0..m -> Byte] /\ f[0] = 0
                      /\ \A k \in 1..m : f[k] = AddByte(f[k - 1], data[k])
           S == {m \in Nat : m <= n => \E f : P(f, m)}
<1>1. n \in Nat /\ \A k \in 1..n : data[k] \in Byte
  OBVIOUS
<1> HIDE DEF n
<1>2. ASSUME NEW m \in Nat, \A l \in Nat : l < m => l \in S PROVE m \in S
  <2>1. CASE m = 0
    <3> DEFINE f == [k \in 0..0 |-> 0]
    <3>1. f \in [0..0 -> Byte] /\ f[0] = 0
      BY DEF Byte
    <3>2. P(f, 0)
      BY <3>1
    <3> HIDE DEF f
    <3>3. QED
      BY <2>1, <3>2
  <2>2. CASE m # 0 /\ m <= n
    <3>1. m - 1 \in Nat /\ m - 1 < m /\ m - 1 <= n /\ m \in 1..n
      BY <1>1, <2>2
    <3>2. PICK f : P(f, m - 1)
      BY <1>2, <3>1
    <3> DEFINE g == [k \in 0..m |-> IF k = m THEN AddByte(f[m - 1], data[m]) ELSE f[k]]
    <3>3. m - 1 \in 0..(m - 1)
      BY <3>1
    <3>4. f[m - 1] \in Byte /\ data[m] \in Byte
      BY <1>1, <3>1, <3>2, <3>3
    <3>5. AddByte(f[m - 1], data[m]) \in Byte
      BY <3>4, AddByteIs
    <3>6. g \in [0..m -> Byte]
      BY <3>1, <3>2, <3>5
    <3>7. g[0] = 0
      BY <3>1, <3>2
    <3>8. ASSUME NEW k \in 1..m PROVE g[k] = AddByte(g[k - 1], data[k])
      <4>1. k \in 0..m /\ k - 1 \in 0..m /\ k - 1 # m /\ m - 1 \in 0..m /\ m - 1 # m
        BY <3>1, <3>8
      <4>2. g[k - 1] = f[k - 1]
        BY <4>1
      <4>3. CASE k = m
        BY <4>1, <4>2, <4>3
      <4>4. CASE k # m
        <5>1. k \in 1..(m - 1)
          BY <3>1, <3>8, <4>4
        <5>2. g[k] = f[k]
          BY <4>1, <4>4
        <5>3. QED
          BY <3>2, <4>2, <5>1, <5>2
      <4>5. QED
        BY <4>3, <4>4
    <3> HIDE DEF g
    <3>9. QED
      BY <3>6, <3>7, <3>8
  <2>3. QED
    BY <2>1, <2>2
<1>3. n \in S
  <2> HIDE DEF S
  <2>1. QED
    BY <1>1, <1>2, AllNumbers
<1>4. \E f : P(f, n)
  BY <1>1, <1>3
<1>5. QED
  BY <1>4, Zenon DEF SumRun, n

\* The sum of the bytes i..j.
Between(f, i, j) == IF i > j THEN 0 ELSE Difference(f[j], f[i - 1])

LEMMA BetweenIs ==
  ASSUME NEW data \in Seq(Byte), NEW f, SumRun(data, f),
         NEW i \in 1..(Len(data) + 1), NEW j \in 0..Len(data)
  PROVE  /\ i > j => Between(f, i, j) = 0
         /\ i = j => Between(f, i, j) = data[i]
         /\ i < j => (Between(f, i, Middle(i, j)) + Between(f, Middle(i, j) + 1, j)) % 256
                     = Between(f, i, j)
<1> DEFINE n == Len(data)
<1>1. /\ n \in Nat /\ i \in Int /\ j \in Int /\ 1 <= i /\ 0 <= j /\ j <= n
      /\ \A k \in 1..n : data[k] \in Byte
  OBVIOUS
<1>2. /\ \A k \in 0..n : f[k] \in Byte
      /\ \A k \in 1..n : f[k] = AddByte(f[k - 1], data[k])
  BY DEF SumRun
<1> HIDE DEF n
<1>3. CASE i > j
  BY <1>1, <1>3 DEF Between
<1>4. CASE i = j
  <2>1. i \in 1..n /\ i - 1 \in 0..n /\ ~(i > j)
    BY <1>1, <1>4
  <2>2. f[i] = AddByte(f[i - 1], data[i]) /\ f[i - 1] \in Byte /\ data[i] \in Byte
    BY <1>1, <1>2, <2>1
  <2>3. Difference(f[i], f[i - 1]) = data[i]
    BY <2>2, Differences
  <2>4. QED
    BY <1>1, <1>4, <2>1, <2>3 DEF Between
<1>5. CASE i < j
  <2> DEFINE k == Middle(i, j)
  <2>1. k \in Int /\ i <= k /\ k < j
    BY <1>1, <1>5, MiddleIs
  <2> HIDE DEF k
  <2>2. /\ ~(i > j) /\ i # j /\ ~(i > k) /\ ~(k + 1 > j) /\ (k + 1) - 1 = k
        /\ i - 1 \in 0..n /\ k \in 0..n /\ j \in 0..n
    BY <1>1, <1>5, <2>1
  <2>3. f[i - 1] \in Byte /\ f[k] \in Byte /\ f[j] \in Byte
    BY <1>2, <2>2
  <2>4. (Difference(f[k], f[i - 1]) + Difference(f[j], f[k])) % 256 = Difference(f[j], f[i - 1])
    BY <2>3, Differences
  <2>5. /\ Between(f, i, k) = Difference(f[k], f[i - 1])
        /\ Between(f, k + 1, j) = Difference(f[j], f[k])
        /\ Between(f, i, j) = Difference(f[j], f[i - 1])
    BY <2>2 DEF Between
  <2>6. QED
    BY <2>2, <2>4, <2>5 DEF k
<1>6. QED
  BY <1>1, <1>3, <1>4, <1>5

\* One step of the recursion of CalculateLrc.
Summed(data, f, i, j) ==
  IF i > j THEN 0
  ELSE IF i = j THEN data[i]
  ELSE (f[i][(i + j) \div 2] + f[(i + j) \div 2 + 1][j]) % 256

LEMMA SummedStep ==
  ASSUME NEW data, NEW f, NEW i, NEW j, ~(i > j), i # j
  PROVE  Summed(data, f, i, j) = (f[i][Middle(i, j)] + f[Middle(i, j) + 1][j]) % 256
BY DEF Summed, Middle

LEMMA SummedSolution ==
  ASSUME NEW data \in Seq(Byte), NEW r, SumRun(data, r)
  PROVE  LET F == [i \in 1..(Len(data) + 1) |-> [j \in 0..Len(data) |-> Between(r, i, j)]]
         IN F = [i \in 1..(Len(data) + 1) |-> [j \in 0..Len(data) |-> Summed(data, F, i, j)]]
<1> DEFINE n == Len(data)
           I == 1..(n + 1)
           J == 0..n
           F == [i \in I |-> [j \in J |-> Between(r, i, j)]]
<1>1. n \in Nat
  OBVIOUS
<1>2. \A i \in I, j \in J : F[i][j] = Between(r, i, j)
  BY Zenon
<1> HIDE DEF F
<1>3. ASSUME NEW i \in I, NEW j \in J
      PROVE  Between(r, i, j) = Summed(data, F, i, j)
  <2>1. i \in Int /\ j \in Int /\ 1 <= i /\ j <= n
    BY <1>1
  <2>2. CASE i > j
    BY <2>2, BetweenIs DEF Summed
  <2>3. CASE ~(i > j) /\ i = j
    BY <2>3, BetweenIs DEF Summed
  <2>4. CASE ~(i > j) /\ i # j
    <3> DEFINE k == Middle(i, j)
    <3>1. i < j
      BY <2>1, <2>4
    <3>2. k \in Int /\ i <= k /\ k < j
      BY <2>1, <3>1, MiddleIs
    <3>3. (Between(r, i, k) + Between(r, k + 1, j)) % 256 = Between(r, i, j)
      BY <3>1, BetweenIs
    <3>4. Summed(data, F, i, j) = (F[i][k] + F[k + 1][j]) % 256
      BY <2>4, SummedStep
    <3> HIDE DEF k
    <3>5. k \in J /\ k + 1 \in I
      BY <1>1, <2>1, <3>2
    <3>6. F[i][k] = Between(r, i, k)
      BY <1>2, <3>5, Zenon
    <3>7. F[k + 1][j] = Between(r, k + 1, j)
      BY <1>2, <3>5, Zenon
    <3>8. QED
      BY <3>3, <3>4, <3>6, <3>7
  <2>5. QED
    BY <2>2, <2>3, <2>4
<1> HIDE DEF I, J
<1>4. ASSUME NEW i \in I
      PROVE  [j \in J |-> Between(r, i, j)] = [j \in J |-> Summed(data, F, i, j)]
  BY <1>3, Zenon
<1>5. [i \in I |-> [j \in J |-> Between(r, i, j)]] = [i \in I |-> [j \in J |-> Summed(data, F, i, j)]]
  BY <1>4, Zenon
<1>6. QED
  BY <1>5, Zenon DEF F, I, J

\* calculate_lrc adds up the bytes one after the other.
LEMMA LrcIs ==
  ASSUME NEW data \in Seq(Byte), NEW r, SumRun(data, r)
  PROVE  CalculateLrc(data) = (256 - r[Len(data)]) % 256 /\ r[Len(data)] \in Byte
<1> DEFINE n == Len(data)
           I == 1..(n + 1)
           J == 0..n
           Body(f) == [i \in I |-> [j \in J |-> Summed(data, f, i, j)]]
           sum == CHOOSE f : f = Body(f)
<1>1. CalculateLrc(data) = (256 - sum[1][n]) % 256
  BY DEF CalculateLrc, Summed
<1>2. n \in Nat
  OBVIOUS
<1>3. sum = Body(sum)
  <2>1. \E f : f = Body(f)
    BY SummedSolution, Zenon
  <2> HIDE DEF Body
  <2>2. QED
    BY <2>1, Zenon
<1> HIDE DEF sum, I, J
<1>4. ASSUME NEW i \in I, NEW j \in J
      PROVE  sum[i][j] = Summed(data, sum, i, j)
  <2>1. sum[i] = [y \in J |-> Summed(data, sum, i, y)]
    BY <1>3, Zenon
  <2>2. QED
    BY <2>1, Zenon
<1> HIDE DEF Body
<1> DEFINE S == {d \in Nat : \A i \in I, j \in J : j <= i + d => sum[i][j] = Between(r, i, j)}
<1>5. ASSUME NEW d \in Nat, \A e \in Nat : e < d => e \in S PROVE d \in S
  <2>1. ASSUME NEW i \in I, NEW j \in J, j <= i + d
        PROVE  sum[i][j] = Between(r, i, j)
    <3>1. i \in Int /\ j \in Int /\ 1 <= i /\ j <= n
      BY <1>2 DEF I, J
    <3>2. i \in 1..(Len(data) + 1) /\ j \in 0..Len(data)
      BY DEF I, J, n
    <3>3. CASE i > j
      BY <1>4, <3>2, <3>3, BetweenIs DEF Summed
    <3>4. CASE ~(i > j) /\ i = j
      BY <1>4, <3>2, <3>4, BetweenIs DEF Summed
    <3>5. CASE ~(i > j) /\ i # j
      <4> DEFINE k == Middle(i, j)
      <4>1. i < j
        BY <3>1, <3>5
      <4>2. k \in Int /\ i <= k /\ k < j
        BY <3>1, <4>1, MiddleIs
      <4>3. (Between(r, i, k) + Between(r, k + 1, j)) % 256 = Between(r, i, j)
        BY <3>2, <4>1, BetweenIs
      <4>4. sum[i][j] = (sum[i][k] + sum[k + 1][j]) % 256
        <5>1. sum[i][j] = Summed(data, sum, i, j)
          BY <1>4, Zenon
        <5>2. Summed(data, sum, i, j) = (sum[i][k] + sum[k + 1][j]) % 256
          BY <3>5, SummedStep
        <5>3. QED
          BY <5>1, <5>2
      <4> HIDE DEF k
      <4>5. k \in J /\ k + 1 \in I
        BY <1>2, <3>1, <4>2 DEF I, J, n
      <4> DEFINE d1 == d - 1
      <4>6. d1 \in Nat /\ d1 < d /\ k <= i + d1 /\ j <= k + 1 + d1
        BY <2>1, <3>1, <4>1, <4>2
      <4> HIDE DEF d1
      <4>7. d1 \in S
        BY <1>5, <4>6, Zenon
      <4>8. \A x \in I, z \in J : z <= x + d1 => sum[x][z] = Between(r, x, z)
        BY <4>7, Zenon
      <4>9. sum[i][k] = Between(r, i, k) /\ sum[k + 1][j] = Between(r, k + 1, j)
        BY <4>5, <4>6, <4>8, Zenon
      <4>10. QED
        BY <4>3, <4>4, <4>9
    <3>6. QED
      BY <3>3, <3>4, <3>5
  <2>2. QED
    BY <2>1
<1>6. n \in S
  <2> HIDE DEF S
  <2>1. QED
    BY <1>2, <1>5, AllNumbers
<1>7. 1 \in I /\ n \in J /\ n <= 1 + n
  BY <1>2 DEF I, J
<1>8. sum[1][n] = Between(r, 1, n)
  BY <1>6, <1>7, Zenon
<1>9. r[n] \in Byte /\ r[0] = 0
  BY <1>2 DEF SumRun
<1>10. Between(r, 1, n) = r[n]
  <2>1. CASE 1 > n
    <3>1. n = 0
      BY <1>2, <2>1
    <3>2. QED
      BY <1>9, <2>1, <3>1 DEF Between
  <2>2. CASE ~(1 > n)
    <3>1. Between(r, 1, n) = Difference(r[n], 0)
      BY <1>9, <2>2 DEF Between
    <3>2. Difference(r[n], 0) = r[n]
      BY <1>9, Differences DEF Byte
    <3>3. QED
      BY <3>1, <3>2
  <2>3. QED
    BY <2>1, <2>2
<1>11. QED
  BY <1>1, <1>8, <1>9, <1>10

\* The two's complement of a byte.
Negated(x) == (256 - x) % 256

LEMMA NegatedIs ==
  ASSUME NEW x \in Byte, NEW y \in Byte
  PROVE  /\ Negated(x) \in Byte
         /\ Negated(x) = Negated(y) => x = y
<1> DEFINE u == (256 - x) % 256
<1>1. u \in Int /\ 0 <= u /\ u <= 255
  BY Z3 DEF Byte
<1>2. (256 - x) % 256 = (256 - y) % 256 => x = y
  BY Z3 DEF Byte
<1> HIDE DEF u
<1>3. u \in Byte
  BY <1>1, Z3 DEF Byte
<1>4. Negated(x) \in Byte
  BY <1>3 DEF u, Negated
<1>5. QED
  BY <1>2, <1>4 DEF Negated

LEMMA LrcIsByte ==
  ASSUME NEW data \in Seq(Byte)
  PROVE  CalculateLrc(data) \in Byte
<1>1. PICK r : SumRun(data, r)
  BY SumRunExists
<1>2. QED
  BY <1>1, LrcIs, NegatedIs DEF Negated

\* The ASCII checksum tells a sequence of bytes from every one that differs
\* from it in a single byte (calculate_lrc).
THEOREM LrcDetectsDamage ==
  ASSUME NEW s \in Seq(Byte), NEW t, NEW p, Damaged(s, t, p)
  PROVE  CalculateLrc(t) # CalculateLrc(s)
<1> DEFINE n == Len(s)
<1>1. n \in Nat /\ p \in Nat /\ 1 <= p /\ p <= n
  BY DEF Damaged
<1>2. t \in Seq(Byte) /\ Len(t) = n /\ t[p] # s[p]
  BY DEF Damaged
<1>3. \A k \in 1..n : s[k] \in Byte /\ t[k] \in Byte /\ (k # p => s[k] = t[k])
  BY DEF Damaged
<1>4. PICK f : SumRun(s, f)
  BY SumRunExists
<1>5. PICK g : SumRun(t, g)
  BY <1>2, SumRunExists
<1>6. /\ CalculateLrc(s) = Negated(f[n]) /\ f[n] \in Byte
      /\ CalculateLrc(t) = Negated(g[n]) /\ g[n] \in Byte
  BY <1>2, <1>4, <1>5, LrcIs DEF Negated
<1>7. /\ \A k \in 0..n : f[k] \in Byte /\ g[k] \in Byte
      /\ f[0] = 0 /\ g[0] = 0
      /\ \A k \in 1..n : f[k] = AddByte(f[k - 1], s[k]) /\ g[k] = AddByte(g[k - 1], t[k])
  BY <1>2, <1>4, <1>5 DEF SumRun
<1> HIDE DEF n
<1> DEFINE S == {m \in Nat : m <= n => (f[m] = g[m] <=> m < p)}
<1>8. ASSUME NEW m \in Nat, \A l \in Nat : l < m => l \in S PROVE m \in S
  <2>1. CASE m = 0
    BY <1>1, <1>7, <2>1
  <2>2. CASE m # 0 /\ m <= n
    <3>1. m \in 1..n /\ m - 1 \in Nat /\ m - 1 < m /\ m - 1 <= n /\ m - 1 \in 0..n
      BY <1>1, <2>2
    <3>2. f[m - 1] = g[m - 1] <=> m - 1 < p
      BY <1>8, <3>1
    <3> DEFINE x == f[m - 1]
               y == g[m - 1]
               b == s[m]
               c == t[m]
    <3>3. x \in Byte /\ y \in Byte /\ b \in Byte /\ c \in Byte
      BY <1>3, <1>7, <3>1
    <3>4. f[m] = AddByte(x, b) /\ g[m] = AddByte(y, c)
      BY <1>7, <3>1
    <3>5. b = c <=> m # p
      BY <1>2, <1>3, <3>1
    <3>6. x = y <=> m - 1 < p
      BY <3>2
    <3> HIDE DEF x, y, b, c
    <3>7. AddByte(x, b) = AddByte(y, c) => (x = y <=> b = c)
      BY <3>3, AddByteSees
    <3>8. f[m] = g[m] <=> m < p
      <4>1. CASE m < p
        <5>1. x = y /\ b = c
          BY <1>1, <3>5, <3>6, <4>1
        <5>2. QED
          BY <3>4, <4>1, <5>1
      <4>2. CASE m = p
        <5>1. x = y /\ b # c /\ ~(m < p)
          BY <1>1, <3>5, <3>6, <4>2
        <5>2. QED
          BY <3>4, <3>7, <5>1
      <4>3. CASE m > p
        <5>1. x # y /\ b = c /\ ~(m < p)
          BY <1>1, <3>5, <3>6, <4>3
        <5>2. QED
          BY <3>4, <3>7, <5>1
      <4>4. QED
        BY <1>1, <4>1, <4>2, <4>3
    <3>9. QED
      BY <3>8
  <2>3. QED
    BY <2>1, <2>2
<1>9. Nat \subseteq S
  <2> HIDE DEF S
  <2>1. QED
    BY <1>8, AllNumbers
<1>10. f[n] # g[n]
  BY <1>1, <1>9
<1>11. QED
  BY <1>6, <1>10, NegatedIs

----------------------------------------------------------------------------
(* Frames *)

\* The line changes at least one bit of a byte.
LEMMA XorChanges ==
  ASSUME NEW b \in Byte, NEW m \in Byte, m # 0
  PROVE  XorByte(b, m) \in Byte /\ XorByte(b, m) # b
<1>1. 0 \in Byte
  BY DEF Byte
<1>2. XorByte(b, 0) = b
  BY Z3 DEF XorByte, Byte
<1>3. QED
  BY <1>1, <1>2, XorIsByte, XorInjective

LEMMA RtuFrameIs ==
  ASSUME NEW data \in Seq(Byte)
  PROVE  /\ EncodeRtuFrame(data) \in Seq(Byte)
         /\ Len(EncodeRtuFrame(data)) = Len(data) + 2
         /\ \A i \in 1..Len(data) : EncodeRtuFrame(data)[i] = data[i]
         /\ EncodeRtuFrame(data)[Len(data) + 1] = Lo(CalculateCrc(data))
         /\ EncodeRtuFrame(data)[Len(data) + 2] = Hi(CalculateCrc(data))
         /\ SubSeq(EncodeRtuFrame(data), 1, Len(data)) = data
<1> DEFINE crc == CalculateCrc(data)
           tail == <<Lo(crc), Hi(crc)>>
           buf == data \o tail
<1>1. Lo(crc) \in Byte /\ Hi(crc) \in Byte
  BY CrcIsWord, HalvesOfWord
<1>2. EncodeRtuFrame(data) = buf
  BY DEF EncodeRtuFrame
<1> HIDE DEF crc
<1>3. tail \in Seq(Byte) /\ Len(tail) = 2 /\ tail[1] = Lo(crc) /\ tail[2] = Hi(crc)
  BY <1>1
<1> HIDE DEF tail
<1>4. /\ buf \in Seq(Byte) /\ Len(buf) = Len(data) + 2
      /\ \A i \in 1..Len(data) : buf[i] = data[i]
      /\ buf[Len(data) + 1] = tail[1] /\ buf[Len(data) + 2] = tail[2]
  BY <1>3, Concatenation
<1> HIDE DEF buf
<1>5. SubSeq(buf, 1, Len(data)) = data
  <2>1. Len(data) \in 0..Len(buf)
    BY <1>4
  <2>2. QED
    BY <1>4, <2>1, Cut, SameSequence
<1>6. QED
  BY <1>2, <1>3, <1>4, <1>5 DEF crc

LEMMA RtuSizes == MIN_RTU_FRAME = 5 /\ CRC_SIZE = 2
BY DEF MIN_RTU_FRAME, CRC_SIZE

\* What encode_rtu_frame writes, both parsers take for the frame that it is.
LEMMA RtuFrameBack ==
  ASSUME NEW data \in Seq(Byte)
  PROVE  /\ CrcMatches(EncodeRtuFrame(data)) <=> Len(data) >= 3
         /\ Len(data) >= 1 =>
              /\ RtuFrame(EncodeRtuFrame(data)).slave_id = data[1]
              /\ RtuFrame(EncodeRtuFrame(data)).pdu = SubSeq(data, 2, Len(data))
<1> DEFINE buf == EncodeRtuFrame(data)
           n == Len(buf)
           crc == CalculateCrc(data)
<1>1. /\ buf \in Seq(Byte) /\ n = Len(data) + 2 /\ SubSeq(buf, 1, Len(data)) = data
      /\ \A i \in 1..Len(data) : buf[i] = data[i]
      /\ buf[Len(data) + 1] = Lo(crc) /\ buf[Len(data) + 2] = Hi(crc)
  BY RtuFrameIs
<1>2. U16(Hi(crc), Lo(crc)) = crc
  BY CrcIsWord, HalvesOfWord
<1>3. CalculateCrc(data) = crc
  OBVIOUS
<1> HIDE DEF crc, buf, n
<1>4. n - 1 = Len(data) + 1 /\ n - 2 = Len(data) /\ (n >= 5 <=> Len(data) >= 3)
  BY <1>1
<1>5. U16(buf[n], buf[n - 1]) = CalculateCrc(SubSeq(buf, 1, n - 2))
  BY <1>1, <1>2, <1>3, <1>4
<1>6. CrcMatches(buf) <=> n >= 5
  BY <1>5, RtuSizes DEF CrcMatches, n
<1>7. ASSUME Len(data) >= 1
      PROVE  RtuFrame(buf).slave_id = data[1] /\ RtuFrame(buf).pdu = SubSeq(data, 2, Len(data))
  <2>1. RtuFrame(buf).slave_id = buf[1] /\ RtuFrame(buf).pdu = SubSeq(buf, 2, n - 2)
    BY RtuSizes DEF RtuFrame, n
  <2>2. SubSeq(buf, 2, Len(data)) = SubSeq(data, 2, Len(data))
    <3>1. SubSeq(buf, 1 + 1, 1 + (Len(data) - 1)) = SubSeq(data, 1 + 1, 1 + (Len(data) - 1))
      <4> DEFINE l == Len(data) - 1
      <4>1. l \in Nat /\ 1 + l <= Len(data) /\ 1 + l <= Len(buf) /\ 1 \in Nat
        BY <1>1, <1>7 DEF n
      <4>2. \A i \in 1..l : buf[1 + i] = data[1 + i]
        BY <1>1, <4>1
      <4> HIDE DEF l
      <4>3. /\ SubSeq(buf, 1 + 1, 1 + l) \in Seq(Byte) /\ Len(SubSeq(buf, 1 + 1, 1 + l)) = l
            /\ \A i \in 1..l : SubSeq(buf, 1 + 1, 1 + l)[i] = buf[1 + i]
        BY <1>1, <4>1, Part
      <4>4. /\ SubSeq(data, 1 + 1, 1 + l) \in Seq(Byte) /\ Len(SubSeq(data, 1 + 1, 1 + l)) = l
            /\ \A i \in 1..l : SubSeq(data, 1 + 1, 1 + l)[i] = data[1 + i]
        BY <4>1, Part
      <4>5. SubSeq(buf, 1 + 1, 1 + l) = SubSeq(data, 1 + 1, 1 + l)
        BY <4>2, <4>3, <4>4, SameSequence
      <4>6. QED
        BY <4>5 DEF l
    <3>2. 1 + (Len(data) - 1) = Len(data)
      OBVIOUS
    <3>3. QED
      BY <3>1, <3>2
  <2>3. buf[1] = data[1]
    BY <1>1, <1>7
  <2>4. QED
    BY <1>4, <2>1, <2>2, <2>3
<1>8. QED
  BY <1>4, <1>6, <1>7 DEF buf

\* No RTU frame with a damaged byte is taken for a frame, whether the damage is
\* in the slave id, the PDU or the checksum itself (codec.rs, the comparison in
\* decode_rtu_frame).
THEOREM DamagedRtuFrameRefused ==
  ASSUME NEW data \in Seq(Byte), NEW t, NEW p, Damaged(EncodeRtuFrame(data), t, p)
  PROVE  ~CrcMatches(t)
<1> DEFINE buf == EncodeRtuFrame(data)
           m == Len(data)
           crc == CalculateCrc(data)
<1>1. /\ buf \in Seq(Byte) /\ Len(buf) = m + 2 /\ SubSeq(buf, 1, m) = data
      /\ \A i \in 1..m : buf[i] = data[i]
      /\ buf[m + 1] = Lo(crc) /\ buf[m + 2] = Hi(crc)
  BY RtuFrameIs
<1>2. crc \in Word /\ U16(Hi(crc), Lo(crc)) = crc /\ m \in Nat
  BY CrcIsWord, HalvesOfWord
<1>3. CalculateCrc(data) = crc
  OBVIOUS
<1>4. /\ t \in Seq(Byte) /\ Len(t) = m + 2 /\ p \in 1..(m + 2) /\ t[p] # buf[p]
      /\ \A k \in 1..(m + 2) : k # p => t[k] = buf[k]
  BY <1>1 DEF Damaged
<1> HIDE DEF crc, buf
<1> SUFFICES ASSUME CrcMatches(t) PROVE FALSE
  OBVIOUS
<1>5. U16(t[m + 2], t[m + 1]) = CalculateCrc(SubSeq(t, 1, m))
  <2>1. Len(t) - 1 = m + 1 /\ Len(t) - 2 = m
    BY <1>2, <1>4
  <2>2. QED
    BY <1>4, <2>1 DEF CrcMatches
<1>6. CASE p <= m
  <2>1. m \in 0..Len(t)
    BY <1>2, <1>4
  <2>2. /\ SubSeq(t, 1, m) \in Seq(Byte) /\ Len(SubSeq(t, 1, m)) = m
        /\ \A i \in 1..m : SubSeq(t, 1, m)[i] = t[i]
    BY <1>4, <2>1, Cut
  <2>3. Damaged(data, SubSeq(t, 1, m), p)
    <3> DEFINE u == SubSeq(t, 1, m)
    <3>1. p \in 1..m
      BY <1>2, <1>4, <1>6
    <3>2. u[p] # data[p]
      BY <1>1, <1>4, <2>2, <3>1
    <3>3. \A k \in 1..m : k # p => u[k] = data[k]
      BY <1>1, <1>2, <1>4, <2>2
    <3> HIDE DEF u
    <3>4. u \in Seq(Byte) /\ Len(u) = m
      BY <2>2 DEF u
    <3>5. Damaged(data, u, p)
      BY <3>1, <3>2, <3>3, <3>4 DEF Damaged
    <3>6. QED
      BY <3>5 DEF u
  <2>4. CalculateCrc(SubSeq(t, 1, m)) # CalculateCrc(data)
    BY <2>3, CrcDetectsDamage
  <2>5. t[m + 2] = Hi(crc) /\ t[m + 1] = Lo(crc)
    <3>1. m + 2 # p /\ m + 1 # p /\ m + 2 \in 1..(m + 2) /\ m + 1 \in 1..(m + 2)
      BY <1>2, <1>4, <1>6
    <3>2. QED
      BY <1>1, <1>4, <3>1
  <2>6. QED
    BY <1>2, <1>3, <1>5, <2>4, <2>5
<1>7. CASE p > m
  <2>1. SubSeq(t, 1, m) = data
    <3>1. m \in 0..Len(t)
      BY <1>2, <1>4
    <3>2. /\ SubSeq(t, 1, m) \in Seq(Byte) /\ Len(SubSeq(t, 1, m)) = m
          /\ \A i \in 1..m : SubSeq(t, 1, m)[i] = t[i]
      BY <1>4, <3>1, Cut
    <3>3. \A i \in 1..m : t[i] = data[i]
      BY <1>1, <1>2, <1>4, <1>7
    <3>4. QED
      BY <3>2, <3>3, SameSequence
  <2> DEFINE a == t[m + 2]
             b == t[m + 1]
             h == Hi(crc)
             l == Lo(crc)
  <2>2. U16(a, b) = U16(h, l)
    BY <1>2, <1>3, <1>5, <2>1
  <2>3. /\ m + 1 \in 1..(m + 2) /\ m + 2 \in 1..(m + 2) /\ (p = m + 1 \/ p = m + 2)
        /\ m + 1 # m + 2
    BY <1>2, <1>4, <1>7
  <2>4. a # h \/ b # l
    BY <1>1, <1>4, <2>3
  <2>5. a \in Byte /\ b \in Byte /\ h \in Byte /\ l \in Byte
    BY <1>2, <1>4, <2>3, HalvesOfWord
  <2> HIDE DEF a, b, h, l
  <2>6. a * 256 + b = h * 256 + l
    BY <2>2 DEF U16
  <2>7. a = h /\ b = l
    BY <2>5, <2>6, Z3 DEF Byte
  <2>8. QED
    BY <2>4, <2>7
<1>8. QED
  BY <1>2, <1>4, <1>6, <1>7

\* A hex digit is a character of its own, none that delimits a frame, and is
\* read back as what it stands for.
LEMMA HexDigitIs ==
  ASSUME NEW n \in 0..15
  PROVE  /\ HexDigit(n) \in Byte /\ Nibble(HexDigit(n)) = n
         /\ HexDigit(n) # COLON /\ HexDigit(n) # CR /\ HexDigit(n) # LF
<1>1. CASE n < 10
  <2>1. HexDigit(n) = 48 + n /\ 48 + n \in 48..57 /\ (48 + n) - 48 = n
    BY <1>1 DEF HexDigit
  <2>2. Nibble(48 + n) = n
    BY <2>1, SMT DEF Nibble
  <2>3. QED
    BY <2>1, <2>2 DEF Byte, COLON, CR, LF
<1>2. CASE ~(n < 10)
  <2>1. HexDigit(n) = 55 + n /\ 55 + n \in 65..70 /\ 55 + n \notin 48..57 /\ (55 + n) - 55 = n
    BY <1>2 DEF HexDigit
  <2>2. Nibble(55 + n) = n
    BY <2>1, SMT DEF Nibble
  <2>3. QED
    BY <2>1, <2>2 DEF Byte, COLON, CR, LF
<1>3. QED
  BY <1>1, <1>2

LEMMA NibbleIs ==
  ASSUME NEW c \in Byte
  PROVE  Nibble(c) \in 0..16
<1>1. c \in Int
  BY Z3 DEF Byte
<1>2. CASE c \in 48..57
  BY <1>2 DEF Nibble
<1>3. CASE c \in 65..70
  BY <1>3 DEF Nibble
<1>4. CASE c \in 97..102
  BY <1>4 DEF Nibble
<1>5. CASE c \notin 48..57 /\ c \notin 65..70 /\ c \notin 97..102
  BY <1>5 DEF Nibble
<1>6. QED
  BY <1>2, <1>3, <1>4, <1>5

\* The two halves of a byte.
LEMMA NibblesOfByte ==
  ASSUME NEW b \in Byte
  PROVE  b \div 16 \in 0..15 /\ b % 16 \in 0..15 /\ 16 * (b \div 16) + (b % 16) = b
<1> DEFINE u == b \div 16
           v == b % 16
<1>1. /\ u \in Int /\ 0 <= u /\ u <= 15
      /\ v \in Int /\ 0 <= v /\ v <= 15 /\ 16 * u + v = b
  BY Z3 DEF Byte
<1> HIDE DEF u, v
<1>2. u \in 0..15 /\ v \in 0..15
  BY <1>1
<1>3. QED
  BY <1>1, <1>2 DEF u, v

\* Which half of which byte a digit is.
LEMMA DigitPosition ==
  ASSUME NEW n \in Nat, NEW k \in 1..(2 * n)
  PROVE  \E i \in 1..n : k = 2 * i - 1 \/ k = 2 * i
<1>1. CASE k % 2 = 1
  <2> DEFINE i == (k + 1) \div 2
  <2>1. i \in Int /\ 1 <= i /\ i <= n /\ k = 2 * i - 1
    BY <1>1, Z3
  <2> HIDE DEF i
  <2>2. i \in 1..n
    BY <2>1
  <2>3. QED
    BY <2>1, <2>2
<1>2. CASE k % 2 # 1
  <2> DEFINE i == k \div 2
  <2>1. i \in Int /\ 1 <= i /\ i <= n /\ k = 2 * i
    BY <1>2, Z3
  <2> HIDE DEF i
  <2>2. i \in 1..n
    BY <2>1
  <2>3. QED
    BY <2>1, <2>2
<1>3. QED
  BY <1>1, <1>2

LEMMA HexIs ==
  ASSUME NEW data \in Seq(Byte)
  PROVE  /\ HexEncode(data) \in Seq(Byte) /\ Len(HexEncode(data)) = 2 * Len(data)
         /\ \A i \in 1..Len(data) : /\ HexEncode(data)[2 * i - 1] = HexDigit(data[i] \div 16)
                                    /\ HexEncode(data)[2 * i] = HexDigit(data[i] % 16)
<1> DEFINE n == Len(data)
           x == HexEncode(data)
           G(k) == LET byte == data[(k + 1) \div 2]
                   IN HexDigit(IF k % 2 = 1 THEN byte \div 16 ELSE byte % 16)
<1>1. n \in Nat /\ \A i \in 1..n : data[i] \in Byte
  OBVIOUS
<1>2. x = [k \in 1..(2 * n) |-> G(k)]
  BY DEF HexEncode
<1> HIDE DEF n, x
<1>3. ASSUME NEW i \in 1..n
      PROVE  /\ 2 * i - 1 \in 1..(2 * n) /\ x[2 * i - 1] = HexDigit(data[i] \div 16)
             /\ 2 * i \in 1..(2 * n) /\ x[2 * i] = HexDigit(data[i] % 16)
  <2>1. i \in Int /\ 2 * i - 1 \in 1..(2 * n) /\ 2 * i \in 1..(2 * n)
    BY <1>1, <1>3
  <2>2. G(2 * i - 1) = HexDigit(data[i] \div 16)
    BY <2>1, EvenAndOdd
  <2>3. G(2 * i) = HexDigit(data[i] % 16)
    <3>1. (2 * i) % 2 = 0 /\ (2 * i + 1) \div 2 = i
      BY <2>1, Z3
    <3>2. QED
      BY <3>1
  <2> HIDE DEF G
  <2>4. x[2 * i - 1] = G(2 * i - 1) /\ x[2 * i] = G(2 * i)
    BY <1>2, <2>1
  <2>5. QED
    BY <2>1, <2>2, <2>3, <2>4
<1>4. ASSUME NEW k \in 1..(2 * n) PROVE x[k] \in Byte
  <2>1. PICK i \in 1..n : k = 2 * i - 1 \/ k = 2 * i
    BY <1>1, DigitPosition
  <2>2. HexDigit(data[i] \div 16) \in Byte /\ HexDigit(data[i] % 16) \in Byte
    BY <1>1, NibblesOfByte, HexDigitIs
  <2>3. x[k] = HexDigit(data[i] \div 16) \/ x[k] = HexDigit(data[i] % 16)
    BY <1>3, <2>1
  <2>4. QED
    BY <2>2, <2>3
<1>5. x \in Seq(Byte) /\ Len(x) = 2 * n
  <2> HIDE DEF G
  <2>1. QED
    BY <1>1, <1>2, <1>4
<1>6. QED
  BY <1>3, <1>5 DEF n, x

\* The bytes of a line of hex digits.
LEMMA LineBytesIs ==
  ASSUME NEW full \in Seq(Byte), NEW l \in Seq(Byte), Len(full) >= 3,
         Len(l) = 2 * Len(full) + 1, l[1] = COLON,
         \A i \in 1..Len(full) :
           /\ Nibble(l[2 * i]) \in 0..15 /\ Nibble(l[2 * i + 1]) \in 0..15
           /\ 16 * Nibble(l[2 * i]) + Nibble(l[2 * i + 1]) = full[i]
  PROVE  LineBytes(l) = IF Last(full) = CalculateLrc(Front(full)) THEN {Front(full)} ELSE {}
<1> DEFINE m == Len(full)
           hex == Tail(l)
           bytes == [i \in 1..(Len(hex) \div 2) |-> 16 * Nibble(hex[2 * i - 1]) + Nibble(hex[2 * i])]
<1>1. m \in Nat /\ m >= 3 /\ Len(l) = 2 * m + 1 /\ l # <<>>
  OBVIOUS
<1>2. hex \in Seq(Byte) /\ Len(hex) = 2 * m /\ \A k \in 1..(2 * m) : hex[k] = l[k + 1]
  BY <1>1
<1>3. /\ LineBytes(l) =
           IF /\ l # <<>> /\ l[1] = COLON /\ Len(hex) % 2 = 0 /\ Len(hex) >= 6
              /\ \A i \in 1..Len(hex) : Nibble(hex[i]) < 16
              /\ Last(bytes) = CalculateLrc(Front(bytes))
           THEN {Front(bytes)} ELSE {}
  BY DEF LineBytes
<1> HIDE DEF hex
<1>4. Len(hex) % 2 = 0 /\ Len(hex) \div 2 = m /\ Len(hex) >= 6
  BY <1>1, <1>2, EvenAndOdd
<1>5. ASSUME NEW i \in 1..m
      PROVE  /\ hex[2 * i - 1] = l[2 * i] /\ hex[2 * i] = l[2 * i + 1]
  <2>1. /\ 2 * i - 1 \in 1..(2 * m) /\ 2 * i \in 1..(2 * m) /\ (2 * i - 1) + 1 = 2 * i
    BY <1>1, <1>5
  <2>2. QED
    BY <1>2, <2>1
<1>6. bytes = full
  <2>1. bytes = [i \in 1..m |-> 16 * Nibble(hex[2 * i - 1]) + Nibble(hex[2 * i])]
    BY <1>4
  <2>2. \A i \in 1..m : 16 * Nibble(hex[2 * i - 1]) + Nibble(hex[2 * i]) = full[i]
    BY <1>5
  <2>3. full = [i \in 1..m |-> full[i]]
    OBVIOUS
  <2>4. QED
    BY <2>1, <2>2, <2>3
<1> HIDE DEF bytes
<1>7. ASSUME NEW k \in 1..Len(hex) PROVE Nibble(hex[k]) < 16
  <2>1. PICK i \in 1..m : k = 2 * i - 1 \/ k = 2 * i
    BY <1>1, <1>2, DigitPosition
  <2>2. Nibble(hex[k]) \in 0..15
    BY <1>5, <2>1
  <2>3. \A z \in 0..15 : z < 16
    OBVIOUS
  <2>4. QED
    BY <2>2, <2>3, Zenon
<1>8. QED
  BY <1>1, <1>3, <1>4, <1>6, <1>7

\* A line that does not start with a colon or has another character than a hex
\* digit is none.
LEMMA NoLineBytes ==
  ASSUME NEW l \in Seq(Byte), Len(l) >= 1,
         l[1] # COLON \/ \E k \in 2..Len(l) : Nibble(l[k]) = 16
  PROVE  LineBytes(l) = {}
<1> DEFINE hex == Tail(l)
<1>1. CASE l[1] # COLON
  BY <1>1 DEF LineBytes
<1>2. CASE \E k \in 2..Len(l) : Nibble(l[k]) = 16
  <2>1. PICK k \in 2..Len(l) : Nibble(l[k]) = 16
    BY <1>2
  <2>2. k - 1 \in 1..Len(hex) /\ hex[k - 1] = l[k]
    BY <2>1
  <2>3. ~(\A i \in 1..Len(hex) : Nibble(hex[i]) < 16)
    <3> HIDE DEF hex
    <3>1. Nibble(hex[k - 1]) = 16
      BY <2>1, <2>2
    <3>2. QED
      BY <2>2, <3>1
  <2>4. QED
    BY <2>3 DEF LineBytes
<1>3. QED
  BY <1>1, <1>2

\* A buffer that ends with its only CR LF holds at most one frame.
LEMMA OneLine ==
  ASSUME NEW t \in Seq(Byte), NEW n \in Nat, n >= 3, Len(t) = n, t[n - 1] = CR, t[n] = LF,
         \A i \in 1..(n - 2) : ~(t[i] = CR /\ t[i + 1] = LF)
  PROVE  TryParseAscii(t) = {[slave_id |-> data[1], pdu |-> Tail(data), consumed |-> n] :
                               data \in LineBytes(SubSeq(t, 1, n - 2))}
<1> DEFINE ends == {i \in 1..(Len(t) - 1) : t[i] = CR /\ t[i + 1] = LF}
           start(e) == Max({1} \cup {i + 2 : i \in {j \in ends : j < e}})
           text(e) == SubSeq(t, start(e), e - 1)
           frames == {e \in ends : LineBytes(text(e)) # {}}
           e1 == n - 1
<1>1. TryParseAscii(t) =
        IF frames = {} THEN {}
        ELSE {[slave_id |-> data[1], pdu |-> Tail(data), consumed |-> Min(frames) + 1] :
                data \in LineBytes(text(Min(frames)))}
  BY Zenon DEF TryParseAscii
<1>2. e1 \in Int /\ e1 + 1 = n /\ e1 - 1 = n - 2
  OBVIOUS
<1>3. ends = {e1}
  OBVIOUS
<1> HIDE DEF ends
<1>4. start(e1) = 1
  <2>1. {j \in ends : j < e1} = {}
    BY <1>2, <1>3
  <2>2. {1} \cup {i + 2 : i \in {j \in ends : j < e1}} = {1}
    BY <2>1, Zenon
  <2>3. Max({1}) = 1
    BY DEF Max
  <2>4. QED
    BY <2>2, <2>3, Zenon
<1> HIDE DEF start, e1
<1>5. text(e1) = SubSeq(t, 1, n - 2)
  BY <1>2, <1>4
<1> HIDE DEF text
<1>6. CASE LineBytes(text(e1)) = {}
  <2>1. frames = {}
    BY <1>3, <1>6
  <2>2. QED
    BY <1>1, <1>5, <1>6, <2>1
<1>7. CASE LineBytes(text(e1)) # {}
  <2>1. frames = {e1}
    BY <1>3, <1>7
  <2>2. Min({e1}) = e1
    BY <1>2 DEF Min
  <2> HIDE DEF frames
  <2>3. Min(frames) = e1 /\ frames # {}
    BY <2>1, <2>2
  <2>4. QED
    BY <1>1, <1>2, <1>5, <2>3
<1>8. QED
  BY <1>6, <1>7

\* One without CR LF holds none.
LEMMA NoLine ==
  ASSUME NEW t \in Seq(Byte), \A i \in 1..(Len(t) - 1) : ~(t[i] = CR /\ t[i + 1] = LF)
  PROVE  TryParseAscii(t) = {}
<1>1. {i \in 1..(Len(t) - 1) : t[i] = CR /\ t[i + 1] = LF} = {}
  OBVIOUS
<1>2. QED
  BY <1>1, Zenon DEF TryParseAscii

LEMMA FrontOfBytes ==
  ASSUME NEW s \in Seq(Byte), NEW b \in Byte
  PROVE  /\ Append(s, b) \in Seq(Byte) /\ Len(Append(s, b)) = Len(s) + 1
         /\ Front(Append(s, b)) = s /\ Last(Append(s, b)) = b
         /\ \A i \in 1..Len(s) : Append(s, b)[i] = s[i]
<1> DEFINE a == Append(s, b)
<1>1. a \in Seq(Byte) /\ Len(a) = Len(s) + 1 /\ a[Len(s) + 1] = b /\ \A i \in 1..Len(s) : a[i] = s[i]
  OBVIOUS
<1> HIDE DEF a
<1>2. Len(s) \in Nat /\ Len(a) - 1 = Len(s) /\ Len(s) \in 0..Len(a)
  BY <1>1
<1>3. Front(a) = SubSeq(a, 1, Len(s))
  BY <1>2, Zenon DEF Front
<1>4. SubSeq(a, 1, Len(s)) = s
  BY <1>1, <1>2, Cut, SameSequence
<1>5. Last(a) = b
  BY <1>1 DEF Last
<1>6. QED
  BY <1>1, <1>3, <1>4, <1>5 DEF a

\* The bytes that are written in hex.
WithLrc(data) == Append(data, CalculateLrc(data))

\* Byte i of s is at 2 * i and the position after it.
InHex(s, buf, i) ==
  buf[2 * i] = HexDigit(s[i] \div 16) /\ buf[2 * i + 1] = HexDigit(s[i] % 16)

LEMMA AsciiFrameIs ==
  ASSUME NEW data \in Seq(Byte), NEW m, m = Len(data) + 1, NEW buf, buf = EncodeAsciiFrame(data)
  PROVE  /\ WithLrc(data) \in Seq(Byte) /\ Len(WithLrc(data)) = m
         /\ buf \in Seq(Byte) /\ Len(buf) = 2 * m + 3
         /\ buf[1] = COLON /\ buf[2 * m + 2] = CR /\ buf[2 * m + 3] = LF
         /\ \A i \in 1..m : InHex(WithLrc(data), buf, i)
<1> DEFINE full == WithLrc(data)
           hex == HexEncode(full)
           head == <<COLON>>
           tail == <<CR, LF>>
           body == head \o hex
<1>1. full \in Seq(Byte) /\ Len(full) = m /\ m \in Nat
  BY LrcIsByte, FrontOfBytes DEF WithLrc
<1>2. buf = body \o tail
  BY DEF EncodeAsciiFrame, WithLrc
<1>3. /\ hex \in Seq(Byte) /\ Len(hex) = 2 * m
      /\ \A i \in 1..m : /\ hex[2 * i - 1] = HexDigit(full[i] \div 16)
                         /\ hex[2 * i] = HexDigit(full[i] % 16)
  BY <1>1, HexIs
<1> HIDE DEF hex
<1>4. head \in Seq(Byte) /\ Len(head) = 1 /\ head[1] = COLON
  BY DEF COLON, Byte
<1>5. tail \in Seq(Byte) /\ Len(tail) = 2 /\ tail[1] = CR /\ tail[2] = LF
  BY DEF CR, LF, Byte
<1> HIDE DEF head, tail
<1>6. /\ body \in Seq(Byte) /\ Len(body) = 1 + 2 * m /\ body[1] = COLON
      /\ \A k \in 1..(2 * m) : body[1 + k] = hex[k]
  <2>1. /\ body \in Seq(Byte) /\ Len(body) = Len(head) + Len(hex)
        /\ \A i \in 1..Len(head) : body[i] = head[i]
        /\ \A i \in 1..Len(hex) : body[Len(head) + i] = hex[i]
    BY <1>3, <1>4, Concatenation
  <2> HIDE DEF body
  <2>2. QED
    BY <1>3, <1>4, <2>1
<1> HIDE DEF body
<1>7. /\ buf \in Seq(Byte) /\ Len(buf) = 1 + 2 * m + 2
      /\ \A k \in 1..(1 + 2 * m) : buf[k] = body[k]
      /\ buf[1 + 2 * m + 1] = CR /\ buf[1 + 2 * m + 2] = LF
  <2> DEFINE whole == body \o tail
  <2>1. /\ whole \in Seq(Byte) /\ Len(whole) = Len(body) + Len(tail)
        /\ \A i \in 1..Len(body) : whole[i] = body[i]
        /\ \A i \in 1..Len(tail) : whole[Len(body) + i] = tail[i]
    BY <1>5, <1>6, Concatenation
  <2>2. buf = whole
    BY <1>2
  <2> HIDE DEF whole
  <2>3. 1 \in 1..Len(tail) /\ 2 \in 1..Len(tail)
    BY <1>5
  <2>4. QED
    BY <1>5, <1>6, <2>1, <2>2, <2>3
<1>8. ASSUME NEW i \in 1..m
      PROVE  InHex(full, buf, i)
  <2>1. /\ 2 * i - 1 \in 1..(2 * m) /\ 2 * i \in 1..(2 * m)
        /\ 1 + (2 * i - 1) = 2 * i /\ 1 + 2 * i = 2 * i + 1
        /\ 2 * i \in 1..(1 + 2 * m) /\ 2 * i + 1 \in 1..(1 + 2 * m)
    BY <1>1, <1>8
  <2>2. body[2 * i] = hex[2 * i - 1] /\ body[2 * i + 1] = hex[2 * i]
    BY <1>6, <2>1
  <2>3. QED
    BY <1>3, <1>7, <2>1, <2>2 DEF InHex
<1>9. /\ 1 + 2 * m + 1 = 2 * m + 2 /\ 1 + 2 * m + 2 = 2 * m + 3 /\ 1 \in 1..(1 + 2 * m)
  BY <1>1
<1>10. QED
  BY <1>1, <1>6, <1>7, <1>8, <1>9 DEF full

\* Where CR and LF are in a frame: at its end only.
LEMMA AsciiFrameEnds ==
  ASSUME NEW data \in Seq(Byte), NEW m, m = Len(data) + 1, NEW buf, buf = EncodeAsciiFrame(data)
  PROVE  /\ \A k \in 1..(2 * m + 1) : buf[k] # CR
         /\ \A k \in 1..(2 * m + 2) : buf[k] # LF
<1> DEFINE full == WithLrc(data)
<1>1. /\ full \in Seq(Byte) /\ Len(full) = m
      /\ buf \in Seq(Byte) /\ Len(buf) = 2 * m + 3
      /\ buf[1] = COLON /\ buf[2 * m + 2] = CR /\ buf[2 * m + 3] = LF
      /\ \A i \in 1..m : InHex(full, buf, i)
  BY AsciiFrameIs
<1> HIDE DEF full
<1>2. m \in Nat
  OBVIOUS
<1>3. ASSUME NEW k \in 1..(2 * m + 1) PROVE buf[k] # CR /\ buf[k] # LF
  <2>1. CASE k = 1
    BY <1>1, <2>1 DEF COLON, CR, LF
  <2>2. CASE k # 1
    <3>1. k - 1 \in 1..(2 * m)
      BY <1>2, <1>3, <2>2
    <3>2. PICK i \in 1..m : k - 1 = 2 * i - 1 \/ k - 1 = 2 * i
      BY <1>2, <3>1, DigitPosition
    <3>3. k = 2 * i \/ k = 2 * i + 1
      BY <1>2, <1>3, <3>2
    <3>4. full[i] \in Byte
      BY <1>1
    <3>5. full[i] \div 16 \in 0..15 /\ full[i] % 16 \in 0..15
      BY <3>4, NibblesOfByte
    <3>6. QED
      BY <1>1, <3>3, <3>5, HexDigitIs DEF InHex
  <2>3. QED
    BY <2>1, <2>2
<1>4. CR # LF
  BY DEF CR, LF
<1>5. ASSUME NEW k \in 1..(2 * m + 2) PROVE buf[k] # LF
  <2>1. k \in 1..(2 * m + 1) \/ k = 2 * m + 2
    BY <1>2, <1>5
  <2>2. QED
    BY <1>1, <1>3, <1>4, <2>1
<1>6. QED
  BY <1>3, <1>5

\* The line of an undamaged frame.
LEMMA AsciiLineBack ==
  ASSUME NEW data \in Seq(Byte), NEW m, m = Len(data) + 1, NEW buf, buf = EncodeAsciiFrame(data)
  PROVE  \A l \in Seq(Byte) :
           Len(data) >= 2 /\ Len(l) = 2 * m + 1 /\ (\A k \in 1..(2 * m + 1) : l[k] = buf[k])
             => LineBytes(l) = {data}
<1> DEFINE full == WithLrc(data)
<1>1. /\ full \in Seq(Byte) /\ Len(full) = m
      /\ buf \in Seq(Byte) /\ Len(buf) = 2 * m + 3
      /\ buf[1] = COLON /\ buf[2 * m + 2] = CR /\ buf[2 * m + 3] = LF
      /\ \A i \in 1..m : InHex(full, buf, i)
  BY AsciiFrameIs
<1> HIDE DEF full
<1>2. Front(full) = data /\ Last(full) = CalculateLrc(data)
  BY LrcIsByte, FrontOfBytes DEF WithLrc, full
<1> SUFFICES ASSUME NEW l \in Seq(Byte), Len(data) >= 2, Len(l) = 2 * m + 1,
                    \A k \in 1..(2 * m + 1) : l[k] = buf[k]
             PROVE  LineBytes(l) = {data}
  OBVIOUS
<1>3. m \in Nat /\ m >= 3 /\ 1 \in 1..(2 * m + 1)
  OBVIOUS
<1>4. ASSUME NEW i \in 1..m
      PROVE  /\ Nibble(l[2 * i]) \in 0..15 /\ Nibble(l[2 * i + 1]) \in 0..15
             /\ 16 * Nibble(l[2 * i]) + Nibble(l[2 * i + 1]) = full[i]
  <2>1. 2 * i \in 1..(2 * m + 1) /\ 2 * i + 1 \in 1..(2 * m + 1)
    BY <1>3, <1>4
  <2>2. l[2 * i] = HexDigit(full[i] \div 16) /\ l[2 * i + 1] = HexDigit(full[i] % 16)
    BY <1>1, <2>1 DEF InHex
  <2>3. full[i] \in Byte
    BY <1>1
  <2>4. /\ full[i] \div 16 \in 0..15 /\ full[i] % 16 \in 0..15
        /\ 16 * (full[i] \div 16) + (full[i] % 16) = full[i]
    BY <2>3, NibblesOfByte
  <2>5. Nibble(l[2 * i]) = full[i] \div 16 /\ Nibble(l[2 * i + 1]) = full[i] % 16
    BY <2>2, <2>4, HexDigitIs
  <2>6. QED
    BY <2>4, <2>5
<1>5. LineBytes(l) = IF Last(full) = CalculateLrc(Front(full)) THEN {Front(full)} ELSE {}
  BY <1>1, <1>3, <1>4, LineBytesIs
<1>6. QED
  BY <1>2, <1>5

\* What encode_ascii_frame writes, try_parse_ascii takes for the frame that it is.
LEMMA AsciiFrameBack ==
  ASSUME NEW data \in Seq(Byte), Len(data) >= 2, NEW buf, buf = EncodeAsciiFrame(data)
  PROVE  TryParseAscii(buf)
           = {[slave_id |-> data[1], pdu |-> Tail(data), consumed |-> Len(buf)]}
<1> DEFINE m == Len(data) + 1
           n == 2 * m + 3
           l == SubSeq(buf, 1, n - 2)
<1>1. buf \in Seq(Byte) /\ Len(buf) = 2 * m + 3 /\ buf[2 * m + 2] = CR /\ buf[2 * m + 3] = LF
  BY AsciiFrameIs
<1>2. \A k \in 1..(2 * m + 1) : buf[k] # CR
  BY AsciiFrameEnds
<1>3. m = Len(data) + 1 /\ m \in Nat /\ n \in Nat /\ n >= 3 /\ n - 1 = 2 * m + 2 /\ n - 2 = 2 * m + 1
  OBVIOUS
<1>4. n = 2 * m + 3
  OBVIOUS
<1> HIDE DEF m, n
<1>5. l \in Seq(Byte) /\ Len(l) = 2 * m + 1 /\ \A k \in 1..(2 * m + 1) : l[k] = buf[k]
  <2>1. n - 2 \in 0..Len(buf)
    BY <1>1, <1>3, <1>4
  <2>2. QED
    BY <1>1, <1>3, <2>1, Cut
<1> HIDE DEF l
<1>6. LineBytes(l) = {data}
  BY <1>3, <1>5, AsciiLineBack
<1>7. TryParseAscii(buf) = {[slave_id |-> d[1], pdu |-> Tail(d), consumed |-> n] :
                              d \in LineBytes(SubSeq(buf, 1, n - 2))}
  <2>1. \A i \in 1..(n - 2) : ~(buf[i] = CR /\ buf[i + 1] = LF)
    BY <1>2, <1>3
  <2>2. buf[n - 1] = CR /\ buf[n] = LF /\ Len(buf) = n
    BY <1>1, <1>3, <1>4
  <2>3. QED
    BY <1>1, <1>3, <2>1, <2>2, OneLine
<1>8. LineBytes(SubSeq(buf, 1, n - 2)) = {data}
  BY <1>6 DEF l
<1>9. QED
  BY <1>1, <1>4, <1>7, <1>8, Zenon

LEMMA WithLrcIs ==
  ASSUME NEW data \in Seq(Byte)
  PROVE  /\ WithLrc(data) \in Seq(Byte) /\ Len(WithLrc(data)) = Len(data) + 1
         /\ Front(WithLrc(data)) = data /\ Last(WithLrc(data)) = CalculateLrc(data)
         /\ \A i \in 1..Len(data) : WithLrc(data)[i] = data[i]
         /\ WithLrc(data)[Len(data) + 1] = CalculateLrc(data)
<1>1. CalculateLrc(data) \in Byte
  BY LrcIsByte
<1> DEFINE b == CalculateLrc(data)
<1> HIDE DEF b
<1>2. b \in Byte
  BY <1>1 DEF b
<1>3. Append(data, b)[Len(data) + 1] = b
  OBVIOUS
<1>4. QED
  BY <1>2, <1>3, FrontOfBytes DEF WithLrc, b

\* Bytes of which one is damaged do not end with their checksum.
LEMMA LrcRefuses ==
  ASSUME NEW data \in Seq(Byte), NEW u, NEW q, Damaged(WithLrc(data), u, q)
  PROVE  Last(u) # CalculateLrc(Front(u))
<1> DEFINE full == WithLrc(data)
           m == Len(data)
           lrc == CalculateLrc(data)
           g == SubSeq(u, 1, m)
<1>1. /\ Len(full) = m + 1 /\ \A i \in 1..m : full[i] = data[i]
      /\ full[m + 1] = lrc /\ m \in Nat
  BY WithLrcIs
<1>2. CalculateLrc(data) = lrc
  OBVIOUS
<1>3. Damaged(full, u, q)
  OBVIOUS
<1> HIDE DEF full, lrc, m
<1>4. /\ u \in Seq(Byte) /\ Len(u) = m + 1 /\ q \in 1..(m + 1) /\ u[q] # full[q]
      /\ \A k \in 1..(m + 1) : k # q => u[k] = full[k]
  BY <1>1, <1>3 DEF Damaged
<1>5. g \in Seq(Byte) /\ Len(g) = m /\ \A i \in 1..m : g[i] = u[i]
  BY <1>1, <1>4, Cut
<1>6. Last(u) = u[m + 1] /\ Front(u) = g
  <2>1. (m + 1) - 1 = m
    BY <1>1
  <2>2. QED
    BY <1>4, <2>1 DEF Last, Front
<1> HIDE DEF g
<1>7. CASE q = m + 1
  <2>1. \A i \in 1..m : g[i] = data[i]
    BY <1>1, <1>4, <1>5, <1>7
  <2>2. g = data
    BY <1>5, <2>1, SameSequence DEF m
  <2>3. u[m + 1] # lrc
    BY <1>1, <1>4, <1>7
  <2>4. QED
    BY <1>2, <1>6, <2>2, <2>3
<1>8. CASE q # m + 1
  <2>1. q \in 1..m /\ m + 1 \in 1..(m + 1)
    BY <1>1, <1>4, <1>8
  <2>2. u[m + 1] = lrc
    BY <1>1, <1>4, <1>8, <2>1
  <2>3. g[q] # data[q]
    BY <1>1, <1>4, <1>5, <2>1
  <2>4. \A k \in 1..m : k # q => g[k] = data[k]
    BY <1>1, <1>4, <1>5
  <2>5. Damaged(data, g, q)
    BY <1>5, <2>1, <2>3, <2>4 DEF Damaged, m
  <2>6. CalculateLrc(g) # CalculateLrc(data)
    BY <2>5, LrcDetectsDamage
  <2>7. QED
    BY <1>2, <1>6, <2>2, <2>6
<1>9. QED
  BY <1>7, <1>8

\* The line of a frame with a damaged byte: none, or the one it was.
LEMMA DamagedLine ==
  ASSUME NEW data \in Seq(Byte), NEW m, m = Len(data) + 1, NEW buf, buf = EncodeAsciiFrame(data)
  PROVE  \A l \in Seq(Byte), p \in 1..(2 * m + 1) :
           Len(data) >= 2 /\ Len(l) = 2 * m + 1 /\ l[p] # buf[p]
           /\ (\A k \in 1..(2 * m + 1) : k # p => l[k] = buf[k]) => LineBytes(l) \subseteq {data}
<1> DEFINE full == WithLrc(data)
<1>1. /\ full \in Seq(Byte) /\ Len(full) = m
      /\ buf \in Seq(Byte) /\ Len(buf) = 2 * m + 3
      /\ buf[1] = COLON /\ buf[2 * m + 2] = CR /\ buf[2 * m + 3] = LF
      /\ \A i \in 1..m : InHex(full, buf, i)
  BY AsciiFrameIs
<1>2. /\ Front(full) = data /\ Last(full) = CalculateLrc(data)
  BY WithLrcIs
<1>3. ASSUME NEW u, NEW q, Damaged(full, u, q) PROVE Last(u) # CalculateLrc(Front(u))
  BY <1>3, LrcRefuses
<1> HIDE DEF full
<1> SUFFICES ASSUME NEW l \in Seq(Byte), NEW p \in 1..(2 * m + 1), Len(data) >= 2,
                    Len(l) = 2 * m + 1, l[p] # buf[p],
                    \A k \in 1..(2 * m + 1) : k # p => l[k] = buf[k]
             PROVE  LineBytes(l) \subseteq {data}
  OBVIOUS
<1>4. m \in Nat /\ m >= 3 /\ 1 \in 1..(2 * m + 1)
  OBVIOUS
<1>5. \A k \in 1..(2 * m + 1) : l[k] \in Byte
  OBVIOUS
<1>6. CASE p = 1 \/ \E k \in 2..(2 * m + 1) : Nibble(l[k]) = 16
  <2>1. l[1] # COLON \/ \E k \in 2..Len(l) : Nibble(l[k]) = 16
    BY <1>1, <1>6
  <2>2. LineBytes(l) = {}
    BY <1>4, <2>1, NoLineBytes
  <2>3. QED
    BY <2>2
<1>7. CASE p # 1 /\ \A k \in 2..(2 * m + 1) : Nibble(l[k]) # 16
  <2> DEFINE u == [i \in 1..m |-> 16 * Nibble(l[2 * i]) + Nibble(l[2 * i + 1])]
  <2>1. ASSUME NEW i \in 1..m
        PROVE  /\ Nibble(l[2 * i]) \in 0..15 /\ Nibble(l[2 * i + 1]) \in 0..15
               /\ 2 * i \in 1..(2 * m + 1) /\ 2 * i + 1 \in 1..(2 * m + 1)
               /\ 2 * i # 1 /\ 2 * i + 1 # 1
    <3>1. 2 * i \in 2..(2 * m + 1) /\ 2 * i + 1 \in 2..(2 * m + 1)
      BY <1>4, <2>1
    <3>2. 2 * i \in 1..(2 * m + 1) /\ 2 * i + 1 \in 1..(2 * m + 1)
      BY <1>4, <3>1
    <3>3. Nibble(l[2 * i]) \in 0..16 /\ Nibble(l[2 * i + 1]) \in 0..16
      BY <1>5, <3>2, NibbleIs
    <3>4. Nibble(l[2 * i]) # 16 /\ Nibble(l[2 * i + 1]) # 16
      BY <1>7, <3>1
    <3>5. 2 * i # 1 /\ 2 * i + 1 # 1
      BY <3>1
    <3>6. QED
      BY <3>2, <3>3, <3>4, <3>5
  <2>2. ASSUME NEW i \in 1..m PROVE u[i] \in Byte
    <3> DEFINE x == Nibble(l[2 * i])
               y == Nibble(l[2 * i + 1])
    <3>1. u[i] = 16 * x + y /\ x \in 0..15 /\ y \in 0..15
      BY <2>1
    <3> HIDE DEF x, y
    <3>2. 16 * x + y \in Byte
      BY <3>1 DEF Byte
    <3>3. QED
      BY <3>1, <3>2
  <2>3. u \in Seq(Byte) /\ Len(u) = m
    BY <1>4, <2>2
  <2>4. \A i \in 1..m : u[i] = 16 * Nibble(l[2 * i]) + Nibble(l[2 * i + 1])
    OBVIOUS
  <2> HIDE DEF u
  <2>5. l[1] = COLON
    BY <1>1, <1>4, <1>7
  <2>6. LineBytes(l) = IF Last(u) = CalculateLrc(Front(u)) THEN {Front(u)} ELSE {}
    <3>1. \A i \in 1..Len(u) :
            /\ Nibble(l[2 * i]) \in 0..15 /\ Nibble(l[2 * i + 1]) \in 0..15
            /\ 16 * Nibble(l[2 * i]) + Nibble(l[2 * i + 1]) = u[i]
      BY <2>1, <2>3, <2>4
    <3>2. Len(u) >= 3 /\ Len(l) = 2 * Len(u) + 1
      BY <1>4, <2>3
    <3>3. QED
      BY <2>3, <2>5, <3>1, <3>2, LineBytesIs
  <2>7. PICK q \in 1..m : p = 2 * q \/ p = 2 * q + 1
    <3>1. p - 1 \in 1..(2 * m)
      BY <1>4, <1>7
    <3>2. PICK i \in 1..m : p - 1 = 2 * i - 1 \/ p - 1 = 2 * i
      BY <1>4, <3>1, DigitPosition
    <3>3. p = 2 * i \/ p = 2 * i + 1
      BY <1>4, <3>2
    <3>4. QED
      BY <3>3
  <2>8. ASSUME NEW i \in 1..m, i # q PROVE u[i] = full[i]
    <3>1. 2 * i # p /\ 2 * i + 1 # p
      BY <1>4, <2>7, <2>8
    <3>2. l[2 * i] = HexDigit(full[i] \div 16) /\ l[2 * i + 1] = HexDigit(full[i] % 16)
      BY <1>1, <2>1, <3>1 DEF InHex
    <3>3. full[i] \in Byte
      BY <1>1
    <3>4. /\ full[i] \div 16 \in 0..15 /\ full[i] % 16 \in 0..15
          /\ 16 * (full[i] \div 16) + (full[i] % 16) = full[i]
      BY <3>3, NibblesOfByte
    <3>5. Nibble(l[2 * i]) = full[i] \div 16 /\ Nibble(l[2 * i + 1]) = full[i] % 16
      BY <3>2, <3>4, HexDigitIs
    <3>6. QED
      BY <2>4, <3>4, <3>5
  <2>9. CASE u[q] = full[q]
    <3>1. u = full
      BY <1>1, <2>3, <2>8, <2>9, SameSequence
    <3>2. QED
      BY <1>2, <2>6, <3>1
  <2>10. CASE u[q] # full[q]
    <3>1. Damaged(full, u, q)
      BY <1>1, <2>3, <2>7, <2>8, <2>10 DEF Damaged
    <3>2. QED
      BY <1>3, <2>6, <3>1
  <2>11. QED
    BY <2>9, <2>10
<1>8. QED
  BY <1>6, <1>7

\* A damaged ASCII frame is refused or is the frame it was, with a hex digit in
\* the other case: no damage within one character makes another frame of it,
\* whether it is in the delimiters, the digits or the checksum (ascii.rs,
\* try_parse_ascii; codec.rs, decode_ascii_line).
THEOREM DamagedAsciiFrameRefused ==
  ASSUME NEW data \in Seq(Byte), Len(data) >= 2, NEW t, NEW p,
         Damaged(EncodeAsciiFrame(data), t, p)
  PROVE  TryParseAscii(t) \subseteq TryParseAscii(EncodeAsciiFrame(data))
<1> DEFINE buf == EncodeAsciiFrame(data)
           m == Len(data) + 1
           n == 2 * m + 3
           l == SubSeq(t, 1, n - 2)
<1>1. buf \in Seq(Byte) /\ Len(buf) = 2 * m + 3 /\ buf[2 * m + 2] = CR /\ buf[2 * m + 3] = LF
  BY AsciiFrameIs
<1>2. /\ \A k \in 1..(2 * m + 1) : buf[k] # CR
      /\ \A k \in 1..(2 * m + 2) : buf[k] # LF
  BY AsciiFrameEnds
<1>3. TryParseAscii(buf)
        = {[slave_id |-> data[1], pdu |-> Tail(data), consumed |-> Len(buf)]}
  BY AsciiFrameBack
<1>4. Damaged(buf, t, p)
  OBVIOUS
<1>5. \A k \in Seq(Byte), i \in 1..(2 * m + 1) :
           Len(data) >= 2 /\ Len(k) = 2 * m + 1 /\ k[i] # buf[i]
           /\ (\A j \in 1..(2 * m + 1) : j # i => k[j] = buf[j]) => LineBytes(k) \subseteq {data}
  BY DamagedLine
<1>6. m \in Nat /\ n \in Nat /\ n >= 3 /\ n = 2 * m + 3 /\ n - 1 = 2 * m + 2 /\ n - 2 = 2 * m + 1
  OBVIOUS
<1> HIDE DEF buf, m, n
<1>7. /\ t \in Seq(Byte) /\ Len(t) = n /\ p \in 1..n /\ t[p] # buf[p]
      /\ \A k \in 1..n : k # p => t[k] = buf[k]
  BY <1>1, <1>4, <1>6 DEF Damaged
<1>8. CASE p <= n - 2
  <2>1. t[n - 1] = CR /\ t[n] = LF
    <3>1. n - 1 \in 1..n /\ n \in 1..n /\ n - 1 # p /\ n # p
      BY <1>6, <1>7, <1>8
    <3>2. QED
      BY <1>1, <1>6, <1>7, <3>1
  <2>2. ASSUME NEW i \in 1..(n - 2), t[i] = CR, t[i + 1] = LF PROVE FALSE
    <3>1. i \in 1..n /\ i + 1 \in 1..n /\ i \in 1..(2 * m + 1) /\ i + 1 \in 1..(2 * m + 2) /\ i # i + 1
      BY <1>6, <2>2
    <3>2. CASE i = p
      BY <1>2, <1>7, <2>2, <3>1, <3>2
    <3>3. CASE i # p
      BY <1>2, <1>7, <2>2, <3>1, <3>3
    <3>4. QED
      BY <3>2, <3>3
  <2>3. TryParseAscii(t) = {[slave_id |-> d[1], pdu |-> Tail(d), consumed |-> n] :
                              d \in LineBytes(SubSeq(t, 1, n - 2))}
    BY <1>6, <1>7, <2>1, <2>2, OneLine
  <2>4. l \in Seq(Byte) /\ Len(l) = n - 2 /\ \A k \in 1..(n - 2) : l[k] = t[k]
    <3>1. n - 2 \in 0..Len(t)
      BY <1>6, <1>7
    <3>2. QED
      BY <1>7, <3>1, Cut
  <2>5. LineBytes(SubSeq(t, 1, n - 2)) = LineBytes(l)
    OBVIOUS
  <2> HIDE DEF l
  <2>6. LineBytes(l) \subseteq {data}
    <3>1. p \in 1..(2 * m + 1)
      BY <1>6, <1>7, <1>8
    <3>2. Len(l) = 2 * m + 1 /\ l[p] # buf[p]
      BY <1>6, <1>7, <2>4, <3>1
    <3>3. \A k \in 1..(2 * m + 1) : k # p => l[k] = buf[k]
      BY <1>6, <1>7, <2>4
    <3>4. QED
      BY <1>5, <2>4, <3>1, <3>2, <3>3
  <2>7. QED
    BY <1>1, <1>3, <1>6, <2>3, <2>5, <2>6, Zenon DEF buf
<1>9. CASE p > n - 2
  <2>1. ASSUME NEW i \in 1..(Len(t) - 1), t[i] = CR, t[i + 1] = LF PROVE FALSE
    <3>1. i \in 1..n /\ i + 1 \in 1..n /\ i \in 1..(2 * m + 2) /\ p \in {2 * m + 2, 2 * m + 3}
      BY <1>6, <1>7, <1>9, <2>1
    <3>2. CASE i <= 2 * m + 1
      <4>1. i # p /\ i \in 1..(2 * m + 1)
        BY <1>6, <1>7, <1>9, <3>1, <3>2
      <4>2. QED
        BY <1>2, <1>7, <2>1, <3>1, <4>1
    <3>3. CASE i = 2 * m + 2
      <4>1. i + 1 = 2 * m + 3
        BY <1>6, <3>3
      <4>2. QED
        BY <1>1, <1>7, <2>1, <3>1, <3>3, <4>1
    <3>4. QED
      BY <1>6, <3>1, <3>2, <3>3
  <2>2. TryParseAscii(t) = {}
    BY <1>7, <2>1, NoLine
  <2>3. QED
    BY <2>2
<1>10. QED
  BY <1>6, <1>7, <1>8, <1>9

----------------------------------------------------------------------------
(* A PDU with its slave id in a frame, and the frame after the line *)

\* The line holds a frame as it was sent, or with a byte changed.
Crossed(s, t) == t = s \/ \E p : Damaged(s, t, p)

LEMMA HeadAndTail ==
  ASSUME NEW u \in Byte, NEW pdu \in Seq(Byte), NEW data, data = <<u>> \o pdu
  PROVE  /\ data \in Seq(Byte) /\ Len(data) = 1 + Len(pdu) /\ data[1] = u
         /\ \A i \in 1..Len(pdu) : data[1 + i] = pdu[i]
         /\ Tail(data) = pdu /\ SubSeq(data, 2, Len(data)) = pdu
<1> DEFINE h == <<u>>
<1>1. h \in Seq(Byte) /\ Len(h) = 1 /\ h[1] = u /\ data = h \o pdu
  OBVIOUS
<1> HIDE DEF h
<1>2. /\ data \in Seq(Byte) /\ Len(data) = Len(h) + Len(pdu)
      /\ \A i \in 1..Len(h) : data[i] = h[i]
      /\ \A i \in 1..Len(pdu) : data[Len(h) + i] = pdu[i]
  BY <1>1, Concatenation
<1>3. data[1] = u
  BY <1>1, <1>2
<1>4. Tail(data) = pdu
  <2>1. data # <<>> /\ Tail(data) \in Seq(Byte) /\ Len(Tail(data)) = Len(pdu)
    BY <1>1, <1>2
  <2>2. \A i \in 1..Len(pdu) : Tail(data)[i] = pdu[i]
    BY <1>1, <1>2
  <2>3. QED
    BY <2>1, <2>2, SameSequence
<1>5. SubSeq(data, 2, Len(data)) = pdu
  <2>1. Len(h) + 1 = 2 /\ Len(h) + Len(pdu) = Len(data)
    BY <1>1, <1>2
  <2>2. SubSeq(h \o pdu, Len(h) + 1, Len(h) + Len(pdu)) = pdu
    BY <1>1, TailBack
  <2>3. QED
    BY <1>1, <2>1, <2>2
<1>6. QED
  BY <1>1, <1>2, <1>3, <1>4, <1>5

\* An RTU frame that matches its checksum is the one that was sent.
LEMMA RtuAfterLine ==
  ASSUME NEW u \in Byte, NEW pdu \in Seq(Byte), NEW f, f = EncodeRtuFrame(<<u>> \o pdu),
         NEW t, Crossed(f, t)
  PROVE  /\ f \in Seq(Byte) /\ t \in Seq(Byte) /\ Len(f) = 3 + Len(pdu) /\ Len(t) = Len(f)
         /\ CrcMatches(t) => t = f /\ RtuFrame(t).slave_id = u /\ RtuFrame(t).pdu = pdu
         /\ t = f /\ Len(pdu) >= 2 => CrcMatches(t) /\ t[2] = pdu[1]
<1> DEFINE data == <<u>> \o pdu
<1>1. /\ data \in Seq(Byte) /\ Len(data) = 1 + Len(pdu) /\ data[1] = u
      /\ \A i \in 1..Len(pdu) : data[1 + i] = pdu[i]
      /\ SubSeq(data, 2, Len(data)) = pdu
  BY HeadAndTail
<1>2. f = EncodeRtuFrame(data)
  OBVIOUS
<1> HIDE DEF data
<1>3. f \in Seq(Byte) /\ Len(f) = Len(data) + 2 /\ \A i \in 1..Len(data) : f[i] = data[i]
  <2>1. /\ EncodeRtuFrame(data) \in Seq(Byte)
        /\ Len(EncodeRtuFrame(data)) = Len(data) + 2
        /\ \A i \in 1..Len(data) : EncodeRtuFrame(data)[i] = data[i]
    BY <1>1, RtuFrameIs
  <2>2. QED
    BY <1>2, <2>1, Zenon
<1>4. t \in Seq(Byte) /\ Len(t) = Len(f)
  BY <1>3 DEF Crossed, Damaged
<1>5. (\E p : Damaged(f, t, p)) => ~CrcMatches(t)
  BY <1>1, <1>2, DamagedRtuFrameRefused
<1>6. /\ CrcMatches(f) <=> Len(data) >= 3
      /\ RtuFrame(f).slave_id = u /\ RtuFrame(f).pdu = pdu
  <2>1. Len(data) >= 1
    BY <1>1
  <2>2. /\ CrcMatches(EncodeRtuFrame(data)) <=> Len(data) >= 3
        /\ RtuFrame(EncodeRtuFrame(data)).slave_id = data[1]
        /\ RtuFrame(EncodeRtuFrame(data)).pdu = SubSeq(data, 2, Len(data))
    BY <1>1, <2>1, RtuFrameBack
  <2>3. QED
    BY <1>1, <1>2, <2>2, Zenon
<1>7. Len(pdu) >= 2 => f[2] = pdu[1]
  <2>1. ASSUME Len(pdu) >= 2 PROVE f[2] = pdu[1]
    <3>1. 2 \in 1..Len(data) /\ 1 \in 1..Len(pdu) /\ 1 + 1 = 2
      BY <1>1, <2>1
    <3>2. f[2] = data[2]
      BY <1>3, <3>1
    <3>3. data[1 + 1] = pdu[1]
      BY <1>1, <3>1
    <3>4. QED
      BY <3>1, <3>2, <3>3
  <2>2. QED
    BY <2>1
<1>8. Len(f) = 3 + Len(pdu) /\ (Len(pdu) >= 2 => Len(data) >= 3)
  BY <1>1, <1>3
<1>9. QED
  BY <1>3, <1>4, <1>5, <1>6, <1>7, <1>8 DEF Crossed

\* And so is an ASCII frame that is found in the buffer.
LEMMA AsciiAfterLine ==
  ASSUME NEW u \in Byte, NEW pdu \in Seq(Byte), Len(pdu) >= 1,
         NEW f, f = EncodeAsciiFrame(<<u>> \o pdu), NEW t, Crossed(f, t)
  PROVE  /\ f \in Seq(Byte) /\ t \in Seq(Byte)
         /\ TryParseAscii(f) = {[slave_id |-> u, pdu |-> pdu, consumed |-> Len(f)]}
         /\ TryParseAscii(t) \subseteq TryParseAscii(f)
<1> DEFINE data == <<u>> \o pdu
<1>1. /\ data \in Seq(Byte) /\ Len(data) = 1 + Len(pdu) /\ data[1] = u /\ Tail(data) = pdu
  BY HeadAndTail
<1>2. f = EncodeAsciiFrame(data)
  OBVIOUS
<1> HIDE DEF data
<1>3. f \in Seq(Byte)
  BY <1>1, <1>2, AsciiFrameIs
<1>4. t \in Seq(Byte)
  BY <1>3 DEF Crossed, Damaged
<1>5. Len(data) >= 2
  BY <1>1
<1>6. TryParseAscii(f) = {[slave_id |-> u, pdu |-> pdu, consumed |-> Len(f)]}
  BY <1>1, <1>2, <1>5, AsciiFrameBack
<1>7. (\E p : Damaged(f, t, p)) => TryParseAscii(t) \subseteq TryParseAscii(f)
  BY <1>1, <1>2, <1>5, DamagedAsciiFrameRefused
<1>8. QED
  BY <1>3, <1>4, <1>6, <1>7 DEF Crossed

\* What a server makes of a request that has crossed the line: of a damaged one
\* the same or nothing.
LEMMA RequestAfterLine ==
  ASSUME NEW q \in RequestValues, NEW u \in Byte, NEW pr \in Protocols,
         NEW pdu \in EncodeRequest(q), NEW f, f = EncodeFrame(pr, <<u>> \o pdu),
         NEW t, Crossed(f, t)
  PROVE  /\ t \in Seq(Byte)
         /\ \A g \in TryParseServer(pr, t) :
              g.slave_id = u /\ \A r \in Accepted(g) : r = q /\ Legal(q) /\ u # 0
         /\ t = f /\ Legal(q) /\ u # 0 => \E g \in TryParseServer(pr, t) : Accepted(g) # {}
<1>1. pdu \in Seq(Byte) /\ Len(pdu) >= 2
  <2> DEFINE n == FieldCount(q.fc)
             c == CountedOf(q)
  <2>1. pdu \in Seq(Byte) /\ Len(pdu) = 1 + 2 * n + Len(c)
    BY EncodedIs
  <2>2. n \in 2..4
    BY ValueIs, CodeIs
  <2>3. Len(c) \in Nat
    <3>1. Len(PayloadOf(q)) <= 255
      BY EncodedParts
    <3>2. QED
      BY <3>1, CountedIs
  <2> HIDE DEF n, c
  <2>4. QED
    BY <2>1, <2>2, <2>3
<1>2. TryRequest(pdu) = IF Legal(q) THEN {q} ELSE {}
  <2>1. CASE Legal(q)
    <3>1. IsRequest(pdu)
      BY <2>1, AcceptedIffLegal
    <3>2. QED
      BY <2>1, <3>1, DecodedIs
  <2>2. CASE ~Legal(q)
    <3>1. ~IsRequest(pdu)
      BY <2>2, AcceptedIffLegal
    <3>2. QED
      BY <2>2, <3>1 DEF TryRequest
  <2>3. QED
    BY <2>1, <2>2
<1>3. ASSUME NEW g, g.slave_id = u, g.pdu = pdu
      PROVE  Accepted(g) = IF u # 0 /\ Legal(q) THEN {q} ELSE {}
  <2>1. g.pdu # <<>>
    BY <1>1, <1>3
  <2>2. QED
    BY <1>2, <1>3, <2>1 DEF Accepted
<1>4. ASSUME NEW g, g.slave_id = u, g.pdu = pdu
      PROVE  g.slave_id = u /\ \A r \in Accepted(g) : r = q /\ Legal(q) /\ u # 0
  BY <1>3, <1>4
<1>5. CASE pr = "rtu"
  <2>1. f = EncodeRtuFrame(<<u>> \o pdu)
    BY <1>5 DEF EncodeFrame
  <2>2. /\ t \in Seq(Byte)
        /\ CrcMatches(t) => t = f /\ RtuFrame(t).slave_id = u /\ RtuFrame(t).pdu = pdu
        /\ t = f /\ Len(pdu) >= 2 => CrcMatches(t) /\ t[2] = pdu[1]
    BY <1>1, <2>1, RtuAfterLine
  <2>3. TryParseServer(pr, t) = TryParseServerRtu(t)
    BY <1>5 DEF TryParseServer
  <2>4. ASSUME NEW g \in TryParseServer(pr, t) PROVE g.slave_id = u /\ g.pdu = pdu
    <3>1. CrcMatches(t) /\ g = RtuFrame(t)
      BY <2>3, <2>4, Zenon DEF TryParseServerRtu
    <3>2. QED
      BY <2>2, <3>1
  <2>5. ASSUME t = f, Legal(q), u # 0
        PROVE  \E g \in TryParseServer(pr, t) : Accepted(g) # {}
    <3>1. CrcMatches(t) /\ t[2] = pdu[1]
      BY <1>1, <2>2, <2>5
    <3>2. IsKnownFunctionCode(pdu[1])
      BY <2>5, AcceptedIffLegal, RequestCodeKnown
    <3>3. RtuFrame(t) \in TryParseServer(pr, t)
      BY <2>3, <3>1, <3>2 DEF TryParseServerRtu
    <3>4. Accepted(RtuFrame(t)) # {}
      BY <1>3, <2>2, <2>5, <3>1
    <3>5. QED
      BY <3>3, <3>4
  <2>6. QED
    BY <1>4, <2>2, <2>4, <2>5
<1>6. CASE pr # "rtu"
  <2>1. f = EncodeAsciiFrame(<<u>> \o pdu) /\ TryParseServer(pr, t) = TryParseAscii(t)
    BY <1>6 DEF EncodeFrame, TryParseServer
  <2>2. /\ t \in Seq(Byte)
        /\ TryParseAscii(f) = {[slave_id |-> u, pdu |-> pdu, consumed |-> Len(f)]}
        /\ TryParseAscii(t) \subseteq TryParseAscii(f)
    <3>1. Len(pdu) >= 1
      BY <1>1
    <3>2. f = EncodeAsciiFrame(<<u>> \o pdu)
      BY <2>1
    <3>3. /\ f \in Seq(Byte) /\ t \in Seq(Byte)
          /\ TryParseAscii(f) = {[slave_id |-> u, pdu |-> pdu, consumed |-> Len(f)]}
          /\ TryParseAscii(t) \subseteq TryParseAscii(f)
      BY <1>1, <3>1, <3>2, AsciiAfterLine, Zenon
    <3>4. QED
      BY <3>3, Zenon
  <2> DEFINE g1 == [slave_id |-> u, pdu |-> pdu, consumed |-> Len(f)]
  <2>3. g1.slave_id = u /\ g1.pdu = pdu
    OBVIOUS
  <2>4. TryParseAscii(f) = {g1}
    BY <2>2
  <2> HIDE DEF g1
  <2>5. ASSUME NEW g \in TryParseServer(pr, t) PROVE g.slave_id = u /\ g.pdu = pdu
    <3>1. g = g1
      BY <2>1, <2>2, <2>4, <2>5
    <3>2. QED
      BY <2>3, <3>1
  <2>6. ASSUME t = f, Legal(q), u # 0
        PROVE  \E g \in TryParseServer(pr, t) : Accepted(g) # {}
    <3>1. g1 \in TryParseServer(pr, t)
      BY <2>1, <2>4, <2>6
    <3>2. Accepted(g1) = {q}
      BY <1>3, <2>3, <2>6
    <3>3. QED
      BY <3>1, <3>2
  <2>7. QED
    BY <1>4, <2>2, <2>5, <2>6
<1>7. QED
  BY <1>5, <1>6

\* RtuClient encodes Disconnect to nothing: a frame of three bytes, which is none.
LEMMA DisconnectAfterLine ==
  ASSUME NEW u \in Byte, NEW pdu \in Seq(Byte), Len(pdu) = 0,
         NEW f, f = EncodeRtuFrame(<<u>> \o pdu), NEW t, Crossed(f, t)
  PROVE  t \in Seq(Byte) /\ TryParseServer("rtu", t) = {}
<1>1. \A s \in Seq(Byte) : \A g, w : g = EncodeRtuFrame(<<u>> \o s) /\ Crossed(g, w) =>
        w \in Seq(Byte) /\ Len(g) = 3 + Len(s) /\ Len(w) = Len(g)
  BY RtuAfterLine
<1>2. t \in Seq(Byte) /\ Len(f) = 3 + Len(pdu) /\ Len(t) = Len(f)
  BY <1>1, Zenon
<1>3. Len(t) = 3
  BY <1>2
<1>4. ~CrcMatches(t)
  BY <1>3, RtuSizes DEF CrcMatches
<1>5. QED
  BY <1>2, <1>4 DEF TryParseServer, TryParseServerRtu

----------------------------------------------------------------------------
(* What a client makes of a response *)

LEMMA ResponseIs ==
  ASSUME NEW rsp \in ResponseValues
  PROVE  /\ rsp = Response(rsp.fc, rsp.args, rsp.values, rsp.ex)
         /\ rsp.fc \in Byte /\ rsp.args \in Seq(Word) /\ rsp.values \in Seq(Word)
         /\ \/ /\ rsp.args = <<>> /\ rsp.values = <<>>
               /\ \E e \in [custom : BOOLEAN, code : Byte] : rsp.ex = {e}
            \/ /\ rsp.ex = {} /\ rsp.fc \in Codes
               /\ IF ReadsBits(rsp.fc) \/ ReadsRegisters(rsp.fc) THEN rsp.args = <<>>
                  ELSE rsp.values = <<>> /\ Len(rsp.args) = IF rsp.fc = 22 THEN 3 ELSE 2
               /\ rsp.fc = 5 => rsp.args[2] \in Bit
               /\ ReadsBits(rsp.fc) => rsp.values \in Seq(Bit)
BY DEF ResponseValues, Response

LEMMA CodeIsItsRest ==
  ASSUME NEW fc \in Codes
  PROVE  fc % 128 = fc
BY DEF Codes

\* What padding and naming leave as they are.
LEMMA PaddedIs ==
  ASSUME NEW rsp \in ResponseValues
  PROVE  \E fc, vs : /\ Padded(rsp) = Response(fc, rsp.args, vs, rsp.ex)
                     /\ Received(rsp) = Response(fc, rsp.args, vs, NamesOf(rsp.ex))
                     /\ rsp.ex = {} => fc = rsp.fc
<1> DEFINE fc == rsp.fc
           args == rsp.args
           values == rsp.values
           ex == rsp.ex
           w == Filled(values)
<1>1. rsp = Response(fc, args, values, ex)
  BY ResponseIs
<1>2. ex = {} => fc \in Codes
  BY ResponseIs
<1>3. Padded(rsp) = IF ~ReadsBits(fc) THEN [rsp EXCEPT !.fc = fc % 128] ELSE [rsp EXCEPT !.values = w]
  BY Zenon DEF Padded, Filled
<1> HIDE DEF fc, args, values, ex, w
<1>4. CASE ReadsBits(fc)
  <2>1. Padded(rsp) = Response(fc, args, w, ex)
    BY <1>1, <1>3, <1>4 DEF Response
  <2>2. Received(rsp) = Response(fc, args, w, NamesOf(ex))
    BY <1>1, <1>4, ReceivedIs DEF w
  <2>3. QED
    BY <2>1, <2>2, Zenon DEF fc, args, ex
<1>5. CASE ~ReadsBits(fc)
  <2>1. Padded(rsp) = Response(fc % 128, args, values, ex)
    BY <1>1, <1>3, <1>5 DEF Response
  <2>2. Received(rsp) = Response(fc % 128, args, values, NamesOf(ex))
    BY <1>1, <1>5, ReceivedIs
  <2>3. ex = {} => fc % 128 = fc
    BY <1>2, CodeIsItsRest
  <2>4. QED
    BY <2>1, <2>2, <2>3, Zenon DEF fc, args, ex
<1>6. QED
  BY <1>4, <1>5

LEMMA NamesAre ==
  /\ NamesOf({}) = {}
  /\ \A e : NamesOf({e}) = {ExceptionFrom(e.code)} /\ ExceptionFrom(e.code).code = e.code
BY DEF NamesOf, ExceptionFrom

\* The kinds of result, and what tells them apart.
LEMMA ResultOfException ==
  ASSUME NEW q, NEW fc, NEW args, NEW vs, NEW e
  PROVE  TypedResult(q, Response(fc, args, vs, {e}))
           = [kind |-> "exception", args |-> <<fc, e.code>>, values |-> <<>>]
<1> DEFINE rsp == Response(fc, args, vs, {e})
<1>1. rsp.ex = {e} /\ rsp.fc = fc
  BY DEF Response
<1>2. (CHOOSE x \in {e} : TRUE) = e /\ {e} # {}
  OBVIOUS
<1> HIDE DEF rsp
<1>3. ~Confirms(q, rsp)
  BY <1>1, <1>2, Zenon DEF Confirms
<1>4. TypedResult(q, rsp) = UnexpectedResponse(rsp)
  BY <1>3, Zenon DEF TypedResult
<1>5. UnexpectedResponse(rsp) = [kind |-> "exception", args |-> <<fc, e.code>>, values |-> <<>>]
  BY <1>1, <1>2, Zenon DEF UnexpectedResponse
<1>6. QED
  BY <1>4, <1>5 DEF rsp

LEMMA ResultOfValue ==
  ASSUME NEW q, NEW rsp, rsp.ex = {}
  PROVE  /\ TypedResult(q, rsp).kind \in {"ok", "protocol"}
         /\ TypedResult(q, rsp).kind = "ok" <=> Confirms(q, rsp)
<1>1. CASE Confirms(q, rsp)
  <2>1. TypedResult(q, rsp).kind = "ok"
    BY <1>1 DEF TypedResult
  <2>2. QED
    BY <1>1, <2>1
<1>2. CASE ~Confirms(q, rsp)
  <2>1. TypedResult(q, rsp).kind = "protocol"
    BY <1>2 DEF TypedResult, UnexpectedResponse
  <2>2. QED
    BY <1>2, <2>1
<1>3. QED
  BY <1>1, <1>2

LEMMA EncodedResponse ==
  ASSUME NEW rsp \in ResponseValues, NEW pdu \in EncodeResponse(rsp)
  PROVE  /\ pdu \in Seq(Byte) /\ Len(pdu) >= 2
         /\ TryResponse(pdu) = {Received(rsp)}
         /\ rsp.ex # {} => Len(pdu) = 2
<1> DEFINE fc == rsp.fc
           args == rsp.args
           values == rsp.values
<1>1. TryResponse(pdu) = {Received(rsp)}
  BY ResponseRoundTrip
<1>2. rsp = Response(fc, args, values, rsp.ex) /\ fc \in Byte /\ args \in Seq(Word) /\ values \in Seq(Word)
  BY ResponseIs
<1>3. CASE /\ args = <<>> /\ values = <<>>
           /\ \E e \in [custom : BOOLEAN, code : Byte] : rsp.ex = {e}
  <2>1. PICK e \in [custom : BOOLEAN, code : Byte] : rsp.ex = {e}
    BY <1>3
  <2>2. rsp = Response(fc, <<>>, <<>>, {e})
    BY <1>2, <1>3, <2>1
  <2> HIDE DEF fc
  <2>3. pdu \in Seq(Byte) /\ Len(pdu) = 2
    BY <1>2, <2>2, ExceptionBack
  <2>4. QED
    BY <1>1, <2>3
<1>4. CASE /\ rsp.ex = {} /\ fc \in Codes
           /\ IF ReadsBits(fc) \/ ReadsRegisters(fc) THEN args = <<>>
              ELSE values = <<>> /\ Len(args) = IF fc = 22 THEN 3 ELSE 2
           /\ fc = 5 => args[2] \in Bit
           /\ ReadsBits(fc) => values \in Seq(Bit)
  <2>1. ASSUME ReadsBits(fc) \/ ReadsRegisters(fc)
        PROVE  pdu \in Seq(Byte) /\ Len(pdu) >= 2
    <3>1. rsp = Response(fc, <<>>, values, {})
      BY <1>2, <1>4, <2>1
    <3>2. Len(values) \in Nat
      BY <1>2
    <3> HIDE DEF fc, values
    <3>3. /\ pdu \in Seq(Byte) /\ Len(pdu) \in Nat
          /\ ReadsBits(fc) => Len(pdu) = 2 + ((Len(values) + 7) \div 8)
          /\ ReadsRegisters(fc) => Len(pdu) = 2 + 2 * Len(values)
          /\ TryResponse(pdu) = {Received(Response(fc, <<>>, values, {}))}
      BY <1>2, <1>4, <2>1, <3>1, ReadBack
    <3>4. (Len(values) + 7) \div 8 \in Nat
      BY <3>2, BytesNeeded
    <3> HIDE DEF values
    <3>5. QED
      BY <2>1, <3>2, <3>3, <3>4
  <2>2. ASSUME ~(ReadsBits(fc) \/ ReadsRegisters(fc))
        PROVE  pdu \in Seq(Byte) /\ Len(pdu) >= 2
    <3>1. /\ fc \in Codes /\ args \in Seq(Word) /\ ~ReadsBits(fc) /\ ~ReadsRegisters(fc)
          /\ Len(args) = (IF fc = 22 THEN 3 ELSE 2) /\ (fc = 5 => args[2] \in Bit)
      BY <1>2, <1>4, <2>2
    <3>2. rsp = Response(fc, args, <<>>, {})
      BY <1>2, <1>4, <2>2
    <3> HIDE DEF fc, args
    <3>3. pdu \in EncodeResponse(Response(fc, args, <<>>, {}))
      BY <3>2
    <3>4. pdu \in Seq(Byte) /\ Len(pdu) = IF fc = 22 THEN 7 ELSE 5
      BY <3>1, <3>3, WriteBack
    <3>5. QED
      BY <3>4
  <2>3. QED
    BY <1>1, <1>4, <2>1, <2>2
<1>5. QED
  BY <1>3, <1>4, ResponseIs

\* The frames that a client finds on the line when it takes all of it.
Found(pr, t) == IF pr = "rtu" THEN (IF CrcMatches(t) THEN {RtuFrame(t)} ELSE {}) ELSE TryParseAscii(t)

\* What a client makes of a response that has crossed the line: of a damaged one
\* the same or nothing.
LEMMA ResponseAfterLine ==
  ASSUME NEW rsp \in ResponseValues, NEW u \in Byte, NEW pr \in Protocols,
         NEW pdu \in EncodeResponse(rsp), NEW f, f = EncodeFrame(pr, <<u>> \o pdu),
         NEW t, Crossed(f, t)
  PROVE  /\ t \in Seq(Byte) /\ (pr = "rtu" => Len(t) = 3 + Len(pdu))
         /\ \A g \in Found(pr, t) : AcceptFrame(g, u) = {Received(rsp)}
         /\ t = f => Found(pr, t) # {}
<1>1. pdu \in Seq(Byte) /\ Len(pdu) >= 2 /\ TryResponse(pdu) = {Received(rsp)}
  BY EncodedResponse
<1>2. ASSUME NEW g, g.slave_id = u, g.pdu = pdu PROVE AcceptFrame(g, u) = {Received(rsp)}
  BY <1>1, <1>2, Zenon DEF AcceptFrame
<1>3. CASE pr = "rtu"
  <2>1. f = EncodeRtuFrame(<<u>> \o pdu)
    BY <1>3 DEF EncodeFrame
  <2>2. /\ f \in Seq(Byte) /\ t \in Seq(Byte) /\ Len(f) = 3 + Len(pdu) /\ Len(t) = Len(f)
        /\ CrcMatches(t) => t = f /\ RtuFrame(t).slave_id = u /\ RtuFrame(t).pdu = pdu
        /\ t = f /\ Len(pdu) >= 2 => CrcMatches(t) /\ t[2] = pdu[1]
    BY <1>1, <2>1, RtuAfterLine
  <2>3. Found(pr, t) = IF CrcMatches(t) THEN {RtuFrame(t)} ELSE {}
    BY <1>3 DEF Found
  <2>4. \A g \in Found(pr, t) : AcceptFrame(g, u) = {Received(rsp)}
    BY <1>2, <2>2, <2>3, Zenon
  <2>5. t = f => Found(pr, t) # {}
    BY <1>1, <2>2, <2>3, Zenon
  <2>6. QED
    BY <2>2, <2>4, <2>5
<1>4. CASE pr # "rtu"
  <2>1. f = EncodeAsciiFrame(<<u>> \o pdu) /\ Found(pr, t) = TryParseAscii(t)
    BY <1>4 DEF EncodeFrame, Found
  <2>2. Len(pdu) >= 1
    BY <1>1
  <2>3. f = EncodeAsciiFrame(<<u>> \o pdu)
    BY <2>1
  <2>4. /\ f \in Seq(Byte) /\ t \in Seq(Byte)
        /\ TryParseAscii(f) = {[slave_id |-> u, pdu |-> pdu, consumed |-> Len(f)]}
        /\ TryParseAscii(t) \subseteq TryParseAscii(f)
    BY <1>1, <2>2, <2>3, AsciiAfterLine, Zenon
  <2> DEFINE g1 == [slave_id |-> u, pdu |-> pdu, consumed |-> Len(f)]
  <2>5. g1.slave_id = u /\ g1.pdu = pdu /\ TryParseAscii(f) = {g1}
    BY <2>4
  <2> HIDE DEF g1
  <2>6. \A g \in Found(pr, t) : AcceptFrame(g, u) = {Received(rsp)}
    <3>1. \A g \in Found(pr, t) : g = g1
      BY <2>1, <2>4, <2>5
    <3>2. QED
      BY <1>2, <2>5, <3>1, Zenon
  <2>7. t = f => Found(pr, t) # {}
    BY <2>1, <2>5
  <2>8. QED
    BY <1>4, <2>4, <2>6, <2>7
<1>5. QED
  BY <1>3, <1>4

\* The name of an exception has no part in the result.
LEMMA SameResult ==
  ASSUME NEW q, NEW rsp \in ResponseValues
  PROVE  /\ TypedResult(q, Padded(rsp)) = TypedResult(q, Received(rsp))
         /\ rsp.ex # {} => TypedResult(q, Received(rsp)).kind = "exception"
<1>1. PICK fc, vs : /\ Padded(rsp) = Response(fc, rsp.args, vs, rsp.ex)
                    /\ Received(rsp) = Response(fc, rsp.args, vs, NamesOf(rsp.ex))
  BY PaddedIs, Zenon
<1>2. CASE rsp.ex = {}
  <2>1. NamesOf(rsp.ex) = rsp.ex
    BY <1>2, NamesAre, Zenon
  <2>2. QED
    BY <1>1, <1>2, <2>1, Zenon
<1>3. CASE \E e \in [custom : BOOLEAN, code : Byte] : rsp.ex = {e}
  <2>1. PICK e : rsp.ex = {e}
    BY <1>3, Zenon
  <2> DEFINE x == ExceptionFrom(e.code)
             r == [kind |-> "exception", args |-> <<fc, e.code>>, values |-> <<>>]
  <2>2. NamesOf(rsp.ex) = {x} /\ x.code = e.code
    BY <2>1, NamesAre, Zenon
  <2>3. r.kind = "exception"
    OBVIOUS
  <2> HIDE DEF x
  <2>4. /\ TypedResult(q, Response(fc, rsp.args, vs, {e})) = r
        /\ TypedResult(q, Response(fc, rsp.args, vs, {x})) = r
    <3>1. TypedResult(q, Response(fc, rsp.args, vs, {e})) = r
      BY ResultOfException
    <3>2. TypedResult(q, Response(fc, rsp.args, vs, {x}))
            = [kind |-> "exception", args |-> <<fc, x.code>>, values |-> <<>>]
      BY ResultOfException
    <3>3. QED
      BY <2>2, <3>1, <3>2
  <2> HIDE DEF r
  <2>5. TypedResult(q, Padded(rsp)) = r /\ TypedResult(q, Received(rsp)) = r
    BY <1>1, <2>1, <2>2, <2>4, Zenon
  <2>6. QED
    BY <2>3, <2>5, Zenon
<1>4. QED
  BY <1>2, <1>3, ResponseIs

HeldBits(q) == [i \in 1..q.args[2] |-> BitAt((q.args[1] + i - 1) % 65536)]
HeldRegisters(q) == [i \in 1..q.args[2] |-> RegisterAt((q.args[1] + i - 1) % 65536)]

LEMMA HonestByCode ==
  ASSUME NEW q
  PROVE  /\ ReadsBits(q.fc) => Honest(q) = Response(q.fc, <<>>, HeldBits(q), {})
         /\ ReadsRegisters(q.fc) => Honest(q) = Response(q.fc, <<>>, HeldRegisters(q), {})
         /\ q.fc \in {15, 16} => Honest(q) = Response(q.fc, Append(q.args, Len(q.values)), <<>>, {})
         /\ q.fc \in {5, 6, 8, 22} => Honest(q) = Response(q.fc, q.args, <<>>, {})
<1>1. /\ ReadsRegisters(q.fc) => ~ReadsBits(q.fc)
      /\ q.fc \in {15, 16} => ~ReadsBits(q.fc) /\ ~ReadsRegisters(q.fc)
      /\ q.fc \in {5, 6, 8, 22} => ~ReadsBits(q.fc) /\ ~ReadsRegisters(q.fc) /\ q.fc \notin {15, 16}
  BY ReadsAre
<1> DEFINE b == Response(q.fc, <<>>, HeldBits(q), {})
           r == Response(q.fc, <<>>, HeldRegisters(q), {})
           c == Response(q.fc, Append(q.args, Len(q.values)), <<>>, {})
           o == Response(q.fc, q.args, <<>>, {})
<1>2. Honest(q) = CASE ReadsBits(q.fc)      -> b
                    [] ReadsRegisters(q.fc) -> r
                    [] q.fc \in {15, 16}    -> c
                    [] OTHER                -> o
  BY DEF Honest, Response, HeldBits, HeldRegisters
<1> HIDE DEF b, r, c, o
<1>3. /\ ReadsBits(q.fc) => Honest(q) = b
      /\ ReadsRegisters(q.fc) => Honest(q) = r
      /\ q.fc \in {15, 16} => Honest(q) = c
      /\ q.fc \in {5, 6, 8, 22} => Honest(q) = o
  BY <1>1, <1>2, ReadsAre
<1>4. QED
  BY <1>3 DEF b, r, c, o

\* An echo that a write is confirmed by is the one that it asks for.
LEMMA ConfirmedIsHonest ==
  ASSUME NEW q \in RequestValues, NEW rsp \in ResponseValues,
         TypedResult(q, Received(rsp)).kind = "ok", rsp.args # <<>>, q.fc # 8
  PROVE  rsp = Honest(q)
<1> DEFINE args == rsp.args
<1>1. rsp.ex = {}
  BY SameResult
<1>2. rsp.fc \in Codes /\ rsp = Response(rsp.fc, args, rsp.values, {})
  BY <1>1, ResponseIs
<1>3. ~ReadsBits(rsp.fc) /\ ~ReadsRegisters(rsp.fc) /\ rsp.values = <<>>
  BY <1>1, ResponseIs
<1>4. Received(rsp) = Response(rsp.fc, args, <<>>, {})
  <2>1. rsp.fc % 128 = rsp.fc
    BY <1>2, CodeIsItsRest
  <2>2. Received(Response(rsp.fc, args, <<>>, {})) = Response(rsp.fc % 128, args, <<>>, NamesOf({}))
    BY <1>3, ReceivedIs
  <2>3. QED
    BY <1>2, <1>3, <2>1, <2>2, NamesAre
<1>5. Confirms(q, Received(rsp))
  <2>1. Received(rsp).ex = {}
    BY <1>4 DEF Response
  <2>2. QED
    BY <2>1, ResultOfValue
<1>6. /\ rsp.fc = q.fc
      /\ q.fc \in {5, 6, 22} => args = q.args
      /\ q.fc \in {15, 16} => args = Append(q.args, Len(q.values))
  <2> DEFINE r == Response(rsp.fc, args, <<>>, {})
  <2>1. r.fc = rsp.fc /\ r.args = args
    BY DEF Response
  <2> HIDE DEF r, args
  <2>2. Confirms(q, r)
    BY <1>4, <1>5 DEF r
  <2>3. q.fc \in {15, 16} => q.fc \notin {5, 6, 22}
    OBVIOUS
  <2>4. QED
    BY <2>1, <2>2, <2>3, Zenon DEF Confirms
<1>7. q.fc \in {5, 6, 22, 15, 16}
  BY <1>2, <1>3, <1>6, ReadsAre DEF Codes
<1>8. rsp = Response(q.fc, args, <<>>, {})
  BY <1>2, <1>3, <1>6
<1>9. QED
  BY <1>6, <1>7, <1>8, HonestByCode

----------------------------------------------------------------------------
(* What the service answers *)

\* The payload of a response, in bytes.
LEMMA PayloadLen ==
  ASSUME NEW fc, NEW args, NEW values \in Seq(Word), NEW ex, ReadsBits(fc) => values \in Seq(Bit)
  PROVE  /\ ResponsePayload(Response(fc, args, values, ex)) \in Seq(Byte)
         /\ ReadsBits(fc) =>
              Len(ResponsePayload(Response(fc, args, values, ex))) = (Len(values) + 7) \div 8
         /\ ~ReadsBits(fc) =>
              Len(ResponsePayload(Response(fc, args, values, ex))) = 2 * Len(values)
<1> DEFINE p == ResponsePayload(Response(fc, args, values, ex))
<1>1. p = IF ReadsBits(fc) THEN PackBits(values) ELSE PutU16s(values)
  <2> DEFINE r == Response(fc, args, values, ex)
  <2>1. r.fc = fc /\ r.values = values
    BY DEF Response
  <2> HIDE DEF r
  <2>2. ResponsePayload(r) = IF ReadsBits(fc) THEN PackBits(values) ELSE PutU16s(values)
    BY <2>1, Zenon DEF ResponsePayload
  <2>3. QED
    BY <2>2 DEF r
<1> HIDE DEF p
<1>2. ASSUME ReadsBits(fc) PROVE p \in Seq(Byte) /\ Len(p) = (Len(values) + 7) \div 8
  <2>1. p = PackBits(values) /\ values \in Seq(Bit)
    BY <1>1, <1>2
  <2>2. QED
    BY <2>1, CoilsBack
<1>3. ASSUME ~ReadsBits(fc) PROVE p \in Seq(Byte) /\ Len(p) = 2 * Len(values)
  <2>1. p = PutU16s(values)
    BY <1>1, <1>3
  <2>2. QED
    BY <2>1, PutIs
<1>4. QED
  BY <1>2, <1>3 DEF p

LEMMA EmptyIs ==
  /\ <<>> \in Seq(Word) /\ <<>> \in Seq(Bit) /\ Len(<<>>) = 0
  /\ (0 + 7) \div 8 = 0 /\ 2 * 0 = 0
<1>1. (0 + 7) \div 8 = 0
  BY Z3
<1>2. QED
  BY <1>1

LEMMA EmptyPayload ==
  ASSUME NEW fc, NEW args, NEW ex
  PROVE  Len(ResponsePayload(Response(fc, args, <<>>, ex))) = 0
<1> DEFINE v == <<>>
<1>1. v \in Seq(Word) /\ v \in Seq(Bit) /\ Len(v) = 0
  BY EmptyIs
<1> HIDE DEF v
<1>2. /\ ReadsBits(fc) => Len(ResponsePayload(Response(fc, args, v, ex))) = (Len(v) + 7) \div 8
      /\ ~ReadsBits(fc) => Len(ResponsePayload(Response(fc, args, v, ex))) = 2 * Len(v)
  BY <1>1, PayloadLen
<1> DEFINE l == Len(ResponsePayload(Response(fc, args, v, ex)))
<1>3. l = 0
  BY <1>1, <1>2, EmptyIs, Zenon
<1>4. QED
  BY <1>3 DEF v

\* A response encodes when both of its sizes are within the limits.
LEMMA Encodes ==
  ASSUME NEW rsp, Len(ResponsePayload(rsp)) \in Nat, Len(ResponsePayload(rsp)) <= 255,
         Len(ResponseBytes(rsp)) \in Nat, Len(ResponseBytes(rsp)) <= 253
  PROVE  EncodeResponse(rsp) # {}
<1> DEFINE m == Len(ResponsePayload(rsp))
           b == ResponseBytes(rsp)
<1>1. ~(m > 255) /\ ~(Len(b) > 253)
  OBVIOUS
<1>2. EncodeResponse(rsp) = {b}
  BY <1>1, Zenon DEF EncodeResponse, Checked, MAX_PDU_SIZE
<1>3. QED
  BY <1>2

LEMMA ExceptionEncodes ==
  ASSUME NEW fc \in Byte, NEW e \in [custom : BOOLEAN, code : Byte]
  PROVE  EncodeResponse(Response(fc, <<>>, <<>>, {e})) # {}
<1> DEFINE rsp == Response(fc, <<>>, <<>>, {e})
           x == <<(fc % 128) + 128, e.code>>
<1>1. rsp.fc = fc /\ rsp.ex = {e}
  BY DEF Response
<1>2. ResponseBytes(rsp) = x
  <2>1. (CHOOSE c \in {e} : TRUE) = e
    OBVIOUS
  <2>2. QED
    BY <1>1, <2>1 DEF ResponseBytes
<1>3. x \in Seq(Byte) /\ Len(x) = 2
  <2>1. (fc % 128) + 128 \in Byte /\ e.code \in Byte
    BY Z3 DEF Byte
  <2>2. QED
    BY <2>1
<1>4. Len(ResponsePayload(rsp)) = 0
  BY EmptyPayload
<1> HIDE DEF rsp, x
<1>5. EncodeResponse(rsp) # {}
  <2>1. Len(x) \in Nat /\ Len(x) <= 253
    BY <1>3
  <2>2. QED
    BY <1>2, <1>4, <2>1, Encodes
<1>6. QED
  BY <1>5 DEF rsp

LEMMA ReadEncodes ==
  ASSUME NEW fc \in Codes, NEW values \in Seq(Word), ReadsBits(fc) \/ ReadsRegisters(fc),
         ReadsBits(fc) => values \in Seq(Bit) /\ (Len(values) + 7) \div 8 <= 250,
         ReadsRegisters(fc) => 2 * Len(values) <= 250
  PROVE  EncodeResponse(Response(fc, <<>>, values, {})) # {}
<1> DEFINE rsp == Response(fc, <<>>, values, {})
           p == ResponsePayload(rsp)
           m == Len(p)
           n == Len(values)
           h == <<fc, m>>
<1>1. /\ p \in Seq(Byte)
      /\ ReadsBits(fc) => m = (n + 7) \div 8
      /\ ~ReadsBits(fc) => m = 2 * n
  BY PayloadLen
<1>2. rsp.fc = fc /\ rsp.ex = {}
  BY DEF Response
<1>3. n \in Nat /\ (ReadsBits(fc) => (n + 7) \div 8 <= 250) /\ (~ReadsBits(fc) => 2 * n <= 250)
  OBVIOUS
<1> HIDE DEF n, rsp
<1>4. ResponseBytes(rsp) = h \o p
  <2>1. ReadsBits(rsp.fc) \/ ReadsRegisters(rsp.fc)
    BY <1>2
  <2>2. ResponseBytes(rsp) = <<rsp.fc, Len(p)>> \o p
    BY <1>2, <2>1, Zenon DEF ResponseBytes
  <2>3. QED
    BY <1>2, <2>2, Zenon
<1> HIDE DEF p
<1>5. m \in Nat /\ m <= 250
  <2>1. ASSUME ReadsBits(fc) PROVE m \in Nat /\ m <= 250
    <3>1. (n + 7) \div 8 \in Nat
      BY <1>3, BytesNeeded
    <3>2. QED
      BY <1>1, <1>3, <2>1, <3>1
  <2>2. ASSUME ~ReadsBits(fc) PROVE m \in Nat /\ m <= 250
    BY <1>1, <1>3, <2>2
  <2>3. QED
    BY <2>1, <2>2
<1>6. h \in Seq(Byte) /\ Len(h) = 2
  <2> HIDE DEF m
  <2>1. m \in Byte
    BY <1>5 DEF Byte
  <2>2. fc \in Byte
    BY CodeIs
  <2>3. QED
    BY <2>1, <2>2
<1>7. p \in Seq(Byte)
  BY <1>1
<1> HIDE DEF h
<1>8. h \o p \in Seq(Byte) /\ Len(h \o p) = Len(h) + Len(p)
  <2>1. \A s, t \in Seq(Byte) : s \o t \in Seq(Byte) /\ Len(s \o t) = Len(s) + Len(t)
    BY Concatenation
  <2>2. QED
    BY <1>7, <1>6, <2>1, Zenon
<1> DEFINE b == h \o p
<1> HIDE DEF b
<1>9. Len(b) \in Nat /\ Len(b) <= 253 /\ m <= 255
  BY <1>5, <1>6, <1>8 DEF b
<1>10. Len(ResponsePayload(rsp)) = m /\ ResponseBytes(rsp) = b
  BY <1>4 DEF p, b
<1> HIDE DEF m
<1>11. EncodeResponse(rsp) # {}
  BY <1>5, <1>9, <1>10, Encodes
<1>12. QED
  BY <1>11 DEF rsp

LEMMA WriteEncodes ==
  ASSUME NEW fc \in Codes, NEW args \in Seq(Word), ~ReadsBits(fc), ~ReadsRegisters(fc),
         Len(args) \in {2, 3}, fc = 5 => args[2] \in Bit
  PROVE  EncodeResponse(Response(fc, args, <<>>, {})) # {}
<1> DEFINE rsp == Response(fc, args, <<>>, {})
           fs == IF fc = 5 THEN <<args[1], CoilField(args[2])>> ELSE args
           p == PutU16s(fs)
           h == <<fc>>
<1>1. rsp.fc = fc /\ rsp.ex = {} /\ rsp.args = args
  BY DEF Response
<1>2. Len(ResponsePayload(rsp)) = 0
  BY EmptyPayload
<1>3. fs \in Seq(Word) /\ Len(fs) \in {2, 3}
  <2>1. CASE fc = 5
    <3>1. args[1] \in Word /\ CoilField(args[2]) \in Word
      BY <2>1, CoilFieldIs
    <3>2. fs = <<args[1], CoilField(args[2])>>
      BY <2>1
    <3> HIDE DEF fs
    <3>3. QED
      BY <3>1, <3>2
  <2>2. CASE fc # 5
    BY <2>2
  <2>3. QED
    BY <2>1, <2>2
<1> HIDE DEF rsp
<1>4. ResponseBytes(rsp) = h \o p
  BY <1>1, Zenon DEF ResponseBytes
<1> HIDE DEF fs
<1>5. p \in Seq(Byte) /\ Len(p) = 2 * Len(fs)
  BY <1>3, PutIs
<1>6. h \in Seq(Byte) /\ Len(h) = 1
  BY CodeIs
<1> HIDE DEF p, h
<1>7. h \o p \in Seq(Byte) /\ Len(h \o p) = Len(h) + Len(p)
  BY <1>5, <1>6, Concatenation, Zenon
<1> DEFINE b == h \o p
           n == Len(fs)
<1> HIDE DEF b, n
<1>8. Len(b) \in Nat /\ Len(b) <= 253
  <2>1. n \in {2, 3} /\ Len(b) = 1 + 2 * n
    BY <1>3, <1>5, <1>6, <1>7 DEF b, n
  <2>2. QED
    BY <2>1
<1>9. EncodeResponse(rsp) # {}
  <2>1. ResponseBytes(rsp) = b
    BY <1>4 DEF b
  <2>2. QED
    BY <1>2, <1>8, <2>1, Encodes
<1>10. QED
  BY <1>9 DEF rsp

LEMMA HeldIs ==
  ASSUME NEW q \in RequestValues, Len(q.args) >= 2
  PROVE  /\ HeldBits(q) \in Seq(Bit) /\ HeldBits(q) \in Seq(Word) /\ HeldRegisters(q) \in Seq(Word)
         /\ q.args[2] \in Nat /\ Len(HeldBits(q)) = q.args[2] /\ Len(HeldRegisters(q)) = q.args[2]
<1> DEFINE a == q.args[1]
           n == q.args[2]
<1>1. a \in Nat /\ n \in Nat
  <2>1. q.args \in Seq(Word) /\ q.args[1] \in Word /\ q.args[2] \in Word
    BY ValueIs
  <2>2. QED
    BY <2>1, WordBounds
<1> HIDE DEF a, n
<1>2. ASSUME NEW i \in 1..n
      PROVE  /\ BitAt((a + i - 1) % 65536) \in Bit
             /\ RegisterAt((a + i - 1) % 65536) \in Word
  <2> DEFINE x == (a + i - 1) % 65536
  <2>1. x \in Int
    BY <1>1, Z3
  <2> HIDE DEF x
  <2>2. (x + x \div 3) % 2 \in Bit
    <3> DEFINE y == x + x \div 3
    <3>1. y \in Int
      BY <2>1, Z3
    <3> HIDE DEF y
    <3>2. y % 2 \in Bit
      BY <3>1, Z3 DEF Bit
    <3>3. QED
      BY <3>2 DEF y
  <2>3. (x * 259 + 7) % 65536 \in Word
    <3> DEFINE y == x * 259 + 7
    <3>1. y \in Int
      BY <2>1, Z3
    <3> HIDE DEF y
    <3>2. y % 65536 \in Word
      BY <3>1, Z3 DEF Word, U16_MAX
    <3>3. QED
      BY <3>2 DEF y
  <2>4. QED
    BY <2>2, <2>3 DEF BitAt, RegisterAt, x
<1> DEFINE g(i) == BitAt((a + i - 1) % 65536)
           h(i) == RegisterAt((a + i - 1) % 65536)
<1>3. /\ HeldBits(q) = [i \in 1..n |-> g(i)] /\ HeldRegisters(q) = [i \in 1..n |-> h(i)]
      /\ \A i \in 1..n : g(i) \in Bit /\ h(i) \in Word
  BY <1>2 DEF HeldBits, HeldRegisters, a, n
<1> HIDE DEF g, h
<1>4. Bit \subseteq Word
  BY DEF Bit, Word, U16_MAX
<1>5. HeldBits(q) \in Seq(Bit) /\ Len(HeldBits(q)) = n
  BY <1>1, <1>3
<1>6. HeldRegisters(q) \in Seq(Word) /\ Len(HeldRegisters(q)) = n
  BY <1>1, <1>3
<1>7. HeldBits(q) \in Seq(Word)
  BY <1>4, <1>5
<1>8. QED
  BY <1>1, <1>5, <1>6, <1>7 DEF n

LEMMA ReadsHaveCount ==
  ASSUME NEW q \in RequestValues, ReadsBits(q.fc) \/ ReadsRegisters(q.fc)
  PROVE  Len(q.args) >= 2 /\ q.args[2] \in Word
<1>1. q.fc \in {1, 2, 3, 4, 23}
  BY ReadsAre
<1>2. Len(q.args) >= 2
  <2>1. (HasPayload(q.fc) <=> q.fc = 23) /\ FieldCount(q.fc) = (IF q.fc = 23 THEN 4 ELSE 2)
    BY <1>1 DEF HasPayload, FieldCount
  <2>2. Len(q.args) = IF HasPayload(q.fc) THEN FieldCount(q.fc) - 1 ELSE FieldCount(q.fc)
    BY ValueIs
  <2>3. QED
    BY <2>1, <2>2
<1>3. q.args \in Seq(Word)
  BY ValueIs
<1>4. QED
  BY <1>2, <1>3

\* The length of the frame that the answer to a request has, in RTU.
LEMMA TargetIs ==
  ASSUME NEW q \in RequestValues
  PROVE  /\ ReadsBits(q.fc) => RtuTarget(q) = 5 + ((q.args[2] + 7) \div 8)
         /\ ReadsRegisters(q.fc) => RtuTarget(q) = 5 + q.args[2] * 2
         /\ q.fc = 22 => RtuTarget(q) = 10
         /\ q.fc \in {5, 6, 8, 15, 16} => RtuTarget(q) = 8
         /\ RtuTarget(q) \in Nat /\ RtuTarget(q) >= 5
<1> DEFINE b == (q.args[2] + 7) \div 8
           r == q.args[2] * 2
<1>1. q.fc \in Codes /\ q.args \in Seq(Word)
  BY ValueIs
<1>2. ReadsBits(q.fc) \/ ReadsRegisters(q.fc) => q.args[2] \in Nat
  <2>1. ReadsBits(q.fc) \/ ReadsRegisters(q.fc) => q.args[2] \in Word
    BY ReadsHaveCount
  <2>2. QED
    BY <2>1, WordBounds
<1>3. ReadsBits(q.fc) \/ ReadsRegisters(q.fc) => b \in Nat /\ r \in Nat
  BY <1>2, BytesNeeded
<1>4. ASSUME NEW p, ExpectedRtuPduLen(q) = {p} PROVE RtuTarget(q) = 1 + 2 + p
  <2>1. {p} # {} /\ (CHOOSE x \in {p} : TRUE) = p
    OBVIOUS
  <2>2. QED
    BY <1>4, <2>1, Zenon DEF RtuTarget, CRC_SIZE
<1>5. /\ ReadsBits(q.fc) <=> q.fc \in {1, 2}
      /\ ReadsRegisters(q.fc) <=> q.fc \in {3, 4, 23}
  BY ReadsAre
<1>6. ExpectedRtuPduLen(q) = CASE ReadsBits(q.fc)      -> {2 + b}
                               [] ReadsRegisters(q.fc) -> {2 + r}
                               [] q.fc = 22            -> {7}
                               [] q.fc = 0             -> {}
                               [] OTHER                -> {5}
  BY DEF ExpectedRtuPduLen
<1> HIDE DEF b, r
<1>7. /\ ReadsBits(q.fc) => ExpectedRtuPduLen(q) = {2 + b}
      /\ ReadsRegisters(q.fc) => ExpectedRtuPduLen(q) = {2 + r}
      /\ q.fc = 22 => ExpectedRtuPduLen(q) = {7}
      /\ q.fc \in {5, 6, 8, 15, 16} => ExpectedRtuPduLen(q) = {5}
  BY <1>5, <1>6
<1>8. /\ ReadsBits(q.fc) => RtuTarget(q) = 5 + b
      /\ ReadsRegisters(q.fc) => RtuTarget(q) = 5 + r
      /\ q.fc = 22 => RtuTarget(q) = 10
      /\ q.fc \in {5, 6, 8, 15, 16} => RtuTarget(q) = 8
  <2>1. ReadsBits(q.fc) => RtuTarget(q) = 1 + 2 + (2 + b)
    BY <1>4, <1>7, Zenon
  <2>2. ReadsRegisters(q.fc) => RtuTarget(q) = 1 + 2 + (2 + r)
    BY <1>4, <1>7, Zenon
  <2>3. q.fc = 22 => RtuTarget(q) = 1 + 2 + 7
    BY <1>4, <1>7, Zenon
  <2>4. q.fc \in {5, 6, 8, 15, 16} => RtuTarget(q) = 1 + 2 + 5
    BY <1>4, <1>7, Zenon
  <2>5. QED
    BY <1>3, <2>1, <2>2, <2>3, <2>4
<1>9. RtuTarget(q) \in Nat /\ RtuTarget(q) >= 5
  <2>1. ReadsBits(q.fc) \/ ReadsRegisters(q.fc) \/ q.fc = 22 \/ q.fc \in {5, 6, 8, 15, 16}
    BY <1>1, <1>5 DEF Codes
  <2>2. QED
    BY <1>3, <1>8, <2>1
<1>10. QED
  BY <1>8, <1>9 DEF b, r

LEMMA FewAreRead ==
  ASSUME NEW q \in RequestValues, Legal(q), ReadsBits(q.fc) \/ ReadsRegisters(q.fc)
  PROVE  /\ ReadsBits(q.fc) => (q.args[2] + 7) \div 8 <= 250
         /\ ReadsRegisters(q.fc) => 2 * q.args[2] <= 250
<1> DEFINE n == q.args[2]
<1>1. n \in Nat
  BY ReadsHaveCount, WordBounds
<1>2. ASSUME ReadsBits(q.fc) PROVE (n + 7) \div 8 <= 250
  <2>1. q.fc \in {1, 2}
    BY <1>2, ReadsAre
  <2>2. n <= 2000
    BY <2>1, LegalIs DEF LegalRange
  <2> HIDE DEF n
  <2>3. QED
    BY <1>1, <2>2, Z3
<1>3. ASSUME ReadsRegisters(q.fc) PROVE 2 * n <= 250
  <2>1. q.fc \in {3, 4, 23}
    BY <1>3, ReadsAre
  <2>2. n <= 125
    BY <2>1, LegalIs DEF LegalRange
  <2> HIDE DEF n
  <2>3. QED
    BY <1>1, <2>2
<1>4. QED
  BY <1>2, <1>3

LEMMA AppendIs ==
  ASSUME NEW s \in Seq(Word), NEW v \in Word
  PROVE  Append(s, v) \in Seq(Word) /\ Len(Append(s, v)) = Len(s) + 1
OBVIOUS

\* The answer of the service to a legal request: it encodes, it fills the frame
\* that RtuClient waits for, and the typed method takes it.
LEMMA HonestIs ==
  ASSUME NEW q \in RequestValues, Legal(q)
  PROVE  /\ Honest(q) \in ResponseValues /\ Honest(q).ex = {}
         /\ EncodeResponse(Honest(q)) # {}
         /\ \A pdu \in EncodeResponse(Honest(q)) : 3 + Len(pdu) = RtuTarget(q)
         /\ TypedResult(q, Received(Honest(q))).kind = "ok"
<1> DEFINE fc == q.fc
           hon == Honest(q)
<1>1. fc \in Codes /\ fc \in Byte
  BY ValueIs, CodeIs
<1>2. ASSUME NEW vs \in Seq(Word), ReadsBits(fc) \/ ReadsRegisters(fc),
             hon = Response(fc, <<>>, vs, {}), Len(vs) = q.args[2],
             ReadsBits(fc) => vs \in Seq(Bit)
      PROVE  /\ hon \in ResponseValues /\ hon.ex = {}
             /\ EncodeResponse(hon) # {}
             /\ \A pdu \in EncodeResponse(hon) : 3 + Len(pdu) = RtuTarget(q)
             /\ TypedResult(q, Received(hon)).kind = "ok"
  <2> DEFINE n == Len(vs)
             b == (n + 7) \div 8
  <2>1. fc \in {1, 2, 3, 4, 23} /\ fc # 5 /\ fc \notin {5, 6, 22, 15, 16}
        /\ (ReadsRegisters(fc) => ~ReadsBits(fc))
    BY <1>2, ReadsAre
  <2>2. hon.fc = fc /\ hon.args = <<>> /\ hon.values = vs /\ hon.ex = {}
    BY <1>2 DEF Response
  <2>3. hon \in [fc : Byte, args : Seq(Word), values : Seq(Word),
                 ex : SUBSET [custom : BOOLEAN, code : Byte]]
    <3>1. Response(fc, <<>>, vs, {})
            \in [fc : Byte, args : Seq(Word), values : Seq(Word),
                 ex : SUBSET [custom : BOOLEAN, code : Byte]]
      BY <1>1 DEF Response
    <3>2. QED
      BY <1>2, <3>1
  <2>4. n \in Nat /\ b \in Nat /\ (ReadsBits(fc) => b <= 250) /\ (ReadsRegisters(fc) => 2 * n <= 250)
    BY <1>2, BytesNeeded, FewAreRead
  <2>5. /\ ReadsBits(fc) => RtuTarget(q) = 5 + b
        /\ ReadsRegisters(fc) => RtuTarget(q) = 5 + n * 2
    BY <1>2, TargetIs
  <2> HIDE DEF hon, fc
  <2>6. hon \in ResponseValues
    BY <1>1, <1>2, <2>1, <2>2, <2>3 DEF ResponseValues
  <2>7. EncodeResponse(hon) # {}
    BY <1>1, <1>2, <2>4, ReadEncodes
  <2>8. ASSUME NEW pdu \in EncodeResponse(hon) PROVE 3 + Len(pdu) = RtuTarget(q)
    <3>1. pdu \in EncodeResponse(Response(fc, <<>>, vs, {}))
      BY <1>2
    <3>2. /\ ReadsBits(fc) => Len(pdu) = 2 + ((Len(vs) + 7) \div 8)
          /\ ReadsRegisters(fc) => Len(pdu) = 2 + 2 * Len(vs)
      BY <1>1, <1>2, <3>1, ReadBack
    <3>3. (ReadsBits(fc) => Len(pdu) = 2 + b) /\ (ReadsRegisters(fc) => Len(pdu) = 2 + 2 * n)
      BY <3>2
    <3> HIDE DEF n, b
    <3>4. QED
      BY <1>2, <2>4, <2>5, <3>3
  <2>9. TypedResult(q, Received(hon)).kind = "ok"
    <3> DEFINE r == Received(hon)
    <3>1. r.ex = {} /\ r.fc = fc
      <4>1. PICK c, ws : /\ Received(hon) = Response(c, hon.args, ws, NamesOf(hon.ex))
                         /\ hon.ex = {} => c = hon.fc
        BY <2>6, PaddedIs, Zenon
      <4>2. Received(hon) = Response(fc, <<>>, ws, {})
        BY <2>2, <4>1, NamesAre, Zenon
      <4>3. QED
        BY <4>2 DEF Response
    <3> HIDE DEF r
    <3>2. q.fc = fc
      BY DEF fc
    <3>3. Confirms(q, r)
      BY <2>1, <3>1, <3>2 DEF Confirms
    <3>4. QED
      BY <3>1, <3>3, ResultOfValue DEF r
  <2>10. QED
    BY <2>2, <2>6, <2>7, <2>8, <2>9
<1>3. ASSUME NEW args \in Seq(Word), ~ReadsBits(fc), ~ReadsRegisters(fc),
             hon = Response(fc, args, <<>>, {}), Len(args) = IF fc = 22 THEN 3 ELSE 2,
             fc = 5 => args[2] \in Bit,
             fc \in {15, 16} => args = Append(q.args, Len(q.values)),
             fc \notin {15, 16} => args = q.args
      PROVE  /\ hon \in ResponseValues /\ hon.ex = {}
             /\ EncodeResponse(hon) # {}
             /\ \A pdu \in EncodeResponse(hon) : 3 + Len(pdu) = RtuTarget(q)
             /\ TypedResult(q, Received(hon)).kind = "ok"
  <2>1. fc \in {5, 6, 8, 15, 16, 22}
    BY <1>1, <1>3, ReadsAre DEF Codes
  <2>2. hon.fc = fc /\ hon.args = args /\ hon.values = <<>> /\ hon.ex = {}
    BY <1>3 DEF Response
  <2>3. hon \in [fc : Byte, args : Seq(Word), values : Seq(Word),
                 ex : SUBSET [custom : BOOLEAN, code : Byte]]
    <3>1. Response(fc, args, <<>>, {})
            \in [fc : Byte, args : Seq(Word), values : Seq(Word),
                 ex : SUBSET [custom : BOOLEAN, code : Byte]]
      BY <1>1 DEF Response
    <3>2. QED
      BY <1>3, <3>1
  <2>4. RtuTarget(q) = IF fc = 22 THEN 10 ELSE 8
    BY <2>1, TargetIs
  <2> HIDE DEF hon, fc
  <2>5. hon \in ResponseValues
    BY <1>1, <1>3, <2>1, <2>2, <2>3 DEF ResponseValues
  <2>6. EncodeResponse(hon) # {}
    <3>1. Len(args) \in {2, 3}
      BY <1>3
    <3>2. QED
      BY <1>1, <1>3, <3>1, WriteEncodes
  <2>7. ASSUME NEW pdu \in EncodeResponse(hon) PROVE 3 + Len(pdu) = RtuTarget(q)
    <3>1. pdu \in EncodeResponse(Response(fc, args, <<>>, {}))
      BY <1>3
    <3>2. Len(pdu) = IF fc = 22 THEN 7 ELSE 5
      BY <1>1, <1>3, <3>1, WriteBack
    <3>3. QED
      BY <2>4, <3>2
  <2>8. TypedResult(q, Received(hon)).kind = "ok"
    <3> DEFINE r == Received(hon)
    <3>1. r.ex = {} /\ r.fc = fc /\ r.args = args
      <4>1. PICK c, ws : /\ Received(hon) = Response(c, hon.args, ws, NamesOf(hon.ex))
                         /\ hon.ex = {} => c = hon.fc
        BY <2>5, PaddedIs, Zenon
      <4>2. Received(hon) = Response(fc, args, ws, {})
        BY <2>2, <4>1, NamesAre, Zenon
      <4>3. QED
        BY <4>2 DEF Response
    <3> HIDE DEF r
    <3>2. q.fc = fc
      BY DEF fc
    <3>3. Confirms(q, r)
      BY <1>3, <2>1, <3>1, <3>2 DEF Confirms
    <3>4. QED
      BY <3>1, <3>3, ResultOfValue DEF r
  <2>9. QED
    BY <2>2, <2>5, <2>6, <2>7, <2>8
<1>4. CASE ReadsBits(fc)
  <2>1. Len(q.args) >= 2
    BY <1>4, ReadsHaveCount
  <2>2. hon = Response(fc, <<>>, HeldBits(q), {})
    BY <1>4, HonestByCode
  <2>3. /\ HeldBits(q) \in Seq(Bit) /\ HeldBits(q) \in Seq(Word) /\ Len(HeldBits(q)) = q.args[2]
    BY <2>1, HeldIs
  <2> HIDE DEF hon, fc
  <2>4. QED
    BY <1>2, <1>4, <2>2, <2>3 DEF hon
<1>5. CASE ReadsRegisters(fc)
  <2>1. Len(q.args) >= 2 /\ ~ReadsBits(fc)
    BY <1>5, ReadsHaveCount, ReadsAre
  <2>2. hon = Response(fc, <<>>, HeldRegisters(q), {})
    BY <1>5, HonestByCode
  <2>3. HeldRegisters(q) \in Seq(Word) /\ Len(HeldRegisters(q)) = q.args[2]
    BY <2>1, HeldIs
  <2> HIDE DEF hon, fc
  <2>4. QED
    BY <1>2, <1>5, <2>1, <2>2, <2>3 DEF hon
<1>6. CASE ~ReadsBits(fc) /\ ~ReadsRegisters(fc)
  <2>1. fc \in {5, 6, 8, 15, 16, 22} /\ q.args \in Seq(Word)
    BY <1>1, <1>6, ReadsAre, ValueIs DEF Codes
  <2>2. ASSUME fc \in {15, 16}
        PROVE  /\ Append(q.args, Len(q.values)) \in Seq(Word)
               /\ Len(Append(q.args, Len(q.values))) = 2
    <3>1. Len(q.args) = 1
      <4>1. HasPayload(fc) /\ FieldCount(fc) = 2
        BY <2>2 DEF HasPayload, FieldCount
      <4>2. Len(q.args) = IF HasPayload(fc) THEN FieldCount(fc) - 1 ELSE FieldCount(fc)
        BY ValueIs
      <4>3. QED
        BY <4>1, <4>2
    <3>2. Len(q.values) \in Word
      <4>1. PICK pdu \in EncodeRequest(q) : TRUE
        BY LegalEncodes
      <4>2. QED
        BY EncodedParts, CountFits
    <3> DEFINE l == Len(q.values)
               as == q.args
    <3>3. l \in Word /\ as \in Seq(Word) /\ Len(as) = 1
      BY <2>1, <3>1, <3>2
    <3> HIDE DEF l, as
    <3>4. Append(as, l) \in Seq(Word) /\ Len(Append(as, l)) = 2
      <4>1. Append(as, l) \in Seq(Word) /\ Len(Append(as, l)) = Len(as) + 1
        BY <3>3, AppendIs, Zenon
      <4>2. 1 + 1 = 2
        OBVIOUS
      <4>3. QED
        BY <3>3, <4>1, <4>2, Zenon
    <3>5. QED
      BY <3>4 DEF l, as
  <2>3. ASSUME fc \notin {15, 16}
        PROVE  Len(q.args) = (IF fc = 22 THEN 3 ELSE 2) /\ (fc = 5 => q.args[2] \in Bit)
    <3>1. ~HasPayload(fc) /\ FieldCount(fc) = IF fc = 22 THEN 3 ELSE 2
      BY <2>1, <2>3 DEF HasPayload, FieldCount
    <3>2. QED
      BY <3>1, ValueIs
  <2>4. /\ fc \in {15, 16} => hon = Response(fc, Append(q.args, Len(q.values)), <<>>, {})
        /\ fc \in {5, 6, 8, 22} => hon = Response(fc, q.args, <<>>, {})
    BY HonestByCode
  <2> DEFINE as == IF fc \in {15, 16} THEN Append(q.args, Len(q.values)) ELSE q.args
  <2>5. /\ as \in Seq(Word) /\ hon = Response(fc, as, <<>>, {})
        /\ Len(as) = (IF fc = 22 THEN 3 ELSE 2) /\ (fc = 5 => as[2] \in Bit)
        /\ fc \in {15, 16} => as = Append(q.args, Len(q.values))
        /\ fc \notin {15, 16} => as = q.args
    BY <2>1, <2>2, <2>3, <2>4
  <2> HIDE DEF hon, fc, as
  <2>6. QED
    BY <1>3, <1>6, <2>5 DEF hon
<1>7. QED
  BY <1>4, <1>5, <1>6

----------------------------------------------------------------------------
(* The inductive invariant: what is on the line and what is known of the     *)
(* answer at each point of an exchange.                                      *)

\* A frame that is on the line, with a byte changed at most when there has been
\* damage.
Crossing(frame) == Crossed(frame, line) /\ (~damaged => line = frame)

Asked ==
  /\ ~(proto = "ascii" /\ req.fc = 0)
  /\ \E pdu \in EncodeRequest(req) : Crossing(EncodeFrame(proto, <<unit>> \o pdu))

\* There is one answer, to a legal request that the service or the hook got.
Answering ==
  /\ req \in RequestValues /\ Legal(req) /\ unit # 0
  /\ \/ served = <<[unit |-> unit, req |-> req]>>
     \/ served = <<>> /\ reply \subseteq Foreign
  /\ \E rsp \in ResponseValues : reply = {rsp}

Answered ==
  \E rsp \in reply : \E pdu \in EncodeResponse(rsp) :
    Crossing(EncodeFrame(proto, <<unit>> \o pdu))

\* Nothing was sent back because of damage, of a request that is none, or of an
\* answer that does not encode, which only a hook can make.
Dropped ==
  ~damaged /\ Legal(req) /\ unit # 0 => \E rsp \in reply : rsp # Honest(req) /\ rsp.ex = {}

\* AnswerIntact, for a client that does not cut off the frame: a longer response
\* that a hook made up is cut, and what is left may have a checksum that matches
\* by accident.
AnswerIntactUnlessCut == proto = "ascii" \/ Len(line) <= RtuTarget(req) => AnswerIntact

IInv ==
  /\ TypeOK /\ req \in Requests
  /\ pc # "done" => result = None
  /\ pc \in {"calling", "request"} => served = <<>> /\ reply = {}
  /\ pc = "calling" => ~damaged
  /\ pc = "request" => Asked
  /\ pc \in {"called", "answered", "response"} => Answering
  /\ pc \in {"called", "answered"} => line = <<unit>>
  /\ pc = "called" => served # <<>>
  /\ pc = "response" => Answered
  /\ pc = "silence" => Dropped
  /\ RequestIntact /\ Delivered /\ AnswerIntactUnlessCut

LEMMA UnitIsByte == ASSUME IInv PROVE unit \in Byte /\ req \in RequestValues \cup {Disconnect}
BY ExchangeConstants DEF IInv, TypeOK

LEMMA NoResult ==
  /\ None.kind = "none"
  /\ \A k, w : Failure(k, w).kind = k /\ Failure(k, w).waited = w
BY DEF None, Failure

\* Before the call returns, nothing is claimed of its result.
LEMMA NotDone == pc # "done" /\ result = None => Delivered /\ AnswerIntactUnlessCut
BY NoResult DEF Delivered, AnswerIntactUnlessCut, AnswerIntact

LEMMA InitIInv ==
  ASSUME Init
  PROVE  IInv
<1>1. TypeOK
  <2>1. damaged \in BOOLEAN
    BY Zenon DEF Init
  <2>2. line \in Seq(Byte)
    BY DEF Init
  <2>3. /\ proto \in Protocols /\ unit \in Units /\ pc = "calling" /\ result = None
    BY Zenon DEF Init
  <2>4. QED
    BY <2>1, <2>2, <2>3, NoResult DEF TypeOK
<1>2. Delivered /\ AnswerIntactUnlessCut
  BY NotDone DEF Init
<1>3. QED
  BY <1>1, <1>2 DEF Init, IInv, RequestIntact

\* RequestAfterLine, and Disconnect, which RtuClient sends as an empty request.
LEMMA AskedAfterLine ==
  ASSUME NEW q \in RequestValues \cup {Disconnect}, NEW u \in Byte, NEW pr \in Protocols,
         ~(pr = "ascii" /\ q.fc = 0),
         NEW pdu \in EncodeRequest(q), NEW f, f = EncodeFrame(pr, <<u>> \o pdu),
         NEW t, Crossed(f, t)
  PROVE  /\ t \in Seq(Byte)
         /\ \A g \in TryParseServer(pr, t) :
              g.slave_id = u /\ \A r \in Accepted(g) : r = q /\ q \in RequestValues /\ Legal(q) /\ u # 0
         /\ t = f /\ Legal(q) /\ u # 0 => \E g \in TryParseServer(pr, t) : Accepted(g) # {}
<1>1. CASE q \in RequestValues
  BY <1>1, RequestAfterLine
<1>2. CASE q = Disconnect
  <2>1. q.fc = 0 /\ ~Legal(q)
    BY <1>2 DEF Disconnect, Legal
  <2>2. pr = "rtu"
    BY <2>1 DEF Protocols
  <2>3. pdu = <<>>
    <3>1. EncodeRequest(q) = {<<>>}
      BY <2>1, Zenon DEF EncodeRequest
    <3>2. QED
      BY <3>1
  <2>4. pdu \in Seq(Byte) /\ Len(pdu) = 0
    BY <2>3
  <2>5. f = EncodeRtuFrame(<<u>> \o pdu)
    BY <2>2 DEF EncodeFrame
  <2>6. t \in Seq(Byte) /\ TryParseServer("rtu", t) = {}
    BY <2>4, <2>5, DisconnectAfterLine
  <2>7. QED
    BY <2>1, <2>2, <2>6
<1>3. QED
  BY <1>1, <1>2

\* A call that fails before anything is sent is not for a legal request.
LEMMA RefuseIInv ==
  ASSUME IInv, Refuse
  PROVE  IInv'
<1>1. /\ pc = "calling" /\ pc' = "done" /\ served = <<>> /\ reply = {} /\ TypeOK
      /\ req \in RequestValues \cup {Disconnect} /\ req \in Requests
      /\ proto' = proto /\ unit' = unit /\ req' = req /\ line' = line /\ damaged' = damaged
      /\ served' = served /\ reply' = reply
  BY UnitIsByte DEF IInv, Refuse
<1>2. result'.kind \in {"other", "protocol"}
  <2>1. result' = Failure("other", FALSE) \/ result' = Failure("protocol", FALSE)
    BY Zenon DEF Refuse
  <2>2. QED
    BY <2>1, NoResult
<1>3. ~Legal(req)
  <2>1. CASE req = Disconnect
    BY <2>1 DEF Disconnect, Legal
  <2>2. CASE req \in RequestValues
    <3>1. req.fc # 0
      BY <2>2, ValueIs, CodeIs
    <3>2. EncodeRequest(req) = {}
      BY <3>1, Zenon DEF Refuse
    <3>3. QED
      BY <2>2, <3>2, LegalEncodes
  <2>3. QED
    BY <1>1, <2>1, <2>2
<1>4. TypeOK'
  BY <1>1, <1>2 DEF TypeOK
<1>5. RequestIntact' /\ Delivered' /\ AnswerIntactUnlessCut'
  BY <1>1, <1>2, <1>3 DEF RequestIntact, Delivered, AnswerIntactUnlessCut, AnswerIntact
<1>6. QED
  BY <1>1, <1>4, <1>5 DEF IInv

LEMMA SendIInv ==
  ASSUME IInv, Send
  PROVE  IInv'
<1>1. /\ pc = "calling" /\ pc' = "request" /\ served = <<>> /\ reply = {} /\ TypeOK /\ ~damaged
      /\ req \in Requests /\ result = None /\ ~(proto = "ascii" /\ req.fc = 0)
      /\ proto' = proto /\ unit' = unit /\ req' = req /\ damaged' = damaged
      /\ served' = served /\ reply' = reply /\ result' = result
  BY DEF IInv, Send
<1>2. PICK pdu \in EncodeRequest(req) : line' = EncodeFrame(proto, <<unit>> \o pdu)
  BY DEF Send
<1>3. Crossed(line', line')
  BY DEF Crossed
<1>4. Asked'
  BY <1>1, <1>2, <1>3 DEF Asked, Crossing
<1>5. line' \in Seq(Byte)
  BY <1>1, <1>2, <1>3, UnitIsByte, AskedAfterLine DEF TypeOK
<1>6. TypeOK'
  BY <1>1, <1>5 DEF TypeOK
<1>7. Delivered' /\ AnswerIntactUnlessCut'
  <2>1. (pc # "done" /\ result = None)'
    BY <1>1
  <2>2. QED
    BY <2>1, NotDone, PTL
<1>8. QED
  BY <1>1, <1>4, <1>6, <1>7 DEF IInv, RequestIntact

LEMMA DamageIInv ==
  ASSUME IInv, NEW i \in DamageAt, NEW mask \in Masks, Damage(i, mask)
  PROVE  IInv'
<1>1. /\ pc \in {"request", "response"} /\ pc' = pc /\ ~damaged /\ damaged' /\ TypeOK
      /\ req \in Requests /\ result = None /\ damaged' = TRUE
      /\ proto' = proto /\ unit' = unit /\ req' = req
      /\ served' = served /\ reply' = reply /\ result' = result
  BY DEF IInv, Damage
<1>2. i \in 1..Len(line) /\ line' = [line EXCEPT ![i] = XorByte(line[i], mask)]
  BY DEF Damage
<1>3. Damaged(line, line', i) /\ line' \in Seq(Byte)
  <2> DEFINE b == line[i]
             c == XorByte(b, mask)
  <2>1. line \in Seq(Byte) /\ b \in Byte /\ mask \in Byte /\ mask # 0
    BY <1>1, <1>2, ExchangeConstants DEF TypeOK
  <2>2. c \in Byte /\ c # b
    BY <2>1, XorChanges
  <2> HIDE DEF c
  <2>3. line' = [line EXCEPT ![i] = c]
    BY <1>2 DEF c
  <2>4. /\ line' \in Seq(Byte) /\ Len(line') = Len(line) /\ line'[i] = c
        /\ \A k \in 1..Len(line) : k # i => line'[k] = line[k]
    BY <1>2, <2>1, <2>2, <2>3
  <2>5. QED
    BY <1>2, <2>2, <2>4 DEF Damaged
<1>4. \A f : Crossing(f) => Crossing(f)'
  <2>1. ASSUME NEW f, Crossing(f) PROVE Crossed(f, line')
    BY <1>1, <1>3, <2>1 DEF Crossing, Crossed
  <2>2. QED
    BY <1>1, <2>1 DEF Crossing
<1>5. Asked => Asked'
  BY <1>1, <1>4 DEF Asked
<1>6. Answered => Answered'
  BY <1>1, <1>4 DEF Answered
<1>7. Answering => Answering'
  BY <1>1 DEF Answering
<1>8. TypeOK'
  BY <1>1, <1>3 DEF TypeOK
<1>9. Delivered' /\ AnswerIntactUnlessCut'
  <2>1. (pc # "done" /\ result = None)'
    BY <1>1
  <2>2. QED
    BY <2>1, NotDone, PTL
<1>10. QED
  BY <1>1, <1>5, <1>6, <1>7, <1>8, <1>9 DEF IInv, RequestIntact

\* What the server finds on the line.
LEMMA RequestOnLine ==
  ASSUME IInv, pc = "request"
  PROVE  /\ \A g \in TryParseServer(proto, line) :
              /\ g.slave_id = unit
              /\ \A r \in Accepted(g) : r = req /\ req \in RequestValues /\ Legal(req) /\ unit # 0
         /\ ~damaged /\ Legal(req) /\ unit # 0 =>
              \E g \in TryParseServer(proto, line) : Accepted(g) # {}
<1>1. Asked /\ proto \in Protocols
  BY DEF IInv, TypeOK
<1>2. PICK pdu \in EncodeRequest(req) : Crossing(EncodeFrame(proto, <<unit>> \o pdu))
  BY <1>1 DEF Asked
<1> DEFINE f == EncodeFrame(proto, <<unit>> \o pdu)
<1>3. Crossed(f, line) /\ (~damaged => line = f) /\ ~(proto = "ascii" /\ req.fc = 0)
  BY <1>1, <1>2 DEF Crossing, Asked
<1>4. f = EncodeFrame(proto, <<unit>> \o pdu)
  OBVIOUS
<1> HIDE DEF f
<1>5. /\ \A g \in TryParseServer(proto, line) :
           /\ g.slave_id = unit
           /\ \A r \in Accepted(g) : r = req /\ req \in RequestValues /\ Legal(req) /\ unit # 0
      /\ line = f /\ Legal(req) /\ unit # 0 =>
           \E g \in TryParseServer(proto, line) : Accepted(g) # {}
  BY <1>1, <1>3, <1>4, UnitIsByte, AskedAfterLine
<1>6. QED
  BY <1>3, <1>5

LEMMA DiscardIInv ==
  ASSUME IInv, Discard
  PROVE  IInv'
<1>1. /\ pc = "request" /\ pc' = "silence" /\ served = <<>> /\ TypeOK
      /\ req \in Requests /\ result = None /\ line' = <<>>
      /\ proto' = proto /\ unit' = unit /\ req' = req /\ damaged' = damaged
      /\ served' = served /\ reply' = reply /\ result' = result
  BY DEF IInv, Discard
<1>2. ~(~damaged /\ Legal(req) /\ unit # 0)
  BY <1>1, RequestOnLine DEF Discard
<1>3. Dropped'
  BY <1>1, <1>2 DEF Dropped
<1>4. TypeOK'
  <2>1. line' \in Seq(Byte)
    BY <1>1
  <2>2. QED
    BY <1>1, <2>1 DEF TypeOK
<1>5. Delivered' /\ AnswerIntactUnlessCut'
  <2>1. (pc # "done" /\ result = None)'
    BY <1>1
  <2>2. QED
    BY <2>1, NotDone, PTL
<1>6. QED
  BY <1>1, <1>3, <1>4, <1>5 DEF IInv, RequestIntact

LEMMA UnitLine == ASSUME NEW u \in Byte PROVE <<u>> \in Seq(Byte)
OBVIOUS

LEMMA BeforeCallAnswersIInv ==
  ASSUME IInv, BeforeCallAnswers
  PROVE  IInv'
<1>1. /\ pc = "request" /\ pc' = "answered" /\ served = <<>> /\ TypeOK
      /\ req \in Requests /\ result = None
      /\ proto' = proto /\ unit' = unit /\ req' = req /\ damaged' = damaged
      /\ served' = served /\ result' = result
  BY DEF IInv, BeforeCallAnswers
<1>2. PICK g \in TryParseServer(proto, line) : Accepted(g) # {} /\ line' = <<g.slave_id>>
  BY DEF BeforeCallAnswers
<1>3. /\ line' = <<unit>> /\ req \in RequestValues /\ Legal(req) /\ unit # 0
  BY <1>1, <1>2, RequestOnLine
<1>4. PICK rsp \in Foreign : reply' = {rsp}
  BY DEF BeforeCallAnswers
<1>5. rsp \in ResponseValues /\ reply' \subseteq Foreign
  BY <1>4, ExchangeConstants
<1>6. Answering'
  BY <1>1, <1>3, <1>4, <1>5 DEF Answering
<1>7. TypeOK'
  <2>1. line' \in Seq(Byte)
    BY <1>3, UnitIsByte, UnitLine
  <2>2. QED
    BY <1>1, <2>1 DEF TypeOK
<1>8. Delivered' /\ AnswerIntactUnlessCut'
  <2>1. (pc # "done" /\ result = None)'
    BY <1>1
  <2>2. QED
    BY <2>1, NotDone, PTL
<1>9. QED
  BY <1>1, <1>3, <1>6, <1>7, <1>8 DEF IInv, RequestIntact

LEMMA ExceptionIsValue ==
  ASSUME NEW q \in RequestValues, NEW e \in Errors
  PROVE  /\ ExceptionResponse(q, e) \in ResponseValues
         /\ ExceptionResponse(q, e).ex # {}
<1>1. e \in [custom : BOOLEAN, code : Byte] /\ q.fc \in Byte
  BY ExchangeConstants, ValueIs, CodeIs
<1> DEFINE rsp == Response(q.fc, <<>>, <<>>, {e})
<1>2. ExceptionResponse(q, e) = rsp
  BY DEF ExceptionResponse, Response
<1>3. rsp.args = <<>> /\ rsp.values = <<>> /\ rsp.ex = {e}
  BY DEF Response
<1>4. rsp \in [fc : Byte, args : Seq(Word), values : Seq(Word),
               ex : SUBSET [custom : BOOLEAN, code : Byte]]
  BY <1>1 DEF Response
<1> HIDE DEF rsp
<1>5. rsp \in ResponseValues
  BY <1>1, <1>3, <1>4 DEF ResponseValues
<1>6. QED
  BY <1>2, <1>3, <1>5

LEMMA InnerIInv ==
  ASSUME IInv, Inner
  PROVE  IInv'
<1>1. /\ pc = "request" /\ pc' = "called" /\ served = <<>> /\ TypeOK
      /\ req \in Requests /\ result = None
      /\ proto' = proto /\ unit' = unit /\ req' = req /\ damaged' = damaged /\ result' = result
  BY DEF IInv, Inner
<1>2. PICK g \in TryParseServer(proto, line) : \E q \in Accepted(g) :
        /\ served' = Append(served, [unit |-> g.slave_id, req |-> q])
        /\ reply' \in {{Honest(q)}} \cup {{ExceptionResponse(q, e)} : e \in Errors}
        /\ line' = <<g.slave_id>>
  BY Zenon DEF Inner
<1>3. /\ g.slave_id = unit /\ req \in RequestValues /\ Legal(req) /\ unit # 0
      /\ served' = Append(served, [unit |-> unit, req |-> req])
      /\ reply' \in {{Honest(req)}} \cup {{ExceptionResponse(req, e)} : e \in Errors}
      /\ line' = <<unit>>
  <2>1. PICK q \in Accepted(g) :
          /\ served' = Append(served, [unit |-> g.slave_id, req |-> q])
          /\ reply' \in {{Honest(q)}} \cup {{ExceptionResponse(q, e)} : e \in Errors}
          /\ line' = <<g.slave_id>>
    BY <1>2
  <2>2. g.slave_id = unit /\ q = req /\ req \in RequestValues /\ Legal(req) /\ unit # 0
    BY <1>1, <2>1, RequestOnLine
  <2>3. QED
    BY <2>1, <2>2
<1>4. served' = <<[unit |-> unit, req |-> req]>>
  <2> DEFINE x == [unit |-> unit, req |-> req]
  <2>1. served' = Append(<<>>, x)
    BY <1>1, <1>2, <1>3
  <2> HIDE DEF x
  <2>2. Append(<<>>, x) = <<x>>
    OBVIOUS
  <2>3. QED
    BY <2>1, <2>2 DEF x
<1>5. \E rsp \in ResponseValues : reply' = {rsp}
  <2>1. Honest(req) \in ResponseValues
    BY <1>3, HonestIs
  <2>2. \A e \in Errors : ExceptionResponse(req, e) \in ResponseValues
    BY <1>3, ExceptionIsValue
  <2>3. QED
    BY <1>3, <2>1, <2>2
<1>6. Answering' /\ RequestIntact'
  BY <1>1, <1>3, <1>4, <1>5 DEF Answering, RequestIntact
<1>7. TypeOK'
  <2>1. line' \in Seq(Byte)
    BY <1>3, UnitIsByte, UnitLine
  <2>2. QED
    BY <1>1, <2>1 DEF TypeOK
<1>8. Delivered' /\ AnswerIntactUnlessCut'
  <2>1. (pc # "done" /\ result = None)'
    BY <1>1
  <2>2. QED
    BY <2>1, NotDone, PTL
<1>9. line' = <<unit>> /\ served' # <<>>
  BY <1>3, <1>4
<1>10. QED
  BY <1>1, <1>6, <1>7, <1>8, <1>9 DEF IInv

LEMMA AfterCallIInv ==
  ASSUME IInv, AfterCall
  PROVE  IInv'
<1>1. /\ pc = "called" /\ pc' = "answered" /\ TypeOK /\ Answering /\ line = <<unit>>
      /\ req \in Requests /\ result = None /\ served # <<>> /\ RequestIntact
      /\ proto' = proto /\ unit' = unit /\ req' = req /\ line' = line /\ damaged' = damaged
      /\ served' = served /\ result' = result
  BY DEF IInv, AfterCall
<1>2. \E rsp \in ResponseValues : reply' = {rsp}
  <2>1. reply' = reply \/ \E rsp \in Foreign : reply' = {rsp}
    BY DEF AfterCall
  <2>2. QED
    BY <1>1, <2>1, ExchangeConstants DEF Answering
<1>3. Answering'
  BY <1>1, <1>2 DEF Answering
<1>4. TypeOK'
  BY <1>1 DEF TypeOK
<1>5. Delivered' /\ AnswerIntactUnlessCut'
  <2>1. (pc # "done" /\ result = None)'
    BY <1>1
  <2>2. QED
    BY <2>1, NotDone, PTL
<1>6. QED
  BY <1>1, <1>3, <1>4, <1>5 DEF IInv, RequestIntact

LEMMA RespondIInv ==
  ASSUME IInv, Respond
  PROVE  IInv'
<1>1. /\ pc = "answered" /\ TypeOK /\ Answering /\ line = <<unit>>
      /\ req \in Requests /\ result = None /\ RequestIntact
      /\ proto' = proto /\ unit' = unit /\ req' = req /\ damaged' = damaged
      /\ served' = served /\ reply' = reply /\ result' = result
  BY DEF IInv, Respond
<1>2. PICK rsp \in ResponseValues : reply = {rsp}
  BY <1>1 DEF Answering
<1> DEFINE pdus == UNION {EncodeResponse(x) : x \in reply}
<1>3. pdus = EncodeResponse(rsp)
  BY <1>2
<1>4. \/ pdus = {} /\ pc' = "silence" /\ line' = <<>>
      \/ pc' = "response" /\ \E pdu \in pdus : line' = EncodeFrame(proto, line \o pdu)
  BY DEF Respond
<1> HIDE DEF pdus
<1>5. ASSUME pc' \in {"silence", "response"}
      PROVE  Delivered' /\ AnswerIntactUnlessCut' /\ RequestIntact'
  <2>1. (pc # "done" /\ result = None)'
    BY <1>1, <1>5
  <2>2. Delivered' /\ AnswerIntactUnlessCut'
    BY <2>1, NotDone, PTL
  <2>3. QED
    BY <1>1, <2>2 DEF RequestIntact
<1>6. CASE pdus = {} /\ pc' = "silence" /\ line' = <<>>
  <2>1. rsp # Honest(req)
    BY <1>1, <1>3, <1>6, HonestIs DEF Answering
  <2>2. rsp.ex = {}
    <3>1. ASSUME NEW e \in [custom : BOOLEAN, code : Byte], rsp.ex = {e},
                 rsp.args = <<>>, rsp.values = <<>>
          PROVE  FALSE
      <4>1. rsp = Response(rsp.fc, <<>>, <<>>, {e}) /\ rsp.fc \in Byte
        BY <3>1, ResponseIs
      <4>2. EncodeResponse(rsp) # {}
        BY <4>1, ExceptionEncodes
      <4>3. QED
        BY <1>3, <1>6, <4>2
    <3>2. QED
      BY <3>1, ResponseIs
  <2>3. Dropped'
    BY <1>1, <1>2, <2>1, <2>2 DEF Dropped
  <2>4. TypeOK'
    <3>1. line' \in Seq(Byte)
      BY <1>6
    <3>2. QED
      BY <1>1, <1>6, <3>1 DEF TypeOK
  <2>5. QED
    BY <1>1, <1>5, <1>6, <2>3, <2>4 DEF IInv
<1>7. CASE pc' = "response" /\ \E pdu \in pdus : line' = EncodeFrame(proto, line \o pdu)
  <2>1. PICK pdu \in EncodeResponse(rsp) : line' = EncodeFrame(proto, <<unit>> \o pdu)
    BY <1>1, <1>3, <1>7
  <2>2. Crossed(line', line')
    BY DEF Crossed
  <2>3. Answered'
    BY <1>1, <1>2, <2>1, <2>2 DEF Answered, Crossing
  <2>4. TypeOK'
    <3>1. line' \in Seq(Byte)
      BY <1>1, <2>1, <2>2, UnitIsByte, ResponseAfterLine DEF TypeOK
    <3>2. QED
      BY <1>1, <1>7, <3>1 DEF TypeOK
  <2>5. Answering'
    BY <1>1 DEF Answering
  <2>6. QED
    BY <1>1, <1>5, <1>7, <2>3, <2>4, <2>5 DEF IInv
<1>8. QED
  BY <1>4, <1>6, <1>7

LEMMA TimeOutIInv ==
  ASSUME IInv, TimeOut
  PROVE  IInv'
<1>1. /\ pc = "silence" /\ pc' = "done" /\ TypeOK /\ Dropped /\ RequestIntact /\ req \in Requests
      /\ proto' = proto /\ unit' = unit /\ req' = req /\ damaged' = damaged
      /\ line' = line /\ served' = served /\ reply' = reply
  BY DEF IInv, TimeOut
<1>2. result'.kind = "timeout"
  BY NoResult DEF TimeOut
<1>3. TypeOK' /\ RequestIntact' /\ AnswerIntactUnlessCut'
  BY <1>1, <1>2 DEF TypeOK, RequestIntact, AnswerIntactUnlessCut, AnswerIntact
<1>4. Delivered'
  BY <1>1 DEF Delivered, Dropped
<1>5. QED
  BY <1>1, <1>3, <1>4 DEF IInv

----------------------------------------------------------------------------
(* The answer arrives *)

LEMMA ResultIs ==
  ASSUME NEW q, NEW rsp
  PROVE  LET t == TypedResult(q, rsp)
         IN /\ t.kind \in {"ok", "exception", "protocol"}
            /\ t = [kind |-> t.kind, args |-> t.args, values |-> t.values]
<1> DEFINE t == TypedResult(q, rsp)
           a == IF q.fc = 8 THEN rsp.args ELSE <<>>
           ok == [kind |-> "ok", args |-> a, values |-> rsp.values]
           ex == [kind |-> "exception", args |-> <<rsp.fc, (CHOOSE e \in rsp.ex : TRUE).code>>,
                  values |-> <<>>]
           no == [kind |-> "protocol", args |-> <<>>, values |-> <<>>]
<1>1. t \in {ok, ex, no}
  BY Zenon DEF TypedResult, UnexpectedResponse
<1>2. \A x \in {ok, ex, no} :
        x.kind \in {"ok", "exception", "protocol"}
        /\ x = [kind |-> x.kind, args |-> x.args, values |-> x.values]
  OBVIOUS
<1> HIDE DEF t, ok, ex, no
<1>3. QED
  BY <1>1, <1>2 DEF t

LEMMA OutcomeIs ==
  ASSUME NEW frames, NEW x, NEW w, \A g \in frames : AcceptFrame(g, unit) = {x}
  PROVE  /\ frames = {} => Outcome(frames, w).kind = "protocol"
         /\ frames # {} =>
              Outcome(frames, w) = [kind |-> TypedResult(req, x).kind, args |-> TypedResult(req, x).args,
                                    values |-> TypedResult(req, x).values, waited |-> w]
<1> DEFINE o == Outcome(frames, w)
           t == TypedResult(req, x)
           rsps == UNION {AcceptFrame(g, unit) : g \in frames}
<1>1. o = IF rsps = {} THEN Failure("protocol", w)
          ELSE LET u == TypedResult(req, CHOOSE r \in rsps : TRUE)
               IN [kind |-> u.kind, args |-> u.args, values |-> u.values, waited |-> w]
  BY Zenon DEF Outcome
<1>2. ASSUME frames = {} PROVE o.kind = "protocol"
  <2>1. rsps = {}
    BY <1>2
  <2>2. QED
    BY <1>1, <2>1, NoResult, Zenon
<1>3. ASSUME frames # {}
      PROVE  o = [kind |-> t.kind, args |-> t.args, values |-> t.values, waited |-> w]
  <2>1. rsps = {x}
    BY <1>3
  <2>2. {x} # {} /\ (CHOOSE r \in {x} : TRUE) = x
    OBVIOUS
  <2> HIDE DEF rsps
  <2>3. QED
    BY <1>1, <2>1, <2>2, Zenon
<1>4. QED
  BY <1>2, <1>3

LEMMA OutcomeKind ==
  ASSUME NEW frames, NEW w
  PROVE  Outcome(frames, w).kind \in {"ok", "exception", "protocol"}
<1> DEFINE o == Outcome(frames, w)
           rsps == UNION {AcceptFrame(g, unit) : g \in frames}
           u == TypedResult(req, CHOOSE r \in rsps : TRUE)
<1>1. o = IF rsps = {} THEN Failure("protocol", w)
          ELSE [kind |-> u.kind, args |-> u.args, values |-> u.values, waited |-> w]
  BY Zenon DEF Outcome
<1>2. u.kind \in {"ok", "exception", "protocol"}
  BY ResultIs
<1> HIDE DEF u, rsps, o
<1>3. QED
  BY <1>1, <1>2, NoResult DEF o

LEMMA ResultOfAnswer ==
  ASSUME NEW q \in RequestValues, Legal(q), NEW rsp \in ResponseValues,
         NEW t, t = TypedResult(q, Received(rsp))
  PROVE  /\ TypedResult(q, Padded(rsp)) = [kind |-> t.kind, args |-> t.args, values |-> t.values]
         /\ t.kind = "ok" /\ rsp.args # <<>> /\ q.fc # 8 => rsp = Honest(q)
         /\ rsp = Honest(q) => t.kind = "ok"
         /\ rsp.ex # {} => t.kind = "exception" /\ rsp # Honest(q)
<1>1. TypedResult(q, Padded(rsp)) = [kind |-> t.kind, args |-> t.args, values |-> t.values]
  <2>1. TypedResult(q, Padded(rsp)) = t
    BY SameResult
  <2>2. t = [kind |-> t.kind, args |-> t.args, values |-> t.values]
    BY ResultIs
  <2>3. QED
    BY <2>1, <2>2, Zenon
<1>2. t.kind = "ok" /\ rsp.args # <<>> /\ q.fc # 8 => rsp = Honest(q)
  BY ConfirmedIsHonest
<1>3. rsp = Honest(q) => t.kind = "ok"
  BY HonestIs
<1>4. rsp.ex # {} => t.kind = "exception" /\ rsp # Honest(q)
  BY SameResult, HonestIs
<1>5. QED
  BY <1>1, <1>2, <1>3, <1>4

\* What the client finds on the line.
LEMMA AnswerOnLine ==
  ASSUME IInv, pc = "response"
  PROVE  \E rsp \in ResponseValues :
           /\ reply = {rsp} /\ \A g \in Found(proto, line) : AcceptFrame(g, unit) = {Received(rsp)}
           /\ ~damaged => Found(proto, line) # {}
           /\ proto = "rtu" => /\ Len(line) \in Nat /\ Len(line) >= 5
                               /\ rsp = Honest(req) => Len(line) = RtuTarget(req)
                               /\ rsp.ex # {} => Len(line) = 5
<1>1. /\ Answering /\ Answered /\ proto \in Protocols /\ unit \in Byte
  BY UnitIsByte DEF IInv, TypeOK
<1>2. PICK rsp \in ResponseValues : reply = {rsp}
  BY <1>1 DEF Answering
<1>3. PICK pdu \in EncodeResponse(rsp) : Crossing(EncodeFrame(proto, <<unit>> \o pdu))
  BY <1>1, <1>2 DEF Answered
<1> DEFINE f == EncodeFrame(proto, <<unit>> \o pdu)
<1>4. Crossed(f, line) /\ (~damaged => line = f) /\ f = EncodeFrame(proto, <<unit>> \o pdu)
  BY <1>3 DEF Crossing
<1> HIDE DEF f
<1>5. /\ line \in Seq(Byte) /\ (proto = "rtu" => Len(line) = 3 + Len(pdu))
      /\ \A g \in Found(proto, line) : AcceptFrame(g, unit) = {Received(rsp)}
      /\ line = f => Found(proto, line) # {}
  BY <1>1, <1>3, <1>4, ResponseAfterLine
<1>6. pdu \in Seq(Byte) /\ Len(pdu) >= 2 /\ (rsp.ex # {} => Len(pdu) = 2)
  BY <1>3, EncodedResponse
<1>7. rsp = Honest(req) => 3 + Len(pdu) = RtuTarget(req)
  BY <1>1, <1>3, HonestIs DEF Answering
<1>8. ASSUME proto = "rtu"
      PROVE  /\ Len(line) \in Nat /\ Len(line) >= 5
             /\ rsp = Honest(req) => Len(line) = RtuTarget(req)
             /\ rsp.ex # {} => Len(line) = 5
  <2> DEFINE l == Len(pdu)
  <2>1. l \in Nat /\ l >= 2 /\ (rsp.ex # {} => l = 2) /\ Len(line) = 3 + l
    BY <1>5, <1>6, <1>8
  <2> HIDE DEF l
  <2>2. Len(line) \in Nat /\ Len(line) >= 5 /\ (rsp.ex # {} => Len(line) = 5)
    BY <2>1
  <2>3. QED
    BY <1>5, <1>7, <1>8, <2>2
<1>9. QED
  BY <1>2, <1>4, <1>5, <1>8

\* An answer that arrives as it was sent, or is refused.
LEMMA ConcludedIInv ==
  ASSUME IInv, pc = "response", pc' = "done",
         UNCHANGED <<proto, unit, req, line, damaged, served, reply>>,
         NEW CONSTANT rsp \in ResponseValues, reply = {rsp},
         NEW CONSTANT t, t = TypedResult(req, Received(rsp)),
         result'.kind \in {"ok", "exception", "protocol", "timeout"},
         (proto = "ascii" \/ Len(line) <= RtuTarget(req)) /\ result'.kind \in {"ok", "exception"} =>
           result'.kind = t.kind /\ result'.args = t.args /\ result'.values = t.values,
         ~damaged /\ (rsp = Honest(req) \/ rsp.ex # {}) =>
           /\ result'.kind = t.kind
           /\ rsp = Honest(req) => ~result'.waited
           /\ rsp.ex # {} => (result'.waited <=> (proto = "rtu" /\ RtuTarget(req) > MIN_RTU_FRAME))
  PROVE  IInv'
<1>1. /\ TypeOK /\ Answering /\ req \in Requests /\ RequestIntact
      /\ proto' = proto /\ unit' = unit /\ req' = req /\ damaged' = damaged
      /\ line' = line /\ served' = served /\ reply' = reply
      /\ req \in RequestValues /\ Legal(req)
  BY DEF IInv, Answering
<1>2. TypeOK'
  BY <1>1 DEF TypeOK
<1>3. RequestIntact'
  BY <1>1 DEF RequestIntact
<1>4. /\ TypedResult(req, Padded(rsp)) = [kind |-> t.kind, args |-> t.args, values |-> t.values]
      /\ t.kind = "ok" /\ rsp.args # <<>> /\ req.fc # 8 => rsp = Honest(req)
      /\ rsp = Honest(req) => t.kind = "ok"
      /\ rsp.ex # {} => t.kind = "exception" /\ rsp # Honest(req)
  BY <1>1, ResultOfAnswer
<1>5. AnswerIntactUnlessCut'
  <2>1. SUFFICES ASSUME proto = "ascii" \/ Len(line) <= RtuTarget(req),
                        result'.kind \in {"ok", "exception"}
                 PROVE  /\ TypedResult(req, Padded(rsp)) =
                             [kind |-> result'.kind, args |-> result'.args, values |-> result'.values]
                        /\ result'.kind = "ok" /\ rsp.args # <<>> /\ req.fc # 8 => rsp = Honest(req)
    BY <1>1 DEF AnswerIntactUnlessCut, AnswerIntact
  <2>2. result'.kind = t.kind /\ result'.args = t.args /\ result'.values = t.values
    BY <2>1
  <2>3. QED
    BY <1>4, <2>2, Zenon
<1>6. Delivered'
  <2>1. SUFFICES ASSUME ~damaged, rsp = Honest(req) \/ rsp.ex # {}
                 PROVE  /\ served # <<>> \/ reply \subseteq Foreign
                        /\ IF reply = {Honest(req)} THEN result'.kind = "ok" /\ ~result'.waited
                           ELSE /\ result'.kind = "exception"
                                /\ result'.waited <=> (proto = "rtu" /\ RtuTarget(req) > MIN_RTU_FRAME)
    BY <1>1 DEF Delivered
  <2>2. served # <<>> \/ reply \subseteq Foreign
    <3>1. \A x : <<x>> # <<>>
      OBVIOUS
    <3>2. QED
      BY <1>1, <3>1, Zenon DEF Answering
  <2>3. reply = {Honest(req)} <=> rsp = Honest(req)
    OBVIOUS
  <2>4. QED
    BY <1>4, <2>1, <2>2, <2>3
<1>7. QED
  BY <1>1, <1>2, <1>3, <1>5, <1>6 DEF IInv

LEMMA ReceiveAsciiIInv ==
  ASSUME IInv, ReceiveAscii
  PROVE  IInv'
<1>1. /\ proto = "ascii" /\ pc = "response" /\ pc' = "done"
      /\ UNCHANGED <<proto, unit, req, line, damaged, served, reply>>
  BY DEF ReceiveAscii
<1> DEFINE frames == TryParseAscii(line)
<1>2. Found(proto, line) = frames
  BY <1>1 DEF Found
<1>3. PICK rsp \in ResponseValues :
        /\ reply = {rsp} /\ \A g \in frames : AcceptFrame(g, unit) = {Received(rsp)}
        /\ ~damaged => frames # {}
  BY <1>1, <1>2, AnswerOnLine
<1>4. result' = IF frames = {} THEN Failure("timeout", TRUE) ELSE Outcome(frames, FALSE)
  BY Zenon DEF ReceiveAscii
<1> HIDE DEF frames
<1> DEFINE x == Received(rsp)
           t == TypedResult(req, x)
<1>5. CASE frames = {}
  <2>1. result'.kind = "timeout" /\ damaged
    BY <1>3, <1>4, <1>5, NoResult, Zenon
  <2> HIDE DEF t
  <2>2. /\ result'.kind \in {"ok", "exception", "protocol", "timeout"}
        /\ result'.kind \notin {"ok", "exception"}
    BY <2>1
  <2>3. QED
    BY <1>1, <1>3, <2>1, <2>2, ConcludedIInv
<1>6. CASE frames # {}
  <2>1. /\ result'.kind = t.kind /\ result'.args = t.args /\ result'.values = t.values
        /\ result'.waited = FALSE
    <3>1. result' = Outcome(frames, FALSE)
      BY <1>4, <1>6, Zenon
    <3>2. \A g \in frames : AcceptFrame(g, unit) = {x}
      BY <1>3
    <3> HIDE DEF x
    <3>3. result' = [kind |-> t.kind, args |-> t.args, values |-> t.values, waited |-> FALSE]
      BY <1>6, <3>1, <3>2, OutcomeIs, Zenon
    <3> HIDE DEF t
    <3>4. QED
      BY <3>3
  <2>2. t.kind \in {"ok", "exception", "protocol"}
    BY ResultIs
  <2> HIDE DEF t
  <2>3. result'.kind \in {"ok", "exception", "protocol", "timeout"}
    BY <2>1, <2>2
  <2>4. t = TypedResult(req, Received(rsp))
    BY DEF t
  <2>5. ~result'.waited /\ (result'.waited <=> (proto = "rtu" /\ RtuTarget(req) > MIN_RTU_FRAME))
    BY <1>1, <2>1
  <2>6. QED
    BY <1>1, <1>3, <2>1, <2>3, <2>4, <2>5, ConcludedIInv
<1>7. QED
  BY <1>5, <1>6

LEMMA ReceiveRtuIInv ==
  ASSUME IInv, ReceiveRtu
  PROVE  IInv'
<1>1. /\ proto = "rtu" /\ pc = "response" /\ pc' = "done"
      /\ UNCHANGED <<proto, unit, req, line, damaged, served, reply>>
      /\ line \in Seq(Byte)
  BY DEF ReceiveRtu, IInv, TypeOK
<1> DEFINE target == RtuTarget(req)
           size == Len(line)
<1>2. PICK n \in 1..size :
        /\ n >= target \/ n = size
        /\ result' = IF n < MIN_RTU_FRAME THEN Failure("timeout", n < target)
                     ELSE Outcome(IF CrcMatches(SubSeq(line, 1, n)) THEN {RtuFrame(SubSeq(line, 1, n))}
                                  ELSE {}, n < target)
  BY Zenon DEF ReceiveRtu
<1> DEFINE buf == SubSeq(line, 1, n)
           frames == IF CrcMatches(buf) THEN {RtuFrame(buf)} ELSE {}
           w == n < target
<1>3. PICK rsp \in ResponseValues :
        /\ reply = {rsp} /\ \A g \in Found(proto, line) : AcceptFrame(g, unit) = {Received(rsp)}
        /\ ~damaged => Found(proto, line) # {}
        /\ size \in Nat /\ size >= 5
        /\ rsp = Honest(req) => size = target
        /\ rsp.ex # {} => size = 5
  BY <1>1, AnswerOnLine
<1>4. target \in Nat /\ target >= 5
  BY <1>1, TargetIs DEF IInv, Answering
<1> DEFINE x == Received(rsp)
           t == TypedResult(req, x)
<1>5. size <= target => buf = line
  <2>1. ASSUME size <= target PROVE n = size
    BY <1>2, <1>3, <1>4, <2>1
  <2>2. SubSeq(line, 1, Len(line)) = line
    BY <1>1
  <2>3. QED
    BY <2>1, <2>2, Zenon
<1>6. Found(proto, line) = IF CrcMatches(line) THEN {RtuFrame(line)} ELSE {}
  BY <1>1, Zenon DEF Found
<1>7. size <= target => frames = Found(proto, line)
  BY <1>5, <1>6, Zenon
<1> HIDE DEF target, size
<1>8. result' = Outcome(frames, w)
  <2>1. ~(n < MIN_RTU_FRAME)
    BY <1>2, <1>3, <1>4 DEF MIN_RTU_FRAME
  <2>2. QED
    BY <1>2, <2>1, Zenon
<1> HIDE DEF buf, frames, w
<1>9. result'.kind \in {"ok", "exception", "protocol"}
  BY <1>8, OutcomeKind
<1>10. ASSUME size <= target
       PROVE  /\ frames = {} => result'.kind = "protocol"
              /\ frames # {} =>
                   result' = [kind |-> t.kind, args |-> t.args, values |-> t.values, waited |-> w]
  <2>1. \A g \in frames : AcceptFrame(g, unit) = {x}
    BY <1>3, <1>7, <1>10
  <2> HIDE DEF x
  <2>2. QED
    BY <1>8, <2>1, OutcomeIs, Zenon
<1>11. t = TypedResult(req, Received(rsp))
  OBVIOUS
<1> HIDE DEF t
<1>12. ASSUME size <= target, result'.kind \in {"ok", "exception"}
       PROVE  result'.kind = t.kind /\ result'.args = t.args /\ result'.values = t.values
  BY <1>10, <1>12
<1>13. ASSUME ~damaged, rsp = Honest(req) \/ rsp.ex # {}
       PROVE  /\ result'.kind = t.kind
              /\ rsp = Honest(req) => ~result'.waited
              /\ rsp.ex # {} => (result'.waited <=> (proto = "rtu" /\ target > MIN_RTU_FRAME))
  <2>1. size <= target /\ n = size
    BY <1>2, <1>3, <1>4, <1>13
  <2>2. frames # {}
    BY <1>3, <1>7, <1>13, <2>1
  <2>3. result'.kind = t.kind /\ result'.waited = w
    BY <1>10, <2>1, <2>2
  <2>4. rsp = Honest(req) => ~w
    BY <1>3, <1>4, <2>1 DEF w
  <2>5. rsp.ex # {} => (w <=> target > MIN_RTU_FRAME)
    BY <1>3, <1>4, <2>1 DEF w, MIN_RTU_FRAME
  <2>6. QED
    BY <1>1, <2>3, <2>4, <2>5, Zenon
<1>14. /\ (proto = "ascii" \/ Len(line) <= RtuTarget(req)) /\ result'.kind \in {"ok", "exception"} =>
            result'.kind = t.kind /\ result'.args = t.args /\ result'.values = t.values
       /\ ~damaged /\ (rsp = Honest(req) \/ rsp.ex # {}) =>
            /\ result'.kind = t.kind
            /\ rsp = Honest(req) => ~result'.waited
            /\ rsp.ex # {} => (result'.waited <=> (proto = "rtu" /\ RtuTarget(req) > MIN_RTU_FRAME))
  BY <1>1, <1>12, <1>13 DEF size, target
<1>15. result'.kind \in {"ok", "exception", "protocol", "timeout"}
  BY <1>9
<1>16. QED
  BY <1>1, <1>3, <1>11, <1>14, <1>15, ConcludedIInv

----------------------------------------------------------------------------
(* The theorems about an exchange *)

LEMMA StepIInv == IInv /\ [Next]_vars => IInv'
<1>1. SUFFICES ASSUME IInv, [Next]_vars PROVE IInv'
  OBVIOUS
<1>2. CASE Refuse
  BY <1>1, <1>2, RefuseIInv
<1>3. CASE Send
  BY <1>1, <1>3, SendIInv
<1>4. CASE Discard
  BY <1>1, <1>4, DiscardIInv
<1>5. CASE BeforeCallAnswers
  BY <1>1, <1>5, BeforeCallAnswersIInv
<1>6. CASE Inner
  BY <1>1, <1>6, InnerIInv
<1>7. CASE AfterCall
  BY <1>1, <1>7, AfterCallIInv
<1>8. CASE Respond
  BY <1>1, <1>8, RespondIInv
<1>9. CASE TimeOut
  BY <1>1, <1>9, TimeOutIInv
<1>10. CASE ReceiveRtu
  BY <1>1, <1>10, ReceiveRtuIInv
<1>11. CASE ReceiveAscii
  BY <1>1, <1>11, ReceiveAsciiIInv
<1>12. CASE \E i \in DamageAt, mask \in Masks : Damage(i, mask)
  BY <1>1, <1>12, DamageIInv
<1>13. CASE UNCHANGED vars
  BY <1>1, <1>13 DEF vars, IInv, TypeOK, Asked, Answering, Answered, Dropped, Crossing, RequestIntact,
       Delivered, AnswerIntactUnlessCut, AnswerIntact
<1>14. QED
  BY <1>1, <1>2, <1>3, <1>4, <1>5, <1>6, <1>7, <1>8, <1>9, <1>10, <1>11, <1>12, <1>13 DEF Next

LEMMA ExchangeInv == Spec => []IInv
BY InitIInv, StepIInv, PTL DEF Spec

\* The line holds bytes and a call ends in one of the results that the client
\* has, at every point of every exchange.
THEOREM ExchangeTypeOK == Spec => []TypeOK
<1>1. IInv => TypeOK
  BY DEF IInv
<1>2. QED
  BY <1>1, ExchangeInv, PTL

\* Whatever a program asks, of whatever slave, and whichever byte the line
\* changes: the service is called at most once, with exactly the request and the
\* slave id of the caller, and only when the request is within the limits of the
\* protocol and no broadcast (encode_request_into, encode_rtu_frame,
\* encode_ascii_frame, try_parse_server_rtu, try_parse_ascii, decode_request and
\* process_server_request together).
THEOREM ServiceCalledAsAsked == Spec => []RequestIntact
<1>1. IInv => RequestIntact
  BY DEF IInv
<1>2. QED
  BY <1>1, ExchangeInv, PTL

\* A value or an exception that a call returns is what the server answered, and a
\* write is reported as done only on its own echo, whatever byte the line changes
\* and whatever a hook makes up; in RTU for every answer that is no longer than
\* the one that the client expects (read_at_least with the target of
\* expected_rtu_pdu_len, check_crc, Response::try_from, the typed methods).
THEOREM AnswerReturnedAsGiven == Spec => []AnswerIntactUnlessCut
<1>1. IInv => AnswerIntactUnlessCut
  BY DEF IInv
<1>2. QED
  BY <1>1, ExchangeInv, PTL

\* In ASCII there is no such exception: AnswerIntact holds.
THEOREM AsciiAnswerIntact == Spec => [](proto = "ascii" => AnswerIntact)
<1>1. IInv => (proto = "ascii" => AnswerIntact)
  BY DEF IInv, AnswerIntactUnlessCut
<1>2. QED
  BY <1>1, ExchangeInv, PTL

\* On an undamaged line every legal request reaches the service or the hook, and
\* what they return reaches the caller, unless the hook makes up an answer of its
\* own: without waiting for the deadline when the service answers, and in RTU
\* after the deadline when it returns an exception that is shorter than what
\* RtuClient waits for.
THEOREM UndamagedDelivered == Spec => []Delivered
<1>1. IInv => Delivered
  BY DEF IInv
<1>2. QED
  BY <1>1, ExchangeInv, PTL
====
