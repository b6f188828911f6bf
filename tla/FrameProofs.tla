---- MODULE FrameProofs ----
(***************************************************************************)
(* What the other proofs need of words, bytes and PDUs, and the codec of    *)
(* frame.rs: what decode_request makes of what encode_request wrote, and    *)
(* the same for responses, for every value.                                 *)
(***************************************************************************)
EXTENDS Pdu, TLAPS

----------------------------------------------------------------------------
(* Numbers and bytes *)

LEMMA WordIs == U16_MAX \in Nat
BY DEF U16_MAX

LEMMA QuotientAndRest ==
  ASSUME NEW q \in Int, NEW m \in Int, 0 <= m, m <= 255
  PROVE  (256 * q + m) \div 256 = q /\ (256 * q + m) % 256 = m
<1>1. (256 * q + m) \div 256 = q
  BY Z3
<1>2. (256 * q + m) % 256 = m
  BY Z3
<1>3. QED
  BY <1>1, <1>2

LEMMA HalvesOfWord ==
  ASSUME NEW v \in Word
  PROVE  Hi(v) \in Byte /\ Lo(v) \in Byte /\ U16(Hi(v), Lo(v)) = v
<1>1. v \in Int /\ 0 <= v /\ v <= 65535
  BY Z3 DEF Word, U16_MAX
<1> DEFINE q == v \div 256
           m == v - 256 * q
<1>2. q \in Int
  BY <1>1, Z3
<1>3. m \in Int /\ 0 <= m /\ m <= 255
  BY <1>1, Z3
<1> HIDE DEF q
<1>4. v = 256 * q + m
  BY <1>1, <1>2, Z3
<1> HIDE DEF m
<1>5. 0 <= q /\ q <= 255
  BY <1>1, <1>2, <1>3, <1>4, Z3
<1>6. v % 256 = m
  BY <1>2, <1>3, <1>4, QuotientAndRest
<1>7. q % 256 = q
  BY <1>2, <1>5, Z3
<1>8. Hi(v) = q /\ Lo(v) = m
  BY <1>6, <1>7, Zenon DEF Hi, Lo, q
<1>9. q * 256 + m = v /\ q \in Byte /\ m \in Byte
  BY <1>2, <1>3, <1>4, <1>5, Z3 DEF Byte
<1>10. QED
  BY <1>8, <1>9, Zenon DEF U16

LEMMA NothingIsWord == U16(0, 0) = 0
BY DEF U16

LEMMA WordOfBytes ==
  ASSUME NEW a \in Byte, NEW b \in Byte
  PROVE  U16(a, b) \in Nat
BY DEF U16, Byte

----------------------------------------------------------------------------
(* Sequences of bytes *)

LEMMA Concatenation ==
  ASSUME NEW s \in Seq(Byte), NEW t \in Seq(Byte)
  PROVE  /\ s \o t \in Seq(Byte) /\ Len(s \o t) = Len(s) + Len(t)
         /\ \A i \in 1..Len(s) : (s \o t)[i] = s[i]
         /\ \A i \in 1..Len(t) : (s \o t)[Len(s) + i] = t[i]
OBVIOUS

LEMMA SameSequence ==
  ASSUME NEW s \in Seq(Byte), NEW t \in Seq(Byte), Len(s) = Len(t),
         \A i \in 1..Len(s) : s[i] = t[i]
  PROVE  s = t
OBVIOUS

\* A cut sequence is the two parts.
LEMMA Cut ==
  ASSUME NEW s \in Seq(Byte), NEW n \in 0..Len(s)
  PROVE  /\ SubSeq(s, 1, n) \in Seq(Byte) /\ SubSeq(s, n + 1, Len(s)) \in Seq(Byte)
         /\ Len(SubSeq(s, 1, n)) = n /\ Len(SubSeq(s, n + 1, Len(s))) = Len(s) - n
         /\ \A i \in 1..n : SubSeq(s, 1, n)[i] = s[i]
         /\ \A i \in 1..(Len(s) - n) : SubSeq(s, n + 1, Len(s))[i] = s[n + i]
OBVIOUS

\* What is left after the first n elements, however many there are.
LEMMA RestIs ==
  ASSUME NEW s \in Seq(Byte), NEW n \in Nat
  PROVE  SubSeq(s, n + 1, Len(s)) \in Seq(Byte)
OBVIOUS

LEMMA NothingLeft ==
  ASSUME NEW s \in Seq(Byte)
  PROVE  SubSeq(s, Len(s) + 1, Len(s)) = <<>>
OBVIOUS

----------------------------------------------------------------------------
(* Requests *)

\* decode_request takes standard function codes only.
LEMMA RequestCodeKnown ==
  ASSUME NEW p, IsRequest(p)
  PROVE  Len(p) > 0 /\ IsKnownFunctionCode(p[1])
<1>1. Len(p) > 0 /\ p[1] \in (1..6) \cup {8, 15, 16, 22, 23}
  BY Zenon DEF IsRequest
<1>2. ASSUME NEW n \in (1..6) \cup {8, 15, 16, 22, 23} PROVE n % 128 = n
  <2>1. n \in Int /\ 0 <= n /\ n <= 23
    BY <1>2
  <2>2. QED
    BY <2>1, Z3
<1>3. QED
  BY <1>1, <1>2, Zenon DEF IsKnownFunctionCode

----------------------------------------------------------------------------
(* Requests and responses *)

----------------------------------------------------------------------------
(* Words and coils as bytes *)

LEMMA EvenAndOdd ==
  ASSUME NEW i \in Int
  PROVE  /\ (2 * i - 1) % 2 = 1 /\ (2 * i) % 2 = 0
         /\ (2 * i - 1 + 1) \div 2 = i /\ (2 * i) \div 2 = i
BY Z3

\* Every word takes two bytes, which make up the word again.
LEMMA PutIs ==
  ASSUME NEW vs \in Seq(Word)
  PROVE  /\ PutU16s(vs) \in Seq(Byte) /\ Len(PutU16s(vs)) = 2 * Len(vs)
         /\ \A i \in 1..Len(vs) : U16(PutU16s(vs)[2 * i - 1], PutU16s(vs)[2 * i]) = vs[i]
<1> DEFINE n == Len(vs)
           p == PutU16s(vs)
<1>1. n \in Nat /\ \A i \in 1..n : vs[i] \in Word
  OBVIOUS
<1>2. p = [k \in 1..(2 * n) |-> IF k % 2 = 1 THEN Hi(vs[(k + 1) \div 2]) ELSE Lo(vs[k \div 2])]
  BY DEF PutU16s
<1> HIDE DEF n, p
<1>3. ASSUME NEW k \in 1..(2 * n) PROVE p[k] \in Byte
  <2>1. k \in Int /\ 1 <= k /\ k <= 2 * n
    BY <1>1, <1>3
  <2>2. p[k] = IF k % 2 = 1 THEN Hi(vs[(k + 1) \div 2]) ELSE Lo(vs[k \div 2])
    BY <1>2
  <2>3. CASE k % 2 = 1
    <3>1. (k + 1) \div 2 \in Int /\ 1 <= (k + 1) \div 2 /\ (k + 1) \div 2 <= n
      BY <1>1, <2>1, Z3
    <3>2. (k + 1) \div 2 \in 1..n
      BY <1>1, <3>1
    <3>3. QED
      BY <1>1, <2>2, <2>3, <3>2, HalvesOfWord, Zenon
  <2>4. CASE k % 2 # 1
    <3>1. k \div 2 \in Int /\ 1 <= k \div 2 /\ k \div 2 <= n
      BY <1>1, <2>1, <2>4, Z3
    <3>2. k \div 2 \in 1..n
      BY <1>1, <3>1
    <3>3. QED
      BY <1>1, <2>2, <2>4, <3>2, HalvesOfWord, Zenon
  <2>5. QED
    BY <2>3, <2>4
<1>4. p \in Seq(Byte) /\ Len(p) = 2 * n
  BY <1>1, <1>2, <1>3
<1>5. ASSUME NEW i \in 1..n PROVE U16(p[2 * i - 1], p[2 * i]) = vs[i]
  <2>1. i \in Int /\ 2 * i - 1 \in 1..(2 * n) /\ 2 * i \in 1..(2 * n)
    BY <1>1, <1>5
  <2>2. p[2 * i - 1] = Hi(vs[i])
    BY <1>2, <2>1, EvenAndOdd, Zenon
  <2>3. p[2 * i] = Lo(vs[i])
    <3>1. (2 * i) % 2 # 1 /\ (2 * i) \div 2 = i
      BY <2>1, EvenAndOdd
    <3>2. QED
      BY <1>2, <2>1, <3>1, Zenon
  <2>4. QED
    BY <1>1, <2>2, <2>3, HalvesOfWord, Zenon
<1>6. QED
  BY <1>4, <1>5 DEF n, p

\* The words read from bytes.
LEMMA WordsAre ==
  ASSUME NEW bs \in Seq(Byte), NEW vs \in Seq(Word), Len(bs) = 2 * Len(vs),
         \A i \in 1..Len(vs) : U16(bs[2 * i - 1], bs[2 * i]) = vs[i]
  PROVE  U16s(bs) = vs
<1> DEFINE n == Len(vs)
<1>1. n \in Nat
  OBVIOUS
<1>2. (2 * n) \div 2 = n
  BY <1>1, EvenAndOdd
<1>3. U16s(bs) = [i \in 1..n |-> U16(bs[2 * i - 1], bs[2 * i])]
  BY <1>2, Zenon DEF U16s
<1>4. vs = [i \in 1..n |-> vs[i]]
  OBVIOUS
<1>5. QED
  BY <1>3, <1>4, Zenon

Eight(a, b, c, d, e, f, g, h) ==
  a * 1 + b * 2 + c * 4 + d * 8 + e * 16 + f * 32 + g * 64 + h * 128

LEMMA BitValues ==
  /\ BitValue[1] = 1 /\ BitValue[2] = 2 /\ BitValue[3] = 4 /\ BitValue[4] = 8
  /\ BitValue[5] = 16 /\ BitValue[6] = 32 /\ BitValue[7] = 64 /\ BitValue[8] = 128
BY DEF BitValue

\* The i-th coil of the k-th byte, and the byte.
CoilOf(bits, k, i) == IF 8 * (k - 1) + i <= Len(bits) THEN bits[8 * (k - 1) + i] ELSE 0

ByteOf(bits, k) ==
  Eight(CoilOf(bits, k, 1), CoilOf(bits, k, 2), CoilOf(bits, k, 3), CoilOf(bits, k, 4),
        CoilOf(bits, k, 5), CoilOf(bits, k, 6), CoilOf(bits, k, 7), CoilOf(bits, k, 8))

LEMMA CoilIsBit ==
  ASSUME NEW bits \in Seq(Bit), NEW k \in Int, k >= 1, NEW i \in 1..8
  PROVE  CoilOf(bits, k, i) \in Bit
<1> DEFINE p == 8 * (k - 1) + i
<1>1. p \in Int /\ p >= 1 /\ Len(bits) \in Nat
  OBVIOUS
<1>2. CASE p <= Len(bits)
  <2>1. p \in 1..Len(bits)
    BY <1>1, <1>2
  <2>2. bits[p] \in Bit
    BY <2>1
  <2>3. QED
    BY <1>2, <2>2 DEF CoilOf
<1>3. CASE ~(p <= Len(bits))
  BY <1>3 DEF CoilOf, Bit
<1>4. QED
  BY <1>2, <1>3

LEMMA TermIs ==
  ASSUME NEW bits \in Seq(Bit), NEW k \in Int, k >= 1, NEW i \in 1..8, NEW w \in Nat, BitValue[i] = w
  PROVE  (IF 8 * (k - 1) + i <= Len(bits) THEN bits[8 * (k - 1) + i] * BitValue[i] ELSE 0)
           = CoilOf(bits, k, i) * w
<1>1. 0 * w = 0
  OBVIOUS
<1>2. QED
  BY <1>1, Zenon DEF CoilOf

\* Every byte holds eight coils; those after the last one are 0.
LEMMA PackIs ==
  ASSUME NEW bits \in Seq(Bit)
  PROVE  PackBits(bits) = [k \in 1..((Len(bits) + 7) \div 8) |-> ByteOf(bits, k)]
<1> DEFINE bit(k, i) == IF 8 * (k - 1) + i <= Len(bits) THEN bits[8 * (k - 1) + i] * BitValue[i] ELSE 0
           sum(k) == bit(k, 1) + bit(k, 2) + bit(k, 3) + bit(k, 4) + bit(k, 5) + bit(k, 6) + bit(k, 7)
                       + bit(k, 8)
           n == (Len(bits) + 7) \div 8
<1>1. n \in Int
  BY Z3
<1>2. PackBits(bits) = [k \in 1..n |-> sum(k)]
  BY Zenon DEF PackBits
<1> HIDE DEF n
<1>3. ASSUME NEW k \in 1..n PROVE sum(k) = ByteOf(bits, k)
  <2>1. k \in Int /\ k >= 1
    BY <1>1, <1>3
  <2>2. \A i \in 1..8, w \in Nat : BitValue[i] = w => bit(k, i) = CoilOf(bits, k, i) * w
    BY <2>1, TermIs, Zenon
  <2> HIDE DEF bit
  <2>3. /\ bit(k, 1) = CoilOf(bits, k, 1) * 1 /\ bit(k, 2) = CoilOf(bits, k, 2) * 2
        /\ bit(k, 3) = CoilOf(bits, k, 3) * 4 /\ bit(k, 4) = CoilOf(bits, k, 4) * 8
        /\ bit(k, 5) = CoilOf(bits, k, 5) * 16 /\ bit(k, 6) = CoilOf(bits, k, 6) * 32
        /\ bit(k, 7) = CoilOf(bits, k, 7) * 64 /\ bit(k, 8) = CoilOf(bits, k, 8) * 128
    BY <2>2, BitValues
  <2>4. QED
    BY <2>3, Zenon DEF ByteOf, Eight
<1> HIDE DEF sum
<1>4. [k \in 1..n |-> sum(k)] = [k \in 1..n |-> ByteOf(bits, k)]
  BY <1>3
<1>5. QED
  BY <1>2, <1>4 DEF n

LEMMA BytesNeeded ==
  ASSUME NEW n \in Nat
  PROVE  /\ (n + 7) \div 8 \in Nat
         /\ 8 * ((n + 7) \div 8) >= n /\ 8 * ((n + 7) \div 8) <= n + 7
<1>1. (n + 7) \div 8 \in Int /\ (n + 7) \div 8 >= 0
  BY Z3
<1>2. 8 * ((n + 7) \div 8) >= n /\ 8 * ((n + 7) \div 8) <= n + 7
  BY Z3
<1>3. QED
  BY <1>1, <1>2

LEMMA ByteIsByte ==
  ASSUME NEW bits \in Seq(Bit), NEW k \in Int, k >= 1
  PROVE  /\ ByteOf(bits, k) \in Byte
         /\ \A i \in 1..8 : (ByteOf(bits, k) \div BitValue[i]) % 2 = CoilOf(bits, k, i)
<1> DEFINE c(i) == CoilOf(bits, k, i)
           s == ByteOf(bits, k)
<1>1. \A i \in 1..8 : c(i) \in Bit
  BY CoilIsBit
<1>2. s = Eight(c(1), c(2), c(3), c(4), c(5), c(6), c(7), c(8))
  BY Zenon DEF ByteOf
<1> HIDE DEF c, s
<1>3. /\ c(1) \in Bit /\ c(2) \in Bit /\ c(3) \in Bit /\ c(4) \in Bit
      /\ c(5) \in Bit /\ c(6) \in Bit /\ c(7) \in Bit /\ c(8) \in Bit
  BY <1>1
<1>4. /\ s \in Byte
      /\ (s \div 1) % 2 = c(1) /\ (s \div 2) % 2 = c(2) /\ (s \div 4) % 2 = c(3)
      /\ (s \div 8) % 2 = c(4) /\ (s \div 16) % 2 = c(5) /\ (s \div 32) % 2 = c(6)
      /\ (s \div 64) % 2 = c(7) /\ (s \div 128) % 2 = c(8)
  <2>1. PICK a \in Bit : a = c(1)
    BY <1>3
  <2>2. PICK b \in Bit : b = c(2)
    BY <1>3
  <2>3. PICK cc \in Bit : cc = c(3)
    BY <1>3
  <2>4. PICK d \in Bit : d = c(4)
    BY <1>3
  <2>5. PICK e \in Bit : e = c(5)
    BY <1>3
  <2>6. PICK f \in Bit : f = c(6)
    BY <1>3
  <2>7. PICK g \in Bit : g = c(7)
    BY <1>3
  <2>8. PICK h \in Bit : h = c(8)
    BY <1>3
  <2>9. s = a * 1 + b * 2 + cc * 4 + d * 8 + e * 16 + f * 32 + g * 64 + h * 128
    BY <1>2, <2>1, <2>2, <2>3, <2>4, <2>5, <2>6, <2>7, <2>8, Zenon DEF Eight
  <2>10. s \in Byte
    BY <2>9, Z3 DEF Bit, Byte
  <2>11. (s \div 1) % 2 = a
    BY <2>9, Z3 DEF Bit
  <2>12. (s \div 2) % 2 = b
    BY <2>9, Z3 DEF Bit
  <2>13. (s \div 4) % 2 = cc
    BY <2>9, Z3 DEF Bit
  <2>14. (s \div 8) % 2 = d
    BY <2>9, Z3 DEF Bit
  <2>15. (s \div 16) % 2 = e
    BY <2>9, Z3 DEF Bit
  <2>16. (s \div 32) % 2 = f
    BY <2>9, Z3 DEF Bit
  <2>17. (s \div 64) % 2 = g
    BY <2>9, Z3 DEF Bit
  <2>18. (s \div 128) % 2 = h
    BY <2>9, Z3 DEF Bit
  <2>19. QED
    BY <2>1, <2>2, <2>3, <2>4, <2>5, <2>6, <2>7, <2>8, <2>10, <2>11, <2>12, <2>13, <2>14, <2>15, <2>16, <2>17, <2>18, Zenon
<1>5. ASSUME NEW i \in 1..8 PROVE (s \div BitValue[i]) % 2 = c(i)
  <2>1. i = 1 \/ i = 2 \/ i = 3 \/ i = 4 \/ i = 5 \/ i = 6 \/ i = 7 \/ i = 8
    OBVIOUS
  <2>2. QED
    BY <1>4, <2>1, BitValues, Zenon
<1>6. QED
  BY <1>4, <1>5 DEF c, s

LEMMA Position ==
  ASSUME NEW j \in Int, j >= 1
  PROVE  \E k \in Int : \E i \in 1..8 :
           k >= 1 /\ j = 8 * (k - 1) + i /\ (j + 7) \div 8 = k /\ 1 + ((j - 1) % 8) = i
<1> DEFINE k == (j + 7) \div 8
           i == j - 8 * (k - 1)
<1>1. k \in Int /\ k >= 1
  BY Z3
<1>2. i >= 1 /\ i <= 8 /\ i \in Int
  BY Z3
<1>3. 1 + ((j - 1) % 8) = i
  BY Z3
<1> HIDE DEF k
<1>4. j = 8 * (k - 1) + i
  BY <1>1
<1> HIDE DEF i
<1>5. i \in 1..8
  BY <1>2
<1>6. QED
  BY <1>1, <1>3, <1>4, <1>5 DEF k

\* Coils come back in their place, with zeros up to the end of the last byte.
LEMMA CoilsBack ==
  ASSUME NEW bits \in Seq(Bit)
  PROVE  /\ PackBits(bits) \in Seq(Byte) /\ Len(PackBits(bits)) = (Len(bits) + 7) \div 8
         /\ UnpackBits(PackBits(bits))
              = [j \in 1..(8 * ((Len(bits) + 7) \div 8)) |-> IF j <= Len(bits) THEN bits[j] ELSE 0]
<1> DEFINE n == Len(bits)
           m == (n + 7) \div 8
           p == PackBits(bits)
           u(j) == (p[(j + 7) \div 8] \div BitValue[1 + ((j - 1) % 8)]) % 2
           v(j) == IF j <= n THEN bits[j] ELSE 0
<1>1. n \in Nat /\ m \in Nat
  BY BytesNeeded
<1>2. p = [k \in 1..m |-> ByteOf(bits, k)]
  BY PackIs
<1> HIDE DEF p, m
<1>3. \A k \in 1..m : p[k] = ByteOf(bits, k) /\ p[k] \in Byte
  <2>1. \A k \in 1..m : k \in Int /\ k >= 1
    BY <1>1
  <2>2. QED
    BY <1>2, <2>1, ByteIsByte, Zenon
<1>4. p \in Seq(Byte) /\ Len(p) = m
  BY <1>1, <1>2, <1>3
<1>5. ASSUME NEW j \in 1..(8 * m) PROVE u(j) = v(j)
  <2>1. j \in Int /\ j >= 1 /\ j <= 8 * m
    BY <1>1, <1>5
  <2>2. PICK k \in Int : \E i \in 1..8 :
           k >= 1 /\ j = 8 * (k - 1) + i /\ (j + 7) \div 8 = k /\ 1 + ((j - 1) % 8) = i
    BY <2>1, Position
  <2>3. PICK i \in 1..8 :
           k >= 1 /\ j = 8 * (k - 1) + i /\ (j + 7) \div 8 = k /\ 1 + ((j - 1) % 8) = i
    BY <2>2
  <2>4. k \in 1..m
    BY <1>1, <2>1, <2>3
  <2>5. u(j) = (ByteOf(bits, k) \div BitValue[i]) % 2
    BY <1>3, <2>3, <2>4, Zenon
  <2>6. (ByteOf(bits, k) \div BitValue[i]) % 2 = CoilOf(bits, k, i)
    BY <2>3, ByteIsByte, Zenon
  <2>7. CoilOf(bits, k, i) = v(j)
    BY <2>3, Zenon DEF CoilOf
  <2>8. QED
    BY <2>5, <2>6, <2>7, Zenon
<1>6. UnpackBits(p) = [j \in 1..(8 * m) |-> u(j)]
  BY <1>4, Zenon DEF UnpackBits
<1> HIDE DEF u, v
<1>7. UnpackBits(p) = [j \in 1..(8 * m) |-> v(j)]
  BY <1>5, <1>6
<1>8. QED
  BY <1>4, <1>7 DEF p, m, v

LEMMA FirstCoils ==
  ASSUME NEW bits \in Seq(Bit)
  PROVE  SubSeq(UnpackBits(PackBits(bits)), 1, Len(bits)) = bits
<1> DEFINE n == Len(bits)
           m == 8 * ((n + 7) \div 8)
           u == UnpackBits(PackBits(bits))
<1>1. n \in Nat /\ m \in Nat /\ n <= m
  BY BytesNeeded
<1>2. u = [j \in 1..m |-> IF j <= n THEN bits[j] ELSE 0]
  BY CoilsBack
<1> HIDE DEF m, u
<1>3. \A j \in 1..n : bits[j] \in Bit /\ j \in 1..m /\ u[j] = bits[j]
  BY <1>1, <1>2
<1>4. \A j \in 1..m : u[j] \in Bit
  <2>1. ASSUME NEW j \in 1..m PROVE u[j] \in Bit
    <3>1. CASE j <= n
      <4>1. j \in 1..n
        BY <1>1, <2>1, <3>1
      <4>2. QED
        BY <1>3, <4>1
    <3>2. CASE ~(j <= n)
      BY <1>2, <3>2 DEF Bit
    <3>3. QED
      BY <3>1, <3>2
  <2>2. QED
    BY <2>1
<1>5. u \in Seq(Bit) /\ Len(u) = m
  BY <1>1, <1>2, <1>4
<1>6. /\ SubSeq(u, 1, n) \in Seq(Bit) /\ Len(SubSeq(u, 1, n)) = n
      /\ \A j \in 1..n : SubSeq(u, 1, n)[j] = u[j]
  BY <1>1, <1>5
<1> DEFINE w == SubSeq(u, 1, n)
<1>7. w \in Seq(Bit) /\ Len(w) = Len(bits) /\ \A j \in 1..Len(bits) : w[j] = bits[j]
  BY <1>3, <1>6
<1> HIDE DEF w
<1>8. w = bits
  BY <1>7
<1>9. QED
  BY <1>8 DEF w, u

----------------------------------------------------------------------------
(* Requests *)

PayloadOf(q) == IF q.fc = 15 THEN PackBits(q.values) ELSE PutU16s(q.values)
CountedOf(q) == IF HasPayload(q.fc) THEN <<Len(PayloadOf(q))>> \o PayloadOf(q) ELSE <<>>

\* An encoded request.
BytesOf(q) == (<<q.fc>> \o PutU16s(RequestFields(q))) \o CountedOf(q)

LEMMA ValueIs ==
  ASSUME NEW q \in RequestValues
  PROVE  /\ q.fc \in Codes /\ q.args \in Seq(Word) /\ q.values \in Seq(Word)
         /\ Len(q.args) = IF HasPayload(q.fc) THEN FieldCount(q.fc) - 1 ELSE FieldCount(q.fc)
         /\ ~HasPayload(q.fc) => q.values = <<>>
         /\ q.fc = 5 => q.args[2] \in Bit
         /\ q.fc = 15 => q.values \in Seq(Bit)
         /\ q = [fc |-> q.fc, args |-> q.args, values |-> q.values]
BY DEF RequestValues

LEMMA CodeIs ==
  ASSUME NEW fc \in Codes
  PROVE  /\ fc \in Byte /\ fc # 0 /\ FieldCount(fc) \in 2..4
         /\ fc = 22 => FieldCount(fc) = 3 /\ ~HasPayload(fc)
         /\ fc = 23 => FieldCount(fc) = 4
         /\ fc \notin {22, 23} => FieldCount(fc) = 2
         /\ HasPayload(fc) <=> fc \in {15, 16, 23}
         /\ HasPayload(fc) \in BOOLEAN
BY DEF Codes, Byte, FieldCount, HasPayload

LEMMA PayloadIs ==
  ASSUME NEW q \in RequestValues
  PROVE  /\ PayloadOf(q) \in Seq(Byte)
         /\ q.fc = 15 => Len(PayloadOf(q)) = (Len(q.values) + 7) \div 8
         /\ q.fc # 15 => Len(PayloadOf(q)) = 2 * Len(q.values)
<1>1. CASE q.fc = 15
  BY <1>1, ValueIs, CoilsBack DEF PayloadOf
<1>2. CASE q.fc # 15
  BY <1>2, ValueIs, PutIs DEF PayloadOf
<1>3. QED
  BY <1>1, <1>2

LEMMA EncodedParts ==
  ASSUME NEW q \in RequestValues, NEW pdu \in EncodeRequest(q)
  PROVE  /\ pdu = BytesOf(q)
         /\ Len(PayloadOf(q)) \in Nat /\ Len(PayloadOf(q)) <= 255 /\ ~(Len(pdu) > 253)
<1> DEFINE x == BytesOf(q)
           n == Len(PayloadOf(q))
<1>1. q.fc # 0
  BY ValueIs, CodeIs
<1>2. EncodeRequest(q) = Checked(n, x)
  BY <1>1, Zenon DEF EncodeRequest, PayloadOf, CountedOf, BytesOf
<1>3. n \in Nat
  BY PayloadIs
<1> HIDE DEF x, n
<1>4. pdu = x /\ ~(n > 255) /\ ~(Len(pdu) > 253)
  BY <1>2, Zenon DEF Checked, MAX_PDU_SIZE
<1>5. n <= 255
  BY <1>3, <1>4
<1>6. QED
  BY <1>3, <1>4, <1>5 DEF x, n

LEMMA CoilFieldIs ==
  ASSUME NEW b \in Bit
  PROVE  CoilField(b) \in Word /\ CoilField(b) \in {0, 65280} /\ CoilBit(CoilField(b)) = b
<1>1. CASE b = 0
  <2>1. CoilField(b) = 0
    BY <1>1 DEF CoilField
  <2>2. QED
    BY <1>1, <2>1, WordIs DEF CoilBit, Word
<1>2. CASE b = 1
  <2>1. CoilField(b) = 65280
    BY <1>2 DEF CoilField
  <2>2. 65280 <= U16_MAX
    BY DEF U16_MAX
  <2>3. CoilField(b) \in Word
    BY <2>1, <2>2, WordIs DEF Word
  <2>4. QED
    BY <1>2, <2>1, <2>3 DEF CoilBit
<1>3. QED
  BY <1>1, <1>2 DEF Bit

\* A number of values that is encoded fits into its field.
LEMMA CountFits ==
  ASSUME NEW q \in RequestValues, Len(PayloadOf(q)) <= 255
  PROVE  Len(q.values) \in Word /\ AsU16(Len(q.values)) = Len(q.values) /\ Len(q.values) <= 2040
<1> DEFINE n == Len(q.values)
<1>1. n \in Nat
  BY ValueIs
<1>2. n <= 2040
  <2>1. CASE q.fc = 15
    <3>1. (n + 7) \div 8 <= 255
      BY <2>1, PayloadIs
    <3> HIDE DEF n
    <3>2. QED
      BY <1>1, <3>1, Z3
  <2>2. CASE q.fc # 15
    <3>1. 2 * n <= 255
      BY <2>2, PayloadIs
    <3> HIDE DEF n
    <3>2. QED
      BY <1>1, <3>1
  <2>3. QED
    BY <2>1, <2>2
<1> HIDE DEF n
<1>3. AsU16(n) = n
  BY <1>1, <1>2, Z3 DEF AsU16
<1>4. n <= U16_MAX
  BY <1>1, <1>2, Z3 DEF U16_MAX
<1>5. n \in Word
  BY <1>1, <1>4, WordIs DEF Word
<1>6. QED
  BY <1>2, <1>3, <1>5 DEF n

LEMMA FieldsAre ==
  ASSUME NEW q \in RequestValues, Len(PayloadOf(q)) <= 255
  PROVE  /\ RequestFields(q) \in Seq(Word) /\ Len(RequestFields(q)) = FieldCount(q.fc)
         /\ q.fc = 5 => RequestFields(q) = <<q.args[1], CoilField(q.args[2])>>
         /\ HasPayload(q.fc) => RequestFields(q) = Append(q.args, Len(q.values))
         /\ q.fc # 5 /\ ~HasPayload(q.fc) => RequestFields(q) = q.args
<1> DEFINE fs == RequestFields(q)
<1>1. /\ q.args \in Seq(Word) /\ q.fc \in Codes
      /\ Len(q.args) = IF HasPayload(q.fc) THEN FieldCount(q.fc) - 1 ELSE FieldCount(q.fc)
  BY ValueIs, Zenon
<1>2. /\ FieldCount(q.fc) \in 2..4 /\ (q.fc = 5 => FieldCount(q.fc) = 2 /\ ~HasPayload(q.fc))
      /\ HasPayload(q.fc) \in BOOLEAN
  BY <1>1, CodeIs
<1>3. CASE q.fc = 5
  <2>1. fs = <<q.args[1], CoilField(q.args[2])>>
    BY <1>2, <1>3, Zenon DEF RequestFields
  <2>2. Len(q.args) = 2
    BY <1>1, <1>2, <1>3
  <2>3. q.args[1] \in Word /\ CoilField(q.args[2]) \in Word
    BY <1>1, <1>3, <2>2, ValueIs, CoilFieldIs
  <2>4. fs \in Seq(Word) /\ Len(fs) = 2
    BY <2>1, <2>3
  <2>5. QED
    BY <1>2, <1>3, <2>1, <2>4
<1>4. CASE HasPayload(q.fc) /\ q.fc # 5
  <2>1. fs = Append(q.args, Len(q.values))
    <3>1. fs = Append(q.args, AsU16(Len(q.values)))
      BY <1>4, Zenon DEF RequestFields
    <3>2. QED
      BY <3>1, CountFits
  <2>2. Len(q.values) \in Word
    BY CountFits
  <2>3. fs \in Seq(Word) /\ Len(fs) = Len(q.args) + 1
    BY <1>1, <2>1, <2>2
  <2>4. Len(fs) = FieldCount(q.fc)
    BY <1>1, <1>2, <1>4, <2>3
  <2>5. QED
    BY <1>4, <2>1, <2>3, <2>4
<1>5. CASE ~HasPayload(q.fc) /\ q.fc # 5
  <2>1. fs = q.args
    BY <1>5 DEF RequestFields
  <2>2. QED
    BY <1>1, <1>5, <2>1
<1>6. QED
  BY <1>2, <1>3, <1>4, <1>5

LEMMA CountedIs ==
  ASSUME NEW q \in RequestValues, Len(PayloadOf(q)) <= 255
  PROVE  /\ CountedOf(q) \in Seq(Byte)
         /\ HasPayload(q.fc) =>
              /\ Len(CountedOf(q)) = 1 + Len(PayloadOf(q))
              /\ CountedOf(q)[1] = Len(PayloadOf(q))
              /\ \A i \in 1..Len(PayloadOf(q)) : CountedOf(q)[1 + i] = PayloadOf(q)[i]
         /\ ~HasPayload(q.fc) => Len(CountedOf(q)) = 0
<1> DEFINE p == PayloadOf(q)
           c == CountedOf(q)
<1>1. p \in Seq(Byte) /\ Len(p) \in Byte
  <2>1. p \in Seq(Byte)
    BY PayloadIs
  <2> HIDE DEF p
  <2>2. Len(p) \in Nat
    BY <2>1
  <2>3. Len(p) <= 255
    BY DEF p
  <2>4. Len(p) \in Byte
    <3> DEFINE k == Len(p)
    <3>1. k \in Nat /\ k <= 255
      BY <2>2, <2>3
    <3> HIDE DEF k
    <3>2. k \in Byte
      BY <3>1 DEF Byte
    <3>3. QED
      BY <3>2 DEF k
  <2>5. QED
    BY <2>1, <2>4
<1>2. CASE HasPayload(q.fc)
  <2>1. c = <<Len(p)>> \o p
    BY <1>2, Zenon DEF CountedOf
  <2> HIDE DEF c, p
  <2>2. <<Len(p)>> \in Seq(Byte) /\ Len(<<Len(p)>>) = 1 /\ <<Len(p)>>[1] = Len(p)
    BY <1>1
  <2> DEFINE h == <<Len(p)>>
  <2> HIDE DEF h
  <2>3. /\ h \o p \in Seq(Byte) /\ Len(h \o p) = 1 + Len(p)
        /\ (\A i \in 1..1 : (h \o p)[i] = h[i]) /\ \A i \in 1..Len(p) : (h \o p)[1 + i] = p[i]
    <3>1. h \in Seq(Byte) /\ Len(h) = 1
      BY <2>2 DEF h
    <3>2. /\ h \o p \in Seq(Byte) /\ Len(h \o p) = Len(h) + Len(p)
          /\ (\A i \in 1..Len(h) : (h \o p)[i] = h[i]) /\ \A i \in 1..Len(p) : (h \o p)[Len(h) + i] = p[i]
      BY <1>1, <3>1, Concatenation, Zenon
    <3>3. QED
      BY <3>1, <3>2, Zenon
  <2>4. 1 \in 1..1
    OBVIOUS
  <2>5. c[1] = Len(p)
    BY <2>1, <2>2, <2>3, <2>4, Zenon DEF h
  <2>6. QED
    BY <1>2, <2>1, <2>3, <2>5, Zenon DEF c, p, h
<1>3. CASE ~HasPayload(q.fc)
  <2>1. c = <<>>
    BY <1>3, Zenon DEF CountedOf
  <2>2. QED
    BY <1>3, <2>1
<1>4. QED
  BY <1>2, <1>3

\* An encoded request, byte by byte.
LEMMA BytesAre ==
  ASSUME NEW q \in RequestValues, Len(PayloadOf(q)) <= 255
  PROVE  /\ BytesOf(q) \in Seq(Byte)
         /\ Len(BytesOf(q)) = 1 + 2 * FieldCount(q.fc) + Len(CountedOf(q))
         /\ BytesOf(q)[1] = q.fc
         /\ \A k \in 1..(2 * FieldCount(q.fc)) : BytesOf(q)[1 + k] = PutU16s(RequestFields(q))[k]
         /\ \A i \in 1..Len(CountedOf(q)) :
              BytesOf(q)[1 + 2 * FieldCount(q.fc) + i] = CountedOf(q)[i]
<1> DEFINE h == <<q.fc>>
           p == PutU16s(RequestFields(q))
           c == CountedOf(q)
           hp == h \o p
           n == FieldCount(q.fc)
           pdu == BytesOf(q)
<1>1. Len(PayloadOf(q)) <= 255 /\ pdu = hp \o c
  BY DEF BytesOf
<1>2. h \in Seq(Byte) /\ Len(h) = 1 /\ h[1] = q.fc
  <2>1. q.fc \in Byte
    BY ValueIs, CodeIs
  <2>2. QED
    BY <2>1
<1>3. n \in Nat /\ p \in Seq(Byte) /\ Len(p) = 2 * n
  <2>1. n \in Nat
    BY ValueIs, CodeIs
  <2> DEFINE fs == RequestFields(q)
  <2>2. fs \in Seq(Word) /\ Len(fs) = n
    BY <1>1, FieldsAre, Zenon
  <2> HIDE DEF fs
  <2>3. PutU16s(fs) \in Seq(Byte) /\ Len(PutU16s(fs)) = 2 * Len(fs)
    BY <2>2, PutIs, Zenon
  <2>4. QED
    BY <2>1, <2>2, <2>3, Zenon DEF fs
<1>4. c \in Seq(Byte) /\ Len(c) \in Nat
  <2>1. c \in Seq(Byte)
    BY <1>1, CountedIs, Zenon
  <2> HIDE DEF c
  <2>2. QED
    BY <2>1
<1> HIDE DEF h, p, c, n, pdu
<1>5. /\ hp \in Seq(Byte) /\ Len(hp) = 1 + 2 * n
      /\ (\A i \in 1..1 : hp[i] = h[i]) /\ \A i \in 1..(2 * n) : hp[1 + i] = p[i]
  <2>1. /\ hp \in Seq(Byte) /\ Len(hp) = Len(h) + Len(p)
        /\ (\A i \in 1..Len(h) : hp[i] = h[i]) /\ \A i \in 1..Len(p) : hp[Len(h) + i] = p[i]
    BY <1>2, <1>3, Concatenation, Zenon
  <2>2. QED
    BY <1>2, <1>3, <2>1, Zenon
<1> HIDE DEF hp
<1>6. /\ pdu \in Seq(Byte) /\ Len(pdu) = Len(hp) + Len(c)
      /\ (\A i \in 1..Len(hp) : pdu[i] = hp[i]) /\ \A i \in 1..Len(c) : pdu[Len(hp) + i] = c[i]
  <2>1. /\ hp \o c \in Seq(Byte) /\ Len(hp \o c) = Len(hp) + Len(c)
        /\ (\A i \in 1..Len(hp) : (hp \o c)[i] = hp[i]) /\ \A i \in 1..Len(c) : (hp \o c)[Len(hp) + i] = c[i]
    BY <1>4, <1>5, Concatenation, Zenon
  <2>2. QED
    BY <1>1, <2>1
<1>7. \A i \in 1..Len(c) : pdu[1 + 2 * n + i] = c[i]
  BY <1>5, <1>6, Zenon
<1>8. Len(pdu) = 1 + 2 * n + Len(c)
  BY <1>5, <1>6, Zenon
<1>9. pdu[1] = q.fc
  <2>1. 1 \in 1..1 /\ 1 \in 1..Len(hp)
    BY <1>3, <1>5
  <2>2. QED
    BY <1>2, <1>5, <1>6, <2>1, Zenon
<1>10. \A k \in 1..(2 * n) : pdu[1 + k] = p[k]
  <2>1. \A k \in 1..(2 * n) : 1 + k \in 1..Len(hp)
    BY <1>3, <1>5
  <2>2. QED
    BY <1>5, <1>6, <2>1, Zenon
<1>11. QED
  BY <1>6, <1>7, <1>8, <1>9, <1>10 DEF c, p, n, pdu

LEMMA EncodedIs ==
  ASSUME NEW q \in RequestValues, NEW pdu \in EncodeRequest(q), NEW n, n = FieldCount(q.fc)
  PROVE  /\ pdu \in Seq(Byte) /\ Len(pdu) = 1 + 2 * n + Len(CountedOf(q)) /\ Len(pdu) <= 253
         /\ pdu[1] = q.fc
         /\ \A k \in 1..(2 * n) : pdu[1 + k] = PutU16s(RequestFields(q))[k]
         /\ \A i \in 1..Len(CountedOf(q)) : pdu[1 + 2 * n + i] = CountedOf(q)[i]
<1>1. /\ Len(PayloadOf(q)) <= 255 /\ ~(Len(pdu) > 253)
      /\ pdu = BytesOf(q)
  BY EncodedParts
<1>2. /\ pdu \in Seq(Byte) /\ Len(pdu) = 1 + 2 * n + Len(CountedOf(q)) /\ pdu[1] = q.fc
      /\ \A k \in 1..(2 * n) : pdu[1 + k] = PutU16s(RequestFields(q))[k]
      /\ \A i \in 1..Len(CountedOf(q)) : pdu[1 + 2 * n + i] = CountedOf(q)[i]
  BY <1>1, BytesAre
<1>3. Len(pdu) <= 253
  <2>1. pdu \in Seq(Byte) /\ ~(Len(pdu) > 253)
    BY <1>1, <1>2
  <2>2. QED
    BY <2>1
<1>4. QED
  BY <1>2, <1>3, Zenon

LEMMA Part ==
  ASSUME NEW s \in Seq(Byte), NEW m \in Nat, NEW l \in Nat, m + l <= Len(s)
  PROVE  /\ SubSeq(s, m + 1, m + l) \in Seq(Byte) /\ Len(SubSeq(s, m + 1, m + l)) = l
         /\ \A i \in 1..l : SubSeq(s, m + 1, m + l)[i] = s[m + i]
OBVIOUS

LEMMA FieldIs ==
  ASSUME NEW q \in RequestValues, NEW pdu \in EncodeRequest(q), NEW n, n = FieldCount(q.fc)
  PROVE  /\ \A k \in 1..n : U16(pdu[2 * k], pdu[2 * k + 1]) = RequestFields(q)[k]
         /\ U16s(SubSeq(pdu, 2, 1 + 2 * n)) = RequestFields(q)
<1> DEFINE fs == RequestFields(q)
           p == PutU16s(fs)
           bs == SubSeq(pdu, 2, 1 + 2 * n)
<1>1. n \in Nat /\ fs \in Seq(Word) /\ Len(fs) = n
  <2>1. n \in Nat
    BY ValueIs, CodeIs
  <2>2. fs \in Seq(Word) /\ Len(fs) = n
    BY EncodedParts, FieldsAre, Zenon
  <2>3. QED
    BY <2>1, <2>2
<1>2. pdu \in Seq(Byte) /\ 1 + 2 * n <= Len(pdu) /\ \A k \in 1..(2 * n) : pdu[1 + k] = p[k]
  <2> DEFINE c == CountedOf(q)
  <2>1. pdu \in Seq(Byte) /\ Len(pdu) = 1 + 2 * n + Len(c) /\ \A k \in 1..(2 * n) : pdu[1 + k] = p[k]
    BY EncodedIs, Zenon
  <2>2. c \in Seq(Byte)
    BY EncodedParts, CountedIs
  <2> HIDE DEF c, p
  <2>3. Len(c) \in Nat
    BY <2>2
  <2>4. 1 + 2 * n <= Len(pdu)
    BY <1>1, <2>1, <2>3
  <2>5. QED
    BY <2>1, <2>4
<1> HIDE DEF fs
<1>3. \A k \in 1..n : U16(p[2 * k - 1], p[2 * k]) = fs[k]
  BY <1>1, PutIs, Zenon
<1> HIDE DEF p
<1>4. ASSUME NEW k \in 1..n PROVE U16(pdu[2 * k], pdu[2 * k + 1]) = fs[k]
  <2>1. 2 * k - 1 \in 1..(2 * n) /\ 2 * k \in 1..(2 * n) /\ 1 + (2 * k - 1) = 2 * k /\ 1 + 2 * k = 2 * k + 1
    BY <1>1
  <2>2. pdu[2 * k] = p[2 * k - 1] /\ pdu[2 * k + 1] = p[2 * k]
    BY <1>2, <2>1, Zenon
  <2>3. QED
    BY <1>3, <2>2, Zenon
<1>5. bs \in Seq(Byte) /\ Len(bs) = 2 * n /\ \A j \in 1..(2 * n) : bs[j] = pdu[1 + j]
  <2> DEFINE m == 1
             l == 2 * n
  <2>1. m \in Nat /\ l \in Nat /\ 2 = m + 1 /\ m + l <= Len(pdu)
    BY <1>1, <1>2
  <2>2. bs = SubSeq(pdu, 2, m + l)
    OBVIOUS
  <2> HIDE DEF m, l, bs
  <2>3. bs = SubSeq(pdu, m + 1, m + l)
    BY <2>1, <2>2, Zenon
  <2>4. bs \in Seq(Byte) /\ Len(bs) = l /\ \A j \in 1..l : bs[j] = pdu[m + j]
    BY <1>2, <2>1, <2>3, Part, Zenon
  <2>5. QED
    BY <2>4, Zenon DEF m, l
<1> HIDE DEF bs
<1>6. \A k \in 1..n : U16(bs[2 * k - 1], bs[2 * k]) = fs[k]
  <2>1. \A k \in 1..n : 2 * k - 1 \in 1..(2 * n) /\ 2 * k \in 1..(2 * n)
    BY <1>1
  <2>2. QED
    BY <1>2, <1>3, <1>5, <2>1, Zenon
<1>7. U16s(bs) = fs
  BY <1>1, <1>5, <1>6, WordsAre, Zenon
<1>8. QED
  BY <1>4, <1>7 DEF fs, bs

LEMMA PayloadBack ==
  ASSUME NEW q \in RequestValues, NEW pdu \in EncodeRequest(q), NEW n, n = FieldCount(q.fc)
  PROVE  /\ RequestLen(pdu) = Len(pdu)
         /\ HasPayload(q.fc) =>
              /\ Len(pdu) = 2 + 2 * n + Len(PayloadOf(q)) /\ pdu[2 + 2 * n] = Len(PayloadOf(q))
              /\ SubSeq(pdu, 3 + 2 * n, Len(pdu)) = PayloadOf(q)
<1> DEFINE c == CountedOf(q)
           p == PayloadOf(q)
           fixed == 1 + 2 * n
<1>1. /\ pdu \in Seq(Byte) /\ Len(pdu) = fixed + Len(c)
      /\ pdu[1] = q.fc /\ \A i \in 1..Len(c) : pdu[fixed + i] = c[i]
  BY EncodedIs, Zenon
<1>2. n \in Nat /\ p \in Seq(Byte) /\ HasPayload(q.fc) \in BOOLEAN
  <2>1. n \in Nat /\ HasPayload(q.fc) \in BOOLEAN
    BY ValueIs, CodeIs
  <2>2. p \in Seq(Byte)
    BY PayloadIs
  <2>3. QED
    BY <2>1, <2>2
<1>3. /\ HasPayload(q.fc) =>
           Len(c) = 1 + Len(p) /\ c[1] = Len(p) /\ \A i \in 1..Len(p) : c[1 + i] = p[i]
      /\ ~HasPayload(q.fc) => Len(c) = 0
  BY EncodedParts, CountedIs, Zenon
<1>4. RequestLen(pdu) = IF HasPayload(q.fc) /\ Len(pdu) > fixed THEN fixed + 1 + pdu[fixed + 1]
                        ELSE fixed + (IF HasPayload(q.fc) THEN 1 ELSE 0)
  BY <1>1, Zenon DEF RequestLen
<1> HIDE DEF c, p
<1>5. CASE ~HasPayload(q.fc)
  <2>1. RequestLen(pdu) = fixed + 0
    BY <1>4, <1>5, Zenon
  <2>2. QED
    BY <1>1, <1>2, <1>3, <1>5, <2>1
<1>6. CASE HasPayload(q.fc)
  <2>1. Len(p) \in Nat /\ Len(c) = 1 + Len(p)
    BY <1>2, <1>3, <1>6
  <2>2. Len(pdu) = 2 + 2 * n + Len(p) /\ Len(pdu) > fixed /\ 1 \in 1..Len(c) /\ fixed + 1 = 2 + 2 * n
    BY <1>1, <1>2, <2>1
  <2>3. pdu[fixed + 1] = Len(p)
    BY <1>1, <1>3, <1>6, <2>2, Zenon
  <2>4. RequestLen(pdu) = fixed + 1 + Len(p)
    BY <1>4, <1>6, <2>2, <2>3, Zenon
  <2>5. RequestLen(pdu) = Len(pdu)
    BY <1>2, <2>1, <2>2, <2>4
  <2> DEFINE s == SubSeq(pdu, 3 + 2 * n, Len(pdu))
  <2>6. s \in Seq(Byte) /\ Len(s) = Len(p) /\ \A i \in 1..Len(p) : s[i] = pdu[2 + 2 * n + i]
    <3> DEFINE m == 2 + 2 * n
    <3>1. m \in Nat /\ 3 + 2 * n = m + 1 /\ Len(pdu) = m + Len(p) /\ m + Len(p) <= Len(pdu)
      BY <1>2, <2>1, <2>2
    <3> HIDE DEF m
    <3>2. s = SubSeq(pdu, m + 1, m + Len(p))
      BY <3>1, Zenon
    <3> HIDE DEF s
    <3>3. s \in Seq(Byte) /\ Len(s) = Len(p) /\ \A i \in 1..Len(p) : s[i] = pdu[m + i]
      BY <1>1, <2>1, <3>1, <3>2, Part, Zenon
    <3>4. QED
      BY <3>3, Zenon DEF m
  <2> HIDE DEF s
  <2>7. ASSUME NEW i \in 1..Len(p) PROVE s[i] = p[i]
    <3>1. 1 + i \in 1..Len(c) /\ 2 + 2 * n + i = fixed + (1 + i)
      BY <1>2, <2>1
    <3>2. QED
      BY <1>1, <1>3, <1>6, <2>6, <3>1, Zenon
  <2>8. s = p
    BY <1>2, <2>6, <2>7, SameSequence, Zenon
  <2>9. QED
    BY <1>6, <2>2, <2>3, <2>5, <2>8, Zenon DEF s, p
<1>7. QED
  BY <1>2, <1>5, <1>6 DEF p

LEMMA SameRange ==
  ASSUME NEW addr \in Int, NEW qty \in Int, NEW max \in Nat
  PROVE  RangeOk(addr, qty, max) <=> LegalRange(addr, qty, max)
BY DEF RangeOk, LegalRange, U16_MAX

\* Legal and FieldsOk, one function code at a time.
LEMMA LegalIs ==
  ASSUME NEW q
  PROVE  /\ q.fc \in {1, 2} => (Legal(q) <=> LegalRange(q.args[1], q.args[2], 2000))
         /\ q.fc \in {3, 4} => (Legal(q) <=> LegalRange(q.args[1], q.args[2], 125))
         /\ q.fc = 15 => (Legal(q) <=> LegalRange(q.args[1], Len(q.values), 1976))
         /\ q.fc = 16 => (Legal(q) <=> LegalRange(q.args[1], Len(q.values), 123))
         /\ q.fc = 23 => (Legal(q) <=> /\ LegalRange(q.args[1], q.args[2], 125)
                                       /\ LegalRange(q.args[3], Len(q.values), 121))
         /\ q.fc \in {5, 6, 8, 22} => Legal(q)
<1>1. ASSUME NEW fc \in {1, 2}, q.fc = fc PROVE Legal(q) <=> LegalRange(q.args[1], q.args[2], 2000)
  BY <1>1 DEF Legal
<1>2. ASSUME NEW fc \in {3, 4}, q.fc = fc PROVE Legal(q) <=> LegalRange(q.args[1], q.args[2], 125)
  BY <1>2 DEF Legal
<1>3. ASSUME q.fc = 15 PROVE Legal(q) <=> LegalRange(q.args[1], Len(q.values), 1976)
  BY <1>3 DEF Legal
<1>4. ASSUME q.fc = 16 PROVE Legal(q) <=> LegalRange(q.args[1], Len(q.values), 123)
  BY <1>4 DEF Legal
<1>5. ASSUME q.fc = 23
      PROVE Legal(q) <=> /\ LegalRange(q.args[1], q.args[2], 125)
                         /\ LegalRange(q.args[3], Len(q.values), 121)
  BY <1>5 DEF Legal
<1>6. ASSUME NEW fc \in {5, 6, 8, 22}, q.fc = fc PROVE Legal(q)
  BY <1>6 DEF Legal
<1>7. QED
  BY <1>1, <1>2, <1>3, <1>4, <1>5, <1>6

FieldOf(pdu, k) == U16(pdu[2 * k], pdu[2 * k + 1])

LEMMA FieldsOkIs ==
  ASSUME NEW pdu, NEW fc, pdu[1] = fc, NEW b, b = pdu[2 + 2 * FieldCount(fc)]
  PROVE  /\ fc \in {1, 2} => (FieldsOk(pdu) <=> RangeOk(FieldOf(pdu, 1), FieldOf(pdu, 2), MAX_COILS))
         /\ fc \in {3, 4} =>
              (FieldsOk(pdu) <=> RangeOk(FieldOf(pdu, 1), FieldOf(pdu, 2), MAX_REGISTERS))
         /\ fc = 5 => (FieldsOk(pdu) <=> FieldOf(pdu, 2) \in {0, 65280})
         /\ fc \in {6, 8, 22} => FieldsOk(pdu)
         /\ fc = 15 => (FieldsOk(pdu) <=> /\ RangeOk(FieldOf(pdu, 1), FieldOf(pdu, 2), MAX_COILS)
                                          /\ b = (FieldOf(pdu, 2) + 7) \div 8)
         /\ fc = 16 => (FieldsOk(pdu) <=> /\ RangeOk(FieldOf(pdu, 1), FieldOf(pdu, 2), MAX_REGISTERS)
                                          /\ b = 2 * FieldOf(pdu, 2))
         /\ fc = 23 => (FieldsOk(pdu) <=> /\ RangeOk(FieldOf(pdu, 1), FieldOf(pdu, 2), MAX_REGISTERS)
                                          /\ RangeOk(FieldOf(pdu, 3), FieldOf(pdu, 4), MAX_REGISTERS)
                                          /\ b = 2 * FieldOf(pdu, 4))
<1>1. ASSUME NEW v \in {1, 2}, fc = v
      PROVE  FieldsOk(pdu) <=> RangeOk(FieldOf(pdu, 1), FieldOf(pdu, 2), MAX_COILS)
  <2>1. CASE fc = 1
    BY <2>1 DEF FieldsOk, FieldOf
  <2>2. CASE fc = 2
    BY <2>2 DEF FieldsOk, FieldOf
  <2>3. QED
    BY <1>1, <2>1, <2>2
<1>2. ASSUME NEW v \in {3, 4}, fc = v
      PROVE  FieldsOk(pdu) <=> RangeOk(FieldOf(pdu, 1), FieldOf(pdu, 2), MAX_REGISTERS)
  <2>1. CASE fc = 3
    BY <2>1 DEF FieldsOk, FieldOf
  <2>2. CASE fc = 4
    BY <2>2 DEF FieldsOk, FieldOf
  <2>3. QED
    BY <1>2, <2>1, <2>2
<1>3. ASSUME fc = 5 PROVE FieldsOk(pdu) <=> FieldOf(pdu, 2) \in {0, 65280}
  BY <1>3 DEF FieldsOk, FieldOf
<1>4. ASSUME NEW v \in {6, 8, 22}, fc = v PROVE FieldsOk(pdu)
  <2>1. CASE fc = 6
    BY <2>1 DEF FieldsOk
  <2>2. CASE fc = 8
    BY <2>2 DEF FieldsOk
  <2>3. CASE fc = 22
    BY <2>3 DEF FieldsOk
  <2>4. QED
    BY <1>4, <2>1, <2>2, <2>3
<1>5. ASSUME fc = 15
      PROVE  FieldsOk(pdu) <=> /\ RangeOk(FieldOf(pdu, 1), FieldOf(pdu, 2), MAX_COILS)
                               /\ b = (FieldOf(pdu, 2) + 7) \div 8
  BY <1>5 DEF FieldsOk, FieldOf
<1>6. ASSUME fc = 16
      PROVE  FieldsOk(pdu) <=> /\ RangeOk(FieldOf(pdu, 1), FieldOf(pdu, 2), MAX_REGISTERS)
                               /\ b = 2 * FieldOf(pdu, 2)
  BY <1>6 DEF FieldsOk, FieldOf
<1>7. ASSUME fc = 23
      PROVE  FieldsOk(pdu) <=> /\ RangeOk(FieldOf(pdu, 1), FieldOf(pdu, 2), MAX_REGISTERS)
                               /\ RangeOk(FieldOf(pdu, 3), FieldOf(pdu, 4), MAX_REGISTERS)
                               /\ b = 2 * FieldOf(pdu, 4)
  BY <1>7 DEF FieldsOk, FieldOf
<1>8. QED
  BY <1>1, <1>2, <1>3, <1>4, <1>5, <1>6, <1>7

\* The fields of an encoded request by position.
LEMMA FieldsByPosition ==
  ASSUME NEW q \in RequestValues, NEW pdu \in EncodeRequest(q)
  PROVE  /\ q.fc \in {1, 2, 3, 4, 6, 8} =>
              /\ FieldOf(pdu, 1) = q.args[1] /\ FieldOf(pdu, 2) = q.args[2]
              /\ q.args[1] \in Int /\ q.args[2] \in Int
         /\ q.fc = 5 => FieldOf(pdu, 2) = CoilField(q.args[2])
         /\ q.fc \in {15, 16} =>
              /\ FieldOf(pdu, 1) = q.args[1] /\ FieldOf(pdu, 2) = Len(q.values)
              /\ q.args[1] \in Int
         /\ q.fc = 23 =>
              /\ FieldOf(pdu, 1) = q.args[1] /\ FieldOf(pdu, 2) = q.args[2]
              /\ FieldOf(pdu, 3) = q.args[3] /\ FieldOf(pdu, 4) = Len(q.values)
              /\ q.args[1] \in Int /\ q.args[2] \in Int /\ q.args[3] \in Int
<1> DEFINE n == FieldCount(q.fc)
           fs == RequestFields(q)
           l == Len(q.values)
<1>1. \A k \in 1..n : FieldOf(pdu, k) = fs[k]
  BY FieldIs, Zenon DEF FieldOf
<1>2. \A v \in Word : v \in Int
  BY DEF Word
<1>3. /\ q.fc \in Codes /\ q.args \in Seq(Word)
      /\ Len(q.args) = IF HasPayload(q.fc) THEN n - 1 ELSE n
  BY ValueIs, Zenon
<1>4. /\ q.fc = 5 => fs = <<q.args[1], CoilField(q.args[2])>>
      /\ HasPayload(q.fc) => fs = Append(q.args, l)
      /\ q.fc # 5 /\ ~HasPayload(q.fc) => fs = q.args
  BY EncodedParts, FieldsAre, Zenon
<1> HIDE DEF fs, l
<1>5. ASSUME q.fc \in {1, 2, 3, 4, 6, 8}
      PROVE  /\ FieldOf(pdu, 1) = q.args[1] /\ FieldOf(pdu, 2) = q.args[2]
             /\ q.args[1] \in Int /\ q.args[2] \in Int
  <2>1. n = 2 /\ ~HasPayload(q.fc) /\ q.fc # 5
    BY <1>3, <1>5, CodeIs
  <2> HIDE DEF n
  <2>2. Len(q.args) = 2 /\ fs = q.args
    BY <1>3, <1>4, <2>1, Zenon
  <2>3. q.args[1] \in Word /\ q.args[2] \in Word
    BY <1>3, <2>2
  <2>4. 1 \in 1..n /\ 2 \in 1..n
    BY <2>1
  <2>5. QED
    BY <1>1, <1>2, <2>2, <2>3, <2>4, Zenon
<1>6. ASSUME q.fc = 5 PROVE FieldOf(pdu, 2) = CoilField(q.args[2])
  <2>1. n = 2
    BY <1>3, <1>6, CodeIs
  <2> HIDE DEF n
  <2>2. 2 \in 1..n
    BY <2>1
  <2>3. FieldOf(pdu, 2) = fs[2]
    BY <1>1, <2>2, Zenon
  <2>4. QED
    BY <1>4, <1>6, <2>3
<1>7. ASSUME q.fc \in {15, 16}
      PROVE  /\ FieldOf(pdu, 1) = q.args[1] /\ FieldOf(pdu, 2) = l
             /\ q.args[1] \in Int
  <2>1. n = 2 /\ HasPayload(q.fc)
    BY <1>3, <1>7, CodeIs
  <2> HIDE DEF n
  <2>2. Len(q.args) = 1 /\ fs = Append(q.args, l)
    BY <1>3, <1>4, <2>1
  <2>3. q.args[1] \in Word /\ fs[1] = q.args[1] /\ fs[2] = l
    BY <1>3, <2>2
  <2>4. 1 \in 1..n /\ 2 \in 1..n
    BY <2>1
  <2>5. QED
    BY <1>1, <1>2, <2>3, <2>4, Zenon
<1>8. ASSUME q.fc = 23
      PROVE  /\ FieldOf(pdu, 1) = q.args[1] /\ FieldOf(pdu, 2) = q.args[2]
             /\ FieldOf(pdu, 3) = q.args[3] /\ FieldOf(pdu, 4) = l
             /\ q.args[1] \in Int /\ q.args[2] \in Int /\ q.args[3] \in Int
  <2>1. n = 4 /\ HasPayload(q.fc)
    BY <1>3, <1>8, CodeIs
  <2> HIDE DEF n
  <2>2. Len(q.args) = 3 /\ fs = Append(q.args, l)
    BY <1>3, <1>4, <2>1
  <2>3. /\ q.args[1] \in Word /\ q.args[2] \in Word /\ q.args[3] \in Word
        /\ fs[1] = q.args[1] /\ fs[2] = q.args[2] /\ fs[3] = q.args[3] /\ fs[4] = l
    BY <1>3, <2>2
  <2>4. 1 \in 1..n /\ 2 \in 1..n /\ 3 \in 1..n /\ 4 \in 1..n
    BY <2>1
  <2>5. QED
    BY <1>1, <1>2, <2>3, <2>4, Zenon
<1>9. QED
  BY <1>5, <1>6, <1>7, <1>8 DEF l

\* As many registers as fit.
LEMMA WhatFits ==
  ASSUME NEW l \in Nat
  PROVE  /\ 6 + 2 * l <= 253 => l <= 123
         /\ 10 + 2 * l <= 253 => l <= 121
OBVIOUS

LEMMA AcceptedIffLegal ==
  ASSUME NEW q \in RequestValues, NEW pdu \in EncodeRequest(q)
  PROVE  IsRequest(pdu) <=> Legal(q)
<1> DEFINE n == FieldCount(q.fc)
           l == Len(q.values)
           m == Len(PayloadOf(q))
           b == pdu[2 + 2 * n]
           f(k) == FieldOf(pdu, k)
<1>1. /\ q.fc \in Codes /\ pdu[1] = q.fc /\ pdu \in Seq(Byte) /\ Len(pdu) <= 253
      /\ Len(pdu) = 1 + 2 * n + Len(CountedOf(q)) /\ RequestLen(pdu) = Len(pdu)
  BY ValueIs, EncodedIs, PayloadBack, Zenon
<1>2. /\ Len(PayloadOf(q)) <= 255 /\ l \in Nat /\ m \in Nat
      /\ (q.fc = 15 => m = (l + 7) \div 8) /\ (q.fc # 15 => m = 2 * l)
  <2>1. Len(PayloadOf(q)) <= 255 /\ m \in Nat
    BY EncodedParts
  <2>2. l \in Nat
    BY ValueIs
  <2>3. (q.fc = 15 => m = (l + 7) \div 8) /\ (q.fc # 15 => m = 2 * l)
    BY PayloadIs, Zenon
  <2>4. QED
    BY <2>1, <2>2, <2>3
<1>3. HasPayload(q.fc) => Len(pdu) = 2 + 2 * n + m /\ b = m
  BY PayloadBack, Zenon
<1>4. n \in Nat /\ (q.fc \in {15, 16} => n = 2 /\ HasPayload(q.fc)) /\ (q.fc = 23 => n = 4 /\ HasPayload(q.fc))
  BY <1>1, CodeIs
<1>5. IsRequest(pdu) <=> FieldsOk(pdu)
  <2> DEFINE c == CountedOf(q)
  <2>1. c \in Seq(Byte)
    BY <1>2, CountedIs
  <2> HIDE DEF c
  <2>2. Len(c) \in Nat
    BY <2>1
  <2>3. Len(pdu) > 0 /\ Len(pdu) >= RequestLen(pdu)
    <3> HIDE DEF n
    <3>1. Len(pdu) = 1 + 2 * n + Len(c)
      BY <1>1 DEF c
    <3>2. QED
      BY <1>1, <1>4, <2>2, <3>1
  <2>4. QED
    BY <1>1, <2>3, Zenon DEF IsRequest, Codes
<1>6. \A addr, qty \in Int : /\ RangeOk(addr, qty, MAX_COILS) <=> LegalRange(addr, qty, 2000)
                             /\ RangeOk(addr, qty, MAX_REGISTERS) <=> LegalRange(addr, qty, 125)
  BY SameRange DEF MAX_COILS, MAX_REGISTERS
<1>7. ASSUME q.fc \in {1, 2} PROVE FieldsOk(pdu) <=> Legal(q)
  <2>1. f(1) = q.args[1] /\ f(2) = q.args[2] /\ q.args[1] \in Int /\ q.args[2] \in Int
    BY <1>7, FieldsByPosition
  <2>2. FieldsOk(pdu) <=> RangeOk(f(1), f(2), MAX_COILS)
    BY <1>1, <1>7, FieldsOkIs
  <2>3. Legal(q) <=> LegalRange(q.args[1], q.args[2], 2000)
    BY <1>7, LegalIs
  <2> HIDE DEF f
  <2>4. QED
    BY <1>6, <2>1, <2>2, <2>3
<1>8. ASSUME q.fc \in {3, 4} PROVE FieldsOk(pdu) <=> Legal(q)
  <2>1. f(1) = q.args[1] /\ f(2) = q.args[2] /\ q.args[1] \in Int /\ q.args[2] \in Int
    BY <1>8, FieldsByPosition
  <2>2. FieldsOk(pdu) <=> RangeOk(f(1), f(2), MAX_REGISTERS)
    BY <1>1, <1>8, FieldsOkIs
  <2>3. Legal(q) <=> LegalRange(q.args[1], q.args[2], 125)
    BY <1>8, LegalIs
  <2> HIDE DEF f
  <2>4. QED
    BY <1>6, <2>1, <2>2, <2>3
<1>9. ASSUME q.fc = 5 PROVE FieldsOk(pdu) <=> Legal(q)
  <2>1. f(2) \in {0, 65280}
    BY <1>9, FieldsByPosition, ValueIs, CoilFieldIs
  <2>2. FieldsOk(pdu)
    BY <1>1, <1>9, <2>1, FieldsOkIs
  <2>3. QED
    BY <1>9, <2>2, LegalIs
<1>10. ASSUME q.fc \in {6, 8, 22} PROVE FieldsOk(pdu) <=> Legal(q)
  <2>1. FieldsOk(pdu)
    BY <1>1, <1>10, FieldsOkIs
  <2>2. QED
    BY <1>10, <2>1, LegalIs
<1>11. ASSUME q.fc = 15 PROVE FieldsOk(pdu) <=> Legal(q)
  <2>1. f(1) = q.args[1] /\ f(2) = l /\ q.args[1] \in Int
    BY <1>11, FieldsByPosition
  <2>2. FieldsOk(pdu) <=> RangeOk(f(1), f(2), MAX_COILS) /\ b = (f(2) + 7) \div 8
    BY <1>1, <1>11, FieldsOkIs
  <2>3. Legal(q) <=> LegalRange(q.args[1], l, 1976)
    BY <1>11, LegalIs
  <2>4. b = (l + 7) \div 8 /\ 6 + (l + 7) \div 8 <= 253
    <3> HIDE DEF n, b, m, l
    <3>1. QED
      BY <1>1, <1>2, <1>3, <1>4, <1>11
  <2>5. l <= 1976
    <3> HIDE DEF l
    <3>1. QED
      BY <1>2, <2>4, Z3
  <2> HIDE DEF f, l, b
  <2>6. LegalRange(q.args[1], l, 1976) <=> LegalRange(q.args[1], l, 2000)
    BY <1>2, <2>5 DEF LegalRange
  <2>7. FieldsOk(pdu) <=> RangeOk(q.args[1], l, MAX_COILS)
    BY <2>1, <2>2, <2>4
  <2>8. QED
    BY <1>2, <1>6, <2>1, <2>3, <2>6, <2>7
<1>12. ASSUME q.fc = 16 PROVE FieldsOk(pdu) <=> Legal(q)
  <2>1. f(1) = q.args[1] /\ f(2) = l /\ q.args[1] \in Int
    BY <1>12, FieldsByPosition
  <2>2. FieldsOk(pdu) <=> RangeOk(f(1), f(2), MAX_REGISTERS) /\ b = 2 * f(2)
    BY <1>1, <1>12, FieldsOkIs
  <2>3. Legal(q) <=> LegalRange(q.args[1], l, 123)
    BY <1>12, LegalIs
  <2>4. b = 2 * l /\ 6 + 2 * l <= 253
    <3> HIDE DEF n, b, m, l
    <3>1. QED
      BY <1>1, <1>2, <1>3, <1>4, <1>12
  <2>5. l <= 123
    BY <1>2, <2>4, WhatFits
  <2> HIDE DEF f, l, b
  <2>6. LegalRange(q.args[1], l, 123) <=> LegalRange(q.args[1], l, 125)
    BY <1>2, <2>5 DEF LegalRange
  <2>7. FieldsOk(pdu) <=> RangeOk(q.args[1], l, MAX_REGISTERS)
    BY <2>1, <2>2, <2>4
  <2>8. QED
    BY <1>2, <1>6, <2>1, <2>3, <2>6, <2>7
<1>13. ASSUME q.fc = 23 PROVE FieldsOk(pdu) <=> Legal(q)
  <2>1. /\ f(1) = q.args[1] /\ f(2) = q.args[2] /\ f(3) = q.args[3] /\ f(4) = l
        /\ q.args[1] \in Int /\ q.args[2] \in Int /\ q.args[3] \in Int
    BY <1>13, FieldsByPosition
  <2>2. FieldsOk(pdu) <=>
          RangeOk(f(1), f(2), MAX_REGISTERS) /\ RangeOk(f(3), f(4), MAX_REGISTERS) /\ b = 2 * f(4)
    BY <1>1, <1>13, FieldsOkIs
  <2>3. Legal(q) <=> LegalRange(q.args[1], q.args[2], 125) /\ LegalRange(q.args[3], l, 121)
    BY <1>13, LegalIs
  <2>4. b = 2 * l /\ 10 + 2 * l <= 253
    <3> HIDE DEF n, b, m, l
    <3>1. QED
      BY <1>1, <1>2, <1>3, <1>4, <1>13
  <2>5. l <= 121
    BY <1>2, <2>4, WhatFits
  <2> HIDE DEF f, l, b
  <2>6. LegalRange(q.args[3], l, 121) <=> LegalRange(q.args[3], l, 125)
    BY <1>2, <2>5 DEF LegalRange
  <2>7. FieldsOk(pdu) <=> RangeOk(q.args[1], q.args[2], MAX_REGISTERS) /\ RangeOk(q.args[3], l, MAX_REGISTERS)
    BY <2>1, <2>2, <2>4
  <2>8. QED
    BY <1>2, <1>6, <2>1, <2>3, <2>6, <2>7
<1>14. q.fc \in {1, 2} \/ q.fc \in {3, 4} \/ q.fc = 5 \/ q.fc \in {6, 8, 22} \/ q.fc = 15 \/ q.fc = 16 \/ q.fc = 23
  BY <1>1 DEF Codes
<1>15. QED
  BY <1>5, <1>7, <1>8, <1>9, <1>10, <1>11, <1>12, <1>13, <1>14

LEMMA RegistersBack ==
  ASSUME NEW vs \in Seq(Word)
  PROVE  U16s(PutU16s(vs)) = vs
<1> DEFINE p == PutU16s(vs)
<1>1. p \in Seq(Byte) /\ Len(p) = 2 * Len(vs) /\ \A i \in 1..Len(vs) : U16(p[2 * i - 1], p[2 * i]) = vs[i]
  BY PutIs
<1> HIDE DEF p
<1>2. U16s(p) = vs
  BY <1>1, WordsAre, Zenon
<1>3. QED
  BY <1>2 DEF p

LEMMA FrontIs ==
  ASSUME NEW s \in Seq(Word), NEW v \in Word
  PROVE  Front(Append(s, v)) = s
<1> DEFINE a == Append(s, v)
<1>1. a \in Seq(Word) /\ Len(a) = Len(s) + 1 /\ \A i \in 1..Len(s) : a[i] = s[i]
  OBVIOUS
<1> HIDE DEF a
<1>2. Len(s) \in Nat /\ Len(a) - 1 = Len(s)
  BY <1>1
<1>3. Front(a) = SubSeq(a, 1, Len(s))
  BY <1>2, Zenon DEF Front
<1> DEFINE t == SubSeq(a, 1, Len(s))
<1>4. t \in Seq(Word) /\ Len(t) = Len(s) /\ \A i \in 1..Len(s) : t[i] = a[i]
  BY <1>1, <1>2
<1> HIDE DEF t
<1>5. t = s
  BY <1>1, <1>4
<1>6. QED
  BY <1>3, <1>5 DEF t, a

\* What decode_request makes of an encoded request that it accepts.
LEMMA DecodedIs ==
  ASSUME NEW q \in RequestValues, NEW pdu \in EncodeRequest(q), IsRequest(pdu)
  PROVE  TryRequest(pdu) = {q}
<1> DEFINE n == FieldCount(q.fc)
           fs == RequestFields(q)
           l == Len(q.values)
           body == SubSeq(pdu, 3 + 2 * n, Len(pdu))
           request(args, values) == {[fc |-> q.fc, args |-> args, values |-> values]}
<1>1. pdu[1] = q.fc /\ RequestLen(pdu) = Len(pdu) /\ U16s(SubSeq(pdu, 2, 1 + 2 * n)) = fs
  BY EncodedIs, PayloadBack, FieldIs, Zenon
<1>2. TryRequest(pdu) =
        CASE q.fc = 5 -> request(<<fs[1], CoilBit(fs[2])>>, <<>>)
          [] q.fc = 15 -> request(<<fs[1]>>, SubSeq(UnpackBits(body), 1, fs[2]))
          [] q.fc \in {16, 23} -> request(Front(fs), U16s(body))
          [] OTHER -> request(fs, <<>>)
  BY <1>1, Zenon DEF TryRequest
<1>3. HasPayload(q.fc) => body = PayloadOf(q)
  BY PayloadBack, Zenon
<1>4. /\ q.fc \in Codes /\ q.args \in Seq(Word) /\ q.values \in Seq(Word)
      /\ Len(q.args) = IF HasPayload(q.fc) THEN n - 1 ELSE n
      /\ (~HasPayload(q.fc) => q.values = <<>>)
      /\ request(q.args, q.values) = {q}
  BY ValueIs, Zenon
<1>5. /\ q.fc = 5 => fs = <<q.args[1], CoilField(q.args[2])>>
      /\ HasPayload(q.fc) => fs = Append(q.args, l)
      /\ q.fc # 5 /\ ~HasPayload(q.fc) => fs = q.args
  BY EncodedParts, FieldsAre, Zenon
<1>6. l \in Word
  <2>1. Len(PayloadOf(q)) <= 255
    BY EncodedParts
  <2>2. QED
    BY <2>1, CountFits
<1> HIDE DEF fs, l, body, request
<1>7. CASE q.fc = 5
  <2>1. TryRequest(pdu) = request(<<fs[1], CoilBit(fs[2])>>, <<>>)
    BY <1>2, <1>7
  <2>2. n = 2 /\ ~HasPayload(q.fc)
    BY <1>4, <1>7, CodeIs
  <2> HIDE DEF n
  <2>3. Len(q.args) = 2 /\ q.values = <<>>
    BY <1>4, <2>2
  <2>4. fs[1] = q.args[1] /\ CoilBit(fs[2]) = q.args[2]
    <3>1. fs[1] = q.args[1] /\ fs[2] = CoilField(q.args[2])
      BY <1>5, <1>7
    <3>2. CoilBit(CoilField(q.args[2])) = q.args[2]
      BY <1>7, ValueIs, CoilFieldIs
    <3>3. QED
      BY <3>1, <3>2, Zenon
  <2>5. q.args = <<q.args[1], q.args[2]>>
    BY <1>4, <2>3
  <2>6. QED
    BY <1>4, <2>1, <2>3, <2>4, <2>5, Zenon
<1>8. CASE q.fc = 15
  <2>1. TryRequest(pdu) = request(<<fs[1]>>, SubSeq(UnpackBits(body), 1, fs[2]))
    BY <1>2, <1>8
  <2>2. n = 2 /\ HasPayload(q.fc)
    BY <1>4, <1>8, CodeIs
  <2> HIDE DEF n
  <2>3. Len(q.args) = 1 /\ fs = Append(q.args, l)
    BY <1>4, <1>5, <2>2
  <2>4. fs[1] = q.args[1] /\ fs[2] = l /\ q.args = <<q.args[1]>>
    BY <1>4, <2>3
  <2>5. body = PackBits(q.values)
    BY <1>3, <1>8, <2>2, Zenon DEF PayloadOf
  <2>6. SubSeq(UnpackBits(body), 1, l) = q.values
    BY <1>8, <2>5, ValueIs, FirstCoils DEF l
  <2>7. QED
    BY <1>4, <2>1, <2>4, <2>6, Zenon
<1>9. CASE q.fc \in {16, 23}
  <2>1. TryRequest(pdu) = request(Front(fs), U16s(body))
    BY <1>2, <1>9
  <2>2. HasPayload(q.fc) /\ q.fc # 15
    BY <1>4, <1>9, CodeIs
  <2>3. Front(fs) = q.args
    BY <1>4, <1>5, <1>6, <2>2, FrontIs, Zenon
  <2>4. body = PutU16s(q.values)
    BY <1>3, <2>2, Zenon DEF PayloadOf
  <2>5. U16s(body) = q.values
    BY <1>4, <2>4, RegistersBack, Zenon
  <2>6. QED
    BY <1>4, <2>1, <2>3, <2>5, Zenon
<1>10. CASE q.fc \notin {5, 15, 16, 23}
  <2>1. TryRequest(pdu) = request(fs, <<>>)
    BY <1>2, <1>10
  <2>2. ~HasPayload(q.fc) /\ q.fc # 5
    BY <1>4, <1>10, CodeIs
  <2>3. QED
    BY <1>4, <1>5, <2>1, <2>2, Zenon
<1>11. QED
  BY <1>7, <1>8, <1>9, <1>10

LEMMA LegalEncodes ==
  ASSUME NEW q \in RequestValues, Legal(q)
  PROVE  EncodeRequest(q) # {}
<1> DEFINE n == FieldCount(q.fc)
           l == Len(q.values)
           m == Len(PayloadOf(q))
           c == CountedOf(q)
           x == BytesOf(q)
<1>1. /\ q.fc \in Codes /\ l \in Nat /\ m \in Nat
      /\ (q.fc = 15 => m = (l + 7) \div 8) /\ (q.fc # 15 => m = 2 * l)
      /\ (~HasPayload(q.fc) => l = 0)
  <2>1. q.fc \in Codes /\ l \in Nat /\ (~HasPayload(q.fc) => l = 0)
    BY ValueIs
  <2>2. (q.fc = 15 => m = (l + 7) \div 8) /\ (q.fc # 15 => m = 2 * l)
    BY PayloadIs, Zenon
  <2>3. m \in Nat
    BY PayloadIs
  <2>4. QED
    BY <2>1, <2>2, <2>3
<1>2. /\ q.fc \in {15, 16, 23} <=> HasPayload(q.fc)
      /\ n \in 2..4 /\ (q.fc \in {15, 16} => n = 2) /\ (q.fc = 23 => n = 4)
  BY <1>1, CodeIs
<1>3. /\ q.fc = 15 => l <= 1976
      /\ q.fc = 16 => l <= 123
      /\ q.fc = 23 => l <= 121
  BY LegalIs DEF LegalRange
<1> HIDE DEF n, l, m
<1>4. m <= 247 /\ (q.fc = 23 => m <= 242)
  <2>1. CASE q.fc = 15
    <3>1. m = (l + 7) \div 8 /\ l <= 1976
      BY <1>1, <1>3, <2>1
    <3>2. m <= 247
      BY <1>1, <3>1, Z3
    <3>3. QED
      BY <2>1, <3>2
  <2>2. CASE q.fc # 15
    BY <1>1, <1>2, <1>3, <2>2
  <2>3. QED
    BY <2>1, <2>2
<1>5. ~(m > 255) /\ Len(PayloadOf(q)) <= 255
  <2>1. ~(m > 255) /\ m <= 255
    BY <1>1, <1>4
  <2>2. QED
    BY <2>1 DEF m
<1>6. x \in Seq(Byte) /\ Len(x) = 1 + 2 * n + Len(c)
  BY <1>5, BytesAre, Zenon DEF n
<1>7. (HasPayload(q.fc) => Len(c) = 1 + m) /\ (~HasPayload(q.fc) => Len(c) = 0)
  BY <1>5, CountedIs DEF m
<1> HIDE DEF x, c
<1>8. ~(Len(x) > 253)
  BY <1>1, <1>2, <1>4, <1>6, <1>7
<1>9. EncodeRequest(q) = Checked(m, x)
  <2>1. q.fc # 0
    BY <1>1, CodeIs
  <2>2. QED
    BY <2>1, Zenon DEF EncodeRequest, PayloadOf, CountedOf, BytesOf, m, x
<1>10. EncodeRequest(q) = {x}
  BY <1>5, <1>8, <1>9, Zenon DEF Checked, MAX_PDU_SIZE
<1>11. QED
  BY <1>10

----------------------------------------------------------------------------
(* The codec, for every request *)

\* decode_request reads exactly the bytes that encode_request wrote: the count
\* it derives from the function code and the byte count is the length of the
\* PDU, so nothing of a request is left over in the server's buffer.
THEOREM EncodedRequestExact ==
  ASSUME NEW q \in RequestValues, NEW pdu \in EncodeRequest(q)
  PROVE  pdu[1] = q.fc /\ Len(pdu) \in 1..MAX_PDU_SIZE /\ RequestLen(pdu) = Len(pdu)
<1> DEFINE n == FieldCount(q.fc)
           c == CountedOf(q)
<1>1. pdu \in Seq(Byte) /\ pdu[1] = q.fc /\ Len(pdu) = 1 + 2 * n + Len(c) /\ Len(pdu) <= 253 /\ RequestLen(pdu) = Len(pdu)
  BY EncodedIs, PayloadBack, Zenon
<1>2. n \in Nat
  BY ValueIs, CodeIs
<1>3. c \in Seq(Byte)
  BY EncodedParts, CountedIs
<1> HIDE DEF n, c
<1>4. Len(c) \in Nat
  BY <1>3
<1>5. Len(pdu) \in Nat /\ 1 <= Len(pdu) /\ Len(pdu) <= 253
  BY <1>1, <1>2, <1>4
<1>6. Len(pdu) \in 1..253
  <2> DEFINE k == Len(pdu)
  <2>1. k \in Nat /\ 1 <= k /\ k <= 253
    BY <1>5
  <2> HIDE DEF k
  <2>2. k \in 1..253
    BY <2>1
  <2>3. QED
    BY <2>2 DEF k
<1>7. QED
  BY <1>1, <1>6 DEF MAX_PDU_SIZE

\* Request::try_from undoes encode_request_into, for every function code, every
\* address and every number of coils or registers: a request that the protocol
\* allows encodes and decodes to itself, coil padding and halves of words
\* included, and one that it does not allow is refused by one side or the other,
\* never decoded to another request.
THEOREM RequestRoundTrip ==
  ASSUME NEW q \in RequestValues
  PROVE  UNION {TryRequest(pdu) : pdu \in EncodeRequest(q)} = IF Legal(q) THEN {q} ELSE {}
<1>1. ASSUME NEW pdu \in EncodeRequest(q) PROVE TryRequest(pdu) = IF Legal(q) THEN {q} ELSE {}
  <2>1. IsRequest(pdu) <=> Legal(q)
    BY AcceptedIffLegal
  <2>2. CASE IsRequest(pdu)
    BY <2>1, <2>2, DecodedIs
  <2>3. CASE ~IsRequest(pdu)
    <3>1. TryRequest(pdu) = {}
      BY <2>3, Zenon DEF TryRequest
    <3>2. QED
      BY <2>1, <2>3, <3>1
  <2>4. QED
    BY <2>2, <2>3
<1>2. CASE Legal(q)
  <2>1. PICK pdu \in EncodeRequest(q) : TRUE
    BY <1>2, LegalEncodes
  <2>2. QED
    BY <1>1, <1>2, <2>1
<1>3. CASE ~Legal(q)
  BY <1>1, <1>3
<1>4. QED
  BY <1>2, <1>3

----------------------------------------------------------------------------
(* Responses *)

\* Exceptions with the names of their codes, and coils up to the end of a byte.
NamesOf(ex) == {ExceptionFrom(e.code) : e \in ex}
Filled(bits) ==
  [i \in 1..(8 * ((Len(bits) + 7) \div 8)) |-> IF i <= Len(bits) THEN bits[i] ELSE 0]

\* A response after the line: Padded, and an exception has the name of its code.
Received(rsp) == [Padded(rsp) EXCEPT !.ex = NamesOf(rsp.ex)]

LEMMA TailBack ==
  ASSUME NEW h \in Seq(Byte), NEW t \in Seq(Byte)
  PROVE  SubSeq(h \o t, Len(h) + 1, Len(h) + Len(t)) = t
<1> DEFINE s == h \o t
           a == Len(h)
           b == Len(t)
           u == SubSeq(s, a + 1, a + b)
<1>1. /\ s \in Seq(Byte) /\ Len(s) = a + b
      /\ \A i \in 1..b : s[a + i] = t[i]
  BY Concatenation, Zenon
<1>2. a \in Nat /\ b \in Nat /\ Len(t) = b
  OBVIOUS
<1> HIDE DEF s, a, b
<1>3. a + b <= Len(s)
  BY <1>1, <1>2
<1>4. u \in Seq(Byte) /\ Len(u) = b /\ \A i \in 1..b : u[i] = s[a + i]
  BY <1>1, <1>2, <1>3, Part, Zenon
<1> HIDE DEF u
<1>5. Len(u) = Len(t) /\ \A i \in 1..Len(u) : u[i] = t[i]
  BY <1>1, <1>2, <1>4
<1>6. u = t
  BY <1>4, <1>5, SameSequence, Zenon
<1>7. QED
  BY <1>6 DEF u, s, a, b

LEMMA ReadsAre ==
  /\ \A fc : ReadsBits(fc) <=> fc \in {1, 2}
  /\ \A fc : ReadsRegisters(fc) <=> fc \in {3, 4, 23}
BY DEF ReadsBits, ReadsRegisters

LEMMA CheckedIs ==
  ASSUME NEW n \in Int, NEW x \in Seq(Byte), NEW pdu \in Checked(n, x)
  PROVE  pdu = x /\ n <= 255 /\ Len(x) <= 253
<1>1. pdu = x /\ ~(n > 255) /\ ~(Len(x) > 253)
  BY Zenon DEF Checked, MAX_PDU_SIZE
<1>2. QED
  BY <1>1

Response(fc, args, values, ex) == [fc |-> fc, args |-> args, values |-> values, ex |-> ex]

\* Padding leaves everything but the coils of a read alone.
LEMMA ReceivedIs ==
  ASSUME NEW fc, NEW args, NEW values, NEW ex
  PROVE  /\ ~ReadsBits(fc) =>
              Received(Response(fc, args, values, ex))
                = Response(fc % 128, args, values, NamesOf(ex))
         /\ ReadsBits(fc) =>
              Received(Response(fc, args, values, ex))
                = Response(fc, args, Filled(values), NamesOf(ex))
<1> DEFINE rsp == Response(fc, args, values, ex)
           x == NamesOf(ex)
           w == Filled(values)
<1>1. /\ rsp = [fc |-> fc, args |-> args, values |-> values, ex |-> ex]
      /\ rsp.fc = fc /\ rsp.ex = ex /\ rsp.values = values
  BY DEF Response
<1> HIDE DEF rsp
<1>2. Received(rsp) = [Padded(rsp) EXCEPT !.ex = x]
  BY <1>1, Zenon DEF Received
<1>3. Padded(rsp) = IF ~ReadsBits(fc) THEN [rsp EXCEPT !.fc = fc % 128] ELSE [rsp EXCEPT !.values = w]
  BY <1>1, Zenon DEF Padded, Filled
<1> HIDE DEF x, w, rsp
<1>4. ASSUME ~ReadsBits(fc)
      PROVE  Received(rsp) = Response(fc % 128, args, values, x)
  <2>1. Padded(rsp) = [fc |-> fc % 128, args |-> args, values |-> values, ex |-> ex]
    BY <1>1, <1>3, <1>4
  <2>2. QED
    BY <1>2, <2>1 DEF Response
<1>5. ASSUME ReadsBits(fc)
      PROVE  Received(rsp) = Response(fc, args, w, x)
  <2>1. Padded(rsp) = [fc |-> fc, args |-> args, values |-> w, ex |-> ex]
    BY <1>1, <1>3, <1>5
  <2>2. QED
    BY <1>2, <2>1 DEF Response
<1>6. QED
  BY <1>4, <1>5 DEF x, w, rsp

LEMMA ExceptionBack ==
  ASSUME NEW fc \in Byte, NEW e \in [custom : BOOLEAN, code : Byte],
         NEW pdu \in EncodeResponse(Response(fc, <<>>, <<>>, {e}))
  PROVE  /\ pdu \in Seq(Byte) /\ Len(pdu) = 2
         /\ TryResponse(pdu) = {Received(Response(fc, <<>>, <<>>, {e}))}
<1> DEFINE rsp == Response(fc, <<>>, <<>>, {e})
           f == (fc % 128) + 128
           x == <<f, e.code>>
<1>1. rsp.fc = fc /\ rsp.ex = {e} /\ rsp.values = <<>> /\ rsp.args = <<>>
  BY DEF Response
<1>2. fc \in Int /\ e.code \in Byte
  BY DEF Byte
<1>3. fc % 128 \in Int /\ 0 <= fc % 128 /\ fc % 128 <= 127 /\ (ReadsBits(fc) => fc % 128 = fc)
  <2>1. fc % 128 \in Int /\ 0 <= fc % 128 /\ fc % 128 <= 127
    BY <1>2, Z3
  <2>2. ReadsBits(fc) => fc % 128 = fc
    BY ReadsAre
  <2>3. QED
    BY <2>1, <2>2
<1>4. pdu = x
  <2>1. (CHOOSE c \in {e} : TRUE) = e
    OBVIOUS
  <2>2. ResponseBytes(rsp) = x
    BY <1>1, <2>1 DEF ResponseBytes
  <2>3. EncodeResponse(rsp) \subseteq {ResponseBytes(rsp)}
    BY Zenon DEF EncodeResponse, Checked
  <2>4. QED
    BY <2>2, <2>3
<1>5. Len(pdu) = 2 /\ pdu[1] = f /\ pdu[2] = e.code
  BY <1>4
<1>6. f \in Int /\ ~(f < 128) /\ f - 128 = fc % 128 /\ f \in Byte
  BY <1>3 DEF Byte
<1> HIDE DEF x, f
<1>7. TryResponse(pdu) = {Response(fc % 128, <<>>, <<>>, {ExceptionFrom(e.code)})}
  <2>1. ~(Len(pdu) < 2)
    BY <1>5
  <2>2. QED
    BY <1>5, <1>6, <2>1, Zenon DEF TryResponse, Response
<1>8. NamesOf({e}) = {ExceptionFrom(e.code)}
  BY DEF NamesOf
<1>9. Received(rsp) = Response(fc % 128, <<>>, <<>>, {ExceptionFrom(e.code)})
  <2>1. CASE ReadsBits(fc)
    <3> DEFINE w == Filled(<<>>)
    <3>1. w = <<>>
      <4>1. Len(<<>>) = 0 /\ (0 + 7) \div 8 = 0
        BY Z3
      <4>2. 8 * ((Len(<<>>) + 7) \div 8) = 0
        BY <4>1
      <4>3. w = [i \in 1..0 |-> IF i <= Len(<<>>) THEN <<>>[i] ELSE 0]
        BY <4>2, Zenon DEF Filled
      <4>4. QED
        BY <4>3
    <3> HIDE DEF w
    <3>2. Received(rsp) = Response(fc, <<>>, w, NamesOf({e}))
      BY <2>1, ReceivedIs DEF w
    <3>3. QED
      BY <1>3, <1>8, <2>1, <3>1, <3>2
  <2>2. CASE ~ReadsBits(fc)
    <3>1. Received(rsp) = Response(fc % 128, <<>>, <<>>, NamesOf({e}))
      BY <2>2, ReceivedIs
    <3>2. QED
      BY <1>8, <3>1, Zenon
  <2>3. QED
    BY <2>1, <2>2
<1>10. pdu \in Seq(Byte)
  BY <1>2, <1>4, <1>6 DEF x
<1>11. QED
  BY <1>5, <1>7, <1>9, <1>10

LEMMA ReadBack ==
  ASSUME NEW fc \in Codes, NEW values \in Seq(Word), ReadsBits(fc) \/ ReadsRegisters(fc),
         ReadsBits(fc) => values \in Seq(Bit),
         NEW pdu \in EncodeResponse(Response(fc, <<>>, values, {}))
  PROVE  /\ pdu \in Seq(Byte) /\ Len(pdu) \in Nat
         /\ ReadsBits(fc) => Len(pdu) = 2 + ((Len(values) + 7) \div 8)
         /\ ReadsRegisters(fc) => Len(pdu) = 2 + 2 * Len(values)
         /\ TryResponse(pdu) = {Received(Response(fc, <<>>, values, {}))}
<1> DEFINE rsp == Response(fc, <<>>, values, {})
           p == ResponsePayload(rsp)
           m == Len(p)
           h == <<fc, m>>
<1>1. rsp.fc = fc /\ rsp.ex = {} /\ rsp.values = values /\ rsp.args = <<>>
  BY DEF Response
<1>2. p = IF ReadsBits(fc) THEN PackBits(values) ELSE PutU16s(values)
  BY <1>1, Zenon DEF ResponsePayload
<1>3. /\ p \in Seq(Byte)
      /\ ReadsRegisters(fc) => m = 2 * Len(values)
      /\ ReadsBits(fc) => m = (Len(values) + 7) \div 8
  <2>1. CASE ReadsBits(fc)
    <3>1. p = PackBits(values) /\ ~ReadsRegisters(fc)
      BY <1>2, <2>1, ReadsAre
    <3>2. QED
      BY <2>1, <3>1, CoilsBack
  <2>2. CASE ~ReadsBits(fc)
    <3>1. p = PutU16s(values)
      BY <1>2, <2>2
    <3>2. p \in Seq(Byte) /\ Len(p) = 2 * Len(values)
      BY <3>1, PutIs
    <3>3. QED
      BY <2>2, <3>2
  <2>3. QED
    BY <2>1, <2>2
<1>4. ResponseBytes(rsp) = h \o p
  BY <1>1, Zenon DEF ResponseBytes
<1> HIDE DEF p
<1>5. m \in Nat
  BY <1>3
<1> HIDE DEF m
<1>6. EncodeResponse(rsp) = Checked(m, h \o p)
  BY <1>4, Zenon DEF EncodeResponse, p, m
<1>7. pdu = h \o p /\ ~(m > 255)
  BY <1>6, Zenon DEF Checked
<1>8. m \in Byte
  BY <1>5, <1>7 DEF Byte
<1>9. fc \in Byte /\ fc < 128
  BY DEF Codes, Byte
<1>10. h \in Seq(Byte) /\ Len(h) = 2 /\ h[1] = fc /\ h[2] = m
  BY <1>8, <1>9
<1> HIDE DEF h
<1>11. pdu \in Seq(Byte) /\ Len(pdu) = 2 + m /\ pdu[1] = fc /\ pdu[2] = m
  <2>1. /\ h \o p \in Seq(Byte) /\ Len(h \o p) = Len(h) + Len(p)
        /\ \A i \in 1..Len(h) : (h \o p)[i] = h[i]
    BY <1>3, <1>10, Concatenation, Zenon
  <2>2. 1 \in 1..Len(h) /\ 2 \in 1..Len(h)
    BY <1>10
  <2>3. QED
    BY <1>7, <1>10, <2>1, <2>2, Zenon DEF m
<1>12. SubSeq(pdu, 3, 2 + m) = p
  <2>1. Len(h) + 1 = 3 /\ Len(h) + Len(p) = 2 + m
    BY <1>10 DEF m
  <2>2. QED
    BY <1>3, <1>7, <1>10, <2>1, TailBack, Zenon
<1>13. ~(Len(pdu) < 2) /\ Len(pdu) >= 2 /\ Len(pdu) >= 2 + pdu[2]
  BY <1>5, <1>11
<1>14. TryResponse(pdu) = DecodeResponse(pdu)
  BY <1>9, <1>11, <1>13, Zenon DEF TryResponse
<1>15. NamesOf({}) = {}
  BY DEF NamesOf
<1>16. ASSUME ReadsBits(fc) PROVE TryResponse(pdu) = {Received(rsp)}
  <2>1. DecodeResponse(pdu) = {Response(fc, <<>>, UnpackBits(p), {})}
    <3>1. ~ReadsRegisters(fc) /\ fc \notin {5, 6, 8, 15, 16, 22}
      BY <1>16, ReadsAre
    <3>2. QED
      BY <1>11, <1>12, <1>13, <1>16, <3>1 DEF DecodeResponse, Response
  <2> DEFINE w == Filled(values)
  <2>2. UnpackBits(p) = w
    <3>1. p = PackBits(values)
      BY <1>2, <1>16
    <3>2. QED
      BY <1>16, <3>1, CoilsBack DEF Filled
  <2> HIDE DEF w
  <2>3. Received(rsp) = Response(fc, <<>>, w, NamesOf({}))
    BY <1>16, ReceivedIs DEF w
  <2>4. QED
    BY <1>14, <1>15, <2>1, <2>2, <2>3, Zenon
<1>17. ASSUME ReadsRegisters(fc) PROVE TryResponse(pdu) = {Received(rsp)}
  <2>1. ~ReadsBits(fc) /\ fc % 128 = fc
    BY <1>17, ReadsAre
  <2>2. m % 2 = 0
    <3> DEFINE l == Len(values)
    <3>1. l \in Nat /\ m = 2 * l
      BY <1>3, <1>17
    <3> HIDE DEF l
    <3>2. QED
      BY <3>1, EvenAndOdd
  <2>3. DecodeResponse(pdu) = {Response(fc, <<>>, U16s(p), {})}
    <3>1. fc \notin {5, 6, 8, 15, 16, 22}
      BY <1>17, ReadsAre
    <3>2. QED
      BY <1>11, <1>12, <1>13, <1>17, <2>1, <2>2, <3>1 DEF DecodeResponse, Response
  <2>4. U16s(p) = values
    <3>1. p = PutU16s(values)
      BY <1>2, <2>1
    <3>2. QED
      BY <3>1, RegistersBack
  <2>5. Received(rsp) = Response(fc % 128, <<>>, values, NamesOf({}))
    BY <2>1, ReceivedIs
  <2>6. QED
    BY <1>14, <1>15, <2>1, <2>3, <2>4, <2>5, Zenon
<1>18. TryResponse(pdu) = {Received(rsp)}
  BY <1>16, <1>17
<1>19. QED
  BY <1>3, <1>5, <1>11, <1>18

LEMMA WriteBack ==
  ASSUME NEW fc \in Codes, NEW args \in Seq(Word), ~ReadsBits(fc), ~ReadsRegisters(fc),
         Len(args) = IF fc = 22 THEN 3 ELSE 2, fc = 5 => args[2] \in Bit,
         NEW pdu \in EncodeResponse(Response(fc, args, <<>>, {}))
  PROVE  /\ pdu \in Seq(Byte) /\ Len(pdu) = IF fc = 22 THEN 7 ELSE 5
         /\ TryResponse(pdu) = {Received(Response(fc, args, <<>>, {}))}
<1> DEFINE rsp == Response(fc, args, <<>>, {})
           fs == IF fc = 5 THEN <<args[1], CoilField(args[2])>> ELSE args
           n == Len(args)
           p == PutU16s(fs)
           h == <<fc>>
           last == IF fc = 22 THEN 7 ELSE 5
<1>1. rsp.fc = fc /\ rsp.ex = {} /\ rsp.args = args
  BY DEF Response
<1>2. fc \in {5, 6, 8, 15, 16, 22} /\ fc \in Byte /\ fc < 128 /\ fc % 128 = fc
  BY ReadsAre DEF Codes, Byte
<1>3. /\ n \in {2, 3} /\ 1 + 2 * n = last
      /\ fc = 5 => n = 2
  OBVIOUS
<1>4. fs \in Seq(Word) /\ Len(fs) = n
  <2>1. CASE fc = 5
    <3>1. args[1] \in Word /\ CoilField(args[2]) \in Word
      BY <2>1, CoilFieldIs
    <3>2. fs = <<args[1], CoilField(args[2])>>
      BY <2>1
    <3> HIDE DEF fs
    <3>3. fs \in Seq(Word) /\ Len(fs) = 2
      BY <3>1, <3>2
    <3>4. QED
      BY <1>3, <2>1, <3>3
  <2>2. CASE fc # 5
    BY <2>2
  <2>3. QED
    BY <2>1, <2>2
<1>5. ResponseBytes(rsp) = h \o p
  BY <1>1, Zenon DEF ResponseBytes
<1>6. EncodeResponse(rsp) \subseteq {h \o p}
  BY <1>5, Zenon DEF EncodeResponse, Checked
<1>7. pdu = h \o p
  BY <1>6, Zenon
<1> HIDE DEF fs
<1>8. p \in Seq(Byte) /\ Len(p) = 2 * n
  BY <1>4, PutIs
<1>9. h \in Seq(Byte) /\ Len(h) = 1 /\ h[1] = fc
  BY <1>2
<1> HIDE DEF p, h, n, last
<1>10. pdu \in Seq(Byte) /\ Len(pdu) = last /\ pdu[1] = fc
  <2>1. /\ h \o p \in Seq(Byte) /\ Len(h \o p) = Len(h) + Len(p)
        /\ \A i \in 1..Len(h) : (h \o p)[i] = h[i]
    BY <1>8, <1>9, Concatenation, Zenon
  <2>2. 1 \in 1..Len(h) /\ Len(h) + Len(p) = last
    BY <1>3, <1>8, <1>9
  <2>3. QED
    BY <1>7, <1>9, <2>1, <2>2, Zenon
<1>11. SubSeq(pdu, 2, last) = p
  <2>1. Len(h) + 1 = 2 /\ Len(h) + Len(p) = last
    BY <1>3, <1>8, <1>9
  <2>2. QED
    BY <1>7, <1>8, <1>9, <2>1, TailBack, Zenon
<1>12. U16s(SubSeq(pdu, 2, last)) = fs
  BY <1>4, <1>11, RegistersBack, Zenon DEF p
<1>13. last \in Nat /\ last >= 5
  BY DEF last
<1>14. TryResponse(pdu) = DecodeResponse(pdu)
  <2>1. ~(Len(pdu) < 2)
    BY <1>10, <1>13
  <2>2. QED
    BY <1>2, <1>10, <2>1, Zenon DEF TryResponse
<1> DEFINE gs == IF fc = 5 THEN <<fs[1], CoilBit(fs[2])>> ELSE fs
<1>15. DecodeResponse(pdu) = {Response(fc, gs, <<>>, {})}
  <2>1. ~(Len(pdu) < last)
    BY <1>10, <1>13
  <2>2. ~ReadsBits(pdu[1]) /\ ~ReadsRegisters(pdu[1])
    BY <1>10
  <2> DEFINE d == U16s(SubSeq(pdu, 2, IF pdu[1] = 22 THEN 7 ELSE 5))
  <2>3. d = fs
    BY <1>10, <1>12, Zenon DEF last
  <2>4. ~(Len(pdu) < IF pdu[1] = 22 THEN 7 ELSE 5)
    BY <1>10, <2>1 DEF last
  <2>5. DecodeResponse(pdu) = {Response(fc, IF fc = 5 THEN <<d[1], CoilBit(d[2])>> ELSE d, <<>>, {})}
    BY <1>2, <1>10, <2>2, <2>4 DEF DecodeResponse, Response
  <2>6. QED
    BY <2>3, <2>5, Zenon
<1>16. gs = args
  <2>1. CASE fc = 5
    <3>1. fs[1] = args[1] /\ fs[2] = CoilField(args[2])
      BY <2>1 DEF fs
    <3>2. CoilBit(CoilField(args[2])) = args[2]
      BY <2>1, CoilFieldIs
    <3>3. args = <<args[1], args[2]>>
      <4>1. Len(args) = 2
        BY <2>1
      <4>2. QED
        BY <4>1
    <3>4. gs = <<fs[1], CoilBit(fs[2])>>
      BY <2>1
    <3> HIDE DEF gs
    <3>5. QED
      BY <3>1, <3>2, <3>3, <3>4, Zenon
  <2>2. CASE fc # 5
    BY <2>2 DEF fs
  <2>3. QED
    BY <2>1, <2>2
<1> HIDE DEF gs
<1>17. Received(rsp) = Response(fc % 128, args, <<>>, NamesOf({}))
  BY ReceivedIs
<1>18. NamesOf({}) = {}
  BY DEF NamesOf
<1>19. TryResponse(pdu) = {Received(rsp)}
  BY <1>2, <1>14, <1>15, <1>16, <1>17, <1>18, Zenon
<1>20. QED
  BY <1>10, <1>19 DEF last

\* Response::try_from undoes encode_response_into, for every response that
\* encodes: every register and every echo comes back as it was, coils come back
\* in their place and fill the last byte with zeros, and an exception comes back
\* with the function code of the request and its code, under the name that
\* Exception::from gives the code.
THEOREM ResponseRoundTrip ==
  ASSUME NEW rsp \in ResponseValues, NEW pdu \in EncodeResponse(rsp)
  PROVE  TryResponse(pdu) = {Received(rsp)}
<1>1. /\ rsp.fc \in Byte /\ rsp.args \in Seq(Word) /\ rsp.values \in Seq(Word)
      /\ rsp = Response(rsp.fc, rsp.args, rsp.values, rsp.ex)
  BY DEF ResponseValues, Response
<1>2. CASE /\ rsp.args = <<>> /\ rsp.values = <<>>
           /\ \E e \in [custom : BOOLEAN, code : Byte] : rsp.ex = {e}
  <2>1. PICK e \in [custom : BOOLEAN, code : Byte] : rsp.ex = {e}
    BY <1>2
  <2>2. rsp = Response(rsp.fc, <<>>, <<>>, {e})
    BY <1>1, <1>2, <2>1
  <2>3. QED
    BY <1>1, <2>2, ExceptionBack
<1>3. CASE /\ rsp.ex = {} /\ rsp.fc \in Codes
           /\ IF ReadsBits(rsp.fc) \/ ReadsRegisters(rsp.fc) THEN rsp.args = <<>>
              ELSE rsp.values = <<>> /\ Len(rsp.args) = IF rsp.fc = 22 THEN 3 ELSE 2
           /\ rsp.fc = 5 => rsp.args[2] \in Bit
           /\ ReadsBits(rsp.fc) => rsp.values \in Seq(Bit)
  <2>1. CASE ReadsBits(rsp.fc) \/ ReadsRegisters(rsp.fc)
    <3>1. rsp = Response(rsp.fc, <<>>, rsp.values, {})
      BY <1>1, <1>3, <2>1
    <3>2. QED
      BY <1>1, <1>3, <2>1, <3>1, ReadBack
  <2>2. CASE ~(ReadsBits(rsp.fc) \/ ReadsRegisters(rsp.fc))
    <3>1. rsp = Response(rsp.fc, rsp.args, <<>>, {})
      BY <1>1, <1>3, <2>2
    <3>2. QED
      <4> DEFINE fc == rsp.fc
                 args == rsp.args
      <4>1. /\ fc \in Codes /\ args \in Seq(Word) /\ ~ReadsBits(fc) /\ ~ReadsRegisters(fc)
            /\ Len(args) = (IF fc = 22 THEN 3 ELSE 2) /\ (fc = 5 => args[2] \in Bit)
        BY <1>1, <1>3, <2>2
      <4>2. rsp = Response(fc, args, <<>>, {})
        BY <3>1
      <4> HIDE DEF fc, args
      <4>3. pdu \in EncodeResponse(Response(fc, args, <<>>, {}))
        BY <4>2
      <4>4. QED
        BY <4>1, <4>2, <4>3, WriteBack
  <2>3. QED
    BY <2>1, <2>2
<1>4. QED
  BY <1>2, <1>3 DEF ResponseValues
====
