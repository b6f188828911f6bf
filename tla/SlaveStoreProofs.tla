---- MODULE SlaveStoreProofs ----
(***************************************************************************)
(* The store behaves as the memory of Memory.tla, proved for every number   *)
(* of tasks, every size of the address space, of registers and of bytes,    *)
(* and every set of decoded requests.                                       *)
(***************************************************************************)
EXTENDS SlaveStore, WellFoundedInduction, TLAPS

----------------------------------------------------------------------------
(* Numbers *)

LEMMA LeastExists ==
  ASSUME NEW S \in SUBSET Nat, S # {}
  PROVE  \E n \in S : \A m \in S : n <= m
<1>1. PICK n \in S : \A m \in S : ~(<<m, n>> \in OpToRel(<, Nat))
  BY NatLessThanWellFounded, WFMin
<1>2. ASSUME NEW m \in S PROVE n <= m
  <2>1. m \in Nat /\ n \in Nat /\ ~(m < n)
    BY <1>1 DEF OpToRel
  <2>2. QED
    BY <2>1
<1>3. QED
  BY <1>2

\* A set of naturals with a bound has a largest element.
LEMMA LargestExists ==
  ASSUME NEW S \in SUBSET Nat, S # {}, NEW bound \in Nat, \A x \in S : x <= bound
  PROVE  \E n \in S : \A m \in S : m <= n
<1> DEFINE T == {bound - x : x \in S}
<1>1. T \in SUBSET Nat /\ T # {}
  <2>1. \A x \in S : x \in Nat /\ bound - x \in Nat
    OBVIOUS
  <2>2. QED
    BY <2>1
<1>2. PICK d \in T : \A e \in T : d <= e
  BY <1>1, LeastExists
<1>3. PICK n \in S : d = bound - n
  BY <1>2
<1>4. \A m \in S : bound - n <= bound - m
  BY <1>2, <1>3
<1>5. \A m \in S : m <= n
  BY <1>4
<1>6. QED
  BY <1>5

LEMMA DivMod ==
  ASSUME NEW a \in Nat
  PROVE  /\ ByteIdx(a) \in Nat /\ BitIdx(a) \in 0..(ByteBits - 1)
         /\ a = ByteIdx(a) * ByteBits + BitIdx(a)
BY StoreConstants DEF ByteIdx, BitIdx

\* The position of a bit is its address in only one way.
LEMMA OnePlace ==
  ASSUME NEW B \in Nat \ {0}, NEW p \in Nat, NEW q \in Nat,
         NEW b \in 0..(B - 1), NEW c \in 0..(B - 1), p * B + b <= q * B + c
  PROVE  p <= q
<1> SUFFICES ASSUME p > q PROVE FALSE
  OBVIOUS
<1>1. PICK k \in Nat : p = q + 1 + k
  <2>1. p - q - 1 \in Nat /\ p = q + 1 + (p - q - 1)
    OBVIOUS
  <2>2. QED
    BY <2>1
<1>2. p * B = q * B + B + k * B
  BY <1>1
<1>3. k * B \in Nat /\ q * B \in Nat /\ p * B \in Nat
  BY <1>1
<1>4. QED
  BY <1>2, <1>3

----------------------------------------------------------------------------
(* Vectors *)

Addrs == 0..(AddrCount - 1)
Register == SUBSET Bits
Byte == SUBSET (0..(ByteBits - 1))

RegisterVec(vec) == vec \in Seq(Register) /\ Len(vec) <= AddrCount
ByteVec(vec) == vec \in Seq(Byte) /\ Len(vec) * ByteBits <= AddrCount

\* A vector that grows keeps what it has, and has zeros beyond.
LEMMA ResizeIs ==
  ASSUME NEW S, {} \in S, NEW vec \in Seq(S), NEW n \in Nat
  PROVE  /\ Resize(vec, n) \in Seq(S)
         /\ Len(Resize(vec, n)) = IF n <= Len(vec) THEN Len(vec) ELSE n
         /\ \A i \in 1..Len(Resize(vec, n)) : Resize(vec, n)[i] = IF i <= Len(vec) THEN vec[i] ELSE {}
<1>1. CASE n <= Len(vec)
  BY <1>1 DEF Resize
<1>2. CASE ~(n <= Len(vec))
  <2>1. Resize(vec, n) = [i \in 1..n |-> IF i <= Len(vec) THEN vec[i] ELSE {}]
    BY <1>2 DEF Resize
  <2>2. \A i \in 1..n : (IF i <= Len(vec) THEN vec[i] ELSE {}) \in S
    OBVIOUS
  <2>3. QED
    BY <1>2, <2>1, <2>2
<1>3. QED
  BY <1>1, <1>2

LEMMA WriteRegistersIs ==
  ASSUME NEW vec, RegisterVec(vec), NEW addr \in Nat, NEW values \in Seq(Register),
         InSpace(addr, Len(values))
  PROVE  /\ RegisterVec(WriteRegisters(vec, addr, values))
         /\ \A a \in Addrs : RegisterAt(WriteRegisters(vec, addr, values), a) =
                IF a - addr + 1 \in 1..Len(values) THEN values[a - addr + 1] ELSE RegisterAt(vec, a)
<1> DEFINE grown == Resize(vec, addr + Len(values))
           w == WriteRegisters(vec, addr, values)
           k == Len(values)
<1>1. k \in Nat /\ k > 0 /\ addr + k <= AddrCount /\ AddrCount \in Nat
  BY StoreConstants DEF InSpace
<1>2. vec \in Seq(Register) /\ Len(vec) <= AddrCount /\ {} \in Register /\ Len(vec) \in Nat
  BY DEF RegisterVec, Register
<1>3. /\ grown \in Seq(Register) /\ Len(grown) = IF addr + k <= Len(vec) THEN Len(vec) ELSE addr + k
      /\ \A i \in 1..Len(grown) : grown[i] = IF i <= Len(vec) THEN vec[i] ELSE {}
  BY <1>1, <1>2, ResizeIs
<1>4. w = [i \in 1..Len(grown) |-> IF i - addr \in 1..k THEN values[i - addr] ELSE grown[i]]
  BY <1>1 DEF WriteRegisters
<1> HIDE DEF grown, w
<1>5. /\ w \in Seq(Register) /\ Len(w) = Len(grown)
      /\ \A i \in 1..Len(grown) : w[i] = IF i - addr \in 1..k THEN values[i - addr] ELSE grown[i]
  <2>1. \A i \in 1..Len(grown) : (IF i - addr \in 1..k THEN values[i - addr] ELSE grown[i]) \in Register
    BY <1>3
  <2>2. Len(grown) \in Nat
    BY <1>3
  <2>3. w \in [1..Len(grown) -> Register]
    BY <1>4, <2>1
  <2>4. QED
    BY <1>4, <2>2, <2>3
<1> HIDE DEF k
<1>6. RegisterVec(w)
  BY <1>1, <1>2, <1>3, <1>5 DEF RegisterVec
<1>7. ASSUME NEW a \in Addrs
      PROVE  RegisterAt(w, a) = IF a - addr + 1 \in 1..k THEN values[a - addr + 1] ELSE RegisterAt(vec, a)
  <2>1. a \in Nat /\ a < AddrCount /\ a + 1 - addr = a - addr + 1 /\ Len(grown) \in Nat
    BY <1>1, <1>3 DEF Addrs
  <2>2. CASE a - addr + 1 \in 1..k
    <3>1. a < Len(w) /\ a + 1 \in 1..Len(grown)
      BY <1>1, <1>2, <1>3, <1>5, <2>1, <2>2
    <3>2. w[a + 1] = values[a - addr + 1]
      BY <1>5, <2>1, <2>2, <3>1
    <3>3. RegisterAt(w, a) = w[a + 1]
      BY <3>1 DEF RegisterAt
    <3>4. QED
      BY <2>2, <3>2, <3>3
  <2>3. CASE ~(a - addr + 1 \in 1..k)
    <3>1. CASE a < Len(w)
      <4>1. a + 1 \in 1..Len(grown) /\ w[a + 1] = grown[a + 1]
        BY <1>5, <2>1, <2>3, <3>1
      <4>2. grown[a + 1] = RegisterAt(vec, a)
        BY <1>2, <1>3, <2>1, <4>1 DEF RegisterAt
      <4>3. QED
        BY <2>3, <3>1, <4>1, <4>2 DEF RegisterAt
    <3>2. CASE ~(a < Len(w))
      <4>1. ~(a < Len(vec))
        BY <1>1, <1>2, <1>3, <1>5, <2>1, <3>2
      <4>2. QED
        BY <2>3, <3>2, <4>1 DEF RegisterAt
    <3>3. QED
      BY <3>1, <3>2
  <2>4. QED
    BY <2>2, <2>3
<1>8. QED
  BY <1>6, <1>7 DEF w, k

LEMMA FunctionIsSeq ==
  ASSUME NEW S, NEW n \in Nat, NEW f \in [1..n -> S]
  PROVE  f \in Seq(S) /\ Len(f) = n
OBVIOUS

\* The value of a masked write.
Masked(old, and, or) == {b \in Bits : b \in IF b \in and THEN old ELSE or}

MaskedVec(vec, addr, and, or) ==
  [Resize(vec, addr + 1) EXCEPT ![addr + 1] = (@ \cap and) \cup (or \ and)]

LEMMA MaskIs ==
  ASSUME NEW vec, RegisterVec(vec), NEW addr \in Nat, InSpace(addr, 1),
         NEW and \in Register, NEW or \in Register
  PROVE  /\ RegisterVec(MaskedVec(vec, addr, and, or))
         /\ \A a \in Addrs : RegisterAt(MaskedVec(vec, addr, and, or), a) =
                IF a = addr THEN Masked(RegisterAt(vec, a), and, or)
                ELSE RegisterAt(vec, a)
<1> DEFINE hr == Resize(vec, addr + 1)
           w == MaskedVec(vec, addr, and, or)
<1>1. addr + 1 <= AddrCount /\ AddrCount \in Nat
  BY StoreConstants DEF InSpace
<1>2. vec \in Seq(Register) /\ Len(vec) <= AddrCount /\ {} \in Register /\ Len(vec) \in Nat
  BY DEF RegisterVec, Register
<1>3. /\ hr \in Seq(Register) /\ Len(hr) = IF addr + 1 <= Len(vec) THEN Len(vec) ELSE addr + 1
      /\ \A i \in 1..Len(hr) : hr[i] = IF i <= Len(vec) THEN vec[i] ELSE {}
  <2>1. addr + 1 \in Nat
    OBVIOUS
  <2>2. QED
    BY <1>2, <2>1, ResizeIs
<1>4. addr + 1 \in 1..Len(hr) /\ w = [hr EXCEPT ![addr + 1] = (hr[addr + 1] \cap and) \cup (or \ and)]
  <2>1. addr + 1 \in 1..Len(hr)
    BY <1>2, <1>3
  <2>2. w = [hr EXCEPT ![addr + 1] = (hr[addr + 1] \cap and) \cup (or \ and)]
    BY Zenon DEF MaskedVec
  <2>3. QED
    BY <2>1, <2>2
<1> HIDE DEF hr, w
<1>5. hr[addr + 1] \in Register /\ (hr[addr + 1] \cap and) \cup (or \ and) \in Register
  BY <1>3, <1>4 DEF Register
<1>6. /\ w \in Seq(Register) /\ Len(w) = Len(hr)
      /\ w[addr + 1] = (hr[addr + 1] \cap and) \cup (or \ and)
      /\ \A i \in 1..Len(hr) : i # addr + 1 => w[i] = hr[i]
  <2> DEFINE v == (hr[addr + 1] \cap and) \cup (or \ and)
  <2>1. v \in Register /\ w = [hr EXCEPT ![addr + 1] = v]
    BY <1>4, <1>5
  <2> HIDE DEF v
  <2>2. hr \in [1..Len(hr) -> Register] /\ Len(hr) \in Nat
    BY <1>3
  <2>3. w \in [1..Len(hr) -> Register]
    BY <2>1, <2>2
  <2>4. w \in Seq(Register) /\ Len(w) = Len(hr)
    BY <2>2, <2>3, FunctionIsSeq
  <2>5. w[addr + 1] = v /\ \A i \in 1..Len(hr) : i # addr + 1 => w[i] = hr[i]
    BY <1>4, <2>1, <2>2
  <2>6. QED
    BY <2>4, <2>5 DEF v
<1>7. RegisterVec(w)
  BY <1>1, <1>2, <1>3, <1>6 DEF RegisterVec
<1>8. hr[addr + 1] = RegisterAt(vec, addr)
  BY <1>2, <1>3, <1>4 DEF RegisterAt
<1>9. RegisterAt(w, addr) = w[addr + 1]
  BY <1>2, <1>3, <1>6 DEF RegisterAt
<1>10. w[addr + 1] = Masked(RegisterAt(vec, addr), and, or)
  BY <1>5, <1>6, <1>8 DEF Register, Masked
<1>11. ASSUME NEW a \in Addrs, a # addr PROVE RegisterAt(w, a) = RegisterAt(vec, a)
  <2>1. a \in Nat /\ a + 1 # addr + 1
    BY <1>1, <1>11 DEF Addrs
  <2>2. CASE a < Len(w)
    <3>1. a + 1 \in 1..Len(hr) /\ w[a + 1] = hr[a + 1]
      BY <1>3, <1>6, <2>1, <2>2
    <3>2. hr[a + 1] = RegisterAt(vec, a)
      BY <1>2, <1>3, <2>1, <3>1 DEF RegisterAt
    <3>3. QED
      BY <2>2, <3>1, <3>2 DEF RegisterAt
  <2>3. CASE ~(a < Len(w))
    BY <1>2, <1>3, <1>6, <2>1, <2>3 DEF RegisterAt
  <2>4. QED
    BY <2>2, <2>3
<1>12. QED
  BY <1>7, <1>9, <1>10, <1>11 DEF w

\* The bytes that hold a range fit into the address space.
LEMMA BytesFit ==
  ASSUME NEW a \in Addrs
  PROVE  (ByteIdx(a) + 1) * ByteBits <= AddrCount
<1> DEFINE n == ByteIdx(AddrCount)
           q == ByteIdx(a)
<1>1. a \in Nat /\ a < AddrCount /\ AddrCount \in Nat /\ ByteBits \in Nat \ {0}
  BY StoreConstants DEF Addrs
<1>2. n \in Nat /\ AddrCount = n * ByteBits
  <2>1. BitIdx(AddrCount) = 0
    BY StoreConstants DEF BitIdx
  <2>2. n \in Nat /\ AddrCount = n * ByteBits + BitIdx(AddrCount)
    BY <1>1, DivMod
  <2> HIDE DEF n
  <2>3. n * ByteBits \in Nat
    BY <1>1, <2>2
  <2>4. QED
    BY <1>1, <2>1, <2>2, <2>3
<1>3. q \in Nat /\ BitIdx(a) \in 0..(ByteBits - 1) /\ a = q * ByteBits + BitIdx(a)
  BY <1>1, DivMod
<1> HIDE DEF n, q
<1>4. q < n
  <2> SUFFICES ASSUME ~(q < n) PROVE FALSE
    OBVIOUS
  <2>1. PICK d \in Nat : q = n + d
    <3>1. q - n \in Nat /\ q = n + (q - n)
      BY <1>2, <1>3
    <3>2. QED
      BY <3>1
  <2>2. q * ByteBits = n * ByteBits + d * ByteBits /\ d * ByteBits \in Nat
    BY <1>1, <1>2, <2>1
  <2>3. QED
    BY <1>1, <1>2, <1>3, <2>2
<1>5. PICK d \in Nat : n = q + 1 + d
  <2>1. n - q - 1 \in Nat /\ n = q + 1 + (n - q - 1)
    BY <1>2, <1>3, <1>4
  <2>2. QED
    BY <2>1
<1>6. n * ByteBits = (q + 1) * ByteBits + d * ByteBits /\ d * ByteBits \in Nat /\ (q + 1) * ByteBits \in Nat
  BY <1>1, <1>3, <1>5
<1>7. QED
  BY <1>2, <1>6 DEF q

LEMMA WriteBitsIs ==
  ASSUME NEW vec, ByteVec(vec), NEW addr \in Nat, NEW values \in Seq(BOOLEAN),
         InSpace(addr, Len(values))
  PROVE  /\ ByteVec(WriteBits(vec, addr, values))
         /\ \A a \in Addrs : BitAt(WriteBits(vec, addr, values), a) =
                IF a - addr + 1 \in 1..Len(values) THEN values[a - addr + 1] ELSE BitAt(vec, a)
<1> DEFINE k == Len(values)
           last == addr + k - 1
           n == ByteIdx(last) + 1
           grown == Resize(vec, n)
           given(i, b) == (i - 1) * ByteBits + b - addr + 1
           w == WriteBits(vec, addr, values)
<1>1. k \in Nat /\ k > 0 /\ addr + k <= AddrCount /\ AddrCount \in Nat /\ ByteBits \in Nat \ {0}
  BY StoreConstants DEF InSpace
<1>2. vec \in Seq(Byte) /\ Len(vec) * ByteBits <= AddrCount /\ {} \in Byte /\ Len(vec) \in Nat
  BY DEF ByteVec, Byte
<1>3. last \in Nat /\ last \in Addrs /\ last = addr + k - 1
  BY <1>1 DEF Addrs
<1> HIDE DEF last
<1>4. /\ n \in Nat /\ n * ByteBits <= AddrCount
      /\ last = (n - 1) * ByteBits + BitIdx(last) /\ BitIdx(last) \in 0..(ByteBits - 1)
  <2>1. ByteIdx(last) \in Nat /\ n - 1 = ByteIdx(last)
    BY <1>3, DivMod
  <2>2. last = ByteIdx(last) * ByteBits + BitIdx(last) /\ BitIdx(last) \in 0..(ByteBits - 1)
    BY <1>3, DivMod, Zenon
  <2>3. n * ByteBits <= AddrCount
    BY <1>3, BytesFit, Zenon
  <2>4. last = (n - 1) * ByteBits + BitIdx(last)
    BY <2>1, <2>2
  <2>5. QED
    BY <2>1, <2>2, <2>3, <2>4
<1> HIDE DEF n
<1>5. /\ grown \in Seq(Byte) /\ Len(grown) = IF n <= Len(vec) THEN Len(vec) ELSE n
      /\ \A i \in 1..Len(grown) : grown[i] = IF i <= Len(vec) THEN vec[i] ELSE {}
  BY <1>2, <1>4, ResizeIs
<1>6. w = [i \in 1..Len(grown) |->
             {b \in 0..(ByteBits - 1) : IF given(i, b) \in 1..k THEN values[given(i, b)] ELSE b \in grown[i]}]
  BY <1>1 DEF WriteBits, last, n
<1> HIDE DEF grown, w, k
<1>7. /\ w \in Seq(Byte) /\ Len(w) = Len(grown)
      /\ \A i \in 1..Len(grown), b \in 0..(ByteBits - 1) :
           b \in w[i] <=> IF given(i, b) \in 1..k THEN values[given(i, b)] ELSE b \in grown[i]
  <2>1. Len(grown) \in Nat
    BY <1>5
  <2>2. w \in [1..Len(grown) -> Byte]
    BY <1>6 DEF Byte
  <2>3. \A i \in 1..Len(grown), b \in 0..(ByteBits - 1) :
           b \in w[i] <=> IF given(i, b) \in 1..k THEN values[given(i, b)] ELSE b \in grown[i]
    BY <1>6, Zenon
  <2>4. QED
    BY <2>1, <2>2, <2>3, FunctionIsSeq
<1>8. ByteVec(w)
  BY <1>2, <1>4, <1>5, <1>7 DEF ByteVec
<1>9. ASSUME NEW a \in Addrs
      PROVE  BitAt(w, a) = IF a - addr + 1 \in 1..k THEN values[a - addr + 1] ELSE BitAt(vec, a)
  <2> DEFINE q == ByteIdx(a)
             m == BitIdx(a)
  <2>1. a \in Nat /\ q \in Nat /\ m \in 0..(ByteBits - 1) /\ a = q * ByteBits + m
    <3>1. a \in Nat
      BY <1>1 DEF Addrs
    <3>2. QED
      BY <3>1, DivMod, Zenon
  <2>2. BitAt(w, a) = (q < Len(w) /\ m \in w[q + 1]) /\ BitAt(vec, a) = (q < Len(vec) /\ m \in vec[q + 1])
    BY DEF BitAt
  <2> HIDE DEF q, m
  <2>3. given(q + 1, m) = a - addr + 1
    <3>1. (q + 1) - 1 = q
      BY <2>1
    <3>2. q * ByteBits \in Nat
      BY <1>1, <2>1
    <3>3. QED
      BY <2>1, <3>1, <3>2
  <2>4. q < Len(grown) => q + 1 \in 1..Len(grown)
    BY <1>5, <2>1
  <2> HIDE DEF given
  <2>5. CASE a - addr + 1 \in 1..k
    <3>1. a <= last
      BY <1>1, <1>3, <2>1, <2>5
    <3>2. q <= n - 1
      <4>1. n - 1 \in Nat
        <5>1. ByteIdx(last) \in Nat
          BY <1>3, DivMod, Zenon
        <5>2. QED
          BY <5>1 DEF n
      <4>2. q * ByteBits + m <= (n - 1) * ByteBits + BitIdx(last)
        BY <1>4, <2>1, <3>1
      <4>3. QED
        BY <1>1, <1>4, <2>1, <4>1, <4>2, OnePlace
    <3>3. q < Len(grown)
      BY <1>2, <1>4, <1>5, <2>1, <3>2
    <3>4. m \in w[q + 1] <=> values[a - addr + 1]
      BY <1>7, <2>1, <2>3, <2>4, <2>5, <3>3
    <3>5. values[a - addr + 1] \in BOOLEAN
      BY <2>5 DEF k
    <3>6. QED
      BY <1>7, <2>2, <2>5, <3>3, <3>4, <3>5
  <2>6. CASE ~(a - addr + 1 \in 1..k)
    <3>1. CASE q < Len(grown)
      <4>1. m \in w[q + 1] <=> m \in grown[q + 1]
        BY <1>7, <2>1, <2>3, <2>4, <2>6, <3>1
      <4>2. m \in grown[q + 1] <=> (q < Len(vec) /\ m \in vec[q + 1])
        BY <1>2, <1>5, <2>1, <2>4, <3>1
      <4>3. QED
        BY <1>7, <2>2, <2>6, <3>1, <4>1, <4>2
    <3>2. CASE ~(q < Len(grown))
      <4>1. ~(q < Len(vec))
        BY <1>2, <1>4, <1>5, <2>1, <3>2
      <4>2. QED
        BY <1>7, <2>2, <2>6, <3>2, <4>1
    <3>3. QED
      BY <3>1, <3>2
  <2>7. QED
    BY <2>5, <2>6
<1>10. QED
  BY <1>8, <1>9 DEF w, k

----------------------------------------------------------------------------
(* The invariant *)

\* What a task holds between the two locks of function code 23.
Exchanges == {r \in Requests : r.op = "exchange"}
Waiting == {<<>>} \cup (Exchanges \X Seq(Register))

Vectors ==
  /\ RegisterVec(holding_registers) /\ RegisterVec(input_registers)
  /\ ByteVec(coils) /\ ByteVec(discrete_inputs)

Inv == Vectors /\ exchanging \in [Tasks -> Waiting]

LEMMA VectorsMean == Vectors <=> TypeOK
BY DEF Vectors, TypeOK, RegisterVec, ByteVec, Register, Byte

LEMMA RequestTyped ==
  ASSUME NEW r \in Requests
  PROVE  /\ r.op = "read" => r.tab \in BitNames \cup RegisterNames /\ InSpace(r.addr, r.qty)
         /\ r.op = "write" /\ r.tab \in BitNames => r.values \in Seq(BOOLEAN)
         /\ r.op = "write" /\ r.tab \in RegisterNames => r.values \in Seq(Register)
         /\ r.op = "write" => InSpace(r.addr, Len(r.values)) /\ r.addr \in Nat
         /\ r.op = "mask" => /\ InSpace(r.addr, 1) /\ r.addr \in Nat
                             /\ r.and_mask \in Register /\ r.or_mask \in Register
         /\ r.op = "exchange" => /\ InSpace(r.addr, r.qty) /\ r.values \in Seq(Register)
                                 /\ InSpace(r.write_addr, Len(r.values)) /\ r.write_addr \in Nat
<1>1. r.op = "write" /\ r.tab \in BitNames => r.values \in Seq(BOOLEAN)
  BY StoreConstants DEF BitNames, RegisterNames
<1>2. r.op = "write" /\ r.tab \in RegisterNames => r.values \in Seq(Register)
  BY StoreConstants DEF BitNames, RegisterNames, Register
<1>3. QED
  BY <1>1, <1>2, StoreConstants DEF InSpace, Register

LEMMA ReadRegistersTyped ==
  ASSUME NEW vec, RegisterVec(vec), NEW addr, NEW qty, InSpace(addr, qty)
  PROVE  ReadRegisters(vec, addr, qty) \in Seq(Register)
<1>1. addr \in Nat /\ qty \in Nat /\ vec \in Seq(Register) /\ {} \in Register
  BY DEF InSpace, RegisterVec, Register
<1>2. \A i \in 1..qty : (IF addr + i <= Len(vec) THEN vec[addr + i] ELSE {}) \in Register
  BY <1>1
<1>3. ReadRegisters(vec, addr, qty) \in [1..qty -> Register]
  BY <1>2 DEF ReadRegisters
<1>4. QED
  BY <1>1, <1>3, FunctionIsSeq

LEMMA LastForTyped ==
  ASSUME NEW regs \in Preloads, NEW a
  PROVE  LastFor(regs, a) \in Register
<1> DEFINE named == {i \in 1..Len(regs) : regs[i][1] = a}
<1>1. regs \in Seq((0..(AddrCount - 1)) \X SUBSET Bits)
  BY StoreConstants
<1>2. CASE named = {}
  BY <1>2 DEF LastFor, Register
<1>3. CASE named # {}
  <2>1. named \in SUBSET Nat /\ Len(regs) \in Nat /\ \A x \in named : x <= Len(regs)
    BY <1>1
  <2>2. \E n \in named : \A m \in named : m <= n
    BY <1>3, <2>1, LargestExists
  <2> DEFINE c == CHOOSE i \in named : \A j \in named : j <= i
  <2>3. c \in named
    BY <2>2
  <2>4. LastFor(regs, a) = regs[c][2]
    BY <1>3 DEF LastFor
  <2> HIDE DEF c
  <2>5. regs[c] \in (0..(AddrCount - 1)) \X SUBSET Bits
    BY <1>1, <2>3
  <2>6. QED
    BY <2>4, <2>5 DEF Register
<1>4. QED
  BY <1>2, <1>3

\* with_holding_registers makes room for every address it is given.
LEMMA PreloadSize ==
  ASSUME NEW regs \in Preloads
  PROVE  \E size \in 1..AddrCount :
           /\ WithHoldingRegisters(regs) = [i \in 1..size |-> LastFor(regs, i - 1)]
           /\ \A i \in 1..Len(regs) : regs[i][1] < size
<1> DEFINE sizes == {DEFAULT_REG_COUNT} \cup {regs[i][1] + 1 : i \in 1..Len(regs)}
           size == CHOOSE n \in sizes : \A m \in sizes : m <= n
<1>1. regs \in Seq((0..(AddrCount - 1)) \X SUBSET Bits) /\ AddrCount \in Nat
         /\ DEFAULT_REG_COUNT \in 1..AddrCount
  BY StoreConstants
<1>2. \A i \in 1..Len(regs) : regs[i][1] \in 0..(AddrCount - 1) /\ regs[i][1] + 1 \in 1..AddrCount
  <2>1. \A i \in 1..Len(regs) : regs[i] \in (0..(AddrCount - 1)) \X SUBSET Bits
    BY <1>1
  <2>2. \A i \in 1..Len(regs) : regs[i][1] \in 0..(AddrCount - 1)
    BY <2>1
  <2>3. QED
    BY <1>1, <2>2
<1>3. sizes \subseteq 1..AddrCount /\ sizes # {}
  BY <1>1, <1>2
<1>4. \E n \in sizes : \A m \in sizes : m <= n
  <2> HIDE DEF sizes
  <2>1. sizes \in SUBSET Nat /\ \A x \in sizes : x <= AddrCount
    BY <1>1, <1>3
  <2>2. QED
    BY <1>1, <1>3, <2>1, LargestExists
<1>5. size \in sizes /\ \A m \in sizes : m <= size
  <2> HIDE DEF sizes
  <2>1. QED
    BY <1>4
<1>6. WithHoldingRegisters(regs) = [i \in 1..size |-> LastFor(regs, i - 1)]
  BY DEF WithHoldingRegisters
<1> HIDE DEF size
<1>7. \A i \in 1..Len(regs) : regs[i][1] < size
  <2>1. \A i \in 1..Len(regs) : regs[i][1] + 1 \in sizes
    OBVIOUS
  <2>2. size \in 1..AddrCount
    BY <1>3, <1>5
  <2> HIDE DEF sizes
  <2>3. QED
    BY <1>1, <1>2, <1>5, <2>1, <2>2
<1>8. size \in 1..AddrCount
  BY <1>3, <1>5
<1>9. QED
  BY <1>6, <1>7, <1>8

LEMMA InitInv == Init => Inv
<1> SUFFICES ASSUME Init PROVE Inv
  OBVIOUS
<1>1. AddrCount \in Nat \ {0} /\ ByteBits \in Nat \ {0} /\ DEFAULT_REG_COUNT \in 1..AddrCount
  BY StoreConstants
<1>2. RegisterVec(holding_registers)
  <2>1. PICK regs \in Preloads : holding_registers = WithHoldingRegisters(regs)
    BY DEF Init
  <2>2. PICK size \in 1..AddrCount :
          WithHoldingRegisters(regs) = [i \in 1..size |-> LastFor(regs, i - 1)]
    BY PreloadSize
  <2>3. holding_registers \in [1..size -> Register]
    BY <2>1, <2>2, LastForTyped
  <2>4. QED
    BY <1>1, <2>2, <2>3, FunctionIsSeq DEF RegisterVec
<1>3. RegisterVec(input_registers)
  <2>1. input_registers \in [1..DEFAULT_REG_COUNT -> Register]
    BY DEF Init, Register
  <2>2. QED
    BY <1>1, <2>1, FunctionIsSeq DEF RegisterVec
<1>4. ByteVec(coils) /\ ByteVec(discrete_inputs)
  <2> DEFINE n == ByteIdx(DEFAULT_REG_COUNT)
  <2>1. n = DEFAULT_REG_COUNT \div ByteBits
    BY DEF ByteIdx
  <2>2. n \in Nat /\ DEFAULT_REG_COUNT = n * ByteBits + BitIdx(DEFAULT_REG_COUNT)
           /\ BitIdx(DEFAULT_REG_COUNT) \in 0..(ByteBits - 1)
    <3>1. DEFAULT_REG_COUNT \in Nat
      BY <1>1
    <3>2. QED
      BY <3>1, DivMod, Zenon
  <2> HIDE DEF n
  <2>3. n * ByteBits <= AddrCount
    <3>1. n * ByteBits \in Nat
      BY <1>1, <2>2
    <3>2. QED
      BY <1>1, <2>2, <3>1
  <2>4. coils \in [1..n -> Byte] /\ discrete_inputs \in [1..n -> Byte]
    BY <2>1 DEF Init, Byte
  <2>5. coils \in Seq(Byte) /\ Len(coils) = n /\ discrete_inputs \in Seq(Byte) /\ Len(discrete_inputs) = n
    BY <2>2, <2>4, FunctionIsSeq
  <2>6. QED
    BY <2>3, <2>5 DEF ByteVec
<1>5. exchanging \in [Tasks -> Waiting]
  BY DEF Init, Waiting
<1>6. QED
  BY <1>2, <1>3, <1>4, <1>5 DEF Inv, Vectors

\* An exchange between its locks is one of the requests.
LEMMA WaitingIs ==
  ASSUME Inv, NEW t \in Tasks, ~Free(t)
  PROVE  exchanging[t][1] \in Requests /\ exchanging[t][1].op = "exchange"
<1>1. exchanging[t] \in Exchanges \X Seq(Register)
  BY DEF Inv, Waiting, Free
<1>2. QED
  BY <1>1 DEF Exchanges

LEMMA VectorsNext ==
  ASSUME Inv, NEW t \in Tasks, NEW r \in Requests,
         \/ WriteCoils(t, r) \/ WriteHolding(t, r) \/ WriteDiscreteInput(t, r)
         \/ WriteInputRegister(t, r) \/ MaskWrite(t, r)
  PROVE  Inv'
<1>1. CASE WriteCoils(t, r)
  <2>1. ByteVec(WriteBits(coils, r.addr, r.values))
    BY <1>1, RequestTyped, WriteBitsIs DEF WriteCoils, BitNames, Inv, Vectors
  <2>2. QED
    BY <1>1, <2>1 DEF WriteCoils, Inv, Vectors, RegisterVec, ByteVec
<1>2. CASE WriteHolding(t, r)
  <2>1. RegisterVec(WriteRegisters(holding_registers, r.addr, r.values))
    BY <1>2, RequestTyped, WriteRegistersIs DEF WriteHolding, RegisterNames, Inv, Vectors
  <2>2. QED
    BY <1>2, <2>1 DEF WriteHolding, Inv, Vectors, RegisterVec, ByteVec
<1>3. CASE WriteDiscreteInput(t, r)
  <2>1. ByteVec(WriteBits(discrete_inputs, r.addr, r.values))
    BY <1>3, RequestTyped, WriteBitsIs DEF WriteDiscreteInput, BitNames, Inv, Vectors
  <2>2. QED
    BY <1>3, <2>1 DEF WriteDiscreteInput, Inv, Vectors, RegisterVec, ByteVec
<1>4. CASE WriteInputRegister(t, r)
  <2>1. RegisterVec(WriteRegisters(input_registers, r.addr, r.values))
    BY <1>4, RequestTyped, WriteRegistersIs DEF WriteInputRegister, RegisterNames, Inv, Vectors
  <2>2. QED
    BY <1>4, <2>1 DEF WriteInputRegister, Inv, Vectors, RegisterVec, ByteVec
<1>5. CASE MaskWrite(t, r)
  <2>1. RegisterVec(holding_registers')
    BY <1>5, RequestTyped, MaskIs DEF MaskWrite, MaskedVec, Inv, Vectors
  <2>2. QED
    BY <1>5, <2>1 DEF MaskWrite, Inv, Vectors, RegisterVec, ByteVec
<1>6. QED
  BY <1>1, <1>2, <1>3, <1>4, <1>5

LEMMA ExchangeNext ==
  ASSUME Inv, NEW t \in Tasks,
         ExchangeWrite(t) \/ \E r \in Requests : ExchangeRead(t, r)
  PROVE  Inv'
<1>1. ASSUME NEW r \in Requests, ExchangeRead(t, r) PROVE Inv'
  <2> DEFINE v == ReadRegisters(holding_registers, r.addr, r.qty)
  <2>1. r.op = "exchange" /\ exchanging' = [exchanging EXCEPT ![t] = <<r, v>>] /\ UNCHANGED tables
    BY <1>1 DEF ExchangeRead
  <2>2. v \in Seq(Register)
    BY <2>1, RequestTyped, ReadRegistersTyped DEF Inv, Vectors
  <2> HIDE DEF v
  <2>3. <<r, v>> \in Waiting
    BY <2>1, <2>2 DEF Waiting, Exchanges
  <2>4. exchanging' \in [Tasks -> Waiting]
    BY <2>1, <2>3 DEF Inv
  <2>5. QED
    BY <2>1, <2>4 DEF Inv, Vectors, RegisterVec, ByteVec, tables
<1>2. ASSUME ExchangeWrite(t) PROVE Inv'
  <2> DEFINE r == exchanging[t][1]
  <2>1. r \in Requests /\ r.op = "exchange"
    BY <1>2, WaitingIs DEF ExchangeWrite
  <2>2. holding_registers' = WriteRegisters(holding_registers, r.write_addr, r.values)
           /\ exchanging' = [exchanging EXCEPT ![t] = <<>>]
           /\ UNCHANGED <<coils, discrete_inputs, input_registers>>
    BY <1>2 DEF ExchangeWrite
  <2> HIDE DEF r
  <2>3. RegisterVec(WriteRegisters(holding_registers, r.write_addr, r.values))
    BY <2>1, RequestTyped, WriteRegistersIs DEF Inv, Vectors
  <2>4. exchanging' \in [Tasks -> Waiting]
    BY <2>2 DEF Inv, Waiting
  <2>5. QED
    BY <2>2, <2>3, <2>4 DEF Inv, Vectors, RegisterVec, ByteVec
<1>3. QED
  BY <1>1, <1>2

LEMMA NextInv ==
  ASSUME Inv, [Next]_vars
  PROVE  Inv'
<1>1. CASE UNCHANGED vars
  BY <1>1 DEF Inv, Vectors, RegisterVec, ByteVec, vars, tables
<1>2. ASSUME NEW t \in Tasks, NEW r \in Requests, ReadTable(t, r) \/ Diagnostic(t, r) PROVE Inv'
  BY <1>2 DEF ReadTable, Diagnostic, Inv, Vectors, RegisterVec, ByteVec, tables
<1>3. QED
  BY <1>1, <1>2, VectorsNext, ExchangeNext DEF Next

LEMMA Invariance == Spec => []Inv
<1>1. Init => Inv
  BY InitInv
<1>2. Inv /\ [Next]_vars => Inv'
  BY NextInv
<1>3. QED
  BY <1>1, <1>2, PTL DEF Spec

\* The vectors that grow on demand never outgrow the address space, whatever
\* decoded requests and method calls follow one another.
THEOREM VectorsBounded == Spec => []TypeOK
<1>1. Inv => TypeOK
  BY VectorsMean DEF Inv
<1>2. QED
  BY <1>1, Invariance, PTL

----------------------------------------------------------------------------
(* The refinement *)

Names == {"coils", "discrete_inputs", "holding_registers", "input_registers"}

\* The four tables, address by address.
LEMMA ContentsAre ==
  /\ Contents = [tab \in Names |-> Contents[tab]]
  /\ Contents["coils"] = [a \in Addrs |-> BitAt(coils, a)]
  /\ Contents["discrete_inputs"] = [a \in Addrs |-> BitAt(discrete_inputs, a)]
  /\ Contents["holding_registers"] = [a \in Addrs |-> RegisterAt(holding_registers, a)]
  /\ Contents["input_registers"] = [a \in Addrs |-> RegisterAt(input_registers, a)]
BY DEF Contents, Names, Addrs

LEMMA ContentsAreNext ==
  /\ Contents' = [tab \in Names |-> Contents'[tab]]
  /\ Contents'["coils"] = [a \in Addrs |-> BitAt(coils', a)]
  /\ Contents'["discrete_inputs"] = [a \in Addrs |-> BitAt(discrete_inputs', a)]
  /\ Contents'["holding_registers"] = [a \in Addrs |-> RegisterAt(holding_registers', a)]
  /\ Contents'["input_registers"] = [a \in Addrs |-> RegisterAt(input_registers', a)]
BY DEF Contents, Names, Addrs, BitAt, RegisterAt

LEMMA InitRefines == Init => M!MInit
<1> SUFFICES ASSUME Init PROVE M!MInit
  OBVIOUS
<1>1. PICK regs \in Preloads : holding_registers = WithHoldingRegisters(regs)
  BY DEF Init
<1>2. PICK size \in 1..AddrCount :
        /\ WithHoldingRegisters(regs) = [i \in 1..size |-> LastFor(regs, i - 1)]
        /\ \A i \in 1..Len(regs) : regs[i][1] < size
  BY PreloadSize
<1>3. AddrCount \in Nat \ {0} /\ ByteBits \in Nat \ {0} /\ DEFAULT_REG_COUNT \in 1..AddrCount
  BY StoreConstants
<1>4. \A a \in Addrs : RegisterAt(holding_registers, a) = LastFor(regs, a)
  <2> TAKE a \in Addrs
  <2>1. holding_registers = [i \in 1..size |-> LastFor(regs, i - 1)] /\ Len(holding_registers) = size
    BY <1>1, <1>2
  <2>2. CASE a < size
    <3>1. a + 1 \in 1..size /\ (a + 1) - 1 = a
      BY <1>2, <1>3, <2>2 DEF Addrs
    <3>2. holding_registers[a + 1] = LastFor(regs, a)
      BY <2>1, <3>1
    <3>3. QED
      BY <2>1, <2>2, <3>2 DEF RegisterAt
  <2>3. CASE ~(a < size)
    <3>1. {i \in 1..Len(regs) : regs[i][1] = a} = {}
      BY <1>2, <2>3
    <3>2. LastFor(regs, a) = {}
      BY <3>1 DEF LastFor
    <3>3. QED
      BY <2>1, <2>3, <3>2 DEF RegisterAt
  <2>4. QED
    BY <2>2, <2>3
<1>5. \A a \in Addrs : RegisterAt(input_registers, a) = {}
  BY <1>3 DEF Init, RegisterAt, Addrs
<1>6. \A a \in Addrs : BitAt(coils, a) = FALSE /\ BitAt(discrete_inputs, a) = FALSE
  <2> TAKE a \in Addrs
  <2>1. a \in Nat /\ ByteIdx(a) \in Nat
    <3>1. a \in Nat
      BY <1>3 DEF Addrs
    <3>2. QED
      BY <3>1, DivMod, Zenon
  <2> DEFINE q == ByteIdx(a)
             n == DEFAULT_REG_COUNT \div ByteBits
  <2>2. n \in Nat
    BY <1>3
  <2>3. coils = [i \in 1..n |-> {}] /\ discrete_inputs = [i \in 1..n |-> {}]
    BY DEF Init
  <2> HIDE DEF q, n
  <2>4. \A vec : vec = [i \in 1..n |-> {}] => ~(q < Len(vec) /\ BitIdx(a) \in vec[q + 1])
    <3> SUFFICES ASSUME NEW vec, vec = [i \in 1..n |-> {}], q < Len(vec) PROVE vec[q + 1] = {}
      OBVIOUS
    <3>1. Len(vec) = n
      BY <2>2
    <3>2. q + 1 \in 1..n
      BY <2>1, <2>2, <3>1 DEF q
    <3>3. QED
      BY <3>2
  <2>5. QED
    BY <2>3, <2>4 DEF BitAt, q
<1>7. \A a : LastFor(regs, a) = M!Preloaded(regs, a)
  BY DEF LastFor, M!Preloaded
<1>8. \A tab \in Names : Contents[tab] =
        [a \in Addrs |-> IF tab = "holding_registers" THEN M!Preloaded(regs, a) ELSE M!Zero(tab)]
  <2> DEFINE f(tab) == [a \in Addrs |-> IF tab = "holding_registers" THEN M!Preloaded(regs, a)
                                        ELSE M!Zero(tab)]
  <2>1. Contents["holding_registers"] = f("holding_registers")
    BY <1>4, <1>7, ContentsAre
  <2>2. Contents["input_registers"] = f("input_registers")
    BY <1>5, ContentsAre DEF M!Zero, M!BitTables
  <2>3. Contents["coils"] = f("coils")
    BY <1>6, ContentsAre DEF M!Zero, M!BitTables
  <2>4. Contents["discrete_inputs"] = f("discrete_inputs")
    BY <1>6, ContentsAre DEF M!Zero, M!BitTables
  <2> HIDE DEF f
  <2>5. \A tab \in Names : Contents[tab] = f(tab)
    BY <2>1, <2>2, <2>3, <2>4 DEF Names
  <2>6. QED
    BY <2>5 DEF f
<1>9. Contents = [tab \in Names |->
        [a \in Addrs |-> IF tab = "holding_registers" THEN M!Preloaded(regs, a) ELSE M!Zero(tab)]]
  <2>1. Contents = [tab \in Names |-> Contents[tab]]
    BY ContentsAre
  <2> DEFINE f(tab) == [a \in Addrs |-> IF tab = "holding_registers" THEN M!Preloaded(regs, a)
                                        ELSE M!Zero(tab)]
  <2>2. \A tab \in Names : Contents[tab] = f(tab)
    BY <1>8
  <2> HIDE DEF f
  <2>3. Contents = [tab \in Names |-> f(tab)]
    BY <2>1, <2>2
  <2>4. QED
    BY <2>3 DEF f
<1>10. QED
  BY <1>9 DEF M!MInit, Init, Names, Addrs, M!Tables, M!Addrs

\* A range read out of the vectors is the range of the memory.
LEMMA RegistersRead ==
  ASSUME NEW vec, RegisterVec(vec), NEW addr, NEW qty, InSpace(addr, qty),
         NEW f, f = [a \in Addrs |-> RegisterAt(vec, a)]
  PROVE  ReadRegisters(vec, addr, qty) = [i \in 1..qty |-> f[addr + i - 1]]
<1>1. addr \in Nat /\ qty \in Nat /\ addr + qty <= AddrCount /\ AddrCount \in Nat /\ Len(vec) \in Nat
  BY StoreConstants DEF InSpace, RegisterVec
<1>2. ASSUME NEW i \in 1..qty
      PROVE  (IF addr + i <= Len(vec) THEN vec[addr + i] ELSE {}) = f[addr + i - 1]
  <2>1. addr + i - 1 \in Addrs /\ (addr + i - 1) + 1 = addr + i
           /\ (addr + i - 1 < Len(vec) <=> addr + i <= Len(vec))
    BY <1>1 DEF Addrs
  <2>2. f[addr + i - 1] = RegisterAt(vec, addr + i - 1)
    BY <2>1
  <2>3. QED
    BY <2>1, <2>2 DEF RegisterAt
<1>3. QED
  BY <1>2 DEF ReadRegisters

LEMMA BitsRead ==
  ASSUME NEW vec, NEW addr, NEW qty, InSpace(addr, qty),
         NEW f, f = [a \in Addrs |-> BitAt(vec, a)]
  PROVE  ReadBits(vec, addr, qty) = [i \in 1..qty |-> f[addr + i - 1]]
<1>1. addr \in Nat /\ qty \in Nat /\ addr + qty <= AddrCount /\ AddrCount \in Nat
  BY StoreConstants DEF InSpace
<1>2. \A i \in 1..qty : addr + i - 1 \in Addrs
  BY <1>1 DEF Addrs
<1>3. ReadBits(vec, addr, qty) = [i \in 1..qty |-> BitAt(vec, addr + i - 1)]
  BY DEF ReadBits, BitAt
<1>4. \A i \in 1..qty : BitAt(vec, addr + i - 1) = f[addr + i - 1]
  BY <1>2
<1>5. QED
  BY <1>3, <1>4

LEMMA RangeRead ==
  ASSUME Vectors, NEW addr, NEW qty, InSpace(addr, qty)
  PROVE  /\ ReadBits(coils, addr, qty) = M!Range("coils", addr, qty)
         /\ ReadBits(discrete_inputs, addr, qty) = M!Range("discrete_inputs", addr, qty)
         /\ ReadRegisters(holding_registers, addr, qty) = M!Range("holding_registers", addr, qty)
         /\ ReadRegisters(input_registers, addr, qty) = M!Range("input_registers", addr, qty)
<1>1. ReadBits(coils, addr, qty) = M!Range("coils", addr, qty)
  <2> DEFINE f == Contents["coils"]
  <2>1. f = [a \in Addrs |-> BitAt(coils, a)]
    BY ContentsAre
  <2>3. M!Range("coils", addr, qty) = [i \in 1..qty |-> f[addr + i - 1]]
    BY DEF M!Range
  <2> HIDE DEF f
  <2>4. ReadBits(coils, addr, qty) = [i \in 1..qty |-> f[addr + i - 1]]
    BY <2>1, BitsRead
  <2>5. QED
    BY <2>3, <2>4
<1>2. ReadBits(discrete_inputs, addr, qty) = M!Range("discrete_inputs", addr, qty)
  <2> DEFINE f == Contents["discrete_inputs"]
  <2>1. f = [a \in Addrs |-> BitAt(discrete_inputs, a)]
    BY ContentsAre
  <2>3. M!Range("discrete_inputs", addr, qty) = [i \in 1..qty |-> f[addr + i - 1]]
    BY DEF M!Range
  <2> HIDE DEF f
  <2>4. ReadBits(discrete_inputs, addr, qty) = [i \in 1..qty |-> f[addr + i - 1]]
    BY <2>1, BitsRead
  <2>5. QED
    BY <2>3, <2>4
<1>3. ReadRegisters(holding_registers, addr, qty) = M!Range("holding_registers", addr, qty)
  <2> DEFINE f == Contents["holding_registers"]
  <2>1. f = [a \in Addrs |-> RegisterAt(holding_registers, a)]
    BY ContentsAre
  <2>2. RegisterVec(holding_registers)
    BY DEF Vectors
  <2>3. M!Range("holding_registers", addr, qty) = [i \in 1..qty |-> f[addr + i - 1]]
    BY DEF M!Range
  <2> HIDE DEF f
  <2>4. ReadRegisters(holding_registers, addr, qty) = [i \in 1..qty |-> f[addr + i - 1]]
    BY <2>1, <2>2, RegistersRead
  <2>5. QED
    BY <2>3, <2>4
<1>4. ReadRegisters(input_registers, addr, qty) = M!Range("input_registers", addr, qty)
  <2> DEFINE f == Contents["input_registers"]
  <2>1. f = [a \in Addrs |-> RegisterAt(input_registers, a)]
    BY ContentsAre
  <2>2. RegisterVec(input_registers)
    BY DEF Vectors
  <2>3. M!Range("input_registers", addr, qty) = [i \in 1..qty |-> f[addr + i - 1]]
    BY DEF M!Range
  <2> HIDE DEF f
  <2>4. ReadRegisters(input_registers, addr, qty) = [i \in 1..qty |-> f[addr + i - 1]]
    BY <2>1, <2>2, RegistersRead
  <2>5. QED
    BY <2>3, <2>4
<1>5. QED
  BY <1>1, <1>2, <1>3, <1>4

LEMMA ReadRefines ==
  ASSUME Inv, NEW t \in Tasks, NEW r \in Requests, ReadTable(t, r)
  PROVE  M!MRead(t, r)
<1>1. r.op = "read" /\ Free(t) /\ r.tab \in Names /\ InSpace(r.addr, r.qty)
  BY RequestTyped DEF ReadTable, Names, BitNames, RegisterNames
<1>2. UNCHANGED <<coils, discrete_inputs, holding_registers, input_registers, exchanging>>
  BY DEF ReadTable, tables
<1>3. Contents' = Contents
  BY <1>2 DEF Contents, BitAt, RegisterAt
<1>4. Vectors
  BY DEF Inv
<1>5. CASE r.tab = "coils"
  <2>1. reply' = <<t, "bits", ReadBits(coils, r.addr, r.qty)>>
    BY <1>5 DEF ReadTable
  <2>2. ReadBits(coils, r.addr, r.qty) = M!Range(r.tab, r.addr, r.qty)
    BY <1>1, <1>4, <1>5, RangeRead
  <2>3. QED
    BY <1>1, <1>2, <1>3, <1>5, <2>1, <2>2 DEF M!MRead, M!BitTables, Free
<1>6. CASE r.tab = "discrete_inputs"
  <2>1. reply' = <<t, "bits", ReadBits(discrete_inputs, r.addr, r.qty)>>
    BY <1>6 DEF ReadTable
  <2>2. ReadBits(discrete_inputs, r.addr, r.qty) = M!Range(r.tab, r.addr, r.qty)
    BY <1>1, <1>4, <1>6, RangeRead
  <2>3. QED
    BY <1>1, <1>2, <1>3, <1>6, <2>1, <2>2 DEF M!MRead, M!BitTables, Free
<1>7. CASE r.tab = "holding_registers"
  <2>1. reply' = <<t, "registers", ReadRegisters(holding_registers, r.addr, r.qty)>>
    BY <1>7 DEF ReadTable
  <2>2. ReadRegisters(holding_registers, r.addr, r.qty) = M!Range(r.tab, r.addr, r.qty)
    BY <1>1, <1>4, <1>7, RangeRead
  <2>3. QED
    BY <1>1, <1>2, <1>3, <1>7, <2>1, <2>2 DEF M!MRead, M!BitTables, Free
<1>8. CASE r.tab = "input_registers"
  <2>1. reply' = <<t, "registers", ReadRegisters(input_registers, r.addr, r.qty)>>
    BY <1>8 DEF ReadTable
  <2>2. ReadRegisters(input_registers, r.addr, r.qty) = M!Range(r.tab, r.addr, r.qty)
    BY <1>1, <1>4, <1>8, RangeRead
  <2>3. QED
    BY <1>1, <1>2, <1>3, <1>8, <2>1, <2>2 DEF M!MRead, M!BitTables, Free
<1>9. QED
  BY <1>1, <1>5, <1>6, <1>7, <1>8 DEF Names

\* A step that changes one table.
LEMMA OneTable ==
  ASSUME NEW name \in Names, NEW f, Contents'[name] = f,
         \A n \in Names : n # name => Contents'[n] = Contents[n]
  PROVE  Contents' = [Contents EXCEPT ![name] = f]
<1>1. Contents = [tab \in Names |-> Contents[tab]] /\ Contents' = [tab \in Names |-> Contents'[tab]]
  BY ContentsAre, ContentsAreNext
<1> DEFINE c == Contents
           d == Contents'
<1>2. /\ c = [tab \in Names |-> c[tab]] /\ d = [tab \in Names |-> d[tab]]
      /\ d[name] = f /\ \A n \in Names : n # name => d[n] = c[n]
  BY <1>1
<1> HIDE DEF c, d
<1>3. d = [c EXCEPT ![name] = f]
  BY <1>2
<1>4. QED
  BY <1>3 DEF c, d

LEMMA RegistersWritten ==
  ASSUME NEW vec, RegisterVec(vec), NEW addr \in Nat, NEW values \in Seq(Register),
         InSpace(addr, Len(values)),
         NEW f, f = [a \in Addrs |-> RegisterAt(vec, a)]
  PROVE  [a \in Addrs |-> RegisterAt(WriteRegisters(vec, addr, values), a)] = M!Overlay(f, addr, values)
<1>1. \A a \in Addrs : RegisterAt(WriteRegisters(vec, addr, values), a) =
                IF a - addr + 1 \in 1..Len(values) THEN values[a - addr + 1] ELSE f[a]
  BY WriteRegistersIs
<1>2. M!Overlay(f, addr, values) =
        [a \in Addrs |-> IF a - addr + 1 \in 1..Len(values) THEN values[a - addr + 1] ELSE f[a]]
  BY DEF M!Overlay, M!Addrs, Addrs
<1>3. QED
  BY <1>1, <1>2

LEMMA BitsWritten ==
  ASSUME NEW vec, ByteVec(vec), NEW addr \in Nat, NEW values \in Seq(BOOLEAN),
         InSpace(addr, Len(values)),
         NEW f, f = [a \in Addrs |-> BitAt(vec, a)]
  PROVE  [a \in Addrs |-> BitAt(WriteBits(vec, addr, values), a)] = M!Overlay(f, addr, values)
<1>1. \A a \in Addrs : BitAt(WriteBits(vec, addr, values), a) =
                IF a - addr + 1 \in 1..Len(values) THEN values[a - addr + 1] ELSE f[a]
  BY WriteBitsIs
<1>2. M!Overlay(f, addr, values) =
        [a \in Addrs |-> IF a - addr + 1 \in 1..Len(values) THEN values[a - addr + 1] ELSE f[a]]
  BY DEF M!Overlay, M!Addrs, Addrs
<1>3. QED
  BY <1>1, <1>2

LEMMA WriteCoilsRefines ==
  ASSUME Inv, NEW t \in Tasks, NEW r \in Requests, WriteCoils(t, r)
  PROVE  M!MWrite(t, r)
<1>1. /\ r.op = "write" /\ r.tab = "coils" /\ Free(t) /\ reply' = <<t, "written", <<>>>>
      /\ coils' = WriteBits(coils, r.addr, r.values) /\ exchanging' = exchanging
      /\ UNCHANGED <<discrete_inputs, holding_registers, input_registers>>
  BY DEF WriteCoils
<1>2. r.values \in Seq(BOOLEAN) /\ InSpace(r.addr, Len(r.values)) /\ r.addr \in Nat /\ ByteVec(coils)
  BY <1>1, RequestTyped DEF BitNames, Inv, Vectors
<1> DEFINE f == Contents["coils"]
<1>3. f = [a \in Addrs |-> BitAt(coils, a)]
  BY ContentsAre
<1> HIDE DEF f
<1>4. [a \in Addrs |-> BitAt(WriteBits(coils, r.addr, r.values), a)] = M!Overlay(f, r.addr, r.values)
  BY <1>2, <1>3, BitsWritten
<1>5. Contents'["coils"] = M!Overlay(f, r.addr, r.values)
  BY <1>1, <1>4, ContentsAreNext
<1>6. \A n \in Names : n # "coils" => Contents'[n] = Contents[n]
  BY <1>1, ContentsAre, ContentsAreNext DEF Names
<1>7. Contents' = [Contents EXCEPT !["coils"] = M!Overlay(f, r.addr, r.values)]
  BY <1>5, <1>6, OneTable DEF Names
<1>8. QED
  BY <1>1, <1>7 DEF M!MWrite, Free, f

LEMMA WriteHoldingRefines ==
  ASSUME Inv, NEW t \in Tasks, NEW r \in Requests, WriteHolding(t, r)
  PROVE  M!MWrite(t, r)
<1>1. /\ r.op = "write" /\ r.tab = "holding_registers" /\ Free(t) /\ reply' = <<t, "written", <<>>>>
      /\ holding_registers' = WriteRegisters(holding_registers, r.addr, r.values) /\ exchanging' = exchanging
      /\ UNCHANGED <<coils, discrete_inputs, input_registers>>
  BY DEF WriteHolding
<1>2. r.values \in Seq(Register) /\ InSpace(r.addr, Len(r.values)) /\ r.addr \in Nat /\ RegisterVec(holding_registers)
  BY <1>1, RequestTyped DEF RegisterNames, Inv, Vectors
<1> DEFINE f == Contents["holding_registers"]
<1>3. f = [a \in Addrs |-> RegisterAt(holding_registers, a)]
  BY ContentsAre
<1> HIDE DEF f
<1>4. [a \in Addrs |-> RegisterAt(WriteRegisters(holding_registers, r.addr, r.values), a)] = M!Overlay(f, r.addr, r.values)
  BY <1>2, <1>3, RegistersWritten
<1>5. Contents'["holding_registers"] = M!Overlay(f, r.addr, r.values)
  BY <1>1, <1>4, ContentsAreNext
<1>6. \A n \in Names : n # "holding_registers" => Contents'[n] = Contents[n]
  BY <1>1, ContentsAre, ContentsAreNext DEF Names
<1>7. Contents' = [Contents EXCEPT !["holding_registers"] = M!Overlay(f, r.addr, r.values)]
  BY <1>5, <1>6, OneTable DEF Names
<1>8. QED
  BY <1>1, <1>7 DEF M!MWrite, Free, f

LEMMA WriteDiscreteInputRefines ==
  ASSUME Inv, NEW t \in Tasks, NEW r \in Requests, WriteDiscreteInput(t, r)
  PROVE  M!MWrite(t, r)
<1>1. /\ r.op = "write" /\ r.tab = "discrete_inputs" /\ Free(t) /\ reply' = <<t, "written", <<>>>>
      /\ discrete_inputs' = WriteBits(discrete_inputs, r.addr, r.values) /\ exchanging' = exchanging
      /\ UNCHANGED <<coils, holding_registers, input_registers>>
  BY DEF WriteDiscreteInput
<1>2. r.values \in Seq(BOOLEAN) /\ InSpace(r.addr, Len(r.values)) /\ r.addr \in Nat /\ ByteVec(discrete_inputs)
  BY <1>1, RequestTyped DEF BitNames, Inv, Vectors
<1> DEFINE f == Contents["discrete_inputs"]
<1>3. f = [a \in Addrs |-> BitAt(discrete_inputs, a)]
  BY ContentsAre
<1> HIDE DEF f
<1>4. [a \in Addrs |-> BitAt(WriteBits(discrete_inputs, r.addr, r.values), a)] = M!Overlay(f, r.addr, r.values)
  BY <1>2, <1>3, BitsWritten
<1>5. Contents'["discrete_inputs"] = M!Overlay(f, r.addr, r.values)
  BY <1>1, <1>4, ContentsAreNext
<1>6. \A n \in Names : n # "discrete_inputs" => Contents'[n] = Contents[n]
  BY <1>1, ContentsAre, ContentsAreNext DEF Names
<1>7. Contents' = [Contents EXCEPT !["discrete_inputs"] = M!Overlay(f, r.addr, r.values)]
  BY <1>5, <1>6, OneTable DEF Names
<1>8. QED
  BY <1>1, <1>7 DEF M!MWrite, Free, f

LEMMA WriteInputRegisterRefines ==
  ASSUME Inv, NEW t \in Tasks, NEW r \in Requests, WriteInputRegister(t, r)
  PROVE  M!MWrite(t, r)
<1>1. /\ r.op = "write" /\ r.tab = "input_registers" /\ Free(t) /\ reply' = <<t, "written", <<>>>>
      /\ input_registers' = WriteRegisters(input_registers, r.addr, r.values) /\ exchanging' = exchanging
      /\ UNCHANGED <<coils, discrete_inputs, holding_registers>>
  BY DEF WriteInputRegister
<1>2. r.values \in Seq(Register) /\ InSpace(r.addr, Len(r.values)) /\ r.addr \in Nat /\ RegisterVec(input_registers)
  BY <1>1, RequestTyped DEF RegisterNames, Inv, Vectors
<1> DEFINE f == Contents["input_registers"]
<1>3. f = [a \in Addrs |-> RegisterAt(input_registers, a)]
  BY ContentsAre
<1> HIDE DEF f
<1>4. [a \in Addrs |-> RegisterAt(WriteRegisters(input_registers, r.addr, r.values), a)] = M!Overlay(f, r.addr, r.values)
  BY <1>2, <1>3, RegistersWritten
<1>5. Contents'["input_registers"] = M!Overlay(f, r.addr, r.values)
  BY <1>1, <1>4, ContentsAreNext
<1>6. \A n \in Names : n # "input_registers" => Contents'[n] = Contents[n]
  BY <1>1, ContentsAre, ContentsAreNext DEF Names
<1>7. Contents' = [Contents EXCEPT !["input_registers"] = M!Overlay(f, r.addr, r.values)]
  BY <1>5, <1>6, OneTable DEF Names
<1>8. QED
  BY <1>1, <1>7 DEF M!MWrite, Free, f

LEMMA MaskRefines ==
  ASSUME Inv, NEW t \in Tasks, NEW r \in Requests, MaskWrite(t, r)
  PROVE  M!MMask(t, r)
<1>1. /\ r.op = "mask" /\ Free(t) /\ reply' = <<t, "written", <<>>>> /\ exchanging' = exchanging
      /\ UNCHANGED <<coils, discrete_inputs, input_registers>>
      /\ holding_registers' = MaskedVec(holding_registers, r.addr, r.and_mask, r.or_mask)
  BY DEF MaskWrite, MaskedVec
<1>2. /\ InSpace(r.addr, 1) /\ r.addr \in Nat /\ r.and_mask \in Register /\ r.or_mask \in Register
      /\ RegisterVec(holding_registers)
  BY <1>1, RequestTyped DEF Inv, Vectors
<1> DEFINE f == Contents["holding_registers"]
           New(old) == Masked(old, r.and_mask, r.or_mask)
<1>3. f = [a \in Addrs |-> RegisterAt(holding_registers, a)] /\ r.addr \in Addrs
  BY <1>2, ContentsAre, StoreConstants DEF InSpace, Addrs
<1>4. \A a \in Addrs : RegisterAt(holding_registers', a) =
                IF a = r.addr THEN New(RegisterAt(holding_registers, a)) ELSE RegisterAt(holding_registers, a)
  BY <1>1, <1>2, MaskIs
<1> HIDE DEF f, New
<1>5. Contents'["holding_registers"] = [f EXCEPT ![r.addr] = New(f[r.addr])]
  BY <1>3, <1>4, ContentsAreNext
<1>6. \A n \in Names : n # "holding_registers" => Contents'[n] = Contents[n]
  BY <1>1, ContentsAre, ContentsAreNext DEF Names
<1>7. Contents' = [Contents EXCEPT !["holding_registers"] = [f EXCEPT ![r.addr] = New(f[r.addr])]]
  BY <1>5, <1>6, OneTable DEF Names
<1>8. QED
  BY <1>1, <1>7 DEF M!MMask, Free, f, New, Masked

LEMMA ExchangeReadRefines ==
  ASSUME Inv, NEW t \in Tasks, NEW r \in Requests, ExchangeRead(t, r)
  PROVE  M!MExchangeRead(t, r)
<1>1. /\ r.op = "exchange" /\ Free(t) /\ reply' = reply
      /\ UNCHANGED <<coils, discrete_inputs, holding_registers, input_registers>>
      /\ exchanging' = [exchanging EXCEPT ![t] = <<r, ReadRegisters(holding_registers, r.addr, r.qty)>>]
  BY DEF ExchangeRead, tables
<1>2. InSpace(r.addr, r.qty) /\ Vectors
  BY <1>1, RequestTyped DEF Inv
<1>3. ReadRegisters(holding_registers, r.addr, r.qty) = M!Range("holding_registers", r.addr, r.qty)
  BY <1>2, RangeRead
<1>4. Contents' = Contents
  BY <1>1 DEF Contents, BitAt, RegisterAt
<1>5. QED
  BY <1>1, <1>3, <1>4 DEF M!MExchangeRead, Free

LEMMA ExchangeWriteRefines ==
  ASSUME Inv, NEW t \in Tasks, ExchangeWrite(t)
  PROVE  M!MExchangeWrite(t)
<1> DEFINE r == exchanging[t][1]
<1>1. /\ ~Free(t) /\ reply' = <<t, "registers", exchanging[t][2]>>
      /\ exchanging' = [exchanging EXCEPT ![t] = <<>>]
      /\ holding_registers' = WriteRegisters(holding_registers, r.write_addr, r.values)
      /\ UNCHANGED <<coils, discrete_inputs, input_registers>>
  BY DEF ExchangeWrite
<1>2. r \in Requests /\ r.op = "exchange"
  BY <1>1, WaitingIs
<1> HIDE DEF r
<1>3. /\ r.values \in Seq(Register) /\ InSpace(r.write_addr, Len(r.values)) /\ r.write_addr \in Nat
      /\ RegisterVec(holding_registers)
  BY <1>2, RequestTyped DEF Inv, Vectors
<1> DEFINE f == Contents["holding_registers"]
<1>4. f = [a \in Addrs |-> RegisterAt(holding_registers, a)]
  BY ContentsAre
<1> HIDE DEF f
<1>5. [a \in Addrs |-> RegisterAt(WriteRegisters(holding_registers, r.write_addr, r.values), a)]
        = M!Overlay(f, r.write_addr, r.values)
  BY <1>3, <1>4, RegistersWritten
<1>6. Contents'["holding_registers"] = M!Overlay(f, r.write_addr, r.values)
  BY <1>1, <1>5, ContentsAreNext
<1>7. \A n \in Names : n # "holding_registers" => Contents'[n] = Contents[n]
  BY <1>1, ContentsAre, ContentsAreNext DEF Names
<1>8. Contents' = [Contents EXCEPT !["holding_registers"] = M!Overlay(f, r.write_addr, r.values)]
  BY <1>6, <1>7, OneTable DEF Names
<1>9. QED
  BY <1>1, <1>8 DEF M!MExchangeWrite, Free, f, r

LEMMA DiagnosticRefines ==
  ASSUME NEW t \in Tasks, NEW r \in Requests, Diagnostic(t, r)
  PROVE  M!MDiagnostic(t, r)
<1>1. UNCHANGED <<coils, discrete_inputs, holding_registers, input_registers, exchanging>>
  BY DEF Diagnostic, tables
<1>2. Contents' = Contents
  BY <1>1 DEF Contents, BitAt, RegisterAt
<1>3. reply' \in {<<t, "echo", <<r.data>>>>, <<t, "echo", <<0>>>>, <<t, "IllegalDataValue", <<>>>>}
  BY DEF Diagnostic
<1>4. QED
  BY <1>1, <1>2, <1>3 DEF M!MDiagnostic, Diagnostic, Free

LEMMA NextRefines ==
  ASSUME Inv, [Next]_vars
  PROVE  [M!MNext]_(M!mvars)
<1>1. CASE UNCHANGED vars
  BY <1>1 DEF vars, tables, M!mvars, Contents, BitAt, RegisterAt
<1>2. ASSUME NEW t \in Tasks, NEW r \in Requests,
             \/ ReadTable(t, r) \/ WriteCoils(t, r) \/ WriteHolding(t, r)
             \/ WriteDiscreteInput(t, r) \/ WriteInputRegister(t, r)
             \/ MaskWrite(t, r) \/ ExchangeRead(t, r) \/ Diagnostic(t, r)
      PROVE  M!MNext
  BY <1>2, ReadRefines, WriteCoilsRefines, WriteHoldingRefines, WriteDiscreteInputRefines,
     WriteInputRegisterRefines, MaskRefines, ExchangeReadRefines, DiagnosticRefines DEF M!MNext
<1>3. ASSUME NEW t \in Tasks, ExchangeWrite(t) PROVE M!MNext
  BY <1>3, ExchangeWriteRefines DEF M!MNext
<1>4. QED
  BY <1>1, <1>2, <1>3 DEF Next

\* The store is the memory of Memory.tla, whatever the size of the address
\* space and however many tasks share it: growing and packing are invisible,
\* ranges are read and written atomically, no masked write is lost, and an
\* exchange returns what it read before it wrote.
THEOREM StoreIsMemory == Spec => ImplementsMemory
<1>1. Init => M!MInit
  BY InitRefines
<1>2. Inv /\ [Next]_vars => [M!MNext]_(M!mvars)
  BY NextRefines
<1>3. QED
  BY <1>1, <1>2, Invariance, PTL DEF Spec, ImplementsMemory, M!MSpec
====
