---- MODULE TcpServerProofs ----
(***************************************************************************)
(* What a connection of TcpServer keeps and executes, proved for every set  *)
(* of requests and framings, every cut of the stream, every buffer size and *)
(* any number of requests.                                                  *)
(***************************************************************************)
EXTENDS TcpServer, FrameProofs

Framing == [tid : {"Auto", "Fixed"}, unit_id_in_body : BOOLEAN, length_mode : LengthModes]

----------------------------------------------------------------------------
(* Reading *)

\* Bytes that a read moves to the buffer stay in their place.
LEMMA ReadMoves ==
  ASSUME NEW s \in Seq(Byte), NEW w \in Seq(Byte), NEW n \in 1..Len(w)
  PROVE  (s \o SubSeq(w, 1, n)) \o SubSeq(w, n + 1, Len(w)) = s \o w
<1> DEFINE p == SubSeq(w, 1, n)
           q == SubSeq(w, n + 1, Len(w))
           x == (s \o p) \o q
<1>1. n \in 0..Len(w) /\ Len(w) \in Nat /\ Len(s) \in Nat
  OBVIOUS
<1>2. /\ p \in Seq(Byte) /\ q \in Seq(Byte) /\ Len(p) = n /\ Len(q) = Len(w) - n
      /\ (\A i \in 1..n : p[i] = w[i]) /\ \A i \in 1..(Len(w) - n) : q[i] = w[n + i]
  BY <1>1, Cut
<1> HIDE DEF p, q
<1>3. /\ s \o p \in Seq(Byte) /\ Len(s \o p) = Len(s) + n
      /\ (\A i \in 1..Len(s) : (s \o p)[i] = s[i]) /\ \A i \in 1..n : (s \o p)[Len(s) + i] = p[i]
  BY <1>2, Concatenation
<1>4. /\ x \in Seq(Byte) /\ Len(x) = Len(s) + n + (Len(w) - n)
      /\ \A i \in 1..(Len(s) + n) : x[i] = (s \o p)[i]
      /\ \A i \in 1..(Len(w) - n) : x[Len(s) + n + i] = q[i]
  <2> DEFINE t == s \o p
  <2>1. t \in Seq(Byte) /\ Len(t) = Len(s) + n
    BY <1>3
  <2> HIDE DEF t
  <2>2. /\ t \o q \in Seq(Byte) /\ Len(t \o q) = Len(t) + Len(q)
        /\ \A i \in 1..Len(t) : (t \o q)[i] = t[i]
        /\ \A i \in 1..Len(q) : (t \o q)[Len(t) + i] = q[i]
    BY <1>2, <2>1, Concatenation
  <2>3. x = t \o q
    BY DEF t
  <2>4. QED
    BY <1>2, <2>1, <2>2, <2>3, Zenon DEF t
<1>5. /\ s \o w \in Seq(Byte) /\ Len(s \o w) = Len(s) + Len(w)
      /\ (\A i \in 1..Len(s) : (s \o w)[i] = s[i]) /\ \A i \in 1..Len(w) : (s \o w)[Len(s) + i] = w[i]
  BY Concatenation
<1> HIDE DEF x
<1>6. Len(x) = Len(s \o w)
  BY <1>1, <1>4, <1>5
<1>7. ASSUME NEW i \in 1..Len(x) PROVE x[i] = (s \o w)[i]
  <2>1. CASE i <= Len(s)
    <3>1. i \in 1..Len(s) /\ i \in 1..(Len(s) + n)
      BY <1>1, <1>7, <2>1
    <3>2. QED
      BY <1>3, <1>4, <1>5, <3>1, Zenon
  <2>2. CASE i > Len(s) /\ i <= Len(s) + n
    <3>1. PICK j \in 1..n : i = Len(s) + j
      <4>1. i - Len(s) \in 1..n /\ i = Len(s) + (i - Len(s))
        BY <1>1, <1>7, <2>2
      <4>2. QED
        BY <4>1
    <3>2. i \in 1..(Len(s) + n) /\ j \in 1..Len(w)
      BY <1>1, <1>7, <2>2, <3>1
    <3>3. x[i] = p[j] /\ p[j] = w[j]
      BY <1>2, <1>3, <1>4, <3>1, <3>2, Zenon
    <3>4. (s \o w)[i] = w[j]
      BY <1>5, <3>1, <3>2, Zenon
    <3>5. QED
      BY <3>3, <3>4
  <2>3. CASE i > Len(s) + n
    <3>1. PICK j \in 1..(Len(w) - n) : i = Len(s) + n + j /\ i = Len(s) + (n + j) /\ n + j \in 1..Len(w)
      <4>1. /\ i - Len(s) - n \in 1..(Len(w) - n) /\ i = Len(s) + n + (i - Len(s) - n)
            /\ i = Len(s) + (n + (i - Len(s) - n)) /\ n + (i - Len(s) - n) \in 1..Len(w)
        BY <1>1, <1>4, <1>7, <2>3
      <4>2. QED
        BY <4>1
    <3>2. x[i] = q[j] /\ q[j] = w[n + j]
      BY <1>2, <1>4, <3>1, Zenon
    <3>3. (s \o w)[i] = w[n + j]
      BY <1>5, <3>1, Zenon
    <3>4. QED
      BY <3>2, <3>3
  <2>4. i \in Int /\ Len(s) \in Int /\ n \in Int
    BY <1>1, <1>7
  <2> HIDE DEF x
  <2>5. i <= Len(s) \/ (i > Len(s) /\ i <= Len(s) + n) \/ i > Len(s) + n
    BY <2>4
  <2>6. QED
    BY <2>1, <2>2, <2>3, <2>5
<1>8. x = s \o w
  <2> DEFINE y == s \o w
  <2>1. /\ x \in Seq(Byte) /\ y \in Seq(Byte) /\ Len(x) = Len(y)
        /\ \A i \in 1..Len(x) : x[i] = y[i]
    BY <1>4, <1>5, <1>6, <1>7
  <2> HIDE DEF y
  <2>2. x = y
    BY <2>1, SameSequence
  <2>3. QED
    BY <2>2 DEF y
<1>9. QED
  BY <1>8 DEF x, p, q

----------------------------------------------------------------------------
(* Frames *)

LEMMA SizesAre ==
  /\ MAX_TCP_ADU_SIZE \in Nat /\ MAX_TCP_BUF_BYTES \in Nat
  /\ 7 + MAX_TCP_ADU_SIZE <= MAX_TCP_BUF_BYTES
<1>1. MAX_TCP_ADU_SIZE \in Nat
  BY FrameConstants, Z3
<1>2. MAX_TCP_BUF_BYTES \in Nat /\ 7 + MAX_TCP_ADU_SIZE <= MAX_TCP_BUF_BYTES
  BY FrameConstants DEF MBAP_HEADER_SIZE
<1>3. QED
  BY <1>1, <1>2

LEMMA LengthFits ==
  ASSUME NEW n \in Nat, n + 1 <= MAX_TCP_ADU_SIZE
  PROVE  n \in Word /\ n + 1 \in Word
<1>1. MAX_TCP_ADU_SIZE \in Nat /\ MAX_TCP_ADU_SIZE <= U16_MAX
  BY FrameConstants, Z3 DEF U16_MAX
<1>2. QED
  BY <1>1, WordIs DEF Word

LEMMA TidWraps ==
  ASSUME NEW v \in Word
  PROVE  (v + 1) % 65536 \in Word
<1>1. v \in Nat
  BY WordIs DEF Word
<1>2. (v + 1) % 65536 \in Int /\ (v + 1) % 65536 >= 0 /\ (v + 1) % 65536 <= U16_MAX
  BY <1>1, Z3 DEF U16_MAX
<1>3. QED
  BY <1>2, WordIs, Z3 DEF Word

LEMMA RequestIs ==
  ASSUME NEW r \in Requests
  PROVE  /\ r.unit \in Byte /\ r.pdu \in Seq(Byte) /\ Len(r.pdu) \in Nat /\ Len(r.pdu) > 0
         /\ Len(r.pdu) + 2 <= MAX_TCP_ADU_SIZE
         /\ IsRequest(r.pdu) => RequestLen(r.pdu) = Len(r.pdu)
<1>1. /\ r.unit \in Byte /\ r.pdu \in Seq(Byte) \ {<<>>}
      /\ Len(r.pdu) + 2 <= MAX_TCP_ADU_SIZE
      /\ IsRequest(r.pdu) => RequestLen(r.pdu) = Len(r.pdu)
  <2>1. \A x \in Requests :
         /\ x.unit \in 0..255 /\ x.pdu \in Seq(0..255) \ {<<>>}
         /\ Len(x.pdu) + 2 <= MAX_TCP_ADU_SIZE
         /\ IsRequest(x.pdu) => RequestLen(x.pdu) = Len(x.pdu)
    BY ServerConstants
  <2>2. QED
    BY <2>1, Zenon DEF Byte
<1> DEFINE p == r.pdu
<1>2. p \in Seq(Byte) /\ p # <<>>
  BY <1>1
<1> HIDE DEF p
<1>3. Len(p) \in Nat /\ Len(p) > 0
  BY <1>2
<1>4. QED
  BY <1>1, <1>3 DEF p

LEMMA FramingIs ==
  ASSUME NEW c \in Configs
  PROVE  c \in Framing /\ c.unit_id_in_body \in BOOLEAN
BY ServerConstants DEF Framing

\* The body of a frame.
Body(unit, pdu, c) == IF c.unit_id_in_body THEN <<unit>> \o pdu ELSE pdu

LEMMA BodyIs ==
  ASSUME NEW unit \in Byte, NEW pdu \in Seq(Byte), Len(pdu) > 0, NEW c
  PROVE  /\ Body(unit, pdu, c) \in Seq(Byte) /\ Len(Body(unit, pdu, c)) \in Nat
         /\ Len(Body(unit, pdu, c)) > 0 /\ Len(Body(unit, pdu, c)) <= Len(pdu) + 1
<1>1. <<unit>> \o pdu \in Seq(Byte) /\ Len(<<unit>> \o pdu) = Len(pdu) + 1
  OBVIOUS
<1>2. Len(pdu) > 0 /\ Len(pdu) \in Nat
  OBVIOUS
<1>3. CASE c.unit_id_in_body
  <2>1. Body(unit, pdu, c) = <<unit>> \o pdu
    BY <1>3 DEF Body
  <2>2. QED
    BY <1>1, <1>2, <2>1
<1>4. CASE ~c.unit_id_in_body
  <2>1. Body(unit, pdu, c) = pdu
    BY <1>4 DEF Body
  <2>2. QED
    BY <1>2, <2>1
<1>5. QED
  BY <1>3, <1>4

Header(unit, tid, len) == <<Hi(tid), Lo(tid), 0, 0, Hi(len), Lo(len), unit>>

LEMMA HeaderIs ==
  ASSUME NEW unit \in Byte, NEW tid \in Word, NEW len \in Word
  PROVE  /\ Header(unit, tid, len) \in Seq(Byte) /\ Len(Header(unit, tid, len)) = 7
         /\ Header(unit, tid, len)[1] = Hi(tid) /\ Header(unit, tid, len)[2] = Lo(tid)
         /\ Header(unit, tid, len)[3] = 0 /\ Header(unit, tid, len)[4] = 0
         /\ Header(unit, tid, len)[5] = Hi(len) /\ Header(unit, tid, len)[6] = Lo(len)
         /\ Header(unit, tid, len)[7] = unit
<1>1. Hi(tid) \in Byte /\ Lo(tid) \in Byte /\ Hi(len) \in Byte /\ Lo(len) \in Byte
  BY HalvesOfWord
<1>2. ASSUME NEW a \in Byte, NEW b \in Byte, NEW d \in Byte, NEW e \in Byte
      PROVE  /\ <<a, b, 0, 0, d, e, unit>> \in Seq(Byte) /\ Len(<<a, b, 0, 0, d, e, unit>>) = 7
             /\ <<a, b, 0, 0, d, e, unit>>[1] = a /\ <<a, b, 0, 0, d, e, unit>>[2] = b
             /\ <<a, b, 0, 0, d, e, unit>>[3] = 0 /\ <<a, b, 0, 0, d, e, unit>>[4] = 0
             /\ <<a, b, 0, 0, d, e, unit>>[5] = d /\ <<a, b, 0, 0, d, e, unit>>[6] = e
             /\ <<a, b, 0, 0, d, e, unit>>[7] = unit
  <2>1. 0 \in Byte
    BY DEF Byte
  <2>2. QED
    BY <2>1
<1>3. QED
  BY <1>1, <1>2, Zenon DEF Header

LenOf(b, c) == Len(b) + (IF c.length_mode = "Standard" THEN 1 ELSE 0)

LEMMA FrameParts ==
  ASSUME NEW unit, NEW pdu, NEW c, NEW tid
  PROVE  EncodeTcpFrame(unit, pdu, c, tid)
           = Header(unit, tid, LenOf(Body(unit, pdu, c), c)) \o Body(unit, pdu, c)
BY Zenon DEF EncodeTcpFrame, Header, Body, LenOf

\* The frame of a request: its bytes and its header, whatever the framing.
LEMMA FrameIs ==
  ASSUME NEW r \in Requests, NEW c \in Configs, NEW tid \in Word, NEW b,
         b = Body(r.unit, r.pdu, c), NEW F, F = EncodeTcpFrame(r.unit, r.pdu, c, tid)
  PROVE  /\ b \in Seq(Byte) /\ Len(b) \in Nat /\ Len(b) > 0 /\ Len(b) + 1 <= MAX_TCP_ADU_SIZE
         /\ F \in Seq(Byte) /\ Len(F) = 7 + Len(b)
         /\ U16(F[1], F[2]) = tid /\ ProtoId(F) = 0 /\ PayloadLen(F) = LenOf(b, c) /\ F[7] = r.unit
         /\ \A i \in 1..Len(b) : F[7 + i] = b[i]
<1> DEFINE len == LenOf(b, c)
           h == Header(r.unit, tid, len)
<1>1. b \in Seq(Byte) /\ Len(b) \in Nat /\ Len(b) > 0 /\ Len(b) + 1 <= MAX_TCP_ADU_SIZE
  BY RequestIs, BodyIs, FrameConstants
<1>2. len \in Word
  <2>1. Len(b) \in Word /\ Len(b) + 1 \in Word
    BY <1>1, LengthFits
  <2>2. len = Len(b) + 1 \/ len = Len(b)
    BY <1>1 DEF LenOf
  <2>3. QED
    BY <2>1, <2>2
<1>3. F = h \o b
  BY FrameParts
<1> HIDE DEF len
<1>4. /\ h \in Seq(Byte) /\ Len(h) = 7
      /\ h[1] = Hi(tid) /\ h[2] = Lo(tid) /\ h[3] = 0 /\ h[4] = 0
      /\ h[5] = Hi(len) /\ h[6] = Lo(len) /\ h[7] = r.unit
  <2>1. r.unit \in Byte
    BY RequestIs
  <2>2. QED
    BY <1>2, <2>1, HeaderIs DEF h
<1> HIDE DEF h
<1>5. F \in Seq(Byte) /\ Len(F) = 7 + Len(b) /\ (\A i \in 1..7 : F[i] = h[i])
         /\ \A i \in 1..Len(b) : F[7 + i] = b[i]
  <2>1. h \in Seq(Byte) /\ b \in Seq(Byte) /\ Len(h) = 7
    BY <1>1, <1>4
  <2>2. /\ h \o b \in Seq(Byte) /\ Len(h \o b) = Len(h) + Len(b)
        /\ \A i \in 1..Len(h) : (h \o b)[i] = h[i]
        /\ \A i \in 1..Len(b) : (h \o b)[Len(h) + i] = b[i]
    BY <2>1, Concatenation, Zenon
  <2>3. QED
    BY <1>3, <2>1, <2>2, Zenon
<1>6. U16(Hi(tid), Lo(tid)) = tid /\ U16(Hi(len), Lo(len)) = len
  BY <1>2, HalvesOfWord
<1>7. /\ F[1] = Hi(tid) /\ F[2] = Lo(tid) /\ F[3] = 0 /\ F[4] = 0
      /\ F[5] = Hi(len) /\ F[6] = Lo(len) /\ F[7] = r.unit
  BY <1>4, <1>5
<1>8. ProtoId(F) = 0 /\ PayloadLen(F) = len /\ U16(F[1], F[2]) = tid
  BY <1>6, <1>7, NothingIsWord, Zenon DEF ProtoId, PayloadLen
<1>9. QED
  BY <1>1, <1>5, <1>7, <1>8 DEF len

----------------------------------------------------------------------------
(* The parser *)

LEMMA ParsedIs ==
  ASSUME NEW s, NEW f \in TryParseTcpFrame(s)
  PROVE  /\ Len(s) >= 7
         /\ f.consumed = 7 + PayloadLen(s) \/ f.consumed = 6 + PayloadLen(s)
<1>1. ASSUME NEW t, NEW u, NEW x, NEW n, NEW g \in TryExtractTcpPdu(t, u, x, n)
      PROVE  g.consumed = n
  BY <1>1 DEF TryExtractTcpPdu
<1>2. /\ ~(Len(s) < MBAP_HEADER_SIZE)
      /\ \/ f \in TryExtractTcpPdu(U16(s[1], s[2]), s[7],
                    SubSeq(s, MBAP_HEADER_SIZE + 1, MBAP_HEADER_SIZE + PayloadLen(s)),
                    MBAP_HEADER_SIZE + PayloadLen(s))
         \/ f \in TryExtractTcpPdu(U16(s[1], s[2]), s[7],
                    SubSeq(s, MBAP_HEADER_SIZE + 1, MBAP_PREFIX_SIZE + PayloadLen(s)),
                    MBAP_PREFIX_SIZE + PayloadLen(s))
  BY Zenon DEF TryParseTcpFrame
<1>3. QED
  BY <1>1, <1>2 DEF MBAP_HEADER_SIZE, MBAP_PREFIX_SIZE

\* What a parsed frame leaves in the buffer is bytes, and not more than before.
LEMMA RestIsBytes ==
  ASSUME NEW s \in Seq(Byte), NEW f \in TryParseTcpFrame(s)
  PROVE  /\ SubSeq(s, f.consumed + 1, Len(s)) \in Seq(Byte)
         /\ Len(SubSeq(s, f.consumed + 1, Len(s))) <= Len(s)
<1>1. Len(s) >= 7 /\ (f.consumed = 7 + PayloadLen(s) \/ f.consumed = 6 + PayloadLen(s))
  BY ParsedIs
<1>2. s[5] \in Byte /\ s[6] \in Byte
  BY <1>1
<1>3. PayloadLen(s) \in Nat
  BY <1>2, WordOfBytes DEF PayloadLen
<1>4. f.consumed \in Nat
  BY <1>1, <1>3
<1>5. Len(SubSeq(s, f.consumed + 1, Len(s))) <= Len(s)
  BY <1>4
<1>6. QED
  BY <1>4, <1>5, RestIs

LEMMA WordIsU16 ==
  ASSUME NEW a \in Byte, NEW b \in Byte
  PROVE  U16(a, b) \in Word
BY Z3 DEF U16, Byte, Word, U16_MAX

\* A parsed frame is made of the bytes of the buffer.
LEMMA ParsedTyped ==
  ASSUME NEW s \in Seq(Byte), NEW f \in TryParseTcpFrame(s)
  PROVE  f.tid \in Word /\ f.slave_id \in Byte /\ f.pdu \in Seq(Byte)
<1>1. Len(s) >= 7 /\ Len(s) \in Nat
  BY ParsedIs
<1>2. s[1] \in Byte /\ s[2] \in Byte /\ s[5] \in Byte /\ s[6] \in Byte /\ s[7] \in Byte
  BY <1>1
<1>3. U16(s[1], s[2]) \in Word /\ PayloadLen(s) \in Nat
  BY <1>2, WordIsU16, WordOfBytes DEF PayloadLen
<1>4. PICK n \in {7 + PayloadLen(s), 6 + PayloadLen(s)} :
        n > 7 /\ Len(s) >= n /\ f \in TryExtractTcpPdu(U16(s[1], s[2]), s[7], SubSeq(s, 7 + 1, n), n)
  BY Zenon DEF TryParseTcpFrame, MBAP_HEADER_SIZE, MBAP_PREFIX_SIZE
<1> DEFINE t == U16(s[1], s[2])
           u == s[7]
           body == SubSeq(s, 7 + 1, n)
<1>5. body \in Seq(Byte) /\ Len(body) > 0
  <2>1. n \in Nat
    BY <1>3, <1>4
  <2>2. QED
    BY <1>1, <1>4, <2>1
<1>6. f \in TryExtractTcpPdu(t, u, body, n) /\ t \in Word /\ u \in Byte
  BY <1>2, <1>3, <1>4
<1> HIDE DEF t, u, body
<1>7. Tail(body) \in Seq(Byte)
  BY <1>5
<1>8. f.tid = t /\ f.slave_id = u /\ f.pdu \in {body, Tail(body)}
  BY <1>6 DEF TryExtractTcpPdu
<1>9. QED
  BY <1>5, <1>6, <1>7, <1>8, Zenon

\* decode_request takes bytes that are there.
LEMMA DecodedTyped ==
  ASSUME NEW p \in Seq(Byte), IsRequest(p)
  PROVE  DecodeRequest(p) \in Seq(Byte)
<1>1. Len(p) >= RequestLen(p) /\ Len(p) > 0
  BY Zenon DEF IsRequest
<1>2. FieldCount(p[1]) \in {2, 3, 4}
  BY DEF FieldCount
<1>3. RequestLen(p) \in Nat
  <2> DEFINE x == 1 + 2 * FieldCount(p[1])
  <2>1. x \in Nat /\ x >= 1
    BY <1>2
  <2> HIDE DEF x
  <2>2. Len(p) > x => p[x + 1] \in Nat
    <3>1. Len(p) > x => x + 1 \in 1..Len(p)
      BY <2>1
    <3>2. \A i \in 1..Len(p) : p[i] \in Byte
      OBVIOUS
    <3>3. \A b \in Byte : b \in Nat
      BY DEF Byte
    <3>4. QED
      BY <3>1, <3>2, <3>3, Zenon
  <2>3. RequestLen(p) = IF HasPayload(p[1]) /\ Len(p) > x THEN x + 1 + p[x + 1]
                        ELSE x + (IF HasPayload(p[1]) THEN 1 ELSE 0)
    BY Zenon DEF RequestLen, x
  <2>4. CASE HasPayload(p[1]) /\ Len(p) > x
    <3>1. RequestLen(p) = x + 1 + p[x + 1] /\ p[x + 1] \in Nat
      BY <2>2, <2>3, <2>4, Zenon
    <3>2. QED
      BY <2>1, <3>1
  <2>5. CASE ~(HasPayload(p[1]) /\ Len(p) > x)
    <3>1. RequestLen(p) \in {x + 1, x + 0}
      BY <2>3, <2>5
    <3>2. QED
      BY <2>1, <3>1
  <2>6. QED
    BY <2>4, <2>5
<1>4. RequestLen(p) \in 0..Len(p)
  BY <1>1, <1>3
<1>5. QED
  BY <1>4, Cut, Zenon DEF DecodeRequest

LEMMA NothingParses == TryParseTcpFrame(<<>>) = {}
BY DEF TryParseTcpFrame, MBAP_HEADER_SIZE

\* A frame of which bytes are missing is neither parsed nor discarded.
LEMMA PartialParses ==
  ASSUME NEW r \in Requests, NEW c \in Configs, c.length_mode = "Standard", NEW tid \in Word,
         NEW s \in Seq(Byte), NEW w \in Seq(Byte), w # <<>>,
         s \o w = EncodeTcpFrame(r.unit, r.pdu, c, tid)
  PROVE  /\ TryParseTcpFrame(s) = {} /\ ~IsTcpHeaderCorrupt(s)
         /\ Len(s) <= MAX_TCP_BUF_BYTES
<1> DEFINE b == Body(r.unit, r.pdu, c)
           F == EncodeTcpFrame(r.unit, r.pdu, c, tid)
<1>1. /\ Len(b) \in Nat /\ Len(b) > 0 /\ Len(b) + 1 <= MAX_TCP_ADU_SIZE
      /\ F \in Seq(Byte) /\ Len(F) = 7 + Len(b)
      /\ ProtoId(F) = 0 /\ PayloadLen(F) = Len(b) + 1
  <2>1. LenOf(b, c) = Len(b) + 1
    BY DEF LenOf
  <2>2. QED
    BY <2>1, FrameIs
<1>2. /\ Len(F) = Len(s) + Len(w) /\ \A i \in 1..Len(s) : F[i] = s[i]
  BY Concatenation
<1>3. Len(w) \in Nat /\ Len(w) > 0 /\ Len(s) \in Nat
  OBVIOUS
<1> HIDE DEF F, b
<1>4. Len(s) < 7 + Len(b)
  BY <1>1, <1>2, <1>3
<1>5. ASSUME Len(s) >= 7 PROVE ProtoId(s) = 0 /\ PayloadLen(s) = Len(b) + 1
  <2>1. s[3] = F[3] /\ s[4] = F[4] /\ s[5] = F[5] /\ s[6] = F[6]
    BY <1>2, <1>3, <1>5
  <2>2. QED
    BY <1>1, <2>1 DEF ProtoId, PayloadLen
<1>6. MAX_TCP_ADU_SIZE \in Nat /\ MAX_TCP_BUF_BYTES \in Nat
        /\ 7 + MAX_TCP_ADU_SIZE <= MAX_TCP_BUF_BYTES
  BY SizesAre
<1>7. Len(s) <= MAX_TCP_BUF_BYTES
  BY <1>1, <1>3, <1>4, <1>6
<1>8. ~IsTcpHeaderCorrupt(s)
  BY <1>1, <1>5, <1>6 DEF IsTcpHeaderCorrupt, MBAP_HEADER_SIZE
<1>9. TryParseTcpFrame(s) = {}
  <2>1. CASE Len(s) < 7
    BY <2>1 DEF TryParseTcpFrame, MBAP_HEADER_SIZE
  <2>2. CASE Len(s) >= 7
    <3>1. ~(Len(s) >= 7 + PayloadLen(s)) /\ ~(Len(s) >= 6 + PayloadLen(s))
      BY <1>1, <1>3, <1>4, <1>5, <2>2
    <3>2. QED
      BY <3>1, Zenon DEF TryParseTcpFrame, MBAP_HEADER_SIZE, MBAP_PREFIX_SIZE
  <2>3. QED
    BY <1>3, <2>1, <2>2
<1>10. QED
  BY <1>7, <1>8, <1>9

\* The body of an unambiguous frame gives back its PDU or nothing.
LEMMA ExtractIs ==
  ASSUME NEW r \in Requests, config \in Configs, ~Ambiguous(r), NEW tid, NEW n,
         NEW f \in TryExtractTcpPdu(tid, r.unit, Body(r.unit, r.pdu, config), n)
  PROVE  f = [tid |-> tid, slave_id |-> r.unit, pdu |-> r.pdu, consumed |-> n]
<1> DEFINE p == r.pdu
           b == Body(r.unit, p, config)
           fr(x) == [tid |-> tid, slave_id |-> r.unit, pdu |-> x, consumed |-> n]
<1>1. \/ Len(b) >= 2 /\ b[1] = r.unit /\ IsRequest(Tail(b)) /\ f = fr(Tail(b))
      \/ /\ ~(Len(b) >= 2 /\ b[1] = r.unit /\ IsKnownFunctionCode(b[2]) /\ IsRequest(Tail(b)))
         /\ (b[1] = r.unit => IsRequest(b)) /\ f = fr(b)
  BY Zenon DEF TryExtractTcpPdu
<1>2. p \in Seq(Byte) /\ Len(p) > 0 /\ Len(p) \in Nat /\ r.unit \in Byte
  BY RequestIs
<1>3. config.unit_id_in_body \in BOOLEAN
  BY FramingIs
<1>4. CASE config.unit_id_in_body
  <2>1. b = <<r.unit>> \o p
    BY <1>4, Zenon DEF Body
  <2> HIDE DEF p, b
  <2>2. Len(b) >= 2 /\ b[1] = r.unit /\ b[2] = p[1] /\ Tail(b) = p
    <3>1. Len(b) = 1 + Len(p)
      BY <1>2, <2>1
    <3>2. b[1] = r.unit /\ b[2] = p[1]
      BY <1>2, <2>1
    <3>3. Tail(b) = p
      BY <1>2, <2>1
    <3>4. QED
      BY <1>2, <3>1, <3>2, <3>3
  <2>3. IsRequest(p) \/ ~IsRequest(b)
    BY <1>4, <2>1, Zenon DEF Ambiguous, p
  <2>4. IsRequest(p) => IsKnownFunctionCode(p[1])
    BY RequestCodeKnown, Zenon
  <2>5. f = fr(p)
    BY <1>1, <2>2, <2>3, <2>4, Zenon
  <2>6. QED
    BY <2>5 DEF p
<1>5. CASE ~config.unit_id_in_body
  <2>1. b = p
    BY <1>5, Zenon DEF Body
  <2>2. ~(p[1] = r.unit /\ IsRequest(Tail(p)))
    BY <1>5, Zenon DEF Ambiguous
  <2> HIDE DEF p, b
  <2>3. f = fr(p)
    BY <1>1, <2>1, <2>2, Zenon
  <2>4. QED
    BY <2>3 DEF p
<1>6. QED
  BY <1>3, <1>4, <1>5

\* The body of an unambiguous request is not rejected.
LEMMA ExtractFinds ==
  ASSUME NEW r \in Requests, config \in Configs, IsRequest(r.pdu), NEW tid, NEW n
  PROVE  TryExtractTcpPdu(tid, r.unit, Body(r.unit, r.pdu, config), n) # {}
<1> DEFINE p == r.pdu
           b == Body(r.unit, p, config)
<1>1. p \in Seq(Byte) /\ Len(p) > 0 /\ Len(p) \in Nat /\ r.unit \in Byte
  BY RequestIs
<1>2. IsRequest(p) /\ IsKnownFunctionCode(p[1])
  BY RequestCodeKnown, Zenon
<1>3. config.unit_id_in_body \in BOOLEAN
  BY FramingIs
<1>4. CASE config.unit_id_in_body
  <2>1. b = <<r.unit>> \o p
    BY <1>4, Zenon DEF Body
  <2> HIDE DEF p, b
  <2>2. Len(b) >= 2 /\ b[1] = r.unit /\ b[2] = p[1] /\ Tail(b) = p
    <3>1. Len(b) = 1 + Len(p)
      BY <1>1, <2>1
    <3>2. b[1] = r.unit /\ b[2] = p[1]
      BY <1>1, <2>1
    <3>3. Tail(b) = p
      BY <1>1, <2>1
    <3>4. QED
      BY <1>1, <3>1, <3>2, <3>3
  <2>3. TryExtractTcpPdu(tid, r.unit, b, n) # {}
    BY <1>2, <2>2, Zenon DEF TryExtractTcpPdu
  <2>4. QED
    BY <2>3 DEF b, p
<1>5. CASE ~config.unit_id_in_body
  <2>1. b = p
    BY <1>5, Zenon DEF Body
  <2> HIDE DEF p, b
  <2>2. TryExtractTcpPdu(tid, r.unit, b, n) # {}
    BY <1>2, <2>1, Zenon DEF TryExtractTcpPdu
  <2>3. QED
    BY <2>2 DEF b, p
<1>6. QED
  BY <1>3, <1>4, <1>5

\* A whole frame is parsed with the length that counts the unit id.
LEMMA WholeParses ==
  ASSUME NEW r \in Requests, NEW c \in Configs, c.length_mode = "Standard", NEW tid \in Word,
         NEW F, F = EncodeTcpFrame(r.unit, r.pdu, c, tid)
  PROVE  TryParseTcpFrame(F) = TryExtractTcpPdu(tid, r.unit, Body(r.unit, r.pdu, c), Len(F))
<1> DEFINE b == Body(r.unit, r.pdu, c)
<1>1. /\ b \in Seq(Byte) /\ Len(b) \in Nat /\ Len(b) > 0 /\ Len(b) + 1 <= MAX_TCP_ADU_SIZE
      /\ F \in Seq(Byte) /\ Len(F) = 7 + Len(b)
      /\ U16(F[1], F[2]) = tid /\ ProtoId(F) = 0 /\ PayloadLen(F) = Len(b) + 1 /\ F[7] = r.unit
      /\ \A i \in 1..Len(b) : F[7 + i] = b[i]
  <2>1. LenOf(b, c) = Len(b) + 1
    BY DEF LenOf
  <2>2. QED
    BY <2>1, FrameIs
<1> HIDE DEF b
<1>2. SubSeq(F, 7 + 1, Len(F)) = b
  <2> DEFINE x == SubSeq(F, 7 + 1, Len(F))
  <2>1. 7 \in 0..Len(F) /\ Len(F) - 7 = Len(b)
    BY <1>1
  <2>2. x \in Seq(Byte) /\ Len(x) = Len(F) - 7 /\ \A i \in 1..(Len(F) - 7) : x[i] = F[7 + i]
    BY <1>1, <2>1, Cut
  <2>3. Len(x) = Len(b) /\ \A i \in 1..Len(x) : x[i] = b[i]
    BY <1>1, <2>1, <2>2
  <2> HIDE DEF x
  <2>4. x = b
    BY <1>1, <2>2, <2>3, SameSequence
  <2>5. QED
    BY <2>4 DEF x
<1>3. /\ ~(Len(F) < 7) /\ ~(PayloadLen(F) > MAX_TCP_ADU_SIZE)
      /\ ~(Len(F) >= 7 + PayloadLen(F))
      /\ 6 + PayloadLen(F) = Len(F) /\ 6 + PayloadLen(F) > 7 /\ Len(F) >= 6 + PayloadLen(F)
  BY <1>1, SizesAre
<1>4. TryParseTcpFrame(F)
        = TryExtractTcpPdu(U16(F[1], F[2]), F[7], SubSeq(F, 7 + 1, 6 + PayloadLen(F)), 6 + PayloadLen(F))
  <2>1. ~(ProtoId(F) # 0)
    BY <1>1
  <2>2. QED
    BY <1>3, <2>1, Zenon DEF TryParseTcpFrame, MBAP_HEADER_SIZE, MBAP_PREFIX_SIZE
<1>5. QED
  BY <1>1, <1>2, <1>3, <1>4, Zenon DEF b

\* What the service is called with for a request.
Entry(r, tid) == [tid |-> tid, unit |-> r.unit, pdu |-> r.pdu]

\* The handler treats a whole, unambiguous frame as the request it was made from.
LEMMA WholeAnswered ==
  ASSUME NEW r \in Requests, config \in Configs, config.length_mode = "Standard", NEW tid \in Word,
         NEW F, F = EncodeTcpFrame(r.unit, r.pdu, config, tid), ~Ambiguous(r)
  PROVE  /\ \A f \in TryParseTcpFrame(F) :
              /\ f.consumed = Len(F) /\ (Calls(f) <=> Acts(r))
              /\ Calls(f) => Called(f) = Entry(r, tid)
         /\ Acts(r) => TryParseTcpFrame(F) # {}
<1>1. TryParseTcpFrame(F) = TryExtractTcpPdu(tid, r.unit, Body(r.unit, r.pdu, config), Len(F))
  BY WholeParses, Zenon
<1>2. ASSUME NEW f \in TryParseTcpFrame(F)
      PROVE  /\ f.consumed = Len(F) /\ (Calls(f) <=> Acts(r))
             /\ Calls(f) => Called(f) = Entry(r, tid)
  <2>1. f = [tid |-> tid, slave_id |-> r.unit, pdu |-> r.pdu, consumed |-> Len(F)]
    BY <1>1, <1>2, ExtractIs, Zenon
  <2>2. f.tid = tid /\ f.slave_id = r.unit /\ f.pdu = r.pdu /\ f.consumed = Len(F)
    BY <2>1
  <2>3. r.pdu # <<>> /\ r.pdu \in Seq(Byte)
    BY RequestIs
  <2>4. Calls(f) <=> Acts(r)
    BY <2>2, <2>3, Zenon DEF Calls, Acts
  <2>5. ASSUME Calls(f) PROVE Called(f) = Entry(r, tid)
    <3>1. RequestLen(r.pdu) = Len(r.pdu)
      BY <2>4, <2>5, RequestIs, Zenon DEF Acts
    <3> DEFINE p == r.pdu
    <3>2. p \in Seq(Byte)
      BY <2>3
    <3> HIDE DEF p
    <3>3. SubSeq(p, 1, Len(p)) = p
      BY <3>2
    <3>4. DecodeRequest(r.pdu) = r.pdu
      BY <3>1, <3>3, Zenon DEF DecodeRequest, p
    <3>5. QED
      BY <2>2, <3>4, Zenon DEF Called, Entry
  <2>6. QED
    BY <2>2, <2>4, <2>5
<1>3. Acts(r) => TryParseTcpFrame(F) # {}
  BY <1>1, ExtractFinds, Zenon DEF Acts
<1>4. QED
  BY <1>2, <1>3

----------------------------------------------------------------------------
(* Types and the size of the buffer *)

Call == [tid : Word, unit : Byte, pdu : Seq(Byte)]
Asked == [unit : Byte, pdu : Seq(Byte), tid : Word, rested : BOOLEAN, empty : BOOLEAN,
          before : Seq(Call)]

\* One read more than what the handler keeps.
Bounded == Len(buf) <= MAX_TCP_BUF_BYTES + (IF pc = "reading" THEN 0 ELSE ReadSize)

Types ==
  /\ config \in Configs /\ counter \in Word
  /\ wire \in Seq(Byte) /\ buf \in Seq(Byte)
  /\ pc \in {"reading", "parsing", "closed"}
  /\ asked \in Seq(Asked) /\ executed \in Seq(Call)
  /\ Bounded

LEMMA CalledTyped ==
  ASSUME NEW s \in Seq(Byte), NEW f \in TryParseTcpFrame(s), Calls(f)
  PROVE  Called(f) \in Call
<1>1. f.tid \in Word /\ f.slave_id \in Byte /\ f.pdu \in Seq(Byte)
  BY ParsedTyped
<1>2. IsRequest(f.pdu)
  BY Zenon DEF Calls
<1>3. DecodeRequest(f.pdu) \in Seq(Byte)
  BY <1>1, <1>2, DecodedTyped, Zenon
<1>4. QED
  BY <1>1, <1>3, Zenon DEF Called, Call

LEMMA TidIs ==
  ASSUME NEW c \in Configs, NEW v \in Word
  PROVE  NextTid(c.tid, v) \in Word /\ Advance(c.tid, v) \in Word
<1>1. 0 \in Word
  BY WordIs DEF Word
<1>2. NextTid(c.tid, v) \in {v, 0}
  BY DEF NextTid
<1>3. Advance(c.tid, v) \in {v, (v + 1) % 65536}
  BY DEF Advance
<1>4. QED
  BY <1>1, <1>2, <1>3, TidWraps

\* What Ask appends to asked.
Sent(r) == [unit |-> r.unit, pdu |-> r.pdu, tid |-> NextTid(config.tid, counter),
            rested |-> AtRest, empty |-> buf = <<>>, before |-> executed]

LEMMA SizesOfReads == ReadSize \in Nat /\ MAX_TCP_BUF_BYTES \in Nat
BY ServerConstants, SizesAre

LEMMA TypesInit == Init => Types
<1> SUFFICES ASSUME Init PROVE Types
  OBVIOUS
<1>1. FirstTid \in Word
  BY ServerConstants DEF Word
<1>2. Bounded
  <2>1. Len(buf) = 0 /\ pc = "reading"
    BY DEF Init
  <2>2. QED
    BY <2>1, SizesOfReads DEF Bounded
<1>3. QED
  BY <1>1, <1>2 DEF Init, Types

\* A step that adds nothing to the buffer and does not go back to read.
LEMMA BoundKept ==
  ASSUME Types, buf' \in Seq(Byte), Len(buf') <= Len(buf), pc' = pc \/ pc' # "reading"
  PROVE  Bounded'
<1>1. Len(buf) \in Nat /\ Len(buf') \in Nat
  BY DEF Types
<1>2. QED
  BY <1>1, SizesOfReads DEF Types, Bounded

LEMMA TypesNext == Types /\ [Next]_vars => Types'
<1> SUFFICES ASSUME Types, [Next]_vars PROVE Types'
  OBVIOUS
<1>0. Len(buf) \in Nat /\ Len(buf) <= Len(buf)
  BY DEF Types
<1>1. ASSUME NEW r \in Requests, Ask(r) PROVE Types'
  <2> DEFINE F == EncodeTcpFrame(r.unit, r.pdu, config, NextTid(config.tid, counter))
             b == Body(r.unit, r.pdu, config)
  <2>1. NextTid(config.tid, counter) \in Word /\ counter' \in Word
    BY <1>1, TidIs DEF Ask, Types
  <2>2. F \in Seq(Byte)
    BY <2>1, FrameIs DEF Types
  <2>3. wire' \in Seq(Byte)
    <3>1. wire' = wire \o F
      BY <1>1 DEF Ask
    <3> HIDE DEF F
    <3>2. QED
      BY <2>2, <3>1 DEF Types
  <2>4. Sent(r) \in Asked /\ asked' = Append(asked, Sent(r))
    <3>1. r.unit \in Byte /\ r.pdu \in Seq(Byte)
      BY RequestIs
    <3>2. AtRest \in BOOLEAN /\ (buf = <<>>) \in BOOLEAN
      BY DEF AtRest
    <3>3. asked' = Append(asked, Sent(r))
      BY <1>1, Zenon DEF Ask, Sent
    <3>4. Sent(r) \in Asked
      BY <2>1, <3>1, <3>2, Zenon DEF Sent, Asked, Types
    <3>5. QED
      BY <3>3, <3>4
  <2>5. asked' \in Seq(Asked)
    BY <2>4 DEF Types
  <2>6. Bounded'
    BY <1>1, Zenon DEF Ask, Types, Bounded
  <2>7. QED
    BY <1>1, <2>1, <2>3, <2>5, <2>6 DEF Ask, Types
<1>2. ASSUME NEW n \in 1..Len(wire), Read(n) PROVE Types'
  <2>1. n \in 0..Len(wire) /\ n <= ReadSize /\ pc = "reading" /\ pc' = "parsing"
    BY <1>2 DEF Read
  <2>2. /\ SubSeq(wire, 1, n) \in Seq(Byte) /\ SubSeq(wire, n + 1, Len(wire)) \in Seq(Byte)
        /\ Len(SubSeq(wire, 1, n)) = n
    BY <2>1, Cut DEF Types
  <2>3. buf' \in Seq(Byte) /\ wire' \in Seq(Byte) /\ Len(buf') = Len(buf) + n
    <3>1. buf' = buf \o SubSeq(wire, 1, n) /\ wire' = SubSeq(wire, n + 1, Len(wire))
      BY <1>2 DEF Read
    <3> DEFINE p == SubSeq(wire, 1, n)
    <3>2. p \in Seq(Byte) /\ Len(p) = n /\ buf' = buf \o p
      BY <2>2, <3>1
    <3> HIDE DEF p
    <3>3. buf' \in Seq(Byte) /\ Len(buf') = Len(buf) + n
      BY <3>2, Concatenation DEF Types
    <3>4. QED
      BY <2>2, <3>1, <3>3
  <2>4. Bounded'
    <3>1. Len(buf) <= MAX_TCP_BUF_BYTES
      BY <2>1, SizesOfReads DEF Types, Bounded
    <3>2. QED
      BY <1>0, <2>1, <2>3, <3>1, SizesOfReads DEF Bounded
  <2>5. QED
    BY <1>2, <2>3, <2>4 DEF Read, Types
<1>3. CASE ReadEnds
  <2>1. Bounded'
    BY <1>0, <1>3, BoundKept DEF ReadEnds, Types
  <2>2. QED
    BY <1>3, <2>1 DEF ReadEnds, Types
<1>4. CASE Ignore
  <2>1. buf' \in Seq(Byte) /\ Len(buf') <= Len(buf)
    BY <1>4, RestIsBytes DEF Ignore, Types
  <2>2. Bounded'
    BY <1>4, <2>1, BoundKept DEF Ignore
  <2>3. QED
    BY <1>4, <2>1, <2>2 DEF Ignore, Types
<1>5. CASE Serve
  <2>1. buf' \in Seq(Byte) /\ Len(buf') <= Len(buf)
    BY <1>5, RestIsBytes DEF Serve, Types
  <2>2. Bounded'
    BY <1>5, <2>1, BoundKept DEF Serve
  <2>3. executed' \in Seq(Call)
    <3>1. PICK f \in TryParseTcpFrame(buf) : Calls(f) /\ executed' = Append(executed, Called(f))
      BY <1>5, Zenon DEF Serve
    <3>2. Called(f) \in Call
      BY <3>1, CalledTyped, Zenon DEF Types
    <3>3. QED
      BY <3>1, <3>2 DEF Types
  <2>4. QED
    BY <1>5, <2>1, <2>2, <2>3 DEF Serve, Types
<1>6. CASE ServeFails
  <2>1. Bounded'
    BY <1>0, <1>6, BoundKept DEF ServeFails, Types
  <2>2. executed' \in Seq(Call)
    <3>1. PICK f \in TryParseTcpFrame(buf) : Calls(f) /\ executed' = Append(executed, Called(f))
      BY <1>6, Zenon DEF ServeFails
    <3>2. Called(f) \in Call
      BY <3>1, CalledTyped, Zenon DEF Types
    <3>3. QED
      BY <3>1, <3>2 DEF Types
  <2>3. QED
    BY <1>6, <2>1, <2>2 DEF ServeFails, Types
<1>7. CASE ParseEnds
  <2>1. buf' \in Seq(Byte) /\ Len(buf') <= MAX_TCP_BUF_BYTES
    <3>1. buf' = <<>> \/ (buf' = buf /\ ~(Len(buf) > MAX_TCP_BUF_BYTES))
      BY <1>7, Zenon DEF ParseEnds
    <3>2. <<>> \in Seq(Byte) /\ Len(<<>>) = 0
      OBVIOUS
    <3>3. CASE buf' = <<>>
      BY <3>2, <3>3, SizesOfReads
    <3>4. CASE buf' = buf /\ ~(Len(buf) > MAX_TCP_BUF_BYTES)
      BY <1>0, <3>4, SizesOfReads DEF Types
    <3>5. QED
      BY <3>1, <3>3, <3>4
  <2>2. Bounded'
    BY <2>1, SizesOfReads DEF Bounded
  <2>3. QED
    BY <1>7, <2>1, <2>2 DEF ParseEnds, Types
<1>8. CASE UNCHANGED vars
  BY <1>8, Zenon DEF vars, Types, Bounded
<1>9. QED
  BY <1>1, <1>2, <1>3, <1>4, <1>5, <1>6, <1>7, <1>8 DEF Next

\* The states and the buffers of the handler and of its client: the transaction
\* id stays 16 bits wide, a parsed frame is cut off within the buffer, and
\* whatever a peer sends the buffer never holds more than one read beyond
\* MAX_TCP_BUF_BYTES.
THEOREM ConnectionTyped == Spec => []TypeOK
<1>1. Types => TypeOK
  BY Zenon DEF Types, TypeOK, Bounded, Byte, Word
<1>2. QED
  BY <1>1, TypesInit, TypesNext, PTL DEF Spec

----------------------------------------------------------------------------
(* A request that finds the server at rest *)

\* In what follows b is what was executed before the request, and w what is to
\* have been executed with it.

\* The connection ended, perhaps before the request was executed.
Ended(b, w) == pc = "closed" /\ (executed = b \/ executed = w)

\* Everything was read; a rest that is no frame may stay in the buffer.
Resting(w) == pc = "reading" /\ wire = <<>> /\ executed = w

\* The frame was taken off the buffer and there is no other one.
Emptied(w) == pc = "parsing" /\ wire = <<>> /\ buf = <<>> /\ executed = w

Wanted(r, tid, b) == IF Acts(r) THEN Append(b, Entry(r, tid)) ELSE b

\* The buffer and the wire hold the frame of the request and nothing else.
Carrying(r, tid, b, w) ==
  /\ pc # "closed" /\ (pc = "reading" => wire # <<>>)
  /\ buf \o wire = EncodeTcpFrame(r.unit, r.pdu, config, tid)
  /\ ~Ambiguous(r)
  /\ executed = b /\ w = Wanted(r, tid, b)

Where(b, w) ==
  \/ Ended(b, w) \/ Resting(w) \/ Emptied(w)
  \/ \E r \in Requests : \E tid \in Word : Carrying(r, tid, b, w)

\* What the parser makes of the buffer while it holds that frame.
LEMMA ParsesOnlyWhole ==
  ASSUME Types, config.length_mode = "Standard", NEW r \in Requests, NEW tid \in Word,
         NEW b, NEW w, Carrying(r, tid, b, w)
  PROVE  /\ wire # <<>> => /\ TryParseTcpFrame(buf) = {} /\ ~IsTcpHeaderCorrupt(buf)
                           /\ Len(buf) <= MAX_TCP_BUF_BYTES
         /\ wire = <<>> =>
              /\ \A f \in TryParseTcpFrame(buf) :
                   /\ SubSeq(buf, f.consumed + 1, Len(buf)) = <<>> /\ (Calls(f) <=> Acts(r))
                   /\ Calls(f) => Called(f) = Entry(r, tid)
              /\ Acts(r) => TryParseTcpFrame(buf) # {}
<1>1. buf \in Seq(Byte) /\ wire \in Seq(Byte) /\ config \in Configs
  BY DEF Types
<1>2. buf \o wire = EncodeTcpFrame(r.unit, r.pdu, config, tid) /\ ~Ambiguous(r)
  BY Zenon DEF Carrying
<1>3. ASSUME wire # <<>>
      PROVE  TryParseTcpFrame(buf) = {} /\ ~IsTcpHeaderCorrupt(buf) /\ Len(buf) <= MAX_TCP_BUF_BYTES
  BY <1>1, <1>2, <1>3, PartialParses, Zenon
<1>4. ASSUME wire = <<>>
      PROVE  /\ \A f \in TryParseTcpFrame(buf) :
                  /\ SubSeq(buf, f.consumed + 1, Len(buf)) = <<>> /\ (Calls(f) <=> Acts(r))
                  /\ Calls(f) => Called(f) = Entry(r, tid)
             /\ Acts(r) => TryParseTcpFrame(buf) # {}
  <2>1. buf \o wire = buf
    BY <1>1, <1>4
  <2>2. buf = EncodeTcpFrame(r.unit, r.pdu, config, tid)
    BY <1>2, <2>1
  <2>3. /\ \A f \in TryParseTcpFrame(buf) :
             /\ f.consumed = Len(buf) /\ (Calls(f) <=> Acts(r))
             /\ Calls(f) => Called(f) = Entry(r, tid)
        /\ Acts(r) => TryParseTcpFrame(buf) # {}
    BY <1>1, <1>2, <2>2, WholeAnswered, Zenon
  <2>4. SubSeq(buf, Len(buf) + 1, Len(buf)) = <<>>
    BY <1>1, NothingLeft, Zenon
  <2>5. QED
    BY <2>3, <2>4, Zenon
<1>5. QED
  BY <1>3, <1>4, Zenon

\* The client asks; then its frame is all there is.
LEMMA WhereAsk ==
  ASSUME Types, NEW r \in Requests, Ask(r), AtRest, buf = <<>>, ~Ambiguous(r),
         NEW b, b = executed, NEW w, w = Wanted(r, NextTid(config.tid, counter), b)
  PROVE  Where(b, w)'
<1>1. pc = "reading" /\ wire = <<>>
  BY Zenon DEF AtRest
<1>2. PICK tid \in Word : tid = NextTid(config.tid, counter)
  BY TidIs DEF Types
<1> DEFINE F == EncodeTcpFrame(r.unit, r.pdu, config, tid)
<1>3. wire' = wire \o F /\ config' = config /\ buf' = buf /\ pc' = pc /\ executed' = executed
  BY <1>2, Zenon DEF Ask
<1>4. F \in Seq(Byte) /\ F # <<>>
  <2> DEFINE s == Body(r.unit, r.pdu, config)
  <2>1. F \in Seq(Byte) /\ Len(F) = 7 + Len(s) /\ Len(s) \in Nat
    BY FrameIs DEF Types
  <2> HIDE DEF F, s
  <2>2. QED
    BY <2>1
<1>5. wire' = F /\ buf' \o wire' = F
  <2> HIDE DEF F
  <2>1. QED
    BY <1>1, <1>3, <1>4
<1>6. pc' # "closed" /\ wire' # <<>>
  BY <1>1, <1>3, <1>4, <1>5
<1>7. buf' \o wire' = EncodeTcpFrame(r.unit, r.pdu, config', tid)
  BY <1>3, <1>5, Zenon
<1>8. ~(Ambiguous(r)')
  BY <1>3, Zenon DEF Ambiguous
<1>9. executed' = b /\ w = Wanted(r, tid, b)
  BY <1>2, <1>3
<1>10. Carrying(r, tid, b, w)'
  BY <1>6, <1>7, <1>8, <1>9, Zenon DEF Carrying
<1>11. QED
  BY <1>10, Zenon DEF Where

LEMMA WhereRead ==
  ASSUME Types, NEW b, NEW w, Where(b, w), NEW n \in 1..Len(wire), Read(n)
  PROVE  Where(b, w)'
<1>1. /\ pc = "reading" /\ pc' = "parsing"
      /\ buf' = buf \o SubSeq(wire, 1, n) /\ wire' = SubSeq(wire, n + 1, Len(wire))
      /\ UNCHANGED <<config, executed>>
  BY Zenon DEF Read
<1>2. wire # <<>>
  OBVIOUS
<1>3. PICK r \in Requests : \E tid \in Word : Carrying(r, tid, b, w)
  BY <1>1, <1>2, Zenon DEF Where, Ended, Resting, Emptied
<1>4. PICK tid \in Word : Carrying(r, tid, b, w)
  BY <1>3
<1>5. buf' \o wire' = buf \o wire
  BY <1>1, ReadMoves, Zenon DEF Types
<1>6. ~(Ambiguous(r)')
  BY <1>1, <1>4, Zenon DEF Carrying, Ambiguous
<1>7. pc' # "closed" /\ pc' # "reading"
  BY <1>1
<1>8. Carrying(r, tid, b, w)'
  BY <1>1, <1>4, <1>5, <1>6, <1>7, Zenon DEF Carrying
<1>9. QED
  BY <1>8, Zenon DEF Where

LEMMA WhereReadEnds ==
  ASSUME NEW b, NEW w, Where(b, w), ReadEnds
  PROVE  Where(b, w)'
<1>1. pc' = "closed" /\ executed' = executed
  BY Zenon DEF ReadEnds
<1>2. executed = b \/ executed = w
  BY Zenon DEF Where, Ended, Resting, Emptied, Carrying
<1>3. QED
  BY <1>1, <1>2, Zenon DEF Where, Ended

\* The parser finds a frame only when the buffer holds the whole of it.
LEMMA WhereParsed ==
  ASSUME Types, NEW b, NEW w, Where(b, w), config.length_mode = "Standard", pc = "parsing",
         NEW f \in TryParseTcpFrame(buf)
  PROVE  /\ wire = <<>> /\ SubSeq(buf, f.consumed + 1, Len(buf)) = <<>>
         /\ Calls(f) => w = Append(executed, Called(f))
         /\ ~Calls(f) => w = executed
<1>1. pc # "reading" /\ pc # "closed"
  OBVIOUS
<1>2. ~Emptied(w)
  BY NothingParses, Zenon DEF Emptied
<1>3. PICK r \in Requests : \E tid \in Word : Carrying(r, tid, b, w)
  BY <1>1, <1>2, Zenon DEF Where, Ended, Resting
<1>4. PICK tid \in Word : Carrying(r, tid, b, w)
  BY <1>3
<1>5. CASE wire # <<>>
  BY <1>4, <1>5, ParsesOnlyWhole, Zenon
<1>6. CASE wire = <<>>
  <2>1. /\ SubSeq(buf, f.consumed + 1, Len(buf)) = <<>> /\ (Calls(f) <=> Acts(r))
        /\ Calls(f) => Called(f) = Entry(r, tid)
    BY <1>4, <1>6, ParsesOnlyWhole, Zenon
  <2>2. w = IF Acts(r) THEN Append(executed, Entry(r, tid)) ELSE executed
    BY <1>4, Zenon DEF Carrying, Wanted
  <2>3. QED
    BY <1>6, <2>1, <2>2, Zenon
<1>7. QED
  BY <1>5, <1>6

LEMMA WhereIgnore ==
  ASSUME Types, NEW b, NEW w, Where(b, w), config.length_mode = "Standard", Ignore
  PROVE  Where(b, w)'
<1>1. PICK f \in TryParseTcpFrame(buf) : ~Calls(f) /\ buf' = SubSeq(buf, f.consumed + 1, Len(buf))
  BY Zenon DEF Ignore
<1>2. pc = "parsing" /\ UNCHANGED <<wire, pc, executed>>
  BY Zenon DEF Ignore
<1>3. wire = <<>> /\ SubSeq(buf, f.consumed + 1, Len(buf)) = <<>> /\ (~Calls(f) => w = executed)
  BY <1>2, WhereParsed
<1>4. wire = <<>> /\ buf' = <<>> /\ w = executed
  BY <1>1, <1>3, Zenon
<1>5. QED
  BY <1>2, <1>4, Zenon DEF Where, Emptied

LEMMA WhereServe ==
  ASSUME Types, NEW b, NEW w, Where(b, w), config.length_mode = "Standard", Serve
  PROVE  Where(b, w)'
<1>1. PICK f \in TryParseTcpFrame(buf) :
        /\ Calls(f) /\ executed' = Append(executed, Called(f))
        /\ buf' = SubSeq(buf, f.consumed + 1, Len(buf))
  BY Zenon DEF Serve
<1>2. pc = "parsing" /\ UNCHANGED <<wire, pc>>
  BY Zenon DEF Serve
<1>3. wire = <<>> /\ buf' = <<>> /\ executed' = w
  BY <1>1, <1>2, WhereParsed, Zenon
<1>4. QED
  BY <1>2, <1>3, Zenon DEF Where, Emptied

LEMMA WhereServeFails ==
  ASSUME Types, NEW b, NEW w, Where(b, w), config.length_mode = "Standard", ServeFails
  PROVE  Where(b, w)'
<1>1. PICK f \in TryParseTcpFrame(buf) : Calls(f) /\ executed' = Append(executed, Called(f))
  BY Zenon DEF ServeFails
<1>2. pc = "parsing" /\ pc' = "closed"
  BY Zenon DEF ServeFails
<1>3. executed' = w
  BY <1>1, <1>2, WhereParsed, Zenon
<1>4. QED
  BY <1>2, <1>3, Zenon DEF Where, Ended

LEMMA WhereParseEnds ==
  ASSUME Types, NEW b, NEW w, Where(b, w), config.length_mode = "Standard", ParseEnds
  PROVE  Where(b, w)'
<1>1. /\ pc = "parsing" /\ TryParseTcpFrame(buf) = {} /\ pc' = "reading"
      /\ UNCHANGED <<config, wire, executed>>
  BY Zenon DEF ParseEnds
<1>2. pc # "reading" /\ pc # "closed" /\ pc' # "closed"
  BY <1>1
<1>3. CASE Emptied(w)
  BY <1>1, <1>3, Zenon DEF Emptied, Where, Resting
<1>4. ASSUME NEW r \in Requests, NEW tid \in Word, Carrying(r, tid, b, w) PROVE Where(b, w)'
  <2>1. CASE wire = <<>>
    <3>1. ~Acts(r)
      BY <1>1, <1>4, <2>1, ParsesOnlyWhole, Zenon
    <3>2. w = executed
      BY <1>4, <3>1, Zenon DEF Carrying, Wanted
    <3>3. QED
      BY <1>1, <2>1, <3>2, Zenon DEF Where, Resting
  <2>2. CASE wire # <<>>
    <3>1. ~IsTcpHeaderCorrupt(buf) /\ Len(buf) <= MAX_TCP_BUF_BYTES
      BY <1>4, <2>2, ParsesOnlyWhole, Zenon
    <3>2. ~(Len(buf) > MAX_TCP_BUF_BYTES)
      <4>1. Len(buf) \in Nat
        BY DEF Types
      <4>2. QED
        BY <3>1, <4>1, SizesAre
    <3>3. buf' = buf
      BY <3>1, <3>2, Zenon DEF ParseEnds
    <3>4. ~(Ambiguous(r)')
      BY <1>1, <1>4, Zenon DEF Carrying, Ambiguous
    <3>5. Carrying(r, tid, b, w)'
      BY <1>1, <1>2, <1>4, <2>2, <3>3, <3>4, Zenon DEF Carrying
    <3>6. QED
      BY <3>5, Zenon DEF Where
  <2>3. QED
    BY <2>1, <2>2
<1>5. QED
  BY <1>2, <1>3, <1>4, Zenon DEF Where, Ended, Resting

\* Every step of the handler.
LEMMA WhereStep ==
  ASSUME Types, NEW b, NEW w, Where(b, w), config.length_mode = "Standard", [Next]_vars,
         asked' = asked
  PROVE  Where(b, w)'
<1>1. ASSUME NEW n \in 1..Len(wire), Read(n) PROVE Where(b, w)'
  BY <1>1, WhereRead, Zenon
<1>2. CASE ReadEnds
  BY <1>2, WhereReadEnds, Zenon
<1>3. CASE Ignore
  BY <1>3, WhereIgnore, Zenon
<1>4. CASE Serve
  BY <1>4, WhereServe, Zenon
<1>5. CASE ServeFails
  BY <1>5, WhereServeFails, Zenon
<1>6. CASE ParseEnds
  BY <1>6, WhereParseEnds, Zenon
<1>7. CASE UNCHANGED vars
  BY <1>7, Zenon DEF vars, Where, Ended, Resting, Emptied, Carrying, Ambiguous
<1>8. ASSUME NEW r \in Requests PROVE ~Ask(r)
  <2>1. SUFFICES ASSUME Ask(r) PROVE FALSE
    OBVIOUS
  <2>2. asked' = Append(asked, Sent(r))
    BY <2>1, Zenon DEF Ask, Sent
  <2>3. asked \in Seq(Asked)
    BY DEF Types
  <2>4. Len(asked') = Len(asked) + 1 /\ Len(asked) \in Nat
    BY <2>2, <2>3
  <2>5. QED
    BY <2>4
<1>9. QED
  BY <1>1, <1>2, <1>3, <1>4, <1>5, <1>6, <1>7, <1>8, Zenon DEF Next

\* The last request, and whether it is one of those.
Newest == asked[Len(asked)]

Fresh ==
  /\ config.length_mode = "Standard" /\ asked # <<>>
  /\ Newest.rested /\ Newest.empty /\ ~Ambiguous(Newest)

FreshWhere == Fresh => Where(Newest.before, Wanted(Newest, Newest.tid, Newest.before))

LEMMA AskedIs ==
  ASSUME Types, NEW r \in Requests, Ask(r)
  PROVE  /\ asked' # <<>> /\ Newest' = Sent(r) /\ Len(asked') = Len(asked) + 1
         /\ \A k \in 1..Len(asked) : asked'[k] = asked[k]
         /\ config' = config /\ executed' = executed
<1>1. asked' = Append(asked, Sent(r)) /\ config' = config /\ executed' = executed
  BY Zenon DEF Ask, Sent
<1>2. asked \in Seq(Asked)
  BY DEF Types
<1> DEFINE x == Sent(r)
<1> HIDE DEF x
<1>3. asked' = Append(asked, x)
  BY <1>1 DEF x
<1>4. /\ asked' # <<>> /\ asked'[Len(asked')] = x /\ Len(asked') = Len(asked) + 1
      /\ \A k \in 1..Len(asked) : asked'[k] = asked[k]
  BY <1>2, <1>3
<1>5. QED
  BY <1>1, <1>4, Zenon DEF Newest, x

LEMMA SentIs ==
  ASSUME NEW r
  PROVE  /\ Sent(r).unit = r.unit /\ Sent(r).pdu = r.pdu
         /\ Sent(r).tid = NextTid(config.tid, counter) /\ Sent(r).before = executed
         /\ Sent(r).rested = AtRest /\ Sent(r).empty = (buf = <<>>)
BY Zenon DEF Sent

\* The history of a request is what is wanted of the request.
LEMMA WantedOfSent ==
  ASSUME NEW r, NEW b
  PROVE  Wanted(Sent(r), Sent(r).tid, b) = Wanted(r, NextTid(config.tid, counter), b)
BY SentIs, Zenon DEF Wanted, Acts, Entry

LEMMA FreshAsk ==
  ASSUME Types, NEW r \in Requests, Ask(r), Fresh'
  PROVE  AtRest /\ buf = <<>> /\ ~Ambiguous(r) /\ FreshWhere'
<1>1. Newest' = Sent(r) /\ config' = config
  BY AskedIs
<1>2. Sent(r).rested /\ Sent(r).empty
  BY <1>1, Zenon DEF Fresh
<1>3. AtRest /\ buf = <<>>
  BY <1>2, SentIs, Zenon
<1>4. ~Ambiguous(r)
  <2>1. ~(IF config'.unit_id_in_body
          THEN ~IsRequest(Newest'.pdu) /\ IsRequest(<<Newest'.unit>> \o Newest'.pdu)
          ELSE Newest'.pdu[1] = Newest'.unit /\ IsRequest(Tail(Newest'.pdu)))
    BY Zenon DEF Fresh, Ambiguous
  <2>2. QED
    BY <1>1, <2>1, SentIs, Zenon DEF Ambiguous
<1>5. PICK b, w : b = executed /\ w = Wanted(r, NextTid(config.tid, counter), b)
  OBVIOUS
<1>6. Where(b, w)'
  BY <1>3, <1>4, <1>5, WhereAsk, Zenon
<1>7. Newest'.before = b
  BY <1>1, <1>5, SentIs, Zenon
<1>8. Wanted(Newest', Newest'.tid, Newest'.before) = w
  BY <1>1, <1>5, <1>7, WantedOfSent, Zenon
<1>9. Where(Newest.before, Wanted(Newest, Newest.tid, Newest.before))'
  <2>1. Where(b, w)' => Where(Newest.before, Wanted(Newest, Newest.tid, Newest.before))'
    BY <1>7, <1>8, Zenon DEF Where, Ended, Resting, Emptied, Carrying, Wanted
  <2>2. QED
    BY <1>6, <2>1
<1>10. QED
  BY <1>3, <1>4, <1>9, Zenon DEF FreshWhere

LEMMA FreshNext ==
  ASSUME Types, FreshWhere, [Next]_vars
  PROVE  FreshWhere'
<1>1. CASE \E r \in Requests : Ask(r)
  BY <1>1, FreshAsk, Zenon DEF FreshWhere
<1>2. CASE UNCHANGED <<config, asked>>
  <2>1. SUFFICES ASSUME Fresh' PROVE FreshWhere'
    BY Zenon DEF FreshWhere
  <2>2. Newest' = Newest
    BY <1>2, Zenon DEF Newest
  <2>3. Fresh
    BY <1>2, <2>1, <2>2, Zenon DEF Fresh, Ambiguous
  <2>4. PICK b, w : b = Newest.before /\ w = Wanted(Newest, Newest.tid, Newest.before)
    OBVIOUS
  <2>5. Where(b, w)
    BY <2>3, <2>4, Zenon DEF FreshWhere
  <2>6. Where(b, w)'
    BY <1>2, <2>3, <2>5, WhereStep, Zenon DEF Fresh
  <2>7. Newest'.before = b /\ Wanted(Newest', Newest'.tid, Newest'.before) = w
    BY <2>2, <2>4, Zenon
  <2>8. Where(Newest.before, Wanted(Newest, Newest.tid, Newest.before))'
    BY <2>6, <2>7, Zenon DEF Where, Ended, Resting, Emptied, Carrying, Wanted
  <2>9. QED
    BY <2>8, Zenon DEF FreshWhere
<1>3. UNCHANGED <<config, asked>> \/ \E r \in Requests : Ask(r)
  BY Zenon DEF Next, vars, Read, ReadEnds, Ignore, Serve, ServeFails, ParseEnds
<1>4. QED
  BY <1>1, <1>2, <1>3, Zenon

LEMMA WhereExecuted ==
  ASSUME NEW b, NEW w, Where(b, w)
  PROVE  (executed = b \/ executed = w) /\ (AtRest => executed = w)
BY Zenon DEF Where, Ended, Resting, Emptied, Carrying, AtRest

\* A connection recovers: whatever the handler refused, discarded or cut
\* before, a request that finds the server at rest with nothing in its buffer
\* is executed as it was sent if it is to be executed, once, and nothing else
\* with it, wherever the network cuts its frame.
THEOREM ConnectionRecovers == Spec => []FreshRequestExact
<1>1. Init => FreshWhere
  BY Zenon DEF Init, FreshWhere, Fresh
<1>2. FreshWhere => FreshRequestExact
  <2> SUFFICES ASSUME FreshWhere, Fresh
               PROVE  LET r == Newest
                          want == Wanted(r, r.tid, r.before)
                      IN executed \in {r.before, want} /\ (AtRest => executed = want)
    BY Zenon DEF FreshRequestExact, Fresh, Newest, Wanted, Entry
  <2>1. Where(Newest.before, Wanted(Newest, Newest.tid, Newest.before))
    BY Zenon DEF FreshWhere
  <2>2. QED
    BY <2>1, WhereExecuted, Zenon
<1>3. QED
  BY <1>1, <1>2, FreshNext, TypesInit, TypesNext, PTL DEF Spec

----------------------------------------------------------------------------
(* One request at a time *)

Single ==
  /\ config.length_mode = "Standard" /\ Alone
  /\ \A k \in 1..Len(asked) : ~Ambiguous(asked[k])

\* Nothing has happened, or the requests before the last one were executed.
DueWhere ==
  /\ asked = <<>> => wire = <<>> /\ buf = <<>> /\ pc # "parsing" /\ due = <<>> /\ executed = <<>>
  /\ Single /\ asked # <<>> => due = Wanted(Newest, Newest.tid, Newest.before)

LEMMA SingleFresh ==
  ASSUME Types, Single, asked # <<>>
  PROVE  Fresh
<1>1. asked \in Seq(Asked)
  BY DEF Types
<1>2. Len(asked) \in 1..Len(asked)
  BY <1>1
<1>3. QED
  BY <1>2, Zenon DEF Single, Alone, Fresh, Newest

LEMMA SingleAsk ==
  ASSUME Types, NEW r \in Requests, Ask(r), Single'
  PROVE  Single /\ Fresh'
<1>1. /\ asked' # <<>> /\ Newest' = Sent(r) /\ Len(asked') = Len(asked) + 1
      /\ \A k \in 1..Len(asked) : asked'[k] = asked[k]
      /\ config' = config
  BY AskedIs
<1>2. Len(asked) \in Nat
  BY DEF Types
<1>3. Len(asked') \in 1..Len(asked') /\ \A k \in 1..Len(asked) : k \in 1..Len(asked')
  BY <1>1, <1>2
<1>4. /\ config'.length_mode = "Standard"
      /\ \A k \in 1..Len(asked') : asked'[k].rested /\ asked'[k].empty
      /\ \A k \in 1..Len(asked') :
           ~(IF config'.unit_id_in_body
             THEN ~IsRequest(asked'[k].pdu) /\ IsRequest(<<asked'[k].unit>> \o asked'[k].pdu)
             ELSE asked'[k].pdu[1] = asked'[k].unit /\ IsRequest(Tail(asked'[k].pdu)))
  BY Zenon DEF Single, Alone, Ambiguous
<1>5. \A k \in 1..Len(asked) : asked[k].rested /\ asked[k].empty /\ ~Ambiguous(asked[k])
  BY <1>1, <1>3, <1>4, Zenon DEF Ambiguous
<1>6. Single
  BY <1>1, <1>4, <1>5, Zenon DEF Single, Alone
<1>7. Fresh'
  BY <1>1, <1>3, <1>4, Zenon DEF Fresh, Newest, Ambiguous
<1>8. QED
  BY <1>6, <1>7

LEMMA DueNext ==
  ASSUME Types, FreshWhere, DueWhere, [Next]_vars
  PROVE  DueWhere'
<1>1. ASSUME NEW r \in Requests, Ask(r) PROVE DueWhere'
  <2>1. /\ asked' # <<>> /\ Newest' = Sent(r) /\ executed' = executed
    BY <1>1, AskedIs
  <2>2. ASSUME Single' PROVE due' = Wanted(Newest', Newest'.tid, Newest'.before)
    <3>1. Single /\ AtRest
      BY <1>1, <2>2, SingleAsk, FreshAsk, Zenon
    <3>2. due = executed
      <4>1. CASE asked = <<>>
        BY <4>1, Zenon DEF DueWhere
      <4>2. CASE asked # <<>>
        <5>1. Fresh
          BY <3>1, <4>2, SingleFresh, Zenon
        <5>2. executed = Wanted(Newest, Newest.tid, Newest.before)
          BY <3>1, <5>1, WhereExecuted, Zenon DEF FreshWhere
        <5>3. QED
          BY <3>1, <4>2, <5>2, Zenon DEF DueWhere
      <4>3. QED
        BY <4>1, <4>2
    <3>3. due' = Wanted(r, NextTid(config.tid, counter), due)
      BY <1>1, Zenon DEF Ask, Wanted, Entry
    <3>4. QED
      BY <2>1, <3>2, <3>3, SentIs, WantedOfSent, Zenon
  <2>3. QED
    BY <2>1, <2>2, Zenon DEF DueWhere
<1>2. CASE UNCHANGED <<config, asked, due>>
  <2>1. Newest' = Newest /\ (Single' => Single)
    BY <1>2, Zenon DEF Newest, Single, Alone, Ambiguous
  <2>2. ASSUME asked' = <<>>
        PROVE  wire' = <<>> /\ buf' = <<>> /\ pc' # "parsing" /\ due' = <<>> /\ executed' = <<>>
    <3>1. wire = <<>> /\ buf = <<>> /\ pc # "parsing" /\ due = <<>> /\ executed = <<>>
      BY <1>2, <2>2, Zenon DEF DueWhere
    <3>2. ASSUME NEW n \in 1..Len(wire), Read(n) PROVE FALSE
      <4>1. Len(wire) = 0
        BY <3>1
      <4>2. QED
        BY <4>1
    <3>3. ~Ignore /\ ~Serve /\ ~ServeFails /\ ~ParseEnds
      BY <3>1, Zenon DEF Ignore, Serve, ServeFails, ParseEnds
    <3>4. ASSUME NEW r \in Requests PROVE ~Ask(r)
      BY <2>2, AskedIs, Zenon
    <3>5. ReadEnds \/ UNCHANGED vars
      BY <3>2, <3>3, <3>4, Zenon DEF Next
    <3>6. CASE ReadEnds
      <4>1. pc' = "closed" /\ UNCHANGED <<wire, buf, due, executed>>
        BY <3>6, Zenon DEF ReadEnds
      <4>2. pc' # "parsing"
        BY <4>1
      <4>3. QED
        BY <3>1, <4>1, <4>2, Zenon
    <3>7. CASE UNCHANGED vars
      BY <3>1, <3>7, Zenon DEF vars
    <3>8. QED
      BY <3>5, <3>6, <3>7
  <2>3. QED
    BY <1>2, <2>1, <2>2, Zenon DEF DueWhere
<1>3. UNCHANGED <<config, asked, due>> \/ \E r \in Requests : Ask(r)
  BY Zenon DEF Next, vars, Read, ReadEnds, Ignore, Serve, ServeFails, ParseEnds
<1>4. QED
  BY <1>1, <1>2, <1>3, Zenon

\* What was executed and what is due differ by the last request at most.
LEMMA DuePrefix ==
  ASSUME Types, NEW x, due = executed \/ due = Append(executed, x)
  PROVE  IsPrefix(executed, due)
<1>1. executed \in Seq(Call)
  BY DEF Types
<1>2. QED
  BY <1>1 DEF IsPrefix

\* A client that counts the unit id and waits for its answers: however the
\* network cuts the frames, try_parse_tcp_frame gives the handler each request
\* once, in order and with its transaction id, and nothing that was not sent;
\* when everything has been read none is left out.
THEOREM EachRequestOnce == Spec => []ExactlyOnceInOrder
<1>1. Init => FreshWhere /\ DueWhere
  <2>1. Init => asked = <<>> /\ wire = <<>> /\ buf = <<>> /\ pc # "parsing" /\ due = <<>>
                  /\ executed = <<>>
    BY DEF Init
  <2>2. QED
    BY <2>1, Zenon DEF FreshWhere, Fresh, DueWhere
<1>2. Types /\ FreshWhere /\ DueWhere => ExactlyOnceInOrder
  <2> SUFFICES ASSUME Types, FreshWhere, DueWhere, Single
               PROVE  IsPrefix(executed, due) /\ (AtRest => executed = due)
    BY Zenon DEF ExactlyOnceInOrder, Single
  <2>1. CASE asked = <<>>
    BY <2>1, DuePrefix, Zenon DEF DueWhere
  <2>2. CASE asked # <<>>
    <3> DEFINE b == Newest.before
               w == Wanted(Newest, Newest.tid, b)
    <3>1. Where(b, w) /\ due = w
      BY <2>2, SingleFresh, Zenon DEF FreshWhere, DueWhere
    <3>2. (executed = b \/ executed = w) /\ (AtRest => executed = w)
      BY <3>1, WhereExecuted, Zenon
    <3>3. w = b \/ w = Append(b, Entry(Newest, Newest.tid))
      BY Zenon DEF Wanted
    <3> HIDE DEF b, w
    <3>4. due = executed \/ due = Append(executed, Entry(Newest, Newest.tid))
      BY <3>1, <3>2, <3>3, Zenon
    <3>5. QED
      BY <3>1, <3>2, <3>4, DuePrefix, Zenon
  <2>3. QED
    BY <2>1, <2>2
<1>3. QED
  BY <1>1, <1>2, FreshNext, DueNext, TypesInit, TypesNext, PTL DEF Spec
====
