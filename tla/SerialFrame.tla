---- MODULE SerialFrame ----
(***************************************************************************)
(* RTU and ASCII frames (codec.rs) and the parsers of the two servers and   *)
(* clients (rtu.rs, ascii.rs), on bytes and with the real checksums.        *)
(* An Option is a set with at most one element.                             *)
(***************************************************************************)
EXTENDS Pdu

CRC_SIZE == 2
MIN_RTU_FRAME == 5
----------------------------------------------------------------------------
(* RTU *)

\* Bitwise exclusive or of bytes and of words.
XorByte(x, y) ==
  LET bit(m) == m * ((x \div m + y \div m) % 2)
  IN bit(1) + bit(2) + bit(4) + bit(8) + bit(16) + bit(32) + bit(64) + bit(128)

Xor(x, y) == 256 * XorByte(Hi(x), Hi(y)) + XorByte(Lo(x), Lo(y))

\* One bit of the reflected polynomial 0xA001.
CrcBit(crc) == IF crc % 2 = 1 THEN Xor(crc \div 2, 40961) ELSE crc \div 2

\* Every index after eight bits.
CRC_TABLE ==
  [i \in 0..255 |-> CrcBit(CrcBit(CrcBit(CrcBit(CrcBit(CrcBit(CrcBit(CrcBit(i))))))))]

\* One byte taken into the checksum.
CrcByte(crc, byte) == Xor(crc \div 256, CRC_TABLE[XorByte(crc % 256, byte)])

CRC_START == 65535

\* take[i][j] is what the bytes i..j make of a checksum, one half of them after
\* the other.
CalculateCrc(data) ==
  LET take[i \in 1..(Len(data) + 1)] ==
        [j \in 0..Len(data) |-> [crc \in 0..U16_MAX |->
           IF i > j THEN crc
           ELSE IF i = j THEN CrcByte(crc, data[i])
           ELSE take[(i + j) \div 2 + 1][j][take[i][(i + j) \div 2][crc]]]]
  IN take[1][Len(data)][CRC_START]

\* encode_rtu_frame(data = [slave_id, pdu...]): the checksum low byte first.
EncodeRtuFrame(data) ==
  LET crc == CalculateCrc(data) IN data \o <<Lo(crc), Hi(crc)>>

\* Mutant: the checksum is not compared.
CrcMatches_Never(buf) == Len(buf) >= MIN_RTU_FRAME

\* Long enough, and the last two bytes are the checksum of the others.
CrcMatches(buf) ==
  LET n == Len(buf)
  IN n >= MIN_RTU_FRAME /\ U16(buf[n], buf[n - 1]) = CalculateCrc(SubSeq(buf, 1, n - 2))

\* The slave id, PDU and length of a frame that fills the buffer.
RtuFrame(buf) ==
  [slave_id |-> buf[1], pdu |-> SubSeq(buf, 2, Len(buf) - CRC_SIZE), consumed |-> Len(buf)]

\* try_parse_server_rtu: the whole buffer is one frame, or there is none.
TryParseServerRtu(buf) ==
  IF CrcMatches(buf) /\ IsKnownFunctionCode(buf[2]) THEN {RtuFrame(buf)} ELSE {}

\* Mutant: the byte that counts the data is left out.
ExpectedRtuPduLen_NoCount(req) ==
  CASE ReadsBits(req.fc)      -> {1 + (req.args[2] + 7) \div 8}
    [] ReadsRegisters(req.fc) -> {1 + req.args[2] * 2}
    [] req.fc = 22            -> {7}
    [] req.fc = 0             -> {}
    [] OTHER                  -> {5}

\* The length of the normal response to a request.
ExpectedRtuPduLen(req) ==
  CASE ReadsBits(req.fc)      -> {2 + (req.args[2] + 7) \div 8}
    [] ReadsRegisters(req.fc) -> {2 + req.args[2] * 2}
    [] req.fc = 22            -> {7}
    [] req.fc = 0             -> {}
    [] OTHER                  -> {5}

\* The bytes read_at_least waits for.
RtuTarget(req) ==
  IF ExpectedRtuPduLen(req) = {} THEN MIN_RTU_FRAME
  ELSE 1 + CRC_SIZE + (CHOOSE p \in ExpectedRtuPduLen(req) : TRUE)
----------------------------------------------------------------------------
(* ASCII *)

COLON == 58
CR == 13
LF == 10

\* The two's complement of the sum; sum[i][j] is that of the bytes i..j.
CalculateLrc(data) ==
  LET sum[i \in 1..(Len(data) + 1)] ==
        [j \in 0..Len(data) |->
           IF i > j THEN 0
           ELSE IF i = j THEN data[i]
           ELSE (sum[i][(i + j) \div 2] + sum[(i + j) \div 2 + 1][j]) % 256]
  IN (256 - sum[1][Len(data)]) % 256

HexDigit(n) == IF n < 10 THEN 48 + n ELSE 55 + n

HexEncode(data) ==
  [k \in 1..(2 * Len(data)) |->
     LET byte == data[(k + 1) \div 2]
     IN HexDigit(IF k % 2 = 1 THEN byte \div 16 ELSE byte % 16)]

EncodeAsciiFrame(data) ==
  <<COLON>> \o HexEncode(Append(data, CalculateLrc(data))) \o <<CR, LF>>

\* The value of a hex digit of either case, 16 for any other character.
Nibble(c) ==
  CASE c \in 48..57  -> c - 48
    [] c \in 65..70  -> c - 55
    [] c \in 97..102 -> c - 87
    [] OTHER         -> 16

\* The slave id and PDU of a line, when it starts with a colon, is an even
\* number of hex digits, and its last byte is the sum of at least two others.
LineBytes(line) ==
  LET hex   == Tail(line)
      bytes == [i \in 1..(Len(hex) \div 2) |-> 16 * Nibble(hex[2 * i - 1]) + Nibble(hex[2 * i])]
  IN IF /\ line # <<>> /\ line[1] = COLON /\ Len(hex) % 2 = 0 /\ Len(hex) >= 6
        /\ \A i \in 1..Len(hex) : Nibble(hex[i]) < 16
        /\ Last(bytes) = CalculateLrc(Front(bytes))
     THEN {Front(bytes)} ELSE {}

\* try_parse_ascii: the first line that is a frame; the garbage lines before
\* it are consumed with it.
TryParseAscii(buf) ==
  LET ends     == {i \in 1..(Len(buf) - 1) : buf[i] = CR /\ buf[i + 1] = LF}
      start(e) == Max({1} \cup {i + 2 : i \in {j \in ends : j < e}})
      line(e)  == SubSeq(buf, start(e), e - 1)
      frames   == {e \in ends : LineBytes(line(e)) # {}}
  IN IF frames = {} THEN {}
     ELSE {[slave_id |-> data[1], pdu |-> Tail(data), consumed |-> Min(frames) + 1]
             : data \in LineBytes(line(Min(frames)))}
----------------------------------------------------------------------------
(* The two protocols side by side *)

Protocols == {"rtu", "ascii"}

EncodeFrame(proto, data) ==
  IF proto = "rtu" THEN EncodeRtuFrame(data) ELSE EncodeAsciiFrame(data)

TryParseServer(proto, buf) ==
  IF proto = "rtu" THEN TryParseServerRtu(buf) ELSE TryParseAscii(buf)

\* process_server_request finds a request in the frame: not a broadcast.
Accepted(f) == IF f.slave_id = 0 \/ f.pdu = <<>> THEN {} ELSE TryRequest(f.pdu)

\* What a client makes of the frame it received: the slave id is compared
\* before the PDU is decoded.  Any failure is a protocol error.
AcceptFrame(f, slave_id) ==
  IF f.slave_id # slave_id THEN {} ELSE TryResponse(f.pdu)
====
