---- MODULE TcpFrame ----
(***************************************************************************)
(* MBAP framing of tcp.rs, byte by byte: the encoder of the client and the  *)
(* server's parser, which has to guess the sender's length convention.      *)
(* An Option is a set with at most one element.                             *)
(***************************************************************************)
EXTENDS Frame

CONSTANTS
  MAX_TCP_ADU_SIZE,     \* largest payload length accepted (260)
  MAX_TCP_BUF_BYTES     \* largest unparsed buffer kept (4 * 260)

MBAP_HEADER_SIZE == 7
MBAP_PREFIX_SIZE == 6

\* A length is a u16, and the largest frame fits into the buffer.
ASSUME FrameConstants ==
  /\ MAX_TCP_ADU_SIZE \in 1..U16_MAX /\ MAX_TCP_BUF_BYTES \in Nat
  /\ MBAP_HEADER_SIZE + MAX_TCP_ADU_SIZE <= MAX_TCP_BUF_BYTES

LengthModes == {"Standard", "PduOnly"}

\* encode_tcp_frame(data = [unit_id, pdu...])
EncodeTcpFrame(unit_id, pdu, config, tid) ==
  LET body == IF config.unit_id_in_body THEN <<unit_id>> \o pdu ELSE pdu
      len  == Len(body) + (IF config.length_mode = "Standard" THEN 1 ELSE 0)
  IN <<Hi(tid), Lo(tid), 0, 0, Hi(len), Lo(len), unit_id>> \o body

\* next_tid: a fixed value, or the counter, which wraps at 16 bits.
NextTid(mode, counter) == IF mode = "Auto" THEN counter ELSE 0

\* Mutant: the counter does not wrap.
Advance_NoWrap(mode, counter) == IF mode = "Auto" THEN counter + 1 ELSE counter

Advance(mode, counter) == IF mode = "Auto" THEN (counter + 1) % 65536 ELSE counter

PayloadLen(buf) == U16(buf[5], buf[6])
ProtoId(buf) == U16(buf[3], buf[4])

\* A whole header that can not be one: the signal to discard the buffer.
IsTcpHeaderCorrupt(buf) ==
  /\ Len(buf) >= MBAP_HEADER_SIZE
  /\ ProtoId(buf) # 0 \/ PayloadLen(buf) \notin 1..MAX_TCP_ADU_SIZE

\* Mutant: the unit id repeated in the body is never stripped.
TryExtractTcpPdu_NoBodyId(tid, unit_id, body, consumed) ==
  IF IsKnownFunctionCode(body[1])
  THEN {[tid |-> tid, slave_id |-> unit_id, pdu |-> body, consumed |-> consumed]}
  ELSE {}

\* The unit id repeated in the body is preferred when the rest is a request;
\* otherwise byte 0 has to be a function code, and when it equals the unit id
\* the whole has to be a request.
TryExtractTcpPdu(tid, unit_id, body, consumed) ==
  LET frame(pdu) == {[tid |-> tid, slave_id |-> unit_id, pdu |-> pdu,
                      consumed |-> consumed]}
  IN IF /\ Len(body) >= 2 /\ body[1] = unit_id
        /\ IsKnownFunctionCode(body[2]) /\ IsRequest(Tail(body))
     THEN frame(Tail(body))
     ELSE IF /\ IsKnownFunctionCode(body[1])
             /\ body[1] = unit_id => IsRequest(body)
          THEN frame(body)
          ELSE {}

\* The first of the two frame lengths that is longer than the header and
\* there: 7 + len, of a sender that does not count the unit id, before 6 + len.
TryParseTcpFrame(buf) ==
  IF Len(buf) < MBAP_HEADER_SIZE THEN {}
  ELSE IF ProtoId(buf) # 0 \/ PayloadLen(buf) > MAX_TCP_ADU_SIZE THEN {}
  ELSE LET there(fl) == fl > MBAP_HEADER_SIZE /\ Len(buf) >= fl
           parsed(fl) == TryExtractTcpPdu(U16(buf[1], buf[2]), buf[7],
                                          SubSeq(buf, MBAP_HEADER_SIZE + 1, fl), fl)
           whole == MBAP_HEADER_SIZE + PayloadLen(buf)
           short == MBAP_PREFIX_SIZE + PayloadLen(buf)
       IN IF there(whole) THEN parsed(whole) ELSE IF there(short) THEN parsed(short) ELSE {}
====
