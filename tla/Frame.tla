---- MODULE Frame ----
(***************************************************************************)
(* Request PDUs as bytes (frame.rs): which byte sequences decode_request    *)
(* accepts, and how many of their bytes it reads.  A request is identified  *)
(* with the bytes it was decoded from; what follows them is ignored.        *)
(***************************************************************************)
EXTENDS Integers, Sequences

U16_MAX == 65535

U16(hi, lo) == hi * 256 + lo

Hi(v) == (v \div 256) % 256
Lo(v) == v % 256

MAX_COILS == 2000
MAX_REGISTERS == 125

\* A standard function code, or its exception variant (bit 7 set).
IsKnownFunctionCode(b) == (b % 128) \in (1..6) \cup {8, 15, 16, 22, 23}

\* The u16 fields read before the byte count or the end.
FieldCount(fc) == CASE fc = 22 -> 3 [] fc = 23 -> 4 [] OTHER -> 2

HasPayload(fc) == fc \in {15, 16, 23}

\* The bytes decode_request takes: function code, fields, counted payload.
RequestLen(pdu) ==
  LET fixed == 1 + 2 * FieldCount(pdu[1])
  IN IF HasPayload(pdu[1]) /\ Len(pdu) > fixed
     THEN fixed + 1 + pdu[fixed + 1]
     ELSE fixed + (IF HasPayload(pdu[1]) THEN 1 ELSE 0)

\* addr and qty name a non-empty range within the 65536 addresses.
RangeOk(addr, qty, max) == qty \in 1..max /\ addr + qty <= 65536

\* The values of the fields are ones the function code allows.
FieldsOk(pdu) ==
  LET fc == pdu[1]
      field(k) == U16(pdu[2 * k], pdu[2 * k + 1])
      byte_count == pdu[2 + 2 * FieldCount(fc)]
  IN CASE fc \in {1, 2}   -> RangeOk(field(1), field(2), MAX_COILS)
       [] fc \in {3, 4}   -> RangeOk(field(1), field(2), MAX_REGISTERS)
       [] fc = 5          -> field(2) \in {0, 65280}
       [] fc \in {6, 8, 22} -> TRUE
       [] fc = 15 -> /\ RangeOk(field(1), field(2), MAX_COILS)
                     /\ byte_count = (field(2) + 7) \div 8
       [] fc = 16 -> /\ RangeOk(field(1), field(2), MAX_REGISTERS)
                     /\ byte_count = 2 * field(2)
       [] fc = 23 -> /\ RangeOk(field(1), field(2), MAX_REGISTERS)
                     /\ RangeOk(field(3), field(4), MAX_REGISTERS)
                     /\ byte_count = 2 * field(4)

\* Request::try_from(pdu).is_ok()
IsRequest(pdu) ==
  /\ Len(pdu) > 0
  /\ pdu[1] \in (1..6) \cup {8, 15, 16, 22, 23}
  /\ Len(pdu) >= RequestLen(pdu)
  /\ FieldsOk(pdu)

\* The request that a PDU accepted by IsRequest decodes to.
DecodeRequest(pdu) == SubSeq(pdu, 1, RequestLen(pdu))
====
