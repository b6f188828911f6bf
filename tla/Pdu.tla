---- MODULE Pdu ----
(***************************************************************************)
(* Requests and responses as values and their conversion to and from PDU    *)
(* bytes (frame.rs), and what the typed methods of ModbusClient (client.rs) *)
(* make of a response.  A request is [fc, args, values]: its function code  *)
(* (0 is Disconnect), its u16 arguments (a coil is 0 or 1) and the values   *)
(* it writes.  A response is the same with ex, {} or the exception it       *)
(* carries.  An Option or Result is a set with at most one element.         *)
(***************************************************************************)
EXTENDS Frame, SequencesExt

MAX_PDU_SIZE == 253

\* The cast of a length, which keeps 16 bits.
AsU16(n) == n % 65536

PutU16s(vs) ==
  [k \in 1..(2 * Len(vs)) |->
     IF k % 2 = 1 THEN Hi(vs[(k + 1) \div 2]) ELSE Lo(vs[k \div 2])]

U16s(bytes) == [i \in 1..(Len(bytes) \div 2) |-> U16(bytes[2 * i - 1], bytes[2 * i])]

BitValue == <<1, 2, 4, 8, 16, 32, 64, 128>>

\* Coils, eight to a byte, the first in the least significant bit.
PackBits(bits) ==
  [k \in 1..((Len(bits) + 7) \div 8) |->
     LET bit(i) == IF 8 * (k - 1) + i <= Len(bits) THEN bits[8 * (k - 1) + i] * BitValue[i] ELSE 0
     IN bit(1) + bit(2) + bit(3) + bit(4) + bit(5) + bit(6) + bit(7) + bit(8)]

UnpackBits(bytes) ==
  [j \in 1..(8 * Len(bytes)) |-> (bytes[(j + 7) \div 8] \div BitValue[1 + ((j - 1) % 8)]) % 2]

CoilField(bit) == 65280 * bit
CoilBit(field) == IF field = 65280 THEN 1 ELSE 0

\* Mutant: neither limit is checked.
Checked_NoLimit(byte_count, pdu) == {pdu}

\* A byte count fits in a u8 and a PDU in MAX_PDU_SIZE, or there is an error.
Checked(byte_count, pdu) ==
  IF byte_count > 255 \/ Len(pdu) > MAX_PDU_SIZE THEN {} ELSE {pdu}
----------------------------------------------------------------------------
(* Requests *)

\* The u16 fields before the byte count: the number of values is one of them.
RequestFields(req) ==
  CASE req.fc = 5         -> <<req.args[1], CoilField(req.args[2])>>
    [] HasPayload(req.fc) -> Append(req.args, AsU16(Len(req.values)))
    [] OTHER              -> req.args

\* encode_request, with the limits of encode_request_into: Disconnect encodes
\* to nothing.
EncodeRequest(req) ==
  LET payload == IF req.fc = 15 THEN PackBits(req.values) ELSE PutU16s(req.values)
      counted == IF HasPayload(req.fc) THEN <<Len(payload)>> \o payload ELSE <<>>
  IN IF req.fc = 0 THEN {<<>>}
     ELSE Checked(Len(payload), <<req.fc>> \o PutU16s(RequestFields(req)) \o counted)

\* Request::try_from: the arguments and values of a PDU that IsRequest accepts.
TryRequest(pdu) ==
  LET fc       == pdu[1]
      fields   == U16s(SubSeq(pdu, 2, 1 + 2 * FieldCount(fc)))
      payload  == SubSeq(pdu, 3 + 2 * FieldCount(fc), RequestLen(pdu))
      request(args, values) == {[fc |-> fc, args |-> args, values |-> values]}
  IN IF ~IsRequest(pdu) THEN {}
     ELSE CASE fc = 5         -> request(<<fields[1], CoilBit(fields[2])>>, <<>>)
            [] fc = 15        -> request(<<fields[1]>>, SubSeq(UnpackBits(payload), 1, fields[2]))
            [] fc \in {16, 23} -> request(Front(fields), U16s(payload))
            [] OTHER          -> request(fields, <<>>)
----------------------------------------------------------------------------
(* Responses *)

\* Exception::from(u8): the codes without a name are Custom.
ExceptionFrom(code) ==
  [custom |-> code \notin (1..8) \cup {10, 11}, code |-> code]

ReadsBits(fc) == fc \in {1, 2}
ReadsRegisters(fc) == fc \in {3, 4, 23}

\* The values of a read, and the byte count before them.
ResponsePayload(rsp) ==
  IF ReadsBits(rsp.fc) THEN PackBits(rsp.values) ELSE PutU16s(rsp.values)

\* encode_response.
ResponseBytes(rsp) ==
  LET payload == ResponsePayload(rsp)
      fields  == IF rsp.fc = 5 THEN <<rsp.args[1], CoilField(rsp.args[2])>> ELSE rsp.args
  IN IF rsp.ex # {} THEN <<(rsp.fc % 128) + 128, (CHOOSE e \in rsp.ex : TRUE).code>>
     ELSE IF ReadsBits(rsp.fc) \/ ReadsRegisters(rsp.fc)
          THEN <<rsp.fc, Len(payload)>> \o payload
          ELSE <<rsp.fc>> \o PutU16s(fields)

\* encode_response_into, with validate_response_size.
EncodeResponse(rsp) == Checked(Len(ResponsePayload(rsp)), ResponseBytes(rsp))

\* decode_response, for a function code without bit 7.  Bits come back in whole
\* bytes; the quantity that was asked for is not consulted.
DecodeResponse(pdu) ==
  LET fc      == pdu[1]
      fields  == U16s(SubSeq(pdu, 2, IF fc = 22 THEN 7 ELSE 5))
      payload == SubSeq(pdu, 3, 2 + pdu[2])
      counted == Len(pdu) >= 2 /\ Len(pdu) >= 2 + pdu[2]
      response(args, values) ==
        {[fc |-> fc, args |-> args, values |-> values, ex |-> {}]}
      none    == {}
  IN CASE ReadsBits(fc) -> IF counted THEN response(<<>>, UnpackBits(payload)) ELSE none
       [] ReadsRegisters(fc) ->
            IF counted /\ pdu[2] % 2 = 0 THEN response(<<>>, U16s(payload)) ELSE none
       [] fc \in {5, 6, 8, 15, 16, 22} ->
            IF Len(pdu) < (IF fc = 22 THEN 7 ELSE 5) THEN none
            ELSE response(IF fc = 5 THEN <<fields[1], CoilBit(fields[2])>> ELSE fields, <<>>)
       [] OTHER -> none

\* Response::try_from: bit 7 of the function code marks an exception.
TryResponse(pdu) ==
  IF Len(pdu) < 2 THEN {}
  ELSE IF pdu[1] < 128 THEN DecodeResponse(pdu)
  ELSE {[fc |-> pdu[1] - 128, args |-> <<>>, values |-> <<>>, ex |-> {ExceptionFrom(pdu[2])}]}
----------------------------------------------------------------------------
(* The values that the types Request and Response hold *)

Bit == {0, 1}
Byte == 0..255
Word == 0..U16_MAX
Codes == (1..6) \cup {8, 15, 16, 22, 23}

Disconnect == [fc |-> 0, args |-> <<>>, values |-> <<>>]

\* A variant of Request other than Disconnect.
RequestValues ==
  {q \in [fc : Codes, args : Seq(Word), values : Seq(Word)] :
     /\ Len(q.args) = IF HasPayload(q.fc) THEN FieldCount(q.fc) - 1 ELSE FieldCount(q.fc)
     /\ ~HasPayload(q.fc) => q.values = <<>>
     /\ q.fc = 5 => q.args[2] \in Bit
     /\ q.fc = 15 => q.values \in Seq(Bit)}

\* A variant of Response: an exception with its function code, or not.
ResponseValues ==
  {rsp \in [fc : Byte, args : Seq(Word), values : Seq(Word),
            ex : SUBSET [custom : BOOLEAN, code : Byte]] :
     \/ /\ rsp.args = <<>> /\ rsp.values = <<>>
        /\ \E e \in [custom : BOOLEAN, code : Byte] : rsp.ex = {e}
     \/ /\ rsp.ex = {} /\ rsp.fc \in Codes
        /\ IF ReadsBits(rsp.fc) \/ ReadsRegisters(rsp.fc) THEN rsp.args = <<>>
           ELSE rsp.values = <<>> /\ Len(rsp.args) = IF rsp.fc = 22 THEN 3 ELSE 2
        /\ rsp.fc = 5 => rsp.args[2] \in Bit
        /\ ReadsBits(rsp.fc) => rsp.values \in Seq(Bit)}
----------------------------------------------------------------------------
(* The typed methods: the variant asked for, with the echo of a write. *)

\* Mutant: a write does not compare the echo.
Confirms_AnyEcho(req, rsp) == rsp.ex = {} /\ rsp.fc = req.fc

\* read_* and diagnostic take any response of their variant; a write takes
\* the one that repeats its address and value or number of values.
Confirms(req, rsp) ==
  /\ rsp.ex = {} /\ rsp.fc = req.fc
  /\ CASE req.fc \in {5, 6, 22} -> rsp.args = req.args
       [] req.fc \in {15, 16}   -> rsp.args = Append(req.args, Len(req.values))
       [] OTHER                 -> TRUE

\* An exception keeps its code, another variant or echo is a protocol error.
UnexpectedResponse(rsp) ==
  IF rsp.ex # {}
  THEN [kind |-> "exception", args |-> <<rsp.fc, (CHOOSE e \in rsp.ex : TRUE).code>>,
        values |-> <<>>]
  ELSE [kind |-> "protocol", args |-> <<>>, values |-> <<>>]

\* Ok(()), Ok(values) or unexpected_response.
TypedResult(req, rsp) ==
  IF Confirms(req, rsp)
  THEN [kind |-> "ok", args |-> IF req.fc = 8 THEN rsp.args ELSE <<>>, values |-> rsp.values]
  ELSE UnexpectedResponse(rsp)
----------------------------------------------------------------------------
(* What the codec is held against *)

\* A range of addresses that the protocol allows.
LegalRange(addr, qty, max) == 1 <= qty /\ qty <= max /\ addr + qty - 1 <= U16_MAX

\* The ranges of the protocol, and what fits in 253 bytes.
Legal(q) ==
  CASE q.fc \in {1, 2} -> LegalRange(q.args[1], q.args[2], 2000)
    [] q.fc \in {3, 4} -> LegalRange(q.args[1], q.args[2], 125)
    [] q.fc = 15       -> LegalRange(q.args[1], Len(q.values), 1976)
    [] q.fc = 16       -> LegalRange(q.args[1], Len(q.values), 123)
    [] q.fc = 23       -> /\ LegalRange(q.args[1], q.args[2], 125)
                          /\ LegalRange(q.args[3], Len(q.values), 121)
    [] OTHER           -> q.fc # 0

\* A response as it looks after the line: coils fill whole bytes with zeros,
\* and bit 7 of the function code only marks an exception.
Padded(rsp) ==
  IF ~ReadsBits(rsp.fc) THEN [rsp EXCEPT !.fc = @ % 128]
  ELSE [rsp EXCEPT !.values =
          [i \in 1..(8 * ((Len(@) + 7) \div 8)) |-> IF i <= Len(@) THEN @[i] ELSE 0]]
====
