---- MODULE Exchange ----
(***************************************************************************)
(* One exchange on a serial line, from the typed method a program calls to  *)
(* the value it returns: the request is encoded and framed, crosses a line  *)
(* that may change one byte of it, is parsed and decoded, passes the hook   *)
(* and the service behind it, and the response comes back the same way.     *)
(* Frames are delivered whole here; SerialLine is about frames that are not.*)
(***************************************************************************)
EXTENDS SerialFrame

CONSTANTS
  Requests,    \* the requests a program makes
  Units,       \* the slave ids it addresses
  Errors,      \* the exceptions the service returns
  Foreign,     \* responses a hook makes up
  DamageAt,    \* bound: positions where the line changes a byte
  Masks        \* bound: the bits that change

ASSUME ExchangeConstants ==
  /\ Units \subseteq Byte /\ Masks \subseteq Byte \ {0}
  /\ Requests \subseteq RequestValues \cup {Disconnect}
  /\ Foreign \subseteq ResponseValues
  /\ Errors \subseteq [custom : BOOLEAN, code : Byte]

VARIABLES
  proto,     \* rtu or ascii
  unit, req, \* the call
  pc,        \* where the exchange stands
  line,      \* the frame on the line
  damaged,   \* a byte has been changed
  served,    \* history: what the service was called with
  reply,     \* Option: what the service or the hook answers
  result     \* what the call returns

vars == <<proto, unit, req, pc, line, damaged, served, reply, result>>

None == [kind |-> "none", args |-> <<>>, values |-> <<>>, waited |-> FALSE]
Failure(kind, waited) == [None EXCEPT !.kind = kind, !.waited = waited]

Init ==
  /\ proto \in Protocols /\ unit \in Units /\ req \in Requests
  /\ pc = "calling" /\ line = <<>> /\ damaged = FALSE
  /\ served = <<>> /\ reply = {} /\ result = None

\* The call fails before anything is written: Disconnect in AsciiClient, a
\* request that does not encode in both.
Refuse ==
  /\ pc = "calling" /\ pc' = "done"
  /\ \/ proto = "ascii" /\ req.fc = 0 /\ result' = Failure("other", FALSE)
     \/ EncodeRequest(req) = {} /\ result' = Failure("protocol", FALSE)
  /\ UNCHANGED <<proto, unit, req, line, damaged, served, reply>>

\* send_frame: slave id and PDU, framed.
Send ==
  /\ pc = "calling" /\ pc' = "request"
  /\ ~(proto = "ascii" /\ req.fc = 0)
  /\ \E pdu \in EncodeRequest(req) : line' = EncodeFrame(proto, <<unit>> \o pdu)
  /\ UNCHANGED <<proto, unit, req, damaged, served, reply, result>>

\* The line changes some bits of one byte of a frame.
Damage(i, mask) ==
  /\ pc \in {"request", "response"} /\ ~damaged /\ i \in 1..Len(line)
  /\ line' = [line EXCEPT ![i] = XorByte(@, mask)]
  /\ damaged' = TRUE
  /\ UNCHANGED <<proto, unit, req, pc, served, reply, result>>

\* No frame, a broadcast or no request: nothing is called, nothing answered.
Discard ==
  /\ pc = "request" /\ pc' = "silence"
  /\ \A f \in TryParseServer(proto, line) : Accepted(f) = {}
  /\ line' = <<>>
  /\ UNCHANGED <<proto, unit, req, damaged, served, reply, result>>

\* The service behind the hook: what it holds at an address, and its answer.
BitAt(addr) == (addr + addr \div 3) % 2
RegisterAt(addr) == (addr * 259 + 7) % 65536

Honest(q) ==
  LET addr(i) == (q.args[1] + i - 1) % 65536
      response(args, values) == [fc |-> q.fc, args |-> args, values |-> values, ex |-> {}]
  IN CASE ReadsBits(q.fc)      -> response(<<>>, [i \in 1..q.args[2] |-> BitAt(addr(i))])
       [] ReadsRegisters(q.fc) -> response(<<>>, [i \in 1..q.args[2] |-> RegisterAt(addr(i))])
       [] q.fc \in {15, 16}    -> response(Append(q.args, Len(q.values)), <<>>)
       [] OTHER                -> response(q.args, <<>>)

\* HookedService: before_call answers and the service is not called.  What is
\* left of the frame is the slave id at the head of rsp_buf.
BeforeCallAnswers ==
  /\ pc = "request" /\ pc' = "answered"
  /\ \E f \in TryParseServer(proto, line) : Accepted(f) # {} /\ line' = <<f.slave_id>>
  /\ reply' \in {{rsp} : rsp \in Foreign}
  /\ UNCHANGED <<proto, unit, req, damaged, served, result>>

\* Err(ex) becomes an exception response with the function code of the request.
ExceptionResponse(q, e) == [fc |-> q.fc, args |-> <<>>, values |-> <<>>, ex |-> {e}]

\* before_call passes and the service is called: it answers or fails.
Inner ==
  /\ pc = "request" /\ pc' = "called"
  /\ \E f \in TryParseServer(proto, line) : \E q \in Accepted(f) :
       /\ served' = Append(served, [unit |-> f.slave_id, req |-> q])
       /\ reply' \in {{Honest(q)}} \cup {{ExceptionResponse(q, e)} : e \in Errors}
       /\ line' = <<f.slave_id>>
  /\ UNCHANGED <<proto, unit, req, damaged, result>>

\* after_call returns what it was given or something else.
AfterCall ==
  /\ pc = "called" /\ pc' = "answered"
  /\ reply' \in {reply} \cup {{rsp} : rsp \in Foreign}
  /\ UNCHANGED <<proto, unit, req, line, damaged, served, result>>

\* The response is framed with the slave id of the request; one that does not
\* encode is dropped.
Respond ==
  /\ pc = "answered"
  /\ LET pdus == UNION {EncodeResponse(rsp) : rsp \in reply}
     IN \/ pdus = {} /\ pc' = "silence" /\ line' = <<>>
        \/ pc' = "response" /\ \E pdu \in pdus : line' = EncodeFrame(proto, line \o pdu)
  /\ UNCHANGED <<proto, unit, req, damaged, served, reply, result>>

\* Nothing arrives until the deadline.
TimeOut ==
  /\ pc = "silence" /\ pc' = "done"
  /\ result' = Failure("timeout", TRUE)
  /\ UNCHANGED <<proto, unit, req, line, damaged, served, reply>>

\* The result of a frame that was found, or of bytes that are none.
Outcome(frames, waited) ==
  LET rsps == UNION {AcceptFrame(f, unit) : f \in frames}
  IN IF rsps = {} THEN Failure("protocol", waited)
     ELSE LET t == TypedResult(req, CHOOSE r \in rsps : TRUE)
          IN [kind |-> t.kind, args |-> t.args, values |-> t.values, waited |-> waited]

\* RtuClient takes as many bytes as it expects or more, or all there are when
\* the deadline comes first.
ReceiveRtu ==
  /\ proto = "rtu" /\ pc = "response" /\ pc' = "done"
  /\ \E n \in 1..Len(line) :
       /\ n >= RtuTarget(req) \/ n = Len(line)
       /\ LET buf    == SubSeq(line, 1, n)
              waited == n < RtuTarget(req)
          IN result' = IF n < MIN_RTU_FRAME THEN Failure("timeout", waited)
                       ELSE Outcome(IF CrcMatches(buf) THEN {RtuFrame(buf)} ELSE {}, waited)
  /\ UNCHANGED <<proto, unit, req, line, damaged, served, reply>>

\* AsciiClient reads until a line is a frame, or the deadline.
ReceiveAscii ==
  /\ proto = "ascii" /\ pc = "response" /\ pc' = "done"
  /\ result' = IF TryParseAscii(line) = {} THEN Failure("timeout", TRUE)
               ELSE Outcome(TryParseAscii(line), FALSE)
  /\ UNCHANGED <<proto, unit, req, line, damaged, served, reply>>

Next ==
  \/ Refuse \/ Send \/ Discard \/ BeforeCallAnswers \/ Inner \/ AfterCall
  \/ Respond \/ TimeOut \/ ReceiveRtu \/ ReceiveAscii
  \/ \E i \in DamageAt, mask \in Masks : Damage(i, mask)

Spec == Init /\ [][Next]_vars
----------------------------------------------------------------------------
(* Properties *)

TypeOK ==
  /\ proto \in Protocols /\ unit \in Units
  /\ pc \in {"calling", "request", "silence", "called", "answered", "response", "done"}
  /\ line \in Seq(Byte) /\ damaged \in BOOLEAN
  /\ result.kind \in {"none", "ok", "exception", "protocol", "timeout", "other"}

\* The service is called at most once per call, with exactly the request and
\* the slave id of the caller, never with one outside the protocol's limits
\* and never with a damaged one: encoding, framing, checksum, parsing and
\* decoding together change nothing.
RequestIntact ==
  served # <<>> => Legal(req) /\ unit # 0 /\ served = <<[unit |-> unit, req |-> req]>>

\* What a call returns as a value or an exception is what the server answered:
\* damage on the way back, a response of another kind or size, or one cut off
\* by the client's length is an error and never another value; and a write is
\* not reported as done on the answer to a different one.
AnswerIntact ==
  result.kind \in {"ok", "exception"} =>
    \E rsp \in reply :
      /\ TypedResult(req, Padded(rsp)) =
           [kind |-> result.kind, args |-> result.args, values |-> result.values]
      /\ result.kind = "ok" /\ rsp.args # <<>> /\ req.fc # 8 => rsp = Honest(req)

\* On an undamaged line every legal request to a slave is executed and what
\* the service returns reaches the caller: without waiting for the deadline,
\* unless an exception is shorter than what RtuClient expects.
Delivered ==
  pc = "done" /\ ~damaged /\ Legal(req) /\ unit # 0 =>
    \/ \E rsp \in reply : rsp # Honest(req) /\ rsp.ex = {}
    \/ /\ served # <<>> \/ reply \subseteq Foreign
       /\ IF reply = {Honest(req)} THEN result.kind = "ok" /\ ~result.waited
          ELSE /\ result.kind = "exception"
               /\ result.waited <=> (proto = "rtu" /\ RtuTarget(req) > MIN_RTU_FRAME)
====
