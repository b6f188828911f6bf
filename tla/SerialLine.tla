---- MODULE SerialLine ----
(***************************************************************************)
(* An RTU or ASCII client and server at the two ends of a serial line.  The *)
(* line carries bytes: a read returns any part of what was written, a pause *)
(* may fall anywhere, a write may stop half-way, and an answer may come     *)
(* after its call gave up.  The client is call and send_recv of RtuClient   *)
(* and AsciiClient with their reconnect loop, the server is serve_forever   *)
(* of RtuServer and AsciiServer with process_server_request.                *)
(***************************************************************************)
EXTENDS SerialFrame

CONSTANTS
  Requests,      \* the requests a program makes
  Unit,          \* the slave id it addresses
  Stray,         \* bytes that a disturbance puts on the line
  Sizes,         \* bound: the bytes that a read, or a write cut short, may move
  MaxCalls,      \* bound: calls made
  MaxRetries,    \* reconnect attempts of a call; 0 is no reconnect at all.
                 \* Below 3, the limit is reached before three failed rebuilds
  MaxFaults      \* bound: pauses inside a frame, writes cut short, stray bytes

ASSUME LineConstants ==
  /\ Unit \in 1..255 /\ Stray \subseteq Byte /\ Sizes \subseteq Nat \ {0}
  /\ MaxCalls \in Nat /\ MaxRetries \in 0..2 /\ MaxFaults \in Nat
  /\ \A r \in Requests : EncodeRequest(r) # {}

VARIABLES
  proto,     \* rtu or ascii
  wire,      \* bytes on their way to the server
  buf,       \* the server's buffer
  spc,       \* the server: reading, parsing or closed
  back,      \* bytes on their way to the client
  phase,     \* the client: idle, drain, drained, receive, retry
  rbuf,      \* the client's read_buf
  failures,  \* failed attempts of this call
  faults,    \* faults so far
  calls,     \* history: the requests called
  sent,      \* history: frames written [call, whole, rested, paused, glued]
  executed,  \* history: the requests the service was called with
  results    \* history: what the calls returned

server == <<buf, spc, executed>>
client == <<phase, rbuf, failures, calls, results>>
vars == <<proto, wire, back, faults, sent, server, client>>

Init ==
  /\ proto \in Protocols
  /\ wire = <<>> /\ buf = <<>> /\ spc = "reading" /\ back = <<>>
  /\ phase = "idle" /\ rbuf = <<>> /\ failures = 0 /\ faults = 0
  /\ calls = <<>> /\ sent = <<>> /\ executed = <<>> /\ results = <<>>

Taken(s, size) == IF size < Len(s) THEN size ELSE Len(s)
First(s, size) == SubSeq(s, 1, Taken(s, size))
Rest(s, size) == SubSeq(s, Taken(s, size) + 1, Len(s))

\* The server has been given everything and waits for the next frame.
AtRest == wire = <<>> /\ spc = "reading"
----------------------------------------------------------------------------
(* The client *)

req == Last(calls)

Return(r) ==
  /\ results' = Append(results, r) /\ phase' = "idle" /\ rbuf' = <<>> /\ failures' = 0

Error(kind) == [kind |-> kind, args |-> <<>>, values |-> <<>>]

\* Disconnect is refused by AsciiClient before it takes the lock.
Call(r) ==
  /\ phase = "idle" /\ Len(calls) < MaxCalls
  /\ calls' = Append(calls, r)
  /\ IF proto = "ascii" /\ r.fc = 0
     THEN Return(Error("other"))
     ELSE phase' = "drain" /\ UNCHANGED <<rbuf, failures, results>>
  /\ UNCHANGED <<proto, wire, back, faults, sent, server>>

\* Mutant: the attempts are not counted.
Fail_NotCounted(kind) ==
  IF kind = "connection" /\ failures < MaxRetries
  THEN phase' = "retry" /\ rbuf' = <<>> /\ UNCHANGED <<failures, results>>
  ELSE Return(Error(IF kind = "connection" /\ MaxRetries > 0 THEN "serial" ELSE kind))

\* run_with_reconnect: only a connection error is tried again, and becomes a
\* serial error when the attempts are used up.
Fail(kind) ==
  IF kind = "connection" /\ failures < MaxRetries
  THEN phase' = "retry" /\ rbuf' = <<>> /\ failures' = failures + 1 /\ UNCHANGED results
  ELSE Return(Error(IF kind = "connection" /\ MaxRetries > 0 THEN "serial" ELSE kind))

\* drain_stale_data reads what is there and waits for more.
DrainRead ==
  /\ phase = "drain" /\ back # <<>>
  /\ \E n \in Sizes : back' = Rest(back, n)
  /\ UNCHANGED <<proto, wire, faults, sent, server, client>>

\* The line is quiet for a moment: nothing arrives, though it may yet come.
DrainQuiet ==
  /\ phase = "drain" /\ phase' = "drained"
  /\ UNCHANGED <<proto, wire, back, faults, sent, server, rbuf, failures, calls, results>>

\* What an io::Error of the port becomes; an end of stream is a connection.
IoErrors == {"connection", "timeout", "other"}

\* Data keeps coming until the drain deadline, or the port is closed.
DrainFails ==
  /\ phase = "drain"
  /\ \/ back # <<>> /\ Fail("connection")
     \/ spc = "closed" /\ \E kind \in IoErrors : Fail(kind)
  /\ UNCHANGED <<proto, wire, back, faults, sent, server, calls>>

\* send_frame: RTU frames even an empty PDU.
FrameOf(r) == EncodeFrame(proto, <<Unit>> \o (CHOOSE pdu \in EncodeRequest(r) : TRUE))

\* The whole frame is written and the client starts to wait for the answer.
Send ==
  /\ phase = "drained" /\ phase' = "receive"
  /\ wire' = wire \o FrameOf(req)
  /\ sent' = Append(sent, [call |-> Len(calls), whole |-> TRUE,
                           rested |-> AtRest /\ buf = <<>>, paused |-> FALSE, glued |-> FALSE])
  /\ rbuf' = <<>>
  /\ UNCHANGED <<proto, back, faults, server, failures, calls, results>>

\* write_all times out or fails after part of the frame.
SendFails(kind) ==
  /\ phase = "drained" /\ faults < MaxFaults
  /\ \E n \in Sizes : n < Len(FrameOf(req)) /\ wire' = wire \o First(FrameOf(req), n)
  /\ sent' = Append(sent, [call |-> Len(calls), whole |-> FALSE,
                           rested |-> AtRest /\ buf = <<>>, paused |-> FALSE, glued |-> FALSE])
  /\ faults' = faults + 1
  /\ Fail(kind)
  /\ UNCHANGED <<proto, back, server, calls>>

\* What the call returns for the bytes it has: the answer of a frame for this
\* slave, or a protocol error.
Result(frames) ==
  LET rsps == UNION {AcceptFrame(f, Unit) : f \in frames}
  IN IF rsps = {} THEN Error("protocol") ELSE TypedResult(req, CHOOSE r \in rsps : TRUE)

\* RtuClient, with what read_at_least has left in the buffer.
RtuResult(b) ==
  IF Len(b) < MIN_RTU_FRAME THEN Error("timeout")
  ELSE Result(IF CrcMatches(b) THEN {RtuFrame(b)} ELSE {})

\* A read: RtuClient goes on until it has the length it expects, AsciiClient
\* until a line is a frame.
Receive ==
  /\ phase = "receive" /\ back # <<>>
  /\ \E n \in Sizes :
       LET b == rbuf \o First(back, n)
       IN /\ back' = Rest(back, n)
          /\ IF proto = "rtu" /\ Len(b) >= RtuTarget(req) THEN Return(RtuResult(b))
             ELSE IF proto = "ascii" /\ TryParseAscii(b) # {} THEN Return(Result(TryParseAscii(b)))
             ELSE rbuf' = b /\ UNCHANGED <<phase, failures, results>>
  /\ UNCHANGED <<proto, wire, faults, sent, server, calls>>

\* The deadline: RtuClient takes what it has for a shorter frame.
Deadline ==
  /\ phase = "receive"
  /\ Return(IF proto = "rtu" THEN RtuResult(rbuf) ELSE Error("timeout"))
  /\ UNCHANGED <<proto, wire, back, faults, sent, server, calls>>

\* The port is closed and everything has been read: the read returns nothing,
\* or fails.
EndOfStream ==
  /\ phase = "receive" /\ spc = "closed" /\ back = <<>>
  /\ \/ IF proto = "rtu" /\ rbuf # <<>> THEN Return(RtuResult(rbuf)) ELSE Fail("connection")
     \/ \E kind \in IoErrors : Fail(kind)
  /\ UNCHANGED <<proto, wire, back, faults, sent, server, calls>>

\* The factory opens the port again, and what was on its way may be lost; or
\* it fails, and the loop goes on with the port it has.
Rebuild ==
  /\ phase = "retry" /\ phase' = "drain"
  /\ rbuf' = <<>> /\ back' \in {back, <<>>}
  /\ UNCHANGED <<proto, wire, faults, sent, server, failures, calls, results>>
----------------------------------------------------------------------------
(* The server *)

Read ==
  /\ spc = "reading" /\ wire # <<>> /\ spc' = "parsing"
  /\ \E n \in Sizes : buf' = buf \o First(wire, n) /\ wire' = Rest(wire, n)
  /\ UNCHANGED <<proto, back, faults, sent, executed, client>>

\* Mutant: the silence starts another attempt to parse and discards nothing.
Silence_Reparses ==
  /\ spc = "reading" /\ buf # <<>> /\ wire = <<>>
  /\ spc' = "parsing"
  /\ UNCHANGED <<proto, wire, back, buf, faults, sent, executed, client>>

\* No byte for T3.5 (RTU) or the line timeout (ASCII): what is in the buffer is
\* discarded.  Inside a frame that is a pause of the sender.
Silence ==
  /\ spc = "reading" /\ buf # <<>> /\ (wire = <<>> \/ faults < MaxFaults)
  /\ buf' = IF proto = "rtu" /\ TryParseServerRtu(buf) # {} THEN buf ELSE <<>>
  /\ faults' = IF wire = <<>> THEN faults ELSE faults + 1
  /\ sent' = IF wire = <<>> THEN sent ELSE [i \in 1..Len(sent) |-> [sent[i] EXCEPT !.paused = TRUE]]
  /\ UNCHANGED <<proto, wire, back, spc, executed, client>>

\* A stray byte on the line to the server, at any time: the server may read it
\* together with what is still on its way.
Noise ==
  /\ faults < MaxFaults /\ faults' = faults + 1
  /\ \E byte \in Stray : wire' = Append(wire, byte)
  /\ sent' = IF wire = <<>> THEN sent ELSE [i \in 1..Len(sent) |-> [sent[i] EXCEPT !.glued = TRUE]]
  /\ UNCHANGED <<proto, back, server, client>>

Echo(q) ==
  [fc |-> q.fc, args |-> IF q.fc \in {15, 16} THEN Append(q.args, Len(q.values)) ELSE q.args,
   values |-> <<>>, ex |-> {}]

\* The service: a read returns the address that was asked for.
Honest(q) ==
  IF ReadsRegisters(q.fc)
  THEN [fc |-> q.fc, args |-> <<>>, values |-> [i \in 1..q.args[2] |-> q.args[1]], ex |-> {}]
  ELSE Echo(q)

Busy(q) == [fc |-> q.fc, args |-> <<>>, values |-> <<>>, ex |-> {ExceptionFrom(6)}]

Answers(f, q) ==
  {EncodeFrame(proto, <<f.slave_id>> \o pdu)
     : pdu \in EncodeResponse(Honest(q)) \cup EncodeResponse(Busy(q))}

\* Mutant: the frame is not taken out of the buffer.
Serve_Kept ==
  /\ spc = "parsing" /\ spc' = "reading"
  /\ \E f \in TryParseServer(proto, buf) : \E q \in Accepted(f) :
       /\ executed' = Append(executed, q)
       /\ \E a \in Answers(f, q) : back' = back \o a
  /\ UNCHANGED <<proto, wire, buf, faults, sent, client>>

\* Mutant: the answer is written twice.
Serve_Twice ==
  /\ spc = "parsing"
  /\ \E f \in TryParseServer(proto, buf) :
       /\ buf' = SubSeq(buf, f.consumed + 1, Len(buf))
       /\ \E q \in Accepted(f) :
            /\ executed' = Append(executed, q)
            /\ \E a \in Answers(f, q) : back' = back \o a \o a
  /\ UNCHANGED <<proto, wire, spc, faults, sent, client>>

\* A frame: the request it holds is executed and answered, or the server ends
\* because the service panics or the answer can not be written.
Serve ==
  /\ spc = "parsing"
  /\ \E f \in TryParseServer(proto, buf) :
       /\ buf' = SubSeq(buf, f.consumed + 1, Len(buf))
       /\ \E q \in Accepted(f) :
            /\ executed' = Append(executed, q)
            /\ \/ \E a \in Answers(f, q) : back' = back \o a /\ UNCHANGED spc
               \/ spc' = "closed" /\ UNCHANGED back
  /\ UNCHANGED <<proto, wire, faults, sent, client>>

\* A frame without a request.
Ignore ==
  /\ spc = "parsing"
  /\ \E f \in TryParseServer(proto, buf) :
       Accepted(f) = {} /\ buf' = SubSeq(buf, f.consumed + 1, Len(buf))
  /\ UNCHANGED <<proto, wire, back, spc, faults, sent, executed, client>>

\* Mutant: bytes that are not yet a frame are discarded at once.
ParseEnds_Clears ==
  /\ spc = "parsing" /\ TryParseServer(proto, buf) = {}
  /\ spc' = "reading" /\ buf' = <<>>
  /\ UNCHANGED <<proto, wire, back, faults, sent, executed, client>>

ParseEnds ==
  /\ spc = "parsing" /\ TryParseServer(proto, buf) = {}
  /\ spc' = "reading"
  /\ UNCHANGED <<proto, wire, back, buf, faults, sent, executed, client>>

\* The transport closes.
ServerEnds ==
  /\ spc = "reading" /\ spc' = "closed" /\ faults < MaxFaults /\ faults' = faults + 1
  /\ UNCHANGED <<proto, wire, back, buf, sent, executed, client>>

ServerStep == Read \/ Silence \/ Serve \/ Ignore \/ ParseEnds

ClientStep ==
  \/ DrainRead \/ DrainQuiet \/ DrainFails \/ Send \/ Receive \/ Deadline
  \/ EndOfStream \/ Rebuild

Next ==
  \/ \E r \in Requests : Call(r)
  \/ \E kind \in IoErrors : SendFails(kind)
  \/ Noise \/ ServerEnds \/ ClientStep \/ ServerStep

\* Timers fire, bytes arrive and both tasks are scheduled: weak fairness of
\* ClientStep and ServerStep, with what enables them and what they change
\* written out.
ClientReady == phase # "idle"
ClientMoves == phase' # phase \/ rbuf' # rbuf \/ Len(back') < Len(back)
ServerReady == spc = "parsing" \/ (spc = "reading" /\ (wire # <<>> \/ buf # <<>>))
ServerMoves == spc' # spc \/ buf' # buf

Fairness ==
  /\ []<>~ClientReady \/ []<><<ClientMoves>>_vars
  /\ []<>~ServerReady \/ []<><<ServerMoves>>_vars

Spec == Init /\ [][Next]_vars
FairSpec == Spec /\ Fairness
----------------------------------------------------------------------------
(* Properties *)

\* The requests of the frames written whole, in order.
Written == SelectSeq([i \in 1..Len(sent) |-> [w |-> sent[i].whole, r |-> calls[sent[i].call]]],
                     LAMBDA e : e.w)

\* Whatever is cut, glued together, delayed or tried again: the service is
\* called with requests that were written whole, in their order, each frame at
\* most once.
ExecutedAsWritten ==
  \E D \in SUBSET (1..Len(Written)) :
    executed = [i \in 1..Cardinality(D) |->
                  Written[CHOOSE k \in D : Cardinality({j \in D : j <= k}) = i].r]

\* A frame that was written whole to a server at rest, and not interrupted, is
\* executed by the time the server rests again, whatever happened before it and,
\* in ASCII, whatever byte follows it.  An RTU frame has to be followed by
\* silence: read with one more byte, its checksum does not match.
RestingFrameExecuted ==
  sent # <<>> /\ AtRest =>
    LET s == Last(sent) IN
      /\ s.whole /\ s.rested /\ ~s.paused /\ (s.glued => proto = "ascii")
      /\ \A pdu \in EncodeRequest(calls[s.call]) : IsRequest(pdu)
      => executed # <<>> /\ Last(executed) = calls[s.call]

\* A call that reports a write as done is right: that write, or for several
\* registers one to the same place, has been executed, even when the answer
\* belongs to an earlier call that gave up.
WritesReallyDone ==
  \A i \in 1..Len(results) :
    results[i].kind = "ok" /\ calls[i].fc \in {5, 6, 15, 16, 22} =>
      \E k \in 1..Len(executed) : Echo(executed[k]) = Echo(calls[i])

\* No frame of an earlier call is left without the answer it asked for.
Undisturbed(i) ==
  \A j \in 1..(i - 1) :
    /\ results[j].kind \in {"ok", "exception", "other"}
    /\ Cardinality({k \in 1..Len(sent) : sent[k].call = j}) <= 1

\* A call returns its own answer as long as every earlier call got the answer
\* to the only frame it wrote.
OwnAnswer ==
  \A i \in 1..Len(results) :
    results[i].kind = "ok" /\ Undisturbed(i) =>
      /\ results[i] = TypedResult(calls[i], Honest(calls[i]))
      /\ calls[i] \in ToSet(executed)

\* The server forgets what it can not parse, so that a broken frame spoils the
\* frames glued to it and not those that follow.
BufferForgotten == buf # <<>> ~> (buf = <<>> \/ spc = "closed")

\* Every call returns: the drain, the write, the answer and the retries all
\* come to an end.
CallReturns == phase # "idle" ~> phase = "idle"
====
