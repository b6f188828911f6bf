---- MODULE TcpServer ----
(***************************************************************************)
(* One accepted connection of TcpServer: a client's byte stream, cut up by  *)
(* the network, the read and parse loop of handle_tcp_connection, and       *)
(* process_server_request, which decodes a frame, calls the service and     *)
(* writes the response.  The client may send a request at any time: after   *)
(* the last answer, after it gave up waiting for it, or without waiting.    *)
(***************************************************************************)
EXTENDS TcpFrame, SequencesExt

CONSTANTS
  Requests,       \* requests the client may send: [unit, pdu]
  Configs,        \* framings of the client: [tid, unit_id_in_body, length_mode]
  FirstTid,       \* the client's tid counter when it connects
  ReadSize,       \* size of the read buffer (MAX_ADU_SIZE, 256)
  MaxRequests     \* bound: requests sent on the connection

\* The client's encoder writes the bytes of a request and nothing after them,
\* and no PDU that does not fit into a frame.
ASSUME ServerConstants ==
  /\ FirstTid \in 0..U16_MAX
  /\ ReadSize \in Nat \ {0} /\ MaxRequests \in Nat
  /\ Configs \subseteq [tid : {"Auto", "Fixed"}, unit_id_in_body : BOOLEAN, length_mode : LengthModes]
  /\ \A r \in Requests :
       /\ r.unit \in 0..255 /\ r.pdu \in Seq(0..255) \ {<<>>}
       /\ Len(r.pdu) + 2 <= MAX_TCP_ADU_SIZE
       /\ IsRequest(r.pdu) => RequestLen(r.pdu) = Len(r.pdu)

VARIABLES
  config,     \* the client's framing
  counter,    \* the client's tid counter
  wire,       \* bytes on their way to the server
  buf,        \* the handler's buffer
  pc,         \* reading, parsing or closed: where the handler stands
  asked,      \* history: what the client sent, how it found the server, and
              \* what had been executed before
  due,        \* history: what the service is to be called with for it
  executed,   \* history: what the service was called with
  replies     \* history: the responses written

vars == <<config, counter, wire, buf, pc, asked, due, executed, replies>>

Init ==
  /\ config \in Configs
  /\ counter = FirstTid
  /\ wire = <<>> /\ buf = <<>> /\ pc = "reading"
  /\ asked = <<>> /\ due = <<>> /\ executed = <<>> /\ replies = <<>>

\* The handler waits and has been given everything that was sent.
AtRest == pc = "reading" /\ wire = <<>>

\* The service is to be called for a request that is valid and no broadcast.
Acts(r) == r.unit # 0 /\ IsRequest(r.pdu)

\* The client writes a request.
Ask(r) ==
  /\ Len(asked) < MaxRequests /\ pc # "closed"
  /\ wire' = wire \o EncodeTcpFrame(r.unit, r.pdu, config, NextTid(config.tid, counter))
  /\ counter' = Advance(config.tid, counter)
  /\ asked' = Append(asked, [unit |-> r.unit, pdu |-> r.pdu,
                             tid |-> NextTid(config.tid, counter),
                             rested |-> AtRest, empty |-> buf = <<>>,
                             before |-> executed])
  /\ due' = IF Acts(r)
            THEN Append(due, [tid |-> NextTid(config.tid, counter), unit |-> r.unit, pdu |-> r.pdu])
            ELSE due
  /\ UNCHANGED <<config, buf, pc, executed, replies>>

\* A read returns the first n bytes.
Read(n) ==
  /\ pc = "reading" /\ n \in 1..Len(wire) /\ n <= ReadSize
  /\ buf' = buf \o SubSeq(wire, 1, n)
  /\ wire' = SubSeq(wire, n + 1, Len(wire))
  /\ pc' = "parsing"
  /\ UNCHANGED <<config, counter, asked, due, executed, replies>>

\* read returns 0 or an error: the handler ends.
ReadEnds ==
  /\ pc = "reading" /\ pc' = "closed"
  /\ UNCHANGED <<config, counter, wire, buf, asked, due, executed, replies>>

\* process_server_request calls the service for this frame.
Calls(f) == f.slave_id # 0 /\ f.pdu # <<>> /\ IsRequest(f.pdu)

Called(f) == [tid |-> f.tid, unit |-> f.slave_id, pdu |-> DecodeRequest(f.pdu)]

\* A broadcast, or a PDU that is not a request: nothing is called or written.
Ignore ==
  /\ pc = "parsing"
  /\ \E f \in TryParseTcpFrame(buf) :
       ~Calls(f) /\ buf' = SubSeq(buf, f.consumed + 1, Len(buf))
  /\ UNCHANGED <<config, counter, wire, pc, asked, due, executed, replies>>

\* Mutant: the frame stays in the buffer when its response has been written.
Serve_NotSplit ==
  /\ pc = "parsing"
  /\ \E f \in TryParseTcpFrame(buf) :
       /\ Calls(f)
       /\ executed' = Append(executed, Called(f))
       /\ replies' = Append(replies, Called(f))
  /\ UNCHANGED <<config, counter, wire, buf, pc, asked, due>>

\* The service returns a response or an exception and it is written; a
\* response that does not encode is dropped.
Serve ==
  /\ pc = "parsing"
  /\ \E f \in TryParseTcpFrame(buf) :
       /\ Calls(f)
       /\ executed' = Append(executed, Called(f))
       /\ replies' \in {replies, Append(replies, Called(f))}
       /\ buf' = SubSeq(buf, f.consumed + 1, Len(buf))
  /\ UNCHANGED <<config, counter, wire, pc, asked, due>>

\* The service was called and panics (catch_unwind ends this task only), or
\* the response can not be written.
ServeFails ==
  /\ pc = "parsing" /\ pc' = "closed"
  /\ \E f \in TryParseTcpFrame(buf) :
       Calls(f) /\ executed' = Append(executed, Called(f))
  /\ UNCHANGED <<config, counter, wire, buf, asked, due, replies>>

\* Mutant: whatever does not parse is discarded, the beginning of a frame too.
ParseEnds_DiscardsPart ==
  /\ pc = "parsing" /\ TryParseTcpFrame(buf) = {}
  /\ pc' = "reading" /\ buf' = <<>>
  /\ UNCHANGED <<config, counter, wire, asked, due, executed, replies>>

\* No frame to parse: an impossible header or too much data is discarded, and
\* the handler reads again.
ParseEnds ==
  /\ pc = "parsing" /\ TryParseTcpFrame(buf) = {}
  /\ pc' = "reading"
  /\ buf' = IF IsTcpHeaderCorrupt(buf) \/ Len(buf) > MAX_TCP_BUF_BYTES
            THEN <<>> ELSE buf
  /\ UNCHANGED <<config, counter, wire, asked, due, executed, replies>>

Next ==
  \/ \E r \in Requests : Ask(r)
  \/ \E n \in 1..Len(wire) : Read(n)
  \/ ReadEnds \/ Ignore \/ Serve \/ ServeFails \/ ParseEnds

Spec == Init /\ [][Next]_vars
----------------------------------------------------------------------------
(* Properties *)

\* Whatever a peer sends, the buffer is bounded: one read more than what the
\* handler keeps.
TypeOK ==
  /\ config \in Configs /\ counter \in 0..U16_MAX
  /\ wire \in Seq(0..255) /\ buf \in Seq(0..255)
  /\ Len(buf) <= MAX_TCP_BUF_BYTES + (IF pc = "reading" THEN 0 ELSE ReadSize)
  /\ pc \in {"reading", "parsing", "closed"}

\* The server takes the frame for one of the other kind: without a unit id in
\* the body it begins like one that has it, or with one it is no request and
\* the repeated unit id is taken for a function code.
Ambiguous(r) ==
  IF config.unit_id_in_body
  THEN ~IsRequest(r.pdu) /\ IsRequest(<<r.unit>> \o r.pdu)
  ELSE r.pdu[1] = r.unit /\ IsRequest(Tail(r.pdu))

\* The client sent each request when nothing of the earlier ones was left on
\* the wire or in the buffer.
Alone == \A k \in 1..Len(asked) : asked[k].rested /\ asked[k].empty

\* A client that counts the unit id in the length (both constructors of
\* TcpConfig) and sends one request at a time: the service is called with
\* exactly its requests, once each, in order and with their transaction ids,
\* wherever the network cuts the frames; and when everything has arrived
\* none is left out.
ExactlyOnceInOrder ==
  config.length_mode = "Standard" /\ Alone
      /\ (\A k \in 1..Len(asked) : ~Ambiguous(asked[k])) =>
    IsPrefix(executed, due) /\ (AtRest => executed = due)

\* Whatever the client overlaps: a response carries the transaction id and the
\* unit id of a request it sent, and answers that request; and a client that
\* numbers its requests gets at most one response to each.
RepliesSound ==
  (\A k \in 1..Len(asked) : ~Ambiguous(asked[k])) =>
    /\ \A i \in 1..Len(replies) : \E k \in 1..Len(asked) :
         /\ replies[i].tid = asked[k].tid /\ replies[i].unit = asked[k].unit
         /\ replies[i].pdu = asked[k].pdu
    /\ config.tid = "Auto" => IsInjective(replies)

\* A connection recovers: whatever was refused, discarded, cut or overlapped
\* before, a request that finds the server at rest with nothing in its buffer
\* is executed as it was sent if it is to be executed, once, and nothing else
\* with it; when it has arrived it has been executed.
FreshRequestExact ==
  config.length_mode = "Standard" /\ asked # <<>> =>
    LET r == asked[Len(asked)]
        want == IF Acts(r)
                THEN Append(r.before, [tid |-> r.tid, unit |-> r.unit, pdu |-> r.pdu])
                ELSE r.before
    IN r.rested /\ r.empty /\ ~Ambiguous(r) =>
         executed \in {r.before, want} /\ (AtRest => executed = want)
====
