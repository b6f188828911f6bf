# oms-modbus: TLA+ models, model checking and proofs

oms-modbus is an asynchronous Modbus client and server library in Rust (TCP, RTU
and ASCII) with bus monitoring built into the transport. This directory holds
TLA+ models of its core, the TLC configurations that check them on small
instances, and TLAPS proofs of what matters most for every instance.

Paths such as `tcp.rs:404` are relative to `src/src/` (or `src/src/transport/`)
of the repository. `PROJECT.json` maps every definition to the lines it models.

## 1. The system

| Component | Source | State | Operations | Modelled by |
|---|---|---|---|---|
| `SniffIo`, `SniffChannel` | `transport/sniff_io.rs` | two bounded byte channels, a reader task, a tap-forwarder task, the leftover of a chunk, the bus timing | `poll_read`, `poll_write`, the capacity setters, `Drop`, `replace_inner` | `SniffChannel`, `SniffIo` |
| TCP client | `transport/tcp.rs` | stream and buffers behind a tokio mutex, the tid counter | `call`, `send_recv`, rebuild | `TcpClient` |
| Exchange and reconnect loop | `transport/send_recv.rs`, `reconnect.rs`, `error.rs` | failure counters of a call | `drain_stale_data`, `send_frame`, `read_at_least`, `run_with_reconnect`, `process_server_request` | `TcpClient`, `TcpServer`, `SerialLine` |
| TCP server | `transport/tcp.rs` | the buffer of each connection | `handle_tcp_connection`, `serve_forever` | `TcpServer` |
| MBAP framing | `transport/tcp.rs` | none | encode, parse, corruption test, tid | `TcpFrame` |
| PDU codec | `frame.rs` | none | `Request` and `Response` encode and decode | `Frame`, `Pdu` |
| `SlaveStore` | `slave_store.rs` | four tables behind `RwLock`s | `Service::call`, the setters | `SlaveStore`, `Memory` |
| RTU and ASCII transports | `transport/rtu.rs`, `ascii.rs`, `codec.rs` | stream, buffers, bus timing | as TCP, framed by silence or by `:` and CR LF | `SerialFrame`, `Exchange`, `SerialLine` |
| `BusTiming`, constructors | `bus_timing.rs`, `options.rs`, the `with_options` functions | time of the last transfer; the layers of a client | `prepare_send`, `touch`, rebuild | `ClientStack` |
| `BusCapture`, recorders, interceptor | `capture.rs`, `wire_tap.rs`, `monitor/`, `intercept.rs` | records, counters, queues | tap callbacks, `drain`, `reset_stats`, mode switch | `Recording` |
| Service and hooks | `server.rs` | none | `Service::call`, `HookedService` | `Exchange`, `TcpServer` |
| Client API | `client.rs` | none | typed calls | `Pdu` (`TypedResult`) |

How they interact. A client's `call` runs `run_with_reconnect`, which calls
`send_recv` under the client's mutex; `send_recv` reads and writes a `SniffIo`.
Without a tap the `SniffIo` passes straight through. With one, it splits the
transport: a background task reads it and copies every chunk to a data channel,
from which `poll_read` is served, and to a tap channel, from which a second task
calls `WireTap::on_read`. Tasks and owner meet only in the mutexes of the two
channels, through wakers, and through `JoinHandle::is_finished`. A server
spawns one handler per connection; all handlers share one `Service`, typically a
`SlaveStore`.

What is hard here, and what makes each part correct:

* **SniffIo.** Three tasks interleave between short critical sections. Chunks are
  evicted when nobody reads. Correct: every byte is delivered in order or counted
  as dropped, no wake-up is lost, the tasks end after `Drop`.
* **Client.** Callers share a stream; each one can time out, be dropped in the
  middle of an exchange, or replace the stream. Correct: a caller gets the answer
  to its own request, a request is not executed twice from one connection,
  retries are bounded, every call returns.
* **Server.** The parser guesses the sender's length convention and whether the
  unit id is repeated in the body, on bytes the network cuts anywhere. Correct:
  each request is executed exactly once, as sent, and one bad frame does not
  spoil the following ones.
* **SlaveStore.** Vectors grow on demand while others read, function code 23 takes
  its lock twice. Correct: tasks see a flat memory with atomic range operations.
* **Serial line.** No transaction id; frames end where the line is silent (RTU) or at
  CR LF (ASCII); a write can stop half-way, a pause can fall inside a frame, an
  answer can be late. Correct: the service is called with what was written, a
  disturbed frame spoils only itself and what is glued to it, a write reported as
  done was done.
* **Codec.** Limits of three kinds (a byte count, 253 bytes, the protocol's
  quantities) meet. Correct: typed call, encoding, framing, parsing, decoding,
  hook and service together change nothing, or the call fails.
* **Bus timing and layers.** Which `SniffIo` of several has the timing and the tap
  depends on how a client was made and whether it has reconnected. Correct: frames
  are spaced, every transfer is recorded.
* **Recorders.** Taps are called by several tasks while the program drains, resets
  and switches them. Correct: a record is kept, drained or counted.

`PROJECT.json` lists the hazards of the code, each at its line with the
properties that would catch it.

## 2. The modules

### SniffChannel, SniffIo, LossyStream

`SniffChannel` has one operator per method of the channel, from record to record,
since every method runs under the channel's mutex; field names are the source's.
A chunk is the interval of wire offsets it occupies (byte 1 is the first one), so
that order, loss and duplication are visible while the payload is not. The
eviction loops of `send` and `set_capacity` are the predicate `Evicts(ch, k, need)`:
the loop pops exactly `k` chunks.

`SniffIo` is the sniffing mode. Its program counters mark the points at which
a mutex is released or a task awaits:

* reader: `ReaderRead` (read and send to the data channel), `ReaderSendTap` (send
  to the tap channel and look at `is_closed`), `ReaderFails` (end of stream or
  error), `ReaderEnds` (the task is over; only now is `is_finished` true),
  `ReaderPanics` (the transport's `poll_read` panics);
* forwarder: `ForwarderForward`, `ForwarderParks`, `ForwarderEnds`;
* owner: `PollReadPending`, `PollReadData`, `PollReadError`, and in two steps
  `PollReadEmpty` (register the waker and unlock) and `PollReadCheck` (ask
  `is_finished`, then park or return BrokenPipe); `CancelRead` (a timeout drops
  the read future), `PollWrite`, `WithChannelCapacity`, `WithTapChannelCapacity`;
* `Drop`: four steps, in the code's order.

`LossyStream` is the promise made to the owner: the bytes of the wire in order,
none twice, every skipped byte counted as lost before a later one is delivered,
and the end of the stream only after everything was delivered or counted. A
`broken` report (the reader task is gone) is allowed at any time, because that is
all the code achieves; see the notes on `sniff_io.rs:548` below.

### TcpClient

Callers of one client, one call each. The phases of a call are the awaits of
`send_recv` and `run_with_reconnect`: waiting for the mutex, draining, sending,
receiving, sleeping, waiting for the mutex again to rebuild, rebuilding. `Cancel`
drops the future at any of them. `Serve` and `ConnectionDies` are the outside: the
server executes requests of one connection in order and at any time, also after
the client has gone. Requests and responses carry the name of the caller and the
number of the connection, which the code never looks at; the properties do.

Abstractions: a response arrives whole, so the two reads of `send_recv` are one
step; a request is written whole or not at all; the `Serial` error kind does not
occur on TCP. Requests outlive the connection they were sent on.

### Frame, TcpFrame, TcpServer

`Frame` says which byte sequences `Request::try_from` accepts and how many of their
bytes it reads. `TcpFrame` is the MBAP code on bytes: `EncodeTcpFrame` and the
parser with its two guesses. `TcpServer` is one connection: `Ask` (a client writes
a request, at any time), `Read` (the network delivers any prefix), `Ignore`,
`Serve`, `ServeFails` (process_server_request for a frame that is not executed, that is
answered, or whose service panics or whose response cannot be written) and
`ParseEnds` (discard or keep the buffer, read again). The history variable `due` lists
what the service is to be called with for the requests sent so far, and `asked` says of each
request whether it found the handler at rest with an empty buffer, and what had been executed
before it.

Abstractions: a response is a record of tid, unit and request, not bytes; a request
is identified with the bytes it was decoded from, so unused bits of the last byte
of function code 15 count as part of it. Handlers of different connections share
only the service and are not composed here.

### Memory, SlaveStore

`Memory` is a flat memory: four total functions from addresses to values with
atomic range reads and writes, atomic masked writes, and an exchange (function code
23) that reads first and writes later. `SlaveStore` has the vectors that grow, the
packed bits, and one step per critical section: function code 23 is two steps,
everything else one. A register is the set of its bits.

### Pdu, SerialFrame, Exchange

`Pdu` has requests and responses as records and the conversions of `frame.rs` to and
from bytes: `EncodeRequest`, `TryRequest`, `EncodeResponse`, `TryResponse`. An operator
that can fail returns a set, empty on failure. `TypedResult` is what the methods of
`ModbusClient` make of a response: its variant, for a write the echo, else an error.
`RequestValues` and `ResponseValues` are the values that the types `Request` and `Response`
hold. `SerialFrame` adds the frames of `codec.rs` and the parsers of `rtu.rs` and `ascii.rs`,
with the real CRC-16 and LRC. The code folds a checksum over the bytes from left to right;
the model halves the sequence instead (TLC is fast on that), and the proofs start by showing that
it is the fold (`CrcIs`, `LrcIs`).

`Exchange` is one call from its typed method to its result, on bytes: `Send`, `Damage`
(the line changes one byte, once), `Discard`, the hook and the service
(`BeforeCallAnswers`, `Inner`, `AfterCall`), `Respond`, `ReceiveRtu`, `ReceiveAscii`.
`waited` in a result says that the deadline had to pass first. Frames are delivered
whole; `SerialLine` is about those that are not.

### SerialLine

A client and a server, RTU or ASCII, and the bytes between them. The client has the
phases of `send_recv` inside the loop of `run_with_reconnect`: `DrainRead`, `DrainQuiet`,
`DrainFails`, `Send` or `SendFails` (part of the frame is on the line), `Receive`,
`Deadline`, `EndOfStream`, `Rebuild`. The server has `Read`, `Silence`, `Serve`, `Ignore`,
`ParseEnds`, `ServerEnds`. A silence while bytes are under way is a pause inside a
frame and counts as a fault, as do a cut write and a stray byte. A stray byte comes at any
time; a frame that is still on its way when it comes is marked `glued`, since the server may
read both at once, and an RTU server then finds no checksum where it looks for it.

Abstractions: one caller, since calls of one client exclude each other (`TcpClient` has
several); an RTU timeout longer than T3.5 is not related to a clock; the backoff is part of
`Rebuild`, which may also fail and leave the old port. `MaxRetries` below 3 keeps the
loop short of its separate limit on failed rebuilds, which `TcpClient` covers.

### ClientStack

The `SniffIo` layers of clients and servers that share one `BusTiming`, and a clock in
microseconds. A layer is a pair of flags, tap and timing. `Build` is each constructor,
`Rebuild` what a reconnect makes of them, `Arrive` and `PollRead` bytes that come in,
`Drain`, `PrepareSend`, `Wake`, `PollWrite` and `Return` a call. `Touch` is called by
whichever layers have the timing and see the transfer. The history variables are the last transfer
the timing saw (`event`), that transfer as it was when an end prepared to send
(`before`), and whether an end made a transfer that no tap saw (`missed`).

### Recording

The taps one at a time (`tap` chooses it): `TrafficStats`, `PacketCapture`, `BusCapture`
with each store, `RingBufferCapture`, `ChannelRecorder` with `FileRecorder` behind it. A call
of the tap is `Call`, then `Count` or `ReadMode`, then `Record` or `Send`: the counter and
the mode flag are outside the lock. The program does `Drain`, `Reset` (one counter per
step), `SetMode`, `DropHandle`, `Detach`. A record is its timestamp. Behind the channel run
the recorder task (`OnPacket`, `RecorderEnds`) and the writing thread with its `BufWriter`.
`buffered` holds the lines that are not on the disk: `WriteLine` buffers a line and writes out
none, the earlier ones or all of them; `WriteFails` writes out part of them and leaves the loop;
`WriterEnds` is the last flush, whose failure the code ignores, and the drop of what is left.
`Limitless` is `RingBufferCapture::unbounded()`, whose capacity is never reached.

## 3. The runs

| Run | Expect | What it shows |
|---|---|---|
| `sniff` | pass | exact totals within capacity, every byte accounted for on both channels, order, no lost wake-up, `SniffIo` implements `LossyStream`; queued data reaches a parked read, captured chunks reach the tap, both tasks end after `Drop` |
| `client` | pass | bounded retries, once per connection, own answers unless a response was abandoned, the stream is replaced only between exchanges, calls return |
| `client_late` | violation | `AnswerMatches` |
| `server` | pass | each request executed once, in order; responses answer requests that were sent; the buffer stays bounded; a request that finds it empty is executed exactly as sent, whatever came before |
| `server_next` | violation | `NotContaminated` |
| `server_body` | violation | `ExecutedAsSent` |
| `store` | pass | `SlaveStore` implements `Memory`; vectors stay within the address space |
| `exchange` | pass | the service gets the caller's request or none, a result is the server's answer, legal requests are answered, and without waiting unless an RTU exception is shorter than expected |
| `serial` | pass | only frames written whole are executed, in order and once; a frame sent to a server at rest is executed, in RTU if silence follows it; a write reported as done was done; own answers unless disturbed; the server's buffer is forgotten; calls return |
| `stack` | pass | frames are spaced where the outermost layer has the timing; no transfer of a client with a tap is missed |
| `stack_spacing` | violation | `SpacingEnforced` |
| `recording` | pass | captures and files lose no record silently, a ring buffer with a capacity stops growing after a switch, a file has no hole and is finished when the last client is gone |

### Where the code and its comments differ

* `client_late`: a response that is still on its way when the next call drains the
  stream becomes that call's answer, because neither tid nor unit id is compared.
  `OwnAnswerUnlessAbandoned` states what does hold: on a connection on which no
  response was ever abandoned, every call gets its own answer.
* `server_next`: a frame with a possible header and an unknown function code is
  neither parsed nor discarded. It stays at the head of the buffer, and later
  requests wait behind it until 1040 bytes have piled up and are thrown away.
  `FreshRequestExact` states what does hold: a request that finds the buffer empty is
  executed exactly as sent, also after the buffer was discarded.
* `server_body`: a standard write of registers to unit 16 at an address 0x01xx reads
  as a frame with the unit id in its body, and is executed as a read of coils.
  `Ambiguous` in `TcpServer` is the exact condition, and `ExactlyOnceInOrder` and
  `RepliesSound` show that outside it requests are executed as sent.
* `stack_spacing`: `with_options` of `RtuClient` and `AsciiClient` gives the timing to a
  `SniffIo` that `with_timeout` wraps into a second one without timing (`rtu.rs:311`).
  `prepare_send` asks the outer one and never waits, until a reconnect has rebuilt the
  layers; `options.rs:94` says the spacing is enforced. `SpacedIfOutermost` states what
  does hold.

Disagreements met while reading, without a run of their own:

* `poll_read` finds the channel empty, unlocks it, and only then asks `is_finished`
  (`sniff_io.rs:548`). A reader that sends its last chunk and ends in between makes the
  read return BrokenPipe while the chunk is queued; `sniff_io.rs:173` promises data before
  errors. A reader that panics wakes nobody, so a read that was parked before returns only
  through a timeout of its own, although `sniff_io.rs:264` says the handle prevents a silent
  hang. A read served from the leftover of a chunk returns before `touch()`, against
  `sniff_io.rs:242`.
* With `max_retries = 0` a call still ends after three rebuilds that fail in a row;
  `README.md:228` says infinite retry. `README.md:231` says a timeout triggers a
  reconnect, `reconnect.rs:63` and the code say it does not (`OncePerConnection` depends
  on that). The end of the stream is a `Connection` error without a tap and `Other` with
  one, so a tap disables the retry (`ReadError` in `TcpClient`).
* After `with_reconnect_on` both layers of a rebuilt client carry the tap, so a transfer
  is recorded twice (`wire_tap.rs:66` says once per `poll_write`), and the channel
  capacities of the options are lost. `TcpClient` never calls `prepare_send`.
* A `Disconnect` over RTU sends the slave id and a CRC; `frame.rs:444` says nothing is sent.
  `send_recv.rs:285` describes broadcasts, and the service is never called for slave 0.
* `ring_buffer.rs:120` says at worst one record uses the old mode: it is one per
  concurrent caller (`GrowthStops`). `capture.rs:120` says the lock keeps readers from
  impossible counts, but the counters are incremented outside it.
* `ring_buffer.rs:109` says that `set_bounded` stops unbounded growth. A buffer made by
  `unbounded()` has the capacity `usize::MAX` (`ring_buffer.rs:58`), which the switch does not
  change, so it goes on growing: `GrowthStops` is stated, and holds, only of a buffer made by
  `new(capacity)`. TLC finds the counterexample when `tap # Limitless` is left out and the
  bound is what the buffer held at the switch.
* `ring_buffer.rs:8` says records are always in chronological order. Their timestamps are taken
  before the lock, so of two tasks the later one may store first. `CaptureAccounts` states
  the order that does hold, that in which the tap took them.
* `FileRecorder::dropped` can not be read once the recorder has been moved into `spawn`;
  a write error, or a failing last flush, loses the lines in the queue and in the `BufWriter`
  uncounted (`lost` in `Recording`). The library never calls `WireTap::on_error`.

### Bounds

* `sniff`: five bytes in chunks of 1 and 3, data capacities 2 and 4, tap capacity 3,
  reads of 2. A chunk of 3 does not fit capacity 2, evicts one or several chunks
  at capacity 4, and is longer than a read; the owner switches the capacity at any
  time.
* `client`: two callers, connections 1 to 3, `max_retries` 0 and 1, with and without
  reconnect and tap. Two callers are enough for one to abandon what the other
  takes, and to rebuild while the other waits. `MaxFailures` bounds the calls that
  may retry for ever, four failures in all, so that three failed rebuilds in a row
  still happen.
* `server`: three requests out of six kinds (read, write, broadcast, quantity zero,
  unknown code, and the ambiguous write) in three framings, read in any pieces, the
  tid counter starting at 65535. `MAX_TCP_ADU_SIZE` and `MAX_TCP_BUF_BYTES` are
  lowered to 12 and 20 so that the size rules are reached: a refused frame and the
  requests behind it outgrow the buffer, it is cleared, and the next one finds it empty. The two violations are
  found with the code's 260 and 1040. Data bytes that themselves spell an MBAP
  header are not among the requests.
* `store`: two tasks, four addresses of which two are allocated, two-bit registers
  and bytes of two bits: ranges cross the end of the vector and a byte boundary.

* `exchange`: every function code, with quantities on both sides of each limit, units 0, 1
  and 17, two service errors and seven responses that a hook makes up. One bit,
  or all bits, of one byte are changed, at fifteen of the first seventeen positions: these
  reach the slave id, the function code, the counts, and the checksum of short frames.
* `serial`: two calls out of six requests, RTU and ASCII, one retry, one fault. A stray byte is 0,
  after which an RTU checksum still matches, or a colon, which begins a line in ASCII and
  destroys the checksum in RTU. A read
  moves 4 bytes or everything, so that frames are cut inside and joined. Two calls are
  enough for the second to meet what the first left on the line or in a buffer; two writes with
  equal answers and one to another place are among the requests.
* `stack`: two ends of any kind, interchangeable, three transfers, a spacing of 2005 us
  (T3.5 at 19200 baud) and five instants around it and around the lengths of a drain, the
  first instant 0 among them.
* `recording`: two tasks, four calls, capacities 0 and 2, a queue and a
  `BufWriter` of one line each, so that a failing write loses lines in both, two resets
  or switches. `Limitless` has a capacity that is never reached, as in the code.

Deadlock checking is off where the system may rest: a dropped `SniffIo`, calls that
have returned, a closed connection, a finished file, a used-up bound. It is on for `store`.

### Fairness

* `SniffIo`: a runtime polls tasks that are ready. The reader leaves its synchronous
  sections, the forwarder and an owner that is being woken are polled, a `Drop` that
  began ends. Nothing is assumed about bytes arriving or about the owner starting a read.
* `TcpClient`: `WF` on the steps of each caller. Every await of a call ends: reads
  and writes have a timeout, sleeps are finite, `TcpStream::connect` is ended by the
  operating system, and tokio's mutex serves waiters in order. Nothing is assumed
  of the server or the network. Cancellation is never required.
* `SerialLine`: timers fire, and both tasks are scheduled. The formula is weak fairness of
  the steps of the client and of the server, with the enabling conditions and the
  effects written out (`ClientReady`, `ClientMoves`), because evaluating `ENABLED` on
  these actions is slow. Calls, noise and a closing port are never required.
* `Recording`: the recorder task runs, and the writing thread takes lines and, when it has left
  its loop, ends: nothing there waits for anybody. The disk may fail at any write and at the last
  flush, and nobody has to call, drain or drop anything.

## 4. What is proved

`SniffIoProofs` proves, for every wire length, every set of chunk, read and capacity
sizes (capacity 0 included), and every interleaving:

* `TypeCorrect`: the types; `total_bytes` never underflows;
* `ChannelsStayExact`: queues are contiguous, totals exact and within capacity;
* `EveryByteAccounted`, `EveryTapByteAccounted`: delivered + held + dropped = read, on
  both channels;
* `OrderKept`: delivery in wire order, nothing held twice;
* `WakeupsKept`, `TapWakeupsKept`: a parked read or forwarder that is not being woken has its waker
  registered and nothing to do;
* `Refinement`: `SniffIo` implements `LossyStream`.

The only assumption is `SniffConstants`: sizes are naturals, chunks and read buffers
are not empty (`poll_read` on an empty buffer is not something the callers do).

The inductive invariant is `IInv == Types /\ DataPart /\ TapPart /\ Parking /\ Ending`.
The properties alone are not inductive for four reasons, which are its parts: the
exactness of totals needs the contiguity of the queue (`Exact`), the tap's
accounting needs to know which chunk is between the channels (`FanOut`), a read that is about
to park must not have missed a wake-up *before* it parks (`Parking` covers the
`checking` state too), and an end of stream is final only because the reader
has left its loop (`Ending`).

The argument: lemmas say what each channel operation preserves (`EvictSound`,
`PopExact`, `AppendExact`, `SendExact`, `ShrinkExact`), one lemma per action says that
the action preserves `IInv`, and `NextIInv` collects them. For the refinement, a step
of the reader is `Produce` or `Lose`, a delivery is `Receive` (`DeliverRefines`), an error
taken from the channel is `ReportEnd`, where `Ending` gives that nothing is left, and
the rest stutters. The order of chunks is stated for all pairs of positions, and the
bytes of a prefix are computed from offsets, so that no induction over queues is needed.

`TcpClientProofs` proves all safety properties of the `client` run and a part of its invariant, for any set of
callers, any `max_retries`, any number of connections and failures:

* `TypeCorrect`: the mutex has one holder, rebuild failures stop at three;
* `RetriesBounded`: at most `max_retries + 1` deliveries, one without reconnect;
* `ExecutedOncePerConnection`: no request is executed twice from one connection;
* `NoOldInput`: nothing from an old connection is read, on which `OwnAnswers` rests;
* `OwnAnswers`: on a connection nobody gave up on every call gets its own answer;
* `StreamReplacedAlone`: the stream is replaced only while no exchange is running.

The only assumption is `ClientConstants` (the bounds are naturals, one connection at
least). The inductive invariant has a part for each step of the argument. `Mutex`: the
holder is the call whose phase is a critical section, so at most one call is receiving.
`Counted`: deliveries never run ahead of counted failures by more than the attempt in
progress. `Delivered`: a request that was delivered on the current connection is being
awaited, or its call is over, or the connection is dead; this is where it matters that a
timeout is not retried, and it is why a loop that goes on with the old stream after a
failed rebuild does not deliver there again. `InFlight` and `Arrived`: a request is on its
way, or executed, or answered, each at most once. `Awaited`: on a connection nobody gave up
on, what has arrived or can still arrive belongs to the one call that is receiving. With
distinctness this leaves a single response, and taking it empties the stream.

`ClientStackProofs` proves the safety of the `stack` run for any number of ends, any
minimum spacing, any clock and any number of transfers:

* `TypeCorrect`: the types;
* `SpacingKept`: `SpacedIfOutermost`;
* `TapNeverLost`: `EveryTransferRecorded`.

The assumption is `StackConstants` (naturals). `SpacedIfOutermost` is not inductive: a sleep
ends at a moment computed before it began, from a stamp that is not the event itself. So
`IInv == TypeOK /\ StampExact /\ SleepsLongEnough`: the stamp is that of the last event,
with 0 only for none, and whoever sleeps will wake late enough. `WaitsEnough` is the
arithmetic of `wait_if_needed`. For the tap, `HasTap` says that a client made with one
has it both in its layers and in what it remembers for a rebuild.

`SlaveStoreProofs` proves, for any number of tasks, any size of the address space, of
registers and of bytes, and any set of decoded requests:

* `VectorsBounded`: the vectors never outgrow the address space;
* `StoreIsMemory`: `SlaveStore` implements `Memory`.

`StoreConstants` says what `decode_request` and the types of the setters guarantee: ranges lie
in the address space, values are bits or registers. The inductive invariant adds to the types
that a task between the two halves of function code 23 still holds a request with both ranges
in the space: the write half does not check again. The refinement mapping reads an address
beyond the vector as zero, so growing is a stutter; the lemmas say what `Resize`, the packing of
bits and the write operators do to every single address (`WriteRegistersIs` and its siblings).
`OnePlace` is the arithmetic of byte and bit index: an address has one position.

`RecordingProofs` proves, for any finite set of tasks, any capacities and queue sizes, and any
number of calls, drains, resets and mode switches:

* `CaptureAccountsAlways`: what a capture was given is held in order, drained, or counted;
* `GrowthStopsAlways`: a ring buffer with a capacity that is switched to bounded mode stops growing;
* `FileAccountsAlways`: a file has the records in the order of the tap, and the missing ones
  are under way or in the `BufWriter`, counted as dropped, or lost with an aborted task or a disk
  that failed at a write or at the last flush.

`GrowthStops` is not inductive: a call that read the old mode may still push without evicting.
`RoomForStale` counts those calls (`Stale`, a cardinality, hence the finite set of tasks)
against the high mark. `FileAccounts` needs to know that no record is handed over twice
(`Numbered`), that inbox, queue, `BufWriter` and file are ordered among themselves (`InOrder`, stated with
positions in the log, without sub-sequences), and the balance of all places (`Balanced`).

`TcpServerProofs` proves, for any set of requests, any framings and any sizes of frame and buffer:

* `ConnectionTyped`: the types; the transaction id stays 16 bits wide, and the handler never waits
  for more with a buffer larger than `MAX_TCP_BUF_BYTES`;
* `EachRequestOnce`: `ExactlyOnceInOrder`, wherever the network cuts the frames;
* `ConnectionRecovers`: `FreshRequestExact`, whatever was sent before: no assumption is made on
  earlier requests, which may have been overlapped, ambiguous, unknown or discarded.

`FrameConstants`: a frame's length is a u16, and the largest frame fits the buffer (260 and 1040
in the code). `ServerConstants`: a request fits a frame, and an acceptable PDU has the
length that `decode_request` reads; `EncodedRequestExact` below proves this of everything the
client encodes. The inductive invariant says where the newest request is (`Where`), given what
was executed before it: the connection is closed, or nothing is outstanding, or buffer and wire
together are exactly its frame (`Carrying`) and the service still owes its call. `FreshWhere` says
this of a request that found the handler at rest with an empty buffer, which restarts the
argument after anything that came before; a client that always waits makes every request such a
one, so that `EachRequestOnce` follows (`DueWhere`, `SingleFresh`). This rests on what the parser makes of every prefix of a frame:
of a proper one nothing, and it is not taken for corrupt (`PartialParses`), of the whole
one the request (`WholeParses`, `WholeAnswered`). Here the two guesses of the parser matter: the
shorter length convention must not fit too early, and a body must not look like the other
kind, which is what `Ambiguous` excludes.

`FrameProofs` is about the codec of `frame.rs`, for every value of the types `Request` and
`Response`:

* `RequestRoundTrip`: encoding and decoding a request gives the request if it is `Legal`, and
  nothing otherwise; the encoder's limits (a byte count of 255, 253 bytes) and the decoder's
  (2000 coils, 125 registers, the address space, matching counts) together are exactly `Legal`;
* `EncodedRequestExact`: `decode_request` reads as many bytes as were written;
* `ResponseRoundTrip`: a response that encodes comes back, coils padded to whole bytes, an
  exception under the name of its code.

There is no assumption beyond the types. `CoilsBack` is the heart of the coil part: the bit that
is read at position `j` is the bit that was packed there, because the eight terms of a byte
are read apart by division. `WordsAre` is the same for registers. No induction is needed
because both conversions are functions of the position. The module also holds the lemmas on
words and byte sequences that the next proofs and `TcpServerProofs` use.

`ExchangeProofs` is about the serial protocols, for byte sequences of any length:

* `CrcDetectsDamage`, `LrcDetectsDamage`: sequences that differ in one byte have different
  checksums;
* `DamagedRtuFrameRefused`: an RTU frame with one byte changed, the checksum's own bytes
  included, fails the test;
* `DamagedAsciiFrameRefused`: an ASCII frame with one character changed is read as the original
  frame (the other case of a hex digit) or not at all, wherever a colon, CR or LF appears or goes;

and, for every set of requests, slave ids, exceptions of the service and responses of a hook,
every mask and every position of the damage, it proves all four properties of the `exchange` run:

* `ServiceCalledAsAsked`: `RequestIntact`;
* `UndamagedDelivered`: `Delivered`;
* `AsciiAnswerIntact`, `AnswerReturnedAsGiven`: `AnswerIntact`, in ASCII always, in RTU for
  responses no longer than what the client waits for (`AnswerIntactUnlessCut`);
* `ExchangeTypeOK`: the types.

`ExchangeConstants` says only that the constants are values of the Rust types. The exception in
RTU is in the code: `RtuClient` may take just the bytes it expects of a longer response that a
hook made up, and what is left of an arbitrary response can have a matching checksum by accident.
A service that answers with the quantity asked for never gets there.

The argument for the CRC: the exclusive or of bytes is computed digit by digit and can be cancelled
(`XorDigits`); one bit of the polynomial is injective because the result tells by its top bit which branch
was taken, so the entries of the table differ, even in their high bytes alone, and one byte taken into
a checksum is injective in the byte as well as in the checksum. Two runs over the same tail therefore never meet again once they differ.
This is induction over the bytes, done with a least counterexample: the set of positions at which
a claim fails is a set, so the well-foundedness of the naturals applies to it, and no operator has to
be passed to a theorem. The LRC goes the same way with addition modulo 256.

The inductive invariant `IInv` says what is on the line at each point. Before the server reads:
the frame of the encoded request, with one byte changed only if there was damage (`Asked`). After the
service: the slave id alone, and a reply that is a value of `Response` (`Answering`). On the way back:
the frame of the encoded reply (`Answered`). In silence: that damage, an illegal request or an answer
that does not encode is the reason (`Dropped`), without which `Delivered` would not survive the
timeout. `RequestAfterLine` and `ResponseAfterLine` join the round trips of the codec and the damage
theorems to what either end makes of such a frame.

TLC checked this `IInv` on the instance of the `exchange` run before it was proved.

Only model-checked:

* liveness, which is out of the prover's reach;
* `FileHasNoHole` of `Recording`;
* `RepliesSound` of `TcpServer`: it speaks of clients that overlap requests, and is not true
  for every set of requests, since data bytes can spell an MBAP header after a refused frame;
* `AnswerIntact` of an RTU response that is longer than what the client waits for;
* `SerialLine`: its lines carry pieces of frames, stray bytes and frames glued to each other, and
  some such sequences have a matching CRC by accident, so that `ExecutedAsWritten`,
  `RestingFrameExecuted`, `WritesReallyDone` and `OwnAnswer` can not be expected of every set of
  requests.

## Not modelled

* `replace_inner` of `SniffIo`: nothing in the library calls it.
* A `WireTap` or `RecordSink` that panics: code of the program.
* The accept loop of `TcpServer`, which spawns handlers that share only the service.
* Partial writes over TCP; `SerialLine` has them for the serial clients.
* Formatting, `Display`, timestamps and hex dumps; getters; re-exports; examples and
  benches. They change no state.

## 5. Plan

Done: all components above, in the order in which they are described.

Proved: the safety of `SniffIo`, `TcpClient`, `ClientStack`, `SlaveStore`, `Recording`, `TcpServer` (but
`RepliesSound`), the codec, both checksums and `Exchange`.

Next: a version of `SerialLine` over frames instead of bytes, in which no piece of a frame is a
frame. Its safety would hold for every set of requests, and the damage theorems say how
far the bytes justify that assumption.
