---- MODULE SniffIo ----
(***************************************************************************)
(* One sniffing SniffIo (sniff_io.rs): the background reader that fans      *)
(* every chunk out to a data and a tap channel, the tap forwarder, the task *)
(* that owns the SniffIo and polls it, and the four steps of Drop.  The     *)
(* tasks interleave between the points where a channel mutex is released.   *)
(***************************************************************************)
EXTENDS SniffChannel

CONSTANTS
  MaxBytes,      \* bound: bytes the transport delivers in a behaviour
  ChunkSizes,    \* sizes a read of the transport may return
  ReadSizes,     \* room in the buffers handed to poll_read
  DataCaps,      \* capacities with_channel_capacity may set
  TapCaps        \* capacities with_tap_channel_capacity may set

ASSUME SniffConstants ==
  /\ MaxBytes \in Nat
  /\ ChunkSizes \subseteq Nat \ {0}
  /\ ReadSizes \subseteq Nat \ {0}
  /\ DataCaps \subseteq Nat
  /\ TapCaps \subseteq Nat

VARIABLES
  wire,          \* bytes the reader has taken from the transport
  rpc,           \* reader task: reading, sendTap, finishing, finished
  chunk,         \* the chunk being fanned out
  data, tap,     \* the two channels
  pending,       \* tail of a chunk that did not fit the caller's buffer
  cpc,           \* owner task: idle, checking, parked
  notified,      \* the owner task's waker has fired
  result,        \* what the last completed poll_read returned
  last, taken,   \* offset of the last byte delivered, bytes delivered
  timing,        \* fresh: the last transfer was followed by touch()
  fpc,           \* forwarder task: spawned, running, parked, done
  fnotified,     \* the forwarder task's waker has fired
  seen,          \* bytes handed to WireTap::on_read
  dpc,           \* live, then the steps of Drop
  aborted        \* tasks abort() was called on

readerVars == <<wire, rpc, chunk>>
ownerVars  == <<pending, cpc, notified, result, last, taken, timing>>
tapVars    == <<fpc, fnotified, seen>>
vars == <<readerVars, data, tap, ownerVars, tapVars, dpc, aborted>>

NoBytes == [lo |-> 1, hi |-> 0]

Init ==
  /\ wire = 0 /\ rpc = "reading" /\ chunk = NoBytes
  /\ \E c \in DataCaps : data = NewChannel(c)
  /\ \E c \in TapCaps : tap = NewChannel(c)
  /\ pending = NoBytes /\ cpc = "idle" /\ notified = FALSE
  /\ result = "none" /\ last = 0 /\ taken = 0 /\ timing = "fresh"
  /\ fpc = "spawned" /\ fnotified = FALSE /\ seen = 0
  /\ dpc = "live" /\ aborted = {}

----------------------------------------------------------------------------
(* active_reader *)

WakeOwner == notified' = (notified \/ Wakes(data, data'))

WakeForwarder == fnotified' = (fnotified \/ Wakes(tap, tap'))

\* read_buf returns bytes, and the chunk goes to the data channel.
ReaderRead(n) ==
  /\ rpc = "reading"
  /\ wire + n <= MaxBytes
  /\ wire' = wire + n
  /\ chunk' = [lo |-> wire + 1, hi |-> wire + n]
  /\ \E k \in 0..Len(data.queue) :
        /\ Evicts(data, k, n)
        /\ data' = Send(data, chunk', k)
  /\ rpc' = "sendTap"
  /\ WakeOwner
  /\ UNCHANGED <<tap, pending, cpc, result, last, taken, timing, tapVars,
                 dpc, aborted>>

\* Mutant: the closed check comes before the tap is served.
ReaderSendTap_ClosedFirst ==
  /\ rpc = "sendTap"
  /\ \/ /\ ~data.closed
        /\ \E k \in 0..Len(tap.queue) :
              Evicts(tap, k, Size(chunk)) /\ tap' = Send(tap, chunk, k)
     \/ data.closed /\ tap' = tap
  /\ rpc' = IF data.closed THEN "finishing" ELSE "reading"
  /\ WakeForwarder
  /\ UNCHANGED <<wire, chunk, data, ownerVars, fpc, seen, dpc, aborted>>

\* The same chunk goes to the tap channel; the loop ends if the owner closed.
ReaderSendTap ==
  /\ rpc = "sendTap"
  /\ \E k \in 0..Len(tap.queue) :
        /\ Evicts(tap, k, Size(chunk))
        /\ tap' = Send(tap, chunk, k)
  /\ rpc' = IF data.closed THEN "finishing" ELSE "reading"
  /\ WakeForwarder
  /\ UNCHANGED <<wire, chunk, data, ownerVars, fpc, seen, dpc, aborted>>

\* Ok(0) and Err(e) are put into the data channel; the tap is not told.
ReaderFails(e) ==
  /\ rpc = "reading"
  /\ data' = SendError(data, e)
  /\ rpc' = "finishing"
  /\ WakeOwner
  /\ UNCHANGED <<wire, chunk, tap, pending, cpc, result, last, taken, timing,
                 tapVars, dpc, aborted>>

\* The task is over: JoinHandle::is_finished turns true.  It ends after its
\* loop, at an await once aborted, or by a panic of the transport's poll_read.
ReaderFinish ==
  /\ rpc \in {"reading", "finishing"}
  /\ rpc' = "finished"
  /\ UNCHANGED <<wire, chunk, data, tap, ownerVars, tapVars, dpc, aborted>>

ReaderEnds ==
  /\ rpc = "finishing" \/ "reader" \in aborted
  /\ ReaderFinish

ReaderPanics ==
  /\ rpc = "reading" /\ "reader" \notin aborted
  /\ ReaderFinish

----------------------------------------------------------------------------
(* tap_forwarder: recv().await, then on_read, until the channel is closed *)

ForwarderRuns == fpc \in {"spawned", "running"} \/ (fpc = "parked" /\ fnotified)

ForwarderForward ==
  /\ ForwarderRuns /\ PollRecv(tap) = "data"
  /\ tap' = PopFront(tap)
  /\ seen' = seen + Size(Head(tap.queue))
  /\ fpc' = "running" /\ fnotified' = FALSE
  /\ UNCHANGED <<readerVars, data, ownerVars, dpc, aborted>>

\* Mutant: the forwarder sleeps without registering its waker.
ForwarderParks_NoWaker ==
  /\ ForwarderRuns /\ PollRecv(tap) = "empty"
  /\ fpc' = "parked" /\ fnotified' = FALSE
  /\ UNCHANGED <<readerVars, data, tap, ownerVars, seen, dpc, aborted>>

ForwarderParks ==
  /\ ForwarderRuns /\ PollRecv(tap) = "empty"
  /\ tap' = RegisterWaker(tap)
  /\ fpc' = "parked" /\ fnotified' = FALSE
  /\ UNCHANGED <<readerVars, data, ownerVars, seen, dpc, aborted>>

\* The channel is closed and empty, or the task is aborted at its await.
ForwarderEnds ==
  /\ \/ ForwarderRuns /\ PollRecv(tap) = "closed"
     \/ fpc \in {"spawned", "parked"} /\ "forwarder" \in aborted
  /\ fpc' = "done"
  /\ UNCHANGED <<readerVars, data, tap, ownerVars, fnotified, seen, dpc,
                 aborted>>

----------------------------------------------------------------------------
(* The owner: poll_read, poll_write, with_*_capacity, and dropping a read *)

OwnerPolls == dpc = "live" /\ (cpc = "idle" \/ (cpc = "parked" /\ notified))

\* Mutant: the leftover slice starts one byte early.
Deliver_SliceOffByOne(b, room) ==
  LET n == IF Size(b) < room THEN Size(b) ELSE room IN
  /\ last' = b.lo + n - 1
  /\ taken' = taken + n
  /\ pending' = IF n < Size(b) THEN [lo |-> b.lo + n - 1, hi |-> b.hi]
                ELSE NoBytes
  /\ cpc' = "idle" /\ notified' = FALSE /\ result' = "data"

\* Copy what fits of the bytes b into the caller's buffer, keep the rest.
Deliver(b, room) ==
  LET n == IF Size(b) < room THEN Size(b) ELSE room IN
  /\ last' = b.lo + n - 1
  /\ taken' = taken + n
  /\ pending' = IF n < Size(b) THEN [lo |-> b.lo + n, hi |-> b.hi] ELSE NoBytes
  /\ cpc' = "idle" /\ notified' = FALSE /\ result' = "data"

\* The leftover branch returns before timing.touch().
PollReadPending(room) ==
  /\ OwnerPolls /\ Size(pending) > 0
  /\ Deliver(pending, room)
  /\ timing' = "stale"
  /\ UNCHANGED <<readerVars, data, tap, tapVars, dpc, aborted>>

PollReadData(room) ==
  /\ OwnerPolls /\ Size(pending) = 0 /\ PollRecv(data) = "data"
  /\ Deliver(Head(data.queue), room)
  /\ data' = PopFront(data)
  /\ timing' = "fresh"
  /\ UNCHANGED <<readerVars, tap, tapVars, dpc, aborted>>

PollReadError ==
  /\ OwnerPolls /\ Size(pending) = 0 /\ PollRecv(data) = "error"
  /\ data' = TakeError(data)
  /\ cpc' = "idle" /\ notified' = FALSE /\ result' = data.error
  /\ UNCHANGED <<readerVars, tap, pending, last, taken, timing, tapVars, dpc,
                 aborted>>

\* Nothing to read: the waker is registered and the channel unlocked before
\* is_finished is asked.
PollReadEmpty ==
  /\ OwnerPolls /\ Size(pending) = 0 /\ PollRecv(data) = "empty"
  /\ data' = RegisterWaker(data)
  /\ cpc' = "checking" /\ notified' = FALSE
  /\ UNCHANGED <<readerVars, tap, pending, result, last, taken, timing,
                 tapVars, dpc, aborted>>

\* Mutant: a wake-up that arrives before the task is parked is forgotten.
PollReadCheck_ForgetsWake ==
  /\ cpc = "checking"
  /\ IF rpc = "finished"
     THEN cpc' = "idle" /\ result' = "broken"
     ELSE cpc' = "parked" /\ UNCHANGED result
  /\ notified' = FALSE
  /\ UNCHANGED <<readerVars, data, tap, pending, last, taken, timing,
                 tapVars, dpc, aborted>>

PollReadCheck ==
  /\ cpc = "checking"
  /\ IF rpc = "finished"
     THEN cpc' = "idle" /\ result' = "broken"
     ELSE cpc' = "parked" /\ UNCHANGED result
  /\ UNCHANGED <<readerVars, data, tap, pending, notified, last, taken,
                 timing, tapVars, dpc, aborted>>

\* tokio::time::timeout drops the read future; the waker stays registered.
CancelRead ==
  /\ cpc = "parked"
  /\ cpc' = "idle"
  /\ UNCHANGED <<readerVars, data, tap, pending, notified, result, last,
                 taken, timing, tapVars, dpc, aborted>>

\* A successful poll_write calls on_write on the owner's task, and touch().
PollWrite ==
  /\ dpc = "live" /\ cpc = "idle"
  /\ timing' = "fresh"
  /\ UNCHANGED <<readerVars, data, tap, pending, cpc, notified, result, last,
                 taken, tapVars, dpc, aborted>>

\* Mutant: the new capacity is stored and nothing is evicted.
WithChannelCapacity_NoEvict(cap) ==
  /\ dpc = "live" /\ cpc = "idle"
  /\ data' = SetCapacity(data, cap)
  /\ UNCHANGED <<readerVars, tap, ownerVars, tapVars, dpc, aborted>>

WithChannelCapacity(cap) ==
  /\ dpc = "live" /\ cpc = "idle"
  /\ LET ch == SetCapacity(data, cap) IN
     \E k \in 0..Len(data.queue) : Evicts(ch, k, 0) /\ data' = Evict(ch, k)
  /\ UNCHANGED <<readerVars, tap, ownerVars, tapVars, dpc, aborted>>

WithTapChannelCapacity(cap) ==
  /\ dpc = "live" /\ cpc = "idle"
  /\ LET ch == SetCapacity(tap, cap) IN
     \E k \in 0..Len(tap.queue) : Evicts(ch, k, 0) /\ tap' = Evict(ch, k)
  /\ UNCHANGED <<readerVars, data, ownerVars, tapVars, dpc, aborted>>

----------------------------------------------------------------------------
(* Drop: close both channels, then abort both tasks *)

DropCloseData ==
  /\ dpc = "live" /\ cpc = "idle"
  /\ data' = Close(data) /\ dpc' = "dataClosed"
  /\ WakeOwner
  /\ UNCHANGED <<readerVars, tap, pending, cpc, result, last, taken, timing,
                 tapVars, aborted>>

DropCloseTap ==
  /\ dpc = "dataClosed"
  /\ tap' = Close(tap) /\ dpc' = "tapClosed"
  /\ WakeForwarder
  /\ UNCHANGED <<readerVars, data, ownerVars, fpc, seen, aborted>>

\* Mutant: the reader is left to see the closed channel by itself.
DropAbortReader_Skipped ==
  /\ dpc = "tapClosed"
  /\ dpc' = "readerAborted"
  /\ UNCHANGED <<readerVars, data, tap, ownerVars, tapVars, aborted>>

DropAbortReader ==
  /\ dpc = "tapClosed"
  /\ dpc' = "readerAborted" /\ aborted' = aborted \cup {"reader"}
  /\ UNCHANGED <<readerVars, data, tap, ownerVars, tapVars>>

DropAbortForwarder ==
  /\ dpc = "readerAborted"
  /\ dpc' = "dropped" /\ aborted' = aborted \cup {"forwarder"}
  /\ UNCHANGED <<readerVars, data, tap, ownerVars, tapVars>>

----------------------------------------------------------------------------

Reader ==
  \/ \E n \in ChunkSizes : ReaderRead(n)
  \/ ReaderSendTap
  \/ \E e \in {"eof", "reset"} : ReaderFails(e)
  \/ ReaderEnds
  \/ ReaderPanics

Forwarder == ForwarderForward \/ ForwarderParks \/ ForwarderEnds

PollRead ==
  \/ \E room \in ReadSizes : PollReadPending(room) \/ PollReadData(room)
  \/ PollReadError
  \/ PollReadEmpty
  \/ PollReadCheck

DropSteps ==
  DropCloseData \/ DropCloseTap \/ DropAbortReader \/ DropAbortForwarder

Next ==
  \/ Reader
  \/ Forwarder
  \/ PollRead
  \/ CancelRead
  \/ PollWrite
  \/ \E cap \in DataCaps : WithChannelCapacity(cap)
  \/ \E cap \in TapCaps : WithTapChannelCapacity(cap)
  \/ DropSteps

Spec == Init /\ [][Next]_vars

\* A runtime runs every task that is ready: the reader leaves its synchronous
\* sections, the forwarder and a woken owner are polled, a Drop runs through.
\* Whether bytes arrive, and whether the owner starts a read, is not promised.
Fairness ==
  /\ WF_vars(ReaderSendTap) /\ WF_vars(ReaderEnds)
  /\ WF_vars(Forwarder)
  /\ WF_vars(cpc # "idle" /\ PollRead)
  /\ WF_vars(dpc # "live" /\ DropSteps)

FairSpec == Spec /\ Fairness

----------------------------------------------------------------------------
(* Properties *)

Chunk == [lo : Nat, hi : Nat]

Channel ==
  [queue : Seq(Chunk), total_bytes : Nat, capacity : Nat,
   dropped_chunks : Nat, dropped_bytes : Nat, closed : BOOLEAN,
   error : {"none", "eof", "reset"}, waker : BOOLEAN]

\* Types of the two channels, the three tasks and Drop; in particular the
\* usize total_bytes never underflows in send, set_capacity or poll_recv.
TypeOK ==
  /\ wire \in Nat /\ chunk \in Chunk /\ pending \in Chunk
  /\ rpc \in {"reading", "sendTap", "finishing", "finished"}
  /\ data \in Channel /\ tap \in Channel
  /\ cpc \in {"idle", "checking", "parked"} /\ notified \in BOOLEAN
  /\ result \in {"none", "data", "eof", "reset", "broken"}
  /\ last \in Nat /\ taken \in Nat /\ timing \in {"fresh", "stale"}
  /\ fpc \in {"spawned", "running", "parked", "done"}
  /\ fnotified \in BOOLEAN /\ seen \in Nat
  /\ dpc \in {"live", "dataClosed", "tapClosed", "readerAborted", "dropped"}
  /\ aborted \subseteq {"reader", "forwarder"}

\* Bytes the reader has handed to the tap channel.
TapSent == IF rpc = "sendTap" THEN chunk.lo - 1 ELSE wire

\* A queue holds non-empty chunks, in wire order and without a gap, up to the
\* last byte that was sent.
WellQueued(q, top) ==
  /\ \A i \in 1..Len(q) : 1 <= q[i].lo /\ q[i].lo <= q[i].hi
  /\ \A i, j \in 1..Len(q) : i < j => q[i].hi < q[j].lo
  /\ Contiguous(q)
  /\ q # <<>> => q[Len(q)].hi = top

\* total_bytes is what the queue holds.
Sound(ch, top) ==
  /\ WellQueued(ch.queue, top)
  /\ ch.total_bytes = PrefixBytes(ch.queue, Len(ch.queue))

Exact(ch, top) == Sound(ch, top) /\ ch.total_bytes <= ch.capacity

\* Both channels keep exact byte totals and stay within their capacity through
\* any sequence of sends, evictions and receives, whatever the owner sets the
\* capacity to while the reader is sending (send, set_capacity, poll_recv).
ChannelsExact == Exact(data, wire) /\ Exact(tap, TapSent)

\* Every byte read from the transport is delivered, held in `pending' or the
\* data channel, or counted in data_dropped_bytes: none vanishes unreported.
DataAccounted ==
  taken + Size(pending) + data.total_bytes + data.dropped_bytes = wire

\* The same of the bytes handed to the tap channel and tap_dropped_bytes.
TapAccounted == seen + tap.total_bytes + tap.dropped_bytes = TapSent

\* What is still held comes after what was delivered, in wire order:
\* pending before the queue, and no byte is held twice.
HeldInOrder ==
  /\ Size(pending) > 0 => last = pending.lo - 1 /\ pending.hi <= wire
  /\ last <= wire
  /\ data.queue # <<>> =>
        /\ last < data.queue[1].lo
        /\ Size(pending) > 0 => pending.hi < data.queue[1].lo

\* A read that is parked without a wake-up on its way finds nothing to read:
\* its waker is registered, no chunk is queued and no error is waiting.
NoLostWakeup ==
  cpc = "parked" /\ ~notified =>
    data.waker /\ data.queue = <<>> /\ data.error = "none" /\ ~data.closed

\* The same of the forwarder: no captured chunk waits for a task that sleeps.
NoLostTapWakeup ==
  fpc = "parked" /\ ~fnotified =>
    tap.waker /\ tap.queue = <<>> /\ ~tap.closed

\* The stream the owner reads is the lossy stream it is promised.
LS == INSTANCE LossyStream
        WITH produced <- wire, lost <- data.dropped_bytes, outcome <- result

ImplementsLossyStream == LS!LSSpec
====
