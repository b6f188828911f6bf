---- MODULE Recording ----
(***************************************************************************)
(* The WireTaps that keep what passes on a bus: TrafficStats, PacketCapture, *)
(* BusCapture, RingBufferCapture, and ChannelRecorder with FileRecorder     *)
(* behind it.  A tap is called by several tasks at once (writes on the      *)
(* owner's task, reads on a forwarder, of one or several clients), while    *)
(* the program reads, drains, resets or switches it.  Every lock section    *)
(* and every atomic access is a step.                                       *)
(***************************************************************************)
EXTENDS Integers, Sequences, FiniteSets

CONSTANTS
  Tasks,        \* the tasks that call the tap
  Capacities,   \* the capacities a program may ask for
  QueueSize,    \* lines the channel to the writing thread holds (4096)
  BufferLines,  \* bound: lines the BufWriter (8192 bytes) holds
  MaxRecords,   \* bound: calls of the tap
  MaxSwitches   \* bound: resets and changes of mode

ASSUME RecordingConstants ==
  /\ IsFiniteSet(Tasks)
  /\ Capacities \subseteq Nat /\ QueueSize \in Nat \ {0} /\ BufferLines \in Nat \ {0}
  /\ MaxRecords \in Nat /\ MaxSwitches \in Nat

VARIABLES
  tap,        \* which tap, and its capacity
  task,       \* each task: its step, its record and the mode flag it read
  clock,      \* timestamps handed out
  count,      \* the atomic counters
  resetting,  \* counters the running reset has zeroed; 0: no reset runs
  store,      \* the records of a capture
  unbounded,  \* the mode flag of RingBufferCapture
  inbox,      \* records in the unbounded channel to the recorder task
  recorder,   \* the recorder task: running or ended
  handle,     \* its RecorderHandle: held or dropped
  attached,   \* whether some client still holds the ChannelRecorder
  queue,      \* lines in the channel to the writing thread
  writer,     \* the writing thread: running, failing, failed or ended
  buffered,   \* lines in its BufWriter
  file,       \* lines on the disk
  switches,   \* resets and changes of mode so far
  log,        \* history: the records in the order in which the tap took them
  taken,      \* history: how many were drained
  cleared,    \* history: the part of dropped that resets have zeroed
  high,       \* history: the most that bounded mode may hold since it began
  lost        \* history: records that vanished with a task that ended

capture == <<count, resetting, store, unbounded>>
pipeline == <<inbox, recorder, handle, attached, queue, writer, buffered, file>>
history == <<log, taken, cleared, high, lost>>
vars == <<tap, task, clock, capture, pipeline, switches, history>>

Kinds == {"requests", "responses", "errors"}
Idle == [pc |-> "idle", rec |-> 0, kind |-> "requests", flag |-> FALSE]

\* A capacity of 0 is taken for 1.
Clamp(c) == IF c = 0 THEN 1 ELSE c

Taps ==
  [is : {"traffic", "packets", "stats", "unbounded", "channel"}, cap : {1}]
    \cup [is : {"bounded", "ring"}, cap : {Clamp(c) : c \in Capacities}]

\* RingBufferCapture::unbounded has the capacity usize::MAX, which nothing fills.
Limitless == [is |-> "ring", cap |-> MaxRecords + 1]

Init ==
  /\ tap \in Taps \cup {Limitless} /\ task = [t \in Tasks |-> Idle] /\ clock = 0
  /\ count = [c \in Kinds \cup {"dropped"} |-> 0]
  /\ resetting = 0 /\ store = <<>> /\ unbounded = (tap = Limitless)
  /\ inbox = <<>> /\ recorder = "running" /\ handle = "held" /\ attached = TRUE
  /\ queue = <<>> /\ writer = "running" /\ buffered = <<>> /\ file = <<>> /\ switches = 0
  /\ log = <<>> /\ taken = 0 /\ cleared = 0 /\ high = tap.cap /\ lost = 0

BusCapture == tap.is \in {"stats", "unbounded", "bounded"}

\* Tasks between the flag and the lock that will push whatever the length is.
Stale == Cardinality({t \in Tasks : task[t].pc = "read" /\ task[t].flag})
----------------------------------------------------------------------------
(* A call of the tap *)

\* SniffIo calls on_write and on_read with now_micros(); on_error is left to
\* programs that call a tap themselves.
Call(t, kind) ==
  /\ task[t].pc = "idle" /\ attached /\ clock < MaxRecords /\ clock' = clock + 1
  /\ task' = [task EXCEPT ![t] = [pc |-> "called", rec |-> clock', kind |-> kind, flag |-> FALSE]]
  /\ UNCHANGED <<tap, capture, pipeline, switches, history>>

\* BusCapture and TrafficStats count before, and outside, the lock.
Count(t) ==
  /\ BusCapture \/ tap.is = "traffic"
  /\ task[t].pc = "called"
  /\ count' = [count EXCEPT ![task[t].kind] = @ + 1]
  /\ task' = [task EXCEPT ![t] = IF BusCapture THEN [@ EXCEPT !.pc = "read"] ELSE Idle]
  /\ UNCHANGED <<tap, clock, resetting, store, unbounded, pipeline, switches, history>>

\* RingBufferCapture reads its mode before it takes the lock.
ReadMode(t) ==
  /\ tap.is = "ring" /\ task[t].pc = "called"
  /\ task' = [task EXCEPT ![t].pc = "read", ![t].flag = unbounded]
  /\ UNCHANGED <<tap, clock, capture, pipeline, switches, history>>

\* Mutant: an evicted record is not counted.
Push_Uncounted(r, evict) ==
  /\ store' = Append(IF evict THEN Tail(store) ELSE store, r)
  /\ UNCHANGED count

Push(r, evict) ==
  /\ store' = Append(IF evict THEN Tail(store) ELSE store, r)
  /\ count' = IF evict THEN [count EXCEPT !.dropped = @ + 1] ELSE count

\* Mutant: one record more than the capacity.
Full_OffByOne(flag) ==
  \/ tap.is = "bounded" /\ Len(store) >= tap.cap
  \/ tap.is = "ring" /\ ~flag /\ Len(store) > tap.cap

Full(flag) ==
  \/ tap.is = "bounded" /\ Len(store) >= tap.cap
  \/ tap.is = "ring" /\ ~flag /\ Len(store) >= tap.cap

\* record(), under the lock of the store.
Record(t) ==
  /\ task[t].pc = (IF tap.is = "packets" THEN "called" ELSE "read") /\ resetting = 0
  /\ IF tap.is = "stats" THEN UNCHANGED <<store, count, log>>
     ELSE Push(task[t].rec, Full(task[t].flag)) /\ log' = Append(log, task[t].rec)
  /\ task' = [task EXCEPT ![t] = Idle]
  /\ UNCHANGED <<tap, clock, resetting, unbounded, pipeline, switches, taken, cleared, high, lost>>

\* ChannelRecorder::send fails when the recorder task has ended.
Send(t) ==
  /\ tap.is = "channel" /\ task[t].pc = "called"
  /\ log' = Append(log, task[t].rec)
  /\ IF recorder = "running"
     THEN inbox' = Append(inbox, task[t].rec) /\ UNCHANGED count
     ELSE count' = [count EXCEPT !.dropped = @ + 1] /\ UNCHANGED inbox
  /\ task' = [task EXCEPT ![t] = Idle]
  /\ UNCHANGED <<tap, clock, resetting, store, unbounded, recorder, handle, attached, queue,
                 writer, buffered, file, switches, taken, cleared, high, lost>>
----------------------------------------------------------------------------
(* The program *)

Drain ==
  /\ tap.is \in {"packets", "unbounded", "bounded", "ring"} /\ resetting = 0 /\ store # <<>>
  /\ taken' = taken + Len(store) /\ store' = <<>>
  /\ UNCHANGED <<tap, task, clock, count, resetting, unbounded, pipeline, switches,
                 log, cleared, high, lost>>

Counters == <<"requests", "responses", "errors", "dropped">>

\* reset_stats zeroes one counter after the other, with the store locked;
\* TrafficStats::reset has no lock and no fourth counter.
Reset ==
  /\ BusCapture \/ tap.is = "traffic"
  /\ IF resetting = 0 THEN switches < MaxSwitches /\ switches' = switches + 1
     ELSE UNCHANGED switches
  /\ count' = [count EXCEPT ![Counters[resetting + 1]] = 0]
  /\ resetting' = (resetting + 1) % (IF BusCapture THEN 4 ELSE 3)
  /\ cleared' = IF resetting = 3 THEN cleared + count.dropped ELSE cleared
  /\ UNCHANGED <<tap, task, clock, store, unbounded, pipeline, log, taken, high, lost>>

SetMode(mode) ==
  /\ tap.is = "ring" /\ switches < MaxSwitches /\ switches' = switches + 1
  /\ unbounded' = mode
  /\ high' = IF unbounded /\ ~mode
             THEN Stale + (IF tap # Limitless /\ Len(store) < tap.cap THEN tap.cap ELSE Len(store))
             ELSE high
  /\ UNCHANGED <<tap, task, clock, count, resetting, store, pipeline, log, taken, cleared, lost>>

\* Dropping the handle aborts the recorder task.
DropHandle ==
  /\ tap.is = "channel" /\ handle = "held" /\ handle' = "dropped"
  /\ UNCHANGED <<tap, task, clock, capture, inbox, recorder, attached, queue, writer, buffered,
                 file, switches, history>>

\* The last client is dropped, and the sender with it.
Detach ==
  /\ tap.is = "channel" /\ attached /\ attached' = FALSE
  /\ \A t \in Tasks : task[t].pc = "idle"
  /\ UNCHANGED <<tap, task, clock, capture, inbox, recorder, handle, queue, writer, buffered, file,
                 switches, history>>
----------------------------------------------------------------------------
(* The recorder task and the writing thread *)

\* Mutant: a full queue is not noticed.
OnPacket_Unchecked ==
  /\ recorder = "running" /\ inbox # <<>> /\ inbox' = Tail(inbox)
  /\ queue' = IF Len(queue) < QueueSize THEN Append(queue, Head(inbox)) ELSE queue
  /\ UNCHANGED <<tap, task, clock, capture, recorder, handle, attached, writer, buffered, file,
                 switches, history>>

\* on_packet: try_send, or count the record as dropped.  The queue takes lines
\* as long as the writing thread exists.
OnPacket ==
  /\ recorder = "running" /\ inbox # <<>> /\ inbox' = Tail(inbox)
  /\ IF writer \in {"running", "failing"} /\ Len(queue) < QueueSize
     THEN queue' = Append(queue, Head(inbox)) /\ UNCHANGED count
     ELSE count' = [count EXCEPT !.dropped = @ + 1] /\ UNCHANGED queue
  /\ UNCHANGED <<tap, task, clock, resetting, store, unbounded, recorder, handle, attached,
                 writer, buffered, file, switches, history>>

\* The task ends when it is aborted, at its await, or when nobody can send any
\* more and it has taken everything; its FileRecorder ends with it.
RecorderEnds ==
  /\ recorder = "running" /\ recorder' = "ended"
  /\ handle = "dropped" \/ (~attached /\ inbox = <<>>)
  /\ lost' = lost + Len(inbox) /\ inbox' = <<>>
  /\ UNCHANGED <<tap, task, clock, capture, handle, attached, queue, writer, buffered, file,
                 switches, log, taken, cleared, high>>

\* The first n of these lines reach the disk, the others stay in the BufWriter.
Flush(lines, n) ==
  /\ file' = file \o SubSeq(lines, 1, n)
  /\ buffered' = SubSeq(lines, n + 1, Len(lines))

\* writeln!: the line goes into the BufWriter; or it does not fit, and what is
\* there is written out first; or it is larger than the BufWriter, or fills it,
\* and is written out as well.
WriteLine ==
  /\ writer = "running" /\ queue # <<>> /\ queue' = Tail(queue)
  /\ LET lines == Append(buffered, Head(queue))
     IN \E n \in {0, Len(buffered), Len(lines)} :
          Len(lines) - n <= BufferLines /\ Flush(lines, n)
  /\ UNCHANGED <<tap, task, clock, capture, inbox, recorder, handle, attached, writer, switches,
                 history>>

\* Mutant: the loop ignores the error and goes on with the next line.
WriteFails_GoesOn ==
  /\ writer = "running" /\ queue # <<>> /\ queue' = Tail(queue) /\ lost' = lost + 1
  /\ \E n \in 0..Len(buffered) : Flush(buffered, n)
  /\ UNCHANGED <<tap, task, clock, capture, inbox, recorder, handle, attached, writer, switches,
                 log, taken, cleared, high>>

\* A write to the disk fails after some of the lines, and the loop ends: the
\* line is lost, or only the write of its newline failed and it stays behind
\* the others.
WriteFails ==
  /\ writer = "running" /\ queue # <<>> /\ queue' = Tail(queue) /\ writer' = "failing"
  /\ \E n \in 0..Len(buffered) :
       \/ Flush(buffered, n) /\ lost' = lost + 1
       \/ /\ Len(buffered) < BufferLines \/ n = Len(buffered)
          /\ Flush(Append(buffered, Head(queue)), n) /\ UNCHANGED lost
  /\ UNCHANGED <<tap, task, clock, capture, inbox, recorder, handle, attached, switches, log, taken,
                 cleared, high>>

\* Mutant: the BufWriter is thrown away as it is.
WriterEnds_NoFlush ==
  /\ writer = "failing" \/ (writer = "running" /\ queue = <<>> /\ recorder = "ended")
  /\ writer' = IF writer = "running" THEN "ended" ELSE "failed"
  /\ lost' = lost + Len(buffered) + Len(queue)
  /\ buffered' = <<>> /\ queue' = <<>>
  /\ UNCHANGED <<tap, task, clock, capture, inbox, recorder, handle, attached, file, switches, log,
                 taken, cleared, high>>

\* After a failure, or when the FileRecorder is gone and its queue is empty, the
\* thread flushes, ignores whether that worked, and drops the queue.
WriterEnds ==
  /\ writer = "failing" \/ (writer = "running" /\ queue = <<>> /\ recorder = "ended")
  /\ \E n \in 0..Len(buffered) :
       /\ file' = file \o SubSeq(buffered, 1, n)
       /\ lost' = lost + (Len(buffered) - n) + Len(queue)
       /\ writer' = IF writer = "running" /\ n = Len(buffered) THEN "ended" ELSE "failed"
  /\ buffered' = <<>> /\ queue' = <<>>
  /\ UNCHANGED <<tap, task, clock, capture, inbox, recorder, handle, attached, switches, log, taken,
                 cleared, high>>

Next ==
  \/ \E t \in Tasks, k \in Kinds : Call(t, k)
  \/ \E t \in Tasks : Count(t) \/ ReadMode(t) \/ Record(t) \/ Send(t)
  \/ Drain \/ Reset \/ (\E m \in BOOLEAN : SetMode(m)) \/ DropHandle \/ Detach
  \/ OnPacket \/ RecorderEnds \/ WriteLine \/ WriteFails \/ WriterEnds

Spec == Init /\ [][Next]_vars

\* The recorder task and the writing thread are scheduled; the disk may fail.
FairSpec ==
  /\ Spec /\ WF_vars(OnPacket \/ RecorderEnds)
  /\ WF_vars(WriteLine \/ WriteFails) /\ WF_vars(WriterEnds)
----------------------------------------------------------------------------
(* Properties *)

\* A capture loses nothing silently, however calls, drains and resets overlap:
\* it holds the newest records in the order in which it took them, and every
\* other one was drained or is in dropped.
CaptureAccounts ==
  tap.is # "channel" =>
    /\ Len(log) = Len(store) + taken + count.dropped + cleared
    /\ store = SubSeq(log, Len(log) - Len(store) + 1, Len(log))

\* In bounded mode a ring buffer with a capacity does not grow: it stays within
\* the capacity, or what it held when the mode was switched, and beyond that
\* takes only the calls that had already read the old mode, one record each.
\* A buffer that unbounded() made has no capacity that it could reach: it goes
\* on growing, although set_bounded promises otherwise.
GrowthStops ==
  tap # Limitless /\ tap.is \in {"bounded", "ring"} /\ ~unbounded =>
    Len(store) + Stale <= high

\* A recorded file holds what the tap was given, in that order and nothing
\* twice; a record that is not there is on its way, in a queue or in the
\* BufWriter, is counted as dropped, or vanished when the handle was dropped or
\* the disk failed.
FileAccounts ==
  tap.is = "channel" =>
    /\ Len(log) = Len(file) + Len(buffered) + Len(queue) + Len(inbox) + count.dropped + lost
    /\ lost > 0 => handle = "dropped" \/ writer \in {"failing", "failed"}
    /\ LET held == file \o buffered \o queue \o inbox
           Pos(r) == CHOOSE i \in 1..Len(log) : log[i] = r
       IN \A i, j \in 1..Len(held) : i < j => Pos(held[i]) < Pos(held[j])

\* A failing disk, or an abort, cuts the file at its end: what is in it is the
\* beginning of what the tap was given, without the dropped records only.
FileHasNoHole ==
  tap.is = "channel" =>
    \A i \in 1..Len(file) : \E a \in 1..Len(log) : log[a] = file[i] /\ a - i <= count.dropped

\* Once the last client is gone both tasks end, and unless the recorder was
\* aborted or a write, the last flush included, failed, every record is on the
\* disk or counted as dropped.
FileFinished ==
  tap.is = "channel" /\ ~attached ~>
    /\ recorder = "ended" /\ writer \in {"ended", "failed"}
    /\ handle = "held" /\ writer = "ended" => Len(log) = Len(file) + count.dropped
====
