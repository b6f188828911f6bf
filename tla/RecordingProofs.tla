---- MODULE RecordingProofs ----
(***************************************************************************)
(* What the taps of Recording keep, proved for every number of tasks, calls, *)
(* resets and mode switches, every capacity and every queue size.           *)
(***************************************************************************)
EXTENDS Recording, FiniteSetTheorems, SequenceTheorems, TLAPS

----------------------------------------------------------------------------
(* The inductive invariant *)

TapNames == {"traffic", "packets", "stats", "unbounded", "channel", "bounded", "ring"}
TaskState == [pc : {"idle", "called", "read"}, rec : Nat, kind : Kinds, flag : BOOLEAN]

Types ==
  /\ tap.is \in TapNames /\ tap.cap \in Nat \ {0}
  /\ task \in [Tasks -> TaskState]
  /\ clock \in Nat
  /\ count \in [Kinds \cup {"dropped"} -> Nat]
  /\ resetting \in 0..3
  /\ store \in Seq(Nat) /\ unbounded \in BOOLEAN
  /\ inbox \in Seq(Nat) /\ queue \in Seq(Nat) /\ log \in Seq(Nat)
  /\ buffered \in Seq(Nat) /\ file \in Seq(Nat)
  /\ taken \in Nat /\ cleared \in Nat /\ high \in Nat /\ lost \in Nat

\* What each tap leaves alone: only the channel has an inbox, only BusCapture
\* clears a fourth counter, only the ring buffer has a mode, and neither the
\* channel nor TrafficStats has a step between the counter and the lock.
Kept ==
  /\ tap.is # "channel" => inbox = <<>>
  /\ resetting = 3 => BusCapture
  /\ unbounded => tap.is = "ring"
  /\ \A t \in Tasks :
       /\ task[t].pc = "read" => tap.is \notin {"channel", "traffic"}
       /\ task[t].flag => tap.is = "ring" /\ task[t].pc = "read"

\* Records are numbered once: one that a task carries is in no other hand and
\* has not been taken yet.
Numbered ==
  /\ \A t \in Tasks : task[t].pc # "idle" =>
       /\ task[t].rec <= clock
       /\ \A a \in 1..Len(log) : log[a] # task[t].rec
       /\ \A u \in Tasks : u # t /\ task[u].pc # "idle" => task[u].rec # task[t].rec
  /\ \A a \in 1..Len(log) : log[a] <= clock
  /\ \A a, b \in 1..Len(log) : log[a] = log[b] => a = b

\* In bounded mode the calls that carry the old mode fit above the capacity.
RoomForStale ==
  tap # Limitless /\ tap.is \in {"bounded", "ring"} /\ ~unbounded =>
    tap.cap + Stale <= high /\ Len(store) + Stale <= high

\* The record x is in the list l; it is there before the record y.
Logged(l, x) == \E a \in 1..Len(l) : l[a] = x
Before(l, x, y) == \E a, b \in 1..Len(l) : a < b /\ l[a] = x /\ l[b] = y

AllBefore(l, s, u) == \A i \in 1..Len(s), j \in 1..Len(u) : Before(l, s[i], u[j])
Ordered(l, s) ==
  /\ \A i \in 1..Len(s) : Logged(l, s[i])
  /\ \A i, j \in 1..Len(s) : i < j => Before(l, s[i], s[j])

\* What the writing thread has taken, on the disk and in its BufWriter.
Out == file \o buffered

\* The places behind the channel hold records in the order of the log, and what
\* is in a later place was taken later.
InOrder ==
  /\ Ordered(log, Out) /\ Ordered(log, queue) /\ Ordered(log, inbox)
  /\ AllBefore(log, Out, queue) /\ AllBefore(log, Out, inbox) /\ AllBefore(log, queue, inbox)

Failing == writer \in {"failing", "failed"}

Balanced ==
  tap.is = "channel" =>
    /\ Len(log) = Len(Out) + Len(queue) + Len(inbox) + count["dropped"] + lost
    /\ lost > 0 => handle = "dropped" \/ Failing

IInv ==
  Types /\ Kept /\ Numbered /\ CaptureAccounts /\ RoomForStale /\ Balanced /\ InOrder

----------------------------------------------------------------------------
(* Types *)

LEMMA TapsTyped ==
  ASSUME NEW t \in Taps \cup {Limitless}
  PROVE  t.is \in TapNames /\ t.cap \in Nat \ {0}
<1>1. \A c \in Capacities : Clamp(c) \in Nat \ {0}
  BY RecordingConstants DEF Clamp
<1>2. CASE t \in Taps
  BY <1>1, <1>2 DEF Taps, TapNames
<1>3. CASE t = Limitless
  BY <1>3, RecordingConstants DEF Limitless, TapNames
<1>4. QED
  BY <1>2, <1>3

LEMMA IdleTyped == Idle \in TaskState /\ Idle.pc = "idle" /\ Idle.flag = FALSE
BY DEF Idle, TaskState, Kinds

\* A task that moves is typed again.
LEMMA TaskTyped ==
  ASSUME Types, NEW t \in Tasks, NEW v \in TaskState, task' = [task EXCEPT ![t] = v]
  PROVE  task' \in [Tasks -> TaskState]
BY DEF Types

LEMMA InitTypes == Init => Types
<1> SUFFICES ASSUME Init PROVE Types
  OBVIOUS
<1>1. tap.is \in TapNames /\ tap.cap \in Nat \ {0}
  BY TapsTyped DEF Init
<1>2. task \in [Tasks -> TaskState]
  BY IdleTyped DEF Init
<1>3. count \in [Kinds \cup {"dropped"} -> Nat]
  BY DEF Init
<1>4. unbounded \in BOOLEAN
  BY Zenon DEF Init
<1>5. QED
  BY <1>1, <1>2, <1>3, <1>4, RecordingConstants DEF Init, Types

LEMMA CallTypes ==
  ASSUME Types, NEW t \in Tasks, NEW k \in Kinds, Call(t, k)
  PROVE  Types'
<1>1. [pc |-> "called", rec |-> clock', kind |-> k, flag |-> FALSE] \in TaskState
  BY DEF Types, Call, TaskState
<1>2. task' \in [Tasks -> TaskState]
  BY <1>1, TaskTyped DEF Call
<1>3. QED
  BY <1>2 DEF Types, Call, capture, pipeline, history, Kinds

LEMMA CountTypes ==
  ASSUME Types, NEW t \in Tasks, Count(t)
  PROVE  Types'
<1>1. task[t] \in TaskState /\ [task[t] EXCEPT !.pc = "read"] \in TaskState
  BY DEF Types, TaskState
<1>2. task' \in [Tasks -> TaskState]
  BY <1>1, TaskTyped, IdleTyped DEF Count
<1>3. task[t].kind \in Kinds
  BY <1>1 DEF TaskState
<1>4. count' \in [Kinds \cup {"dropped"} -> Nat]
  BY <1>3 DEF Types, Count
<1>5. QED
  BY <1>2, <1>4 DEF Types, Count, pipeline, history

LEMMA ReadModeTypes ==
  ASSUME Types, NEW t \in Tasks, ReadMode(t)
  PROVE  Types'
<1>1. task[t] \in TaskState
  BY DEF Types
<1>2. [task[t] EXCEPT !.pc = "read", !.flag = unbounded] \in TaskState
  BY <1>1 DEF Types, TaskState
<1>3. task' = [task EXCEPT ![t] = [task[t] EXCEPT !.pc = "read", !.flag = unbounded]]
  BY DEF ReadMode, Types
<1>4. task' \in [Tasks -> TaskState]
  BY <1>2, <1>3, TaskTyped
<1>5. QED
  BY <1>4 DEF Types, ReadMode, capture, pipeline, history

\* One more dropped record.
LEMMA OneDropped ==
  ASSUME NEW c \in [Kinds \cup {"dropped"} -> Nat]
  PROVE  /\ [c EXCEPT !.dropped = @ + 1] \in [Kinds \cup {"dropped"} -> Nat]
         /\ [c EXCEPT !.dropped = @ + 1]["dropped"] = c["dropped"] + 1
<1>1. [c EXCEPT !.dropped = @ + 1] = [c EXCEPT !["dropped"] = c["dropped"] + 1]
  BY Zenon
<1>2. [c EXCEPT !["dropped"] = c["dropped"] + 1] \in [Kinds \cup {"dropped"} -> Nat]
  OBVIOUS
<1>3. [c EXCEPT !["dropped"] = c["dropped"] + 1]["dropped"] = c["dropped"] + 1
  OBVIOUS
<1>4. QED
  BY <1>1, <1>2, <1>3

\* The oldest record makes room only where there is one.
LEMMA FullNotEmpty ==
  ASSUME Types, NEW flag \in BOOLEAN
  PROVE  Full(flag) \in BOOLEAN /\ (Full(flag) => store # <<>>)
BY DEF Full, Types

LEMMA PushTypes ==
  ASSUME Types, NEW r \in Nat, NEW flag \in BOOLEAN, Push(r, Full(flag))
  PROVE  /\ store' \in Seq(Nat) /\ count' \in [Kinds \cup {"dropped"} -> Nat]
         /\ Len(store') = IF Full(flag) THEN Len(store) ELSE Len(store) + 1
<1>1. CASE Full(flag)
  <2>1. Tail(store) \in Seq(Nat) /\ Len(Tail(store)) = Len(store) - 1
    BY <1>1, FullNotEmpty DEF Types
  <2>2. store' = Append(Tail(store), r) /\ count' = [count EXCEPT !.dropped = @ + 1]
    BY <1>1 DEF Push
  <2>3. count' \in [Kinds \cup {"dropped"} -> Nat]
    BY <2>2, OneDropped DEF Types
  <2>4. Len(store') = Len(store) /\ store' \in Seq(Nat)
    BY <2>1, <2>2 DEF Types
  <2>5. QED
    BY <1>1, <2>3, <2>4
<1>2. CASE ~Full(flag)
  BY <1>2 DEF Types, Push
<1>3. QED
  BY <1>1, <1>2

LEMMA CarriedTyped ==
  ASSUME Types, NEW t \in Tasks
  PROVE  task[t].rec \in Nat /\ task[t].flag \in BOOLEAN
BY DEF Types, TaskState

LEMMA RecordTypes ==
  ASSUME Types, NEW t \in Tasks, Record(t)
  PROVE  Types'
<1>1. task[t].rec \in Nat /\ task[t].flag \in BOOLEAN
  BY CarriedTyped
<1>2. store' \in Seq(Nat) /\ count' \in [Kinds \cup {"dropped"} -> Nat] /\ log' \in Seq(Nat)
  <2>1. CASE tap.is = "stats"
    BY <2>1 DEF Record, Types
  <2>2. CASE tap.is # "stats"
    <3>1. Push(task[t].rec, Full(task[t].flag)) /\ log' = Append(log, task[t].rec)
      BY <2>2 DEF Record
    <3>2. QED
      <4>1. store' \in Seq(Nat) /\ count' \in [Kinds \cup {"dropped"} -> Nat]
        BY <1>1, <3>1, PushTypes
      <4>2. log' \in Seq(Nat)
        BY <1>1, <3>1 DEF Types
      <4>3. QED
        BY <4>1, <4>2
  <2>3. QED
    BY <2>1, <2>2
<1>3. task' \in [Tasks -> TaskState]
  BY TaskTyped, IdleTyped DEF Record
<1>4. QED
  BY <1>2, <1>3 DEF Types, Record, pipeline

LEMMA SendTypes ==
  ASSUME Types, NEW t \in Tasks, Send(t)
  PROVE  Types'
<1>1. task[t].rec \in Nat
  BY CarriedTyped
<1>2. inbox' \in Seq(Nat) /\ log' \in Seq(Nat) /\ count' \in [Kinds \cup {"dropped"} -> Nat]
  <2>1. CASE recorder = "running"
    <3>1. count' = count /\ inbox' = Append(inbox, task[t].rec) /\ log' = Append(log, task[t].rec)
      BY <2>1 DEF Send
    <3>2. QED
      BY <1>1, <3>1 DEF Types
  <2>2. CASE recorder # "running"
    <3>1. count' = [count EXCEPT !.dropped = @ + 1] /\ inbox' = inbox
             /\ log' = Append(log, task[t].rec)
      BY <2>2 DEF Send
    <3>2. count' \in [Kinds \cup {"dropped"} -> Nat]
      BY <3>1, OneDropped DEF Types
    <3>3. inbox' \in Seq(Nat) /\ log' \in Seq(Nat)
      BY <1>1, <3>1 DEF Types
    <3>4. QED
      BY <3>2, <3>3
  <2>3. QED
    BY <2>1, <2>2
<1>3. task' \in [Tasks -> TaskState]
  BY TaskTyped, IdleTyped DEF Send
<1>4. QED
  BY <1>2, <1>3 DEF Types, Send

LEMMA ResetTypes ==
  ASSUME Types, Reset
  PROVE  Types'
<1>1. Counters[resetting + 1] \in Kinds \cup {"dropped"}
  BY DEF Types, Counters, Kinds
<1>2. count' \in [Kinds \cup {"dropped"} -> Nat]
  BY <1>1 DEF Types, Reset
<1>3. resetting' \in 0..3
  BY DEF Types, Reset
<1>4. cleared' \in Nat
  BY DEF Types, Reset
<1>5. QED
  BY <1>2, <1>3, <1>4 DEF Types, Reset, pipeline

\* Stale calls are counted.
StaleTasks == {t \in Tasks : task[t].pc = "read" /\ task[t].flag}

LEMMA StaleFinite == IsFiniteSet(StaleTasks) /\ Stale = Cardinality(StaleTasks) /\ Stale \in Nat
<1>1. IsFiniteSet(StaleTasks)
  BY RecordingConstants, FS_Subset DEF StaleTasks
<1>2. Stale = Cardinality(StaleTasks)
  BY DEF Stale, StaleTasks
<1>3. QED
  BY <1>1, <1>2, FS_CardinalityType

LEMMA SetModeTypes ==
  ASSUME Types, NEW m \in BOOLEAN, SetMode(m)
  PROVE  Types'
<1>1. high' \in Nat
  BY StaleFinite DEF Types, SetMode
<1>2. unbounded' \in BOOLEAN
  BY Zenon DEF SetMode
<1>3. QED
  BY <1>1, <1>2 DEF Types, SetMode, pipeline

LEMMA ProgramTypes ==
  ASSUME Types, Drain \/ DropHandle \/ Detach
  PROVE  Types'
<1>1. CASE Drain
  BY <1>1 DEF Types, Drain, pipeline
<1>2. CASE DropHandle
  BY <1>2 DEF Types, DropHandle, capture, history
<1>3. CASE Detach
  BY <1>3 DEF Types, Detach, capture, history
<1>4. QED
  BY <1>1, <1>2, <1>3

LEMMA OnPacketTypes ==
  ASSUME Types, OnPacket
  PROVE  Types'
<1>1. inbox' \in Seq(Nat) /\ Head(inbox) \in Nat
  BY DEF Types, OnPacket
<1>2. queue' \in Seq(Nat) /\ count' \in [Kinds \cup {"dropped"} -> Nat]
  <2>1. CASE writer \in {"running", "failing"} /\ Len(queue) < QueueSize
    <3>1. count' = count /\ queue' = Append(queue, Head(inbox))
      BY <2>1 DEF OnPacket
    <3>2. QED
      BY <1>1, <3>1 DEF Types
  <2>2. CASE ~(writer \in {"running", "failing"} /\ Len(queue) < QueueSize)
    <3>1. count' = [count EXCEPT !.dropped = @ + 1] /\ queue' = queue
      BY <2>2 DEF OnPacket
    <3>2. QED
      BY <3>1, OneDropped DEF Types
  <2>3. QED
    BY <2>1, <2>2
<1>3. QED
  BY <1>1, <1>2 DEF Types, OnPacket, history

\* A sequence cut in two.
LEMMA CutInTwo ==
  ASSUME NEW q \in Seq(Nat), NEW n \in 0..Len(q)
  PROVE  /\ SubSeq(q, 1, n) \in Seq(Nat) /\ SubSeq(q, n + 1, Len(q)) \in Seq(Nat)
         /\ Len(SubSeq(q, 1, n)) = n /\ Len(SubSeq(q, n + 1, Len(q))) = Len(q) - n
         /\ SubSeq(q, 1, n) \o SubSeq(q, n + 1, Len(q)) = q
<1>1. Len(q) \in Nat
  OBVIOUS
<1>2. 1 \in 1..Len(q) + 1 /\ n \in 1 - 1..Len(q) /\ Len(q) \in n..Len(q)
  BY <1>1
<1>3. SubSeq(q, 1, n) \o SubSeq(q, n + 1, Len(q)) = SubSeq(q, 1, Len(q))
  BY <1>2, ConcatAdjacentSubSeq
<1>4. SubSeq(q, 1, Len(q)) = q
  BY SubSeqFull
<1>5. /\ SubSeq(q, 1, n) \in Seq(Nat) /\ SubSeq(q, n + 1, Len(q)) \in Seq(Nat)
      /\ Len(SubSeq(q, 1, n)) = n /\ Len(SubSeq(q, n + 1, Len(q))) = Len(q) - n
  BY <1>1
<1>6. QED
  BY <1>3, <1>4, <1>5

LEMMA ThreeTogether ==
  ASSUME NEW a \in Seq(Nat), NEW b \in Seq(Nat), NEW c \in Seq(Nat)
  PROVE  (a \o b) \o c = a \o (b \o c)
OBVIOUS

\* A flush moves lines from the BufWriter to the disk.
LEMMA FlushMoves ==
  ASSUME file \in Seq(Nat), NEW s \in Seq(Nat), NEW n \in 0..Len(s), Flush(s, n)
  PROVE  file' \in Seq(Nat) /\ buffered' \in Seq(Nat) /\ Out' = file \o s
<1> DEFINE a == SubSeq(s, 1, n)
           b == SubSeq(s, n + 1, Len(s))
<1>1. a \in Seq(Nat) /\ b \in Seq(Nat) /\ a \o b = s
  BY CutInTwo
<1>2. file' = file \o a /\ buffered' = b
  BY DEF Flush
<1> HIDE DEF a, b
<1>3. (file \o a) \o b = file \o (a \o b)
  BY <1>1, ThreeTogether
<1>4. file \o a \in Seq(Nat)
  BY <1>1, ConcatProperties
<1>5. QED
  BY <1>1, <1>2, <1>3, <1>4 DEF Out

\* What the steps of the writing thread do to what it has taken.
LEMMA LineTaken ==
  ASSUME Types, queue # <<>>
  PROVE  /\ Head(queue) \in Nat /\ Append(buffered, Head(queue)) \in Seq(Nat)
         /\ Len(Append(buffered, Head(queue))) = Len(buffered) + 1
         /\ file \o Append(buffered, Head(queue)) = Append(Out, Head(queue))
<1> DEFINE h == Head(queue)
<1>1. h \in Nat /\ buffered \in Seq(Nat) /\ file \in Seq(Nat)
  BY DEF Types
<1> HIDE DEF h
<1>2. Append(buffered, h) = buffered \o <<h>> /\ <<h>> \in Seq(Nat)
  BY <1>1, AppendIsConcat
<1>3. file \o (buffered \o <<h>>) = (file \o buffered) \o <<h>>
  BY <1>1, <1>2, ThreeTogether
<1>4. file \o buffered \in Seq(Nat)
  BY <1>1, ConcatProperties
<1>5. Append(file \o buffered, h) = (file \o buffered) \o <<h>>
  BY <1>1, <1>4, AppendIsConcat
<1>6. Append(buffered, h) \in Seq(Nat) /\ Len(Append(buffered, h)) = Len(buffered) + 1
  BY <1>1, AppendProperties
<1>7. QED
  BY <1>1, <1>2, <1>3, <1>5, <1>6 DEF h, Out

LEMMA WriteLineMoves ==
  ASSUME Types, WriteLine
  PROVE  /\ file' \in Seq(Nat) /\ buffered' \in Seq(Nat)
         /\ Out' = Append(Out, Head(queue)) /\ queue' = Tail(queue) /\ queue # <<>>
<1> DEFINE lines == Append(buffered, Head(queue))
<1>1. queue # <<>> /\ queue' = Tail(queue) /\ \E n \in {0, Len(buffered), Len(lines)} : Flush(lines, n)
  BY DEF WriteLine
<1>2. PICK n \in {0, Len(buffered), Len(lines)} : Flush(lines, n)
  BY <1>1
<1>3. lines \in Seq(Nat) /\ Len(lines) = Len(buffered) + 1 /\ file \o lines = Append(Out, Head(queue))
  BY <1>1, LineTaken
<1>4. file \in Seq(Nat) /\ Len(buffered) \in Nat
  BY DEF Types
<1> HIDE DEF lines
<1>5. n \in 0..Len(lines)
  BY <1>2, <1>3, <1>4
<1>6. file' \in Seq(Nat) /\ buffered' \in Seq(Nat) /\ Out' = file \o lines
  BY <1>2, <1>3, <1>4, <1>5, FlushMoves
<1>7. QED
  BY <1>1, <1>3, <1>6

LEMMA WriteFailsMoves ==
  ASSUME Types, WriteFails
  PROVE  /\ file' \in Seq(Nat) /\ buffered' \in Seq(Nat)
         /\ \/ Out' = Out /\ lost' = lost + 1
            \/ Out' = Append(Out, Head(queue)) /\ lost' = lost
         /\ queue' = Tail(queue) /\ queue # <<>>
<1> DEFINE lines == Append(buffered, Head(queue))
<1>1. queue # <<>> /\ queue' = Tail(queue)
  BY DEF WriteFails
<1>2. PICK n \in 0..Len(buffered) :
        (Flush(buffered, n) /\ lost' = lost + 1) \/ (Flush(lines, n) /\ lost' = lost)
  BY DEF WriteFails
<1>3. lines \in Seq(Nat) /\ Len(lines) = Len(buffered) + 1 /\ file \o lines = Append(Out, Head(queue))
  BY <1>1, LineTaken
<1>4. file \in Seq(Nat) /\ buffered \in Seq(Nat) /\ Len(buffered) \in Nat
  BY DEF Types
<1> HIDE DEF lines
<1>5. CASE Flush(buffered, n) /\ lost' = lost + 1
  <2>1. file' \in Seq(Nat) /\ buffered' \in Seq(Nat) /\ Out' = file \o buffered
    BY <1>4, <1>5, FlushMoves
  <2>2. QED
    BY <1>1, <1>5, <2>1 DEF Out
<1>6. CASE Flush(lines, n) /\ lost' = lost
  <2>1. n \in 0..Len(lines)
    BY <1>3, <1>4
  <2>2. file' \in Seq(Nat) /\ buffered' \in Seq(Nat) /\ Out' = file \o lines
    BY <1>3, <1>4, <1>6, <2>1, FlushMoves
  <2>3. QED
    BY <1>1, <1>3, <1>6, <2>2
<1>7. QED
  BY <1>2, <1>5, <1>6

\* The last flush keeps a prefix of what was taken, and counts the rest as lost.
LEMMA WriterEndsMoves ==
  ASSUME Types, WriterEnds
  PROVE  /\ file' \in Seq(Nat) /\ buffered' = <<>> /\ queue' = <<>>
         /\ \E m \in 0..Len(Out) : /\ Out' = SubSeq(Out, 1, m) /\ Len(Out') = m
                                   /\ lost' = lost + (Len(Out) - m) + Len(queue)
                                   /\ m # Len(Out) => writer' = "failed"
         /\ writer' \in {"ended", "failed"}
         /\ writer' = "ended" => writer = "running" /\ queue = <<>> /\ recorder = "ended"
<1>1. buffered' = <<>> /\ queue' = <<>>
  BY DEF WriterEnds
<1>2. PICK n \in 0..Len(buffered) :
        /\ file' = file \o SubSeq(buffered, 1, n)
        /\ lost' = lost + (Len(buffered) - n) + Len(queue)
        /\ writer' = IF writer = "running" /\ n = Len(buffered) THEN "ended" ELSE "failed"
  BY DEF WriterEnds
<1>3. file \in Seq(Nat) /\ buffered \in Seq(Nat) /\ Len(buffered) \in Nat /\ Len(file) \in Nat
  BY DEF Types
<1> DEFINE a == SubSeq(buffered, 1, n)
           b == SubSeq(buffered, n + 1, Len(buffered))
<1>4. a \in Seq(Nat) /\ b \in Seq(Nat) /\ a \o b = buffered /\ Len(a) = n
  BY <1>3, CutInTwo
<1>5. file' = file \o a
  BY <1>2
<1> HIDE DEF a, b
<1>6. file \o a \in Seq(Nat) /\ Len(file \o a) = Len(file) + n
  BY <1>3, <1>4, ConcatProperties
<1>7. Out = (file \o a) \o b
  <2>1. (file \o a) \o b = file \o (a \o b)
    BY <1>3, <1>4, ThreeTogether
  <2>2. QED
    BY <1>4, <2>1 DEF Out
<1> DEFINE c == file \o a
<1>8. c \in Seq(Nat) /\ Len(c) = Len(file) + n /\ Out = c \o b /\ file' = c
  BY <1>5, <1>6, <1>7
<1>9. Len(Out) = Len(file) + Len(buffered)
  BY <1>3, ConcatProperties DEF Out
<1>10. Out' = c
  <2>1. file' \o <<>> = file'
    BY <1>8, ConcatEmptySeq
  <2>2. QED
    BY <1>1, <1>8, <2>1 DEF Out
<1> HIDE DEF c
<1>11. SubSeq(c \o b, 1, Len(c)) = c
  BY <1>4, <1>8
<1>12. Len(c) \in 0..Len(Out) /\ Len(Out) - Len(c) = Len(buffered) - n
       /\ (Len(c) = Len(Out) <=> n = Len(buffered))
  <2>1. n \in Nat /\ n <= Len(buffered) /\ Len(buffered) \in Nat /\ Len(file) \in Nat
    BY <1>3
  <2>2. Len(c) = Len(file) + n /\ Len(Out) = Len(file) + Len(buffered)
    BY <1>8, <1>9
  <2>3. QED
    BY <2>1, <2>2
<1>13. \E m \in 0..Len(Out) : /\ Out' = SubSeq(Out, 1, m) /\ Len(Out') = m
                              /\ lost' = lost + (Len(Out) - m) + Len(queue)
                              /\ m # Len(Out) => writer' = "failed"
  <2>1. Out' = SubSeq(Out, 1, Len(c)) /\ Len(Out') = Len(c)
    BY <1>8, <1>10, <1>11
  <2>2. lost' = lost + (Len(Out) - Len(c)) + Len(queue)
    BY <1>2, <1>12
  <2>3. Len(c) # Len(Out) => writer' = "failed"
    BY <1>2, <1>12
  <2>4. QED
    BY <1>12, <2>1, <2>2, <2>3
<1>14. /\ writer' \in {"ended", "failed"}
       /\ writer' = "ended" => writer = "running" /\ queue = <<>> /\ recorder = "ended"
  BY <1>2 DEF WriterEnds
<1>15. QED
  BY <1>1, <1>8, <1>13, <1>14

LEMMA OutTyped == Types => Out \in Seq(Nat)
BY ConcatProperties DEF Types, Out

LEMMA WriterTypes ==
  ASSUME Types, RecorderEnds \/ WriteLine \/ WriteFails \/ WriterEnds
  PROVE  Types'
<1>1. CASE RecorderEnds
  BY <1>1 DEF Types, RecorderEnds, capture
<1>2. CASE WriteLine
  BY <1>2, WriteLineMoves DEF Types, WriteLine, capture, history
<1>3. CASE WriteFails
  <2>1. /\ file' \in Seq(Nat) /\ buffered' \in Seq(Nat) /\ queue' = Tail(queue) /\ queue # <<>>
        /\ lost' = lost \/ lost' = lost + 1
    BY <1>3, WriteFailsMoves
  <2>2. QED
    BY <1>3, <2>1 DEF Types, WriteFails, capture
<1>4. CASE WriterEnds
  <2>1. file' \in Seq(Nat) /\ buffered' = <<>> /\ queue' = <<>>
    BY <1>4, WriterEndsMoves
  <2>2. lost' \in Nat
    <3>1. PICK m \in 0..Len(Out) : lost' = lost + (Len(Out) - m) + Len(queue)
      BY <1>4, WriterEndsMoves
    <3>2. Len(Out) \in Nat
      BY OutTyped
    <3>3. QED
      BY <3>1, <3>2 DEF Types
  <2>3. QED
    BY <1>4, <2>1, <2>2 DEF Types, WriterEnds, capture
<1>5. QED
  BY <1>1, <1>2, <1>3, <1>4

LEMMA NextTypes ==
  ASSUME Types, [Next]_vars
  PROVE  Types'
<1>1. CASE UNCHANGED vars
  BY <1>1 DEF Types, vars, capture, pipeline, history
<1>2. CASE Next
  BY <1>2, CallTypes, CountTypes, ReadModeTypes, RecordTypes, SendTypes, ResetTypes,
     SetModeTypes, ProgramTypes, OnPacketTypes, WriterTypes DEF Next
<1>3. QED
  BY <1>1, <1>2

----------------------------------------------------------------------------
(* What each tap leaves alone *)

LEMMA TapStays == ASSUME [Next]_vars PROVE tap' = tap
BY DEF Next, vars, Call, Count, ReadMode, Record, Send, Drain, Reset, SetMode, DropHandle, Detach,
       OnPacket, RecorderEnds, WriteLine, WriteFails, WriterEnds

\* Where one task moves the others stay.
LEMMA OneMoves ==
  ASSUME Types, NEW t \in Tasks, NEW v \in TaskState, task' = [task EXCEPT ![t] = v]
  PROVE  \A u \in Tasks : task'[u] = IF u = t THEN v ELSE task[u]
BY DEF Types

\* The moves of the tasks, in a form the proofs below share.
LEMMA CallMoves ==
  ASSUME Types, NEW t \in Tasks, NEW k \in Kinds, Call(t, k)
  PROVE  /\ task[t].pc = "idle"
         /\ task'[t].pc = "called" /\ task'[t].rec = clock + 1 /\ task'[t].flag = FALSE
         /\ \A u \in Tasks : u # t => task'[u] = task[u]
<1>1. [pc |-> "called", rec |-> clock', kind |-> k, flag |-> FALSE] \in TaskState
  BY DEF Types, Call, TaskState
<1>2. \A u \in Tasks : task'[u] = IF u = t THEN [pc |-> "called", rec |-> clock', kind |-> k, flag |-> FALSE]
                                  ELSE task[u]
  BY <1>1, OneMoves DEF Call
<1>3. QED
  BY <1>2 DEF Call

LEMMA CountMoves ==
  ASSUME Types, NEW t \in Tasks, Count(t)
  PROVE  /\ task[t].pc = "called"
         /\ task'[t].flag => task[t].flag
         /\ \/ task'[t].pc = "idle" /\ task'[t].flag = FALSE
            \/ task'[t].pc = "read" /\ task'[t].rec = task[t].rec /\ BusCapture
         /\ \A u \in Tasks : u # t => task'[u] = task[u]
<1>1. task[t] \in TaskState /\ [task[t] EXCEPT !.pc = "read"] \in TaskState
  BY DEF Types, TaskState
<1>2. task[t].pc = "called" /\ \A u \in Tasks : u # t => task'[u] = task[u]
  BY DEF Count, Types
<1>3. CASE BusCapture
  <2>1. task'[t] = [task[t] EXCEPT !.pc = "read"]
    BY <1>3, Zenon DEF Count, Types
  <2>2. task'[t].pc = "read" /\ task'[t].rec = task[t].rec /\ task'[t].flag = task[t].flag
    BY <2>1, <1>1 DEF TaskState
  <2>3. task'[t].flag => task[t].flag
    BY <2>2, Zenon
  <2>4. QED
    BY <1>2, <1>3, <2>2, <2>3, Zenon
<1>4. CASE ~BusCapture
  <2>1. task'[t] = Idle
    BY <1>4, Zenon DEF Count, Types
  <2>2. QED
    BY <2>1, <1>2, IdleTyped, Zenon
<1>5. QED
  BY <1>3, <1>4

LEMMA ReadModeMoves ==
  ASSUME Types, NEW t \in Tasks, ReadMode(t)
  PROVE  /\ tap.is = "ring" /\ task[t].pc = "called"
         /\ task'[t].pc = "read" /\ task'[t].rec = task[t].rec /\ task'[t].flag = unbounded
         /\ \A u \in Tasks : u # t => task'[u] = task[u]
<1>1. task[t] \in TaskState
  BY DEF Types
<1>2. [task[t] EXCEPT !.pc = "read", !.flag = unbounded] \in TaskState
  BY <1>1 DEF Types, TaskState
<1>3. task' = [task EXCEPT ![t] = [task[t] EXCEPT !.pc = "read", !.flag = unbounded]]
  BY DEF ReadMode, Types
<1>4. task'[t] = [task[t] EXCEPT !.pc = "read", !.flag = unbounded]
         /\ \A u \in Tasks : u # t => task'[u] = task[u]
  BY <1>3, Zenon DEF Types
<1>5. task'[t].pc = "read" /\ task'[t].rec = task[t].rec
  BY <1>1, <1>4 DEF TaskState
<1>6. task'[t].flag = unbounded
  BY <1>1, <1>4, Zenon DEF TaskState
<1>7. tap.is = "ring" /\ task[t].pc = "called"
  BY DEF ReadMode
<1>8. QED
  BY <1>4, <1>5, <1>6, <1>7, Zenon

LEMMA TakenMoves ==
  ASSUME Types, NEW t \in Tasks, Record(t) \/ Send(t)
  PROVE  /\ task[t].pc # "idle" /\ task'[t].pc = "idle" /\ task'[t].flag = FALSE
         /\ \A u \in Tasks : u # t => task'[u] = task[u]
<1>1. task' = [task EXCEPT ![t] = Idle]
  BY DEF Record, Send
<1>2. task'[t] = Idle /\ \A u \in Tasks : u # t => task'[u] = task[u]
  BY <1>1, OneMoves, IdleTyped
<1>3. QED
  BY <1>2, IdleTyped DEF Record, Send

\* A step that leaves the tasks, the mode and the inbox alone.
LEMMA KeptFrame ==
  ASSUME Kept, UNCHANGED <<tap, task, unbounded, inbox, resetting>>
  PROVE  Kept'
BY DEF Kept, BusCapture

LEMMA CarriedKept ==
  ASSUME Types, Kept, NEW t \in Tasks,
         tap' = tap, unbounded' = unbounded, resetting' = resetting,
         tap.is # "channel" => inbox' = inbox,
         \A u \in Tasks : u # t => task'[u] = task[u],
         task'[t].pc = "read" => tap.is \notin {"channel", "traffic"},
         task'[t].flag => tap.is = "ring" /\ task'[t].pc = "read"
  PROVE  Kept'
BY DEF Kept, BusCapture

LEMMA NextKept ==
  ASSUME Types, Kept, [Next]_vars
  PROVE  Kept'
<1>1. CASE UNCHANGED vars
  BY <1>1, KeptFrame DEF vars, capture, pipeline
<1>2. ASSUME NEW t \in Tasks, NEW k \in Kinds, Call(t, k) PROVE Kept'
  BY <1>2, CallMoves, CarriedKept DEF Call, capture, pipeline
<1>3. ASSUME NEW t \in Tasks, Count(t) PROVE Kept'
  <2>1. task[t].flag => FALSE
    BY <1>3 DEF Count, Kept
  <2>2. task'[t].flag => FALSE
    BY <1>3, <2>1, CountMoves, Zenon
  <2>3. task'[t].pc = "read" => tap.is \notin {"channel", "traffic"}
    BY <1>3, CountMoves DEF BusCapture
  <2>4. QED
    BY <1>3, <2>2, <2>3, CountMoves, CarriedKept DEF Count, pipeline
<1>4. ASSUME NEW t \in Tasks, ReadMode(t) PROVE Kept'
  BY <1>4, ReadModeMoves, CarriedKept DEF ReadMode, capture, pipeline
<1>5. ASSUME NEW t \in Tasks, Record(t) PROVE Kept'
  BY <1>5, TakenMoves, CarriedKept DEF Record, pipeline
<1>6. ASSUME NEW t \in Tasks, Send(t) PROVE Kept'
  BY <1>6, TakenMoves, CarriedKept DEF Send
<1>7. CASE Drain
  BY <1>7, KeptFrame DEF Drain, pipeline
<1>8. CASE Reset
  <2>1. resetting' = 3 => BusCapture
    BY <1>8 DEF Reset, Types
  <2>2. QED
    BY <1>8, <2>1 DEF Reset, Kept, BusCapture, pipeline
<1>9. ASSUME NEW m \in BOOLEAN, SetMode(m) PROVE Kept'
  BY <1>9 DEF SetMode, Kept, BusCapture, pipeline
<1>10. CASE DropHandle \/ Detach
  BY <1>10, KeptFrame DEF DropHandle, Detach, capture
<1>11. CASE OnPacket \/ RecorderEnds
  BY <1>11 DEF OnPacket, RecorderEnds, Kept, BusCapture, capture
<1>12. CASE WriteLine \/ WriteFails \/ WriterEnds
  BY <1>12, KeptFrame DEF WriteLine, WriteFails, WriterEnds, capture
<1>13. QED
  BY <1>1, <1>2, <1>3, <1>4, <1>5, <1>6, <1>7, <1>8, <1>9, <1>10, <1>11, <1>12 DEF Next

----------------------------------------------------------------------------
(* The numbers of the records *)

LEMMA NumberedFrame ==
  ASSUME Numbered, UNCHANGED <<task, clock, log>>
  PROVE  Numbered'
BY DEF Numbered

\* A task that goes on with the record it carries.
LEMMA CarriedNumbered ==
  ASSUME Types, Numbered, NEW t \in Tasks,
         clock' = clock, log' = log,
         task[t].pc # "idle",
         task'[t].pc # "idle" => task'[t].rec = task[t].rec,
         \A u \in Tasks : u # t => task'[u] = task[u]
  PROVE  Numbered'
<1>1. \A u \in Tasks : task'[u].pc # "idle" => task[u].pc # "idle" /\ task'[u].rec = task[u].rec
  OBVIOUS
<1>2. QED
  BY <1>1 DEF Numbered

LEMMA CallNumbered ==
  ASSUME Types, Numbered, NEW t \in Tasks, NEW k \in Kinds, Call(t, k)
  PROVE  Numbered'
<1>1. clock' = clock + 1 /\ log' = log
  BY DEF Call, history
<1>2. task'[t].rec = clock + 1 /\ \A u \in Tasks : u # t => task'[u] = task[u]
  BY CallMoves
<1>3. \A u \in Tasks : u # t /\ task[u].pc # "idle" => task[u].rec \in Nat /\ task[u].rec <= clock
  BY CarriedTyped DEF Numbered
<1>4. \A a \in 1..Len(log) : log[a] \in Nat /\ log[a] <= clock
  BY DEF Numbered, Types
<1>5. clock \in Nat
  BY DEF Types
<1>6. ASSUME NEW u \in Tasks, task'[u].pc # "idle"
      PROVE  /\ task'[u].rec <= clock'
             /\ \A a \in 1..Len(log') : log'[a] # task'[u].rec
             /\ \A w \in Tasks : w # u /\ task'[w].pc # "idle" => task'[w].rec # task'[u].rec
  <2>1. CASE u = t
    BY <1>1, <1>2, <1>3, <1>4, <1>5, <2>1
  <2>2. CASE u # t
    <3>1. task[u].pc # "idle" /\ task'[u].rec = task[u].rec
      BY <1>2, <1>6, <2>2
    <3>2. QED
      BY <1>1, <1>2, <1>3, <1>5, <2>2, <3>1 DEF Numbered
  <2>3. QED
    BY <2>1, <2>2
<1>7. QED
  BY <1>1, <1>4, <1>5, <1>6 DEF Numbered

\* A record moves from the task that carries it to the end of the log.
LEMMA TakenNumbered ==
  ASSUME Types, Numbered, NEW t \in Tasks,
         clock' = clock, log' = Append(log, task[t].rec),
         task[t].pc # "idle", task'[t].pc = "idle",
         \A u \in Tasks : u # t => task'[u] = task[u]
  PROVE  Numbered'
<1>1. task[t].rec \in Nat /\ log \in Seq(Nat)
  BY CarriedTyped DEF Types
<1>2. /\ Len(log') = Len(log) + 1 /\ log'[Len(log) + 1] = task[t].rec
      /\ \A a \in 1..Len(log) : log'[a] = log[a]
  BY <1>1
<1>3. \A a \in 1..Len(log') : a \in 1..Len(log) \/ a = Len(log) + 1
  BY <1>1, <1>2
<1>4. \A a \in 1..Len(log') : log'[a] <= clock'
  BY <1>2, <1>3 DEF Numbered
<1>5. \A a, b \in 1..Len(log') : log'[a] = log'[b] => a = b
  BY <1>2, <1>3 DEF Numbered
<1>6. ASSUME NEW u \in Tasks, task'[u].pc # "idle"
      PROVE  /\ task'[u].rec <= clock'
             /\ \A a \in 1..Len(log') : log'[a] # task'[u].rec
             /\ \A w \in Tasks : w # u /\ task'[w].pc # "idle" => task'[w].rec # task'[u].rec
  <2>1. u # t /\ task'[u] = task[u]
    BY <1>6
  <2>2. QED
    BY <1>2, <1>3, <1>6, <2>1 DEF Numbered
<1>7. QED
  BY <1>4, <1>5, <1>6 DEF Numbered

LEMMA NextNumbered ==
  ASSUME Types, Numbered, [Next]_vars
  PROVE  Numbered'
<1>1. CASE UNCHANGED vars
  BY <1>1, NumberedFrame DEF vars, history
<1>2. ASSUME NEW t \in Tasks, NEW k \in Kinds, Call(t, k) PROVE Numbered'
  BY <1>2, CallNumbered
<1>3. ASSUME NEW t \in Tasks, Count(t) \/ ReadMode(t) PROVE Numbered'
  BY <1>3, CountMoves, ReadModeMoves, CarriedNumbered DEF Count, ReadMode, history
<1>4. ASSUME NEW t \in Tasks, Record(t) PROVE Numbered'
  <2>1. CASE tap.is = "stats"
    BY <1>4, <2>1, TakenMoves, CarriedNumbered DEF Record
  <2>2. CASE tap.is # "stats"
    BY <1>4, <2>2, TakenMoves, TakenNumbered DEF Record
  <2>3. QED
    BY <2>1, <2>2
<1>5. ASSUME NEW t \in Tasks, Send(t) PROVE Numbered'
  BY <1>5, TakenMoves, TakenNumbered DEF Send
<1>6. CASE Drain \/ Reset \/ DropHandle \/ Detach
  BY <1>6, NumberedFrame DEF Drain, Reset, DropHandle, Detach, history
<1>7. ASSUME NEW m \in BOOLEAN, SetMode(m) PROVE Numbered'
  BY <1>7, NumberedFrame DEF SetMode
<1>8. CASE OnPacket \/ RecorderEnds \/ WriteLine \/ WriteFails \/ WriterEnds
  BY <1>8, NumberedFrame DEF OnPacket, RecorderEnds, WriteLine, WriteFails, WriterEnds, history
<1>9. QED
  BY <1>1, <1>2, <1>3, <1>4, <1>5, <1>6, <1>7, <1>8 DEF Next

----------------------------------------------------------------------------
(* What a capture holds *)

IsTail(s, l) ==
  Len(s) <= Len(l) /\ \A i \in 1..Len(s) : s[i] = l[Len(l) - Len(s) + i]

LEMMA TailMeans ==
  ASSUME NEW s \in Seq(Nat), NEW l \in Seq(Nat), Len(s) <= Len(l)
  PROVE  IsTail(s, l) <=> s = SubSeq(l, Len(l) - Len(s) + 1, Len(l))
<1> DEFINE u == SubSeq(l, Len(l) - Len(s) + 1, Len(l))
<1>1. /\ u \in Seq(Nat) /\ Len(u) = Len(s)
      /\ \A i \in 1..Len(s) : u[i] = l[Len(l) - Len(s) + i]
  OBVIOUS
<1>2. ASSUME IsTail(s, l) PROVE s = u
  BY <1>1, <1>2, SMT DEF IsTail
<1>3. ASSUME s = u PROVE IsTail(s, l)
  BY <1>1, <1>3 DEF IsTail
<1>4. QED
  BY <1>2, <1>3

\* A record at the end of both, and perhaps the oldest one gone.
LEMMA TailGrows ==
  ASSUME NEW s \in Seq(Nat), NEW l \in Seq(Nat), NEW r \in Nat, IsTail(s, l)
  PROVE  /\ IsTail(Append(s, r), Append(l, r))
         /\ s # <<>> => IsTail(Append(Tail(s), r), Append(l, r))
<1>1. IsTail(Append(s, r), Append(l, r))
  BY DEF IsTail
<1>2. ASSUME s # <<>> PROVE IsTail(Append(Tail(s), r), Append(l, r))
  <2>1. /\ Tail(s) \in Seq(Nat) /\ Len(Tail(s)) = Len(s) - 1 /\ Len(s) > 0
        /\ \A i \in 1..Len(s) - 1 : Tail(s)[i] = s[i + 1]
    BY <1>2
  <2> DEFINE v == Append(Tail(s), r)
             w == Append(l, r)
  <2>2. /\ Len(v) = Len(s) /\ v[Len(s)] = r
        /\ \A i \in 1..Len(s) - 1 : v[i] = s[i + 1]
    BY <2>1
  <2>3. /\ Len(w) = Len(l) + 1 /\ w[Len(l) + 1] = r
        /\ \A i \in 1..Len(l) : w[i] = l[i]
    OBVIOUS
  <2> HIDE DEF v, w
  <2>4. ASSUME NEW i \in 1..Len(s) PROVE v[i] = w[Len(l) + 1 - Len(s) + i]
    <3>1. CASE i = Len(s)
      BY <2>2, <2>3, <3>1
    <3>2. CASE i # Len(s)
      <4>1. i + 1 \in 1..Len(s) /\ Len(l) + 1 - Len(s) + i \in 1..Len(l) /\ i \in 1..Len(s) - 1
        <5>1. Len(s) \in Nat /\ Len(l) \in Nat /\ Len(s) <= Len(l)
          BY DEF IsTail
        <5>2. QED
          BY <3>2, <5>1
      <4>2. s[i + 1] = l[Len(l) - Len(s) + (i + 1)]
        BY <4>1 DEF IsTail
      <4>3. Len(l) - Len(s) + (i + 1) = Len(l) + 1 - Len(s) + i
        BY <2>1
      <4>4. QED
        BY <2>2, <2>3, <4>1, <4>2, <4>3
    <3>3. QED
      BY <3>1, <3>2
  <2>5. Len(v) <= Len(w)
    BY <2>1, <2>2, <2>3 DEF IsTail
  <2>6. IsTail(v, w)
    BY <2>2, <2>3, <2>4, <2>5 DEF IsTail
  <2>7. QED
    BY <2>6 DEF v, w
<1>3. QED
  BY <1>1, <1>2

\* CaptureAccounts without SubSeq.
Accounts ==
  tap.is # "channel" =>
    /\ Len(log) = Len(store) + taken + count["dropped"] + cleared
    /\ IsTail(store, log)

LEMMA AccountsMeans == Types => (Accounts <=> CaptureAccounts)
<1> SUFFICES ASSUME Types PROVE Accounts <=> CaptureAccounts
  OBVIOUS
<1>1. count.dropped = count["dropped"] /\ count["dropped"] \in Nat
  BY DEF Types
<1>2. Len(log) = Len(store) + taken + count["dropped"] + cleared => Len(store) <= Len(log)
  BY <1>1 DEF Types
<1>3. QED
  BY <1>1, <1>2, TailMeans DEF Types, Accounts, CaptureAccounts

LEMMA AccountsFrame ==
  ASSUME Accounts, count'["dropped"] = count["dropped"], UNCHANGED <<tap, store, log, taken, cleared>>
  PROVE  Accounts'
BY DEF Accounts

LEMMA RecordAccounts ==
  ASSUME Types, Kept, Accounts, NEW t \in Tasks, Record(t), tap.is # "channel"
  PROVE  Accounts'
<1>1. task[t].rec \in Nat /\ task[t].flag \in BOOLEAN
  BY CarriedTyped
<1>2. CASE tap.is = "stats"
  BY <1>2, AccountsFrame DEF Record
<1>3. CASE tap.is # "stats"
  <2>1. Push(task[t].rec, Full(task[t].flag)) /\ log' = Append(log, task[t].rec)
           /\ UNCHANGED <<tap, taken, cleared>>
    BY <1>3 DEF Record
  <2>2. store \in Seq(Nat) /\ log \in Seq(Nat) /\ IsTail(store, log)
    BY DEF Types, Accounts
  <2>3. CASE Full(task[t].flag)
    <3>1. store # <<>>
      BY <1>1, <2>3, FullNotEmpty
    <3>2. store' = Append(Tail(store), task[t].rec) /\ count' = [count EXCEPT !.dropped = @ + 1]
      BY <2>1, <2>3 DEF Push
    <3>3. count'["dropped"] = count["dropped"] + 1
      BY <3>2, OneDropped DEF Types
    <3>4. IsTail(store', log')
      BY <1>1, <2>1, <2>2, <3>1, <3>2, TailGrows
    <3>5. Len(store') = Len(store) /\ Len(log') = Len(log) + 1
      BY <1>1, <2>1, <2>2, <3>1, <3>2
    <3>6. count["dropped"] \in Nat
      BY DEF Types
    <3>7. Len(log) \in Nat /\ Len(store) \in Nat /\ taken \in Nat /\ cleared \in Nat
      BY DEF Types
    <3>8. Len(log) = Len(store) + taken + count["dropped"] + cleared
      BY DEF Accounts
    <3>9. UNCHANGED <<tap, taken, cleared>>
      BY <2>1
    <3>10. Len(log') = Len(store') + taken' + count'["dropped"] + cleared'
      BY <3>3, <3>5, <3>6, <3>7, <3>8, <3>9
    <3>11. QED
      BY <3>4, <3>10 DEF Accounts
  <2>4. CASE ~Full(task[t].flag)
    <3>1. store' = Append(store, task[t].rec) /\ count' = count
      BY <2>1, <2>4 DEF Push
    <3>2. IsTail(store', log')
      BY <1>1, <2>1, <2>2, <3>1, TailGrows
    <3>3. Len(store') = Len(store) + 1 /\ Len(log') = Len(log) + 1
      BY <1>1, <2>1, <2>2, <3>1
    <3>4. count["dropped"] \in Nat
      BY DEF Types
    <3>5. count'["dropped"] = count["dropped"] /\ UNCHANGED <<tap, taken, cleared>>
      BY <2>1, <3>1
    <3>6. Len(log) \in Nat /\ Len(store) \in Nat /\ taken \in Nat /\ cleared \in Nat
      BY DEF Types
    <3>7. Len(log) = Len(store) + taken + count["dropped"] + cleared
      BY DEF Accounts
    <3>8. Len(log') = Len(store') + taken' + count'["dropped"] + cleared'
      BY <3>3, <3>4, <3>5, <3>6, <3>7
    <3>9. QED
      BY <3>2, <3>8 DEF Accounts
  <2>5. QED
    BY <2>3, <2>4
<1>4. QED
  BY <1>2, <1>3

LEMMA ResetAccounts ==
  ASSUME Types, Accounts, Reset
  PROVE  Accounts'
<1>1. count \in [Kinds \cup {"dropped"} -> Nat] /\ count.dropped = count["dropped"]
  BY DEF Types
<1>2. CASE resetting = 3
  <2>1. Counters[resetting + 1] = "dropped"
    BY <1>2 DEF Counters
  <2>2. count'["dropped"] = 0 /\ cleared' = cleared + count["dropped"]
    BY <1>1, <1>2, <2>1 DEF Reset
  <2>3. QED
    BY <1>1, <2>2 DEF Reset, Accounts, Types
<1>3. CASE resetting # 3
  <2>1. Counters[resetting + 1] \in Kinds
    BY <1>3 DEF Counters, Types, Kinds
  <2>2. count'["dropped"] = count["dropped"] /\ cleared' = cleared
    BY <1>1, <1>3, <2>1 DEF Reset, Kinds
  <2>3. QED
    BY <2>2, AccountsFrame DEF Reset
<1>4. QED
  BY <1>2, <1>3

LEMMA NextAccounts ==
  ASSUME Types, Kept, Accounts, [Next]_vars
  PROVE  Accounts'
<1>1. CASE tap.is = "channel"
  BY <1>1, TapStays DEF Accounts
<1>2. CASE tap.is # "channel"
  <2>1. CASE UNCHANGED vars
    BY <2>1, AccountsFrame DEF vars, capture, history
  <2>2. ASSUME NEW t \in Tasks, NEW k \in Kinds, Call(t, k) PROVE Accounts'
    BY <2>2, AccountsFrame DEF Call, capture, history
  <2>3. ASSUME NEW t \in Tasks, Count(t) PROVE Accounts'
    <3>1. task[t].kind \in Kinds
      BY DEF Types, TaskState
    <3>2. count'["dropped"] = count["dropped"]
      BY <2>3, <3>1 DEF Count, Types, Kinds
    <3>3. QED
      BY <2>3, <3>2, AccountsFrame DEF Count, history
  <2>4. ASSUME NEW t \in Tasks, ReadMode(t) PROVE Accounts'
    BY <2>4, AccountsFrame DEF ReadMode, capture, history
  <2>5. ASSUME NEW t \in Tasks, Record(t) PROVE Accounts'
    BY <1>2, <2>5, RecordAccounts
  <2>6. CASE Drain
    <3>1. Len(store') = 0 /\ taken' = taken + Len(store) /\ UNCHANGED <<tap, count, log, cleared>>
      BY <2>6 DEF Drain
    <3>2. QED
      BY <3>1 DEF Accounts, IsTail, Types
  <2>7. CASE Reset
    BY <2>7, ResetAccounts
  <2>8. ASSUME NEW m \in BOOLEAN, SetMode(m) PROVE Accounts'
    BY <2>8, AccountsFrame DEF SetMode
  <2>9. CASE RecorderEnds \/ WriteLine \/ WriteFails \/ WriterEnds
    BY <2>9, AccountsFrame DEF RecorderEnds, WriteLine, WriteFails, WriterEnds, capture, history
  <2>10. ASSUME NEW t \in Tasks PROVE ~Send(t) /\ ~DropHandle /\ ~Detach /\ ~OnPacket
    BY <1>2 DEF Send, DropHandle, Detach, OnPacket, Kept
  <2>11. Next => Drain \/ Reset \/ (\E m \in BOOLEAN : SetMode(m)) \/ RecorderEnds \/ WriteLine
              \/ WriteFails \/ WriterEnds \/ (\E t \in Tasks, k \in Kinds : Call(t, k))
              \/ \E t \in Tasks : Count(t) \/ ReadMode(t) \/ Record(t)
    BY <1>2, <2>10 DEF Next, Send, DropHandle, Detach, OnPacket, Kept
  <2>12. QED
    BY <2>1, <2>2, <2>3, <2>4, <2>5, <2>6, <2>7, <2>8, <2>9, <2>11
<1>3. QED
  BY <1>1, <1>2

----------------------------------------------------------------------------
(* The room that stale calls take *)

\* A task that moves without a change of what it holds of the old mode.
LEMMA StaleStays ==
  ASSUME NEW t \in Tasks,
         \A u \in Tasks : u # t => task'[u] = task[u],
         (task[t].pc = "read" /\ task[t].flag) <=> (task'[t].pc = "read" /\ task'[t].flag)
  PROVE  Stale' = Stale
<1>1. StaleTasks' = StaleTasks
  BY DEF StaleTasks
<1>2. Stale = Cardinality(StaleTasks) /\ Stale' = Cardinality(StaleTasks')
  BY DEF Stale, StaleTasks
<1>3. QED
  BY <1>1, <1>2

LEMMA StaleLeaves ==
  ASSUME NEW t \in Tasks, t \in StaleTasks,
         \A u \in Tasks : u # t => task'[u] = task[u],
         task'[t].pc = "idle"
  PROVE  Stale' = Stale - 1
<1>1. StaleTasks' = StaleTasks \ {t}
  BY DEF StaleTasks
<1>2. Cardinality(StaleTasks \ {t}) = Cardinality(StaleTasks) - 1
  BY StaleFinite, FS_RemoveElement
<1>3. Stale = Cardinality(StaleTasks) /\ Stale' = Cardinality(StaleTasks')
  BY DEF Stale, StaleTasks
<1>4. QED
  BY <1>1, <1>2, <1>3

LEMMA RoomFrame ==
  ASSUME RoomForStale, tap' = tap, Stale' = Stale, UNCHANGED <<store, unbounded, high>>
  PROVE  RoomForStale'
BY DEF RoomForStale

LEMMA RecordRoom ==
  ASSUME Types, Kept, RoomForStale, NEW t \in Tasks, Record(t),
         tap # Limitless, tap.is \in {"bounded", "ring"}, ~unbounded
  PROVE  tap.cap + Stale' <= high /\ Len(store') + Stale' <= high
<1>1. task[t].rec \in Nat /\ task[t].flag \in BOOLEAN
  BY CarriedTyped
<1>2. task[t].pc = "read" /\ task'[t].pc = "idle" /\ \A u \in Tasks : u # t => task'[u] = task[u]
  BY TakenMoves DEF Record
<1>3. Push(task[t].rec, Full(task[t].flag))
  BY DEF Record
<1>4. Len(store') = IF Full(task[t].flag) THEN Len(store) ELSE Len(store) + 1
  BY <1>1, <1>3, PushTypes
<1>5. Len(store) \in Nat /\ tap.cap \in Nat /\ high \in Nat /\ Stale \in Nat
  BY StaleFinite DEF Types
<1>6. tap.cap + Stale <= high /\ Len(store) + Stale <= high
  BY DEF RoomForStale
<1>7. CASE task[t].flag
  <2>1. Stale' = Stale - 1
    BY <1>2, <1>7, StaleLeaves DEF StaleTasks
  <2>2. QED
    BY <1>4, <1>5, <1>6, <2>1
<1>8. CASE ~task[t].flag
  <2>1. Stale' = Stale
    BY <1>2, <1>8, StaleStays
  <2>2. ~Full(task[t].flag) => Len(store) < tap.cap
    BY <1>5, <1>8 DEF Full
  <2>3. QED
    BY <1>4, <1>5, <1>6, <2>1, <2>2
<1>9. QED
  BY <1>7, <1>8

LEMMA NextRoom ==
  ASSUME Types, Kept, RoomForStale, [Next]_vars
  PROVE  RoomForStale'
<1> SUFFICES ASSUME tap # Limitless, tap.is \in {"bounded", "ring"}, ~unbounded' PROVE RoomForStale'
  BY TapStays DEF RoomForStale
<1>1. task' = task => Stale' = Stale
  BY DEF Stale
<1>2. CASE UNCHANGED vars
  BY <1>1, <1>2, RoomFrame DEF vars, capture, history
<1>3. ASSUME NEW t \in Tasks, NEW k \in Kinds, Call(t, k) PROVE RoomForStale'
  <2>1. Stale' = Stale
    BY <1>3, CallMoves, StaleStays
  <2>2. QED
    BY <1>3, <2>1, RoomFrame DEF Call, capture, history
<1>4. ASSUME NEW t \in Tasks, Count(t) PROVE RoomForStale'
  <2>1. ~task[t].flag
    BY <1>4 DEF Count, Kept
  <2>2. Stale' = Stale
    BY <1>4, <2>1, CountMoves, StaleStays
  <2>3. QED
    BY <1>4, <2>2, RoomFrame DEF Count, history
<1>5. ASSUME NEW t \in Tasks, ReadMode(t) PROVE RoomForStale'
  <2>1. ~unbounded /\ UNCHANGED <<tap, store, unbounded, high>>
    BY <1>5 DEF ReadMode, capture, history
  <2>2. Stale' = Stale
    BY <1>5, <2>1, ReadModeMoves, StaleStays
  <2>3. QED
    BY <2>1, <2>2, RoomFrame
<1>6. ASSUME NEW t \in Tasks, Record(t) PROVE RoomForStale'
  <2>1. UNCHANGED <<tap, unbounded, high>>
    BY <1>6 DEF Record
  <2>2. QED
    BY <1>6, <2>1, RecordRoom DEF RoomForStale
<1>7. ASSUME NEW t \in Tasks, Send(t) PROVE FALSE
  BY <1>7 DEF Send
<1>8. CASE Drain
  <2>1. Len(store') = 0 /\ UNCHANGED <<tap, task, unbounded, high>>
    BY <1>8 DEF Drain
  <2>2. tap.cap \in Nat /\ high \in Nat /\ Stale \in Nat
    BY StaleFinite DEF Types
  <2>3. QED
    BY <1>1, <2>1, <2>2 DEF RoomForStale
<1>9. ASSUME NEW m \in BOOLEAN, SetMode(m) PROVE RoomForStale'
  <2>1. /\ UNCHANGED <<tap, task, store>> /\ unbounded' = m
        /\ high' = IF unbounded /\ ~m THEN Stale + (IF Len(store) < tap.cap THEN tap.cap ELSE Len(store))
                   ELSE high
    BY <1>9 DEF SetMode
  <2>2. Len(store) \in Nat /\ tap.cap \in Nat /\ high \in Nat /\ Stale \in Nat
    BY StaleFinite DEF Types
  <2>3. CASE unbounded
    BY <1>1, <2>1, <2>2, <2>3 DEF RoomForStale
  <2>4. CASE ~unbounded
    BY <1>1, <2>1, <2>2, <2>4 DEF RoomForStale
  <2>5. QED
    BY <2>3, <2>4
<1>10. CASE Reset
  BY <1>1, <1>10, RoomFrame DEF Reset
<1>11. CASE DropHandle \/ Detach \/ OnPacket \/ RecorderEnds
  BY <1>1, <1>11, RoomFrame DEF DropHandle, Detach, OnPacket, RecorderEnds, capture, history
<1>12. CASE WriteLine \/ WriteFails \/ WriterEnds
  BY <1>1, <1>12, RoomFrame DEF WriteLine, WriteFails, WriterEnds, capture, history
<1>13. QED
  BY <1>2, <1>3, <1>4, <1>5, <1>6, <1>7, <1>8, <1>9, <1>10, <1>11, <1>12 DEF Next

----------------------------------------------------------------------------
(* The records behind the channel *)

LEMMA BalancedFrame ==
  ASSUME Balanced, count'["dropped"] = count["dropped"],
         UNCHANGED <<tap, log, file, buffered, queue, inbox, lost, writer>>,
         handle' = handle \/ handle' = "dropped"
  PROVE  Balanced'
BY DEF Balanced, Out, Failing

LEMMA SendBalanced ==
  ASSUME Types, Balanced, NEW t \in Tasks, Send(t)
  PROVE  Balanced'
<1>1. task[t].rec \in Nat /\ count["dropped"] \in Nat
  BY CarriedTyped DEF Types
<1>2. /\ Len(log') = Len(log) + 1 /\ tap.is = "channel"
      /\ UNCHANGED <<tap, queue, lost, handle, writer>> /\ Out' = Out
  BY <1>1 DEF Send, Types, Out
<1>3. Len(inbox') + count'["dropped"] = Len(inbox) + count["dropped"] + 1
  <2>1. CASE recorder = "running"
    <3>1. inbox' = Append(inbox, task[t].rec) /\ count' = count
      BY <2>1 DEF Send
    <3>2. Len(inbox') = Len(inbox) + 1 /\ Len(inbox) \in Nat /\ count'["dropped"] = count["dropped"]
      BY <1>1, <3>1 DEF Types
    <3>3. QED
      BY <1>1, <3>2
  <2>2. CASE recorder # "running"
    <3>1. inbox' = inbox /\ count' = [count EXCEPT !.dropped = @ + 1]
      BY <2>2 DEF Send
    <3>2. count'["dropped"] = count["dropped"] + 1
      BY <3>1, OneDropped DEF Types
    <3>3. Len(inbox') = Len(inbox) /\ Len(inbox) \in Nat
      BY <3>1 DEF Types
    <3>4. QED
      BY <1>1, <3>2, <3>3
  <2>3. QED
    BY <2>1, <2>2
<1>4. Len(inbox') \in Nat /\ count'["dropped"] \in Nat
  <2>1. Types'
    BY SendTypes, Zenon
  <2>2. inbox' \in Seq(Nat) /\ count' \in [Kinds \cup {"dropped"} -> Nat]
    BY <2>1, Zenon DEF Types
  <2>3. Len(inbox') \in Nat
    BY <2>2
  <2>4. count'["dropped"] \in Nat
    BY <2>2, Zenon
  <2>5. QED
    BY <2>3, <2>4
<1>5. Len(log) \in Nat /\ Len(Out) \in Nat /\ Len(queue) \in Nat /\ Len(inbox) \in Nat /\ lost \in Nat
  BY OutTyped DEF Types
<1>6. Len(log') = Len(Out') + Len(queue') + Len(inbox') + count'["dropped"] + lost'
  <2>1. Len(log) = Len(Out) + Len(queue) + Len(inbox) + count["dropped"] + lost
    BY <1>2 DEF Balanced
  <2> DEFINE d == count["dropped"]
             e == count'["dropped"]
  <2>2. d \in Nat /\ e \in Nat /\ Len(inbox') + e = Len(inbox) + d + 1
    BY <1>1, <1>3, <1>4
  <2>3. Len(log) = Len(Out) + Len(queue) + Len(inbox) + d + lost
    BY <2>1
  <2> HIDE DEF d, e
  <2>4. Len(log) + 1 = Len(Out) + Len(queue) + Len(inbox') + e + lost
    BY <1>4, <1>5, <2>2, <2>3
  <2>5. QED
    BY <1>2, <2>4 DEF e
<1>7. QED
  BY <1>2, <1>6 DEF Balanced, Failing

LEMMA OnPacketBalanced ==
  ASSUME Types, Balanced, OnPacket
  PROVE  Balanced'
<1>1. Len(inbox') = Len(inbox) - 1 /\ Len(inbox) \in Nat \ {0} /\ Head(inbox) \in Nat
  BY DEF OnPacket, Types
<1>2. UNCHANGED <<tap, log, lost, handle, writer>> /\ Out' = Out
  BY DEF OnPacket, history, Out
<1>3. count["dropped"] \in Nat /\ Len(queue) \in Nat
  BY DEF Types
<1>4. Len(queue') + count'["dropped"] = Len(queue) + count["dropped"] + 1
  <2>1. CASE writer \in {"running", "failing"} /\ Len(queue) < QueueSize
    <3>1. queue' = Append(queue, Head(inbox)) /\ count' = count
      BY <2>1 DEF OnPacket
    <3>2. Len(queue') = Len(queue) + 1 /\ count'["dropped"] = count["dropped"]
      BY <1>1, <3>1 DEF Types
    <3>3. QED
      BY <1>3, <3>2
  <2>2. CASE ~(writer \in {"running", "failing"} /\ Len(queue) < QueueSize)
    <3>1. queue' = queue /\ count' = [count EXCEPT !.dropped = @ + 1]
      BY <2>2 DEF OnPacket
    <3>2. count'["dropped"] = count["dropped"] + 1 /\ Len(queue') = Len(queue)
      BY <3>1, OneDropped DEF Types
    <3>3. QED
      BY <1>3, <3>2
  <2>3. QED
    BY <2>1, <2>2
<1>5. Len(queue') \in Nat /\ count'["dropped"] \in Nat
  BY OnPacketTypes DEF Types
<1>6. Len(log) \in Nat /\ Len(Out) \in Nat /\ lost \in Nat
  BY OutTyped DEF Types
<1>7. ASSUME tap.is = "channel"
      PROVE  Len(log') = Len(Out') + Len(queue') + Len(inbox') + count'["dropped"] + lost'
  <2>1. Len(log) = Len(Out) + Len(queue) + Len(inbox) + count["dropped"] + lost
    BY <1>7 DEF Balanced
  <2>2. Len(inbox') \in Nat
    BY <1>1
  <2> DEFINE d == count["dropped"]
             e == count'["dropped"]
  <2>3. d \in Nat /\ e \in Nat /\ Len(queue') + e = Len(queue) + d + 1
    BY <1>3, <1>4, <1>5
  <2>4. Len(log) = Len(Out) + Len(queue) + Len(inbox) + d + lost
    BY <2>1
  <2> HIDE DEF d, e
  <2>5. Len(log) = Len(Out) + Len(queue') + Len(inbox') + e + lost
    BY <1>1, <1>3, <1>5, <1>6, <2>2, <2>3, <2>4
  <2>6. QED
    BY <1>2, <2>5 DEF e
<1>8. QED
  BY <1>2, <1>7 DEF Balanced, Failing

LEMMA RecorderEndsBalanced ==
  ASSUME Types, Balanced, RecorderEnds
  PROVE  Balanced'
<1>1. UNCHANGED <<tap, log, queue, count, handle, writer>> /\ Out' = Out
         /\ lost' = lost + Len(inbox) /\ inbox' = <<>>
         /\ (handle = "dropped" \/ inbox = <<>>)
  BY DEF RecorderEnds, capture, Out
<1>2. Len(inbox') = 0 /\ Len(inbox) \in Nat /\ (inbox = <<>> => Len(inbox) = 0)
  BY <1>1 DEF Types
<1> DEFINE d == count["dropped"]
<1>3. /\ d \in Nat /\ lost \in Nat /\ Len(log) \in Nat /\ Len(Out) \in Nat /\ Len(queue) \in Nat
      /\ tap.is = "channel" => Len(log) = Len(Out) + Len(queue) + Len(inbox) + d + lost
      /\ count'["dropped"] = d
  BY <1>1, OutTyped DEF Balanced, Types
<1> HIDE DEF d
<1>4. tap.is = "channel" => Len(log') = Len(Out') + Len(queue') + Len(inbox') + d + lost'
  BY <1>1, <1>2, <1>3
<1>5. tap.is = "channel" => (lost' > 0 => handle = "dropped" \/ Failing)
  BY <1>1, <1>2, <1>3 DEF Balanced
<1>6. Failing' <=> Failing
  BY <1>1 DEF Failing
<1>7. QED
  BY <1>1, <1>3, <1>4, <1>5, <1>6 DEF Balanced

LEMMA WriterBalanced ==
  ASSUME Types, Balanced, WriteLine \/ WriteFails \/ WriterEnds
  PROVE  Balanced'
<1>1. UNCHANGED <<tap, log, inbox, count, handle>>
  BY DEF WriteLine, WriteFails, WriterEnds, capture, history
<1> DEFINE d == count["dropped"]
<1>2. /\ d \in Nat /\ lost \in Nat /\ Len(log) \in Nat /\ Len(Out) \in Nat /\ Len(queue) \in Nat
      /\ Len(inbox) \in Nat /\ count'["dropped"] = d
      /\ tap.is = "channel" => Len(log) = Len(Out) + Len(queue) + Len(inbox) + d + lost
  BY <1>1, OutTyped DEF Balanced, Types
<1> HIDE DEF d
<1>3. queue # <<>> => /\ Head(queue) \in Nat /\ Len(Tail(queue)) = Len(queue) - 1
                      /\ Len(Append(Out, Head(queue))) = Len(Out) + 1
  BY OutTyped, AppendProperties DEF Types
<1>4. CASE WriteLine
  <2>1. Len(Out') = Len(Out) + 1 /\ Len(queue') = Len(queue) - 1
    BY <1>3, <1>4, WriteLineMoves
  <2>2. UNCHANGED <<lost, writer>>
    BY <1>4 DEF WriteLine, history
  <2>3. tap.is = "channel" => Len(log') = Len(Out') + Len(queue') + Len(inbox') + d + lost'
    BY <1>1, <1>2, <2>1, <2>2
  <2>4. QED
    BY <1>1, <1>2, <2>2, <2>3 DEF Balanced, Failing
<1>5. CASE WriteFails
  <2>1. Len(Out') + lost' = Len(Out) + lost + 1 /\ Len(queue') = Len(queue) - 1
          /\ Len(Out') \in Nat /\ lost' \in Nat
    <3>1. Len(queue') = Len(queue) - 1 /\ Len(Append(Out, Head(queue))) = Len(Out) + 1
      BY <1>3, <1>5, WriteFailsMoves
    <3>2. \/ Len(Out') = Len(Out) /\ lost' = lost + 1
          \/ Len(Out') = Len(Out) + 1 /\ lost' = lost
      BY <1>5, <3>1, WriteFailsMoves
    <3>3. QED
      BY <1>2, <3>1, <3>2
  <2>2. Failing'
    BY <1>5 DEF WriteFails, Failing
  <2>3. tap.is = "channel" => Len(log') = Len(Out') + Len(queue') + Len(inbox') + d + lost'
    BY <1>1, <1>2, <2>1
  <2>4. QED
    BY <1>1, <1>2, <2>2, <2>3 DEF Balanced
<1>6. CASE WriterEnds
  <2>1. PICK m \in 0..Len(Out) : /\ Len(Out') = m /\ lost' = lost + (Len(Out) - m) + Len(queue)
                                 /\ m # Len(Out) => writer' = "failed"
    BY <1>6, WriterEndsMoves
  <2>2. Len(queue') = 0
    BY <1>6, WriterEndsMoves
  <2>3. tap.is = "channel" => Len(log') = Len(Out') + Len(queue') + Len(inbox') + d + lost'
    BY <1>1, <1>2, <2>1, <2>2
  <2>4. ASSUME tap.is = "channel", lost' > 0 PROVE handle = "dropped" \/ Failing'
    <3>1. CASE writer' = "failed"
      BY <3>1 DEF Failing
    <3>2. CASE writer' = "ended"
      <4>1. m = Len(Out) /\ queue = <<>>
        BY <1>6, <2>1, <3>2, WriterEndsMoves
      <4>2. lost' = lost /\ writer = "running"
        <5>1. Len(queue) = 0
          BY <4>1
        <5>2. writer = "running"
          BY <1>6, <3>2, WriterEndsMoves
        <5>3. QED
          BY <1>2, <2>1, <4>1, <5>1, <5>2
      <4>3. QED
        BY <2>4, <4>2 DEF Balanced, Failing
    <3>3. QED
      BY <1>6, <3>1, <3>2, WriterEndsMoves
  <2>5. QED
    BY <1>1, <1>2, <2>3, <2>4 DEF Balanced
<1>7. QED
  BY <1>4, <1>5, <1>6

LEMMA NextBalanced ==
  ASSUME Types, Kept, Balanced, [Next]_vars
  PROVE  Balanced'
<1>1. CASE tap.is # "channel"
  BY <1>1, TapStays DEF Balanced
<1>2. CASE tap.is = "channel"
  <2>1. CASE UNCHANGED vars
    BY <2>1, BalancedFrame DEF vars, capture, pipeline, history
  <2>2. ASSUME NEW t \in Tasks, NEW k \in Kinds, Call(t, k) PROVE Balanced'
    BY <2>2, BalancedFrame DEF Call, capture, pipeline, history
  <2>3. ASSUME NEW t \in Tasks PROVE ~Count(t) /\ ~ReadMode(t) /\ ~Record(t)
    BY <1>2 DEF Count, ReadMode, Record, BusCapture, Kept
  <2>4. ASSUME NEW m \in BOOLEAN PROVE ~SetMode(m)
    BY <1>2 DEF SetMode
  <2>5. ~Drain /\ ~Reset
    BY <1>2 DEF Drain, Reset, BusCapture
  <2>6. CASE DropHandle \/ Detach
    BY <2>6, BalancedFrame DEF DropHandle, Detach, capture, history
  <2>7. QED
    BY <2>1, <2>2, <2>3, <2>4, <2>5, <2>6, SendBalanced, OnPacketBalanced, RecorderEndsBalanced,
       WriterBalanced DEF Next
<1>3. QED
  BY <1>1, <1>2

----------------------------------------------------------------------------
(* Their order *)

LEMMA OrderGrows ==
  ASSUME NEW l \in Seq(Nat), NEW r \in Nat
  PROVE  /\ Logged(Append(l, r), r)
         /\ \A x : Logged(l, x) => Logged(Append(l, r), x) /\ Before(Append(l, r), x, r)
         /\ \A x, y : Before(l, x, y) => Before(Append(l, r), x, y)
<1> DEFINE m == Append(l, r)
<1>1. Len(m) = Len(l) + 1 /\ m[Len(l) + 1] = r /\ \A a \in 1..Len(l) : m[a] = l[a]
  OBVIOUS
<1>2. Len(l) \in Nat /\ \A a \in 1..Len(l) : a \in 1..Len(m) /\ a < Len(l) + 1
  BY <1>1
<1>3. Len(l) + 1 \in 1..Len(m)
  BY <1>1, <1>2
<1> HIDE DEF m
<1>4. Logged(m, r)
  BY <1>1, <1>3 DEF Logged
<1>5. \A x : Logged(l, x) => Logged(m, x) /\ Before(m, x, r)
  BY <1>1, <1>2, <1>3 DEF Logged, Before
<1>6. \A x, y : Before(l, x, y) => Before(m, x, y)
  BY <1>1, <1>2 DEF Before
<1>7. QED
  BY <1>4, <1>5, <1>6 DEF m

\* The log grows under the lists.
LEMMA ListsKept ==
  ASSUME NEW l \in Seq(Nat), NEW r \in Nat
  PROVE  /\ \A s : Ordered(l, s) => Ordered(Append(l, r), s)
         /\ \A s, u : AllBefore(l, s, u) => AllBefore(Append(l, r), s, u)
BY OrderGrows DEF Ordered, AllBefore

\* A record joins a list at its end.
LEMMA ListJoined ==
  ASSUME NEW l, NEW s \in Seq(Nat), NEW r \in Nat
  PROVE  /\ Ordered(l, s) /\ Logged(l, r) /\ (\A i \in 1..Len(s) : Before(l, s[i], r))
              => Ordered(l, Append(s, r))
         /\ \A u : AllBefore(l, u, s) /\ (\A i \in 1..Len(u) : Before(l, u[i], r))
              => AllBefore(l, u, Append(s, r))
         /\ \A u : AllBefore(l, s, u) /\ (\A i \in 1..Len(u) : Before(l, r, u[i]))
              => AllBefore(l, Append(s, r), u)
<1> DEFINE v == Append(s, r)
<1>1. Len(s) \in Nat /\ Len(v) = Len(s) + 1 /\ v[Len(s) + 1] = r /\ \A i \in 1..Len(s) : v[i] = s[i]
  OBVIOUS
<1> HIDE DEF v
<1>2. \A i \in 1..Len(v) : i \in 1..Len(s) \/ i = Len(s) + 1
  BY <1>1
<1>3. \A i, j \in 1..Len(v) : i < j => i \in 1..Len(s)
  BY <1>1
<1>4. ASSUME Ordered(l, s), Logged(l, r), \A i \in 1..Len(s) : Before(l, s[i], r)
      PROVE  Ordered(l, v)
  <2>1. \A i \in 1..Len(v) : Logged(l, v[i])
    BY <1>1, <1>2, <1>4 DEF Ordered
  <2>2. \A i, j \in 1..Len(v) : i < j => Before(l, v[i], v[j])
    BY <1>1, <1>2, <1>3, <1>4 DEF Ordered
  <2>3. QED
    BY <2>1, <2>2 DEF Ordered
<1>5. ASSUME NEW u, AllBefore(l, u, s), \A i \in 1..Len(u) : Before(l, u[i], r)
      PROVE  AllBefore(l, u, v)
  BY <1>1, <1>2, <1>5 DEF AllBefore
<1>6. ASSUME NEW u, AllBefore(l, s, u), \A i \in 1..Len(u) : Before(l, r, u[i])
      PROVE  AllBefore(l, v, u)
  BY <1>1, <1>2, <1>6 DEF AllBefore
<1>7. QED
  BY <1>4, <1>5, <1>6 DEF v

\* A record leaves a list at its head.
LEMMA ListLeft ==
  ASSUME NEW l, NEW s \in Seq(Nat), s # <<>>
  PROVE  /\ Ordered(l, s) => /\ Ordered(l, Tail(s)) /\ Logged(l, Head(s))
                             /\ \A i \in 1..Len(Tail(s)) : Before(l, Head(s), Tail(s)[i])
         /\ \A u : AllBefore(l, u, s) => /\ AllBefore(l, u, Tail(s))
                                         /\ \A i \in 1..Len(u) : Before(l, u[i], Head(s))
         /\ \A u : AllBefore(l, s, u) => /\ AllBefore(l, Tail(s), u)
                                         /\ \A i \in 1..Len(u) : Before(l, Head(s), u[i])
<1> DEFINE v == Tail(s)
           h == Head(s)
<1>1. /\ Len(s) \in Nat /\ Len(s) > 0 /\ Len(v) = Len(s) - 1 /\ h = s[1]
      /\ \A i \in 1..Len(v) : v[i] = s[i + 1]
  OBVIOUS
<1> HIDE DEF v, h
<1>2. 1 \in 1..Len(s) /\ \A i \in 1..Len(v) : i + 1 \in 1..Len(s) /\ 1 < i + 1
  BY <1>1
<1>3. \A i, j \in 1..Len(v) : i < j => i + 1 < j + 1
  BY <1>1
<1>4. ASSUME Ordered(l, s)
      PROVE  Ordered(l, v) /\ Logged(l, h) /\ \A i \in 1..Len(v) : Before(l, h, v[i])
  BY <1>1, <1>2, <1>3, <1>4 DEF Ordered
<1>5. ASSUME NEW u, AllBefore(l, u, s)
      PROVE  AllBefore(l, u, v) /\ \A i \in 1..Len(u) : Before(l, u[i], h)
  BY <1>1, <1>2, <1>5 DEF AllBefore
<1>6. ASSUME NEW u, AllBefore(l, s, u)
      PROVE  AllBefore(l, v, u) /\ \A i \in 1..Len(u) : Before(l, h, u[i])
  BY <1>1, <1>2, <1>6 DEF AllBefore
<1>7. QED
  BY <1>4, <1>5, <1>6 DEF v, h

LEMMA NothingOrdered ==
  \A l, u : Ordered(l, <<>>) /\ AllBefore(l, <<>>, u) /\ AllBefore(l, u, <<>>)
<1>1. Len(<<>>) = 0
  OBVIOUS
<1>2. \A i \in 1..0 : FALSE
  OBVIOUS
<1>3. QED
  BY <1>1, <1>2 DEF Ordered, AllBefore

\* A list is cut at its end.
LEMMA ListCut ==
  ASSUME NEW l, NEW s \in Seq(Nat), NEW m \in 0..Len(s)
  PROVE  /\ Ordered(l, s) => Ordered(l, SubSeq(s, 1, m))
         /\ \A u : AllBefore(l, s, u) => AllBefore(l, SubSeq(s, 1, m), u)
<1> DEFINE v == SubSeq(s, 1, m)
<1>1. Len(s) \in Nat /\ Len(v) = m /\ \A i \in 1..m : v[i] = s[i]
  OBVIOUS
<1>2. \A i \in 1..Len(v) : i \in 1..Len(s) /\ v[i] = s[i]
  BY <1>1
<1> HIDE DEF v
<1>3. Ordered(l, s) => Ordered(l, v)
  BY <1>2 DEF Ordered
<1>4. ASSUME NEW u, AllBefore(l, s, u) PROVE AllBefore(l, v, u)
  BY <1>2, <1>4 DEF AllBefore
<1>5. QED
  BY <1>3, <1>4 DEF v

LEMMA InOrderFrame ==
  ASSUME InOrder, UNCHANGED <<log, file, buffered, queue, inbox>>
  PROVE  InOrder'
BY DEF InOrder, Out

\* A capture's log grows and nothing is behind a channel.
LEMMA RecordInOrder ==
  ASSUME Types, InOrder, NEW t \in Tasks, Record(t)
  PROVE  InOrder'
<1>1. Out' = Out /\ UNCHANGED <<queue, inbox>> /\ (log' = log \/ log' = Append(log, task[t].rec))
  BY DEF Record, pipeline, Out
<1>2. log \in Seq(Nat) /\ task[t].rec \in Nat
  BY CarriedTyped DEF Types
<1>3. QED
  BY <1>1, <1>2, ListsKept DEF InOrder

LEMMA SendInOrder ==
  ASSUME Types, InOrder, NEW t \in Tasks, Send(t)
  PROVE  InOrder'
<1> DEFINE r == task[t].rec
<1>1. log \in Seq(Nat) /\ inbox \in Seq(Nat) /\ r \in Nat
  BY CarriedTyped DEF Types
<1>2. /\ log' = Append(log, r) /\ Out' = Out /\ queue' = queue
      /\ inbox' = inbox \/ inbox' = Append(inbox, r)
  BY DEF Send, Out
<1> HIDE DEF r
<1>3. /\ Ordered(log', Out) /\ Ordered(log', queue) /\ Ordered(log', inbox)
      /\ AllBefore(log', Out, queue) /\ AllBefore(log', Out, inbox) /\ AllBefore(log', queue, inbox)
  BY <1>1, <1>2, ListsKept DEF InOrder
<1>4. /\ Logged(log', r)
      /\ \A i \in 1..Len(Out) : Before(log', Out[i], r)
      /\ \A i \in 1..Len(queue) : Before(log', queue[i], r)
      /\ \A i \in 1..Len(inbox) : Before(log', inbox[i], r)
  BY <1>1, <1>2, OrderGrows DEF InOrder, Ordered
<1>5. /\ Ordered(log', Append(inbox, r))
      /\ AllBefore(log', Out, Append(inbox, r)) /\ AllBefore(log', queue, Append(inbox, r))
  BY <1>1, <1>3, <1>4, ListJoined
<1>6. QED
  BY <1>2, <1>3, <1>5 DEF InOrder

LEMMA OnPacketInOrder ==
  ASSUME Types, InOrder, OnPacket
  PROVE  InOrder'
<1> DEFINE h == Head(inbox)
<1>1. inbox \in Seq(Nat) /\ inbox # <<>> /\ queue \in Seq(Nat) /\ h \in Nat
  BY DEF Types, OnPacket
<1>2. /\ log' = log /\ Out' = Out /\ inbox' = Tail(inbox)
      /\ queue' = queue \/ queue' = Append(queue, h)
  BY DEF OnPacket, history, Out
<1> HIDE DEF h
<1>3. /\ Ordered(log, Tail(inbox)) /\ Logged(log, h)
      /\ \A i \in 1..Len(Tail(inbox)) : Before(log, h, Tail(inbox)[i])
  BY <1>1, ListLeft DEF InOrder, h
<1>4. /\ AllBefore(log, Out, Tail(inbox)) /\ AllBefore(log, queue, Tail(inbox))
      /\ \A i \in 1..Len(Out) : Before(log, Out[i], h)
      /\ \A i \in 1..Len(queue) : Before(log, queue[i], h)
  BY <1>1, ListLeft DEF InOrder, h
<1>5. /\ Ordered(log, Append(queue, h)) /\ AllBefore(log, Out, Append(queue, h))
      /\ AllBefore(log, Append(queue, h), Tail(inbox))
  BY <1>1, <1>3, <1>4, ListJoined DEF InOrder
<1>6. QED
  BY <1>2, <1>3, <1>4, <1>5 DEF InOrder

\* The writing thread takes a line, which ends among what it has taken or is lost.
LEMMA LineInOrder ==
  ASSUME Types, InOrder, WriteLine \/ WriteFails
  PROVE  InOrder'
<1> DEFINE h == Head(queue)
<1>1. queue \in Seq(Nat) /\ queue # <<>> /\ Out \in Seq(Nat) /\ h \in Nat
  BY OutTyped DEF Types, WriteLine, WriteFails
<1>2. UNCHANGED <<log, inbox>>
  BY DEF WriteLine, WriteFails, history
<1>3. queue' = Tail(queue) /\ (Out' = Out \/ Out' = Append(Out, h))
  BY WriteLineMoves, WriteFailsMoves
<1> HIDE DEF h
<1>4. /\ Ordered(log, Tail(queue)) /\ Logged(log, h)
      /\ \A i \in 1..Len(Tail(queue)) : Before(log, h, Tail(queue)[i])
  BY <1>1, ListLeft DEF InOrder, h
<1>5. /\ AllBefore(log, Out, Tail(queue)) /\ AllBefore(log, Tail(queue), inbox)
      /\ \A i \in 1..Len(Out) : Before(log, Out[i], h)
      /\ \A i \in 1..Len(inbox) : Before(log, h, inbox[i])
  BY <1>1, ListLeft DEF InOrder, h
<1>6. /\ Ordered(log, Append(Out, h)) /\ AllBefore(log, Append(Out, h), Tail(queue))
      /\ AllBefore(log, Append(Out, h), inbox)
  BY <1>1, <1>4, <1>5, ListJoined DEF InOrder
<1>7. QED
  BY <1>2, <1>3, <1>4, <1>5, <1>6 DEF InOrder

\* The last flush cuts what was taken, and the queue is dropped.
LEMMA WriterEndsInOrder ==
  ASSUME Types, InOrder, WriterEnds
  PROVE  InOrder'
<1>1. PICK m \in 0..Len(Out) : Out' = SubSeq(Out, 1, m)
  BY WriterEndsMoves
<1>2. queue' = <<>> /\ UNCHANGED <<log, inbox>>
  BY WriterEndsMoves DEF WriterEnds
<1>3. Out \in Seq(Nat)
  BY OutTyped
<1>4. Ordered(log, Out') /\ AllBefore(log, Out', inbox)
  BY <1>1, <1>3, ListCut DEF InOrder
<1>5. QED
  BY <1>2, <1>4, NothingOrdered DEF InOrder

LEMMA NextInOrder ==
  ASSUME Types, InOrder, [Next]_vars
  PROVE  InOrder'
<1>1. CASE UNCHANGED vars
  BY <1>1, InOrderFrame DEF vars, pipeline, history
<1>2. ASSUME NEW t \in Tasks, NEW k \in Kinds, Call(t, k) PROVE InOrder'
  BY <1>2, InOrderFrame DEF Call, pipeline, history
<1>3. ASSUME NEW t \in Tasks, Count(t) \/ ReadMode(t) PROVE InOrder'
  BY <1>3, InOrderFrame DEF Count, ReadMode, pipeline, history
<1>4. CASE Drain \/ Reset \/ DropHandle \/ Detach
  BY <1>4, InOrderFrame DEF Drain, Reset, DropHandle, Detach, pipeline, history
<1>5. ASSUME NEW m \in BOOLEAN, SetMode(m) PROVE InOrder'
  BY <1>5, InOrderFrame DEF SetMode, pipeline
<1>6. CASE RecorderEnds
  <2>1. inbox' = <<>> /\ Out' = Out /\ UNCHANGED <<log, queue>>
    BY <1>6 DEF RecorderEnds, Out
  <2>2. QED
    BY <2>1, NothingOrdered DEF InOrder
<1>7. QED
  BY <1>1, <1>2, <1>3, <1>4, <1>5, <1>6, RecordInOrder, SendInOrder, OnPacketInOrder,
     LineInOrder, WriterEndsInOrder DEF Next

----------------------------------------------------------------------------
(* The invariant *)

LEMMA InitIInv == Init => IInv
<1> SUFFICES ASSUME Init PROVE IInv
  OBVIOUS
<1>1. Types
  BY InitTypes
<1>2. /\ inbox = <<>> /\ queue = <<>> /\ file = <<>> /\ buffered = <<>>
      /\ log = <<>> /\ store = <<>> /\ resetting = 0
      /\ taken = 0 /\ cleared = 0 /\ lost = 0 /\ high = tap.cap /\ count["dropped"] = 0
  BY DEF Init
<1>3. \A t \in Tasks : task[t].pc = "idle" /\ task[t].flag = FALSE
  BY IdleTyped DEF Init
<1>4. Kept
  <2>1. unbounded => tap = Limitless
    BY Zenon DEF Init
  <2>2. Limitless.is = "ring"
    BY DEF Limitless
  <2>3. QED
    BY <1>2, <1>3, <2>1, <2>2 DEF Kept
<1>5. /\ Out = <<>>
      /\ Len(log) = 0 /\ Len(store) = 0 /\ Len(Out) = 0 /\ Len(queue) = 0 /\ Len(inbox) = 0
  BY <1>2 DEF Out
<1>6. Numbered
  BY <1>3, <1>5 DEF Numbered
<1>7. Accounts
  BY <1>2, <1>5 DEF Accounts, IsTail
<1>8. RoomForStale
  <2>1. StaleTasks = {}
    BY <1>3 DEF StaleTasks
  <2>2. Stale = 0
    BY <2>1, StaleFinite, FS_EmptySet
  <2>3. QED
    BY <1>1, <1>2, <1>5, <2>2 DEF RoomForStale, Types
<1>9. Balanced
  BY <1>2, <1>5 DEF Balanced
<1>10. InOrder
  BY <1>2, <1>5, NothingOrdered DEF InOrder
<1>11. QED
  BY <1>1, <1>4, <1>6, <1>7, <1>8, <1>9, <1>10, AccountsMeans DEF IInv

LEMMA NextIInv ==
  ASSUME IInv, [Next]_vars
  PROVE  IInv'
<1>1. Types /\ Kept /\ Numbered /\ Accounts /\ RoomForStale /\ Balanced /\ InOrder
  BY AccountsMeans DEF IInv
<1>2. Types' /\ Accounts'
  BY <1>1, NextTypes, NextAccounts
<1>3. CaptureAccounts'
  <2>1. Types' => (Accounts' <=> CaptureAccounts')
    BY AccountsMeans, PTL
  <2>2. QED
    BY <1>2, <2>1
<1>4. Kept' /\ Numbered' /\ RoomForStale' /\ Balanced' /\ InOrder'
  BY <1>1, NextKept, NextNumbered, NextRoom, NextBalanced, NextInOrder
<1>5. QED
  BY <1>2, <1>3, <1>4 DEF IInv

LEMMA Invariance == Spec => []IInv
<1>1. Init => IInv
  BY InitIInv
<1>2. IInv /\ [Next]_vars => IInv'
  BY NextIInv
<1>3. QED
  BY <1>1, <1>2, PTL DEF Spec

\* A capture accounts for every record: whatever calls, drains, resets and
\* changes of mode overlap, it holds the newest records in the order in which
\* it took them, and the others were drained or are counted as dropped.
THEOREM CaptureAccountsAlways == Spec => []CaptureAccounts
<1>1. IInv => CaptureAccounts
  BY DEF IInv
<1>2. QED
  BY <1>1, Invariance, PTL

\* A ring buffer in bounded mode does not grow: what it holds, and the calls
\* that read the old mode before the switch, stay within what it held then or
\* its capacity, for any number of tasks.
THEOREM GrowthStopsAlways == Spec => []GrowthStops
<1>1. IInv => GrowthStops
  BY DEF IInv, RoomForStale, GrowthStops
<1>2. QED
  BY <1>1, Invariance, PTL

----------------------------------------------------------------------------
(* The file *)

LEMMA OrderedTogether ==
  ASSUME NEW l, NEW s \in Seq(Nat), NEW u \in Seq(Nat),
         Ordered(l, s), Ordered(l, u), AllBefore(l, s, u)
  PROVE  Ordered(l, s \o u)
<1> DEFINE v == s \o u
<1>1. /\ Len(s) \in Nat /\ Len(u) \in Nat /\ Len(v) = Len(s) + Len(u)
      /\ \A i \in 1..Len(v) : v[i] = IF i <= Len(s) THEN s[i] ELSE u[i - Len(s)]
  OBVIOUS
<1> HIDE DEF v
<1>2. \A i \in 1..Len(v) : \/ i \in 1..Len(s) /\ v[i] = s[i]
                           \/ i - Len(s) \in 1..Len(u) /\ i > Len(s) /\ v[i] = u[i - Len(s)]
  BY <1>1
<1>3. \A i \in 1..Len(v) : Logged(l, v[i])
  BY <1>2 DEF Ordered
<1>4. ASSUME NEW i \in 1..Len(v), NEW j \in 1..Len(v), i < j
      PROVE  Before(l, v[i], v[j])
  <2>1. CASE i \in 1..Len(s) /\ v[i] = s[i] /\ j \in 1..Len(s) /\ v[j] = s[j]
    BY <1>4, <2>1 DEF Ordered
  <2>2. CASE i \in 1..Len(s) /\ v[i] = s[i] /\ j - Len(s) \in 1..Len(u) /\ v[j] = u[j - Len(s)]
    BY <2>2 DEF AllBefore
  <2>3. CASE i - Len(s) \in 1..Len(u) /\ j - Len(s) \in 1..Len(u) /\ v[i] = u[i - Len(s)]
               /\ v[j] = u[j - Len(s)]
    <3>1. i - Len(s) < j - Len(s)
      BY <1>1, <1>4
    <3>2. QED
      BY <2>3, <3>1 DEF Ordered
  <2>4. i > Len(s) => ~(j \in 1..Len(s))
    BY <1>1, <1>4
  <2>5. QED
    BY <1>2, <2>1, <2>2, <2>3, <2>4
<1>5. QED
  BY <1>3, <1>4 DEF Ordered, v

LEMMA BeforeTogether ==
  ASSUME NEW l, NEW s \in Seq(Nat), NEW u \in Seq(Nat), NEW w,
         AllBefore(l, s, w), AllBefore(l, u, w)
  PROVE  AllBefore(l, s \o u, w)
<1> DEFINE v == s \o u
<1>1. /\ Len(s) \in Nat /\ Len(u) \in Nat /\ Len(v) = Len(s) + Len(u)
      /\ \A i \in 1..Len(v) : v[i] = IF i <= Len(s) THEN s[i] ELSE u[i - Len(s)]
  OBVIOUS
<1> HIDE DEF v
<1>2. \A i \in 1..Len(v) : \/ i \in 1..Len(s) /\ v[i] = s[i]
                           \/ i - Len(s) \in 1..Len(u) /\ v[i] = u[i - Len(s)]
  BY <1>1
<1>3. QED
  BY <1>2 DEF AllBefore, v

LEMMA InvFile == IInv => FileAccounts
<1> SUFFICES ASSUME IInv, tap.is = "channel" PROVE FileAccounts
  BY DEF FileAccounts
<1>1. /\ log \in Seq(Nat) /\ Out \in Seq(Nat) /\ queue \in Seq(Nat) /\ inbox \in Seq(Nat)
      /\ count.dropped = count["dropped"] /\ Len(Out) = Len(file) + Len(buffered)
  BY OutTyped, ConcatProperties DEF IInv, Types, Out
<1>2. /\ Len(log) = Len(file) + Len(buffered) + Len(queue) + Len(inbox) + count.dropped + lost
      /\ lost > 0 => handle = "dropped" \/ writer \in {"failing", "failed"}
  BY <1>1 DEF IInv, Balanced, Failing
<1> DEFINE held == file \o buffered \o queue \o inbox
           Pos(r) == CHOOSE i \in 1..Len(log) : log[i] = r
<1>3. Ordered(log, Out \o queue) /\ AllBefore(log, Out \o queue, inbox) /\ Out \o queue \in Seq(Nat)
  BY <1>1, OrderedTogether, BeforeTogether DEF IInv, InOrder
<1>4. Ordered(log, held)
  <2>1. Ordered(log, (Out \o queue) \o inbox)
    BY <1>1, <1>3, OrderedTogether DEF IInv, InOrder
  <2>2. QED
    BY <2>1 DEF Out
<1>5. ASSUME NEW i \in 1..Len(held), NEW j \in 1..Len(held), i < j
      PROVE  Pos(held[i]) < Pos(held[j])
  <2>1. Before(log, held[i], held[j])
    BY <1>4, <1>5 DEF Ordered
  <2>2. \A a, b \in 1..Len(log) : log[a] = log[b] => a = b
    BY DEF IInv, Numbered
  <2>3. ASSUME NEW x, NEW y, Before(log, x, y) PROVE Pos(x) < Pos(y)
    <3>1. PICK a \in 1..Len(log), b \in 1..Len(log) : a < b /\ log[a] = x /\ log[b] = y
      BY <2>3 DEF Before
    <3>2. Pos(x) \in 1..Len(log) /\ log[Pos(x)] = x
      BY <3>1
    <3>3. Pos(y) \in 1..Len(log) /\ log[Pos(y)] = y
      BY <3>1
    <3> HIDE DEF Pos
    <3>4. QED
      BY <2>2, <3>1, <3>2, <3>3
  <2> HIDE DEF held, Pos
  <2>4. QED
    BY <2>1, <2>3
<1>6. QED
  BY <1>2, <1>5 DEF FileAccounts

\* A recorded file holds what the tap was given, in that order and nothing
\* twice, and every record that is not there is on its way, counted as dropped,
\* or went with an aborted recorder task or a failed disk: for any queue size
\* and any number of tasks.
THEOREM FileAccountsAlways == Spec => []FileAccounts
<1>1. IInv => FileAccounts
  BY InvFile
<1>2. QED
  BY <1>1, Invariance, PTL
====
