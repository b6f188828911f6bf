---- MODULE SniffChannel ----
(***************************************************************************)
(* The bounded byte channel of sniff_io.rs: a VecDeque of chunks with a     *)
(* byte capacity that evicts its oldest chunks instead of blocking the      *)
(* producer.  Every method runs under the channel's mutex, so each one is   *)
(* an operator from channel record to channel record.                       *)
(*                                                                          *)
(* A chunk is the interval lo..hi of byte offsets it occupies on the wire   *)
(* (the first byte read is byte 1): offsets are what order, duplication and *)
(* loss can be told apart by.  Chunks of one channel follow each other      *)
(* without a gap (Contiguous), so the bytes of a run of chunks are counted  *)
(* from its first and last offset.                                          *)
(***************************************************************************)
EXTENDS Integers, Sequences

Size(c) == c.hi - c.lo + 1

\* Bytes of the k oldest chunks of a queue.
PrefixBytes(q, k) == IF k = 0 THEN 0 ELSE q[k].hi - q[1].lo + 1

Contiguous(q) == \A i \in 1..(Len(q) - 1) : q[i + 1].lo = q[i].hi + 1

NewChannel(cap) ==
  [queue |-> <<>>, total_bytes |-> 0, capacity |-> cap,
   dropped_chunks |-> 0, dropped_bytes |-> 0,
   closed |-> FALSE, error |-> "none", waker |-> FALSE]

----------------------------------------------------------------------------
(* Producer side *)

\* Mutant: evicted bytes are not counted.
Evict_Uncounted(ch, k) ==
  [ch EXCEPT !.queue = SubSeq(@, k + 1, Len(@)),
             !.total_bytes = @ - PrefixBytes(ch.queue, k),
             !.dropped_chunks = @ + k]

Evict(ch, k) ==
  [ch EXCEPT !.queue = SubSeq(@, k + 1, Len(@)),
             !.total_bytes = @ - PrefixBytes(ch.queue, k),
             !.dropped_chunks = @ + k,
             !.dropped_bytes = @ + PrefixBytes(ch.queue, k)]

\* The eviction loops of send and set_capacity pop exactly k chunks to make
\* room for `need' more bytes: they stop at the first k that fits, or when the
\* queue is empty.
Evicts(ch, k, need) ==
  /\ \A j \in 0..(k - 1) :
        ch.total_bytes - PrefixBytes(ch.queue, j) + need > ch.capacity
  /\ \/ k = Len(ch.queue)
     \/ ch.total_bytes - PrefixBytes(ch.queue, k) + need <= ch.capacity

\* Mutants: the total is not kept; the consumer is not woken.
Push_TotalNotKept(ch, c) ==
  IF ch.total_bytes + Size(c) > ch.capacity
  THEN [ch EXCEPT !.dropped_chunks = @ + 1, !.dropped_bytes = @ + Size(c)]
  ELSE [ch EXCEPT !.queue = Append(@, c), !.waker = FALSE]

Push_NoWake(ch, c) ==
  IF ch.total_bytes + Size(c) > ch.capacity
  THEN [ch EXCEPT !.dropped_chunks = @ + 1, !.dropped_bytes = @ + Size(c)]
  ELSE [ch EXCEPT !.queue = Append(@, c), !.total_bytes = @ + Size(c)]

\* A chunk that does not fit the emptied queue is dropped itself, and nobody
\* is woken; otherwise it is queued and the registered waker is taken.
Push(ch, c) ==
  IF ch.total_bytes + Size(c) > ch.capacity
  THEN [ch EXCEPT !.dropped_chunks = @ + 1, !.dropped_bytes = @ + Size(c)]
  ELSE [ch EXCEPT !.queue = Append(@, c),
                  !.total_bytes = @ + Size(c),
                  !.waker = FALSE]

Send(ch, c, k) == Push(Evict(ch, k), c)

SendError(ch, e) == [ch EXCEPT !.error = e, !.waker = FALSE]

SetCapacity(ch, cap) == [ch EXCEPT !.capacity = cap]

\* Mutant: close leaves the waiting consumer asleep.
Close_NoWake(ch) == [ch EXCEPT !.closed = TRUE]

Close(ch) == [ch EXCEPT !.closed = TRUE, !.waker = FALSE]

\* A method that takes the waker wakes the task behind it.
Wakes(before, after) == before.waker /\ ~after.waker

----------------------------------------------------------------------------
(* Consumer side: what poll_recv answers, and what it leaves behind *)

\* Mutant: a pending error overtakes the queued data.
PollRecv_ErrorFirst(ch) ==
  CASE ch.error # "none" -> "error"
    [] OTHER -> IF ch.queue # <<>> THEN "data"
                ELSE IF ch.closed THEN "closed" ELSE "empty"

PollRecv(ch) ==
  CASE ch.queue # <<>>    -> "data"
    [] OTHER              -> IF ch.error # "none" THEN "error"
                             ELSE IF ch.closed THEN "closed" ELSE "empty"

PopFront(ch) ==
  [ch EXCEPT !.queue = Tail(@), !.total_bytes = @ - Size(Head(ch.queue))]

TakeError(ch) == [ch EXCEPT !.error = "none"]

RegisterWaker(ch) == [ch EXCEPT !.waker = TRUE]
====
