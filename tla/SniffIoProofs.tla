---- MODULE SniffIoProofs ----
(***************************************************************************)
(* Safety of SniffIo for every capacity, chunk size and length of the wire. *)
(***************************************************************************)
EXTENDS SniffIo, TLAPS

----------------------------------------------------------------------------
(* What the channel operations preserve *)

\* The offsets of a queued chunk are numbers.
LEMMA ChunkFields ==
  ASSUME NEW q \in Seq(Chunk), NEW i \in 1..Len(q)
  PROVE  q[i] \in Chunk /\ q[i].lo \in Nat /\ q[i].hi \in Nat
<1>1. q[i] \in Chunk
  OBVIOUS
<1> QED BY <1>1 DEF Chunk

\* The bytes b..a without those of b..c are the bytes from c + 1.
LEMMA SpanSplit ==
  ASSUME NEW a \in Nat, NEW b \in Nat, NEW c \in Nat, NEW d \in Nat, d = c + 1
  PROVE  (a - b + 1) - (c - b + 1) = a - d + 1
OBVIOUS

\* Storing well-typed fields gives a channel again.
LEMMA ChannelUpdate ==
  ASSUME NEW ch \in Channel, NEW q \in Seq(Chunk), NEW t \in Nat,
         NEW c \in Nat, NEW d \in Nat
  PROVE  [ch EXCEPT !.queue = q, !.total_bytes = t,
                    !.dropped_chunks = c, !.dropped_bytes = d] \in Channel
BY DEF Channel

\* Evicting the k oldest chunks keeps the total exact, and moves the bytes
\* from the total to the drop counter.
LEMMA EvictSound ==
  ASSUME NEW ch \in Channel, NEW top \in Nat, Sound(ch, top),
         NEW k \in 0..Len(ch.queue)
  PROVE  /\ Evict(ch, k) \in Channel
         /\ Sound(Evict(ch, k), top)
         /\ Evict(ch, k).total_bytes + Evict(ch, k).dropped_bytes
              = ch.total_bytes + ch.dropped_bytes
         /\ Evict(ch, k).dropped_bytes >= ch.dropped_bytes
         /\ Evict(ch, k).total_bytes = ch.total_bytes - PrefixBytes(ch.queue, k)
         /\ Evict(ch, k).capacity = ch.capacity
         /\ Evict(ch, k).error = ch.error
         /\ Evict(ch, k).closed = ch.closed
         /\ Evict(ch, k).waker = ch.waker
         /\ Evict(ch, k).queue = SubSeq(ch.queue, k + 1, Len(ch.queue))
         /\ Len(Evict(ch, k).queue) = Len(ch.queue) - k
         /\ Evict(ch, k).queue # <<>> => Evict(ch, k).queue[1] = ch.queue[k + 1]
<1> DEFINE q == ch.queue
           r == SubSeq(q, k + 1, Len(q))
           e == Evict(ch, k)
<1>1. q \in Seq(Chunk) /\ Len(q) \in Nat /\ ch.total_bytes \in Nat
      /\ ch.dropped_bytes \in Nat /\ ch.dropped_chunks \in Nat
  BY DEF Channel
<1>2. /\ r \in Seq(Chunk)
      /\ Len(r) = Len(q) - k
      /\ \A i \in 1..Len(r) : r[i] = q[i + k]
  BY <1>1
<1>3. /\ e.queue = r
      /\ e.total_bytes = ch.total_bytes - PrefixBytes(q, k)
      /\ e.dropped_chunks = ch.dropped_chunks + k
      /\ e.dropped_bytes = ch.dropped_bytes + PrefixBytes(q, k)
      /\ e.capacity = ch.capacity
      /\ e.closed = ch.closed
      /\ e.error = ch.error
      /\ e.waker = ch.waker
  BY DEF Evict, Channel
<1>4. \A i \in 1..Len(q) : q[i].lo \in Nat /\ q[i].hi \in Nat
  BY <1>1, ChunkFields
<1>0. /\ k \in 0..Len(q)
      /\ WellQueued(q, top)
      /\ ch.total_bytes = PrefixBytes(q, Len(q))
  BY DEF Sound
<1> HIDE DEF q, r, e
<1>5. PrefixBytes(q, k) \in Nat
  <2>1. CASE k = 0
    BY <2>1 DEF PrefixBytes
  <2>2. CASE k # 0
    <3>1. 1 \in 1..Len(q) /\ k \in 1..Len(q)
      BY <2>2, <1>0, <1>1
    <3>2. q[1].lo <= q[k].hi
      BY <1>0, <3>1, <1>4 DEF WellQueued
    <3> QED BY <2>2, <3>1, <3>2, <1>4 DEF PrefixBytes
  <2> QED BY <2>1, <2>2
<1>6. e.total_bytes = PrefixBytes(r, Len(r))
  <2>1. CASE k = 0
    <3>1. r = q
      BY <2>1, <1>0, <1>1, <1>2
    <3> QED BY <3>1, <2>1, <1>0, <1>1, <1>3 DEF PrefixBytes
  <2>2. CASE k # 0 /\ k = Len(q)
    <3>1. Len(r) = 0
      BY <2>2, <1>0, <1>1, <1>2
    <3> QED BY <3>1, <2>2, <1>0, <1>1, <1>3, <1>4 DEF PrefixBytes
  <2>3. CASE k # 0 /\ k < Len(q)
    <3>1. /\ 1 \in 1..Len(q) /\ k \in 1..(Len(q) - 1) /\ k + 1 \in 1..Len(q)
          /\ Len(q) \in 1..Len(q) /\ Len(r) # 0 /\ k \in 1..Len(q)
          /\ 1 \in 1..Len(r) /\ Len(r) \in 1..Len(r)
      BY <2>3, <1>0, <1>1, <1>2
    <3>2. q[k + 1].lo = q[k].hi + 1
      BY <1>0, <3>1 DEF WellQueued, Contiguous
    <3>3. r[1] = q[k + 1] /\ r[Len(r)] = q[Len(q)]
      <4>1. Len(r) + k = Len(q) /\ 1 + k = k + 1
        BY <1>0, <1>1, <1>2
      <4> QED BY <3>1, <4>1, <1>2
    <3>4. ch.total_bytes = q[Len(q)].hi - q[1].lo + 1
      BY <1>0, <3>1, <1>0, <1>1 DEF PrefixBytes
    <3>5. PrefixBytes(q, k) = q[k].hi - q[1].lo + 1
      BY <2>3 DEF PrefixBytes
    <3>6. PrefixBytes(r, Len(r)) = q[Len(q)].hi - q[k + 1].lo + 1
      BY <3>1, <3>3 DEF PrefixBytes
    <3>7. /\ q[1].lo \in Nat /\ q[k].hi \in Nat /\ q[k + 1].lo \in Nat
          /\ q[Len(q)].hi \in Nat
      BY <3>1, <1>4
    <3>8. e.total_bytes
            = (q[Len(q)].hi - q[1].lo + 1) - (q[k].hi - q[1].lo + 1)
      BY <3>4, <3>5, <1>3
    <3>9. (q[Len(q)].hi - q[1].lo + 1) - (q[k].hi - q[1].lo + 1)
            = q[Len(q)].hi - q[k + 1].lo + 1
      <4> DEFINE a == q[Len(q)].hi
                 b == q[1].lo
                 c == q[k].hi
                 d == q[k + 1].lo
      <4>1. a \in Nat /\ b \in Nat /\ c \in Nat /\ d \in Nat /\ d = c + 1
        BY <3>2, <3>7
      <4> HIDE DEF a, b, c, d
      <4>2. (a - b + 1) - (c - b + 1) = a - d + 1
        BY <4>1, SpanSplit
      <4> QED BY <4>2 DEF a, b, c, d
    <3> QED BY <3>6, <3>8, <3>9
  <2> QED BY <2>1, <2>2, <2>3, <1>0, <1>1
<1>7. WellQueued(r, top)
  <2>1. \A i \in 1..Len(r) : i + k \in 1..Len(q)
    BY <1>0, <1>1, <1>2
  <2>2. \A i \in 1..Len(r) : 1 <= r[i].lo /\ r[i].lo <= r[i].hi
    BY <1>0, <2>1, <1>2 DEF WellQueued
  <2>3. \A i, j \in 1..Len(r) : i < j => r[i].hi < r[j].lo
    <3> SUFFICES ASSUME NEW i \in 1..Len(r), NEW j \in 1..Len(r), i < j
                 PROVE  r[i].hi < r[j].lo
      OBVIOUS
    <3>1. i + k \in 1..Len(q) /\ j + k \in 1..Len(q) /\ i + k < j + k
      BY <2>1, <1>0, <1>1
    <3> QED BY <1>0, <3>1, <1>2 DEF WellQueued
  <2>4. Contiguous(r)
    <3> SUFFICES ASSUME NEW i \in 1..(Len(r) - 1)
                 PROVE  r[i + 1].lo = r[i].hi + 1
      BY DEF Contiguous
    <3>1. /\ i \in 1..Len(r) /\ i + 1 \in 1..Len(r)
          /\ i + k \in 1..(Len(q) - 1) /\ (i + 1) + k = (i + k) + 1
      BY <1>0, <1>1, <1>2, SMTT(40)
    <3>2. q[(i + k) + 1].lo = q[i + k].hi + 1
      BY <1>0, <3>1 DEF WellQueued, Contiguous
    <3> QED BY <3>1, <3>2, <1>2
  <2>5. r # <<>> => r[Len(r)].hi = top
    <3> SUFFICES ASSUME r # <<>>
                 PROVE  r[Len(r)].hi = top
      OBVIOUS
    <3>1. Len(r) \in 1..Len(r) /\ Len(r) + k = Len(q) /\ q # <<>>
      BY <1>0, <1>1, <1>2
    <3> QED BY <1>0, <3>1, <1>2 DEF WellQueued
  <2> QED BY <2>2, <2>3, <2>4, <2>5 DEF WellQueued
<1>8. e.total_bytes \in Nat
  <2>1. CASE Len(r) = 0
    BY <2>1, <1>6 DEF PrefixBytes
  <2>2. CASE Len(r) # 0
    <3>1. 1 \in 1..Len(r) /\ Len(r) \in 1..Len(r)
      BY <2>2, <1>0, <1>1, <1>2
    <3>2. r[1].lo \in Nat /\ r[Len(r)].hi \in Nat /\ r[Len(r)].lo \in Nat
          /\ r[1].hi \in Nat
      BY <3>1, <1>2, ChunkFields
    <3>3. r[1].lo <= r[Len(r)].hi
      BY <3>1, <3>2, <1>7 DEF WellQueued
    <3> QED BY <3>2, <3>3, <2>2, <1>6 DEF PrefixBytes
  <2> QED BY <2>1, <2>2
<1>9. e \in Channel
  <2> DEFINE tb == e.total_bytes
             dc == ch.dropped_chunks + k
             db == ch.dropped_bytes + PrefixBytes(q, k)
  <2>1. e = [ch EXCEPT !.queue = r, !.total_bytes = tb,
                       !.dropped_chunks = dc, !.dropped_bytes = db]
    BY DEF Evict, Channel, e, r, q
  <2>2. tb \in Nat /\ dc \in Nat /\ db \in Nat
    BY <1>0, <1>1, <1>5, <1>8
  <2> HIDE DEF tb, dc, db
  <2>3. [ch EXCEPT !.queue = r, !.total_bytes = tb,
                   !.dropped_chunks = dc, !.dropped_bytes = db] \in Channel
    BY <1>2, <2>2, ChannelUpdate
  <2> QED BY <2>1, <2>3, Zenon
<1>10. r # <<>> => r[1] = q[k + 1]
  BY <1>0, <1>1, <1>2
<1>11. Sound(e, top)
  BY <1>3, <1>6, <1>7 DEF Sound
<1>12. e.total_bytes + e.dropped_bytes = ch.total_bytes + ch.dropped_bytes
       /\ e.dropped_bytes >= ch.dropped_bytes
  BY <1>0, <1>1, <1>3, <1>5, <1>8
<1> QED BY <1>2, <1>3, <1>9, <1>10, <1>11, <1>12 DEF q, r, e

\* The total of an exact channel is the span of its queue up to `top'.
LEMMA SpanToTop ==
  ASSUME NEW ch \in Channel, NEW top \in Nat, Sound(ch, top)
  PROVE  /\ ch.queue = <<>> => ch.total_bytes = 0
         /\ ch.queue # <<>> =>
              /\ Len(ch.queue) \in Nat /\ Len(ch.queue) >= 1
              /\ ch.queue[1].lo \in Nat /\ ch.queue[1].hi \in Nat
              /\ 1 <= ch.queue[1].lo /\ ch.queue[1].lo <= ch.queue[1].hi
              /\ ch.queue[1].hi <= top
              /\ ch.total_bytes = top - ch.queue[1].lo + 1
<1>1. ch.queue \in Seq(Chunk)
  BY DEF Channel
<1> DEFINE q == ch.queue
<1>2. /\ q \in Seq(Chunk)
      /\ WellQueued(q, top)
      /\ ch.total_bytes = PrefixBytes(q, Len(q))
  BY <1>1 DEF Sound
<1> HIDE DEF q
<1>3. ASSUME q = <<>>
      PROVE  ch.total_bytes = 0
  BY <1>2, <1>3 DEF PrefixBytes
<1>4. ASSUME q # <<>>
      PROVE  /\ Len(q) \in Nat /\ Len(q) >= 1
             /\ q[1].lo \in Nat /\ q[1].hi \in Nat
             /\ 1 <= q[1].lo /\ q[1].lo <= q[1].hi
             /\ q[1].hi <= top
             /\ ch.total_bytes = top - q[1].lo + 1
  <2>1. Len(q) \in Nat /\ Len(q) >= 1 /\ 1 \in 1..Len(q) /\ Len(q) \in 1..Len(q)
    BY <1>2, <1>4
  <2>2. /\ q[1].lo \in Nat /\ q[1].hi \in Nat
        /\ q[Len(q)].lo \in Nat /\ q[Len(q)].hi \in Nat
    BY <2>1, <1>2, ChunkFields
  <2>3. q[Len(q)].hi = top
    BY <1>2, <1>4 DEF WellQueued
  <2>4. /\ 1 <= q[1].lo /\ q[1].lo <= q[1].hi /\ q[Len(q)].lo <= q[Len(q)].hi
        /\ 1 < Len(q) => q[1].hi < q[Len(q)].lo
    BY <2>1, <1>2 DEF WellQueued
  <2>5. q[1].hi <= top
    <3>1. CASE Len(q) = 1
      BY <3>1, <2>2, <2>3
    <3>2. CASE 1 < Len(q)
      BY <3>2, <2>2, <2>3, <2>4
    <3>3. Len(q) = 1 \/ 1 < Len(q)
      <4> DEFINE n == Len(q)
      <4>1. n \in Nat /\ n >= 1
        BY <2>1
      <4> HIDE DEF n
      <4>2. n = 1 \/ 1 < n
        BY <4>1
      <4> QED BY <4>2 DEF n
    <3> QED BY <3>1, <3>2, <3>3
  <2>6. ch.total_bytes = top - q[1].lo + 1
    BY <2>1, <2>3, <1>2 DEF PrefixBytes
  <2> QED BY <2>1, <2>2, <2>4, <2>5, <2>6
<1> QED BY <1>3, <1>4 DEF q

\* Receiving the oldest chunk leaves an exact channel; what follows the chunk
\* in the queue follows it on the wire.
LEMMA PopExact ==
  ASSUME NEW ch \in Channel, NEW top \in Nat, Exact(ch, top), ch.queue # <<>>
  PROVE  /\ PopFront(ch) \in Channel
         /\ Exact(PopFront(ch), top)
         /\ PopFront(ch).total_bytes = ch.total_bytes - Size(ch.queue[1])
         /\ PopFront(ch).total_bytes = top - ch.queue[1].hi
         /\ PopFront(ch).dropped_bytes = ch.dropped_bytes
         /\ PopFront(ch).closed = ch.closed
         /\ PopFront(ch).error = ch.error
         /\ PopFront(ch).waker = ch.waker
         /\ Head(ch.queue) = ch.queue[1]
         /\ PopFront(ch).queue # <<>> =>
              PopFront(ch).queue[1].lo = ch.queue[1].hi + 1
<1> DEFINE q == ch.queue
           e == Evict(ch, 1)
           p == PopFront(ch)
<1>1. /\ q \in Seq(Chunk) /\ Len(q) \in Nat /\ 1 \in 0..Len(q) /\ 1 \in 1..Len(q)
      /\ Sound(ch, top) /\ q # <<>> /\ ch.total_bytes <= ch.capacity
      /\ ch.capacity \in Nat /\ ch.total_bytes \in Nat /\ ch.dropped_bytes \in Nat
      /\ ch.dropped_chunks \in Nat
  BY DEF Exact, Channel
<1>2. Head(q) = q[1] /\ Tail(q) = SubSeq(q, 2, Len(q)) /\ Tail(q) \in Seq(Chunk)
  BY <1>1
<1>3. q[1].lo \in Nat /\ q[1].hi \in Nat /\ q[1].lo <= q[1].hi
  BY <1>1, SpanToTop
<1>4. /\ p.queue = Tail(q)
      /\ p.total_bytes = ch.total_bytes - Size(q[1])
      /\ p.dropped_chunks = ch.dropped_chunks
      /\ p.dropped_bytes = ch.dropped_bytes
      /\ p.capacity = ch.capacity /\ p.closed = ch.closed
      /\ p.error = ch.error /\ p.waker = ch.waker
  BY <1>2 DEF PopFront, Channel
<1>5. /\ e \in Channel
      /\ Sound(e, top)
      /\ e.total_bytes = ch.total_bytes - PrefixBytes(q, 1)
      /\ e.queue = SubSeq(q, 1 + 1, Len(q))
      /\ e.queue # <<>> => e.queue[1] = q[1 + 1]
      /\ Len(e.queue) = Len(q) - 1
  BY <1>1, EvictSound
<1>6. PrefixBytes(q, 1) = Size(q[1]) /\ Size(q[1]) \in Nat
  BY <1>3 DEF PrefixBytes, Size
<1>7. e.queue = Tail(q) /\ p.queue = e.queue /\ p.total_bytes = e.total_bytes
  <2>1. 1 + 1 = 2
    OBVIOUS
  <2> HIDE DEF q, e, p
  <2>2. e.queue = Tail(q)
    BY <2>1, <1>2, <1>5
  <2> QED BY <2>2, <1>4, <1>5, <1>6
<1>8. Sound(p, top)
  BY <1>5, <1>7 DEF Sound
<1>9. p.total_bytes \in Nat /\ p.total_bytes <= p.capacity
  <2>1. e.total_bytes \in Nat
    BY <1>5 DEF Channel
  <2>2. p.total_bytes <= ch.total_bytes
    BY <2>1, <1>1, <1>4, <1>6, <1>7
  <2> QED BY <2>1, <2>2, <1>1, <1>4, <1>7
<1>10. p \in Channel
  <2>1. \A t \in Nat, r \in Seq(Chunk) :
          [ch EXCEPT !.queue = r, !.total_bytes = t] \in Channel
    BY DEF Channel
  <2>2. p = [ch EXCEPT !.queue = Tail(q), !.total_bytes = p.total_bytes]
    BY DEF PopFront, Channel
  <2> QED BY <2>1, <2>2, <1>2, <1>9, Zenon
<1>11. p.queue # <<>> => p.queue[1].lo = q[1].hi + 1
  <2> SUFFICES ASSUME p.queue # <<>>
               PROVE  p.queue[1].lo = q[1].hi + 1
    OBVIOUS
  <2>1. p.queue[1] = q[2]
    BY <1>5, <1>7
  <2>2. 1 \in 1..(Len(q) - 1)
    BY <1>1, <1>5, <1>7, <1>2
  <2>3. q[1 + 1].lo = q[1].hi + 1
    BY <2>2 DEF Exact, Sound, WellQueued, Contiguous
  <2> QED BY <2>1, <2>3
<1>12. ch.total_bytes = top - q[1].lo + 1
  BY <1>1, SpanToTop
<1>13. p.total_bytes = top - q[1].hi
  <2> DEFINE a == q[1].lo
             b == q[1].hi
             t == ch.total_bytes
  <2>1. a \in Nat /\ b \in Nat /\ t = top - a + 1 /\ p.total_bytes = t - (b - a + 1)
    BY <1>3, <1>4, <1>12 DEF Size
  <2> HIDE DEF a, b, t, p
  <2>2. p.total_bytes = top - b
    BY <2>1
  <2> QED BY <2>2 DEF b
<1> QED BY <1>2, <1>4, <1>8, <1>9, <1>10, <1>11, <1>13 DEF Exact

\* Appending the next chunk of the wire to an exact channel with room for it.
LEMMA AppendExact ==
  ASSUME NEW ch \in Channel, NEW top \in Nat, Sound(ch, top),
         NEW c \in Chunk, c.lo = top + 1, c.lo <= c.hi,
         NEW p, p.queue = Append(ch.queue, c),
         p.total_bytes = ch.total_bytes + Size(c)
  PROVE  /\ Sound(p, c.hi)
         /\ p.queue \in Seq(Chunk) /\ p.queue # <<>>
         /\ p.queue[1] = IF ch.queue = <<>> THEN c ELSE ch.queue[1]
<1> DEFINE q == ch.queue
           r == p.queue
<1>1. q \in Seq(Chunk) /\ WellQueued(q, top) /\ c.lo \in Nat /\ c.hi \in Nat
  BY DEF Channel, Chunk, Sound
<1>2. /\ r \in Seq(Chunk) /\ Len(r) = Len(q) + 1 /\ Len(q) \in Nat
      /\ \A i \in 1..Len(q) : r[i] = q[i]
      /\ r[Len(r)] = c /\ r[Len(q) + 1] = c
      /\ r # <<>>
  BY <1>1
<1>3. q # <<>> => q[Len(q)].hi = top /\ Len(q) \in 1..Len(q) /\ 1 \in 1..Len(q)
  BY <1>1 DEF WellQueued
<1>4. \A i \in 1..Len(q) : q[i].lo \in Nat /\ q[i].hi \in Nat /\ q[i].hi <= top
  <2> SUFFICES ASSUME NEW i \in 1..Len(q)
               PROVE  q[i].lo \in Nat /\ q[i].hi \in Nat /\ q[i].hi <= top
    OBVIOUS
  <2>1. /\ q[i].lo \in Nat /\ q[i].hi \in Nat
        /\ q[Len(q)].lo \in Nat /\ Len(q) \in 1..Len(q)
        /\ q[Len(q)].hi = top
    BY <1>1, <1>2, <1>3, ChunkFields
  <2>2. i = Len(q) \/ i < Len(q)
    BY <1>2
  <2>3. CASE i = Len(q)
    BY <2>1, <2>3
  <2>4. CASE i < Len(q)
    <3>1. q[i].hi < q[Len(q)].lo /\ q[Len(q)].lo <= q[Len(q)].hi
      BY <2>1, <2>4, <1>1 DEF WellQueued
    <3> QED BY <2>1, <3>1
  <2> QED BY <2>2, <2>3, <2>4
<1> HIDE DEF q, r
<1>5. \A i \in 1..Len(r) : i \in 1..Len(q) \/ (i = Len(q) + 1 /\ r[i] = c)
  BY <1>2
<1>6. \A i \in 1..Len(r) : 1 <= r[i].lo /\ r[i].lo <= r[i].hi
  <2> SUFFICES ASSUME NEW i \in 1..Len(r)
               PROVE  1 <= r[i].lo /\ r[i].lo <= r[i].hi
    OBVIOUS
  <2>1. CASE i \in 1..Len(q)
    BY <2>1, <1>1, <1>2 DEF WellQueued
  <2>2. CASE r[i] = c
    BY <2>2, <1>1
  <2> QED BY <2>1, <2>2, <1>5
<1>7. \A i, j \in 1..Len(r) : i < j => r[i].hi < r[j].lo
  <2> SUFFICES ASSUME NEW i \in 1..Len(r), NEW j \in 1..Len(r), i < j
               PROVE  r[i].hi < r[j].lo
    OBVIOUS
  <2>1. i \in 1..Len(q) /\ r[i] = q[i]
    BY <1>2
  <2>2. CASE j \in 1..Len(q)
    BY <2>1, <2>2, <1>1, <1>2 DEF WellQueued
  <2>3. CASE r[j] = c
    BY <2>1, <2>3, <1>1, <1>4
  <2> QED BY <2>2, <2>3, <1>5
<1>8. Contiguous(r)
  <2> SUFFICES ASSUME NEW i \in 1..(Len(r) - 1)
               PROVE  r[i + 1].lo = r[i].hi + 1
    BY DEF Contiguous
  <2>1. i \in 1..Len(q) /\ r[i] = q[i] /\ i + 1 \in 1..Len(r)
    BY <1>2
  <2>2. CASE i + 1 \in 1..Len(q)
    <3>1. i \in 1..(Len(q) - 1) /\ r[i + 1] = q[i + 1]
      BY <2>2, <1>2
    <3>2. q[i + 1].lo = q[i].hi + 1
      BY <3>1, <1>1 DEF WellQueued, Contiguous
    <3> QED BY <2>1, <3>1, <3>2
  <2>3. CASE i + 1 = Len(q) + 1 /\ r[i + 1] = c
    <3>1. i = Len(q) /\ q # <<>>
      BY <2>1, <2>3, <1>1, <1>2
    <3>2. r[i].hi = top
      BY <2>1, <3>1, <1>3
    <3> QED BY <2>3, <3>2
  <2> QED BY <2>1, <2>2, <2>3, <1>5
<1>9. WellQueued(r, c.hi)
  BY <1>2, <1>6, <1>7, <1>8 DEF WellQueued
<1>10. r[1] = IF q = <<>> THEN c ELSE q[1]
  <2>1. CASE q = <<>>
    <3>1. Len(q) = 0
      BY <2>1
    <3> QED BY <2>1, <3>1, <1>2
  <2>2. CASE q # <<>>
    BY <2>2, <1>2, <1>3
  <2> QED BY <2>1, <2>2
<1>11. p.total_bytes = PrefixBytes(r, Len(r))
  <2>1. PrefixBytes(r, Len(r)) = c.hi - r[1].lo + 1
    BY <1>2 DEF PrefixBytes
  <2>2. CASE q = <<>>
    <3>1. ch.total_bytes = 0
      BY <2>2, SpanToTop DEF q
    <3> QED BY <2>1, <2>2, <3>1, <1>1, <1>10 DEF Size
  <2>3. CASE q # <<>>
    <3> DEFINE a == q[1].lo
               b == c.lo
               d == c.hi
               t == ch.total_bytes
    <3>1. /\ a \in Nat /\ b \in Nat /\ d \in Nat /\ b = top + 1
          /\ t = top - a + 1 /\ p.total_bytes = t + (d - b + 1)
          /\ PrefixBytes(r, Len(r)) = d - a + 1
      BY <2>1, <2>3, <1>1, <1>10, SpanToTop DEF q, Size
    <3> HIDE DEF a, b, d, t
    <3>2. t + (d - b + 1) = d - a + 1
      BY <3>1
    <3> QED BY <3>1, <3>2
  <2> QED BY <2>2, <2>3
<1> QED BY <1>2, <1>9, <1>10, <1>11 DEF Sound, q, r

\* SniffChannel::send: whatever it evicts, and whether or not the chunk fits,
\* the channel stays exact and within its capacity, and the chunk's bytes are
\* queued or counted as dropped.  A waker that is kept means an empty queue.
LEMMA SendExact ==
  ASSUME NEW ch \in Channel, NEW top \in Nat, Exact(ch, top),
         NEW c \in Chunk, c.lo = top + 1, c.lo <= c.hi,
         NEW k \in 0..Len(ch.queue), Evicts(ch, k, Size(c)),
         NEW s, s = Send(ch, c, k)
  PROVE  /\ s \in Channel
         /\ Exact(s, c.hi)
         /\ s.total_bytes + s.dropped_bytes
              = ch.total_bytes + ch.dropped_bytes + Size(c)
         /\ s.dropped_bytes >= ch.dropped_bytes
         /\ s.closed = ch.closed /\ s.error = ch.error
         /\ s.waker => ch.waker /\ s.queue = <<>>
         /\ s.queue # <<>> =>
              \/ s.queue[1].lo = top + 1
              \/ ch.queue # <<>> /\ s.queue[1].lo >= ch.queue[1].lo
<1> DEFINE e == Evict(ch, k)
<1>1. /\ Sound(ch, top) /\ ch.queue \in Seq(Chunk) /\ Len(ch.queue) \in Nat
      /\ ch.total_bytes \in Nat /\ ch.capacity \in Nat /\ ch.dropped_bytes \in Nat
      /\ ch.waker \in BOOLEAN
      /\ c.lo \in Nat /\ c.hi \in Nat /\ Size(c) \in Nat
  BY DEF Exact, Channel, Chunk, Size
<1>2. /\ e \in Channel
      /\ Sound(e, top)
      /\ e.total_bytes + e.dropped_bytes = ch.total_bytes + ch.dropped_bytes
      /\ e.dropped_bytes >= ch.dropped_bytes
      /\ e.total_bytes = ch.total_bytes - PrefixBytes(ch.queue, k)
      /\ e.capacity = ch.capacity
      /\ e.error = ch.error /\ e.closed = ch.closed /\ e.waker = ch.waker
      /\ Len(e.queue) = Len(ch.queue) - k
      /\ e.queue # <<>> => e.queue[1] = ch.queue[k + 1]
  BY <1>1, EvictSound
<1>3. /\ e.total_bytes \in Nat /\ e.dropped_bytes \in Nat /\ e.dropped_chunks \in Nat
      /\ e.queue \in Seq(Chunk) /\ e.capacity \in Nat
  BY <1>2 DEF Channel
<1>4. e.queue = <<>> \/ e.total_bytes + Size(c) <= e.capacity
  <2>1. CASE k = Len(ch.queue)
    <3>1. Len(e.queue) = 0
      BY <2>1, <1>1, <1>2
    <3> QED BY <3>1, <1>3
  <2>2. CASE ch.total_bytes - PrefixBytes(ch.queue, k) + Size(c) <= ch.capacity
    BY <2>2, <1>2
  <2> QED BY <2>1, <2>2 DEF Evicts
<1>5. e.queue # <<>> => ch.queue # <<>> /\ e.queue[1].lo >= ch.queue[1].lo
  <2> SUFFICES ASSUME e.queue # <<>>
               PROVE  ch.queue # <<>> /\ e.queue[1].lo >= ch.queue[1].lo
    OBVIOUS
  <2>1. Len(e.queue) > 0 /\ Len(e.queue) \in Nat
    BY <1>3
  <2>2. 1 \in 1..Len(ch.queue) /\ k + 1 \in 1..Len(ch.queue) /\ ch.queue # <<>>
    BY <2>1, <1>1, <1>2
  <2>3. /\ ch.queue[1].lo \in Nat /\ ch.queue[1].hi \in Nat
        /\ ch.queue[k + 1].lo \in Nat
    BY <2>2, <1>1, ChunkFields
  <2>4. CASE k = 0
    BY <2>3, <2>4, <1>2
  <2>5. CASE k # 0
    <3>1. 1 < k + 1
      BY <2>5
    <3>2. ch.queue[1].lo <= ch.queue[1].hi /\ ch.queue[1].hi < ch.queue[k + 1].lo
      BY <2>2, <3>1, <1>1 DEF Sound, WellQueued
    <3>3. ch.queue[1].lo <= ch.queue[k + 1].lo
      BY <2>3, <3>2
    <3> QED BY <2>2, <3>3, <1>2
  <2> QED BY <2>2, <2>4, <2>5
<1> HIDE DEF e
<1>6. s = Push(e, c)
  BY DEF Send, e
<1>7. CASE e.total_bytes + Size(c) > e.capacity
  <2>1. e.queue = <<>>
    BY <1>3, <1>4, <1>7, <1>1
  <2>2. e.total_bytes = 0
    BY <2>1, <1>2, SpanToTop
  <2>3. s = [e EXCEPT !.dropped_chunks = @ + 1, !.dropped_bytes = @ + Size(c)]
    BY <1>6, <1>7 DEF Push
  <2>4. s \in Channel
    <3>1. \A m \in Nat, n \in Nat :
            [e EXCEPT !.dropped_chunks = m, !.dropped_bytes = n] \in Channel
      BY <1>2 DEF Channel
    <3>2. e.dropped_chunks + 1 \in Nat /\ e.dropped_bytes + Size(c) \in Nat
      BY <1>1, <1>3, SMTT(40)
    <3> QED BY <2>3, <3>1, <3>2
  <2>5. /\ s.queue = <<>> /\ s.total_bytes = 0 /\ s.capacity = e.capacity
        /\ s.dropped_bytes = e.dropped_bytes + Size(c)
        /\ s.closed = e.closed /\ s.error = e.error /\ s.waker = e.waker
    BY <2>1, <2>2, <2>3, <1>2 DEF Channel
  <2>6. WellQueued(s.queue, c.hi) /\ PrefixBytes(s.queue, Len(s.queue)) = 0
    BY <2>5 DEF WellQueued, Contiguous, PrefixBytes
  <2>7. Exact(s, c.hi)
    BY <2>5, <2>6, <1>3 DEF Exact, Sound
  <2>8. /\ s.total_bytes + s.dropped_bytes
             = ch.total_bytes + ch.dropped_bytes + Size(c)
        /\ s.dropped_bytes >= ch.dropped_bytes
    BY <2>2, <2>5, <1>1, <1>2, <1>3
  <2> QED BY <2>4, <2>5, <2>7, <2>8, <1>2
<1>8. CASE ~(e.total_bytes + Size(c) > e.capacity)
  <2>1. s = [e EXCEPT !.queue = Append(@, c),
                      !.total_bytes = @ + Size(c),
                      !.waker = FALSE]
    BY <1>6, <1>8 DEF Push
  <2>2. /\ s.queue = Append(e.queue, c) /\ s.total_bytes = e.total_bytes + Size(c)
        /\ s.capacity = e.capacity /\ s.dropped_bytes = e.dropped_bytes
        /\ s.closed = e.closed /\ s.error = e.error /\ s.waker = FALSE
    BY <2>1, <1>2 DEF Channel
  <2>3. /\ Sound(s, c.hi) /\ s.queue \in Seq(Chunk) /\ s.queue # <<>>
        /\ s.queue[1] = IF e.queue = <<>> THEN c ELSE e.queue[1]
    BY <2>2, <1>2, AppendExact
  <2>4. s.total_bytes \in Nat /\ s.total_bytes <= s.capacity
    BY <2>2, <1>1, <1>3, <1>8, SMTT(40)
  <2>5. s \in Channel
    <3>1. \A q \in Seq(Chunk), t \in Nat :
            [e EXCEPT !.queue = q, !.total_bytes = t, !.waker = FALSE] \in Channel
      BY <1>2 DEF Channel
    <3> DEFINE r == s.queue
               t == s.total_bytes
    <3>2. s = [e EXCEPT !.queue = r, !.total_bytes = t, !.waker = FALSE]
      BY <2>1, <2>2
    <3>3. r \in Seq(Chunk) /\ t \in Nat
      BY <2>3, <2>4
    <3> HIDE DEF r, t
    <3> QED BY <3>1, <3>2, <3>3
  <2>6. Exact(s, c.hi)
    BY <2>3, <2>4 DEF Exact
  <2>7. /\ s.total_bytes + s.dropped_bytes
             = ch.total_bytes + ch.dropped_bytes + Size(c)
        /\ s.dropped_bytes >= ch.dropped_bytes
    BY <2>2, <1>1, <1>2, <1>3
  <2>8. \/ s.queue[1].lo = top + 1
        \/ ch.queue # <<>> /\ s.queue[1].lo >= ch.queue[1].lo
    BY <2>3, <1>5
  <2> QED BY <2>2, <2>5, <2>6, <2>7, <2>8, <1>2
<1> QED BY <1>7, <1>8

\* SniffChannel::set_capacity: the loop evicts until the rest fits.
LEMMA ShrinkExact ==
  ASSUME NEW ch \in Channel, NEW top \in Nat, Exact(ch, top), NEW cap \in Nat,
         NEW k \in 0..Len(ch.queue), Evicts(SetCapacity(ch, cap), k, 0),
         NEW s, s = Evict(SetCapacity(ch, cap), k)
  PROVE  /\ s \in Channel
         /\ Exact(s, top)
         /\ s.total_bytes + s.dropped_bytes = ch.total_bytes + ch.dropped_bytes
         /\ s.dropped_bytes >= ch.dropped_bytes
         /\ s.closed = ch.closed /\ s.error = ch.error /\ s.waker = ch.waker
         /\ ch.queue = <<>> => s.queue = <<>>
         /\ s.queue # <<>> =>
              ch.queue # <<>> /\ s.queue[1].lo >= ch.queue[1].lo
<1> DEFINE z == SetCapacity(ch, cap)
<1>1. /\ z \in Channel /\ z.queue = ch.queue /\ z.total_bytes = ch.total_bytes
      /\ z.capacity = cap /\ z.dropped_bytes = ch.dropped_bytes
      /\ z.closed = ch.closed /\ z.error = ch.error /\ z.waker = ch.waker
  BY DEF SetCapacity, Channel
<1>2. Sound(z, top)
  BY <1>1 DEF Exact, Sound
<1>3. k \in 0..Len(z.queue) /\ Evicts(z, k, 0) /\ s = Evict(z, k)
  BY <1>1
<1> HIDE DEF z
<1>4. /\ s \in Channel
      /\ Sound(s, top)
      /\ s.total_bytes + s.dropped_bytes = z.total_bytes + z.dropped_bytes
      /\ s.dropped_bytes >= z.dropped_bytes
      /\ s.total_bytes = z.total_bytes - PrefixBytes(z.queue, k)
      /\ s.capacity = z.capacity
      /\ s.error = z.error /\ s.closed = z.closed /\ s.waker = z.waker
      /\ Len(s.queue) = Len(z.queue) - k
      /\ s.queue # <<>> => s.queue[1] = z.queue[k + 1]
  <2>1. z \in Channel /\ Sound(z, top) /\ k \in 0..Len(z.queue) /\ s = Evict(z, k)
    BY <1>1, <1>2, <1>3
  <2> DEFINE e == Evict(z, k)
  <2>2. /\ e \in Channel
        /\ Sound(e, top)
        /\ e.total_bytes + e.dropped_bytes = z.total_bytes + z.dropped_bytes
        /\ e.dropped_bytes >= z.dropped_bytes
        /\ e.total_bytes = z.total_bytes - PrefixBytes(z.queue, k)
        /\ e.capacity = z.capacity
        /\ e.error = z.error /\ e.closed = z.closed /\ e.waker = z.waker
        /\ Len(e.queue) = Len(z.queue) - k
        /\ e.queue # <<>> => e.queue[1] = z.queue[k + 1]
    BY <2>1, EvictSound
  <2>3. s = e
    BY <2>1
  <2> HIDE DEF e
  <2> QED BY <2>2, <2>3
<1>5. /\ s.total_bytes \in Nat /\ s.queue \in Seq(Chunk) /\ z.queue \in Seq(Chunk)
      /\ Len(z.queue) \in Nat /\ Len(s.queue) \in Nat
  BY <1>1, <1>4 DEF Channel
<1>6. s.total_bytes <= s.capacity
  <2>1. CASE k = Len(z.queue)
    <3>1. Len(s.queue) = 0
      BY <2>1, <1>4, <1>5
    <3>2. s.total_bytes = 0
      BY <3>1, <1>4, <1>5, SpanToTop
    <3> QED BY <3>2, <1>1, <1>4
  <2>2. CASE z.total_bytes - PrefixBytes(z.queue, k) + 0 <= z.capacity
    BY <2>2, <1>4, <1>5
  <2> QED BY <2>1, <2>2, <1>3 DEF Evicts
<1>7. s.queue # <<>> => z.queue # <<>> /\ s.queue[1].lo >= z.queue[1].lo
  <2> SUFFICES ASSUME s.queue # <<>>
               PROVE  z.queue # <<>> /\ s.queue[1].lo >= z.queue[1].lo
    OBVIOUS
  <2>1. Len(s.queue) > 0
    BY <1>5
  <2>2. 1 \in 1..Len(z.queue) /\ k + 1 \in 1..Len(z.queue) /\ z.queue # <<>>
    BY <2>1, <1>3, <1>4, <1>5
  <2>3. /\ z.queue[1].lo \in Nat /\ z.queue[1].hi \in Nat
        /\ z.queue[k + 1].lo \in Nat
    BY <2>2, <1>5, ChunkFields
  <2>4. CASE k = 0
    BY <2>2, <2>3, <2>4, <1>4
  <2>5. CASE k # 0
    <3>1. 1 < k + 1
      BY <2>5, <1>3
    <3>2. z.queue[1].lo <= z.queue[1].hi /\ z.queue[1].hi < z.queue[k + 1].lo
      BY <2>2, <3>1, <1>2 DEF Sound, WellQueued
    <3>3. z.queue[1].lo <= z.queue[k + 1].lo
      BY <2>3, <3>2
    <3> QED BY <2>2, <3>3, <1>4
  <2> QED BY <2>4, <2>5
<1> QED BY <1>1, <1>4, <1>6, <1>7 DEF Exact

----------------------------------------------------------------------------
(* The inductive invariant *)

Types ==
  /\ wire \in Nat /\ chunk \in Chunk /\ pending \in Chunk
  /\ rpc \in {"reading", "sendTap", "finishing", "finished"}
  /\ cpc \in {"idle", "checking", "parked"} /\ notified \in BOOLEAN
  /\ result \in {"none", "data", "eof", "reset", "broken"}
  /\ last \in Nat /\ taken \in Nat /\ timing \in {"fresh", "stale"}
  /\ fpc \in {"spawned", "running", "parked", "done"}
  /\ fnotified \in BOOLEAN /\ seen \in Nat
  /\ dpc \in {"live", "dataClosed", "tapClosed", "readerAborted", "dropped"}
  /\ aborted \subseteq {"reader", "forwarder"}

PendingOK == pending.lo <= pending.hi + 1

\* The data channel and what the owner got from it.
DataPart ==
  /\ data \in Channel /\ Exact(data, wire)
  /\ DataAccounted /\ HeldInOrder /\ PendingOK

\* A chunk on its way to the tap is the last one read.
FanOut ==
  rpc = "sendTap" => 1 <= chunk.lo /\ chunk.lo <= chunk.hi /\ chunk.hi = wire

\* The tap channel, and the forwarder's wake-up.
TapPart ==
  /\ tap \in Channel /\ Exact(tap, TapSent)
  /\ TapAccounted /\ FanOut /\ NoLostTapWakeup

\* A read in progress keeps the SniffIo alive, and misses no wake-up.
Parking ==
  cpc # "idle" =>
    /\ dpc = "live"
    /\ notified \/ (data.waker /\ data.queue = <<>> /\ data.error = "none")

\* Only Drop closes the data channel; an error is the reader's last word, and
\* once the owner has been told of it nothing is left to deliver.
Ending ==
  /\ dpc = "live" => ~data.closed
  /\ data.error # "none" => rpc \in {"finishing", "finished"}
  /\ result \in {"eof", "reset"} =>
       /\ rpc \in {"finishing", "finished"}
       /\ data.queue = <<>> /\ Size(pending) = 0

IInv == Types /\ DataPart /\ TapPart /\ Parking /\ Ending

----------------------------------------------------------------------------
(* Steps that leave a part alone *)

\* The data part depends on the queue and its counters only.
LEMMA DataFrame ==
  ASSUME DataPart, data' \in Channel,
         data'.queue = data.queue, data'.total_bytes = data.total_bytes,
         data'.capacity = data.capacity, data'.dropped_bytes = data.dropped_bytes,
         UNCHANGED <<wire, pending, last, taken>>
  PROVE  DataPart'
BY DEF DataPart, Exact, Sound, DataAccounted, HeldInOrder, PendingOK

\* A step that changes nothing the data part speaks of keeps that part.
LEMMA DataUnchanged ==
  ASSUME DataPart, UNCHANGED <<data, wire, pending, last, taken>>
  PROVE  DataPart'
BY DEF DataPart, Exact, Sound, DataAccounted, HeldInOrder, PendingOK

\* The tap part changes with the tap channel, the reader and the forwarder.
LEMMA TapUnchanged ==
  ASSUME TapPart, UNCHANGED <<tap, seen, fpc, fnotified, chunk, wire>>,
         rpc' = rpc \/ (rpc # "sendTap" /\ rpc' # "sendTap")
  PROVE  TapPart'
BY DEF TapPart, Exact, Sound, TapAccounted, FanOut, NoLostTapWakeup, TapSent

\* Setting flags of a channel leaves a channel.
LEMMA ChannelFlags ==
  ASSUME NEW ch \in Channel
  PROVE  /\ RegisterWaker(ch) \in Channel /\ TakeError(ch) \in Channel
         /\ Close(ch) \in Channel
         /\ \A e \in {"eof", "reset"} : SendError(ch, e) \in Channel
BY DEF Channel, RegisterWaker, TakeError, Close, SendError

----------------------------------------------------------------------------
(* The reader *)

\* active_reader sends a chunk to the data channel: the wire grows, chunks may
\* be evicted and the new one may be dropped; the invariant is kept.
LEMMA ReaderReadStep ==
  ASSUME IInv, NEW n \in ChunkSizes, ReaderRead(n)
  PROVE  IInv'
<1>1. n \in Nat /\ n >= 1 /\ wire \in Nat /\ chunk' \in Chunk
      /\ chunk'.lo = wire + 1 /\ chunk'.hi = wire + n /\ Size(chunk') = n
      /\ wire' = wire + n
  BY SniffConstants DEF ReaderRead, IInv, Types, Chunk, Size
<1>2. PICK k \in 0..Len(data.queue) :
        Evicts(data, k, n) /\ data' = Send(data, chunk', k)
  BY DEF ReaderRead
<1>3. data \in Channel /\ Exact(data, wire)
  BY DEF IInv, DataPart
<1> DEFINE c == chunk'
           s == data'
<1>4. /\ c \in Chunk /\ c.lo = wire + 1 /\ c.lo <= c.hi
      /\ Evicts(data, k, Size(c)) /\ s = Send(data, c, k)
  BY <1>1, <1>2
<1> HIDE DEF c, s
<1>5. /\ s \in Channel
      /\ Exact(s, c.hi)
      /\ s.total_bytes + s.dropped_bytes
           = data.total_bytes + data.dropped_bytes + Size(c)
      /\ s.dropped_bytes >= data.dropped_bytes
      /\ s.closed = data.closed /\ s.error = data.error
      /\ s.waker => data.waker /\ s.queue = <<>>
      /\ s.queue # <<>> =>
           \/ s.queue[1].lo = wire + 1
           \/ data.queue # <<>> /\ s.queue[1].lo >= data.queue[1].lo
  BY <1>1, <1>3, <1>4, SendExact
<1>6. /\ data' \in Channel
      /\ Exact(data', wire')
      /\ data'.total_bytes + data'.dropped_bytes
           = data.total_bytes + data.dropped_bytes + n
      /\ data'.closed = data.closed /\ data'.error = data.error
      /\ data'.waker => data.waker /\ data'.queue = <<>>
      /\ data'.queue # <<>> =>
           \/ data'.queue[1].lo = wire + 1
           \/ data.queue # <<>> /\ data'.queue[1].lo >= data.queue[1].lo
  BY <1>1, <1>5 DEF c, s
<1>7. /\ UNCHANGED <<tap, pending, cpc, result, last, taken, timing, fpc,
                     fnotified, seen, dpc, aborted>>
      /\ rpc = "reading" /\ rpc' = "sendTap"
      /\ notified' = (notified \/ (data.waker /\ ~data'.waker))
  BY DEF ReaderRead, tapVars, WakeOwner, Wakes
<1>8. Types'
  BY <1>1, <1>7 DEF IInv, Types
<1>9. DataPart'
  <2>1. /\ taken + Size(pending) + data.total_bytes + data.dropped_bytes = wire
        /\ last <= wire
        /\ Size(pending) > 0 => last = pending.lo - 1 /\ pending.hi <= wire
        /\ data.queue # <<>> =>
             /\ last < data.queue[1].lo
             /\ Size(pending) > 0 => pending.hi < data.queue[1].lo
    BY DEF IInv, DataPart, DataAccounted, HeldInOrder
  <2>2. /\ taken \in Nat /\ last \in Nat /\ pending.lo \in Nat /\ pending.hi \in Nat
        /\ data.total_bytes \in Nat /\ data.dropped_bytes \in Nat
        /\ data'.total_bytes \in Nat /\ data'.dropped_bytes \in Nat
    BY <1>3, <1>6 DEF IInv, Types, Chunk, Channel
  <2>3. DataAccounted'
    <3> DEFINE h == Size(pending)
               t == data.total_bytes
               d == data.dropped_bytes
               t2 == data'.total_bytes
               d2 == data'.dropped_bytes
    <3>1. /\ h \in Int /\ t \in Nat /\ d \in Nat /\ t2 \in Nat /\ d2 \in Nat
          /\ taken \in Nat /\ taken + h + t + d = wire /\ t2 + d2 = t + d + n
      BY <2>1, <2>2, <1>6 DEF Size
    <3>2. DataAccounted' <=> taken + h + t2 + d2 = wire + n
      BY <1>1, <1>7 DEF DataAccounted
    <3> HIDE DEF h, t, d, t2, d2
    <3>3. taken + h + t2 + d2 = wire + n
      BY <3>1, <1>1
    <3> QED BY <3>2, <3>3
  <2>4. HeldInOrder'
    <3>1. data'.queue # <<>> =>
            /\ last < data'.queue[1].lo
            /\ Size(pending) > 0 => pending.hi < data'.queue[1].lo
      <4> SUFFICES ASSUME data'.queue # <<>>
                   PROVE  /\ last < data'.queue[1].lo
                          /\ Size(pending) > 0 => pending.hi < data'.queue[1].lo
        OBVIOUS
      <4>1. data'.queue[1].lo \in Nat
        BY <1>1, <1>6, SpanToTop DEF Exact
      <4>2. CASE data'.queue[1].lo = wire + 1
        BY <4>2, <2>1, <2>2, <1>1
      <4>3. CASE data.queue # <<>> /\ data'.queue[1].lo >= data.queue[1].lo
        <5>1. data.queue[1].lo \in Nat
          BY <4>3, <1>1, <1>3, SpanToTop DEF Exact
        <5> QED BY <4>1, <4>3, <5>1, <2>1, <2>2, SMTT(40)
      <4> QED BY <4>2, <4>3, <1>6
    <3>2. last <= wire' /\ (Size(pending) > 0 => last = pending.lo - 1 /\ pending.hi <= wire')
      BY <2>1, <2>2, <1>1
    <3> QED BY <3>1, <3>2, <1>7 DEF HeldInOrder
  <2>5. PendingOK'
    BY <1>7 DEF IInv, DataPart, PendingOK
  <2> QED BY <2>3, <2>4, <2>5, <1>6 DEF DataPart
<1>10. TapPart'
  <2>1. TapSent' = TapSent
    BY <1>1, <1>7 DEF TapSent
  <2>2. FanOut'
    BY <1>1, <1>7 DEF FanOut
  <2>3. tap' \in Channel /\ Exact(tap, TapSent)' /\ TapAccounted' /\ NoLostTapWakeup'
    BY <2>1, <1>7 DEF IInv, TapPart, Exact, Sound, TapAccounted, NoLostTapWakeup
  <2> QED BY <2>2, <2>3 DEF TapPart
<1>11. Parking'
  <2>1. data.waker \in BOOLEAN /\ data'.waker \in BOOLEAN
    BY <1>3, <1>6 DEF Channel
  <2> QED BY <2>1, <1>6, <1>7 DEF IInv, Parking
<1>12. Ending'
  BY <1>6, <1>7 DEF IInv, Ending
<1> QED BY <1>8, <1>9, <1>10, <1>11, <1>12 DEF IInv

\* active_reader sends the same chunk to the tap channel: the invariant is kept.
LEMMA ReaderSendTapStep ==
  ASSUME IInv, ReaderSendTap
  PROVE  IInv'
<1>1. PICK k \in 0..Len(tap.queue) :
        Evicts(tap, k, Size(chunk)) /\ tap' = Send(tap, chunk, k)
  BY DEF ReaderSendTap
<1>2. /\ UNCHANGED <<wire, chunk, data, pending, cpc, notified, result, last,
                     taken, timing, fpc, seen, dpc, aborted>>
      /\ rpc = "sendTap" /\ rpc' \in {"finishing", "reading"}
      /\ fnotified' = (fnotified \/ (tap.waker /\ ~tap'.waker))
  BY DEF ReaderSendTap, ownerVars, WakeForwarder, Wakes
<1> DEFINE top == chunk.lo - 1
           s == tap'
<1>3. /\ tap \in Channel /\ Exact(tap, top) /\ TapSent = top /\ top \in Nat
      /\ chunk \in Chunk /\ chunk.lo = top + 1 /\ chunk.lo <= chunk.hi
      /\ chunk.hi = wire /\ chunk.lo \in Nat /\ chunk.hi \in Nat
  BY <1>2 DEF IInv, TapPart, TapSent, FanOut, Types, Chunk
<1>4. s = Send(tap, chunk, k)
  BY <1>1
<1> HIDE DEF s, top
<1>5. /\ s \in Channel
      /\ Exact(s, chunk.hi)
      /\ s.total_bytes + s.dropped_bytes
           = tap.total_bytes + tap.dropped_bytes + Size(chunk)
      /\ s.closed = tap.closed
      /\ s.waker => tap.waker /\ s.queue = <<>>
  BY <1>1, <1>3, <1>4, SendExact
<1>6. Types' /\ DataPart'
  BY <1>2, DataUnchanged DEF IInv, Types
<1>7. TapPart'
  <2>1. TapSent' = wire /\ FanOut'
    BY <1>2 DEF TapSent, FanOut
  <2>2. TapAccounted'
    <3> DEFINE t == tap.total_bytes
               d == tap.dropped_bytes
               t2 == s.total_bytes
               d2 == s.dropped_bytes
               a == chunk.lo
    <3>1. /\ t \in Nat /\ d \in Nat /\ t2 \in Nat /\ d2 \in Nat /\ a \in Nat
          /\ seen \in Nat /\ wire \in Nat
          /\ t2 + d2 = t + d + (wire - a + 1)
      BY <1>3, <1>5 DEF Channel, Size, IInv, Types
    <3>2. seen + t + d = a - 1
      BY <1>3 DEF IInv, TapPart, TapAccounted, top
    <3>3. TapAccounted' <=> seen + t2 + d2 = wire
      BY <2>1, <1>2 DEF TapAccounted, s
    <3> HIDE DEF t, d, t2, d2, a
    <3>4. seen + t2 + d2 = wire
      BY <3>1, <3>2
    <3> QED BY <3>3, <3>4
  <2>3. NoLostTapWakeup'
    <3>1. tap.waker \in BOOLEAN /\ s.waker \in BOOLEAN
      BY <1>3, <1>5 DEF Channel
    <3> QED BY <3>1, <1>2, <1>5 DEF IInv, TapPart, NoLostTapWakeup, s
  <2>4. tap' \in Channel /\ Exact(tap, TapSent)'
    BY <2>1, <1>3, <1>5 DEF s
  <2> QED BY <2>1, <2>2, <2>3, <2>4 DEF TapPart
<1>8. Parking' /\ Ending'
  <2>1. result \notin {"eof", "reset"} /\ data.error = "none"
    BY <1>2 DEF IInv, Ending
  <2> QED BY <2>1, <1>2 DEF IInv, Parking, Ending
<1> QED BY <1>6, <1>7, <1>8 DEF IInv

\* active_reader reports an error and wakes the owner: the invariant is kept.
LEMMA ReaderFailsStep ==
  ASSUME IInv, NEW e \in {"eof", "reset"}, ReaderFails(e)
  PROVE  IInv'
<1>1. /\ UNCHANGED <<wire, chunk, tap, pending, cpc, result, last, taken, timing,
                     fpc, fnotified, seen, dpc, aborted>>
      /\ rpc = "reading" /\ rpc' = "finishing" /\ data' = SendError(data, e)
      /\ notified' = (notified \/ (data.waker /\ ~data'.waker))
  BY DEF ReaderFails, tapVars, WakeOwner, Wakes
<1>2. data \in Channel /\ data' \in Channel
  BY <1>1, ChannelFlags DEF IInv, DataPart
<1>3. /\ data'.queue = data.queue /\ data'.total_bytes = data.total_bytes
      /\ data'.capacity = data.capacity /\ data'.dropped_bytes = data.dropped_bytes
      /\ data'.closed = data.closed /\ data'.waker = FALSE
  BY <1>1, <1>2 DEF SendError, Channel
<1>4. DataPart'
  BY <1>1, <1>2, <1>3, DataFrame DEF IInv
<1>5. TapPart' /\ Types'
  BY <1>1, TapUnchanged DEF IInv, Types
<1>6. Parking' /\ Ending'
  BY <1>1, <1>3 DEF IInv, Parking, Ending
<1> QED BY <1>4, <1>5, <1>6 DEF IInv

\* The end of the reader task, by return, abort or panic, keeps the invariant.
LEMMA ReaderFinishStep ==
  ASSUME IInv, ReaderFinish
  PROVE  IInv'
<1>1. /\ UNCHANGED <<wire, chunk, data, tap, pending, cpc, notified, result,
                     last, taken, timing, fpc, fnotified, seen, dpc, aborted>>
      /\ rpc \in {"reading", "finishing"} /\ rpc' = "finished"
  BY DEF ReaderFinish, ownerVars, tapVars
<1>2. Types' /\ DataPart' /\ TapPart'
  BY <1>1, DataUnchanged, TapUnchanged DEF IInv, Types
<1>3. Parking' /\ Ending'
  BY <1>1 DEF IInv, Parking, Ending
<1> QED BY <1>2, <1>3 DEF IInv

----------------------------------------------------------------------------
(* The forwarder *)

\* tap_forwarder takes a chunk off the tap channel: the invariant is kept.
LEMMA ForwarderForwardStep ==
  ASSUME IInv, ForwarderForward
  PROVE  IInv'
<1>1. /\ UNCHANGED <<wire, rpc, chunk, data, pending, cpc, notified, result, last,
                     taken, timing, dpc, aborted>>
      /\ tap' = PopFront(tap) /\ seen' = seen + Size(Head(tap.queue))
      /\ fpc' = "running" /\ fnotified' = FALSE
      /\ tap.queue # <<>>
  BY DEF ForwarderForward, readerVars, ownerVars, PollRecv
<1>2. tap \in Channel /\ Exact(tap, TapSent) /\ TapSent \in Nat /\ TapSent' = TapSent
  BY <1>1 DEF IInv, TapPart, TapSent, Types, FanOut, Chunk
<1> DEFINE p == PopFront(tap)
<1>3. /\ p \in Channel /\ Exact(p, TapSent)
      /\ p.total_bytes = tap.total_bytes - Size(tap.queue[1])
      /\ p.dropped_bytes = tap.dropped_bytes
      /\ Head(tap.queue) = tap.queue[1]
  BY <1>1, <1>2, PopExact
<1>4. Size(tap.queue[1]) \in Nat
  BY <1>1, <1>2, SpanToTop DEF Size, Exact
<1> HIDE DEF p
<1>5. Types' /\ DataPart'
  <2>1. seen' \in Nat
    BY <1>1, <1>3, <1>4 DEF IInv, Types
  <2> QED BY <2>1, <1>1, DataUnchanged DEF IInv, Types
<1>6. TapPart'
  <2>1. FanOut' /\ NoLostTapWakeup'
    BY <1>1 DEF IInv, TapPart, FanOut, NoLostTapWakeup
  <2>2. TapAccounted'
    <3> DEFINE z == Size(tap.queue[1])
               t == tap.total_bytes
               d == tap.dropped_bytes
               top == TapSent
    <3>1. /\ z \in Nat /\ t \in Nat /\ d \in Nat /\ seen \in Nat
          /\ seen + t + d = top
      BY <1>2, <1>4 DEF Channel, IInv, Types, TapPart, TapAccounted
    <3>2. TapAccounted' <=> (seen + z) + (t - z) + d = top
      BY <1>1, <1>2, <1>3 DEF TapAccounted, p
    <3> HIDE DEF z, t, d, top
    <3>3. (seen + z) + (t - z) + d = top
      BY <3>1
    <3> QED BY <3>2, <3>3
  <2>3. tap' \in Channel /\ Exact(tap, TapSent)'
    BY <1>1, <1>2, <1>3 DEF p
  <2> QED BY <2>1, <2>2, <2>3 DEF TapPart
<1>7. Parking' /\ Ending'
  BY <1>1 DEF IInv, Parking, Ending
<1> QED BY <1>5, <1>6, <1>7 DEF IInv

\* tap_forwarder registers its waker and sleeps: the invariant is kept.
LEMMA ForwarderParksStep ==
  ASSUME IInv, ForwarderParks
  PROVE  IInv'
<1>1. /\ UNCHANGED <<wire, rpc, chunk, data, pending, cpc, notified, result, last,
                     taken, timing, seen, dpc, aborted>>
      /\ tap' = RegisterWaker(tap) /\ fpc' = "parked" /\ fnotified' = FALSE
      /\ tap.queue = <<>> /\ ~tap.closed
  BY DEF ForwarderParks, readerVars, ownerVars, PollRecv
<1>2. tap \in Channel /\ tap' \in Channel
  BY <1>1, ChannelFlags DEF IInv, TapPart
<1>3. /\ tap'.queue = tap.queue /\ tap'.total_bytes = tap.total_bytes
      /\ tap'.capacity = tap.capacity /\ tap'.dropped_bytes = tap.dropped_bytes
      /\ tap'.closed = tap.closed /\ tap'.waker = TRUE
  BY <1>1, <1>2 DEF RegisterWaker, Channel
<1>4. TapPart'
  BY <1>1, <1>2, <1>3
     DEF IInv, TapPart, Exact, Sound, TapAccounted, FanOut, NoLostTapWakeup, TapSent
<1>5. Types' /\ DataPart'
  BY <1>1, DataUnchanged DEF IInv, Types
<1>6. Parking' /\ Ending'
  BY <1>1 DEF IInv, Parking, Ending
<1> QED BY <1>4, <1>5, <1>6 DEF IInv

\* The end of the forwarder task keeps the invariant.
LEMMA ForwarderEndsStep ==
  ASSUME IInv, ForwarderEnds
  PROVE  IInv'
<1>1. /\ UNCHANGED <<wire, rpc, chunk, data, tap, pending, cpc, notified, result,
                     last, taken, timing, fnotified, seen, dpc, aborted>>
      /\ fpc' = "done"
  BY DEF ForwarderEnds, readerVars, ownerVars
<1>2. TapPart'
  BY <1>1 DEF IInv, TapPart, Exact, Sound, TapAccounted, FanOut, NoLostTapWakeup,
              TapSent
<1>3. Types' /\ DataPart'
  BY <1>1, DataUnchanged DEF IInv, Types
<1>4. Parking' /\ Ending'
  BY <1>1 DEF IInv, Parking, Ending
<1> QED BY <1>2, <1>3, <1>4 DEF IInv

----------------------------------------------------------------------------
(* The owner *)

\* What Deliver hands out of the bytes b, and what it keeps.
LEMMA DeliverSplits ==
  ASSUME NEW b \in Chunk, NEW room \in Nat, room >= 1, 1 <= b.lo, b.lo <= b.hi,
         Types, Deliver(b, room)
  PROVE  /\ \E n \in Nat : /\ 1 <= n /\ last' = b.lo + n - 1 /\ taken' = taken + n
                           /\ last' + Size(pending)' = b.hi
         /\ last' \in Nat /\ taken' \in Nat /\ pending' \in Chunk /\ last' <= b.hi
         /\ last' >= b.lo
         /\ PendingOK' /\ Size(pending)' \in Nat
         /\ Size(pending)' > 0 => last' = pending'.lo - 1 /\ pending'.hi = b.hi
         /\ cpc' = "idle" /\ notified' = FALSE /\ result' = "data"
<1> DEFINE n == IF Size(b) < room THEN Size(b) ELSE room
<1>1. b.lo \in Nat /\ b.hi \in Nat /\ taken \in Nat
  BY DEF Chunk, Types
<1>2. n \in Nat /\ 1 <= n /\ n <= Size(b) /\ Size(b) = b.hi - b.lo + 1
  BY <1>1 DEF Size
<1>3. /\ last' = b.lo + n - 1 /\ taken' = taken + n
      /\ pending' = IF n < Size(b) THEN [lo |-> b.lo + n, hi |-> b.hi] ELSE NoBytes
      /\ cpc' = "idle" /\ notified' = FALSE /\ result' = "data"
  BY DEF Deliver
<1> HIDE DEF n
<1>4. last' \in Nat /\ taken' \in Nat /\ last' <= b.hi /\ last' >= b.lo
  BY <1>1, <1>2, <1>3
<1>5. CASE n < Size(b)
  <2>1. pending' = [lo |-> b.lo + n, hi |-> b.hi]
    BY <1>3, <1>5
  <2>2. pending' \in Chunk /\ pending'.lo = b.lo + n /\ pending'.hi = b.hi
    BY <2>1, <1>1, <1>2 DEF Chunk
  <2>3. Size(pending)' = b.hi - (b.lo + n) + 1
    BY <2>2 DEF Size
  <2>4. /\ last' + Size(pending)' = b.hi /\ Size(pending)' \in Nat
        /\ last' = pending'.lo - 1 /\ PendingOK'
    BY <2>2, <2>3, <1>1, <1>2, <1>3, <1>5 DEF PendingOK
  <2> QED BY <2>2, <2>4, <1>2, <1>3, <1>4
<1>6. CASE ~(n < Size(b))
  <2>1. pending' = NoBytes /\ n = Size(b)
    BY <1>1, <1>2, <1>3, <1>6
  <2>2. pending' \in Chunk /\ pending'.lo = 1 /\ pending'.hi = 0
    BY <2>1 DEF NoBytes, Chunk
  <2>3. Size(pending)' = 0 /\ PendingOK'
    BY <2>2 DEF Size, PendingOK
  <2>4. last' + Size(pending)' = b.hi
    BY <2>1, <2>3, <1>1, <1>2, <1>3
  <2> QED BY <2>2, <2>3, <2>4, <1>2, <1>3, <1>4
<1> QED BY <1>5, <1>6

\* poll_read delivers from the leftover: the invariant is kept.
LEMMA PollReadPendingStep ==
  ASSUME IInv, NEW room \in ReadSizes, PollReadPending(room)
  PROVE  IInv'
<1>1. /\ UNCHANGED <<wire, rpc, chunk, data, tap, fpc, fnotified, seen, dpc, aborted>>
      /\ Size(pending) > 0 /\ Deliver(pending, room) /\ timing' = "stale"
  BY DEF PollReadPending, readerVars, tapVars
<1>2. /\ pending \in Chunk /\ pending.lo \in Nat /\ pending.hi \in Nat
      /\ pending.lo <= pending.hi /\ last = pending.lo - 1 /\ last \in Nat
      /\ pending.hi <= wire /\ 1 <= pending.lo /\ wire \in Nat /\ taken \in Nat
      /\ data \in Channel /\ Exact(data, wire) /\ room \in Nat /\ room >= 1
  BY <1>1, SniffConstants
     DEF IInv, Types, DataPart, HeldInOrder, PendingOK, Chunk, Size
<1>3. PICK n \in Nat : /\ 1 <= n /\ last' = pending.lo + n - 1 /\ taken' = taken + n
                       /\ last' + Size(pending)' = pending.hi
  BY <1>1, <1>2, DeliverSplits DEF IInv
<1>4. /\ last' \in Nat /\ taken' \in Nat /\ pending' \in Chunk /\ last' <= pending.hi
      /\ last' >= pending.lo
      /\ PendingOK' /\ Size(pending)' \in Nat
      /\ Size(pending)' > 0 => last' = pending'.lo - 1 /\ pending'.hi = pending.hi
      /\ cpc' = "idle" /\ notified' = FALSE /\ result' = "data"
  BY <1>1, <1>2, DeliverSplits DEF IInv
<1>5. Types'
  BY <1>1, <1>4 DEF IInv, Types
<1>6. DataPart'
  <2>1. DataAccounted'
    <3> DEFINE h == Size(pending)'
               t == data.total_bytes
               d == data.dropped_bytes
               lo == pending.lo
               hi == pending.hi
               l2 == last'
    <3>1. /\ t \in Nat /\ d \in Nat /\ h \in Nat /\ lo \in Nat /\ hi \in Nat
          /\ l2 \in Nat
          /\ taken + (hi - lo + 1) + t + d = wire
          /\ l2 = lo + n - 1 /\ l2 + h = hi
      BY <1>2, <1>3, <1>4 DEF Channel, IInv, DataPart, DataAccounted, Size
    <3>2. DataAccounted' <=> (taken + n) + h + t + d = wire
      BY <1>1, <1>3 DEF DataAccounted
    <3> HIDE DEF h, t, d, lo, hi, l2
    <3>3. (taken + n) + h + t + d = wire
      BY <3>1, <1>2
    <3> QED BY <3>2, <3>3
  <2>2. HeldInOrder'
    <3>1. data.queue # <<>> => pending.hi < data.queue[1].lo /\ data.queue[1].lo \in Nat
      BY <1>1, <1>2, SpanToTop DEF IInv, DataPart, HeldInOrder, Exact
    <3>2. last' <= wire
      BY <1>2, <1>4
    <3>3. data.queue # <<>> =>
            /\ last' < data.queue[1].lo
            /\ Size(pending)' > 0 => pending'.hi < data.queue[1].lo
      BY <3>1, <1>2, <1>4
    <3>4. Size(pending)' > 0 => last' = pending'.lo - 1 /\ pending'.hi <= wire
      BY <1>2, <1>4
    <3> QED BY <3>2, <3>3, <3>4, <1>1 DEF HeldInOrder
  <2> QED BY <2>1, <2>2, <1>1, <1>2, <1>4 DEF DataPart
<1>7. TapPart'
  BY <1>1, TapUnchanged DEF IInv
<1>8. Parking' /\ Ending'
  BY <1>1, <1>4 DEF IInv, Parking, Ending
<1> QED BY <1>5, <1>6, <1>7, <1>8 DEF IInv

\* poll_read delivers from the oldest chunk and keeps the rest of it as the
\* leftover: the invariant is kept.
LEMMA PollReadDataStep ==
  ASSUME IInv, NEW room \in ReadSizes, PollReadData(room)
  PROVE  IInv'
<1>1. /\ UNCHANGED <<wire, rpc, chunk, tap, fpc, fnotified, seen, dpc, aborted>>
      /\ Size(pending) = 0 /\ data.queue # <<>> /\ data' = PopFront(data)
      /\ Deliver(Head(data.queue), room) /\ timing' = "fresh"
  BY DEF PollReadData, readerVars, tapVars, PollRecv
<1>2. /\ data \in Channel /\ Exact(data, wire) /\ wire \in Nat /\ taken \in Nat
      /\ last \in Nat /\ room \in Nat /\ room >= 1
  BY SniffConstants DEF IInv, Types, DataPart
<1> DEFINE b == data.queue[1]
           p == PopFront(data)
<1>3. /\ b.lo \in Nat /\ b.hi \in Nat /\ 1 <= b.lo /\ b.lo <= b.hi /\ b.hi <= wire
      /\ data.total_bytes = wire - b.lo + 1 /\ Len(data.queue) \in Nat
      /\ Len(data.queue) >= 1
  BY <1>1, <1>2, SpanToTop DEF Exact
<1>4. b \in Chunk
  <2>1. data.queue \in Seq(Chunk) /\ 1 \in 1..Len(data.queue)
    BY <1>2, <1>3 DEF Channel
  <2> QED BY <2>1, ChunkFields
<1>5. /\ p \in Channel /\ Exact(p, wire)
      /\ p.total_bytes = wire - b.hi
      /\ p.dropped_bytes = data.dropped_bytes
      /\ p.closed = data.closed /\ p.error = data.error
      /\ Head(data.queue) = b
      /\ p.queue # <<>> => p.queue[1].lo = b.hi + 1
  BY <1>1, <1>2, PopExact
<1>6. Deliver(b, room) /\ data' = p
  BY <1>1, <1>5
<1>7. data.queue # <<>> => last < b.lo
  BY DEF IInv, DataPart, HeldInOrder
<1> HIDE DEF b, p
<1>8. PICK n \in Nat : /\ 1 <= n /\ last' = b.lo + n - 1 /\ taken' = taken + n
                       /\ last' + Size(pending)' = b.hi
  BY <1>2, <1>3, <1>4, <1>6, DeliverSplits DEF IInv
<1>9. /\ last' \in Nat /\ taken' \in Nat /\ pending' \in Chunk /\ last' <= b.hi
      /\ last' >= b.lo
      /\ PendingOK' /\ Size(pending)' \in Nat
      /\ Size(pending)' > 0 => last' = pending'.lo - 1 /\ pending'.hi = b.hi
      /\ cpc' = "idle" /\ notified' = FALSE /\ result' = "data"
  BY <1>2, <1>3, <1>4, <1>6, DeliverSplits DEF IInv
<1>10. Types'
  BY <1>1, <1>9 DEF IInv, Types
<1>11. DataPart'
  <2>1. DataAccounted'
    <3> DEFINE h == Size(pending)'
               t == data.total_bytes
               d == data.dropped_bytes
               lo == b.lo
               hi == b.hi
               l2 == last'
               t2 == p.total_bytes
    <3>1. /\ t \in Nat /\ d \in Nat /\ h \in Nat /\ lo \in Nat /\ hi \in Nat
          /\ l2 \in Nat
          /\ taken + 0 + t + d = wire /\ t = wire - lo + 1 /\ t2 = wire - hi
          /\ l2 = lo + n - 1 /\ l2 + h = hi
      BY <1>1, <1>2, <1>3, <1>5, <1>8, <1>9 DEF Channel, IInv, DataPart, DataAccounted
    <3>2. DataAccounted' <=> (taken + n) + h + t2 + d = wire
      BY <1>1, <1>5, <1>6, <1>8 DEF DataAccounted
    <3> HIDE DEF h, t, d, lo, hi, l2, t2
    <3>3. (taken + n) + h + t2 + d = wire
      BY <3>1, <1>2
    <3> QED BY <3>2, <3>3
  <2>2. HeldInOrder'
    <3>1. p.queue # <<>> =>
            /\ last' < p.queue[1].lo
            /\ Size(pending)' > 0 => pending'.hi < p.queue[1].lo
      BY <1>3, <1>5, <1>9
    <3>2. last' <= wire
      BY <1>2, <1>3, <1>9
    <3>3. Size(pending)' > 0 => last' = pending'.lo - 1 /\ pending'.hi <= wire
      BY <1>3, <1>9
    <3> QED BY <3>1, <3>2, <3>3, <1>1, <1>6 DEF HeldInOrder
  <2> QED BY <2>1, <2>2, <1>1, <1>5, <1>6, <1>9 DEF DataPart
<1>12. TapPart'
  BY <1>1, TapUnchanged DEF IInv
<1>13. Parking' /\ Ending'
  BY <1>1, <1>5, <1>6, <1>9 DEF IInv, Parking, Ending
<1> QED BY <1>10, <1>11, <1>12, <1>13 DEF IInv

\* poll_read takes the pending error: the invariant is kept.
LEMMA PollReadErrorStep ==
  ASSUME IInv, PollReadError
  PROVE  IInv'
<1>1. /\ UNCHANGED <<wire, rpc, chunk, tap, pending, last, taken, timing, fpc,
                     fnotified, seen, dpc, aborted>>
      /\ Size(pending) = 0 /\ data.queue = <<>> /\ data.error # "none"
      /\ data' = TakeError(data) /\ result' = data.error
      /\ cpc' = "idle" /\ notified' = FALSE
  BY DEF PollReadError, readerVars, tapVars, PollRecv
<1>2. data \in Channel /\ data' \in Channel
  BY <1>1, ChannelFlags DEF IInv, DataPart
<1>3. /\ data'.queue = data.queue /\ data'.total_bytes = data.total_bytes
      /\ data'.capacity = data.capacity /\ data'.dropped_bytes = data.dropped_bytes
      /\ data'.closed = data.closed /\ data'.error = "none"
      /\ data.error \in {"eof", "reset"}
  BY <1>1, <1>2 DEF TakeError, Channel
<1>4. DataPart'
  BY <1>1, <1>2, <1>3, DataFrame DEF IInv
<1>5. TapPart' /\ Types'
  BY <1>1, <1>3, TapUnchanged DEF IInv, Types
<1>6. Parking' /\ Ending'
  BY <1>1, <1>3 DEF IInv, Parking, Ending
<1> QED BY <1>4, <1>5, <1>6 DEF IInv

\* poll_read registers its waker on an empty channel: the invariant is kept.
LEMMA PollReadEmptyStep ==
  ASSUME IInv, PollReadEmpty
  PROVE  IInv'
<1>1. /\ UNCHANGED <<wire, rpc, chunk, tap, pending, result, last, taken, timing,
                     fpc, fnotified, seen, dpc, aborted>>
      /\ data.queue = <<>> /\ data.error = "none" /\ dpc = "live"
      /\ data' = RegisterWaker(data) /\ cpc' = "checking" /\ notified' = FALSE
  BY DEF PollReadEmpty, readerVars, tapVars, PollRecv, OwnerPolls
<1>2. data \in Channel /\ data' \in Channel
  BY <1>1, ChannelFlags DEF IInv, DataPart
<1>3. /\ data'.queue = data.queue /\ data'.total_bytes = data.total_bytes
      /\ data'.capacity = data.capacity /\ data'.dropped_bytes = data.dropped_bytes
      /\ data'.closed = data.closed /\ data'.error = data.error
      /\ data'.waker = TRUE
  BY <1>1, <1>2 DEF RegisterWaker, Channel
<1>4. DataPart'
  BY <1>1, <1>2, <1>3, DataFrame DEF IInv
<1>5. TapPart' /\ Types'
  BY <1>1, TapUnchanged DEF IInv, Types
<1>6. Parking' /\ Ending'
  BY <1>1, <1>3 DEF IInv, Parking, Ending
<1> QED BY <1>4, <1>5, <1>6 DEF IInv

\* poll_read asks is_finished and returns BrokenPipe or Pending: the invariant
\* is kept.
LEMMA PollReadCheckStep ==
  ASSUME IInv, PollReadCheck
  PROVE  IInv'
<1>1. /\ UNCHANGED <<wire, rpc, chunk, data, tap, pending, notified, last, taken,
                     timing, fpc, fnotified, seen, dpc, aborted>>
      /\ cpc = "checking"
      /\ \/ cpc' = "idle" /\ result' = "broken"
         \/ cpc' = "parked" /\ result' = result
  BY DEF PollReadCheck, readerVars, tapVars
<1>2. DataPart' /\ TapPart' /\ Types'
  BY <1>1, DataUnchanged, TapUnchanged DEF IInv, Types
<1>3. Parking' /\ Ending'
  BY <1>1 DEF IInv, Parking, Ending
<1> QED BY <1>2, <1>3 DEF IInv

\* Dropping a read future, a write, and the aborts of Drop.
LEMMA QuietStep ==
  ASSUME IInv,
         CancelRead \/ PollWrite \/ DropAbortReader \/ DropAbortForwarder
  PROVE  IInv'
<1>1. /\ UNCHANGED <<wire, rpc, chunk, data, tap, pending, notified, result, last,
                     taken, fpc, fnotified, seen>>
      /\ cpc' = "idle" \/ cpc' = cpc
      /\ timing' \in {timing, "fresh"}
      /\ aborted' \in {aborted, aborted \cup {"reader"}, aborted \cup {"forwarder"}}
      /\ \/ dpc' = dpc
         \/ dpc \in {"tapClosed", "readerAborted"} /\ dpc' \in {"readerAborted", "dropped"}
  BY DEF CancelRead, PollWrite, DropAbortReader, DropAbortForwarder,
         readerVars, tapVars, ownerVars
<1>2. DataPart' /\ TapPart'
  BY <1>1, DataUnchanged, TapUnchanged DEF IInv
<1>3. Types'
  BY <1>1 DEF IInv, Types
<1>4. Parking' /\ Ending'
  BY <1>1 DEF IInv, Parking, Ending
<1> QED BY <1>2, <1>3, <1>4 DEF IInv

\* with_channel_capacity evicts down to the new capacity: the invariant is kept.
LEMMA WithChannelCapacityStep ==
  ASSUME IInv, NEW cap \in DataCaps, WithChannelCapacity(cap)
  PROVE  IInv'
<1>1. /\ UNCHANGED <<wire, rpc, chunk, tap, pending, cpc, notified, result, last,
                     taken, timing, fpc, fnotified, seen, dpc, aborted>>
      /\ cpc = "idle" /\ cap \in Nat
  BY SniffConstants DEF WithChannelCapacity, readerVars, ownerVars, tapVars
<1>2. PICK k \in 0..Len(data.queue) :
        /\ Evicts(SetCapacity(data, cap), k, 0)
        /\ data' = Evict(SetCapacity(data, cap), k)
  BY DEF WithChannelCapacity
<1>3. data \in Channel /\ Exact(data, wire) /\ wire \in Nat
  BY DEF IInv, DataPart, Types
<1> DEFINE s == data'
<1>4. s = Evict(SetCapacity(data, cap), k)
  BY <1>2
<1> HIDE DEF s
<1>5. /\ s \in Channel
      /\ Exact(s, wire)
      /\ s.total_bytes + s.dropped_bytes = data.total_bytes + data.dropped_bytes
      /\ s.closed = data.closed /\ s.error = data.error
      /\ data.queue = <<>> => s.queue = <<>>
      /\ s.queue # <<>> =>
           data.queue # <<>> /\ s.queue[1].lo >= data.queue[1].lo
  BY <1>1, <1>2, <1>3, <1>4, ShrinkExact
<1>6. DataPart'
  <2>1. DataAccounted'
    <3> DEFINE h == Size(pending)
               t == data.total_bytes
               d == data.dropped_bytes
               t2 == s.total_bytes
               d2 == s.dropped_bytes
    <3>1. /\ h \in Int /\ t \in Nat /\ d \in Nat /\ t2 \in Nat /\ d2 \in Nat
          /\ taken \in Nat /\ taken + h + t + d = wire /\ t2 + d2 = t + d
      BY <1>3, <1>5, SMTT(40) DEF IInv, Types, Chunk, Channel, DataPart, DataAccounted, Size
    <3>2. DataAccounted' <=> taken + h + t2 + d2 = wire
      BY <1>1 DEF DataAccounted, s
    <3> HIDE DEF h, t, d, t2, d2
    <3>3. taken + h + t2 + d2 = wire
      BY <3>1, <1>3
    <3> QED BY <3>2, <3>3
  <2>2. HeldInOrder'
    <3>1. s.queue # <<>> =>
            /\ last < s.queue[1].lo
            /\ Size(pending) > 0 => pending.hi < s.queue[1].lo
      <4> SUFFICES ASSUME s.queue # <<>>
                   PROVE  /\ last < s.queue[1].lo
                          /\ Size(pending) > 0 => pending.hi < s.queue[1].lo
        OBVIOUS
      <4>1. /\ s.queue[1].lo \in Nat /\ data.queue[1].lo \in Nat
            /\ s.queue[1].lo >= data.queue[1].lo
        BY <1>3, <1>5, SpanToTop DEF Exact
      <4>2. /\ last < data.queue[1].lo /\ last \in Nat /\ pending.hi \in Nat
            /\ Size(pending) > 0 => pending.hi < data.queue[1].lo
        BY <1>5 DEF IInv, Types, Chunk, DataPart, HeldInOrder
      <4> QED BY <4>1, <4>2
    <3> QED BY <3>1, <1>1 DEF IInv, DataPart, HeldInOrder, s
  <2>3. data' \in Channel /\ Exact(data', wire') /\ PendingOK'
    BY <1>1, <1>5 DEF IInv, DataPart, PendingOK, s
  <2> QED BY <2>1, <2>2, <2>3 DEF DataPart
<1>7. TapPart' /\ Types'
  BY <1>1, TapUnchanged DEF IInv, Types
<1>8. Parking' /\ Ending'
  BY <1>1, <1>5 DEF IInv, Parking, Ending, s
<1> QED BY <1>6, <1>7, <1>8 DEF IInv

\* with_tap_channel_capacity does the same for the tap: the invariant is kept.
LEMMA WithTapChannelCapacityStep ==
  ASSUME IInv, NEW cap \in TapCaps, WithTapChannelCapacity(cap)
  PROVE  IInv'
<1>1. /\ UNCHANGED <<wire, rpc, chunk, data, pending, cpc, notified, result, last,
                     taken, timing, fpc, fnotified, seen, dpc, aborted>>
      /\ cap \in Nat
  BY SniffConstants DEF WithTapChannelCapacity, readerVars, ownerVars, tapVars
<1>2. PICK k \in 0..Len(tap.queue) :
        /\ Evicts(SetCapacity(tap, cap), k, 0)
        /\ tap' = Evict(SetCapacity(tap, cap), k)
  BY DEF WithTapChannelCapacity
<1>3. tap \in Channel /\ Exact(tap, TapSent) /\ TapSent \in Nat /\ TapSent' = TapSent
  BY <1>1 DEF IInv, TapPart, TapSent, Types, FanOut, Chunk
<1> DEFINE s == tap'
<1>4. s = Evict(SetCapacity(tap, cap), k)
  BY <1>2
<1> HIDE DEF s
<1>5. /\ s \in Channel
      /\ Exact(s, TapSent)
      /\ s.total_bytes + s.dropped_bytes = tap.total_bytes + tap.dropped_bytes
      /\ s.closed = tap.closed /\ s.waker = tap.waker
      /\ tap.queue = <<>> => s.queue = <<>>
  BY <1>1, <1>2, <1>3, <1>4, ShrinkExact
<1>6. TapPart'
  <2>1. TapAccounted'
    <3> DEFINE t == tap.total_bytes
               d == tap.dropped_bytes
               t2 == s.total_bytes
               d2 == s.dropped_bytes
               top == TapSent
    <3>1. /\ t \in Nat /\ d \in Nat /\ t2 \in Nat /\ d2 \in Nat
          /\ seen \in Nat /\ seen + t + d = top /\ t2 + d2 = t + d
      BY <1>3, <1>5 DEF IInv, Types, Channel, TapPart, TapAccounted
    <3>2. TapAccounted' <=> seen + t2 + d2 = top
      BY <1>1, <1>3 DEF TapAccounted, s
    <3> HIDE DEF t, d, t2, d2, top
    <3>3. seen + t2 + d2 = top
      BY <3>1
    <3> QED BY <3>2, <3>3
  <2>2. FanOut' /\ NoLostTapWakeup'
    BY <1>1, <1>5 DEF IInv, TapPart, FanOut, NoLostTapWakeup, s
  <2>3. tap' \in Channel /\ Exact(tap, TapSent)'
    BY <1>3, <1>5 DEF s
  <2> QED BY <2>1, <2>2, <2>3 DEF TapPart
<1>7. Types' /\ DataPart'
  BY <1>1, DataUnchanged DEF IInv, Types
<1>8. Parking' /\ Ending'
  BY <1>1 DEF IInv, Parking, Ending
<1> QED BY <1>6, <1>7, <1>8 DEF IInv

----------------------------------------------------------------------------
(* Drop *)

\* Drop closes the data channel: the invariant is kept.
LEMMA DropCloseDataStep ==
  ASSUME IInv, DropCloseData
  PROVE  IInv'
<1>1. /\ UNCHANGED <<wire, rpc, chunk, tap, pending, cpc, result, last, taken,
                     timing, fpc, fnotified, seen, aborted>>
      /\ cpc = "idle" /\ data' = Close(data) /\ dpc' = "dataClosed"
      /\ notified' \in BOOLEAN
  BY DEF DropCloseData, readerVars, tapVars, WakeOwner, Wakes, IInv, Types
<1>2. data \in Channel /\ data' \in Channel
  BY <1>1, ChannelFlags DEF IInv, DataPart
<1>3. /\ data'.queue = data.queue /\ data'.total_bytes = data.total_bytes
      /\ data'.capacity = data.capacity /\ data'.dropped_bytes = data.dropped_bytes
      /\ data'.error = data.error
  BY <1>1, <1>2 DEF Close, Channel
<1>4. DataPart'
  BY <1>1, <1>2, <1>3, DataFrame DEF IInv
<1>5. TapPart' /\ Types'
  BY <1>1, TapUnchanged DEF IInv, Types
<1>6. Parking' /\ Ending'
  BY <1>1, <1>3 DEF IInv, Parking, Ending
<1> QED BY <1>4, <1>5, <1>6 DEF IInv

\* Drop closes the tap channel and wakes the forwarder: the invariant is kept.
LEMMA DropCloseTapStep ==
  ASSUME IInv, DropCloseTap
  PROVE  IInv'
<1>1. /\ UNCHANGED <<wire, rpc, chunk, data, pending, cpc, notified, result, last,
                     taken, timing, fpc, seen, aborted>>
      /\ tap' = Close(tap) /\ dpc = "dataClosed" /\ dpc' = "tapClosed"
      /\ fnotified' = (fnotified \/ (tap.waker /\ ~tap'.waker))
  BY DEF DropCloseTap, readerVars, ownerVars, WakeForwarder, Wakes
<1>2. tap \in Channel /\ tap' \in Channel
  BY <1>1, ChannelFlags DEF IInv, TapPart
<1>3. /\ tap'.queue = tap.queue /\ tap'.total_bytes = tap.total_bytes
      /\ tap'.capacity = tap.capacity /\ tap'.dropped_bytes = tap.dropped_bytes
      /\ tap'.waker = FALSE /\ tap.waker \in BOOLEAN
  BY <1>1, <1>2 DEF Close, Channel
<1>4. TapPart'
  BY <1>1, <1>2, <1>3
     DEF IInv, TapPart, Exact, Sound, TapAccounted, FanOut, NoLostTapWakeup, TapSent
<1>5. Types' /\ DataPart'
  BY <1>1, <1>3, DataUnchanged DEF IInv, Types
<1>6. Parking' /\ Ending'
  BY <1>1 DEF IInv, Parking, Ending
<1> QED BY <1>4, <1>5, <1>6 DEF IInv

----------------------------------------------------------------------------
(* The invariant holds *)

\* A SniffIo that has just started sniffing satisfies the invariant.
LEMMA InitIInv == Init => IInv
<1> SUFFICES ASSUME Init PROVE IInv
  OBVIOUS
<1>1. PICK c \in DataCaps : data = NewChannel(c)
  BY DEF Init
<1>2. PICK d \in TapCaps : tap = NewChannel(d)
  BY DEF Init
<1>3. c \in Nat /\ d \in Nat
  BY SniffConstants
<1>4. \A x \in Nat : /\ NewChannel(x) \in Channel
                     /\ Exact(NewChannel(x), 0)
                     /\ NewChannel(x).total_bytes = 0
                     /\ NewChannel(x).dropped_bytes = 0
                     /\ NewChannel(x).queue = <<>>
                     /\ NewChannel(x).closed = FALSE
                     /\ NewChannel(x).error = "none"
  BY DEF NewChannel, Channel, Exact, Sound, WellQueued, Contiguous, PrefixBytes
<1>5. NoBytes \in Chunk /\ NoBytes.lo = 1 /\ NoBytes.hi = 0 /\ Size(NoBytes) = 0
  BY DEF NoBytes, Chunk, Size
<1>6. Types
  BY <1>5 DEF Init, Types
<1>7. DataPart
  BY <1>1, <1>3, <1>4, <1>5 DEF Init, DataPart, DataAccounted, HeldInOrder, PendingOK
<1>8. TapPart
  BY <1>2, <1>3, <1>4
     DEF Init, TapPart, TapAccounted, TapSent, FanOut, NoLostTapWakeup
<1>9. Parking /\ Ending
  BY <1>1, <1>3, <1>4 DEF Init, Parking, Ending
<1> QED BY <1>6, <1>7, <1>8, <1>9 DEF IInv

\* Every step of every task keeps the invariant.
LEMMA NextIInv == IInv /\ [Next]_vars => IInv'
<1> SUFFICES ASSUME IInv, [Next]_vars PROVE IInv'
  OBVIOUS
<1>1. CASE Reader
  BY <1>1, ReaderReadStep, ReaderSendTapStep, ReaderFailsStep, ReaderFinishStep
     DEF Reader, ReaderEnds, ReaderPanics
<1>2. CASE Forwarder
  BY <1>2, ForwarderForwardStep, ForwarderParksStep, ForwarderEndsStep DEF Forwarder
<1>3. CASE PollRead
  BY <1>3, PollReadPendingStep, PollReadDataStep, PollReadErrorStep,
     PollReadEmptyStep, PollReadCheckStep DEF PollRead
<1>4. CASE CancelRead \/ PollWrite
  BY <1>4, QuietStep
<1>5. CASE \E cap \in DataCaps : WithChannelCapacity(cap)
  BY <1>5, WithChannelCapacityStep
<1>6. CASE \E cap \in TapCaps : WithTapChannelCapacity(cap)
  BY <1>6, WithTapChannelCapacityStep
<1>7. CASE DropSteps
  BY <1>7, DropCloseDataStep, DropCloseTapStep, QuietStep DEF DropSteps
<1>8. CASE UNCHANGED vars
  <2>1. UNCHANGED <<wire, rpc, chunk, data, tap, pending, cpc, notified, result,
                    last, taken, timing, fpc, fnotified, seen, dpc, aborted>>
    BY <1>8 DEF vars, readerVars, ownerVars, tapVars
  <2>2. Types' /\ DataPart' /\ TapPart'
    BY <2>1, DataUnchanged, TapUnchanged DEF IInv, Types
  <2>3. Parking' /\ Ending'
    BY <2>1 DEF IInv, Parking, Ending
  <2> QED BY <2>2, <2>3 DEF IInv
<1> QED BY <1>1, <1>2, <1>3, <1>4, <1>5, <1>6, <1>7, <1>8 DEF Next

\* The inductive invariant holds throughout.
LEMMA Invariance == Spec => []IInv
BY InitIInv, NextIInv, PTL DEF Spec

\* The channels, tasks and flags keep their types; in particular total_bytes
\* of neither channel underflows.
THEOREM TypeCorrect == Spec => []TypeOK
<1>1. IInv => TypeOK
  BY DEF IInv, Types, DataPart, TapPart, TypeOK
<1> QED BY <1>1, Invariance, PTL

\* Both channels hold exactly the bytes they count and stay within their
\* capacity, for all capacities and chunk sizes.
THEOREM ChannelsStayExact == Spec => []ChannelsExact
<1>1. IInv => ChannelsExact
  BY DEF IInv, DataPart, TapPart, ChannelsExact
<1> QED BY <1>1, Invariance, PTL

\* No byte read from the transport disappears on its way to the owner without
\* being counted.
THEOREM EveryByteAccounted == Spec => []DataAccounted
<1>1. IInv => DataAccounted
  BY DEF IInv, DataPart
<1> QED BY <1>1, Invariance, PTL

\* No byte disappears on its way to the WireTap without being counted.
THEOREM EveryTapByteAccounted == Spec => []TapAccounted
<1>1. IInv => TapAccounted
  BY DEF IInv, TapPart
<1> QED BY <1>1, Invariance, PTL

\* Bytes are held, and hence delivered, in the order of the wire.
THEOREM OrderKept == Spec => []HeldInOrder
<1>1. IInv => HeldInOrder
  BY DEF IInv, DataPart
<1> QED BY <1>1, Invariance, PTL

\* A parked read misses no wake-up.
THEOREM WakeupsKept == Spec => []NoLostWakeup
<1>1. IInv => NoLostWakeup
  BY DEF IInv, Parking, Ending, TapPart, NoLostWakeup
<1> QED BY <1>1, Invariance, PTL

\* The parked forwarder misses no wake-up.
THEOREM TapWakeupsKept == Spec => []NoLostTapWakeup
<1>1. IInv => NoLostTapWakeup
  BY DEF IInv, Parking, Ending, TapPart, NoLostWakeup
<1> QED BY <1>1, Invariance, PTL

----------------------------------------------------------------------------
(* SniffIo implements the lossy stream *)

\* A delivery of the bytes b: the bytes follow the last one delivered, and
\* every byte skipped on the way is in the drop counter.
LEMMA DeliverRefines ==
  ASSUME IInv, IInv', NEW b \in Chunk, NEW room \in Nat, room >= 1,
         1 <= b.lo, b.lo <= b.hi, last < b.lo, Deliver(b, room),
         UNCHANGED wire, data'.dropped_bytes = data.dropped_bytes,
         result \notin {"eof", "reset"},
         b.hi <= wire, data'.queue # <<>> => b.hi < data'.queue[1].lo
  PROVE  LS!Receive
<1>1. PICK n \in Nat : /\ 1 <= n /\ last' = b.lo + n - 1 /\ taken' = taken + n
                       /\ last' + Size(pending)' = b.hi
  BY DeliverSplits DEF IInv
<1>2. /\ last' \in Nat /\ taken' \in Nat /\ last' <= b.hi /\ Size(pending)' \in Nat
      /\ result' = "data" /\ b.lo \in Nat /\ b.hi \in Nat /\ wire \in Nat
      /\ taken \in Nat /\ last \in Nat
  BY DeliverSplits DEF IInv, Types, Chunk
<1>3. taken' > taken /\ last' - last >= taken' - taken /\ last' <= wire
  BY <1>1, <1>2, SMTT(40)
<1>4. last' - taken' <= data.dropped_bytes
  <2> DEFINE h == Size(pending)'
             t == data'.total_bytes
             d == data'.dropped_bytes
             l == last'
             g == taken'
             hi == b.hi
  <2>1. data' \in Channel /\ Exact(data', wire)
    BY DEF IInv, DataPart
  <2>2. /\ t \in Nat /\ d \in Nat /\ h \in Nat /\ l \in Nat /\ g \in Nat /\ hi \in Nat
        /\ g + h + t + d = wire /\ l + h = hi
    BY <1>1, <1>2, <2>1 DEF IInv, DataPart, DataAccounted, Channel
  <2>3. t <= wire - hi
    <3>1. CASE data'.queue = <<>>
      <4>1. t = 0
        BY <3>1, <2>1, <1>2, SpanToTop DEF Exact
      <4> QED BY <4>1, <1>2
    <3>2. CASE data'.queue # <<>>
      <4>1. t = wire - data'.queue[1].lo + 1 /\ data'.queue[1].lo \in Nat
        BY <3>2, <2>1, <1>2, SpanToTop DEF Exact
      <4>2. hi < data'.queue[1].lo
        BY <3>2
      <4> DEFINE a == data'.queue[1].lo
      <4>3. t = wire - a + 1 /\ a \in Nat /\ hi < a
        BY <4>1, <4>2
      <4> HIDE DEF a, hi, t
      <4> QED BY <4>3, <2>2, <1>2
    <3> QED BY <3>1, <3>2
  <2> HIDE DEF h, t, d, l, g, hi
  <2>4. l - g <= d
    BY <2>2, <2>3, <1>2
  <2> QED BY <2>4 DEF l, g, d
<1> QED BY <1>2, <1>3, <1>4 DEF LS!Receive, LS!End

\* Every step of the SniffIo is a step of the lossy stream, or changes nothing
\* its owner can see.
LEMMA NextRefines == IInv /\ IInv' /\ [Next]_vars => [LS!LSNext]_(LS!lsVars)
<1> SUFFICES ASSUME IInv, IInv', [Next]_vars PROVE [LS!LSNext]_(LS!lsVars)
  OBVIOUS
<1> DEFINE Same == UNCHANGED <<wire, last, taken, result>>
                   /\ data'.dropped_bytes = data.dropped_bytes
<1>1. Same => UNCHANGED LS!lsVars
  BY DEF LS!lsVars
<1>2. /\ data \in Channel /\ data' \in Channel /\ Exact(data, wire) /\ wire \in Nat
      /\ taken \in Nat /\ taken' \in Nat /\ wire' \in Nat
      /\ data.dropped_bytes \in Nat /\ data'.dropped_bytes \in Nat
  BY DEF IInv, DataPart, Types, Channel
<1>3. taken' + data'.dropped_bytes <= wire'
  <2> DEFINE h == Size(pending)'
             t == data'.total_bytes
             d == data'.dropped_bytes
             w == wire'
             g == taken'
  <2>1. /\ g + h + t + d = w /\ h \in Nat /\ t \in Nat /\ d \in Nat /\ g \in Nat
        /\ w \in Nat
    <3>1. g + h + t + d = w
      BY DEF IInv, DataPart, DataAccounted
    <3>2. pending' \in Chunk /\ pending'.lo <= pending'.hi + 1
      BY DEF IInv, DataPart, PendingOK, Types
    <3>3. h \in Nat
      BY <3>2 DEF Chunk, Size
    <3>4. t \in Nat
      BY <1>2 DEF Channel
    <3> QED BY <3>1, <3>3, <3>4, <1>2
  <2> HIDE DEF h, t, d, g, w
  <2>2. g + d <= w
    BY <2>1
  <2> QED BY <2>2 DEF g, d, w
<1>4. ASSUME NEW n \in ChunkSizes, ReaderRead(n)
      PROVE  LS!Produce
  <2>1. /\ wire' = wire + n /\ n \in Nat /\ n >= 1 /\ rpc = "reading"
        /\ UNCHANGED <<last, taken, result>>
        /\ chunk' \in Chunk /\ chunk'.lo = wire + 1 /\ chunk'.hi = wire + n
        /\ Size(chunk') = n
    BY <1>2, <1>4, SniffConstants DEF ReaderRead, Chunk, Size
  <2>2. PICK k \in 0..Len(data.queue) :
          Evicts(data, k, n) /\ data' = Send(data, chunk', k)
    BY <1>4 DEF ReaderRead
  <2> DEFINE c == chunk'
             s == data'
  <2>3. /\ c \in Chunk /\ c.lo = wire + 1 /\ c.lo <= c.hi
        /\ Evicts(data, k, Size(c)) /\ s = Send(data, c, k)
    BY <2>1, <2>2, <1>2
  <2> HIDE DEF c, s
  <2>4. s.dropped_bytes >= data.dropped_bytes
    BY <2>3, <1>2, SendExact
  <2>5. result \notin {"eof", "reset"}
    BY <2>1 DEF IInv, Ending
  <2>6. wire' > wire /\ data'.dropped_bytes >= data.dropped_bytes
        /\ taken + data'.dropped_bytes <= wire'
    BY <2>1, <2>4, <1>2, <1>3 DEF s
  <2> QED BY <2>1, <2>5, <2>6 DEF LS!Produce, LS!End
<1>5. ASSUME NEW e \in {"eof", "reset"}, ReaderFails(e)
      PROVE  Same
  BY <1>2, <1>5 DEF ReaderFails, SendError, Channel
<1>6. ASSUME ReaderSendTap \/ ReaderFinish \/ Forwarder \/ CancelRead \/ PollWrite
             \/ (\E cap \in TapCaps : WithTapChannelCapacity(cap))
             \/ DropCloseTap \/ DropAbortReader \/ DropAbortForwarder
      PROVE  Same
  BY <1>6 DEF ReaderSendTap, ReaderFinish, Forwarder, ForwarderForward,
     ForwarderParks, ForwarderEnds, CancelRead, PollWrite, WithTapChannelCapacity,
     DropCloseTap, DropAbortReader, DropAbortForwarder, readerVars, ownerVars
<1>7. ASSUME NEW room \in ReadSizes, PollReadPending(room)
      PROVE  LS!Receive
  <2>1. /\ pending \in Chunk /\ pending.lo \in Nat /\ pending.hi \in Nat
        /\ pending.lo <= pending.hi /\ last = pending.lo - 1 /\ last \in Nat
        /\ pending.hi <= wire /\ 1 <= pending.lo /\ Deliver(pending, room)
        /\ room \in Nat /\ room >= 1 /\ UNCHANGED <<wire, data>>
        /\ Size(pending) > 0 /\ last < pending.lo
    BY <1>7, SniffConstants, SMTT(40)
       DEF PollReadPending, readerVars, IInv, Types, DataPart, HeldInOrder,
           PendingOK, Chunk, Size
  <2>2. result \notin {"eof", "reset"}
    BY <2>1 DEF IInv, Ending
  <2>3. data'.queue # <<>> => pending.hi < data'.queue[1].lo
    BY <2>1 DEF IInv, DataPart, HeldInOrder
  <2> QED BY <2>1, <2>2, <2>3, DeliverRefines
<1>8. ASSUME NEW room \in ReadSizes, PollReadData(room)
      PROVE  LS!Receive
  <2> DEFINE b == data.queue[1]
             p == PopFront(data)
  <2>1. /\ data.queue # <<>> /\ data' = p /\ Deliver(Head(data.queue), room)
        /\ room \in Nat /\ room >= 1 /\ UNCHANGED wire
    BY <1>8, SniffConstants DEF PollReadData, PollRecv, readerVars
  <2>2. /\ b.lo \in Nat /\ b.hi \in Nat /\ 1 <= b.lo /\ b.lo <= b.hi /\ b.hi <= wire
        /\ Len(data.queue) \in Nat /\ Len(data.queue) >= 1
    BY <2>1, <1>2, SpanToTop DEF Exact
  <2>3. b \in Chunk
    <3>1. data.queue \in Seq(Chunk) /\ 1 \in 1..Len(data.queue)
      BY <1>2, <2>2 DEF Channel
    <3> QED BY <3>1, ChunkFields
  <2>4. /\ p.dropped_bytes = data.dropped_bytes /\ Head(data.queue) = b
        /\ p.queue # <<>> => p.queue[1].lo = b.hi + 1
    BY <2>1, <1>2, PopExact
  <2>5. last < b.lo /\ result \notin {"eof", "reset"}
    BY <2>1 DEF IInv, DataPart, HeldInOrder, Ending
  <2>6. Deliver(b, room)
    BY <2>1, <2>4
  <2> HIDE DEF b, p
  <2>7. data'.queue # <<>> => b.hi < data'.queue[1].lo
    BY <2>1, <2>2, <2>4
  <2> QED BY <2>1, <2>2, <2>3, <2>4, <2>5, <2>6, <2>7, DeliverRefines
<1>9. ASSUME PollReadError
      PROVE  LS!ReportEnd
  <2>1. /\ UNCHANGED <<wire, pending, last, taken>> /\ Size(pending) = 0
        /\ data.queue = <<>> /\ data.error # "none" /\ result' = data.error
        /\ data' = TakeError(data)
    BY <1>9 DEF PollReadError, PollRecv, readerVars
  <2>2. data'.dropped_bytes = data.dropped_bytes /\ result' \in {"eof", "reset"}
    BY <2>1, <1>2 DEF TakeError, Channel
  <2>3. data.total_bytes = 0
    BY <2>1, <1>2, SpanToTop DEF Exact
  <2>4. taken + Size(pending) + data.total_bytes + data.dropped_bytes = wire
    BY DEF IInv, DataPart, DataAccounted
  <2>5. taken + data.dropped_bytes = wire
    BY <2>1, <2>3, <2>4, <1>2
  <2> QED BY <2>1, <2>2, <2>5 DEF LS!ReportEnd, LS!End
<1>10. ASSUME PollReadEmpty
       PROVE  Same
  BY <1>2, <1>10 DEF PollReadEmpty, RegisterWaker, Channel, readerVars
<1>11. ASSUME PollReadCheck
       PROVE  Same \/ LS!ReportBroken
  BY <1>11 DEF PollReadCheck, LS!ReportBroken, readerVars
<1>12. ASSUME NEW cap \in DataCaps, WithChannelCapacity(cap)
       PROVE  Same \/ LS!Lose
  <2>1. UNCHANGED <<wire, last, taken, result>> /\ cap \in Nat
    BY <1>12, SniffConstants DEF WithChannelCapacity, readerVars, ownerVars
  <2>2. PICK k \in 0..Len(data.queue) :
          /\ Evicts(SetCapacity(data, cap), k, 0)
          /\ data' = Evict(SetCapacity(data, cap), k)
    BY <1>12 DEF WithChannelCapacity
  <2> DEFINE s == data'
  <2>3. s = Evict(SetCapacity(data, cap), k)
    BY <2>2
  <2> HIDE DEF s
  <2>4. s.dropped_bytes >= data.dropped_bytes
    BY <2>1, <2>2, <2>3, <1>2, ShrinkExact
  <2>5. CASE data'.dropped_bytes = data.dropped_bytes
    BY <2>1, <2>5
  <2>6. CASE data'.dropped_bytes # data.dropped_bytes
    <3>1. data'.dropped_bytes > data.dropped_bytes
      BY <2>4, <2>6, <1>2 DEF s
    <3>2. taken + data'.dropped_bytes <= wire
      BY <2>1, <1>3
    <3> QED BY <2>1, <3>1, <3>2 DEF LS!Lose
  <2> QED BY <2>5, <2>6
<1>13. ASSUME DropCloseData
       PROVE  Same
  BY <1>2, <1>13 DEF DropCloseData, Close, Channel, readerVars
<1>14. ASSUME UNCHANGED vars
       PROVE  Same
  BY <1>14 DEF vars, readerVars, ownerVars
<1> HIDE DEF Same
<1>15. CASE Reader
  BY <1>1, <1>4, <1>5, <1>6, <1>15 DEF Reader, ReaderEnds, ReaderPanics, LS!LSNext
<1>16. CASE PollRead
  BY <1>1, <1>7, <1>8, <1>9, <1>10, <1>11, <1>16 DEF PollRead, LS!LSNext
<1>17. CASE DropSteps
  BY <1>1, <1>6, <1>13, <1>17 DEF DropSteps
<1> QED BY <1>1, <1>6, <1>12, <1>14, <1>15, <1>16, <1>17 DEF Next, LS!LSNext

\* What the owner reads from a SniffIo is the wire's byte stream in order and
\* without duplicates, gaps are counted before they are skipped, and the end is
\* reported only after everything was delivered or counted.
THEOREM Refinement == Spec => ImplementsLossyStream
<1>1. Init => LS!LSInit
  <2> SUFFICES ASSUME Init PROVE LS!LSInit
    OBVIOUS
  <2>1. PICK c \in DataCaps : data = NewChannel(c)
    BY DEF Init
  <2>2. data.dropped_bytes = 0
    BY <2>1 DEF NewChannel
  <2> QED BY <2>2 DEF Init, LS!LSInit
<1> QED BY <1>1, Invariance, NextRefines, PTL
        DEF Spec, ImplementsLossyStream, LS!LSSpec
====
