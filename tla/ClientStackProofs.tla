---- MODULE ClientStackProofs ----
(***************************************************************************)
(* The spacing of the bus and the tap of a client, proved for every number  *)
(* of ends, every minimum spacing and every clock.                          *)
(***************************************************************************)
EXTENDS ClientStack, TLAPS

\* last_event_us is the stamp of the last transfer, or 0 when there was none.
StampExact ==
  /\ event <= now
  /\ IF event = -1 THEN last = 0 ELSE last = Stamp(event)

\* An end that is not made yet does nothing; one that sleeps wakes in time.
SleepsLongEnough ==
  \A e \in Ends :
    /\ kind[e] = "none" => pc[e] = "idle"
    /\ kind[e] \notin {"none", "tcp"} /\ layers[e][1].timing =>
         /\ pc[e] = "asleep" /\ before[e] >= 0 => wake[e] >= before[e] + MinSpacing
         /\ Spaced(e)

IInv == TypeOK /\ StampExact /\ SleepsLongEnough

LEMMA MadeTyped ==
  ASSUME NEW k \in Kinds, NEW o \in Options
  PROVE  /\ Make(k, o).layers \in Seq(Options)
         /\ Make(k, o).opts \in Options
<1>1. Bare \in Options
  BY DEF Bare, Layer, Options
<1>2. <<o>> \in Seq(Options) /\ <<Bare>> \in Seq(Options) /\ <<>> \in Seq(Options)
  BY <1>1
<1>3. WithTimeout(<<o>>) \in Seq(Options) /\ WithTimeout(<<>>) \in Seq(Options)
  BY <1>2 DEF WithTimeout
<1>4. QED
  BY <1>1, <1>2, <1>3 DEF Make, Kinds, RtuWithOptions, AsciiWithOptions, TcpWithOptions, ServerStack

LEMMA WaitsEnough ==
  ASSUME now \in Nat, last \in Nat, event \in Nat \cup {-1}, StampExact
  PROVE  /\ WaitUntil \in Nat /\ WaitUntil >= now
         /\ event >= 0 => WaitUntil >= event + MinSpacing
<1>1. MinSpacing \in Nat
  BY StackConstants
<1>2. CASE event = -1
  BY <1>1, <1>2 DEF WaitUntil, StampExact
<1>3. CASE event \in Nat
  <2>1. last = Stamp(event) /\ last >= event /\ last > 0
    BY <1>3 DEF StampExact, Stamp
  <2>2. QED
    BY <1>1, <1>3, <2>1 DEF WaitUntil, StampExact
<1>4. QED
  BY <1>2, <1>3

LEMMA TouchTyped ==
  ASSUME TypeOK, StampExact, NEW t, Touch(t)
  PROVE  /\ now' = now /\ last' \in Nat /\ event' \in Nat \cup {-1}
         /\ StampExact'
BY DEF TypeOK, StampExact, Touch, Stamp

LEMMA RecordedTyped ==
  ASSUME TypeOK, NEW e \in Ends, Recorded(e)
  PROVE  moves' \in 0..MaxMoves /\ missed' \in [Ends -> BOOLEAN]
BY StackConstants DEF TypeOK, Recorded

\* The rebuilt layers are typed like the first ones.
LEMMA RebuiltTyped ==
  ASSUME TypeOK, NEW e \in Ends, NEW transport \in Factory(e)
  PROVE  <<opts[e]>> \o transport \in Seq(Options)
<1>1. opts[e] \in Options /\ Bare \in Options
  BY DEF TypeOK, Bare, Layer, Options
<1>2. <<opts[e]>> \in Seq(Options) /\ <<Bare>> \in Seq(Options) /\ <<>> \in Seq(Options)
  BY <1>1
<1>3. transport \in Seq(Options)
  BY <1>2 DEF Factory
<1>4. QED
  BY <1>2, <1>3

LEMMA Typed ==
  ASSUME TypeOK, StampExact, [Next]_vars
  PROVE  TypeOK'
<1>1. CASE UNCHANGED vars
  BY <1>1 DEF TypeOK, vars, bus, made, progress, counts
<1>2. ASSUME NEW t \in Instants, Advance(t)
      PROVE  TypeOK'
  BY <1>2, StackConstants DEF TypeOK, Advance, made, progress, counts
<1>3. ASSUME NEW e \in Ends, Step(e)
      PROVE  TypeOK'
  <2>1. ASSUME NEW k \in Kinds, NEW o \in Options, Build(e, k, o)
        PROVE  TypeOK'
    <3>1. Make(k, o).layers \in Seq(Options) /\ Make(k, o).opts \in Options
      BY MadeTyped
    <3>2. QED
      BY <2>1, <3>1 DEF TypeOK, Build, bus, progress, counts
  <2>2. CASE Rebuild(e)
    <3>1. PICK transport \in Factory(e) : layers' = [layers EXCEPT ![e] = <<opts[e]>> \o transport]
      BY <2>2 DEF Rebuild
    <3>2. layers' \in [Ends -> Seq(Options)]
      BY <3>1, RebuiltTyped DEF TypeOK
    <3>3. QED
      BY <2>2, <3>2 DEF TypeOK, Rebuild, bus, counts, QUICK_POLL
  <2>3. CASE Arrive(e)
    BY <2>3, TouchTyped, RecordedTyped DEF TypeOK, Arrive, made
  <2>4. CASE Drain(e)
    BY <2>4 DEF TypeOK, Drain, bus, made, counts, QUICK_POLL
  <2>5. CASE PollRead(e)
    BY <2>5, TouchTyped DEF TypeOK, PollRead, made, counts, DRAIN_QUIET
  <2>6. CASE PrepareSend(e)
    BY <2>6, WaitsEnough DEF TypeOK, PrepareSend, bus, made, counts
  <2>7. CASE Wake(e)
    BY <2>7 DEF TypeOK, Wake, bus, made, counts
  <2>8. CASE PollWrite(e)
    BY <2>8, TouchTyped, RecordedTyped DEF TypeOK, PollWrite, made
  <2>9. CASE Return(e)
    BY <2>9 DEF TypeOK, Return, bus, made, counts
  <2>10. QED
    BY <1>3, <2>1, <2>2, <2>3, <2>4, <2>5, <2>6, <2>7, <2>8, <2>9 DEF Step
<1>4. QED
  BY <1>1, <1>2, <1>3 DEF Next

LEMMA StampKept ==
  ASSUME TypeOK, StampExact, [Next]_vars
  PROVE  StampExact'
<1>1. CASE UNCHANGED vars
  BY <1>1 DEF StampExact, vars, bus
<1>2. ASSUME NEW t \in Instants, Advance(t)
      PROVE  StampExact'
  BY <1>2, StackConstants DEF StampExact, TypeOK, Advance
<1>3. ASSUME NEW e \in Ends, Step(e), ~Arrive(e), ~PollRead(e), ~PollWrite(e)
      PROVE  UNCHANGED bus
  BY <1>3 DEF Step, Build, Rebuild, Drain, PrepareSend, Wake, Return
<1>4. ASSUME NEW e \in Ends, Arrive(e) \/ PollRead(e) \/ PollWrite(e)
      PROVE  StampExact'
  BY <1>4, TouchTyped DEF Arrive, PollRead, PollWrite
<1>5. QED
  BY <1>1, <1>2, <1>3, <1>4 DEF Next, StampExact, bus

\* What SleepsLongEnough says of one end.
Rests(e) ==
  /\ kind[e] = "none" => pc[e] = "idle"
  /\ kind[e] \notin {"none", "tcp"} /\ layers[e][1].timing =>
       /\ pc[e] = "asleep" /\ before[e] >= 0 => wake[e] >= before[e] + MinSpacing
       /\ Spaced(e)

\* A step that changes nothing of an end, and the time only forwards.
LEMMA OthersRest ==
  ASSUME TypeOK, TypeOK', NEW f \in Ends, Rests(f), now' >= now,
         kind'[f] = kind[f], layers'[f] = layers[f], pc'[f] = pc[f],
         wake'[f] = wake[f], before'[f] = before[f]
  PROVE  Rests(f)'
<1>1. /\ now \in Nat /\ now' \in Nat /\ wake[f] \in Nat /\ MinSpacing \in Nat
      /\ before[f] \in Nat \cup {-1}
  BY StackConstants DEF TypeOK
<1>2. Spaced(f) => Spaced(f)'
  BY <1>1 DEF Spaced
<1>3. QED
  BY <1>1, <1>2, Zenon DEF Rests

\* An end outside prepare_send has nothing to keep.
LEMMA AwakeRests ==
  ASSUME NEW f \in Ends, pc'[f] \in {"idle", "drain", "answer"},
         pc'[f] = "idle" \/ kind'[f] # "none"
  PROVE  Rests(f)'
BY DEF Rests, Spaced

LEMMA SleepKept ==
  ASSUME IInv, TypeOK', [Next]_vars
  PROVE  SleepsLongEnough'
<1> USE DEF IInv
<1>0. /\ \A f \in Ends : Rests(f)
      /\ (\A f \in Ends : Rests(f)') => SleepsLongEnough'
  BY DEF SleepsLongEnough, Rests
<1>1. CASE UNCHANGED vars
  BY <1>0, <1>1, OthersRest DEF vars, bus, made, progress, TypeOK
<1>2. ASSUME NEW t \in Instants, Advance(t)
      PROVE  SleepsLongEnough'
  BY <1>0, <1>2, OthersRest, StackConstants DEF Advance, made, progress, TypeOK
<1>3. ASSUME NEW e \in Ends, Step(e)
      PROVE  SleepsLongEnough'
  <2>0. \A f \in Ends \ {e} : Rests(f)'
    <3> SUFFICES ASSUME NEW f \in Ends \ {e} PROVE Rests(f)'
      OBVIOUS
    <3>1. now' = now
      BY <1>3 DEF Step, Build, Rebuild, Arrive, Drain, PollRead, PrepareSend, Wake, PollWrite,
                  Return, Touch, bus
    <3>2. kind'[f] = kind[f] /\ layers'[f] = layers[f]
      BY <1>3 DEF Step, Build, Rebuild, Arrive, Drain, PollRead, PrepareSend, Wake, PollWrite,
                  Return, made, TypeOK
    <3>3. pc'[f] = pc[f] /\ wake'[f] = wake[f] /\ before'[f] = before[f]
      BY <1>3 DEF Step, Build, Rebuild, Arrive, Drain, PollRead, PrepareSend, Wake, PollWrite,
                  Return, progress, TypeOK
    <3>4. QED
      BY <1>0, <3>1, <3>2, <3>3, OthersRest DEF TypeOK
  <2> SUFFICES Rests(e)'
    BY <1>0, <2>0
  <2>1. ASSUME NEW k \in Kinds, NEW o \in Options, Build(e, k, o)
        PROVE  Rests(e)'
    <3>1. pc'[e] = "idle"
      BY <1>0, <2>1 DEF Build, progress, Rests
    <3>2. QED
      BY <3>1, AwakeRests
  <2>2. CASE Rebuild(e)
    BY <2>2, AwakeRests DEF Rebuild, TypeOK, Kinds
  <2>3. CASE Arrive(e) \/ PollRead(e)
    <3>1. /\ UNCHANGED <<now, kind, layers, pc, before>>
          /\ pc[e] \in {"idle", "drain", "answer"} \/ wake' = wake
      BY <2>3 DEF Arrive, PollRead, made, Touch
    <3>2. CASE wake' = wake
      BY <1>0, <3>1, <3>2, OthersRest DEF TypeOK
    <3>3. CASE pc[e] \in {"idle", "drain", "answer"}
      BY <1>0, <3>1, <3>3, AwakeRests DEF Rests
    <3>4. QED
      BY <3>1, <3>2, <3>3
  <2>4. CASE Drain(e)
    BY <2>4, AwakeRests DEF Drain, made, TypeOK, Kinds
  <2>5. CASE PrepareSend(e)
    <3>1. /\ UNCHANGED <<now, kind, layers>> /\ before'[e] = event
          /\ kind[e] # "none"
      BY <1>0, <2>5 DEF PrepareSend, bus, made, TypeOK, Rests
    <3>2. CASE kind[e] # "tcp" /\ layers[e][1].timing
      <4>1. pc'[e] = (IF WaitUntil = now THEN "ready" ELSE "asleep")
        BY <2>5, <3>2 DEF PrepareSend, TypeOK
      <4>2. wake'[e] = (IF WaitUntil = now THEN 0 ELSE WaitUntil)
        BY <2>5, <3>2 DEF PrepareSend, TypeOK
      <4>3. WaitUntil \in Nat /\ (event >= 0 => WaitUntil >= event + MinSpacing)
        BY WaitsEnough DEF TypeOK
      <4>4. QED
        BY <3>1, <4>1, <4>2, <4>3 DEF Rests, Spaced, TypeOK
    <3>3. QED
      BY <3>1, <3>2 DEF Rests
  <2>6. CASE Wake(e)
    <3>1. /\ UNCHANGED <<now, kind, layers, before>> /\ pc'[e] = "ready"
          /\ pc[e] = "asleep" /\ now >= wake[e]
      BY <2>6 DEF Wake, bus, made, TypeOK
    <3>2. kind[e] # "none"
      BY <1>0, <3>1 DEF Rests
    <3>3. ASSUME kind[e] \notin {"none", "tcp"}, layers[e][1].timing, before[e] >= 0
          PROVE  now >= before[e] + MinSpacing
      <4>1. wake[e] >= before[e] + MinSpacing
        BY <1>0, <3>1, <3>3 DEF Rests
      <4>2. now \in Nat /\ wake[e] \in Nat /\ before[e] \in Int /\ MinSpacing \in Nat
        BY StackConstants DEF TypeOK
      <4>3. now >= wake[e]
        BY <3>1
      <4>4. QED
        BY <4>1, <4>2, <4>3
    <3>4. QED
      BY <3>1, <3>2, <3>3 DEF Rests, Spaced
  <2>7. CASE PollWrite(e)
    BY <1>0, <2>7, AwakeRests DEF PollWrite, made, TypeOK, Rests
  <2>8. CASE Return(e)
    BY <2>8, AwakeRests DEF Return, TypeOK
  <2>9. QED
    BY <1>3, <2>1, <2>2, <2>3, <2>4, <2>5, <2>6, <2>7, <2>8 DEF Step
<1>4. QED
  BY <1>1, <1>2, <1>3 DEF Next

LEMMA Begins == Init => IInv
BY StackConstants DEF Init, IInv, TypeOK, StampExact, SleepsLongEnough, Spaced, Bare, Layer, Options

LEMMA Kept == IInv /\ [Next]_vars => IInv'
BY Typed, StampKept, SleepKept DEF IInv

\* Every reachable state of the layers and the timing has its type.
THEOREM TypeCorrect == Spec => []TypeOK
<1>1. IInv => TypeOK
  BY DEF IInv
<1>2. QED
  BY <1>1, Begins, Kept, PTL DEF Spec

\* prepare_send on an outermost layer with timing keeps the minimum spacing
\* after every transfer that preceded it, for any number of ends that share
\* the BusTiming, any spacing and any rebuilds.
THEOREM SpacingKept == Spec => []SpacedIfOutermost
<1>1. IInv => SpacedIfOutermost
  BY DEF IInv, SleepsLongEnough, SpacedIfOutermost
<1>2. QED
  BY <1>1, Begins, Kept, PTL DEF Spec
----------------------------------------------------------------------------
(* The tap *)

\* An end that was given a tap remembers it and has it in one of its layers.
HasTap(e) ==
  /\ kind[e] = "none" => ~missed[e] /\ ~asked[e].tap
  /\ asked[e].tap => opts[e].tap /\ Tapped(layers[e]) /\ ~missed[e]

TapInv == IInv /\ \A e \in Ends : HasTap(e)

LEMMA FirstTaps ==
  ASSUME NEW o \in Options, o.tap, NEW s \in Seq(Options)
  PROVE  Tapped(<<o>> \o s)
<1>1. <<o>> \o s \in Seq(Options) /\ 1 \in 1..Len(<<o>> \o s) /\ (<<o>> \o s)[1] = o
  OBVIOUS
<1>2. QED
  BY <1>1 DEF Tapped

LEMMA MadeTaps ==
  ASSUME NEW k \in Kinds \ {"plain", "server"}, NEW o \in Options, o.tap
  PROVE  Tapped(Make(k, o).layers) /\ Make(k, o).opts = o
<1>1. Tapped(<<o>>)
  BY DEF Tapped
<1>2. Tapped(<<Bare>> \o <<o>>)
  <2>1. (<<Bare>> \o <<o>>)[2] = o /\ 2 \in 1..Len(<<Bare>> \o <<o>>)
    OBVIOUS
  <2>2. QED
    BY <2>1 DEF Tapped
<1>3. k \in {"rtu", "ascii", "tcp"}
  BY DEF Kinds
<1>4. QED
  BY <1>1, <1>2, <1>3 DEF Make, RtuWithOptions, AsciiWithOptions, TcpWithOptions, WithTimeout

LEMMA TapKept ==
  ASSUME TapInv, TypeOK', [Next]_vars, NEW f \in Ends
  PROVE  HasTap(f)'
<1> USE DEF TapInv, IInv
<1>0. HasTap(f)
  OBVIOUS
<1>1. CASE UNCHANGED <<made, missed>>
  BY <1>0, <1>1 DEF HasTap, made
<1>2. CASE UNCHANGED vars
  BY <1>1, <1>2 DEF vars, counts
<1>3. ASSUME NEW t \in Instants, Advance(t)
      PROVE  HasTap(f)'
  BY <1>1, <1>3 DEF Advance, counts
<1>4. ASSUME NEW e \in Ends, Step(e)
      PROVE  HasTap(f)'
  <2>1. ASSUME NEW k \in Kinds, NEW o \in Options, Build(e, k, o)
        PROVE  HasTap(f)'
    <3>1. /\ kind' = [kind EXCEPT ![e] = k] /\ asked' = [asked EXCEPT ![e] = o]
          /\ layers' = [layers EXCEPT ![e] = Make(k, o).layers]
          /\ opts' = [opts EXCEPT ![e] = Make(k, o).opts]
          /\ missed' = missed /\ kind[e] = "none"
          /\ k = "plain" => o = Bare
          /\ k = "server" => ~o.tap
      BY <2>1 DEF Build, counts
    <3>2. CASE f # e
      <4>1. /\ kind'[f] = kind[f] /\ asked'[f] = asked[f] /\ layers'[f] = layers[f]
            /\ opts'[f] = opts[f]
        BY <3>1, <3>2 DEF TypeOK
      <4>2. QED
        BY <1>0, <3>1, <4>1 DEF HasTap
    <3>3. CASE f = e
      <4>1. /\ kind'[e] = k /\ asked'[e] = o /\ layers'[e] = Make(k, o).layers
            /\ opts'[e] = Make(k, o).opts
        BY <3>1 DEF TypeOK
      <4>2. k # "none" /\ ~missed[e]
        BY <1>0, <3>1, <3>3 DEF HasTap, Kinds
      <4>3. ASSUME o.tap
            PROVE  opts'[e].tap /\ Tapped(layers'[e])
        <5>1. k \in Kinds \ {"plain", "server"}
          BY <3>1, <4>3 DEF Bare, Layer
        <5>2. QED
          BY <4>1, <4>3, <5>1, MadeTaps
      <4>4. QED
        BY <3>1, <3>3, <4>1, <4>2, <4>3 DEF HasTap, Tapped
    <3>4. QED
      BY <3>2, <3>3
  <2>2. CASE Rebuild(e)
    <3>1. PICK transport \in Factory(e) : layers' = [layers EXCEPT ![e] = <<opts[e]>> \o transport]
      BY <2>2 DEF Rebuild
    <3>2. UNCHANGED <<kind, asked, opts, missed>>
      BY <2>2 DEF Rebuild, counts
    <3>3. CASE f # e
      <4>1. layers'[f] = layers[f]
        BY <3>1, <3>3 DEF TypeOK
      <4>2. QED
        BY <1>0, <3>2, <4>1 DEF HasTap, Tapped
    <3>4. CASE f = e
      <4>1. layers'[e] = <<opts[e]>> \o transport
        BY <3>1 DEF TypeOK
      <4>2. transport \in Seq(Options) /\ opts[e] \in Options
        <5>1. Bare \in Options /\ opts[e] \in Options
          BY DEF Bare, Layer, Options, TypeOK
        <5>2. <<opts[e]>> \in Seq(Options) /\ <<Bare>> \in Seq(Options) /\ <<>> \in Seq(Options)
          BY <5>1
        <5>3. QED
          BY <5>1, <5>2 DEF Factory
      <4>3. opts[e].tap => Tapped(layers'[e])
        BY <4>1, <4>2, FirstTaps
      <4>4. QED
        BY <1>0, <3>2, <3>4, <4>3 DEF HasTap, Tapped
    <3>5. QED
      BY <3>3, <3>4
  <2>3. CASE Arrive(e) \/ PollWrite(e)
    <3>1. UNCHANGED made /\ missed' = [missed EXCEPT ![e] = @ \/ ~Tapped(layers[e])] /\ kind[e] # "none"
      <4>1. CASE Arrive(e)
        BY <4>1 DEF Arrive, Recorded
      <4>2. CASE PollWrite(e)
        BY <4>2 DEF PollWrite, Recorded, SleepsLongEnough
      <4>3. QED
        BY <2>3, <4>1, <4>2
    <3>2. UNCHANGED <<kind, asked, opts, layers>>
      BY <3>1 DEF made
    <3>3. f # e => missed'[f] = missed[f]
      BY <3>1 DEF TypeOK
    <3>4. Tapped(layers[e]) /\ ~missed[e] => ~missed'[e]
      BY <3>1 DEF TypeOK
    <3>5. QED
      BY <1>0, <3>1, <3>2, <3>3, <3>4 DEF HasTap, Tapped
  <2>4. CASE Drain(e) \/ PollRead(e) \/ PrepareSend(e) \/ Wake(e) \/ Return(e)
    BY <1>1, <2>4 DEF Drain, PollRead, PrepareSend, Wake, Return, counts
  <2>5. QED
    BY <1>4, <2>1, <2>2, <2>3, <2>4 DEF Step
<1>5. QED
  BY <1>2, <1>3, <1>4 DEF Next

\* A client that was given a tap never makes a transfer that no tap sees,
\* through any number of reconnects and with either kind of factory.
THEOREM TapNeverLost == Spec => []EveryTransferRecorded
<1>1. Init => TapInv
  <2>1. Init => \A e \in Ends : HasTap(e)
    <3>1. ASSUME Init, NEW e \in Ends
          PROVE  missed[e] = FALSE /\ asked[e].tap = FALSE
      BY <3>1 DEF Init, Bare, Layer
    <3>2. QED
      BY <3>1 DEF HasTap
  <2>2. QED
    BY <2>1, Begins DEF TapInv
<1>2. TapInv /\ [Next]_vars => TapInv'
  BY Kept, TapKept DEF TapInv, IInv
<1>3. TapInv => EveryTransferRecorded
  BY DEF TapInv, HasTap, EveryTransferRecorded
<1>4. QED
  BY <1>1, <1>2, <1>3, PTL DEF Spec
====
