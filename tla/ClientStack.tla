---- MODULE ClientStack ----
(***************************************************************************)
(* The SniffIo layers under an RTU, ASCII or TCP client or server, and the  *)
(* BusTiming they share: which layer of a client carries the tap and the    *)
(* timing after new, with_options and a reconnect, who calls touch and when *)
(* on a half-duplex bus, and what prepare_send waits for.  Clients made     *)
(* from clones of one ClientOptions share its BusTiming.  A layer with a    *)
(* tap reads on its own (SniffIo); one without passes through.              *)
(***************************************************************************)
EXTENDS Integers, Sequences

CONSTANTS
  Ends,          \* the clients and servers that share the timing
  MinSpacing,    \* min_spacing_us
  Instants,      \* bound: when something may happen
  MaxMoves       \* bound: transfers

ASSUME StackConstants ==
  MinSpacing \in Nat /\ Instants \subseteq Nat /\ MaxMoves \in Nat

VARIABLES
  now,       \* now_micros(), which starts at 0
  last,      \* last_event_us; 0 is no activity yet
  kind,      \* how an end was made
  asked,     \* history: the tap and the timing of its options
  opts,      \* its self.tap and self.bus_timing
  layers,    \* its SniffIo layers, the outermost first
  pc,        \* idle, drain, asleep (in wait_if_needed), ready to write, answer
  wake,      \* when its drain or its sleep ends, else 0
  held,      \* whether bytes it has not read wait in a layer
  event,     \* history: the last transfer that this timing saw, or -1
  before,    \* history: event when it called prepare_send, until it writes
  missed,    \* history: whether no tap of it saw one of its transfers
  moves      \* transfers so far

bus == <<now, last, event>>
made == <<kind, asked, opts, layers>>
progress == <<pc, wake, held, before>>
counts == <<missed, moves>>
vars == <<bus, made, progress, counts>>

Layer(tap, timing) == [tap |-> tap, timing |-> timing]
Bare == Layer(FALSE, FALSE)

Init ==
  /\ now = 0 /\ last = 0 /\ event = -1
  /\ kind = [e \in Ends |-> "none"] /\ opts = [e \in Ends |-> Bare]
  /\ asked = [e \in Ends |-> Bare]
  /\ layers = [e \in Ends |-> <<>>]
  /\ pc = [e \in Ends |-> "idle"] /\ wake = [e \in Ends |-> 0]
  /\ held = [e \in Ends |-> FALSE] /\ before = [e \in Ends |-> -1]
  /\ missed = [e \in Ends |-> FALSE] /\ moves = 0
----------------------------------------------------------------------------
(* BusTiming *)

\* rtu_35t: 3.5 characters of 11 bits, but never less than 1750.
rtu_35t(baud) ==
  IF baud > 19200 THEN 1750 ELSE 38500000 \div (IF baud = 0 THEN 1 ELSE baud)

\* Mutant: an event at instant 0 is stored as 0.
Stamp_Raw(t) == t

\* What touch stores: 0 is reserved for no activity.
Stamp(t) == IF t = 0 THEN 1 ELSE t

\* Some layer that sees a transfer carries the timing and calls touch.
Touch(touched) ==
  /\ last' = IF touched THEN Stamp(now) ELSE last
  /\ event' = IF touched THEN now ELSE event
  /\ UNCHANGED now

\* wait_if_needed: when the sleep ends, computed once, before it starts.
WaitUntil ==
  LET elapsed == IF now < last THEN 0 ELSE now - last
  IN IF last = 0 \/ elapsed >= MinSpacing THEN now ELSE now + MinSpacing - elapsed
----------------------------------------------------------------------------
(* Making an end *)

QUICK_POLL == 1000
DRAIN_QUIET == 10000

\* RtuClient and AsciiClient wrap whatever transport they are given.
WithTimeout(transport) == <<Bare>> \o transport

\* Mutant: the client does not remember the tap.
RtuWithOptions_NoTap(o) ==
  [layers |-> WithTimeout(<<o>>), opts |-> [o EXCEPT !.tap = FALSE]]

\* with_options of RtuClient gives its timing and its tap to an inner SniffIo,
\* and keeps both for a reconnect.
RtuWithOptions(o) == [layers |-> WithTimeout(<<o>>), opts |-> o]
AsciiWithOptions(o) == [layers |-> WithTimeout(<<o>>), opts |-> o]

\* with_options of TcpClient makes one layer.
TcpWithOptions(o) == [layers |-> <<o>>, opts |-> o]

\* A serial server has its timing in the only layer, and no tap.
ServerStack(o) == [layers |-> <<o>>, opts |-> o]

Make(k, o) ==
  CASE k = "plain" -> [layers |-> WithTimeout(<<>>), opts |-> Bare]
    [] k = "rtu" -> RtuWithOptions(o)
    [] k = "ascii" -> AsciiWithOptions(o)
    [] k = "tcp" -> TcpWithOptions(o)
    [] k = "server" -> ServerStack(o)

Kinds == {"plain", "rtu", "ascii", "tcp", "server"}
Options == [tap : BOOLEAN, timing : BOOLEAN]

\* Only with_options takes a tap, and new takes neither.
Build(e, k, o) ==
  /\ k = "plain" => o = Bare
  /\ k = "server" => ~o.tap
  /\ kind[e] = "none" /\ kind' = [kind EXCEPT ![e] = k]
  /\ asked' = [asked EXCEPT ![e] = o]
  /\ layers' = [layers EXCEPT ![e] = Make(k, o).layers]
  /\ opts' = [opts EXCEPT ![e] = Make(k, o).opts]
  /\ UNCHANGED <<bus, progress, counts>>

\* What the factory of a reconnect makes: with_reconnect_on wraps the raw
\* transport again, with_reconnect leaves that to the program, TcpClient
\* connects again.
Factory(e) == IF kind[e] \in {"rtu", "ascii"} THEN {<<opts[e]>>, <<Bare>>} ELSE {<<>>}

\* A call meets a connection error in its drain, its write or its read: the
\* client wraps what the factory made and starts again with the drain.  Bytes
\* that waited in the old layers are gone.
Rebuild(e) ==
  /\ kind[e] \in Kinds \ {"server"} /\ pc[e] \in {"drain", "ready", "answer"}
  /\ \E transport \in Factory(e) : layers' = [layers EXCEPT ![e] = <<opts[e]>> \o transport]
  /\ pc' = [pc EXCEPT ![e] = "drain"] /\ wake' = [wake EXCEPT ![e] = now + QUICK_POLL]
  /\ held' = [held EXCEPT ![e] = FALSE] /\ before' = [before EXCEPT ![e] = -1]
  /\ UNCHANGED <<bus, kind, asked, opts, counts>>
----------------------------------------------------------------------------
(* Transfers *)

Timed(s) == \E i \in 1..Len(s) : s[i].timing
Tapped(s) == \E i \in 1..Len(s) : s[i].tap

\* Every layer with a tap calls on_read or on_write.
Recorded(e) ==
  /\ moves < MaxMoves /\ moves' = moves + 1
  /\ missed' = [missed EXCEPT ![e] = @ \/ ~Tapped(layers[e])]

Advance(t) ==
  /\ now < t /\ now' = t
  /\ UNCHANGED <<last, event, made, progress, counts>>

\* Bytes arrive and the innermost tap sees them.  If the outermost layer has a
\* tap its task reads them through the layers below it, even while the client
\* sleeps.
Arrive(e) ==
  /\ kind[e] # "none" /\ ~held[e]
  /\ held' = [held EXCEPT ![e] = TRUE]
  /\ Touch(layers[e][1].tap /\ Timed(Tail(layers[e])))
  /\ Recorded(e)
  /\ UNCHANGED <<made, pc, wake, before>>

\* A call starts with drain_stale_data.
Drain(e) ==
  /\ pc[e] = "idle" /\ kind[e] \in Kinds \ {"server"}
  /\ pc' = [pc EXCEPT ![e] = "drain"] /\ wake' = [wake EXCEPT ![e] = now + QUICK_POLL]
  /\ UNCHANGED <<bus, made, held, before, counts>>

\* A client reads while it drains, and then waits for a longer quiet, or while
\* it waits for its answer; a server reads until it has a request.  (The
\* deadline of the whole drain is not modelled here.)
PollRead(e) ==
  /\ held[e] /\ pc[e] \in (IF kind[e] = "server" THEN {"idle"} ELSE {"drain", "answer"})
  /\ held' = [held EXCEPT ![e] = FALSE]
  /\ Touch(IF layers[e][1].tap THEN layers[e][1].timing ELSE Timed(layers[e]))
  /\ wake' = [wake EXCEPT ![e] = IF pc[e] = "drain" THEN now + DRAIN_QUIET ELSE 0]
  /\ UNCHANGED <<made, pc, before, counts>>

\* prepare_send asks the outermost layer only, and TcpClient never calls it.
PrepareSend(e) ==
  /\ \/ pc[e] = "drain" /\ now >= wake[e] /\ ~held[e]
     \/ pc[e] = "idle" /\ kind[e] = "server"
  /\ LET until == IF kind[e] # "tcp" /\ layers[e][1].timing THEN WaitUntil ELSE now
     IN /\ pc' = [pc EXCEPT ![e] = IF until = now THEN "ready" ELSE "asleep"]
        /\ wake' = [wake EXCEPT ![e] = IF until = now THEN 0 ELSE until]
  /\ before' = [before EXCEPT ![e] = event]
  /\ UNCHANGED <<bus, made, held, counts>>

Wake(e) ==
  /\ pc[e] = "asleep" /\ now >= wake[e]
  /\ pc' = [pc EXCEPT ![e] = "ready"] /\ wake' = [wake EXCEPT ![e] = 0]
  /\ UNCHANGED <<bus, made, held, before, counts>>

\* The write passes through every layer: each records it and touches.
PollWrite(e) ==
  /\ pc[e] = "ready"
  /\ pc' = [pc EXCEPT ![e] = IF kind[e] = "server" THEN "idle" ELSE "answer"]
  /\ Touch(Timed(layers[e]))
  /\ Recorded(e)
  /\ before' = [before EXCEPT ![e] = -1]
  /\ UNCHANGED <<made, wake, held>>

\* The call returns, with an answer, with an error, or because the program
\* drops it at any of its awaits.  A rebuild that fails looks the same from
\* here: the loop starts again with the layers it has.
Return(e) ==
  /\ pc[e] # "idle" /\ kind[e] # "server"
  /\ pc' = [pc EXCEPT ![e] = "idle"] /\ wake' = [wake EXCEPT ![e] = 0]
  /\ before' = [before EXCEPT ![e] = -1]
  /\ UNCHANGED <<bus, made, held, counts>>

Step(e) ==
  \/ \E k \in Kinds, o \in Options : Build(e, k, o)
  \/ Rebuild(e) \/ Arrive(e) \/ Drain(e) \/ PollRead(e) \/ PrepareSend(e) \/ Wake(e)
  \/ PollWrite(e) \/ Return(e)

Next == (\E e \in Ends : Step(e)) \/ \E t \in Instants : Advance(t)

Spec == Init /\ [][Next]_vars
----------------------------------------------------------------------------
(* Properties *)

TypeOK ==
  /\ now \in Nat /\ last \in Nat /\ event \in Nat \cup {-1} /\ moves \in 0..MaxMoves
  /\ kind \in [Ends -> Kinds \cup {"none"}]
  /\ asked \in [Ends -> Options] /\ opts \in [Ends -> Options]
  /\ layers \in [Ends -> Seq(Options)]
  /\ pc \in [Ends -> {"idle", "drain", "asleep", "ready", "answer"}]
  /\ wake \in [Ends -> Nat] /\ before \in [Ends -> Nat \cup {-1}]
  /\ held \in [Ends -> BOOLEAN] /\ missed \in [Ends -> BOOLEAN]

\* The spacing holds for an end that may write at this instant.
Spaced(e) == pc[e] = "ready" /\ before[e] >= 0 => now >= before[e] + MinSpacing

\* A serial end whose outermost layer carries the timing writes only when the
\* bus has been quiet for the minimum spacing since every transfer, its own or
\* another's, that was made before it prepared to send; the first instant of
\* the clock, a rebuild and a dropped call are no exception.
SpacedIfOutermost ==
  \A e \in Ends : kind[e] \notin {"none", "tcp"} /\ layers[e][1].timing => Spaced(e)

\* A client with a tap keeps it: each of its transfers is recorded, before and
\* after a reconnect, whatever the factory makes.
EveryTransferRecorded ==
  \A e \in Ends : asked[e].tap => ~missed[e]

\* What with_bus_timing says: a serial client with timing options enforces the
\* minimum spacing between frames.
SpacingEnforced ==
  \A e \in Ends : kind[e] \in {"rtu", "ascii"} /\ asked[e].timing => Spaced(e)
====
