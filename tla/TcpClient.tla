---- MODULE TcpClient ----
(***************************************************************************)
(* Tasks that share one TcpClient (tcp.rs) and its connection: the pre-send *)
(* drain, the exchange under the client's mutex, its timeouts, a caller     *)
(* that is dropped in the middle, and the reconnect loop of send_recv.rs.   *)
(* The server answers whenever it likes, connections die, and what is in    *)
(* flight on a dead one may still be executed.                              *)
(*                                                                          *)
(* Each caller makes one call; its request, and the response to it, carry   *)
(* the caller's name.  Responses arrive whole.                              *)
(***************************************************************************)
EXTENDS Integers, Sequences, FiniteSets, Functions

CONSTANTS
  Callers,       \* tasks calling ModbusClient::call on one client
  MaxRetries,    \* largest max_retries configured (0 is "infinite")
  MaxConns,      \* bound: connections opened in a behaviour
  MaxFailures    \* bound: failed attempts while calls may retry for ever

ASSUME ClientConstants ==
  MaxRetries \in Nat /\ MaxConns \in Nat \ {0} /\ MaxFailures \in Nat

VARIABLES
  cfg,               \* reconnect set or not, max_retries, tap set or not
  phase,             \* where each call stands
  lock,              \* the callers holding the mutex (at most one)
  drained,           \* the lock holder's drain has read something
  failures,          \* of each call: retryable failures
  rebuild_failures,  \* of each call: rebuilds failed in a row
  outcome,           \* what each call returned
  conn,              \* number of the current connection
  dead,              \* no, eof or reset: the current connection, at the client
  tx,                \* requests on their way, with their connection
  rx,                \* responses that arrived on the current connection
  sent,              \* history: connections each request was delivered to
  executed,          \* history: connections each request was executed from
  answer,            \* history: the response each successful call returned
  abandoned          \* history: connections on which a response is not awaited

connVars == <<conn, dead, tx, rx>>
callVars == <<phase, lock, drained, failures, rebuild_failures, outcome>>
histVars == <<sent, executed, answer, abandoned>>
vars == <<cfg, callVars, connVars, histVars>>

Retryable == {"Connection", "Serial"}

NoAnswer == [req |-> "none", conn |-> 0]

Init ==
  /\ cfg \in [reconnect : BOOLEAN, max_retries : 0..MaxRetries, tap : BOOLEAN]
  /\ phase = [c \in Callers |-> "waiting"]
  /\ lock = {} /\ drained = FALSE
  /\ failures = [c \in Callers |-> 0]
  /\ rebuild_failures = [c \in Callers |-> 0]
  /\ outcome = [c \in Callers |-> "none"]
  /\ conn = 1 /\ dead = "no" /\ tx = <<>> /\ rx = <<>>
  /\ sent = [c \in Callers |-> <<>>]
  /\ executed = [c \in Callers |-> <<>>]
  /\ answer = [c \in Callers |-> NoAnswer]
  /\ abandoned = {}

----------------------------------------------------------------------------
(* run_with_reconnect: what a failed attempt leads to *)

Goto(c, p) == phase' = [phase EXCEPT ![c] = p]

Return(c, o) == Goto(c, "done") /\ outcome' = [outcome EXCEPT ![c] = o]

\* Mutant: a timeout is retried as well, as the README has it.
Fail_RetriesTimeout(c, e) ==
  /\ lock' = {}
  /\ IF ~cfg.reconnect \/ e \notin Retryable \cup {"Timeout"}
     THEN Return(c, e) /\ UNCHANGED failures
     ELSE /\ failures' = [failures EXCEPT ![c] = @ + 1]
          /\ IF cfg.max_retries > 0 /\ failures'[c] > cfg.max_retries
             THEN Return(c, "exceeded")
             ELSE Goto(c, "sleeping") /\ UNCHANGED outcome

\* Mutant: the retry count is compared before it is increased.
Fail_OffByOne(c, e) ==
  /\ lock' = {}
  /\ IF ~cfg.reconnect \/ e \notin Retryable
     THEN Return(c, e) /\ UNCHANGED failures
     ELSE /\ failures' = [failures EXCEPT ![c] = @ + 1]
          /\ IF cfg.max_retries > 0 /\ failures[c] > cfg.max_retries
             THEN Return(c, "exceeded")
             ELSE Goto(c, "sleeping") /\ UNCHANGED outcome

\* The attempt ends with error e: the mutex guard is dropped, and the loop
\* returns the error, gives up, or sleeps before it rebuilds.
Fail(c, e) ==
  /\ lock' = {}
  /\ IF ~cfg.reconnect \/ e \notin Retryable
     THEN Return(c, e) /\ UNCHANGED failures
     ELSE /\ failures' = [failures EXCEPT ![c] = @ + 1]
          /\ IF cfg.max_retries > 0 /\ failures'[c] > cfg.max_retries
             THEN Return(c, "exceeded")
             ELSE Goto(c, "sleeping") /\ UNCHANGED outcome

\* A read of the dead connection.  With a tap the background reader reports
\* the end as UnexpectedEof, which From<io::Error> turns into Other; without
\* one the read returns 0 and that is a Connection error.
ReadError == IF dead = "eof" /\ cfg.tap THEN "Other" ELSE "Connection"

\* The background reader reports an end once; later reads are BrokenPipe.
EofTold == dead' = IF cfg.tap THEN "reset" ELSE dead

Sleep(c) ==
  /\ phase[c] = "sleeping"
  /\ FoldFunction(+, 0, failures) < MaxFailures \/ cfg.max_retries > 0
  /\ Goto(c, "rebuildWaiting")
  /\ UNCHANGED <<cfg, lock, drained, failures, rebuild_failures, outcome,
                 connVars, histVars>>

\* Mutant: the rebuild closure does not take the mutex.
RebuildLock_NotTaken(c) ==
  /\ phase[c] = "rebuildWaiting"
  /\ Goto(c, "rebuilding")
  /\ UNCHANGED <<cfg, lock, drained, failures, rebuild_failures, outcome,
                 connVars, histVars>>

RebuildLock(c) ==
  /\ phase[c] = "rebuildWaiting" /\ lock = {}
  /\ lock' = {c} /\ Goto(c, "rebuilding")
  /\ UNCHANGED <<cfg, drained, failures, rebuild_failures, outcome,
                 connVars, histVars>>

\* connect succeeds: a new stream, empty buffers, and the loop sends again.
RebuildOk(c) ==
  /\ phase[c] = "rebuilding" /\ conn < MaxConns
  /\ conn' = conn + 1 /\ dead' = "no" /\ rx' = <<>>
  /\ rebuild_failures' = [rebuild_failures EXCEPT ![c] = 0]
  /\ lock' = lock \ {c} /\ Goto(c, "waiting")
  /\ UNCHANGED <<cfg, drained, failures, outcome, tx, histVars>>

\* Mutant: a failed rebuild is tried again without being counted.
RebuildFails_Uncounted(c) ==
  /\ phase[c] = "rebuilding"
  /\ lock' = lock \ {c}
  /\ Goto(c, "rebuildWaiting")
  /\ UNCHANGED <<cfg, drained, failures, rebuild_failures, outcome, connVars,
                 histVars>>

\* connect fails: the third time in a row ends the call, otherwise the loop
\* sends again on the stream it has.
RebuildFails(c) ==
  /\ phase[c] = "rebuilding"
  /\ lock' = lock \ {c}
  /\ rebuild_failures' = [rebuild_failures EXCEPT ![c] = @ + 1]
  /\ IF rebuild_failures'[c] >= 3
     THEN Return(c, "exceeded")
     ELSE Goto(c, "waiting") /\ UNCHANGED outcome
  /\ UNCHANGED <<cfg, drained, failures, connVars, histVars>>

----------------------------------------------------------------------------
(* send_recv: lock, drain, send, receive *)

\* Mutant: the exchange takes a shared lock.
Lock_Shared(c) ==
  /\ phase[c] = "waiting"
  /\ lock' = lock \cup {c} /\ drained' = FALSE /\ Goto(c, "draining")
  /\ UNCHANGED <<cfg, failures, rebuild_failures, outcome, connVars, histVars>>

Lock(c) ==
  /\ phase[c] = "waiting" /\ lock = {}
  /\ lock' = {c} /\ drained' = FALSE /\ Goto(c, "draining")
  /\ UNCHANGED <<cfg, failures, rebuild_failures, outcome, connVars, histVars>>

DrainRead(c) ==
  /\ phase[c] = "draining" /\ rx # <<>>
  /\ rx' = Tail(rx) /\ drained' = TRUE
  /\ UNCHANGED <<cfg, phase, lock, failures, rebuild_failures, outcome,
                 conn, dead, tx, histVars>>

\* The read times out with nothing there: the line is quiet, or a background
\* reader has not reported the end of the connection yet.
DrainQuiet(c) ==
  /\ phase[c] = "draining" /\ rx = <<>>
  /\ dead = "no" \/ cfg.tap
  /\ Goto(c, "sending")
  /\ UNCHANGED <<cfg, lock, drained, failures, rebuild_failures, outcome,
                 connVars, histVars>>

\* Data kept coming until DRAIN_MAX_MS: a Connection error on a live stream.
DrainBusy(c) ==
  /\ phase[c] = "draining" /\ drained
  /\ Fail(c, "Connection")
  /\ UNCHANGED <<cfg, drained, rebuild_failures, connVars, histVars>>

DrainDead(c) ==
  /\ phase[c] = "draining" /\ rx = <<>> /\ dead # "no"
  /\ Fail(c, ReadError) /\ EofTold
  /\ UNCHANGED <<cfg, drained, rebuild_failures, conn, tx, rx, histVars>>

\* write_all returns.  On a connection that died unnoticed the bytes go
\* nowhere; on a live one the request is on its way.
Send(c) ==
  /\ phase[c] = "sending"
  /\ Goto(c, "receiving")
  /\ IF dead = "no"
     THEN /\ tx' = Append(tx, [req |-> c, conn |-> conn])
          /\ sent' = [sent EXCEPT ![c] = Append(@, conn)]
     ELSE UNCHANGED <<tx, sent>>
  /\ UNCHANGED <<cfg, lock, drained, failures, rebuild_failures, outcome,
                 conn, dead, rx, executed, answer, abandoned>>

\* The PDU does not encode, the write times out, or it finds a dead stream.
SendFails(c) ==
  /\ phase[c] = "sending"
  /\ \/ \E e \in {"Protocol", "Timeout"} : Fail(c, e)
     \/ dead # "no" /\ Fail(c, "Connection")
  /\ UNCHANGED <<cfg, drained, rebuild_failures, connVars, histVars>>

\* Reads take the first response, and what arrived close behind it, which is
\* cleared with read_buf by the next exchange.
TakeFirst == \E k \in 2..(Len(rx) + 1) : rx' = SubSeq(rx, k, Len(rx))

\* The first response that arrived is the answer: neither its transaction id
\* nor its unit id is compared with the request's.
RecvOk(c) ==
  /\ phase[c] = "receiving" /\ rx # <<>>
  /\ lock' = {} /\ Return(c, "ok")
  /\ answer' = [answer EXCEPT ![c] = Head(rx)]
  /\ TakeFirst
  /\ UNCHANGED <<cfg, drained, failures, rebuild_failures, conn, dead, tx,
                 sent, executed, abandoned>>

\* Protocol id, length or PDU of the first response is not acceptable.
RecvBad(c) ==
  /\ phase[c] = "receiving" /\ rx # <<>>
  /\ Fail(c, "Protocol")
  /\ TakeFirst
  /\ abandoned' = abandoned \cup {conn}
  /\ UNCHANGED <<cfg, drained, rebuild_failures, conn, dead, tx, sent,
                 executed, answer>>

RecvTimeout(c) ==
  /\ phase[c] = "receiving"
  /\ Fail(c, "Timeout")
  /\ abandoned' = abandoned \cup {conn}
  /\ UNCHANGED <<cfg, drained, rebuild_failures, connVars, sent, executed,
                 answer>>

RecvDead(c) ==
  /\ phase[c] = "receiving" /\ rx = <<>> /\ dead # "no"
  /\ Fail(c, ReadError) /\ EofTold
  /\ UNCHANGED <<cfg, drained, rebuild_failures, conn, tx, rx, histVars>>

\* The future of call is dropped at one of its awaits: the mutex is released
\* and the exchange is left where it is.
Cancel(c) ==
  /\ phase[c] # "done"
  /\ Return(c, "cancelled")
  /\ lock' = lock \ {c}
  /\ abandoned' = IF phase[c] = "receiving" THEN abandoned \cup {conn}
                  ELSE abandoned
  /\ UNCHANGED <<cfg, drained, failures, rebuild_failures, connVars, sent,
                 executed, answer>>

----------------------------------------------------------------------------
(* The server and the network *)

\* Requests of one connection are served in order; the response arrives if
\* that connection is still the client's and alive.
Serve(i) ==
  /\ i \in 1..Len(tx)
  /\ \A j \in 1..(i - 1) : tx[j].conn # tx[i].conn
  /\ tx' = SubSeq(tx, 1, i - 1) \o SubSeq(tx, i + 1, Len(tx))
  /\ executed' = [executed EXCEPT ![tx[i].req] = Append(@, tx[i].conn)]
  /\ rx' = IF tx[i].conn = conn /\ dead = "no" THEN Append(rx, tx[i]) ELSE rx
  /\ UNCHANGED <<cfg, callVars, conn, dead, sent, answer, abandoned>>

ConnectionDies(how) ==
  /\ dead = "no"
  /\ dead' = how
  /\ UNCHANGED <<cfg, callVars, conn, tx, rx, histVars>>

----------------------------------------------------------------------------

Step(c) ==
  \/ Lock(c) \/ DrainRead(c) \/ DrainQuiet(c) \/ DrainBusy(c) \/ DrainDead(c)
  \/ Send(c) \/ SendFails(c)
  \/ RecvOk(c) \/ RecvBad(c) \/ RecvTimeout(c) \/ RecvDead(c)
  \/ Sleep(c) \/ RebuildLock(c) \/ RebuildOk(c) \/ RebuildFails(c)

Next ==
  \/ \E c \in Callers : Step(c) \/ Cancel(c)
  \/ \E i \in 1..Len(tx) : Serve(i)
  \/ \E how \in {"eof", "reset"} : ConnectionDies(how)

Spec == Init /\ [][Next]_vars

\* Every wait of a call has a timeout, and tokio's mutex is fair: a call that
\* can take a step takes one.  Nothing is assumed of the server.
FairSpec == Spec /\ \A c \in Callers : WF_vars(Step(c))

----------------------------------------------------------------------------
(* Properties *)

Outcomes == {"none", "ok", "Protocol", "Timeout", "Connection", "Other",
             "exceeded", "cancelled"}

Phases == {"waiting", "draining", "sending", "receiving", "sleeping",
           "rebuildWaiting", "rebuilding", "done"}

\* Types, and the mutex: at most one holder.
TypeOK ==
  /\ phase \in [Callers -> Phases] /\ outcome \in [Callers -> Outcomes]
  /\ lock \subseteq Callers /\ Cardinality(lock) <= 1
  /\ drained \in BOOLEAN
  /\ failures \in [Callers -> Nat] /\ rebuild_failures \in [Callers -> 0..3]
  /\ conn \in 1..MaxConns /\ dead \in {"no", "eof", "reset"}
  /\ abandoned \subseteq 1..MaxConns

InExchange == {c \in Callers : phase[c] \in {"draining", "sending", "receiving"}}

\* A call delivers its request at most max_retries + 1 times, and once if no
\* reconnect is configured.
AttemptsBounded ==
  \A c \in Callers :
    /\ ~cfg.reconnect => Len(sent[c]) <= 1
    /\ cfg.max_retries > 0 => Len(sent[c]) <= cfg.max_retries + 1

\* A connection carries the request of a call to the server at most once, even
\* when the loop goes on with the old stream after a failed rebuild: no write
\* is executed twice from one connection.
OncePerConnection ==
  \A c \in Callers : \A i, j \in 1..Len(executed[c]) :
    executed[c][i] = executed[c][j] => i = j

\* What a call can read was answered on the connection it reads from: nothing
\* from before a reconnect is ever taken for an answer.
InputOfThisConnection == \A i \in 1..Len(rx) : rx[i].conn = conn

\* As long as no call gave up on a response on a connection (by a timeout, a
\* bad frame or by being dropped), every call on it gets its own answer.
OwnAnswerUnlessAbandoned ==
  \A c \in Callers :
    outcome[c] = "ok" /\ answer[c].conn \notin abandoned => answer[c].req = c

\* The stream is replaced only while no call is in an exchange on it.
RebuildAlone == [][conn' # conn => InExchange = {}]_vars

\* Every call returns, whatever the server does, unless it may retry for ever.
CallReturns ==
  \A c \in Callers :
    (~cfg.reconnect \/ cfg.max_retries > 0) ~> (phase[c] = "done")
====
