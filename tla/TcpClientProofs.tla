---- MODULE TcpClientProofs ----
(***************************************************************************)
(* Safety of TcpClient for any number of callers, connections and retries.  *)
(***************************************************************************)
EXTENDS TcpClient, FiniteSetTheorems, TLAPS

Request == [req : Callers, conn : Nat]

----------------------------------------------------------------------------
(* The inductive invariant *)

Types ==
  /\ cfg \in [reconnect : BOOLEAN, max_retries : Nat, tap : BOOLEAN]
  /\ phase \in [Callers -> Phases] /\ outcome \in [Callers -> Outcomes]
  /\ lock \subseteq Callers /\ drained \in BOOLEAN
  /\ failures \in [Callers -> Nat] /\ rebuild_failures \in [Callers -> Nat]
  /\ conn \in 1..MaxConns /\ dead \in {"no", "eof", "reset"}
  /\ tx \in Seq(Request) /\ rx \in Seq(Request)
  /\ sent \in [Callers -> Seq(Nat)] /\ executed \in [Callers -> Seq(Nat)]
  /\ answer \in [Callers -> Request \cup {NoAnswer}]
  /\ abandoned \subseteq 1..MaxConns

\* The phases in which a call holds the mutex.
Holding == {"draining", "sending", "receiving", "rebuilding"}

\* The mutex: one holder, and it is the call that is in a critical section.
Mutex ==
  /\ \A c, d \in lock : c = d
  /\ \A c \in Callers : c \in lock <=> phase[c] \in Holding

\* What a call has delivered never runs ahead of its failures by more than
\* the attempt in progress.
CountedOf(c) ==
  /\ Len(sent[c]) <= failures[c] + (IF phase[c] \in {"receiving", "done"} THEN 1 ELSE 0)
  /\ phase[c] # "done" => rebuild_failures[c] < 3
  /\ rebuild_failures[c] <= 3
  /\ ~cfg.reconnect => /\ phase[c] \notin {"sleeping", "rebuildWaiting", "rebuilding"}
                       /\ failures[c] = 0
  /\ phase[c] # "done" /\ cfg.max_retries > 0 => failures[c] <= cfg.max_retries
  /\ cfg.max_retries > 0 => Len(sent[c]) <= cfg.max_retries + 1

Counted == \A c \in Callers : CountedOf(c)

\* The connections in a sequence.
In(k, s) == \E i \in 1..Len(s) : s[i] = k

Distinct(s) == \A i, j \in 1..Len(s) : s[i] = s[j] => i = j

\* A request that was delivered on the current connection, and that is not
\* being awaited, will not be sent there again: its connection is dead or its
\* call is over.
Delivered ==
  \A c \in Callers :
    /\ \A i \in 1..Len(sent[c]) : sent[c][i] \in 1..conn
    /\ In(conn, sent[c]) => dead # "no" \/ phase[c] \in {"receiving", "done"}

\* A request on its way was sent, has not been executed and is there once;
\* what was executed was sent, once per connection.
InFlight ==
  /\ Distinct(tx)
  /\ \A i \in 1..Len(tx) : /\ In(tx[i].conn, sent[tx[i].req])
                           /\ ~In(tx[i].conn, executed[tx[i].req])
  /\ \A c \in Callers :
       /\ Distinct(executed[c])
       /\ \A i \in 1..Len(executed[c]) : In(executed[c][i], sent[c])

\* What has arrived was executed from this connection, and is there once.
Arrived ==
  /\ InputOfThisConnection
  /\ Distinct(rx)
  /\ \A i \in 1..Len(rx) : In(rx[i].conn, executed[rx[i].req])

\* On a connection nobody gave up on, responses that have arrived or can still
\* arrive are those the call in its exchange waits for.
Awaited ==
  conn \notin abandoned =>
    /\ \A i \in 1..Len(rx) : phase[rx[i].req] = "receiving"
    /\ dead = "no" =>
         \A i \in 1..Len(tx) : tx[i].conn = conn => phase[tx[i].req] = "receiving"

IInv ==
  /\ Types /\ Mutex /\ Counted /\ Delivered /\ InFlight /\ Arrived /\ Awaited
  /\ OwnAnswerUnlessAbandoned

----------------------------------------------------------------------------
(* Sequences *)

\* Removing element i.
LEMMA RemoveAt ==
  ASSUME NEW S, NEW s \in Seq(S), NEW i \in 1..Len(s)
  PROVE  LET r == SubSeq(s, 1, i - 1) \o SubSeq(s, i + 1, Len(s))
         IN /\ r \in Seq(S)
            /\ Len(r) = Len(s) - 1
            /\ \A j \in 1..Len(r) : r[j] = s[IF j < i THEN j ELSE j + 1]
<1> DEFINE a == SubSeq(s, 1, i - 1)
           b == SubSeq(s, i + 1, Len(s))
<1>1. a \in Seq(S) /\ Len(a) = i - 1 /\ \A j \in 1..Len(a) : a[j] = s[j]
  OBVIOUS
<1>2. b \in Seq(S) /\ Len(b) = Len(s) - i /\ \A j \in 1..Len(b) : b[j] = s[j + i]
  OBVIOUS
<1> HIDE DEF a, b
<1>3. /\ a \o b \in Seq(S) /\ Len(a \o b) = Len(a) + Len(b)
      /\ \A j \in 1..(Len(a) + Len(b)) :
           (a \o b)[j] = IF j <= Len(a) THEN a[j] ELSE b[j - Len(a)]
  <2>1. a \in Seq(S) /\ b \in Seq(S)
    BY <1>1, <1>2
  <2> QED BY <2>1
<1>4. Len(a \o b) = Len(s) - 1
  BY <1>1, <1>2, <1>3
<1>5. ASSUME NEW j \in 1..Len(a \o b)
      PROVE  (a \o b)[j] = s[IF j < i THEN j ELSE j + 1]
  <2>0. i \in Nat /\ Len(s) \in Nat /\ j \in 1..(Len(a) + Len(b))
    BY <1>3
  <2>1. CASE j < i
    <3>1. j \in 1..Len(a)
      BY <2>0, <2>1, <1>1
    <3> QED BY <3>1, <2>0, <2>1, <1>1, <1>3
  <2>2. CASE ~(j < i)
    <3>1. j - Len(a) \in 1..Len(b) /\ (j - Len(a)) + i = j + 1 /\ ~(j <= Len(a))
      BY <2>0, <2>2, <1>1, <1>2
    <3>2. (a \o b)[j] = b[j - Len(a)] /\ b[j - Len(a)] = s[(j - Len(a)) + i]
      BY <3>1, <2>0, <1>2, <1>3
    <3> QED BY <3>1, <3>2, <2>2
  <2> QED BY <2>1, <2>2
<1> QED BY <1>3, <1>4, <1>5 DEF a, b

\* The fields of a request or response.
LEMMA RequestFields ==
  ASSUME NEW q \in Seq(Request), NEW i \in 1..Len(q)
  PROVE  q[i] \in Request /\ q[i].req \in Callers /\ q[i].conn \in Nat
<1>1. q[i] \in Request
  OBVIOUS
<1> QED BY <1>1 DEF Request

\* Dropping the first elements.
LEMMA DropFirst ==
  ASSUME NEW S, NEW s \in Seq(S), NEW k \in 1..(Len(s) + 1)
  PROVE  /\ SubSeq(s, k, Len(s)) \in Seq(S)
         /\ Len(SubSeq(s, k, Len(s))) = Len(s) - k + 1
         /\ \A j \in 1..Len(SubSeq(s, k, Len(s))) :
              /\ SubSeq(s, k, Len(s))[j] = s[j + k - 1]
              /\ j + k - 1 \in 1..Len(s)
OBVIOUS

\* Appending an element.
LEMMA AppendIn ==
  ASSUME NEW S, NEW s \in Seq(S), NEW x \in S
  PROVE  /\ Append(s, x) \in Seq(S)
         /\ Len(Append(s, x)) = Len(s) + 1
         /\ \A k : In(k, Append(s, x)) <=> In(k, s) \/ k = x
         /\ Distinct(s) /\ ~In(x, s) => Distinct(Append(s, x))
<1>1. /\ Append(s, x) \in Seq(S) /\ Len(Append(s, x)) = Len(s) + 1
      /\ \A j \in 1..Len(s) : Append(s, x)[j] = s[j]
      /\ Append(s, x)[Len(s) + 1] = x
      /\ 1..(Len(s) + 1) = 1..Len(s) \cup {Len(s) + 1}
  OBVIOUS
<1>2. \A k : In(k, Append(s, x)) <=> In(k, s) \/ k = x
  BY <1>1 DEF In
<1>3. Distinct(s) /\ ~In(x, s) => Distinct(Append(s, x))
  BY <1>1 DEF In, Distinct
<1> QED BY <1>1, <1>2, <1>3

----------------------------------------------------------------------------
(* Steps that leave a part alone *)

\* What Fail does to a call that holds the mutex.
LEMMA FailEffect ==
  ASSUME IInv, NEW c \in Callers, NEW e \in Outcomes \ {"none", "ok"}, Fail(c, e),
         phase[c] # "done", cfg' = cfg
  PROVE  /\ lock' = {}
         /\ phase' = [phase EXCEPT ![c] = phase'[c]]
         /\ phase'[c] \in {"done", "sleeping"}
         /\ e \notin Retryable => phase'[c] = "done"
         /\ phase'[c] = "sleeping" => /\ cfg.reconnect
                                      /\ failures'[c] = failures[c] + 1
         /\ phase'[c] = "sleeping" /\ cfg.max_retries > 0 =>
              failures'[c] <= cfg.max_retries
         /\ failures' = [failures EXCEPT ![c] = failures'[c]]
         /\ failures'[c] \in {failures[c], failures[c] + 1}
         /\ ~cfg.reconnect => failures'[c] = failures[c]
         /\ outcome' = [outcome EXCEPT ![c] = outcome'[c]]
         /\ outcome'[c] \in Outcomes
         /\ outcome'[c] = "ok" => outcome[c] = "ok"
<1>1. CASE ~cfg.reconnect \/ e \notin Retryable
  BY <1>1 DEF Fail, Return, Goto, IInv, Types, Outcomes
<1>2. CASE ~(~cfg.reconnect \/ e \notin Retryable)
  <2>1. failures' = [failures EXCEPT ![c] = failures[c] + 1]
        /\ failures'[c] = failures[c] + 1
    BY <1>2 DEF Fail, IInv, Types
  <2>2. CASE cfg.max_retries > 0 /\ failures'[c] > cfg.max_retries
    BY <1>2, <2>1, <2>2, SMTT(40) DEF Fail, Return, Goto, IInv, Types, Outcomes
  <2>3. CASE ~(cfg.max_retries > 0 /\ failures'[c] > cfg.max_retries)
    BY <1>2, <2>1, <2>3 DEF Fail, Goto, IInv, Types, Outcomes
  <2> QED BY <2>2, <2>3
<1> QED BY <1>1, <1>2

\* A call that is not waiting for a response moves on, and nothing happens on
\* the stream.
LEMMA Moves ==
  ASSUME IInv, NEW c \in Callers, phase[c] \notin {"receiving", "done"},
         phase' = [phase EXCEPT ![c] = phase'[c]],
         UNCHANGED <<conn, tx, rx, sent, executed, abandoned>>,
         dead' = "no" <=> dead = "no"
  PROVE  Delivered' /\ InFlight' /\ Arrived' /\ Awaited'
<1>1. Delivered'
  BY DEF IInv, Types, Delivered
<1>2. InFlight'
  BY DEF IInv, InFlight
<1>3. Arrived'
  BY DEF IInv, Arrived, InputOfThisConnection
<1>4. Awaited'
  <2>1. /\ \A i \in 1..Len(rx) : rx[i].req \in Callers
        /\ \A i \in 1..Len(tx) : tx[i].req \in Callers
    BY RequestFields DEF IInv, Types
  <2>2. \A d \in Callers : phase[d] = "receiving" => phase'[d] = "receiving"
    BY DEF IInv, Types
  <2> QED BY <2>1, <2>2 DEF IInv, Awaited
<1> QED BY <1>1, <1>2, <1>3, <1>4

\* A call gives up on a response.
LEMMA Abandons ==
  ASSUME IInv, NEW c \in Callers, phase' = [phase EXCEPT ![c] = "done"],
         UNCHANGED <<conn, dead, tx, sent, executed>>,
         conn \in abandoned', Arrived'
  PROVE  Delivered' /\ InFlight' /\ Awaited'
<1>1. Delivered'
  BY DEF IInv, Types, Delivered
<1>2. InFlight'
  BY DEF IInv, InFlight
<1>3. Awaited'
  BY DEF Awaited
<1> QED BY <1>1, <1>2, <1>3

\* No call succeeds in this step.
LEMMA OwnKept ==
  ASSUME IInv, NEW c \in Callers,
         outcome' = [outcome EXCEPT ![c] = outcome'[c]],
         outcome'[c] = "ok" => outcome[c] = "ok",
         answer' = answer, abandoned \subseteq abandoned'
  PROVE  OwnAnswerUnlessAbandoned'
BY DEF IInv, Types, OwnAnswerUnlessAbandoned

\* Responses are taken from the front.
LEMMA Taken ==
  ASSUME IInv, NEW k \in 1..(Len(rx) + 1), rx' = SubSeq(rx, k, Len(rx)),
         UNCHANGED <<conn, executed>>
  PROVE  /\ Arrived' /\ rx' \in Seq(Request)
         /\ \A j \in 1..Len(rx') : j + k - 1 \in 1..Len(rx) /\ rx'[j] = rx[j + k - 1]
<1>1. rx \in Seq(Request) /\ Len(rx) \in Nat
  BY DEF IInv, Types
<1>2. /\ rx' \in Seq(Request) /\ Len(rx') = Len(rx) - k + 1
      /\ \A j \in 1..Len(rx') : j + k - 1 \in 1..Len(rx) /\ rx'[j] = rx[j + k - 1]
  BY <1>1, DropFirst
<1>3. Distinct(rx)'
  BY <1>1, <1>2 DEF IInv, Arrived, Distinct
<1>4. InputOfThisConnection'
  BY <1>1, <1>2 DEF IInv, Arrived, InputOfThisConnection
<1>5. (\A i \in 1..Len(rx) : In(rx[i].conn, executed[rx[i].req]))'
  <2>1. \A i \in 1..Len(rx) : In(rx[i].conn, executed[rx[i].req])
    BY DEF IInv, Arrived
  <2> QED BY <1>1, <1>2, <2>1
<1> QED BY <1>2, <1>3, <1>4, <1>5 DEF Arrived

\* An attempt that fails keeps the types, the mutex and the counters.
LEMMA FailStep ==
  ASSUME IInv, NEW c \in Callers, NEW e \in Outcomes \ {"none", "ok"}, Fail(c, e),
         phase[c] \in {"draining", "sending", "receiving"},
         UNCHANGED <<cfg, drained, rebuild_failures, conn, tx, sent, executed, answer>>,
         dead' \in {"no", "eof", "reset"}, rx' \in Seq(Request),
         abandoned' \subseteq 1..MaxConns
  PROVE  Types' /\ Mutex' /\ Counted'
<1>0. /\ lock' = {}
      /\ phase' = [phase EXCEPT ![c] = phase'[c]]
      /\ phase'[c] \in {"done", "sleeping"}
      /\ phase'[c] = "sleeping" => /\ cfg.reconnect
                                   /\ failures'[c] = failures[c] + 1
      /\ phase'[c] = "sleeping" /\ cfg.max_retries > 0 =>
           failures'[c] <= cfg.max_retries
      /\ failures' = [failures EXCEPT ![c] = failures'[c]]
      /\ failures'[c] \in {failures[c], failures[c] + 1}
      /\ ~cfg.reconnect => failures'[c] = failures[c]
      /\ outcome' = [outcome EXCEPT ![c] = outcome'[c]]
      /\ outcome'[c] \in Outcomes
  BY FailEffect
<1>1. Types'
  <2>1. phase' \in [Callers -> Phases]
    BY <1>0 DEF IInv, Types, Phases
  <2>2. failures' \in [Callers -> Nat]
    <3>1. failures \in [Callers -> Nat]
      BY DEF IInv, Types
    <3>2. failures'[c] \in Nat
      BY <1>0, <3>1
    <3> QED BY <1>0, <3>1, <3>2
  <2>3. outcome' \in [Callers -> Outcomes]
    BY <1>0 DEF IInv, Types
  <2> QED BY <1>0, <2>1, <2>2, <2>3 DEF IInv, Types
<1>2. Mutex'
  <2>1. \A d \in Callers \ {c} : phase'[d] = phase[d]
    BY <1>0 DEF IInv, Types
  <2>2. c \in lock
    BY DEF IInv, Mutex, Holding
  <2> QED BY <1>0, <2>1, <2>2 DEF IInv, Mutex, Holding, Types
<1>3. Counted'
  <2> SUFFICES ASSUME NEW d \in Callers
               PROVE  CountedOf(d)'
    BY DEF Counted
  <2>1. CASE d # c
    <3>1. phase'[d] = phase[d] /\ failures'[d] = failures[d]
      BY <2>1, <1>0 DEF IInv, Types
    <3> QED BY <3>1 DEF IInv, Counted, CountedOf
  <2>2. CASE d = c
    <3>1. failures[c] \in Nat /\ Len(sent[c]) \in Nat
      BY DEF IInv, Types
    <3>2. phase[c] # "done"
      OBVIOUS
    <3> QED BY <2>2, <3>1, <3>2, <1>0 DEF IInv, Counted, CountedOf
  <2> QED BY <2>1, <2>2
<1> QED BY <1>1, <1>2, <1>3

\* A call moves from one phase to another and counts nothing.
LEMMA MoveStep ==
  ASSUME IInv, NEW c \in Callers, NEW p \in Phases, phase[c] # "done",
         phase' = [phase EXCEPT ![c] = p],
         p \in {"receiving", "done"} \/ phase[c] # "receiving",
         p \in {"sleeping", "rebuildWaiting", "rebuilding"} => cfg.reconnect,
         UNCHANGED <<cfg, failures, rebuild_failures, sent>>
  PROVE  Counted'
<1> SUFFICES ASSUME NEW d \in Callers
             PROVE  CountedOf(d)'
  BY DEF Counted
<1>0. failures[d] \in Nat /\ Len(sent[d]) \in Nat
  BY DEF IInv, Types
<1>1. CASE d # c
  <2>1. phase'[d] = phase[d]
    BY <1>1 DEF IInv, Types
  <2> QED BY <2>1 DEF IInv, Counted, CountedOf
<1>2. CASE d = c
  <2>1. phase'[d] = p
    BY <1>2 DEF IInv, Types
  <2> QED BY <2>1, <1>2, <1>0 DEF IInv, Counted, CountedOf
<1> QED BY <1>1, <1>2

----------------------------------------------------------------------------
(* Every action keeps the invariant *)

\* A call takes the mutex and starts an exchange.
LEMMA LockStep ==
  ASSUME IInv, NEW c \in Callers, Lock(c)
  PROVE  IInv'
<1>0. phase[c] = "waiting" /\ phase' = [phase EXCEPT ![c] = "draining"]
      /\ phase'[c] = "draining" /\ lock = {} /\ lock' = {c}
  BY DEF Lock, Goto, IInv, Types
<1>1. Types'
  BY <1>0 DEF Lock, connVars, histVars, IInv, Types, Phases
<1>2. Mutex'
  BY <1>0 DEF IInv, Types, Mutex, Holding
<1>3. Counted'
  BY <1>0, MoveStep DEF Lock, histVars, Phases
<1>4. Delivered' /\ InFlight' /\ Arrived' /\ Awaited'
  BY <1>0, Moves DEF Lock, connVars, histVars
<1>5. OwnAnswerUnlessAbandoned'
  BY DEF Lock, histVars, IInv, OwnAnswerUnlessAbandoned
<1> QED BY <1>1, <1>2, <1>3, <1>4, <1>5 DEF IInv

\* The drain reads something.
LEMMA DrainReadStep ==
  ASSUME IInv, NEW c \in Callers, DrainRead(c)
  PROVE  IInv'
<1>0. /\ rx \in Seq(Request) /\ rx # <<>> /\ rx' = SubSeq(rx, 2, Len(rx))
      /\ 2 \in 1..(Len(rx) + 1)
  BY DEF DrainRead, IInv, Types
<1>1. UNCHANGED <<cfg, phase, lock, failures, rebuild_failures, outcome, conn,
                  dead, tx, sent, executed, answer, abandoned>>
      /\ drained' = TRUE
  BY DEF DrainRead, histVars
<1>2. /\ Arrived' /\ rx' \in Seq(Request)
      /\ \A j \in 1..Len(rx') : j + 2 - 1 \in 1..Len(rx) /\ rx'[j] = rx[j + 2 - 1]
  BY <1>0, <1>1, Taken
<1>3. Types'
  BY <1>1, <1>2 DEF IInv, Types
<1>4. Mutex' /\ Delivered' /\ InFlight' /\ OwnAnswerUnlessAbandoned'
  BY <1>1 DEF IInv, Mutex, Delivered, InFlight, OwnAnswerUnlessAbandoned
<1>5. Counted'
  BY <1>1 DEF IInv, Counted, CountedOf
<1>6. Awaited'
  BY <1>1, <1>2 DEF IInv, Awaited
<1> QED BY <1>2, <1>3, <1>4, <1>5, <1>6 DEF IInv

\* The line is quiet.
LEMMA DrainQuietStep ==
  ASSUME IInv, NEW c \in Callers, DrainQuiet(c)
  PROVE  IInv'
<1>0. phase[c] = "draining" /\ phase' = [phase EXCEPT ![c] = "sending"]
      /\ phase'[c] = "sending" /\ lock' = lock
  BY DEF DrainQuiet, Goto, IInv, Types
<1>1. Types'
  BY <1>0 DEF DrainQuiet, connVars, histVars, IInv, Types, Phases
<1>2. Mutex'
  BY <1>0 DEF IInv, Types, Mutex, Holding
<1>3. Counted'
  BY <1>0, MoveStep DEF DrainQuiet, histVars, Phases
<1>4. Delivered' /\ InFlight' /\ Arrived' /\ Awaited'
  BY <1>0, Moves DEF DrainQuiet, connVars, histVars
<1>5. OwnAnswerUnlessAbandoned'
  BY DEF DrainQuiet, histVars, IInv, OwnAnswerUnlessAbandoned
<1> QED BY <1>1, <1>2, <1>3, <1>4, <1>5 DEF IInv

\* An attempt fails before its request was written.
LEMMA FailsUnsent ==
  ASSUME IInv, NEW c \in Callers, NEW e \in Outcomes \ {"none", "ok"}, Fail(c, e),
         phase[c] \in {"draining", "sending"},
         UNCHANGED <<cfg, drained, rebuild_failures, conn, tx, rx, histVars>>,
         dead' \in {"no", "eof", "reset"}, dead' = "no" <=> dead = "no"
  PROVE  IInv'
<1>0. UNCHANGED <<sent, executed, answer, abandoned>>
  BY DEF histVars
<1>1. Types' /\ Mutex' /\ Counted'
  <2>1. rx' \in Seq(Request) /\ abandoned' \subseteq 1..MaxConns
    BY <1>0 DEF IInv, Types
  <2> QED BY <1>0, <2>1, FailStep
<1>2. /\ phase' = [phase EXCEPT ![c] = phase'[c]]
      /\ outcome' = [outcome EXCEPT ![c] = outcome'[c]]
      /\ outcome'[c] = "ok" => outcome[c] = "ok"
  BY FailEffect
<1>3. Delivered' /\ InFlight' /\ Arrived' /\ Awaited'
  BY <1>0, <1>2, Moves
<1>4. OwnAnswerUnlessAbandoned'
  BY <1>0, <1>2, OwnKept
<1> QED BY <1>1, <1>3, <1>4 DEF IInv

\* The drain fails: the bus is busy, or the connection is dead.
LEMMA DrainFailsStep ==
  ASSUME IInv, NEW c \in Callers, DrainBusy(c) \/ DrainDead(c)
  PROVE  IInv'
<1>1. CASE DrainBusy(c)
  BY <1>1, FailsUnsent DEF DrainBusy, connVars, Outcomes, IInv, Types
<1>2. CASE DrainDead(c)
  <2>1. dead' \in {"no", "eof", "reset"} /\ (dead' = "no" <=> dead = "no")
    BY <1>2 DEF DrainDead, EofTold, IInv, Types
  <2>2. ReadError \in Outcomes \ {"none", "ok"}
    BY DEF ReadError, Outcomes
  <2> QED BY <1>2, <2>1, <2>2, FailsUnsent DEF DrainDead
<1> QED BY <1>1, <1>2

\* The request could not be written.
LEMMA SendFailsStep ==
  ASSUME IInv, NEW c \in Callers, SendFails(c)
  PROVE  IInv'
<1>1. PICK e \in {"Protocol", "Timeout", "Connection"} : Fail(c, e)
  BY DEF SendFails
<1>2. e \in Outcomes \ {"none", "ok"}
  BY DEF Outcomes
<1> QED BY <1>1, <1>2, FailsUnsent DEF SendFails, connVars, IInv, Types

\* The interval before a rebuild is over.
LEMMA SleepStep ==
  ASSUME IInv, NEW c \in Callers, Sleep(c)
  PROVE  IInv'
<1>0. phase[c] = "sleeping" /\ phase' = [phase EXCEPT ![c] = "rebuildWaiting"]
      /\ phase'[c] = "rebuildWaiting" /\ lock' = lock
  BY DEF Sleep, Goto, IInv, Types
<1>1. Types'
  BY <1>0 DEF Sleep, connVars, histVars, IInv, Types, Phases
<1>2. Mutex'
  BY <1>0 DEF IInv, Types, Mutex, Holding
<1>3. Counted'
  <2>1. cfg.reconnect
    BY <1>0 DEF IInv, Counted, CountedOf
  <2> QED BY <1>0, <2>1, MoveStep DEF Sleep, histVars, Phases
<1>4. Delivered' /\ InFlight' /\ Arrived' /\ Awaited'
  BY <1>0, Moves DEF Sleep, connVars, histVars
<1>5. OwnAnswerUnlessAbandoned'
  BY DEF Sleep, histVars, IInv, OwnAnswerUnlessAbandoned
<1> QED BY <1>1, <1>2, <1>3, <1>4, <1>5 DEF IInv

\* The rebuild closure takes the mutex.
LEMMA RebuildLockStep ==
  ASSUME IInv, NEW c \in Callers, RebuildLock(c)
  PROVE  IInv'
<1>0. phase[c] = "rebuildWaiting" /\ phase' = [phase EXCEPT ![c] = "rebuilding"]
      /\ phase'[c] = "rebuilding" /\ lock = {} /\ lock' = {c}
  BY DEF RebuildLock, Goto, IInv, Types
<1>1. Types'
  BY <1>0 DEF RebuildLock, connVars, histVars, IInv, Types, Phases
<1>2. Mutex'
  BY <1>0 DEF IInv, Types, Mutex, Holding
<1>3. Counted'
  <2>1. cfg.reconnect
    BY <1>0 DEF IInv, Counted, CountedOf
  <2> QED BY <1>0, <2>1, MoveStep DEF RebuildLock, histVars, Phases
<1>4. Delivered' /\ InFlight' /\ Arrived' /\ Awaited'
  BY <1>0, Moves DEF RebuildLock, connVars, histVars
<1>5. OwnAnswerUnlessAbandoned'
  BY DEF RebuildLock, histVars, IInv, OwnAnswerUnlessAbandoned
<1> QED BY <1>1, <1>2, <1>3, <1>4, <1>5 DEF IInv

\* The mutex holder of a rebuild releases it.
LEMMA Releases ==
  ASSUME IInv, NEW c \in Callers, phase[c] \in Holding, lock' = lock \ {c},
         NEW p \in Phases \ Holding, phase' = [phase EXCEPT ![c] = p]
  PROVE  Mutex' /\ phase' \in [Callers -> Phases] /\ lock' \subseteq Callers
BY DEF IInv, Types, Mutex

\* A new stream.
LEMMA RebuildOkStep ==
  ASSUME IInv, NEW c \in Callers, RebuildOk(c)
  PROVE  IInv'
<1>0. /\ phase[c] = "rebuilding" /\ phase' = [phase EXCEPT ![c] = "waiting"]
      /\ phase'[c] = "waiting" /\ lock' = lock \ {c}
      /\ conn \in 1..MaxConns /\ conn' = conn + 1 /\ conn' \in 1..MaxConns
      /\ rx' = <<>> /\ dead' = "no"
      /\ rebuild_failures' = [rebuild_failures EXCEPT ![c] = 0]
  BY ClientConstants DEF RebuildOk, Goto, IInv, Types
<1>1. UNCHANGED <<cfg, drained, failures, outcome, tx, sent, executed, answer, abandoned>>
  BY DEF RebuildOk, histVars
<1>2. Mutex' /\ phase' \in [Callers -> Phases] /\ lock' \subseteq Callers
  BY <1>0, Releases DEF Phases, Holding
<1>3. Types'
  <2>1. rebuild_failures' \in [Callers -> Nat]
    BY <1>0 DEF IInv, Types
  <2>2. rx' \in Seq(Request)
    BY <1>0
  <2> QED BY <1>0, <1>1, <1>2, <2>1, <2>2 DEF IInv, Types
<1>4. Counted'
  <2> SUFFICES ASSUME NEW d \in Callers
               PROVE  CountedOf(d)'
    BY DEF Counted
  <2>0. CountedOf(d)
    BY DEF IInv, Counted
  <2>1. CASE d # c
    <3>1. phase'[d] = phase[d] /\ rebuild_failures'[d] = rebuild_failures[d]
      BY <2>1, <1>0 DEF IInv, Types
    <3> QED BY <2>0, <3>1, <1>1 DEF CountedOf
  <2>2. CASE d = c
    <3>1. rebuild_failures'[c] = 0
      BY <1>0 DEF IInv, Types
    <3> QED BY <2>0, <2>2, <3>1, <1>0, <1>1 DEF CountedOf
  <2> QED BY <2>1, <2>2
<1>5. Delivered'
  <2>1. ASSUME NEW d \in Callers, NEW i \in 1..Len(sent[d])
        PROVE  sent[d][i] \in 1..conn' /\ sent[d][i] # conn'
    <3>1. sent[d][i] \in 1..conn
      BY DEF IInv, Delivered
    <3> QED BY <3>1, <1>0
  <2> QED BY <1>1, <2>1 DEF Delivered, In
<1>6. InFlight' /\ OwnAnswerUnlessAbandoned'
  BY <1>1 DEF IInv, InFlight, OwnAnswerUnlessAbandoned
<1>7. Arrived'
  BY <1>0 DEF Arrived, InputOfThisConnection, Distinct
<1>8. Awaited'
  <2>1. ASSUME NEW i \in 1..Len(tx)
        PROVE  tx[i].conn # conn'
    <3>1. tx[i].req \in Callers /\ In(tx[i].conn, sent[tx[i].req])
      BY RequestFields DEF IInv, Types, InFlight
    <3>2. tx[i].conn \in 1..conn
      BY <3>1 DEF In, IInv, Delivered
    <3> QED BY <3>2, <1>0
  <2> QED BY <1>0, <1>1, <2>1 DEF Awaited
<1> QED BY <1>2, <1>3, <1>4, <1>5, <1>6, <1>7, <1>8 DEF IInv

\* A rebuild fails.
LEMMA RebuildFailsStep ==
  ASSUME IInv, NEW c \in Callers, RebuildFails(c)
  PROVE  IInv'
<1>0. /\ phase[c] = "rebuilding" /\ lock' = lock \ {c}
      /\ rebuild_failures' = [rebuild_failures EXCEPT ![c] = rebuild_failures[c] + 1]
      /\ rebuild_failures \in [Callers -> Nat]
      /\ rebuild_failures'[c] = rebuild_failures[c] + 1
  BY DEF RebuildFails, IInv, Types
<1>1. UNCHANGED <<cfg, drained, failures, conn, dead, tx, rx, sent, executed, answer,
                  abandoned>>
  BY DEF RebuildFails, connVars, histVars
<1>2. PICK p \in {"done", "waiting"} :
        /\ phase' = [phase EXCEPT ![c] = p]
        /\ p = "waiting" => rebuild_failures'[c] < 3
        /\ outcome' = [outcome EXCEPT ![c] = outcome'[c]]
        /\ outcome'[c] \in {outcome[c], "exceeded"}
  <2>1. CASE rebuild_failures'[c] >= 3
    BY <2>1 DEF RebuildFails, Return, Goto, IInv, Types
  <2>2. CASE ~(rebuild_failures'[c] >= 3)
    <3>1. rebuild_failures'[c] < 3
      BY <2>2, <1>0
    <3> QED BY <2>2, <3>1 DEF RebuildFails, Goto, IInv, Types
  <2> QED BY <2>1, <2>2
<1>3. phase'[c] = p
  BY <1>2 DEF IInv, Types
<1>4. Mutex' /\ phase' \in [Callers -> Phases] /\ lock' \subseteq Callers
  BY <1>0, <1>2, Releases DEF Phases, Holding
<1>5. Types'
  <2>1. rebuild_failures' \in [Callers -> Nat]
    BY <1>0
  <2>2. outcome' \in [Callers -> Outcomes]
    BY <1>2 DEF IInv, Types, Outcomes
  <2> QED BY <1>1, <1>4, <2>1, <2>2 DEF IInv, Types
<1>6. Counted'
  <2> SUFFICES ASSUME NEW d \in Callers
               PROVE  CountedOf(d)'
    BY DEF Counted
  <2>0. CountedOf(d)
    BY DEF IInv, Counted
  <2>1. CASE d # c
    <3>1. phase'[d] = phase[d] /\ rebuild_failures'[d] = rebuild_failures[d]
      BY <2>1, <1>0, <1>2 DEF IInv, Types
    <3> QED BY <2>0, <3>1, <1>1 DEF CountedOf
  <2>2. CASE d = c
    <3>1. failures[c] \in Nat /\ Len(sent[c]) \in Nat
      BY DEF IInv, Types
    <3> QED BY <2>0, <2>2, <3>1, <1>0, <1>1, <1>2, <1>3 DEF CountedOf
  <2> QED BY <2>1, <2>2
<1>7. Delivered' /\ InFlight' /\ Arrived' /\ Awaited'
  BY <1>0, <1>1, <1>2, <1>3, Moves
<1>8. OwnAnswerUnlessAbandoned'
  BY <1>1, <1>2, OwnKept
<1> QED BY <1>4, <1>5, <1>6, <1>7, <1>8 DEF IInv

\* The request is written: on a live connection it is on its way, and it was
\* never on its way there before.
LEMMA SendStep ==
  ASSUME IInv, NEW c \in Callers, Send(c)
  PROVE  IInv'
<1>0. /\ phase[c] = "sending" /\ phase' = [phase EXCEPT ![c] = "receiving"]
      /\ phase'[c] = "receiving" /\ phase \in [Callers -> Phases]
      /\ phase' \in [Callers -> Phases]
  BY DEF Send, Goto, IInv, Types, Phases
<1>1. UNCHANGED <<cfg, lock, drained, failures, rebuild_failures, outcome, conn, dead,
                  rx, executed, answer, abandoned>>
  BY DEF Send
<1>2. Mutex' /\ Arrived' /\ OwnAnswerUnlessAbandoned'
  <2>1. Mutex'
    BY <1>0, <1>1 DEF IInv, Mutex, Holding
  <2>2. Arrived' /\ OwnAnswerUnlessAbandoned'
    BY <1>1 DEF IInv, Arrived, InputOfThisConnection, OwnAnswerUnlessAbandoned
  <2> QED BY <2>1, <2>2
<1>3. CASE dead # "no"
  <2>1. UNCHANGED <<tx, sent>>
    BY <1>3 DEF Send
  <2>2. Types'
    BY <1>0, <1>1, <2>1 DEF IInv, Types
  <2>3. Counted'
    BY <1>0, <1>1, <2>1, MoveStep DEF Phases
  <2>4. Delivered' /\ InFlight' /\ Awaited'
    BY <1>0, <1>1, <2>1, Moves
  <2> QED BY <1>2, <2>2, <2>3, <2>4 DEF IInv
<1>4. CASE dead = "no"
  <2> DEFINE m == [req |-> c, conn |-> conn]
  <2>1. /\ tx' = Append(tx, m) /\ tx \in Seq(Request) /\ m \in Request
        /\ m.req = c /\ m.conn = conn
        /\ sent' = [sent EXCEPT ![c] = Append(sent[c], conn)]
        /\ sent \in [Callers -> Seq(Nat)] /\ conn \in Nat
        /\ sent'[c] = Append(sent[c], conn)
        /\ \A d \in Callers \ {c} : sent'[d] = sent[d]
    <3>1. tx \in Seq(Request) /\ sent \in [Callers -> Seq(Nat)] /\ conn \in Nat
      BY DEF IInv, Types
    <3>2. tx' = Append(tx, m) /\ sent' = [sent EXCEPT ![c] = Append(sent[c], conn)]
      BY <1>4 DEF Send
    <3>3. m \in Request /\ m.req = c /\ m.conn = conn
      BY <3>1 DEF Request
    <3>4. /\ sent'[c] = Append(sent[c], conn)
          /\ \A d \in Callers \ {c} : sent'[d] = sent[d]
      BY <3>1, <3>2
    <3> QED BY <3>1, <3>2, <3>3, <3>4
  <2> HIDE DEF m
  <2>2. ~In(conn, sent[c])
    BY <1>0, <1>4 DEF IInv, Delivered
  <2>3. /\ tx' \in Seq(Request) /\ Len(tx') = Len(tx) + 1
        /\ \A j \in 1..Len(tx) : tx'[j] = tx[j]
        /\ tx'[Len(tx) + 1] = m
        /\ 1..Len(tx') = 1..Len(tx) \cup {Len(tx) + 1}
    BY <2>1
  <2>4. /\ sent'[c] \in Seq(Nat) /\ Len(sent'[c]) = Len(sent[c]) + 1
        /\ \A k : In(k, sent'[c]) <=> In(k, sent[c]) \/ k = conn
    BY <2>1, AppendIn
  <2>5. Types'
    <3>1. sent' \in [Callers -> Seq(Nat)]
      BY <2>1, <2>4
    <3> QED BY <1>0, <1>1, <2>3, <3>1 DEF IInv, Types
  <2>6. Counted'
    <3> SUFFICES ASSUME NEW d \in Callers
                 PROVE  CountedOf(d)'
      BY DEF Counted
    <3>0. CountedOf(d) /\ failures[d] \in Nat /\ Len(sent[d]) \in Nat
          /\ cfg.max_retries \in Nat
      BY DEF IInv, Counted, Types
    <3>1. CASE d # c
      <4>1. phase'[d] = phase[d] /\ sent'[d] = sent[d]
        BY <3>1, <1>0, <2>1
      <4> QED BY <3>0, <4>1, <1>1 DEF CountedOf
    <3>2. CASE d = c
      BY <3>0, <3>2, <1>0, <1>1, <2>4, SMTT(40) DEF CountedOf
    <3> QED BY <3>1, <3>2
  <2>7. Delivered'
    <3>1. ASSUME NEW i \in 1..Len(sent'[c])
          PROVE  sent'[c][i] \in 1..conn
      <4>1. \A i_1 \in 1..Len(sent[c]) : sent[c][i_1] \in 1..conn
        BY DEF IInv, Delivered
      <4>2. In(sent'[c][i], sent'[c])
        BY DEF In
      <4>3. In(sent'[c][i], sent[c]) \/ sent'[c][i] = conn
        BY <2>4, <4>2
      <4> QED BY <4>1, <4>3, SMTT(40) DEF In, IInv, Types
    <3>2. ASSUME NEW d \in Callers \ {c}
          PROVE  /\ \A i \in 1..Len(sent'[d]) : sent'[d][i] \in 1..conn
                 /\ In(conn, sent'[d]) => phase'[d] \in {"receiving", "done"}
      BY <2>1, <1>0, <1>4 DEF IInv, Delivered
    <3> QED BY <3>1, <3>2, <1>0, <1>1 DEF Delivered
  <2>8. InFlight'
    <3>1. ~In(m, tx)
      <4>1. SUFFICES ASSUME NEW j \in 1..Len(tx), tx[j] = m
                     PROVE  FALSE
        BY DEF In
      <4>2. In(tx[j].conn, sent[tx[j].req])
        BY DEF IInv, InFlight
      <4> QED BY <4>1, <4>2, <2>1, <2>2
    <3>2. Distinct(tx')
      BY <2>1, <3>1, AppendIn DEF IInv, InFlight
    <3>3. ~In(conn, executed[c])
      <4>1. \A i \in 1..Len(executed[c]) : In(executed[c][i], sent[c])
        BY DEF IInv, InFlight
      <4> QED BY <4>1, <2>2 DEF In
    <3>4. \A d \in Callers : \A k : In(k, sent[d]) => In(k, sent'[d])
      BY <2>1, <2>4
    <3>5. ASSUME NEW j \in 1..Len(tx')
          PROVE  /\ In(tx'[j].conn, sent'[tx'[j].req])
                 /\ ~In(tx'[j].conn, executed[tx'[j].req])
      <4>1. CASE j \in 1..Len(tx)
        <5>1. tx[j].req \in Callers /\ tx'[j] = tx[j]
          BY <4>1, <2>1, <2>3, RequestFields
        <5> QED BY <4>1, <5>1, <3>4 DEF IInv, InFlight
      <4>2. CASE j = Len(tx) + 1
        BY <4>2, <2>1, <2>3, <2>4, <3>3
      <4> QED BY <4>1, <4>2, <2>3
    <3> QED BY <1>1, <3>2, <3>4, <3>5 DEF IInv, InFlight
  <2>9. Awaited'
    <3>1. \A d \in Callers : phase[d] = "receiving" => phase'[d] = "receiving"
      BY <1>0
    <3>2. /\ \A i \in 1..Len(rx) : rx[i].req \in Callers
          /\ \A i \in 1..Len(tx) : tx[i].req \in Callers
      BY RequestFields DEF IInv, Types
    <3>3. m.req = c
      BY <2>1
    <3> QED BY <1>0, <1>1, <1>4, <2>3, <3>1, <3>2, <3>3 DEF IInv, Awaited
  <2> QED BY <1>2, <2>5, <2>6, <2>7, <2>8, <2>9 DEF IInv
<1> QED BY <1>3, <1>4

\* The mutex holder's call ends.
LEMMA EndsHolding ==
  ASSUME IInv, NEW c \in Callers, phase[c] \in Holding,
         phase' = [phase EXCEPT ![c] = "done"], lock' = {}
  PROVE  Mutex' /\ phase' \in [Callers -> Phases]
<1>1. lock = {c}
  BY DEF IInv, Types, Mutex
<1>2. lock' = lock \ {c}
  BY <1>1
<1> QED BY <1>2, Releases DEF Phases, Holding

\* An answer is taken.
LEMMA RecvOkStep ==
  ASSUME IInv, NEW c \in Callers, RecvOk(c)
  PROVE  IInv'
<1>0. /\ phase[c] = "receiving" /\ phase' = [phase EXCEPT ![c] = "done"]
      /\ phase'[c] = "done" /\ phase \in [Callers -> Phases] /\ lock' = {}
      /\ outcome' = [outcome EXCEPT ![c] = "ok"]
      /\ rx \in Seq(Request) /\ rx # <<>> /\ Head(rx) = rx[1] /\ 1 \in 1..Len(rx)
      /\ answer' = [answer EXCEPT ![c] = rx[1]]
  BY DEF RecvOk, Return, Goto, IInv, Types
<1>1. UNCHANGED <<cfg, drained, failures, rebuild_failures, conn, dead, tx, sent,
                  executed, abandoned>>
  BY DEF RecvOk
<1>2. PICK k \in 2..(Len(rx) + 1) : rx' = SubSeq(rx, k, Len(rx))
  BY DEF RecvOk, TakeFirst
<1>3. /\ Arrived' /\ rx' \in Seq(Request)
      /\ \A j \in 1..Len(rx') : j + k - 1 \in 1..Len(rx) /\ rx'[j] = rx[j + k - 1]
  <2>1. k \in 1..(Len(rx) + 1)
    BY <1>0
  <2> QED BY <1>1, <1>2, <2>1, Taken
<1>4. Mutex' /\ phase' \in [Callers -> Phases]
  BY <1>0, EndsHolding DEF Holding
<1>5. Types'
  <2>1. answer' \in [Callers -> Request \cup {NoAnswer}]
    BY <1>0, RequestFields DEF IInv, Types
  <2>2. outcome' \in [Callers -> Outcomes]
    BY <1>0 DEF IInv, Types, Outcomes
  <2> QED BY <1>0, <1>1, <1>3, <1>4, <2>1, <2>2 DEF IInv, Types
<1>6. Counted'
  BY <1>0, <1>1, MoveStep DEF Phases
<1>7. Delivered' /\ InFlight'
  BY <1>0, <1>1 DEF IInv, Delivered, InFlight
<1>8. \A d \in Callers : phase[d] = "receiving" => d = c
  BY <1>0 DEF IInv, Mutex, Holding
<1>9. OwnAnswerUnlessAbandoned'
  <2>1. conn \notin abandoned => rx[1].req = c
    BY <1>0, <1>8, RequestFields DEF IInv, Awaited
  <2>2. rx[1].conn = conn
    BY <1>0 DEF IInv, Arrived, InputOfThisConnection
  <2>3. answer'[c] = rx[1] /\ \A d \in Callers \ {c} :
          answer'[d] = answer[d] /\ outcome'[d] = outcome[d]
    BY <1>0 DEF IInv, Types
  <2> QED BY <1>1, <2>1, <2>2, <2>3 DEF IInv, OwnAnswerUnlessAbandoned
<1>10. Awaited'
  <2> SUFFICES ASSUME conn \notin abandoned
               PROVE  Awaited'
    BY <1>1 DEF Awaited
  <2>1. \A j \in 1..Len(rx) : rx[j].req = c /\ rx[j].conn = conn /\ rx[j] \in Request
    BY <1>0, <1>8, RequestFields DEF IInv, Awaited, Arrived, InputOfThisConnection
  <2>2. \A j \in 1..Len(rx) : rx[j] = rx[1]
    BY <1>0, <2>1 DEF Request
  <2>3. \A j \in 1..Len(rx) : j = 1
    BY <1>0, <2>2 DEF IInv, Arrived, Distinct
  <2>4. Len(rx') = 0
    <3>1. SUFFICES ASSUME Len(rx') # 0 PROVE FALSE
      OBVIOUS
    <3>2. 1 \in 1..Len(rx')
      BY <3>1, <1>3
    <3>3. 1 + k - 1 \in 1..Len(rx) /\ 1 + k - 1 # 1
      BY <3>2, <1>3
    <3> QED BY <3>3, <2>3
  <2>5. ASSUME NEW j \in 1..Len(tx), tx[j].conn = conn, dead = "no"
        PROVE  FALSE
    <3>1. tx[j].req = c
      BY <2>5, <1>0, <1>8, RequestFields DEF IInv, Types, Awaited
    <3>2. ~In(conn, executed[c])
      BY <2>5, <3>1 DEF IInv, InFlight
    <3>3. In(conn, executed[c])
      BY <1>0, <2>1 DEF IInv, Arrived
    <3> QED BY <3>2, <3>3
  <2> QED BY <1>1, <2>4, <2>5 DEF Awaited
<1> QED BY <1>3, <1>4, <1>5, <1>6, <1>7, <1>9, <1>10 DEF IInv

\* A call gives up on its response.
LEMMA FailsAbandoning ==
  ASSUME IInv, NEW c \in Callers, NEW e \in {"Protocol", "Timeout"}, Fail(c, e),
         phase[c] = "receiving", abandoned' = abandoned \cup {conn},
         UNCHANGED <<cfg, drained, rebuild_failures, conn, dead, tx, sent, executed,
                     answer>>,
         rx' \in Seq(Request), Arrived'
  PROVE  IInv'
<1>0. e \in Outcomes \ {"none", "ok"} /\ e \notin Retryable
  BY DEF Outcomes, Retryable
<1>1. /\ phase' = [phase EXCEPT ![c] = "done"]
      /\ outcome' = [outcome EXCEPT ![c] = outcome'[c]]
      /\ outcome'[c] = "ok" => outcome[c] = "ok"
  <2>1. phase[c] # "done"
    OBVIOUS
  <2> QED BY <1>0, <2>1, FailEffect
<1>2. Types' /\ Mutex' /\ Counted'
  <2>1. dead' \in {"no", "eof", "reset"} /\ abandoned' \subseteq 1..MaxConns
    BY DEF IInv, Types
  <2> QED BY <1>0, <2>1, FailStep
<1>3. Delivered' /\ InFlight' /\ Awaited'
  BY <1>1, Abandons
<1>4. OwnAnswerUnlessAbandoned'
  BY <1>1, OwnKept
<1> QED BY <1>2, <1>3, <1>4 DEF IInv

\* The response is not acceptable, or none came in time.
LEMMA RecvGivesUpStep ==
  ASSUME IInv, NEW c \in Callers, RecvBad(c) \/ RecvTimeout(c)
  PROVE  IInv'
<1>1. CASE RecvBad(c)
  <2>1. PICK k \in 2..(Len(rx) + 1) : rx' = SubSeq(rx, k, Len(rx))
    BY <1>1 DEF RecvBad, TakeFirst
  <2>2. k \in 1..(Len(rx) + 1)
    BY DEF IInv, Types
  <2>3. Arrived' /\ rx' \in Seq(Request)
    BY <1>1, <2>1, <2>2, Taken DEF RecvBad
  <2> QED BY <1>1, <2>3, FailsAbandoning DEF RecvBad
<1>2. CASE RecvTimeout(c)
  <2>1. Arrived' /\ rx' \in Seq(Request)
    BY <1>2 DEF RecvTimeout, connVars, IInv, Types, Arrived, InputOfThisConnection
  <2> QED BY <1>2, <2>1, FailsAbandoning DEF RecvTimeout, connVars
<1> QED BY <1>1, <1>2

\* The connection is dead and everything that had arrived was read.
LEMMA RecvDeadStep ==
  ASSUME IInv, NEW c \in Callers, RecvDead(c)
  PROVE  IInv'
<1>0. /\ phase[c] = "receiving" /\ rx = <<>> /\ dead # "no" /\ Fail(c, ReadError)
      /\ dead' \in {"eof", "reset"}
      /\ ReadError \in Outcomes \ {"none", "ok"}
  BY DEF RecvDead, EofTold, ReadError, Outcomes, IInv, Types
<1>1. UNCHANGED <<cfg, drained, rebuild_failures, conn, tx, rx, sent, executed, answer,
                  abandoned>>
  BY DEF RecvDead, histVars
<1>2. Types' /\ Mutex' /\ Counted'
  <2>1. rx' \in Seq(Request) /\ abandoned' \subseteq 1..MaxConns
    BY <1>1 DEF IInv, Types
  <2> QED BY <1>0, <1>1, <2>1, FailStep
<1>3. /\ outcome' = [outcome EXCEPT ![c] = outcome'[c]]
      /\ outcome'[c] = "ok" => outcome[c] = "ok"
  BY <1>0, <1>1, FailEffect
<1>4. Delivered' /\ InFlight' /\ Arrived' /\ Awaited'
  <2>1. Delivered'
    BY <1>0, <1>1 DEF IInv, Delivered
  <2>2. InFlight' /\ Arrived'
    BY <1>1 DEF IInv, InFlight, Arrived, InputOfThisConnection
  <2>3. Awaited'
    BY <1>0, <1>1 DEF Awaited
  <2> QED BY <2>1, <2>2, <2>3
<1>5. OwnAnswerUnlessAbandoned'
  BY <1>1, <1>3, OwnKept
<1> QED BY <1>2, <1>4, <1>5 DEF IInv

\* The future of a call is dropped.
LEMMA CancelStep ==
  ASSUME IInv, NEW c \in Callers, Cancel(c)
  PROVE  IInv'
<1>0. /\ phase[c] # "done" /\ phase' = [phase EXCEPT ![c] = "done"]
      /\ phase'[c] = "done" /\ phase \in [Callers -> Phases] /\ lock' = lock \ {c}
      /\ outcome' = [outcome EXCEPT ![c] = "cancelled"]
      /\ outcome'[c] = "cancelled"
  BY DEF Cancel, Return, Goto, IInv, Types
<1>1. UNCHANGED <<cfg, drained, failures, rebuild_failures, conn, dead, tx, rx, sent,
                  executed, answer>>
  BY DEF Cancel, connVars
<1>2. /\ phase[c] = "receiving" => conn \in abandoned'
      /\ phase[c] # "receiving" => abandoned' = abandoned
      /\ abandoned \subseteq abandoned' /\ abandoned' \subseteq 1..MaxConns
  BY DEF Cancel, IInv, Types
<1>3. Types'
  BY <1>0, <1>1, <1>2 DEF IInv, Types, Phases, Outcomes
<1>4. Mutex'
  BY <1>0 DEF IInv, Mutex, Holding
<1>5. Counted'
  BY <1>0, <1>1, MoveStep DEF Phases
<1>6. Arrived'
  BY <1>1 DEF IInv, Arrived, InputOfThisConnection
<1>7. Delivered' /\ InFlight' /\ Awaited'
  <2>1. CASE phase[c] = "receiving"
    BY <2>1, <1>0, <1>1, <1>2, <1>6, Abandons
  <2>2. CASE phase[c] # "receiving"
    BY <2>2, <1>0, <1>1, <1>2, Moves
  <2> QED BY <2>1, <2>2
<1>8. OwnAnswerUnlessAbandoned'
  BY <1>0, <1>1, <1>2, OwnKept
<1> QED BY <1>3, <1>4, <1>5, <1>6, <1>7, <1>8 DEF IInv

\* The server executes a request, and answers it if it can.
LEMMA ServeStep ==
  ASSUME IInv, NEW i \in 1..Len(tx), Serve(i)
  PROVE  IInv'
<1> DEFINE m == tx[i]
<1>0. UNCHANGED <<cfg, phase, lock, drained, failures, rebuild_failures, outcome,
                  conn, dead, sent, answer, abandoned>>
  BY DEF Serve, callVars
<1>1. /\ tx \in Seq(Request) /\ rx \in Seq(Request) /\ executed \in [Callers -> Seq(Nat)]
      /\ tx' \in Seq(Request) /\ Len(tx') = Len(tx) - 1
      /\ \A j \in 1..Len(tx') : tx'[j] = tx[IF j < i THEN j ELSE j + 1]
  <2>1. tx \in Seq(Request) /\ rx \in Seq(Request) /\ executed \in [Callers -> Seq(Nat)]
    BY DEF IInv, Types
  <2> QED BY <2>1, RemoveAt DEF Serve
<1>2. m \in Request /\ m.req \in Callers /\ m.conn \in Nat
  BY <1>1, RequestFields
<1>3. /\ executed' = [executed EXCEPT ![m.req] = Append(executed[m.req], m.conn)]
      /\ rx' = IF m.conn = conn /\ dead = "no" THEN Append(rx, m) ELSE rx
  BY DEF Serve
<1>4. In(m.conn, sent[m.req]) /\ ~In(m.conn, executed[m.req])
  BY DEF IInv, InFlight
<1>5. ASSUME NEW j \in 1..Len(tx')
      PROVE  \E h \in 1..Len(tx) \ {i} : tx'[j] = tx[h] /\ h = (IF j < i THEN j ELSE j + 1)
  <2>1. (IF j < i THEN j ELSE j + 1) \in 1..Len(tx) \ {i}
    <3>1. Len(tx) \in Nat /\ i \in Nat /\ j \in 1..(Len(tx) - 1)
      BY <1>1
    <3> QED BY <3>1
  <2> QED BY <1>1, <2>1
<1>6. \A j \in 1..Len(tx) : tx[j] = m => j = i
  BY DEF IInv, InFlight, Distinct
<1> HIDE DEF m
<1>7. /\ executed'[m.req] \in Seq(Nat)
      /\ \A k : In(k, executed'[m.req]) <=> In(k, executed[m.req]) \/ k = m.conn
      /\ Distinct(executed'[m.req])
      /\ \A d \in Callers : d # m.req => executed'[d] = executed[d]
  <2>1. executed'[m.req] = Append(executed[m.req], m.conn)
        /\ executed[m.req] \in Seq(Nat)
    BY <1>1, <1>2, <1>3
  <2>2. Distinct(executed[m.req])
    BY <1>2 DEF IInv, InFlight
  <2>3. \A d \in Callers : d # m.req => executed'[d] = executed[d]
    BY <1>1, <1>3
  <2> QED BY <2>1, <2>2, <2>3, <1>2, <1>4, AppendIn
<1>8. \A d \in Callers : \A k : In(k, executed[d]) => In(k, executed'[d])
  BY <1>7
<1>9. rx' \in Seq(Request)
  BY <1>1, <1>2, <1>3
<1>10. Types'
  <2>1. executed' \in [Callers -> Seq(Nat)]
    BY <1>1, <1>2, <1>3
  <2> QED BY <1>0, <1>1, <1>9, <2>1 DEF IInv, Types
<1>11. Mutex' /\ Delivered' /\ OwnAnswerUnlessAbandoned'
  BY <1>0 DEF IInv, Mutex, Delivered, OwnAnswerUnlessAbandoned
<1>12. Counted'
  BY <1>0 DEF IInv, Counted, CountedOf
<1>13. InFlight'
  <2>1. Distinct(tx')
    <3> SUFFICES ASSUME NEW j \in 1..Len(tx'), NEW h \in 1..Len(tx'), tx'[j] = tx'[h]
                 PROVE  j = h
      BY DEF Distinct
    <3>1. PICK x \in 1..Len(tx) : tx'[j] = tx[x] /\ x = (IF j < i THEN j ELSE j + 1)
      BY <1>5
    <3>2. PICK y \in 1..Len(tx) : tx'[h] = tx[y] /\ y = (IF h < i THEN h ELSE h + 1)
      BY <1>5
    <3>3. x = y
      BY <3>1, <3>2 DEF IInv, InFlight, Distinct
    <3>4. j \in Nat /\ h \in Nat /\ i \in Nat
      BY <1>1
    <3> QED BY <3>1, <3>2, <3>3, <3>4
  <2>2. ASSUME NEW j \in 1..Len(tx')
        PROVE  /\ In(tx'[j].conn, sent[tx'[j].req])
               /\ ~In(tx'[j].conn, executed'[tx'[j].req])
    <3>1. PICK x \in 1..Len(tx) \ {i} : tx'[j] = tx[x]
      BY <1>5
    <3>2. /\ In(tx[x].conn, sent[tx[x].req]) /\ ~In(tx[x].conn, executed[tx[x].req])
      BY DEF IInv, InFlight
    <3>3. tx[x] \in Request /\ tx[x].req \in Callers /\ tx[x] # m
      BY <1>1, <1>6, RequestFields
    <3>4. ~(tx[x].req = m.req /\ tx[x].conn = m.conn)
      BY <3>3, <1>2 DEF Request
    <3> QED BY <3>1, <3>2, <3>3, <3>4, <1>7
  <2>3. ASSUME NEW d \in Callers
        PROVE  /\ Distinct(executed'[d])
               /\ \A k \in 1..Len(executed'[d]) : In(executed'[d][k], sent[d])
    <3>1. /\ Distinct(executed[d])
          /\ \A k : In(k, executed[d]) => In(k, sent[d])
      <4>1. /\ Distinct(executed[d])
            /\ \A x \in 1..Len(executed[d]) : In(executed[d][x], sent[d])
        BY DEF IInv, InFlight
      <4>2. ASSUME NEW k, In(k, executed[d])
            PROVE  In(k, sent[d])
        <5>1. PICK x \in 1..Len(executed[d]) : executed[d][x] = k
          BY <4>2 DEF In
        <5> QED BY <4>1, <5>1
      <4> QED BY <4>1, <4>2
    <3>2. \A k : In(k, executed'[d]) => In(k, sent[d])
      BY <3>1, <1>4, <1>7
    <3>3. \A k \in 1..Len(executed'[d]) : In(executed'[d][k], executed'[d])
      BY DEF In
    <3> QED BY <3>1, <3>2, <3>3, <1>7
  <2> QED BY <1>0, <2>1, <2>2, <2>3 DEF InFlight
<1>14. Arrived'
  <2>0. /\ Distinct(rx) /\ \A j \in 1..Len(rx) : rx[j].conn = conn
        /\ \A j \in 1..Len(rx) : In(rx[j].conn, executed[rx[j].req])
        /\ \A j \in 1..Len(rx) : rx[j].req \in Callers
    BY <1>1, RequestFields DEF IInv, Arrived, InputOfThisConnection
  <2>1. CASE m.conn = conn /\ dead = "no"
    <3>1. /\ rx' = Append(rx, m) /\ Len(rx') = Len(rx) + 1
          /\ \A j \in 1..Len(rx) : rx'[j] = rx[j]
          /\ rx'[Len(rx) + 1] = m
          /\ 1..Len(rx') = 1..Len(rx) \cup {Len(rx) + 1}
      BY <1>1, <1>2, <1>3, <2>1
    <3>2. ~In(m, rx)
      BY <2>0, <1>4 DEF In
    <3>3. Distinct(rx')
      BY <1>1, <1>2, <2>0, <3>1, <3>2, AppendIn
    <3>4. \A j \in 1..Len(rx') : rx'[j].conn = conn
      BY <2>0, <2>1, <3>1
    <3>5. \A j \in 1..Len(rx') : In(rx'[j].conn, executed'[rx'[j].req])
      BY <2>0, <3>1, <1>7, <1>8
    <3> QED BY <1>0, <3>3, <3>4, <3>5 DEF Arrived, InputOfThisConnection
  <2>2. CASE ~(m.conn = conn /\ dead = "no")
    <3>1. rx' = rx
      BY <2>2, <1>3
    <3> QED BY <1>0, <1>8, <2>0, <3>1 DEF Arrived, InputOfThisConnection
  <2> QED BY <2>1, <2>2
<1>15. Awaited'
  <2> SUFFICES ASSUME conn \notin abandoned
               PROVE  Awaited'
    BY <1>0 DEF Awaited
  <2>1. /\ \A j \in 1..Len(rx) : phase[rx[j].req] = "receiving"
        /\ dead = "no" =>
             \A j \in 1..Len(tx) : tx[j].conn = conn => phase[tx[j].req] = "receiving"
    BY DEF IInv, Awaited
  <2>2. dead = "no" =>
          \A j \in 1..Len(tx') : tx'[j].conn = conn => phase[tx'[j].req] = "receiving"
    BY <2>1, <1>5
  <2>3. \A j \in 1..Len(rx') : phase[rx'[j].req] = "receiving"
    <3>1. CASE m.conn = conn /\ dead = "no"
      <4>1. /\ \A j \in 1..Len(rx) : rx'[j] = rx[j]
            /\ rx'[Len(rx) + 1] = m
            /\ 1..Len(rx') = 1..Len(rx) \cup {Len(rx) + 1}
        BY <1>1, <1>2, <1>3, <3>1, SMTT(40)
      <4>2. phase[m.req] = "receiving"
        BY <2>1, <3>1 DEF m
      <4> QED BY <2>1, <4>1, <4>2
    <3>2. CASE ~(m.conn = conn /\ dead = "no")
      BY <3>2, <2>1, <1>3
    <3> QED BY <3>1, <3>2
  <2> QED BY <1>0, <2>2, <2>3 DEF Awaited
<1> QED BY <1>10, <1>11, <1>12, <1>13, <1>14, <1>15 DEF IInv

\* The connection dies.
LEMMA ConnectionDiesStep ==
  ASSUME IInv, NEW how \in {"eof", "reset"}, ConnectionDies(how)
  PROVE  IInv'
<1>1. UNCHANGED <<cfg, phase, lock, drained, failures, rebuild_failures, outcome,
                  conn, tx, rx, sent, executed, answer, abandoned>>
      /\ dead' = how
  BY DEF ConnectionDies, callVars, histVars
<1>2. Types' /\ Mutex'
  BY <1>1 DEF IInv, Types, Mutex
<1>3. Counted'
  BY <1>1 DEF IInv, Counted, CountedOf
<1>4. Delivered' /\ Awaited'
  BY <1>1 DEF IInv, Delivered, Awaited
<1>5. InFlight' /\ Arrived' /\ OwnAnswerUnlessAbandoned'
  BY <1>1 DEF IInv, InFlight, Arrived, InputOfThisConnection, OwnAnswerUnlessAbandoned
<1> QED BY <1>2, <1>3, <1>4, <1>5 DEF IInv

----------------------------------------------------------------------------
(* Theorems *)

\* A client that has just connected.
LEMMA InitIInv == Init => IInv
<1> SUFFICES ASSUME Init
             PROVE  IInv
  OBVIOUS
<1>1. Types
  <2>1. cfg \in [reconnect : BOOLEAN, max_retries : Nat, tap : BOOLEAN]
    <3>1. 0..MaxRetries \subseteq Nat
      BY ClientConstants
    <3> QED BY <3>1 DEF Init
  <2>2. conn \in 1..MaxConns /\ tx \in Seq(Request) /\ rx \in Seq(Request)
    BY ClientConstants DEF Init
  <2>3. sent \in [Callers -> Seq(Nat)] /\ executed \in [Callers -> Seq(Nat)]
    BY DEF Init
  <2>4. failures \in [Callers -> Nat] /\ rebuild_failures \in [Callers -> Nat]
    BY DEF Init
  <2>5. phase \in [Callers -> Phases] /\ outcome \in [Callers -> Outcomes]
        /\ lock \subseteq Callers /\ drained \in BOOLEAN /\ dead \in {"no", "eof", "reset"}
        /\ abandoned \subseteq 1..MaxConns
        /\ answer \in [Callers -> Request \cup {NoAnswer}]
    BY DEF Init, Phases, Outcomes
  <2> QED BY <2>1, <2>2, <2>3, <2>4, <2>5 DEF Types
<1>2. Mutex
  BY DEF Init, Mutex, Holding
<1>3. Counted
  BY DEF Init, Counted, CountedOf
<1>4. Delivered /\ InFlight /\ Arrived /\ Awaited
  BY DEF Init, Delivered, InFlight, Arrived, Awaited, InputOfThisConnection, In, Distinct
<1>5. OwnAnswerUnlessAbandoned
  BY DEF Init, OwnAnswerUnlessAbandoned
<1> QED BY <1>1, <1>2, <1>3, <1>4, <1>5 DEF IInv

\* Every step keeps the invariant.
LEMMA NextIInv == IInv /\ [Next]_vars => IInv'
<1> SUFFICES ASSUME IInv, [Next]_vars
             PROVE  IInv'
  OBVIOUS
<1>1. ASSUME NEW c \in Callers, Step(c)
      PROVE  IInv'
  BY <1>1, LockStep, DrainReadStep, DrainQuietStep, DrainFailsStep, SendStep,
     SendFailsStep, RecvOkStep, RecvGivesUpStep, RecvDeadStep, SleepStep,
     RebuildLockStep, RebuildOkStep, RebuildFailsStep DEF Step
<1>2. ASSUME NEW c \in Callers, Cancel(c)
      PROVE  IInv'
  BY <1>2, CancelStep
<1>3. ASSUME NEW i \in 1..Len(tx), Serve(i)
      PROVE  IInv'
  BY <1>3, ServeStep
<1>4. ASSUME NEW how \in {"eof", "reset"}, ConnectionDies(how)
      PROVE  IInv'
  BY <1>4, ConnectionDiesStep
<1>5. CASE UNCHANGED vars
  <2>1. UNCHANGED <<cfg, phase, lock, drained, failures, rebuild_failures, outcome,
                    conn, dead, tx, rx, sent, executed, answer, abandoned>>
    BY <1>5 DEF vars, callVars, connVars, histVars
  <2>2. Types' /\ Mutex' /\ Delivered' /\ InFlight' /\ OwnAnswerUnlessAbandoned'
    BY <2>1 DEF IInv, Types, Mutex, Delivered, InFlight, OwnAnswerUnlessAbandoned
  <2>3. Counted' /\ Arrived' /\ Awaited'
    BY <2>1 DEF IInv, Counted, CountedOf, Arrived, InputOfThisConnection, Awaited
  <2> QED BY <2>2, <2>3 DEF IInv
<1> QED BY <1>1, <1>2, <1>3, <1>4, <1>5 DEF Next

\* The invariant holds in every behaviour.
LEMMA Invariance == Spec => []IInv
BY InitIInv, NextIInv, PTL DEF Spec

\* The types hold and the mutex has at most one holder.
THEOREM TypeCorrect == Spec => []TypeOK
<1>1. ASSUME IInv PROVE TypeOK
  <2>1. lock = {} \/ \E c \in lock : lock = {c}
    BY <1>1 DEF IInv, Mutex
  <2>2. Cardinality(lock) <= 1
    <3>1. CASE lock = {}
      <4>1. Cardinality(lock) = 0
        BY <3>1, FS_EmptySet
      <4> QED BY <4>1
    <3>2. CASE \E c \in lock : lock = {c}
      <4>1. Cardinality(lock) = 1
        BY <3>2, FS_Singleton
      <4> QED BY <4>1
    <3> QED BY <2>1, <3>1, <3>2
  <2>3. rebuild_failures \in [Callers -> 0..3]
    <3>1. rebuild_failures \in [Callers -> Nat]
      BY <1>1 DEF IInv, Types
    <3>2. \A c \in Callers : rebuild_failures[c] <= 3
      BY <1>1 DEF IInv, Counted, CountedOf
    <3>3. \A c \in Callers : rebuild_failures[c] \in 0..3
      BY <3>1, <3>2
    <3> QED BY <3>1, <3>3
  <2> QED BY <1>1, <2>2, <2>3 DEF IInv, Types, TypeOK
<1> QED BY <1>1, Invariance, PTL

\* run_with_reconnect: a request is delivered at most max_retries + 1 times,
\* and once if no reconnect is configured.
THEOREM RetriesBounded == Spec => []AttemptsBounded
<1>1. ASSUME IInv PROVE AttemptsBounded
  <2> SUFFICES ASSUME NEW c \in Callers
               PROVE  /\ ~cfg.reconnect => Len(sent[c]) <= 1
                      /\ cfg.max_retries > 0 => Len(sent[c]) <= cfg.max_retries + 1
    BY DEF AttemptsBounded
  <2>1. CountedOf(c) /\ Len(sent[c]) \in Nat
    BY <1>1 DEF IInv, Counted, Types
  <2> QED BY <2>1 DEF CountedOf
<1> QED BY <1>1, Invariance, PTL

\* No request is executed twice from one connection, whatever fails, however
\* often the loop goes on with the old stream, and however late the server is.
THEOREM ExecutedOncePerConnection == Spec => []OncePerConnection
<1>1. ASSUME IInv PROVE OncePerConnection
  BY <1>1 DEF IInv, InFlight, Distinct, OncePerConnection
<1> QED BY <1>1, Invariance, PTL

\* Nothing that was answered before a reconnect can be read after it.
THEOREM NoOldInput == Spec => []InputOfThisConnection
<1>1. ASSUME IInv PROVE InputOfThisConnection
  BY <1>1 DEF IInv, Arrived
<1> QED BY <1>1, Invariance, PTL

\* On a connection nobody gave up on every call gets its own answer.
THEOREM OwnAnswers == Spec => []OwnAnswerUnlessAbandoned
<1>1. ASSUME IInv PROVE OwnAnswerUnlessAbandoned
  BY <1>1 DEF IInv, Arrived
<1> QED BY <1>1, Invariance, PTL

\* The rebuild closure never replaces a stream another call is using.
THEOREM StreamReplacedAlone == Spec => RebuildAlone
<1>1. ASSUME IInv, [Next]_vars
      PROVE  [conn' # conn => InExchange = {}]_vars
  <2> SUFFICES ASSUME conn' # conn
               PROVE  InExchange = {}
    OBVIOUS
  <2>1. PICK c \in Callers : RebuildOk(c)
    BY <1>1 DEF Next, Step, vars, connVars, histVars, Lock, DrainRead, DrainQuiet,
       DrainBusy, DrainDead, Send, SendFails, RecvOk, RecvBad, RecvTimeout, RecvDead,
       Sleep, RebuildLock, RebuildFails, Cancel, Serve, ConnectionDies
  <2>2. phase[c] = "rebuilding" /\ c \in lock
    BY <1>1, <2>1 DEF RebuildOk, IInv, Mutex, Holding
  <2> QED BY <1>1, <2>2 DEF InExchange, IInv, Mutex, Holding
<1> QED BY <1>1, Invariance, PTL DEF Spec, RebuildAlone
====
