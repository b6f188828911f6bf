---- MODULE MCExchange ----
(***************************************************************************)
(* Every function code, with quantities and lengths on both sides of each   *)
(* limit, and responses that a hook makes up.                               *)
(***************************************************************************)
EXTENDS Exchange

Ask(fc, args) == [fc |-> fc, args |-> args, values |-> <<>>]
Put(fc, args, values) == [fc |-> fc, args |-> args, values |-> values]
Coils(n) == [i \in 1..n |-> ((i * i) % 3) % 2]
Regs(n) == [i \in 1..n |-> (i * 771) % 65536]

MCRequests ==
  {Ask(0, <<>>), Ask(5, <<258, 1>>), Ask(5, <<3, 0>>), Ask(6, <<513, 65281>>),
   Ask(8, <<0, 4660>>), Ask(22, <<4, 242, 37>>)}
  \cup {Ask(1, <<a, q>>) : a \in {0, 65535}, q \in {0, 1, 2}}
  \cup {Ask(1, <<5, q>>) : q \in {8, 9, 2000, 2001}}
  \cup {Ask(2, <<7, 11>>), Ask(4, <<65534, 2>>), Ask(4, <<65534, 3>>)}
  \cup {Ask(3, <<256, q>>) : q \in {0, 1, 125, 126}}
  \cup {Put(15, <<19>>, Coils(n)) : n \in {0, 1, 8, 10, 1976, 1977, 2000, 2041}}
  \cup {Put(16, <<1>>, Regs(n)) : n \in {0, 2, 123, 124, 128}}
  \cup {Put(23, <<3, 2, 14>>, Regs(n)) : n \in {0, 1, 121, 122}}
  \cup {Put(23, <<3, 126, 14>>, Regs(1)), Put(23, <<3, 1, 65535>>, Regs(2))}

Rsp(fc, args, values) == [fc |-> fc, args |-> args, values |-> values, ex |-> {}]
Custom(n) == [custom |-> TRUE, code |-> n]
Named(n) == [custom |-> FALSE, code |-> n]

MCErrors == {Named(2), Custom(200)}

MCForeign ==
  {Rsp(3, <<>>, <<17, 34>>), Rsp(3, <<>>, Regs(127)), Rsp(1, <<>>, <<1, 0, 1>>),
   Rsp(1, <<>>, Coils(2041)), Rsp(6, <<513, 1>>, <<>>), Rsp(16, <<1, 3>>, <<>>),
   [fc |-> 131, args |-> <<>>, values |-> <<>>, ex |-> {Custom(1)}]}
====
