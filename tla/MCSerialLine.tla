---- MODULE MCSerialLine ----
(***************************************************************************)
(* Two calls with at most one fault: a read, a read of nothing that the     *)
(* server does not answer, Disconnect, two writes whose answers are equal,  *)
(* and one to another place.                                                *)
(***************************************************************************)
EXTENDS SerialLine

Ask(fc, args) == [fc |-> fc, args |-> args, values |-> <<>>]
Put(fc, args, values) == [fc |-> fc, args |-> args, values |-> values]

MCRequests ==
  {Ask(3, <<5, 1>>), Ask(3, <<5, 0>>), Ask(0, <<>>),
   Put(16, <<2>>, <<7>>), Put(16, <<2>>, <<8>>), Put(16, <<3>>, <<7>>)}

\* The byte after which a checksum still matches, and one after which it does
\* not and that begins a line in ASCII.
MCStray == {0, COLON}
====
