---- MODULE MCTcpServer ----
(***************************************************************************)
(* A connection with three requests from a set that holds a read, a write,  *)
(* a broadcast, a quantity of zero, an unknown function code, and a write   *)
(* whose unit id equals its function code; and what the comments of tcp.rs  *)
(* say where the code differs.                                              *)
(***************************************************************************)
EXTENDS TcpServer

Read3   == [unit |-> 1, pdu |-> <<3, 0, 2, 0, 1>>]
Write6  == [unit |-> 1, pdu |-> <<6, 0, 2, 9, 7>>]
Bcast   == [unit |-> 0, pdu |-> <<6, 0, 2, 9, 7>>]
NoCoils == [unit |-> 1, pdu |-> <<1, 0, 2, 0, 0>>]
Unknown == [unit |-> 1, pdu |-> <<65, 0>>]
Write16 == [unit |-> 16, pdu |-> <<16, 1, 0, 0, 1, 2, 9, 7>>]

MCRequests == {Read3, Write6, Bcast, NoCoils, Unknown, Write16}

Standard == [tid |-> "Fixed", unit_id_in_body |-> FALSE, length_mode |-> "Standard"]
Gateway  == [tid |-> "Auto", unit_id_in_body |-> TRUE, length_mode |-> "Standard"]
PduOnly  == [tid |-> "Auto", unit_id_in_body |-> FALSE, length_mode |-> "PduOnly"]

MCConfigs == {Standard, Gateway, PduOnly}

\* handle_tcp_connection: bytes are discarded "so the next valid frame isn't
\* contaminated": a request sent when the server is at rest is executed.
NotContaminated ==
  LET k == Len(asked)
  IN AtRest /\ k > 0 /\ config = Standard =>
       (asked[k].rested /\ Acts(asked[k]) /\ ~Ambiguous(asked[k]) =>
          Len(executed) > 0 /\ executed[Len(executed)].pdu = asked[k].pdu)

\* try_extract_tcp_pdu: "The only time byte 0 == unit_id AND byte 1 is a valid
\* FC is when a unit_id_in_body client sent the frame": the request of a client
\* that does not do so is executed as it was sent.
ExecutedAsSent ==
  config = Standard /\ Len(executed) = 1 /\ Len(asked) = 1 => executed[1].pdu = asked[1].pdu
====
