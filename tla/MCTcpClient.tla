---- MODULE MCTcpClient ----
(***************************************************************************)
(* Two callers on one TcpClient, and what a comment of tcp.rs says where    *)
(* the code differs.                                                        *)
(***************************************************************************)
EXTENDS TcpClient

\* tcp.rs on the drain: "so the next read returns the correct response".
AnswerMatches ==
  \A c \in Callers : outcome[c] = "ok" => answer[c].req = c
====
