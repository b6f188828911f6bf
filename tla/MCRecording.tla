---- MODULE MCRecording ----
(***************************************************************************)
(* Two tasks that call a tap four times between them, a ring of one or two  *)
(* records or without a limit, a queue and a BufWriter of one line.         *)
(***************************************************************************)
EXTENDS Recording
====
