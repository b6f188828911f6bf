---- MODULE MCSniffIo ----
(***************************************************************************)
(* SniffIo on a wire of a few bytes: chunks larger than the capacity,       *)
(* chunks that evict one or several others, reads smaller than a chunk.     *)
(* Here are the liveness properties, which TLC checks and no theorem is     *)
(* about.                                                                   *)
(***************************************************************************)
EXTENDS SniffIo

\* A parked read for which a chunk is queued is answered, or the capacity is so
\* small that the chunk is evicted first.
ParkedReadSeesData ==
  (cpc = "parked" /\ data.queue # <<>>) ~> (cpc = "idle" \/ data.queue = <<>>)

\* Captured chunks reach the WireTap while the SniffIo lives.
TapDrains == (tap.queue # <<>>) ~> (tap.queue = <<>> \/ dpc # "live")

\* After Drop both background tasks end, wherever they were.
TasksEnd == (dpc # "live") ~> (rpc = "finished" /\ fpc = "done")
====
