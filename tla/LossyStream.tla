---- MODULE LossyStream ----
(***************************************************************************)
(* What a SniffIo promises its owner: the bytes of the wire in their order, *)
(* none twice, and any byte that is skipped has been counted as lost before *)
(* a later one is delivered.  The end of the stream is reported only when   *)
(* every byte has been delivered or counted as lost.  A reader that died is *)
(* reported as "broken", and of that report nothing is promised.            *)
(***************************************************************************)
EXTENDS Integers

VARIABLES
  produced,   \* bytes the wire has produced
  last,       \* offset of the last byte delivered
  taken,      \* bytes delivered
  lost,       \* bytes counted as lost
  outcome     \* what the last read returned

lsVars == <<produced, last, taken, lost, outcome>>

End == {"eof", "reset"}

LSInit == produced = 0 /\ last = 0 /\ taken = 0 /\ lost = 0 /\ outcome = "none"

Produce ==
  /\ outcome \notin End
  /\ produced' > produced
  /\ lost' >= lost
  /\ taken + lost' <= produced'
  /\ UNCHANGED <<last, taken, outcome>>

Lose ==
  /\ lost' > lost
  /\ taken + lost' <= produced
  /\ UNCHANGED <<produced, last, taken, outcome>>

\* Some bytes after the last one; the gap before them is covered by `lost'.
Receive ==
  /\ outcome \notin End
  /\ taken' > taken
  /\ last' - last >= taken' - taken
  /\ last' <= produced
  /\ last' - taken' <= lost
  /\ outcome' = "data"
  /\ UNCHANGED <<produced, lost>>

ReportEnd ==
  /\ taken + lost = produced
  /\ outcome' \in End
  /\ UNCHANGED <<produced, last, taken, lost>>

ReportBroken ==
  /\ outcome' = "broken"
  /\ UNCHANGED <<produced, last, taken, lost>>

LSNext == Produce \/ Lose \/ Receive \/ ReportEnd \/ ReportBroken

LSSpec == LSInit /\ [][LSNext]_lsVars
====
