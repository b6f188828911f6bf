---- MODULE MCClientStack ----
(***************************************************************************)
(* Two ends on one bus at 19200 baud, 2005 microseconds apart.  The clock   *)
(* moves so that an instant can fall just before, on and after the end of   *)
(* the spacing, and starts at 0, the value reserved for no activity.        *)
(***************************************************************************)
EXTENDS ClientStack, TLC

MCSpacing == rtu_35t(19200)
MCInstants == 
  {0, QUICK_POLL, MCSpacing, MCSpacing + 1, MCSpacing + DRAIN_QUIET}
Ends2 == Permutations(Ends)
====
