---------------------------- MODULE MCScheduler -----------------------------
(***************************************************************************)
(* Small instances of Scheduler for TLC.  The code's 2^31 - 1 ms and 60 s   *)
(* become 2 units each, so that a delay of 3 needs a hop and a second retry *)
(* meets the cap.                                                          *)
(***************************************************************************)
EXTENDS Scheduler
=============================================================================
