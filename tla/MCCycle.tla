------------------------------- MODULE MCCycle -------------------------------
(* One unit of time is the cooldown, 900 seconds: the hold is two of them by
   day and four by night.  Up to two entries may lie on each other. *)
EXTENDS FarmCycle
=============================================================================
