------------------------------- MODULE MCEntry -------------------------------
(* Three endpoints, two cycles that try to enter. *)
EXTENDS EntryRetry
=============================================================================
