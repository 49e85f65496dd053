-------------------------- MODULE MCRegistryShared --------------------------
(* The bot and the moe command line over one file, two bins, adds whose
   amounts are not looked at. *)
EXTENDS LPRegistry

MCBins   == 1..2
MCMinted == {[b \in MCBins |-> 0]}
=============================================================================
