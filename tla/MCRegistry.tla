----------------------------- MODULE MCRegistry -----------------------------
(* The bot alone, two bins, an add that puts one LB token in the upper one,
   or of which nothing could be read. *)
EXTENDS RegistryBook

MCBins   == 1..2
MCMinted == {[b \in MCBins |-> IF b = 2 THEN n ELSE 0] : n \in {0, 1}}
=============================================================================
