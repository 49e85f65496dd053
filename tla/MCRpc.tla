-------------------------------- MODULE MCRpc --------------------------------
(* Two endpoints of the list, and another one that is configured. *)
EXTENDS RpcRotation

CONSTANTS a, b

MCListed == <<a, b>>
=============================================================================
