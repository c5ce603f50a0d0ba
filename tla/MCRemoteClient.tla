--------------------------- MODULE MCRemoteClient ---------------------------
(* Instances of RemoteClient for TLC. *)
EXTENDS RemoteClient

CONSTANTS w1, w2
=============================================================================
