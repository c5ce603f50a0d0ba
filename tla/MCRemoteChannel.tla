--------------------------- MODULE MCRemoteChannel ---------------------------
(* Instances of RemoteChannel for TLC. *)
EXTENDS RemoteChannel

CONSTANTS t1, t2

NoThreads == {}
==============================================================================
