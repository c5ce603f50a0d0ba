--------------------------- MODULE MCAgentSession ---------------------------
(* Small instances of AgentSession for TLC. *)
EXTENDS AgentSession

CONSTANTS m1, m2, m3, c1

NoneLoaded == <<>>
OneLoaded  == <<m3>>
=============================================================================
