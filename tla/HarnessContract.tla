-------------------------- MODULE HarnessContract --------------------------
(***************************************************************************)
(* What a harness promises the chat that runs it: the trait Harness of     *)
(* crates/agent_harness/src/agent_harness.rs, RunControls and the event    *)
(* stream, without processes, pipes or timeouts.  Every steer the harness  *)
(* takes is reported as read in the order in which it was sent; Done with  *)
(* Interrupted answers the interrupt token, comes once and is the last     *)
(* event; and the stream does not end before a Done was reported.          *)
(*                                                                         *)
(* Module AgentSession assumes these steps of its run (HarnessTakeSteer,   *)
(* HarnessTurnEnd, HarnessInterrupt, HarnessCrash, HarnessClose); module   *)
(* ClaudeRun is shown to make no others.                                   *)
(***************************************************************************)
EXTENDS Integers, Sequences

CONSTANT Steers   \* what may tell one steer from another

VARIABLES
    phase,    \* "live", "closing" after the last event, "closed", "left" by the chat
    stopping, \* the interrupt token is cancelled
    waiting,  \* steers sent and not reported as read
    anyDone,  \* a turn end was reported
    out       \* events the chat has not received: [kind, steer]

vars == <<phase, stopping, waiting, anyDone, out>>

Init ==
    /\ phase = "live" /\ stopping = FALSE /\ anyDone = FALSE
    /\ waiting = <<>> /\ out = <<>>

\* The events that leave the turn running: text, tools, notices, errors.
Emit ==
    /\ phase = "live"
    /\ \E ev \in [kind : {"work", "error"}, steer : Steers] : out' = Append(out, ev)
    /\ UNCHANGED <<phase, stopping, waiting, anyDone>>

TakeSteer ==
    /\ phase = "live" /\ waiting # <<>>
    /\ waiting' = Tail(waiting)
    /\ out' = Append(out, [kind |-> "steered", steer |-> Head(waiting)])
    /\ UNCHANGED <<phase, stopping, anyDone>>

TurnEnd ==
    /\ phase = "live"
    /\ \E ev \in [kind : {"completed", "errored"}, steer : Steers] : out' = Append(out, ev)
    /\ anyDone' = TRUE
    /\ UNCHANGED <<phase, stopping, waiting>>

Interrupted ==
    /\ phase = "live" /\ stopping
    /\ phase' = "closing"
    /\ \E n \in Steers : out' = Append(out, [kind |-> "interrupted", steer |-> n])
    /\ anyDone' = TRUE
    /\ UNCHANGED <<stopping, waiting>>

\* The harness has nothing more to say.
Leave ==
    /\ phase = "live" /\ anyDone
    /\ phase' = "closing"
    /\ UNCHANGED <<stopping, waiting, anyDone, out>>

Close ==
    /\ phase = "closing"
    /\ phase' = "closed"
    /\ waiting' = <<>>
    /\ UNCHANGED <<stopping, anyDone, out>>

\* The chat: steers, cancels, receives, or lets go of the run.
Push ==
    /\ phase \in {"live", "closing"}
    /\ \E n \in Steers : waiting' = Append(waiting, n)
    /\ UNCHANGED <<phase, stopping, anyDone, out>>

Stop ==
    /\ stopping' = TRUE
    /\ UNCHANGED <<phase, waiting, anyDone, out>>

Receive ==
    /\ out # <<>>
    /\ out' = Tail(out)
    /\ UNCHANGED <<phase, stopping, waiting, anyDone>>

DropRun ==
    /\ phase' = "left" /\ waiting' = <<>> /\ out' = <<>>
    /\ UNCHANGED <<stopping, anyDone>>

Next ==
    \/ Emit \/ TakeSteer \/ TurnEnd \/ Interrupted \/ Leave \/ Close
    \/ Push \/ Stop \/ Receive \/ DropRun

Spec == Init /\ [][Next]_vars
=============================================================================
