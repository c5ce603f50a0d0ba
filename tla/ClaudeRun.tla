----------------------------- MODULE ClaudeRun -----------------------------
(***************************************************************************)
(* One run of the Claude harness: the task run_session of                  *)
(* crates/agent_harness/src/claude.rs between the chat above it and the    *)
(* CLI process below it, with the tasks that answer permission prompts.    *)
(*                                                                         *)
(* run_session is one select! loop.  Its branches become actions; a branch *)
(* that sends events awaits room in the event channel and selects nothing  *)
(* meanwhile, so what it still has to send is the variable `sending`, and  *)
(* a branch is taken only when that is empty.  What is hard here is the    *)
(* turn end.  A steer with priority `now` makes the CLI end the turn it    *)
(* interrupts with a result frame before it replays the steer, so a Done   *)
(* is held back while steers are unconfirmed; but a steer may also be      *)
(* absorbed without any replay, so a held Done is released by a timeout.   *)
(*                                                                         *)
(* Steers are numbered in the order in which the chat sends them.  Which   *)
(* priority a steer is written with is left out: the CLI modelled here may *)
(* end its turn before it takes a steer whatever the priority says.        *)
(***************************************************************************)
EXTENDS Integers, Sequences, FiniteSets, SequencesExt

CONSTANTS
    Requests,     \* the can_use_tool requests the CLI may make
    Permissions,  \* those that ask for leave to use a tool (not AskUserQuestion)
    NoRequest,    \* the CLI waits for no answer
    SkipPrompts,  \* the values permission.skips_prompts() takes
    MaxSteers,    \* bound on the steers the chat sends
    SteerCap,     \* capacity of the steering channel (32 in the code)
    EvCap,        \* capacity of the event channel (256 in the code)
    PipeCap,      \* bound on the lines waiting in the CLI's stdout
    Faults        \* what may go wrong, of the set below

ASSUME RequestsAssumption == Permissions \subseteq Requests /\ NoRequest \notin Requests
ASSUME ModesAssumption    == SkipPrompts \subseteq BOOLEAN
ASSUME FaultsAssumption   == Faults \subseteq {"absorb", "silence", "crash", "ioError", "leave"}
ASSUME BoundsAssumption   == {MaxSteers, SteerCap, EvCap, PipeCap} \subseteq Nat

VARIABLES
    run,       \* the locals of run_session
    sending,   \* the events the current branch still awaits to send
    out,       \* the event channel
    steering,  \* the steering channel
    cancelled, \* the interrupt token
    stdin,     \* lines written for the CLI, in the stdin writer's queue or the pipe
    stdout,    \* lines the CLI wrote
    asks,      \* what became of each request in the task that handles it
    cli,       \* the CLI process
    chat       \* what the chat above knows and did

vars == <<run, sending, out, steering, cancelled, stdin, stdout, asks, cli, chat>>

Ends == {"completed", "errored"}      \* what a result frame says of its turn
Dones == Ends \cup {"interrupted"}    \* the statuses of AgentEvent::Done

\* An event, or a line of stdout; `steer` is the last steer the agent had
\* replayed when it wrote the line (history), or the one an event confirms.
Event(kind, steer) == [kind |-> kind, steer |-> steer]

StdinLine(kind, what, allow) == [kind |-> kind, what |-> what, allow |-> allow]

Steered(s) == [i \in DOMAIN s |-> Event("steered", s[i])]

Init ==
    /\ run \in [phase : {"loop"}, pending : {<<>>}, held : {<<>>}, steeringOpen : {TRUE},
                interrupted : {FALSE}, anyDone : {FALSE}, ended : {FALSE}, skip : SkipPrompts]
    /\ sending = <<>> /\ out = <<>> /\ steering = <<>> /\ cancelled = FALSE
    /\ stdin = <<>> /\ stdout = <<>>
    /\ asks = [r \in Requests |-> "unasked"]
    /\ cli = [alive |-> TRUE, turn |-> TRUE, reading |-> TRUE, queue |-> <<>>,
              replayed |-> 0, waits |-> NoRequest, used |-> {}]
    /\ chat = [gone |-> FALSE, working |-> TRUE, pushed |-> 0, steered |-> 0,
               last |-> "none", stops |-> 0, allowed |-> {}]

-----------------------------------------------------------------------------
(***************************************************************************)
(* The loop of run_session.                                                *)
(***************************************************************************)
Selecting == run.phase = "loop" /\ sending = <<>>

\* Written while the stdin writer still runs; afterwards the line is dropped.
Write(line) == stdin' = IF run.phase = "ended" THEN stdin ELSE Append(stdin, line)

\* Mutant: a turn end held back when the loop is left is forgotten.
ExitEventsUnheld(r) ==
    IF r.interrupted /\ ~r.ended THEN <<Event("interrupted", 0)>>
    ELSE IF ~r.interrupted /\ ~r.anyDone /\ r.held = <<>> THEN <<Event("errored", 0)>>
    ELSE <<>>

\* Mutant: an interrupted turn is reported again when the loop is left.
ExitEventsTwice(r) ==
    r.held \o
    IF r.interrupted THEN <<Event("interrupted", 0)>>
    ELSE IF ~r.anyDone /\ r.held = <<>> THEN <<Event("errored", 0)>>
    ELSE <<>>

\* What is sent after the loop: the held turn end, then the end of the run if
\* no Done said so yet.
ExitEvents(r) ==
    r.held \o
    IF r.interrupted /\ ~r.ended THEN <<Event("interrupted", 0)>>
    ELSE IF ~r.interrupted /\ ~r.anyDone /\ r.held = <<>> THEN <<Event("errored", 0)>>
    ELSE <<>>

\* break 'main, after the events in `first`.
LeaveLoop(first) ==
    /\ run' = [run EXCEPT !.phase = "exit", !.held = <<>>]
    /\ sending' = first \o ExitEvents(run)

\* Text, tools, notices and the like: whatever is not a turn end.
ReadOutput ==
    /\ Selecting /\ stdout # <<>> /\ Head(stdout).kind = "work"
    /\ stdout' = Tail(stdout)
    /\ sending' = <<Head(stdout)>>
    /\ UNCHANGED <<run, out, steering, cancelled, stdin, asks, cli, chat>>

\* Where steer n is in pending_steers, 0 if it is not there.
Position(pending, n) ==
    IF n \in ToSet(pending) THEN CHOOSE i \in DOMAIN pending : pending[i] = n ELSE 0

\* Mutant: a replay confirms the replayed steer only.
ConfirmedOnly(pending, n) == SubSeq(pending, Position(pending, n), Position(pending, n))

\* Superseded steers are never replayed: a replay confirms every earlier one.
Confirmed(pending, n) == SubSeq(pending, 1, Position(pending, n))

ReadReplay ==
    LET n == Head(stdout).steer
    IN  /\ Selecting /\ stdout # <<>> /\ Head(stdout).kind = "replay"
        /\ stdout' = Tail(stdout)
        /\ sending' = Steered(Confirmed(run.pending, n))
        /\ run' = [run EXCEPT !.pending = SubSeq(@, Position(@, n) + 1, Len(@))]
        /\ UNCHANGED <<out, steering, cancelled, stdin, asks, cli, chat>>

\* Mutant: no turn end is held back.
HoldsBackNothing == FALSE

\* A turn end waits while steers are unconfirmed, unless the run is interrupted.
HoldsBack == ~run.interrupted /\ run.pending # <<>>

\* Mutant: the turn ends held back pile up.
HoldAll(done) == Append(run.held, done)

\* A later turn end takes the place of the one held back.
Hold(done) == <<done>>

\* A result frame; after an interrupt every turn end counts as interrupted.
ReadResult ==
    LET line == Head(stdout)
        done == Event(IF run.interrupted THEN "interrupted" ELSE line.kind, line.steer)
    IN  /\ Selecting /\ stdout # <<>> /\ line.kind \in Ends
        /\ stdout' = Tail(stdout)
        /\ \/ /\ HoldsBack
              /\ run' = [run EXCEPT !.held = Hold(done)]
              /\ UNCHANGED sending
           \/ /\ ~HoldsBack
              /\ run' = [run EXCEPT !.held = <<>>]
              /\ sending' = <<done>>
        /\ UNCHANGED <<out, steering, cancelled, stdin, asks, cli, chat>>

\* Mutant: the held turn end is sent before the steers it waited for.
ExpiredEndFirst(r) == r.held \o Steered(r.pending)

\* The steers count as read, and the turn end they held up follows.
Expired(r) == Steered(r.pending) \o r.held

\* Mutant: a turn end is only released once its steers were replayed.
HoldsConfirmed == run.held # <<>> /\ run.pending = <<>>

Holds == run.held # <<>>

\* HELD_DONE_SETTLE has passed without a line from the CLI.  The CLI has by then
\* begun on what was written to it, and a turn is silent that long only when
\* "silence" is in Faults (a slow model, a tool, a prompt the user must answer).
HoldExpires ==
    /\ Selecting /\ Holds /\ stdout = <<>>
    /\ cli.alive => stdin = <<>> /\ cli.queue = <<>> /\ (cli.turn => "silence" \in Faults)
    /\ sending' = Expired(run)
    /\ run' = [run EXCEPT !.pending = <<>>, !.held = <<>>]
    /\ UNCHANGED <<out, steering, cancelled, stdin, stdout, asks, cli, chat>>

\* The end of stdout.
ReadEnd ==
    /\ Selecting /\ stdout = <<>> /\ ~cli.alive
    /\ LeaveLoop(<<>>)
    /\ UNCHANGED <<out, steering, cancelled, stdin, stdout, asks, cli, chat>>

\* A line that cannot be read (not UTF-8) ends the run, whatever the CLI does.
ReadError ==
    /\ "ioError" \in Faults
    /\ Selecting
    /\ LeaveLoop(<<Event("error", 0)>>)
    /\ UNCHANGED <<out, steering, cancelled, stdin, stdout, asks, cli, chat>>

\* The steering branch.  The stdin writer may have found out that the CLI died.
AcceptSteer ==
    LET n == Head(steering)
        r == [run EXCEPT !.pending = Append(@, n)]
    IN  /\ Selecting /\ run.steeringOpen /\ ~run.interrupted /\ steering # <<>>
        /\ steering' = Tail(steering)
        /\ \/ /\ run' = r
              /\ Write(StdinLine("steer", n, FALSE))
              /\ UNCHANGED sending
           \/ /\ ~cli.alive
              /\ run' = [r EXCEPT !.phase = "exit", !.held = <<>>]
              /\ sending' = ExitEvents(r)
              /\ UNCHANGED stdin
        /\ UNCHANGED <<out, cancelled, stdout, asks, cli, chat>>

\* The chat dropped its end of the steering channel: close the CLI's stdin.
CloseSteering ==
    /\ Selecting /\ run.steeringOpen /\ ~run.interrupted
    /\ steering = <<>> /\ chat.gone
    /\ run' = [run EXCEPT !.steeringOpen = FALSE]
    /\ Write(StdinLine("close", 0, FALSE))
    /\ UNCHANGED <<sending, out, steering, cancelled, stdout, asks, cli, chat>>

\* The interrupt branch; it also starts escalate_interrupt (Escalate below).
SeeInterrupt ==
    /\ Selecting /\ ~run.interrupted /\ cancelled
    /\ run' = [run EXCEPT !.interrupted = TRUE]
    /\ Write(StdinLine("interrupt", 0, FALSE))
    /\ UNCHANGED <<sending, out, steering, cancelled, stdout, asks, cli, chat>>

\* event_tx.send: a Done sent after an interrupt ends the loop (its status is
\* Interrupted only then), and nothing is sent after it.
SendEvent ==
    LET ev == Head(sending)
        r  == [run EXCEPT !.anyDone = @ \/ ev.kind \in Dones,
                          !.ended = @ \/ ev.kind = "interrupted"]
    IN  /\ sending # <<>> /\ ~chat.gone /\ Len(out) < EvCap
        /\ out' = Append(out, ev)
        /\ \/ /\ run.phase = "loop" /\ ev.kind = "interrupted"
              /\ run' = [r EXCEPT !.phase = "exit"]
              /\ sending' = Tail(sending) \o ExitEvents(r)
           \/ /\ run.phase = "exit" \/ ev.kind # "interrupted"
              /\ run' = r
              /\ sending' = Tail(sending)
        /\ UNCHANGED <<steering, cancelled, stdin, stdout, asks, cli, chat>>

\* event_tx.closed, or a send that fails: nobody wants the rest.
ConsumerGone ==
    /\ chat.gone
    /\ run.phase \in {"loop", "exit"}
    /\ run' = [run EXCEPT !.phase = "shutdown", !.held = <<>>]
    /\ sending' = <<>>
    /\ UNCHANGED <<out, steering, cancelled, stdin, stdout, asks, cli, chat>>

AllReported ==
    /\ run.phase = "exit" /\ sending = <<>>
    /\ run' = [run EXCEPT !.phase = "shutdown"]
    /\ UNCHANGED <<sending, out, steering, cancelled, stdin, stdout, asks, cli, chat>>

Dead(c) == [c EXCEPT !.alive = FALSE, !.turn = FALSE, !.queue = <<>>, !.waits = NoRequest]

\* shutdown_child has reaped the process; the task ends and drops its channels.
Shutdown ==
    /\ run.phase = "shutdown"
    /\ run' = [run EXCEPT !.phase = "ended", !.pending = <<>>]
    /\ steering' = <<>> /\ stdin' = <<>> /\ stdout' = <<>>
    /\ cli' = Dead(cli)
    /\ UNCHANGED <<sending, out, cancelled, asks, chat>>

\* Mutant: the process is only killed when it was in a turn.
EscalateBusy ==
    /\ run.interrupted /\ cli.alive /\ cli.turn
    /\ cli' = Dead(cli)
    /\ UNCHANGED <<run, sending, out, steering, cancelled, stdin, stdout, asks, chat>>

\* escalate_interrupt: the grace periods are over, the process is killed.
Escalate ==
    /\ run.interrupted /\ cli.alive
    /\ cli' = Dead(cli)
    /\ UNCHANGED <<run, sending, out, steering, cancelled, stdin, stdout, asks, chat>>

-----------------------------------------------------------------------------
(***************************************************************************)
(* Permission prompts and questions: handle_control_request answers at     *)
(* once or spawns a task that waits for the user.  asks[r] is "unasked",   *)
(* "asked" on its way to the chat, "open" when the chat shows it, "yes" or *)
(* "no" when the user answered, "dropped" when the sender is gone, and     *)
(* "answered" when the CLI has been told.                                  *)
(***************************************************************************)
ReadRequest ==
    LET r == Head(stdout).steer
    IN  /\ Selecting /\ stdout # <<>> /\ Head(stdout).kind = "ask"
        /\ stdout' = Tail(stdout)
        /\ \/ /\ run.skip /\ r \in Permissions
              /\ asks' = [asks EXCEPT ![r] = "answered"]
              /\ Write(StdinLine("response", r, TRUE))
           \/ /\ ~(run.skip /\ r \in Permissions)
              /\ asks' = [asks EXCEPT ![r] = IF chat.gone THEN "dropped" ELSE "asked"]
              /\ UNCHANGED stdin
        /\ UNCHANGED <<run, sending, out, steering, cancelled, cli, chat>>

\* Mutant: a dropped sender passes for consent.
AllowsDropped(r) == asks[r] \in {"yes", "dropped"} \/ r \notin Permissions

\* unwrap_or_default: a dropped sender must deny.  A question is always answered.
Allows(r) == asks[r] = "yes" \/ r \notin Permissions

\* Mutant: a request the user declines is never answered.
SettledUnlessDeclined == {"yes", "dropped"}

\* The oneshot of a request resolves with the user's word or because it was dropped.
Settled == {"yes", "no", "dropped"}

Respond(r) ==
    /\ asks[r] \in Settled
    /\ asks' = [asks EXCEPT ![r] = "answered"]
    /\ Write(StdinLine("response", r, Allows(r)))
    /\ UNCHANGED <<run, sending, out, steering, cancelled, stdout, cli, chat>>

-----------------------------------------------------------------------------
(***************************************************************************)
(* The CLI process.  It reads stdin at any time, takes steers in a turn or *)
(* begins a turn for them, and blocks on the requests it makes.            *)
(***************************************************************************)
CliOnly == UNCHANGED <<run, sending, out, steering, cancelled, asks, chat>>

Writes(line) == stdout' = Append(stdout, line)

CanWrite == cli.alive /\ Len(stdout) < PipeCap

Running == cli.turn /\ cli.waits = NoRequest

\* Output of a turn; a turn may also start by itself when background work ends.
CliOutput ==
    /\ CanWrite /\ cli.waits = NoRequest
    /\ cli' = [cli EXCEPT !.turn = TRUE]
    /\ Writes(Event("work", cli.replayed))
    /\ UNCHANGED stdin /\ CliOnly

CliEndTurn(status) ==
    /\ CanWrite /\ Running
    /\ cli' = [cli EXCEPT !.turn = FALSE]
    /\ Writes(Event(status, cli.replayed))
    /\ UNCHANGED stdin /\ CliOnly

\* The first k steers become one prompt, and only the last of them is replayed.
CliTakeSteers(k) ==
    LET n == cli.queue[k]
    IN  /\ CanWrite /\ cli.waits = NoRequest
        /\ cli' = [cli EXCEPT !.turn = TRUE, !.replayed = n, !.queue = SubSeq(@, k + 1, Len(@))]
        /\ Writes(Event("replay", n))
        /\ UNCHANGED stdin /\ CliOnly

\* A steer read into the running turn without a replay.
CliAbsorb ==
    /\ "absorb" \in Faults
    /\ cli.alive /\ Running /\ cli.queue # <<>>
    /\ cli' = [cli EXCEPT !.queue = Tail(@)]
    /\ UNCHANGED <<stdin, stdout>> /\ CliOnly

CliAsk(r) ==
    /\ CanWrite /\ Running /\ r \notin cli.used
    /\ cli' = [cli EXCEPT !.waits = r, !.used = @ \cup {r}]
    /\ Writes(Event("ask", r))
    /\ UNCHANGED stdin /\ CliOnly

CliReadLine ==
    LET line == Head(stdin)
    IN  /\ cli.alive /\ cli.reading /\ stdin # <<>>
        /\ stdin' = Tail(stdin)
        /\ \/ /\ line.kind = "steer"
              /\ cli' = [cli EXCEPT !.queue = Append(@, line.what)]
              /\ UNCHANGED stdout
           \/ /\ line.kind = "response"
              /\ cli' = [cli EXCEPT !.waits = IF @ = line.what THEN NoRequest ELSE @]
              /\ UNCHANGED stdout
           \/ /\ line.kind = "close"
              /\ cli' = [cli EXCEPT !.reading = FALSE]
              /\ UNCHANGED stdout
           \/ /\ line.kind = "interrupt" /\ cli.turn /\ CanWrite
              /\ cli' = [cli EXCEPT !.turn = FALSE, !.waits = NoRequest]
              /\ \E status \in Ends : Writes(Event(status, cli.replayed))
           \/ /\ line.kind = "interrupt" /\ ~cli.turn
              /\ UNCHANGED <<cli, stdout>>
        /\ CliOnly

\* The process ends: by itself, or between two turns once its stdin is closed.
CliExit ==
    /\ cli.alive
    /\ "crash" \in Faults \/ (~cli.reading /\ ~cli.turn)
    /\ cli' = Dead(cli)
    /\ UNCHANGED <<stdin, stdout>> /\ CliOnly

-----------------------------------------------------------------------------
(***************************************************************************)
(* The chat: AgentSession with an ActiveRun, reduced to what this run sees *)
(* of it (module AgentSession has the rest).                               *)
(***************************************************************************)
ChatSteer ==
    /\ ~chat.gone /\ ~cancelled /\ run.phase # "ended"
    /\ chat.pushed < MaxSteers /\ Len(steering) < SteerCap
    /\ steering' = Append(steering, chat.pushed + 1)
    /\ chat' = [chat EXCEPT !.pushed = @ + 1, !.working = TRUE]
    /\ UNCHANGED <<run, sending, out, cancelled, stdin, stdout, asks, cli>>

ChatStop ==
    /\ ~chat.gone /\ ~cancelled
    /\ cancelled' = TRUE
    /\ UNCHANGED <<run, sending, out, steering, stdin, stdout, asks, cli, chat>>

ChatReceive ==
    LET ev == Head(out).kind
    IN  /\ ~chat.gone /\ out # <<>>
        /\ out' = Tail(out)
        /\ chat' = [chat EXCEPT !.working = IF ev = "error" THEN @ ELSE ev \notin Dones,
                                !.steered = @ + IF ev = "steered" THEN 1 ELSE 0,
                                !.stops = @ + IF ev = "interrupted" THEN 1 ELSE 0,
                                !.last = ev]
        /\ UNCHANGED <<run, sending, steering, cancelled, stdin, stdout, asks, cli>>

ChatReceiveQuestion(r) ==
    /\ ~chat.gone /\ asks[r] = "asked"
    /\ asks' = [asks EXCEPT ![r] = "open"]
    /\ UNCHANGED <<run, sending, out, steering, cancelled, stdin, stdout, cli, chat>>

\* answer, answer_permission.
ChatAnswer(r, allow) ==
    /\ asks[r] = "open"
    /\ asks' = [asks EXCEPT ![r] = IF allow THEN "yes" ELSE "no"]
    /\ chat' = [chat EXCEPT !.allowed = IF allow THEN @ \cup {r} ELSE @]
    /\ UNCHANGED <<run, sending, out, steering, cancelled, stdin, stdout, cli>>

DropQuestions(states) ==
    asks' = [r \in Requests |-> IF asks[r] \in states THEN "dropped" ELSE asks[r]]

\* run_ended: the stream is over.
ChatRunEnded ==
    /\ ~chat.gone /\ run.phase = "ended" /\ out = <<>>
    /\ chat' = [chat EXCEPT !.gone = TRUE, !.working = FALSE]
    /\ DropQuestions({"asked", "open"})
    /\ UNCHANGED <<run, sending, out, steering, cancelled, stdin, stdout, cli>>

\* The chat drops the run: deleted with its questions, or replaced by deliver,
\* which leaves the open questions on the screen.
ChatLeave(states) ==
    /\ "leave" \in Faults
    /\ ~chat.gone
    /\ chat' = [chat EXCEPT !.gone = TRUE]
    /\ out' = <<>>
    /\ DropQuestions(states)
    /\ UNCHANGED <<run, sending, steering, cancelled, stdin, stdout, cli>>

-----------------------------------------------------------------------------
HarnessNext ==
    \/ ReadOutput \/ ReadReplay \/ ReadResult \/ ReadRequest \/ ReadEnd \/ ReadError
    \/ HoldExpires \/ AcceptSteer \/ CloseSteering \/ SeeInterrupt
    \/ SendEvent \/ ConsumerGone \/ AllReported \/ Shutdown

CliNext ==
    \/ CliOutput \/ CliAbsorb \/ CliReadLine \/ CliExit
    \/ \E status \in Ends : CliEndTurn(status)
    \/ \E k \in DOMAIN cli.queue : CliTakeSteers(k)
    \/ \E r \in Requests : CliAsk(r)

ChatNext ==
    \/ ChatSteer \/ ChatStop \/ ChatReceive \/ ChatRunEnded
    \/ \E r \in Requests : ChatReceiveQuestion(r)
    \/ \E r \in Requests, allow \in BOOLEAN : ChatAnswer(r, allow)
    \/ \E states \in {{"asked"}, {"asked", "open"}} : ChatLeave(states)

Next ==
    \/ HarnessNext
    \/ Escalate
    \/ \E r \in Requests : Respond(r)
    \/ CliNext
    \/ ChatNext

Spec == Init /\ [][Next]_vars

(***************************************************************************)
(* Fairness.  Tokio keeps polling run_session, the escalation and the      *)
(* permission tasks, and the UI thread keeps receiving; select! polls its  *)
(* branches in random order, so an interrupt that stays cancelled is seen  *)
(* however many lines arrive (strong fairness: the loop is at its select   *)
(* again and again).  The CLI reads its stdin and takes the steers it has  *)
(* read.  Nothing is assumed of the user, nor that a turn ends.            *)
(***************************************************************************)
Fairness ==
    /\ WF_vars(HarnessNext) /\ SF_vars(SeeInterrupt) /\ SF_vars(AcceptSteer)
    /\ WF_vars(Escalate)
    /\ \A r \in Requests : WF_vars(Respond(r)) /\ WF_vars(ChatReceiveQuestion(r))
    /\ WF_vars(ChatReceive) /\ WF_vars(ChatRunEnded)
    /\ SF_vars(CliReadLine)
    /\ SF_vars(CliAbsorb \/ \E k \in DOMAIN cli.queue : CliTakeSteers(k))

FairSpec == Spec /\ Fairness

-----------------------------------------------------------------------------
Kinds == Dones \cup {"work", "steered", "error"}

EventType == [kind : Kinds, steer : Nat]
RunType   == [phase : {"loop", "exit", "shutdown", "ended"}, pending : Seq(Nat),
              held : Seq(EventType), steeringOpen : BOOLEAN, interrupted : BOOLEAN,
              anyDone : BOOLEAN, ended : BOOLEAN, skip : BOOLEAN]
ChatType  == [gone : BOOLEAN, working : BOOLEAN, pushed : Nat, steered : Nat,
              last : Kinds \cup {"none"}, stops : Nat, allowed : SUBSET Requests]

\* Every local of the loop keeps its type; at most one turn end is held back.
TypeOK ==
    /\ run \in RunType /\ Len(run.held) <= 1
    /\ sending \in Seq(EventType) /\ out \in Seq(EventType)
    /\ steering \in Seq(Nat) /\ cancelled \in BOOLEAN
    /\ asks \in [Requests -> {"unasked", "asked", "open", "answered"} \cup Settled]
    /\ chat \in ChatType

\* The text of a turn is never shown above the steer it answers: everything the
\* agent wrote after replaying a steer reaches the chat after that steer, and
\* after the earlier ones, were reported as read (rotate_for_steer).
Attributed ==
    LET stream == out \o sending
        before(i) == Cardinality({j \in 1 .. i - 1 : stream[j].kind = "steered"})
    IN  ~chat.gone =>
            \A i \in DOMAIN stream :
                stream[i].kind = "work" => chat.steered + before(i) >= stream[i].steer

\* While the loop goes on, a turn end reaches the chat only when every steer the
\* harness has taken was reported before: otherwise the chat would send its next
\* queued message into the steered turn.  Once the loop is left (the CLI has died or
\* cannot be read, or the run was interrupted) a held turn end does go out with
\* steers pending; those are then never reported as read, not even late.
NoEndBeforeSteer ==
    [][ (Len(out') > Len(out) /\ Last(out').kind \in Ends) =>
            /\ run.phase = "loop" => run'.pending = <<>>
            /\ \A i \in DOMAIN sending' : sending'[i].kind # "steered" ]_vars

\* The last thing an interrupted run says is that it was interrupted, and it
\* says so once; a run that ends by itself has reported at least one turn end.
EndReported ==
    (run.phase = "ended" /\ out = <<>> /\ ~chat.gone) =>
        /\ run.interrupted => chat.last = "interrupted" /\ chat.stops = 1
        /\ ~run.interrupted => run.anyDone /\ chat.stops = 0

\* No tool is allowed without the user's word, unless the permission mode skips
\* prompts ("A dropped sender must deny, never allow.").
NeverAllowedUnasked ==
    \A i \in DOMAIN stdin :
        (stdin[i].kind = "response" /\ stdin[i].allow /\ stdin[i].what \in Permissions)
            => run.skip \/ stdin[i].what \in chat.allowed

\* Nothing is under way between the chat and an agent whose run goes on.
Drained ==
    /\ run.phase = "loop" /\ run.held = <<>> /\ cli.alive /\ ~chat.gone /\ ~cancelled
    /\ <<>> = sending \o out \o steering \o cli.queue
    /\ stdout = <<>> /\ stdin = <<>>

\* Then the chat works iff the agent does: no turn end is swallowed with the
\* steers it waited for, and none is reported early.
Agreement == Drained => (chat.working <=> cli.turn)

\* While the agent is at work, the chat says so ("Steers can be absorbed without
\* a replay, so a held turn end must time out": only for those).
WorkShows == Drained => (cli.turn => chat.working)

\* When the agent falls idle for good, the chat does too.
IdleShows == <>[](~cli.turn /\ ~chat.gone) => <>[](~chat.working)

\* Once cancelled, a run ends, whatever the CLI does with the interrupt.
InterruptEnds == cancelled ~> run.phase = "ended"

\* A blocked CLI waits for the user and for nothing else ("The CLI blocks until
\* every can_use_tool request gets a response").
WaitsOnlyForUser ==
    \A r \in Requests : cli.waits = r ~> (asks[r] = "open" \/ cli.waits # r)

(***************************************************************************)
(* The refinement: what is waiting is what the loop still has to confirm,  *)
(* at the front of `sending` or in pending, and what it has not taken from *)
(* the channel.                                                            *)
(***************************************************************************)
Confirming ==
    [i \in {j \in DOMAIN sending : sending[j].kind = "steered"} |-> sending[i].steer]

ContractPhase ==
    IF chat.gone THEN "left"
    ELSE IF run.phase = "ended" THEN "closed"
    ELSE IF run.phase = "shutdown" \/ run.ended THEN "closing"
    ELSE "live"

ContractWaiting ==
    IF chat.gone \/ run.phase = "ended" THEN <<>>
    ELSE Confirming \o run.pending \o steering

Contract == INSTANCE HarnessContract WITH
    Steers <- 0 .. MaxSteers,
    phase <- ContractPhase, stopping <- cancelled, waiting <- ContractWaiting,
    anyDone <- run.anyDone, out <- out

\* A Claude run keeps the contract of a harness, whatever its CLI does.
KeepsContract == Contract!Spec
=============================================================================
