---------------------------- MODULE AgentSession ----------------------------
(***************************************************************************)
(* One chat of Wu with a coding agent: the entity AgentSession of          *)
(* crates/agent_chat/src/session.rs, the view that edits its queue, and    *)
(* the harness process it talks to (crates/agent_harness/src/claude.rs).   *)
(*                                                                         *)
(* The session lives on the UI thread: every method runs to completion.    *)
(* The harness lives on its own thread and meets the session in three      *)
(* places: the steering channel (run.inbox), the event stream (run.out)    *)
(* and the interrupt token (run.stopping).  What is hard here is that the  *)
(* session decides from `working`, which lags behind the harness by        *)
(* whatever is still in run.out.                                           *)
(*                                                                         *)
(* A handler of the code is a chain of method calls on &mut self; it is    *)
(* modelled as the composition of operators from a session to a session,   *)
(* one operator per method, so that each action is one whole handler.      *)
(*                                                                         *)
(* A user's message is a model value.  A prompt is the sequence of the     *)
(* messages it was merged from (Prompt::merge joins texts with a blank     *)
(* line); it is a slash command iff its first message is one, which is     *)
(* what leading_command sees of the joined text.                           *)
(***************************************************************************)
EXTENDS Integers, Sequences, FiniteSets, SequencesExt

CONSTANTS
    Messages,    \* what the user may type; each is typed at most once
    Commands,    \* those that start with a slash command
    Loaded,      \* the queue read back from disk, a sequence of messages
    Claude,      \* metadata.kind = AgentKind::Claude
    Forked,      \* the chat was forked and may copy its parent's native session
    SteerModes,  \* the values the setting steer_while_working takes
    UserOps,     \* the operations the user performs in this instance
    Chatter,     \* the events besides turn ends the agent produces
    Faults,      \* which of "fail" (cannot start) and "crash" happen
    SteerCap,    \* capacity of the steering channel (32 in the code)
    OutCap,      \* bound on the events waiting for the UI thread
    MaxIds       \* bound on the queue ids allocated

ASSUME MessagesAssumption == Commands \subseteq Messages /\ Loaded \in Seq(Messages)
ASSUME KindAssumption     == Claude \in BOOLEAN /\ Forked \in BOOLEAN
ASSUME InputAssumption    == SteerModes \subseteq BOOLEAN /\ Chatter \subseteq {"work", "error", "compacted"}
ASSUME BoundsAssumption   == SteerCap \in Nat \ {0} /\ OutCap \in Nat \ {0} /\ MaxIds \in Nat

VARIABLES
    session,   \* the fields of struct AgentSession
    view,      \* ChatView::editing_queued: the queued message in the composer
    stale,     \* inputs of a replaced run that its task still has to apply
    fresh,     \* history: the messages the user has not typed yet
    log        \* history: the messages agents have read, in order

vars == <<session, view, stale, fresh, log>>

NoId == -1

Phases == {"none", "starting", "failed", "live", "closing", "closed"}

DoneEvents   == {"completed", "errored", "interrupted"}
ResumeEvents == {"work", "steered"}
Events       == DoneEvents \cup ResumeEvents \cup {"started", "error", "compacted"}

(***************************************************************************)
(* Option<ActiveRun> together with the harness at its other end.  phase:   *)
(* "starting" until harness.run returns, "live" while run_session loops,   *)
(* "closing" once it left the loop (the steering receiver still exists but *)
(* nobody reads it), "closed" when both channels are dropped.              *)
(***************************************************************************)
RunIn(phase, p) ==
    [phase |-> phase, stopping |-> FALSE, prompt |-> p, inbox |-> <<>>,
     turn |-> FALSE, anyDone |-> FALSE, out |-> <<>>]

NewRun(p) == RunIn("starting", p)

NoRun == RunIn("none", <<>>)

HasRun(s) == s.run.phase # "none"

IsCommand(p) == Head(p) \in Commands

\* can_steer: Claude reads a slash command sent into a running turn as plain text.
CanSteer(s, m) == s.working /\ ~(Claude /\ m \in Commands)

-----------------------------------------------------------------------------
(* The transcript, reduced to its user entries.  `tail` says what follows   *)
(* an entry before the next user entry: nothing, error notices only, or     *)
(* anything else.                                                           *)

PushUser(s, m) ==
    [s EXCEPT !.entries = Append(@, [msg |-> m, undelivered |-> FALSE, tail |-> "none"])]

\* push_notice, append_text, start_tool: an entry that is not a user entry.
PushEntry(s, isError) ==
    IF s.entries = <<>> THEN s
    ELSE [s EXCEPT !.entries[Len(s.entries)].tail =
            IF isError /\ @ # "mixed" THEN "errors" ELSE "mixed"]

\* fail_run marks the last entry of the transcript, if it is a user entry.
MarkUndelivered(s) ==
    IF s.entries = <<>> \/ Last(s.entries).tail # "none" THEN s
    ELSE [s EXCEPT !.entries[Len(s.entries)].undelivered = TRUE]

-----------------------------------------------------------------------------
(* The queue of messages waiting for the current turn to end.               *)

QueueIds(s) == {s.queue[i].id : i \in DOMAIN s.queue}

\* Mutant: a message being edited goes out like any other.
SendableAll(s) == DOMAIN s.queue

\* has_sendable_queued: the message in the composer does not count.
Sendable(s) == {i \in DOMAIN s.queue : s.queue[i].id # s.editing}

FirstSendable(s) == CHOOSE i \in Sendable(s) : \A j \in Sendable(s) : i <= j

\* Mutant: a queued message gets no id of its own.
EnqueueUnnumbered(s, m) == [s EXCEPT !.queue = Append(@, [id |-> NoId, msg |-> m])]

Enqueue(s, m) ==
    [s EXCEPT !.nextId = @ + 1, !.queue = Append(@, [id |-> s.nextId + 1, msg |-> m])]

\* Mutant: the message is dropped instead of put back.
RequeueNothing(s, m) == s

Requeue(s, m) ==
    [s EXCEPT !.nextId = @ + 1, !.queue = <<[id |-> s.nextId + 1, msg |-> m]>> \o @]

\* take_queued, for the message at index i.
TakeQueued(s, i) ==
    [s EXCEPT !.queue = RemoveAt(@, i),
              !.editing = IF @ = s.queue[i].id THEN NoId ELSE @]

MoveTo(s, i, to) ==
    LET rest == RemoveAt(s.queue, i)
        at   == IF to <= Len(rest) THEN to ELSE Len(rest)
    IN  [s EXCEPT !.queue = InsertAt(rest, at + 1, s.queue[i])]

-----------------------------------------------------------------------------
(* The methods that hand prompts to an agent.                               *)

ForkPending(s) == s.forkPrompt # <<>> /\ ~s.nativeId

StartRun(s, p) ==
    [s EXCEPT !.restart    = FALSE,
              !.forkPrompt = IF ~s.nativeId /\ s.forkSource THEN p ELSE <<>>,
              !.run        = NewRun(p)]

\* try_send succeeds while the receiver exists and the channel has room.
CanPush(r) == r.phase \in {"starting", "live", "closing"} /\ Len(r.inbox) < SteerCap

\* Mutant: the later message is put first.
MergeReversed(p, m) == <<m>> \o p

\* Prompt::merge, and its first use on an empty prompt_after_stop.
Merge(p, m) == Append(p, m)

\* The part of deliver after the early return: the message enters the transcript.
Dispatch(s, m) ==
    LET t == [PushUser(s, m) EXCEPT !.userStopped = FALSE,
                                    !.working = TRUE,
                                    !.restart = @ /\ s.working,
                                    !.run = IF s.restart /\ ~s.working THEN NoRun ELSE @]
    IN  IF t.run.stopping THEN [t EXCEPT !.pending = Merge(@, m)]
        ELSE IF CanPush(t.run) THEN [t EXCEPT !.run.inbox = Append(@, m)]
        ELSE StartRun(t, <<m>>)

\* Mutant: commands are only kept out of running turns.
MustWaitToSteer(s, m) == s.working /\ HasRun(s) /\ ~s.run.stopping /\ ~CanSteer(s, m)

\* A command may be neither steered into a turn nor merged with another message.
MustWait(s, m) ==
    /\ s.working
    /\ \/ HasRun(s) /\ ~s.run.stopping /\ ~CanSteer(s, m)
       \/ /\ s.run.stopping
          /\ s.pending # <<>>
          /\ IsCommand(s.pending) \/ m \in Commands

Deliver(s, m) == IF MustWait(s, m) THEN Requeue(s, m) ELSE Dispatch(s, m)

\* Mutant: the message that goes out stays in the queue.
DeliverNextPeeked(s) == Deliver(s, s.queue[FirstSendable(s)].msg)

DeliverNext(s) ==
    LET i == FirstSendable(s)
    IN  Deliver([s EXCEPT !.queue = RemoveAt(@, i)], s.queue[i].msg)

SendNextQueued(s) ==
    IF s.working \/ s.deleted \/ Sendable(s) = {} THEN s ELSE DeliverNext(s)

SendMessage(s, m, steer) ==
    IF s.working /\ HasRun(s) /\ ~s.run.stopping
    THEN IF steer THEN Deliver(s, m) ELSE Enqueue(s, m)
    ELSE IF ~s.run.stopping /\ Sendable(s) # {} THEN DeliverNext(Enqueue(s, m))
    ELSE Deliver(s, m)

-----------------------------------------------------------------------------
(* The methods the events of a run call.                                    *)

\* The native fork failed: its prompt runs again with the history as text.
ForkFallback(s) ==
    StartRun([s EXCEPT !.forkSource = FALSE, !.working = TRUE], s.forkPrompt)

\* Mutant: prompt_after_stop is dropped.
StartPendingDropped(s) == [s EXCEPT !.pending = <<>>, !.working = FALSE]

StartPending(s) == StartRun([s EXCEPT !.pending = <<>>, !.working = TRUE], s.pending)

\* Mutant: the end of a run leaves `working` as the last event set it.
IdleUnlessDone(s) == [s EXCEPT !.pending = <<>>]

Idle(s) == [s EXCEPT !.pending = <<>>, !.working = FALSE]

RunEnded(s) ==
    LET e == [s EXCEPT !.run = NoRun, !.forkFailed = FALSE]
    IN  IF s.forkFailed /\ s.forkPrompt # <<>> /\ ~s.deleted THEN ForkFallback(e)
        ELSE IF s.pending # <<>> /\ ~s.deleted THEN StartPending(e)
        ELSE IF s.userStopped THEN Idle(e)
        ELSE SendNextQueued(Idle(e))

FailRun(s) ==
    IF ForkPending(s) THEN RunEnded([s EXCEPT !.forkFailed = TRUE])
    ELSE RunEnded(PushEntry(MarkUndelivered(s), TRUE))

\* set_native_session_id: the chat has a native session of its own, so a pending
\* native fork has worked.  The errors held back until then, which the transcript
\* now shows, are left out.
SetNativeId(s) ==
    [s EXCEPT !.nativeId   = TRUE,
              !.forkPrompt = <<>>,
              !.forkSource = @ /\ s.forkPrompt = <<>>]

\* What a Done event says besides that the turn is over.
EndReport(s, status) ==
    CASE status = "completed" -> SetNativeId(s)
      [] status = "errored"   -> PushEntry(s, TRUE)
      [] OTHER                -> s

\* Mutant: a turn end does not look at the queue.
TurnDoneOnly(s, status) == [EndReport(s, status) EXCEPT !.working = s.pending # <<>>]

\* A Done event: the turn is over, the next queued message goes out.
TurnDone(s, status) ==
    LET d == [EndReport(s, status) EXCEPT !.working = s.pending # <<>>]
    IN  IF status = "interrupted" THEN d ELSE SendNextQueued(d)

\* Mutant: only the user's own messages make the chat work.
ResumeNothing(s) == s

\* resume_working
Resume(s) == [s EXCEPT !.working = TRUE]

ApplyEvent(s, ev) ==
    CASE ev = "started"   -> SetNativeId(s)
      [] ev = "work"      -> PushEntry(Resume(s), FALSE)
      [] ev = "steered"   -> Resume(s)
      [] ev = "error"     -> IF ForkPending(s) THEN s ELSE PushEntry(s, TRUE)
      [] ev = "compacted" -> PushEntry([s EXCEPT !.restart = @ \/ Claude], FALSE)
      [] ev = "errored" /\ ForkPending(s) -> [s EXCEPT !.forkFailed = TRUE]
      [] OTHER            -> TurnDone(s, ev)

-----------------------------------------------------------------------------
Init ==
    /\ session = [queue       |-> [i \in DOMAIN Loaded |-> [id |-> i - 1, msg |-> Loaded[i]]],
                  nextId      |-> Len(Loaded),
                  editing     |-> NoId,
                  entries     |-> <<>>,
                  pending     |-> <<>>,
                  working     |-> FALSE,
                  userStopped |-> FALSE,
                  restart     |-> FALSE,
                  deleted     |-> FALSE,
                  nativeId    |-> ~Forked,
                  forkSource  |-> Forked,
                  forkPrompt  |-> <<>>,
                  forkFailed  |-> FALSE,
                  run         |-> NoRun]
    /\ view = NoId
    /\ stale = <<>>
    /\ fresh = Messages \ ToSet(Loaded)
    /\ log = <<>>

(***************************************************************************)
(* The user.  Every handler runs on the UI thread between two polls of the *)
(* events task; the chat's view closes as soon as the chat is deleted.     *)
(***************************************************************************)
Allowed(op) == op \in UserOps /\ stale = <<>> /\ ~session.deleted

RoomForIds == session.nextId < Len(Loaded) + MaxIds

Send(m, steer) ==
    /\ Allowed("send") /\ RoomForIds
    /\ m \in fresh
    /\ session' = SendMessage(session, m, steer)
    /\ fresh' = fresh \ {m}
    /\ UNCHANGED <<view, stale, log>>

\* retry_undelivered: the entry and the errors right after it leave the transcript.
Retry(i, steer) ==
    LET e == session.entries[i]
        rest == [session EXCEPT !.entries = RemoveAt(@, i)]
        kept == IF e.tail = "mixed" /\ i > 1
                THEN [rest EXCEPT !.entries[i - 1].tail = "mixed"] ELSE rest
    IN  /\ Allowed("retry") /\ RoomForIds
        /\ e.undelivered
        /\ session' = SendMessage(kept, e.msg, steer)
        /\ UNCHANGED <<view, stale, fresh, log>>

\* The Steer button, or Enter in an empty composer for the newest message.
SteerQueued(i) ==
    LET m == session.queue[i].msg
    IN  /\ Allowed("steer") /\ RoomForIds
        /\ CanSteer(session, m) \/ (i = Len(session.queue) /\ view = NoId)
        /\ session' = Deliver(TakeQueued(session, i), m)
        /\ UNCHANGED <<view, stale, fresh, log>>

SendQueuedNow(i) ==
    LET t == TakeQueued(session, i)
        c == IF t.working /\ HasRun(t) THEN [t EXCEPT !.run.stopping = TRUE] ELSE t
    IN  /\ Allowed("now") /\ RoomForIds
        /\ session' = Deliver(c, session.queue[i].msg)
        /\ UNCHANGED <<view, stale, fresh, log>>

RemoveQueued(i) ==
    /\ Allowed("remove")
    /\ session' = TakeQueued(session, i)
    /\ UNCHANGED <<view, stale, fresh, log>>

MoveQueued(i, to) ==
    /\ Allowed("move")
    /\ session' = MoveTo(session, i, to)
    /\ UNCHANGED <<view, stale, fresh, log>>

\* ChatView::edit_queued ends an edit in progress before it begins another.
BeginEdit(i) ==
    /\ Allowed("edit")
    /\ session' = [session EXCEPT !.editing = session.queue[i].id]
    /\ view' = session.queue[i].id
    /\ UNCHANGED <<stale, fresh, log>>

CancelEdit ==
    /\ Allowed("edit") /\ view # NoId
    /\ session' = [session EXCEPT !.editing = IF @ = view THEN NoId ELSE @]
    /\ view' = NoId
    /\ UNCHANGED <<stale, fresh, log>>

\* finish_queued_edit with a new text, which replaces the queued message or,
\* when it has meanwhile left the queue, is queued as a new one.
SaveEdit(m) ==
    LET s == [session EXCEPT !.editing = IF @ = view THEN NoId ELSE @]
        at == {i \in DOMAIN s.queue : s.queue[i].id = view}
    IN  /\ Allowed("edit") /\ RoomForIds
        /\ view # NoId /\ m \in fresh
        /\ \/ /\ at = {}
              /\ session' = Enqueue(s, m)
           \/ \E i \in at : session' = [s EXCEPT !.queue[i].msg = m]
        /\ view' = NoId
        /\ fresh' = fresh \ {m}
        /\ UNCHANGED <<stale, log>>

Stop ==
    LET s == [session EXCEPT !.pending = <<>>, !.userStopped = TRUE]
    IN  /\ Allowed("stop")
        /\ session' = IF HasRun(s) THEN [s EXCEPT !.run.stopping = TRUE]
                                   ELSE [s EXCEPT !.working = FALSE]
        /\ UNCHANGED <<view, stale, fresh, log>>

\* update_settings with a change: launch flags need a new process.
ChangeSettings ==
    /\ Allowed("settings")
    /\ session' = [session EXCEPT !.restart = HasRun(session)]
    /\ UNCHANGED <<view, stale, fresh, log>>

\* Mutant: a deleted chat keeps the prompt that waits for its run to stop.
DeleteKeepsPending ==
    /\ Allowed("delete")
    /\ session' = [session EXCEPT !.deleted = TRUE, !.run = NoRun, !.working = FALSE,
                                  !.editing = IF @ = view THEN NoId ELSE @]
    /\ view' = NoId
    /\ UNCHANGED <<stale, fresh, log>>

\* close_for_deletion; the view goes with the chat.
Delete ==
    /\ Allowed("delete")
    /\ session' = [session EXCEPT !.deleted = TRUE, !.run = NoRun,
                                  !.pending = <<>>, !.working = FALSE,
                                  !.editing = IF @ = view THEN NoId ELSE @]
    /\ view' = NoId
    /\ UNCHANGED <<stale, fresh, log>>

-----------------------------------------------------------------------------
(***************************************************************************)
(* The events task of a run, on the UI thread.  deliver may replace the    *)
(* run from inside this task's own poll; dropping a task that is being     *)
(* polled cancels it only when the poll returns, so whatever its streams   *)
(* have ready is still applied, to a session that has a new run by then.   *)
(***************************************************************************)
ReceiveEvent ==
    LET r == session.run
        s == ApplyEvent([session EXCEPT !.run.out = Tail(@)], Head(r.out))
    IN  /\ stale = <<>>
        /\ r.phase \in {"live", "closing", "closed"} /\ r.out # <<>>
        /\ session' = s
        /\ \/ s.run.phase # "starting" /\ stale' = <<>>
           \/ s.run.phase = "starting" /\ stale' = Tail(r.out)
           \/ s.run.phase = "starting" /\ r.phase = "closed" /\ stale' = Append(Tail(r.out), "ended")
        /\ UNCHANGED <<view, fresh, log>>

ReceiveStale ==
    /\ stale # <<>>
    /\ \/ /\ Head(stale) = "ended"
          /\ session' = RunEnded(session)
          /\ stale' = <<>>
       \/ /\ Head(stale) # "ended"
          /\ session' = ApplyEvent(session, Head(stale))
          /\ stale' = Tail(stale)
    /\ UNCHANGED <<view, fresh, log>>

ReceiveEnd ==
    /\ stale = <<>>
    /\ session.run.phase = "closed" /\ session.run.out = <<>>
    /\ session' = RunEnded(session)
    /\ UNCHANGED <<view, stale, fresh, log>>

ReceiveFailure ==
    /\ stale = <<>>
    /\ session.run.phase = "failed"
    /\ session' = FailRun(session)
    /\ UNCHANGED <<view, stale, fresh, log>>

-----------------------------------------------------------------------------
(***************************************************************************)
(* The harness, on its own thread (claude.rs, run_with_mode, run_session). *)
(***************************************************************************)
Harness(r) ==
    /\ session' = [session EXCEPT !.run = r]
    /\ UNCHANGED <<view, stale, fresh>>

\* The process is up and the prompt is on its stdin; system/init names the session.
HarnessStart(named) ==
    LET r == session.run
    IN  /\ r.phase = "starting"
        /\ Harness([r EXCEPT !.phase = "live", !.turn = TRUE, !.prompt = <<>>,
                             !.out = IF named THEN <<"started">> ELSE <<>>])
        /\ log' = log \o r.prompt

HarnessFail ==
    /\ "fail" \in Faults
    /\ session.run.phase = "starting"
    /\ Harness([session.run EXCEPT !.phase = "failed", !.inbox = <<>>])
    /\ UNCHANGED log

\* Text, tools, notices; a turn may start by itself when background work ends.
HarnessEmit(ev) ==
    LET r == session.run
    IN  /\ r.phase = "live" /\ Len(r.out) + 1 < OutCap
        /\ ev \in Chatter /\ (ev = "work" \/ r.turn)
        /\ Harness([r EXCEPT !.turn = TRUE, !.out = Append(@, ev)])
        /\ UNCHANGED log

HarnessTakeSteer ==
    LET r == session.run
    IN  /\ r.phase = "live" /\ r.inbox # <<>> /\ Len(r.out) + 1 < OutCap
        /\ Harness([r EXCEPT !.turn = TRUE, !.inbox = Tail(@), !.out = Append(@, "steered")])
        /\ log' = Append(log, Head(r.inbox))

HarnessTurnEnd(status) ==
    LET r == session.run
    IN  /\ r.phase = "live" /\ r.turn
        /\ Harness([r EXCEPT !.turn = FALSE, !.anyDone = TRUE, !.out = Append(@, status)])
        /\ UNCHANGED log

\* Mutant: an interrupt that finds the agent between two turns is ignored.
HarnessInterruptBusy ==
    LET r == session.run
    IN  /\ r.phase = "live" /\ r.stopping /\ r.turn
        /\ Harness([r EXCEPT !.phase = "closing", !.turn = FALSE,
                             !.out = Append(@, "interrupted")])
        /\ UNCHANGED log

\* The interrupt is answered, or the escalation kills the process.
HarnessInterrupt ==
    LET r == session.run
    IN  /\ r.phase = "live" /\ r.stopping
        /\ Harness([r EXCEPT !.phase = "closing", !.turn = FALSE,
                             !.out = Append(@, "interrupted")])
        /\ UNCHANGED log

\* stdout ends by itself.  Only a run that had no turn end yet reports it.
HarnessCrash ==
    LET r == session.run
    IN  /\ "crash" \in Faults
        /\ r.phase = "live"
        /\ Harness([r EXCEPT !.phase = "closing", !.turn = FALSE,
                             !.out = IF r.anyDone THEN @ ELSE Append(@, "errored")])
        /\ UNCHANGED log

HarnessClose ==
    /\ session.run.phase = "closing"
    /\ Harness([session.run EXCEPT !.phase = "closed", !.inbox = <<>>])
    /\ UNCHANGED log

-----------------------------------------------------------------------------
UserNext ==
    \/ \E m \in fresh, steer \in SteerModes : Send(m, steer)
    \/ \E i \in DOMAIN session.entries, steer \in SteerModes : Retry(i, steer)
    \/ \E i \in DOMAIN session.queue :
         \/ SteerQueued(i) \/ SendQueuedNow(i) \/ RemoveQueued(i) \/ BeginEdit(i)
         \/ \E to \in 0 .. Len(session.queue) : MoveQueued(i, to)
    \/ CancelEdit
    \/ \E m \in fresh : SaveEdit(m)
    \/ Stop \/ ChangeSettings \/ Delete

TaskNext == ReceiveEvent \/ ReceiveStale \/ ReceiveEnd \/ ReceiveFailure

HarnessNext ==
    \/ \E named \in BOOLEAN : HarnessStart(named)
    \/ HarnessFail
    \/ \E ev \in Chatter : HarnessEmit(ev)
    \/ HarnessTakeSteer
    \/ \E status \in {"completed", "errored"} : HarnessTurnEnd(status)
    \/ HarnessInterrupt
    \/ HarnessCrash
    \/ HarnessClose

Next == UserNext \/ TaskNext \/ HarnessNext

(***************************************************************************)
(* Fairness.  The UI thread keeps polling the events task.  The harness    *)
(* keeps reading its steering channel, an interrupt is escalated until the *)
(* process is gone (escalate_interrupt), a process that left its loop      *)
(* drops its channels, and harness.run returns.  That a turn ends is an    *)
(* assumption on the agent.  Nothing is assumed of the user.               *)
(***************************************************************************)
Fairness ==
    /\ WF_vars(TaskNext)
    /\ WF_vars((\E named \in BOOLEAN : HarnessStart(named)) \/ HarnessFail)
    /\ WF_vars(HarnessTakeSteer)
    /\ WF_vars(\E status \in {"completed", "errored"} : HarnessTurnEnd(status))
    /\ WF_vars(HarnessInterrupt)
    /\ WF_vars(HarnessClose)

Spec == Init /\ [][Next]_vars

FairSpec == Spec /\ Fairness

-----------------------------------------------------------------------------
Prompts == Seq(Messages)

QueuedType  == [id : Nat, msg : Messages]
EntryType   == [msg : Messages, undelivered : BOOLEAN, tail : {"none", "errors", "mixed"}]
RunType     == [phase : Phases, stopping : BOOLEAN, prompt : Prompts, inbox : Prompts,
                turn : BOOLEAN, anyDone : BOOLEAN, out : Seq(Events)]
SessionType == [queue : Seq(QueuedType), nextId : Nat, editing : Nat \cup {NoId},
                entries : Seq(EntryType), pending : Prompts, working : BOOLEAN,
                userStopped : BOOLEAN, restart : BOOLEAN, deleted : BOOLEAN,
                nativeId : BOOLEAN, forkSource : BOOLEAN, forkPrompt : Prompts,
                forkFailed : BOOLEAN, run : RunType]

\* Every field of the session keeps the type its declaration gives it.
TypeOK ==
    /\ session \in SessionType
    /\ view \in Nat \cup {NoId}
    /\ stale \in Seq(Events \cup {"ended"})
    /\ fresh \subseteq Messages
    /\ log \in Prompts

\* The spinner never outlives the run it stands for, and a deleted chat has
\* neither: `working` without a run could not be stopped or answered.
WorkingHasRun ==
    /\ session.working => HasRun(session)
    /\ session.deleted => ~HasRun(session)

\* A fork that copies its parent's native session no more, since the copy failed
\* or because it has a session of its own by now.
GaveUpSource(s) == Forked /\ ~s.forkSource

\* A prompt waits in prompt_after_stop only behind a run that is still there and
\* is being stopped; otherwise nothing would ever start it.  The exception is a
\* fork whose copy failed: the fallback run takes the place of the run that was
\* being stopped (run_ended), and the prompt waits behind that one.
PendingHasStop ==
    session.pending # <<>> =>
        session.working /\ HasRun(session) /\ (GaveUpSource(session) \/ session.run.stopping)

\* Merging never makes other messages the arguments of a slash command (deliver,
\* "Merging would turn the other message into the command's arguments").
Unglued(p) == Len(p) > 1 => \A i \in DOMAIN p : p[i] \notin Commands

CommandsNeverGlued ==
    /\ Unglued(session.pending)
    /\ Unglued(session.run.prompt)
    /\ Unglued(session.forkPrompt)

\* What every method keeps of a session, whatever the order of the calls.
Coherent(s) ==
    /\ ~HasRun(s) => s.run = NoRun
    /\ s.working => HasRun(s)
    /\ s.deleted => ~HasRun(s)
    /\ s.pending # <<>> => s.working /\ (GaveUpSource(s) \/ s.run.stopping)
    /\ ~Forked => ~s.forkSource
    /\ ~s.forkSource => s.forkPrompt = <<>>
    /\ Unglued(s.pending) /\ Unglued(s.run.prompt) /\ Unglued(s.forkPrompt)

\* The inductive invariant behind WorkingHasRun, PendingHasStop and
\* CommandsNeverGlued: the session is coherent, and the leftovers of a replaced
\* run are only ever applied to a session that has the new run.
SessionInv ==
    /\ TypeOK
    /\ Coherent(session)
    /\ stale # <<>> => HasRun(session) /\ ~session.deleted

\* Two queued messages never share an id, and the message in the composer stays
\* queued until the user ends the edit, sends it or removes it: no turn end, run
\* end or other message takes it out of the queue.
EditedStaysQueued ==
    /\ \A i, j \in DOMAIN session.queue :
          session.queue[i].id = session.queue[j].id => i = j
    /\ session.editing # NoId => session.editing \in QueueIds(session)

\* No message is handed to an agent twice; a fork may hand its first prompt over
\* once more, when copying the parent's native session failed.
ReadAtMostOnce ==
    \A m \in Messages :
        Cardinality({i \in DOMAIN log : log[i] = m}) <= IF Forked THEN 2 ELSE 1

\* Agents read messages in the order in which the transcript shows them.
EntryAt(m) == {i \in DOMAIN session.entries : session.entries[i].msg = m}

ReadInOrder ==
    \A i, j \in DOMAIN log :
        i < j => \A a \in EntryAt(log[i]), b \in EntryAt(log[j]) : a < b

\* A message on its way to an agent: waiting for a stop, for the process to
\* start, or in the steering channel of a run that will still read it.
InFlight ==
    ToSet(session.pending) \cup ToSet(session.run.prompt) \cup ToSet(session.run.inbox)

Queued == {session.queue[i].msg : i \in DOMAIN session.queue}

Undelivered == {e \in ToSet(session.entries) : e.undelivered}

Kept == Queued \cup InFlight \cup ToSet(log) \cup {e.msg : e \in Undelivered}

\* What the user sent stays queued, on its way, read by an agent, or shown as "Not
\* delivered", whatever is stopped, steered or sent at once.  Stop takes back what
\* waits for a stop, and a steer the agent has not read goes with the stopped run.
NothingLost ==
    [][ \A m \in Kept :
          \/ m \in Kept'
          \/ m \in ToSet(session.pending) /\ session'.userStopped
          \/ m \in ToSet(session.run.inbox) /\ session.run.stopping ]_vars

\* While the agent is at work the chat says so, or an event that will make it say
\* so is on its way: a steer read just after a turn ended, or a turn the agent
\* starts by itself, never leaves the chat looking idle for good.
IdleMeansIdle ==
    LET r == session.run
        QuietAfter(i) == \A j \in DOMAIN r.out : j > i => r.out[j] \notin DoneEvents
    IN  (r.phase = "live" /\ r.turn /\ stale = <<>>) =>
            \/ session.working /\ QuietAfter(0)
            \/ \E i \in DOMAIN r.out : r.out[i] \in ResumeEvents /\ QuietAfter(i)

\* After Stop the queue waits for the user: no event of a run makes the session
\* go on by itself (test "...continues_after_a_failed_turn_but_not_after_stop").
StopHoldsQueue ==
    [][TaskNext /\ session.userStopped => session'.userStopped]_vars

\* Stop, and Send now, always get rid of the run they interrupt.
StopTakesEffect == session.run.stopping ~> ~session.run.stopping

UserEnded == session.userStopped \/ session.deleted

\* A message sent while the agent is being stopped is read after the stop (test
\* message_sent_while_stopping_runs_after_the_stop), unless the user stops again.
SentAfterStop ==
    \A m \in Messages :
        (m \in ToSet(session.pending)) ~> (m \in ToSet(log) \/ UserEnded)

\* Messages queued behind a working agent all go out, unless the user stops the
\* agent or holds one in the composer.
QueueDrains ==
    (session.working /\ session.queue # <<>> /\ ~session.userStopped)
        ~> (session.queue = <<>> \/ UserEnded \/ session.editing # NoId)
=============================================================================
