# Verification of Wu's agent chats and remote connection

Wu is a code editor with coding agents built in: a chat hands the user's
messages to a Claude, Codex or OpenCode process and shows what it does. It is a
fork of an established editor; this project looks at the parts that carry Wu's own
logic and at how the editor keeps its connection to a remote host. Paths below are
relative to the repository.

## Inventory

| Component | State | Operations | Talks to | What makes it correct |
|---|---|---|---|---|
| Agent session (`crates/agent_chat/src/session.rs`, `AgentSession`) | `working`, `run`, `queue`, `prompt_after_stop`, `user_stopped`, `restart_on_next_send`, fork fields, transcript | `send_message`, `deliver`, `stop`, `send_queued_now`, `steer_queued`, `retry_undelivered`, `run_ended`, `fail_run`, `apply_event`, `close_for_deletion` | harness by a steering channel, an interrupt token and an event stream | no message lost or read twice; never working without a run; commands never merged; Stop holds the queue |
| Queue panel (`chat_view/queue_panel.rs`) | the id of the message in the composer | edit, cancel, save | session | an edited message is not sent behind the user's back |
| Claude run (`crates/agent_harness/src/claude.rs`) | pending steers, held turn end, interrupt flags | the `select!` loop of `run_session` | the child process, the session | the chat is told of every turn end, and while the loop goes on never ahead of a steer; an interrupt always ends the run |
| Permission prompts (`claude.rs`, `session.rs`) | `pending_questions`, one oneshot per prompt | ask, answer, drop | user, child process | a dropped prompt is a denial; the agent waits for nobody but the user |
| Agent store (`session.rs`, `AgentStore`) | live sessions, metadata list, files | create, open, fork, delete, save | disk, sessions | a deleted chat stays deleted once its files are removed; the last state wins on disk; a fork copies an unchanged parent |
| Codex and OpenCode runs, JSON-RPC | turn router, pending requests | as the Claude run | child processes, HTTP | the same contract as the Claude run |
| Remote channel (`crates/remote/src/remote_client.rs`, `ChannelClient`) | ids, resend buffer, `max_received`, response table | send, request, receive, flush, resync, reconnect | its peer over a connection that drops | nothing lost across a drop; answers reach their request |
| Remote client (`RemoteClient`) | `State`, attempts, missed heartbeats | heartbeat, reconnect, monitor | channel, pool | all attempts are made, then it gives up for good; a lost connection is noticed |
| Connection pool (`ConnectionPool`) | connecting task or connection per host | connect | ssh, WSL | one connection per host, one attempt to make it |
| Text CRDT, RPC peer, executors, project, language servers, UI, ... | | | | inherited; see `PROJECT.json` |

What is hard: the session lives on the UI thread and the harness on another, so
the session decides from what it has been told so far; a run may be replaced
from inside the task that reads its events; processes die in any state; and the
remote connection loses, repeats and reorders messages at a drop, while the windows on
a host kill the connection they share. Opening a chat and the writes of its files
happen between other steps of the store. `PROJECT.json`
lists these hazards with the line where each bites.

## Modules

| Module | Models | Proofs |
|---|---|---|
| `AgentSession` | one chat: session, queue panel, and the harness as the session sees it | `AgentSession_proofs`, `SessionQueue_proofs` |
| `HarnessContract` | abstract: what a harness promises the chat that runs it | |
| `ClaudeRun` | `run_session` between the chat and the CLI, permission prompts included; implements `HarnessContract` | `ClaudeRun_proofs`, `ClaudeContract_proofs` |
| `SessionStore` | `AgentStore`, the open sessions and the files of the chats | `SessionStore_proofs`, `StoreMetadata_proofs` |
| `RemoteChannel` | two `ChannelClient`s and the connection between editor and server | `RemoteChannel_proofs` |
| `RemoteClient` | `RemoteClient` and `ConnectionPool`: the windows on one host | `RemoteClient_proofs` |

`MCAgentSession`, `MCClaudeRun`, `MCSessionStore`, `MCRemoteChannel` and
`MCRemoteClient` give the constants values. Operators commented `Mutant:` are
plausible bugs; each checked property is known to notice one of them.

The models meet at interfaces rather than in one product. `AgentSession` assumes
that its run takes steers in order, ends turns, answers an interrupt and closes
its stream; `HarnessContract` states those steps, and `ClaudeRun` is proved to
make no others. `RemoteClient` says when a connection is replaced;
`RemoteChannel` says what the messages in transit then suffer.

### AgentSession

A method on `&mut self` is an operator from a session record to a session
record (`Deliver`, `RunEnded`, `ApplyEvent`, ...); an action is one handler, that
is the composition of every method it calls.

* User actions: `Send`, `Retry`, `SteerQueued`, `SendQueuedNow`,
  `RemoveQueued`, `MoveQueued`, `BeginEdit`, `CancelEdit`, `SaveEdit`, `Stop`,
  `ChangeSettings`, `Delete`.
* The events task of a run: `ReceiveEvent`, `ReceiveEnd`, `ReceiveFailure`, and
  `ReceiveStale` for what a task still applies after its own run was replaced.
* The harness: `HarnessStart`, `HarnessFail`, `HarnessEmit`,
  `HarnessTakeSteer`, `HarnessTurnEnd`, `HarnessInterrupt`, `HarnessCrash`,
  `HarnessClose`. Between leaving its loop and dropping its channels a run is
  "closing": a steer is accepted and never read.

`nativeId`, `forkSource` and `forkPrompt` are the fields of a native fork. The first event
that names a native session ends its copying (`SetNativeId`, from a start or a
completed turn), a failed copy does when the run ends (`RunEnded`). The error notices
held back in between are left out.

Data is abstract: a message is a model value, a prompt the sequence of messages
merged into it, the transcript its user entries and what kind of entries follow
each. Reading a steer and reporting it (`Steered`) is one step here; how the
Claude run brings that about is the subject of `ClaudeRun`.

### ClaudeRun and HarnessContract

`run_session` is one `select!` loop. Each branch is an action, enabled only
while the task is at its select (`Selecting`): a branch that sends events waits for room in
the event channel, and what it still has to send is `sending`. After the loop come
the events of the exit (`ExitEvents`), `shutdown_child` (`Shutdown`) and the end
of the task. The events of the exit begin with a turn end that is held back, although
the steers it was held for are still pending (`claude.rs:975`); those are never
reported, which is what `NoEndBeforeSteer` says of an end sent after the loop. The interrupt's escalation (`Escalate`) and the tasks that answer
permission prompts (`Respond`) run beside it. The CLI is external and modelled
from what the code and its comments expect of it: it may replay a
steer, replay only the last of several, absorb one without a word, end its turn
before it takes a steer, begin a turn by itself, ask for permissions, ignore an
interrupt, or die. The chat is reduced to `working`, to what it sent and
answered, and to the two ways in which it lets go of a run.

The refinement (`KeepsContract`): steers that wait are those the loop still
confirms, in `sending` and `pending`, followed by those in the channel; the
phase is "closing" once nothing more will be said. Everything the CLI does is a
stutter of the contract.

### SessionStore

The store and its sessions live on one thread, so each method is one action;
what they write goes through tasks. Metadata writes are two chains per
chat, the store's and the session's, and `HandOver` is what opening does with
them. Transcript saves go through `waiting` (the debounce) and `writing`.
Opening and loading read in the background between two actions. `fork_session` is
two actions, the opening and `Fork`: between them the parent may have been deleted, and
the fork is then made from the session its task still holds (`MayFork`). `Crash` keeps
the files and nothing else; the histories `deleted` and `spared` outlive it and say
which chats were deleted, and which of these still had their files when Wu was killed. Metadata is a version, the number of turns the
chat moved on, and the fields of a fork; `updated_at` counts turns where the code
has seconds, so that the code's `>=` in the test for stale forks errs on
the side of giving up a native fork and the model's `>` does not.

### RemoteChannel

Both sides send and ask; their response tables and receive loops are the same code. The
client sends nothing before the server's RemoteStarted, and first the ping. The
server may notify before it has heard of the client (HideToast, `server.rs:1091`),
possibly under id 0, but asks only about what the client gave it: a buffer
(`headless_project.rs:345`), a language server (424) or a search (1065, 1095). So
`MaySend` lets it ask once it has handled a message of the client.

Foreground senders are atomic with respect to the receive loop, which shares
their thread; background senders number, buffer and queue an envelope in three
steps. A drop loses a suffix of what is in transit; the client then gets new
queues, the server keeps its own (`start_server`). A connection that drops before
the first ping is answered ends the attempt and is not modelled. Response
streams behave as requests do and are left out.

### RemoteClient

A client record holds `RemoteClient::state` and the locals of its tasks: `step`
is where `new` or the first task of `reconnect` is, `beat` the heartbeat,
`monitored` the monitor. `Reconnect`, `Recovered` and `Missed` are the methods of
the same name. A connection is a name that is reused when nobody holds it,
which is what the weak references of the pool observe. `conns[k].killed` ends
the proxies on it; `silent` is a network that reports no error.

## Runs

Every passing run explores its instance completely. Deadlock is not checked: a
chat may be idle, a run over, a store unused and a channel quiet forever.

| Run | Question | Result |
|---|---|---|
| `session_live` | stopping, steering, Send now, with a slash command: merged prompts, order of reading, idle indication, nothing lost; Stop takes effect, messages sent meanwhile are read, the queue drains | holds |
| `session_queue` | a forked chat, all queue operations, retries, a queue loaded from disk, settings, deletion, runs that cannot start, crashes, a steering channel of capacity one: the inductive invariant, edits | holds |
| `session_stop_race` | Stop while the completion is on its way | the queue goes on |
| `session_crash` | a queued message and a dying process | the message is lost |
| `claude_run` | steers, replays, turn ends held back behind steers while the loop goes on, interrupt, crash, unreadable output, a permission prompt, a chat that leaves; the refinement | holds |
| `claude_live` | idle is shown, an interrupt ends the run, a blocked CLI waits for the user only | holds |
| `claude_silence` | a turn that is silent for five seconds after a steer interrupted the one before | the chat looks idle |
| `session_store` | renames, turns, forks (of a chat deleted meanwhile, too), two openings at once, deletion and a kill while writes wait | holds |
| `store_stale_fork` | the parent of a fork moves on while the fork is being opened | the fork copies a parent that moved on |
| `remote_reconnect` | foreground senders and requests on both sides, one drop: nothing lost, order until the drop, requests are answered, the resync ends | holds |
| `remote_threads` | a background sender on each side, requests of both, one drop: each message handled once until then, answers match | holds |
| `remote_client` | two windows, connections that die, go silent or are killed by the other window, a window that closes: one connection, all attempts made, no comeback, reconnects end, losses are noticed | holds |

The findings in `PROJECT.json` explain the four runs that end in a violation. Where
a passing run leaves something out because the code does not hold there, the
hazard in `PROJECT.json` says so:

* `NothingLost` of the channel is checked and proved for foreground senders and one drop: a second drop
  during the resync, or background senders that queue envelopes in another
  order than they number them, lose messages.
* `NothingLost` of a chat is checked without crashes, settings changes and
  compactions: a replaced run takes the messages it has not read with it.
* `DeletedForGood` leaves out a deletion while the list is being loaded (the
  merge brings the chat back) and a chat whose files were not yet removed when Wu was
  killed (`spared`; the detached task of `session.rs:2904` was to do it), and `NoStaleCopy` a kill between the metadata
  writes of two chats.
* `LossNoticed` is about a client whose monitor and heartbeat timer run. A proxy that
  ends between the last answer and the step to Connected, and a quiet ping that
  disarms the timer (`continue` at `remote_client.rs:818`), leave it without one.
* A native fork that fails while it is being stopped strands the waiting message:
  the fallback run starts instead, and is not being stopped. `PendingHasStop` leaves
  out forks that gave up their source (`GaveUpSource`). And a run that fails to start under Send now marks the wrong message.

### Bounds

* `session_*`: two to four messages are enough for every pairing the session
  distinguishes: one being read, one waiting for a stop, one queued, one in the
  composer. `SteerCap` is one where the full channel is the subject and three
  (never full) elsewhere; it is 32 in the code. `OutCap` bounds the events waiting
  for the UI thread: chatter stops one short of it so that a turn end always
  fits. `MaxIds` bounds how often a message goes back to the queue.
* `claude_*`: two steers are what it takes for one to supersede the other, and for
  one to be pending while the next is in the channel; channels of capacity one make
  every send wait. One permission prompt covers a blocked CLI. `claude_live` has one
  steer, because its properties compare ends, not steers.
* `session_store`: one saved chat and one that is created or forked, two openings at
  once, one kill. The saved chat changes once, which leaves a fork behind; the
  other twice, so that a write queued before an opening meets one queued after it.
  The openings are interchangeable and declared symmetric (only safety is checked).
* `remote_reconnect`, `remote_threads`: two messages of the client, the ping and one
  more, and one of the server, each a notification or a request, besides the answers,
  give a message before, during and after a drop. An answer may overtake what a
  background thread has numbered and not queued, on either side.
* `remote_client`: two windows, of which one may close; `MaxAttempts` and `MaxMisses` are two (three and
  five in the code), the least that tells a first attempt from a
  last one. Three connections are never all held at once by two windows, so a
  free name always exists.

### Fairness

For a session: the UI thread polls the events task; the harness reads its
steering channel; an interrupt is escalated to a kill (`escalate_interrupt`);
a run that left its loop drops its channels; `harness.run` returns. That an agent
ends its turns is an assumption on the agent. For a Claude run: tokio polls the
task, the escalation and the permission tasks; `select!` picks its branches in
random order, so an interrupt or a steer that keeps being ready is taken (strong
fairness); the CLI reads its stdin and takes what it read; the UI thread receives.
That a turn ends is not assumed. For a remote client: tasks are polled, timers
fire, an attempt to connect ends, a proxy whose connection was killed ends; nothing
of the server. For the channel: both receive loops, both writers and the handlers
run, and a dropped connection is replaced, which is an assumption on the network
within the client's attempts. Users and applications are never assumed to do
anything. `SessionStore` is checked for safety only.

## Proofs

All theorems hold for every value of the constants that satisfies the named
assumptions of the module (commands are messages, bounds are naturals,
connections are naturals, limits are positive, and the like). Every property
named in parentheses below is also checked by a run on a small instance. Liveness
under fairness is beyond the proof system and stays with the runs.

`AgentSession_proofs`:

* `SessionInvariant`: `Spec => []SessionInv`
* `TypeCorrect`, `NoWorkWithoutRun`, `PendingIsStarted`, `CommandsStayWhole`:
  `TypeOK`, `WorkingHasRun`, `PendingHasStop` and `CommandsNeverGlued` always hold.
  `PendingHasStop` says that the run a prompt waits behind is being stopped, except
  in a fork that gave up its source.

`SessionInv` is the type invariant, `Coherent(session)` and a fact about
leftovers. The three safety properties are not inductive alone. `WorkingHasRun`
needs to know that leftover events, which may set `working`, are applied only
to a session that has a run. `PendingHasStop` needs that a session with a
waiting prompt works, or `deliver` could overwrite it; and, to exempt no more forks than
it must, that a fork has a prompt to fall back on only while it still has its source. `CommandsNeverGlued`
needs it of all three places a prompt can sit in, since `run_ended` moves it
between them. The lemmas follow the call graph: each method keeps a session
coherent (`StartRunCoherent`, `DispatchCoherent`, `DeliverCoherent`,
`RunEndedCoherent`, `ApplyEventCoherent`), `SameCore` disposes of methods that
touch only queue or transcript, and each group of actions keeps the invariant
(`UserNextInv`, `TaskNextInv`, `HarnessNextInv`).

`SessionQueue_proofs`:

* `EditIsSafe`: `Spec => []EditedStaysQueued`
* `NothingReadTwice`: `LoadedOnce`, `NothingResent` imply `Spec => []ReadAtMostOnce`
* `ReadAsWritten`: the same with `~Forked` imply `Spec => []ReadInOrder`
* `WorkIsShown`: `Spec /\ []Undisturbed => []IdleMeansIdle`
* `NothingGetsLost`: `"fail" \notin Faults`, `NothingTakenBack` imply
  `Spec /\ []Undisturbed => NothingLost`

That the message in the composer stays queued under an id of its own rests on
the ids: none in the queue is above the last one given out (`Numbered`), or a
new message could take the id of the one being edited. The queue loaded from a
file meets this as the counter starts behind it.

That nothing is read twice is about the log alone, so its invariant counts:
`OnceInv` says that the copies of a message, not typed, queued, waiting for a
stop, in the prompt or the steering channel of the run, or read, are one at
most, and two for a fork once its fallback may run. Each method keeps the sum of
what it takes and of what there is (`Once`, `DeliverOnce`, `RunEndedOnce` and so
on). `OrderInv` adds that what was read, the prompt, the steering channel and what
waits for a stop, in this order, stand in the order of the transcript, and that
a queued message has not entered the transcript (`Lined`, `Apart`). Both assume
that the file held no message twice (`LoadedOnce`; a message stands for one typing
of a text) and that Retry is not used where a run may fail to start
(`NothingResent`): `fail_run` may mark a message that is read all the same
(hazard `session.rs:1354`), and retrying it sends it twice. A fork's fallback reads
its first prompt again, hence `~Forked` for the order. Crashes, settings,
compactions and full channels are all covered.

`IdleMeansIdle` and `NothingLost` do not hold of every behaviour: a run that is
replaced while it goes on takes its messages with it, and its leftover events
then speak for the new run. `Undisturbed` says that this has no occasion: the
steering channel has room, nobody asks for a new process (settings, compaction),
and a run leaves its loop only when it is interrupted. It is assumed of the
behaviour, not of the constants, so both theorems hold of a chat up to the
moment one of the three happens, and dropping any of the three lets TLC violate
`IdleMeansIdle`; for `NothingLost`, `session_crash` is an example. `CalmInv` then
says that no leftover events exist and, as `Smooth`, that a turn which goes on is
shown by `working` with no turn end on its way, or by an event on its way which no
turn end follows. `TailQuiet` and `AppendQuiet` carry this over the two ends of
the event stream, and `ApplyEventSmooth` over `send_next_queued`, which may hand the
run a message in the middle of its events. `NothingGetsLost` adds that a run that
has begun has sent its prompt, and one that is closed has nothing left in its
channel, so that `start_run` and `run_ended` drop only empty runs (`RunEndedHas`,
`DispatchHas`). It is about a user who does not remove, edit or delete
(`NothingTakenBack`) and runs that start: one that fails drops the messages steered
into it before it had started.

`RemoteChannel_proofs`:

* `ChannelInvariant`: `Spec => []Inv`; from it `TypeCorrect` and `Matching`
  (`TypeOK`, `AnswersMatch`), for any number of drops
* `AtMostOnce`: `Spec => []HandledOnce`
* `ForegroundOrder`: `Threads = {}` implies `Spec => []InOrder`
* `NoMessageLost`: `Threads = {}` and `MaxDrops <= 1` imply `Spec => []NothingLost`

`AnswersMatch` is not inductive: it needs to know what every envelope refers to,
wherever it is. `Core` says of both buffers, queues and wires that a response
carries an id under which no flush of the other side waits, and that an ack
answers a flush of the other side or id 0 (`Sound`). Ids are given out once, so what
is sound stays so (`StaySound`), buffered or resent. `Begun` says why nothing waits under
id 0 on either side: the client asks only when it has given an id to its ack of
RemoteStarted, and the server only when a message of the client has reached it, before
which came the client's RemoteStarted and so an ack of the server's own. `Inv` is both, and the proof has one lemma per
operation of a `ChannelClient` for each. The order is an invariant of the line
from a sender to its peer's handlers, the wire followed by the queue (`Orderly`):
`Transmit` leaves it as it is, receiving takes its head, sending adds to its
end, and what background threads have in hand is apart from all of it. It holds
until the first drop because nothing is resent before.

That nothing is lost rests on what an acknowledgement of id a says: whoever sent the
messages up to a may forget them, as they were handled (`Told`). `LossInv` divides a run
of the system in three. Until the server reads the flush it has every message of its
own in its buffer that the client has not handled (`ServerInv`), because each
acknowledgement it will have read by then is `Told`; until the client reads the answer
the same is true of the client (`ClientInv`); afterwards the lines are whole again
(`WholeInv`): the resent buffer is behind all that the drop left of them. What
makes an acknowledgement `Told` is that a line brings messages without a gap up to the
flush (`Gapless`), which survives a drop, as it cuts a line off at its end. The
flush itself carries an acknowledgement from before the drop, and the answer and the
acknowledgement of RemoteStarted carry none. The two assumptions are those under which
the code loses nothing: after a second drop a gap precedes what is still queued, and
background senders number envelopes in one order and queue them in another. The
invariant was model-checked on the instance of `remote_reconnect` before it was proved.

`RemoteClient_proofs`:

* `Invariant`: `Spec => []IInv`; from it `TypeCorrect`, `SharesOneConnection`
  and `GivesUpAfterAll` (`TypeOK`, `OneConnection`, `GivesUpLate`)
* `NeverComesBack`: the action property `NoComeback`

`IInv` says what a client holds at each step of each state and how its counters
relate (`attempts` is one more than `failures` while an attempt is under way), and
that the pool's entry names the only connection that is not killed. `OneConnection`
alone is not inductive: a reconnect that joins the pool must have killed the
connection it still names, and every window that waits must be known to the
pool, or a second connecting task could start beside it.

`SessionStore_proofs`, both under `NoDeleteWhileLoading`:

* `DeletionHolds`: `Spec => []DeletedForGood`
* `NothingIsForgotten`: `Spec => []NothingForgotten`

The first is about every deleted chat but the `spared`, whose files a kill left
behind and which the next start lists again. Its invariant adds that a deleted chat
has no writes in either chain, no save under way and no entry in the load once its
files are gone. The assumption is needed: a chat deleted between the reading and the
merging of the list comes back. For the second it says of whatever is under way what
it holds (`TextInv`): what a save writes, what an opening has read, and what
`load_all_metadata` found are each no more than the transcript and no less than the
file, and nothing is saved for a chat that is not open (`NoStrayWrites`).

`StoreMetadata_proofs`, under `NoDeleteWhileLoading` and `NoChangeWhileOpening`:

* `FilesInOrder`: the action property `MetadataInOrder`
* `QuietIsSaved`: `Spec => []SavedWhenQuiet`
* `ForksCopyTheirParent`: `Spec => []NoStaleCopy`

The second assumption excludes the race that `StoreStaleFork.cfg` exhibits: a
change of the list while the chat is being opened. A chat's metadata is written
by two chains, that of the store while it is closed and that of its session while
it is open. The invariant says that at most one of them holds writes, and
that versions rise from the file through that chain to the list or the session;
so no older one can overwrite a newer, and when both chains are empty the file
is the newest. For forks it adds that a parent whose native session is still to be
copied stays as it was when the fork was made; a crash between the two writes
of a fork leaves no such fork behind.

`ClaudeRun_proofs`:

* `NeverAllowed`: `Spec => []NeverAllowedUnasked`
* `TextBelowSteer`: `Spec => []Attributed`
* `EndNeverSwallowed`: `Spec => []EndShows`
* `ChatAgrees`: if `"silence"` is not in `Faults`, `Spec => []Agreement`

The first invariant adds that a request whose task holds a "yes" is one the user
allowed. It does not rest on the capacities or on what the CLI does.

The second property speaks of the events on their way to the chat, and what makes it
true lies on the other side of the loop. Let c be the number of steers the
chat will have been told of when those events have arrived. `TextInv` says
that the pending steers are numbered from c + 1 and those in the channel from behind
them (`InLine`), that whatever is on its way to the agent, waits there or was replayed
is among the steers the loop has taken, and that each line of text in stdout
answers a steer already reported or one that a replay ahead of the line will
report (`Follows`). A replay then confirms all steers up to its own
(`ReplayReports`), so that a line of text which reaches the head of stdout answers a
reported steer; a turn end held back and released by the timeout only
confirms more.

The last two compare the chat with the agent once nothing is under way.
`UnreadInv` follows the steers the chat has not been told of: they are replayed,
queued at the agent or on their way to it, in the order of their numbers, so that none
is left when all queues are empty. `ShowInv` follows the end of a turn: the
last line of stdout that begins or ends one, and failing that the last such event on
its way, says whether the agent is in a turn. `EndShows` is the direction that holds
whatever happens (an agent that ended its turn is not shown working for ever);
the other one rests on replays arriving within HELD_DONE_SETTLE, which is why
`claude_silence` ends in a violation and `ChatAgrees` excludes it.

`ClaudeContract_proofs`:

* `RunInvariant`: `Spec => []Inv`; from it `TypeCorrect` and `LastWord`
  (`TypeOK`, `EndReported`)
* `EndAfterSteers`: the action property `NoEndBeforeSteer`
* `KeepsTheContract`: `Spec => KeepsContract`, that is `Contract!Spec`: the
  initial states of a run are those of the contract, and every step maps to a
  step of the contract or to a stutter

`Inv` types the state (`Types`) and says in which order a run reports (`Order`).
What the loop has yet to send splits into confirmed steers and a rest (`Queued`).
The rest confirms nothing, holds a turn end inside the loop only when no steer is
pending, and outside the loop ends with "interrupted" if the run was; `Locals` says
what may be held back, and `Told` what the chat has heard. None of the properties is
inductive alone: that a turn end finds nothing pending when it is sent has to be
known from the moment it is queued (once the loop is left the held end is queued
whatever is pending, and what `NoEndBeforeSteer` says of it is that no report of a
steer is queued behind it), and that an interrupted run says so exactly once rests
on the event being last wherever it is, in `sending`, in the channel, or received.
In the refinement, the split makes the steers that wait a sequence, of which
`SendEvent` removes the head and the reads of the loop only move elements
(`ReadReplayContract`, `HoldExpiresContract`, `AcceptSteerContract`); the rest of
`Inv` gives the guards of `Interrupted` (the token is cancelled) and `Leave` (a turn
end was reported).

Only model-checked is liveness: that something is done in the end, under the fairness
stated in each module. Every safety invariant and every action property that a passing
run checks is proved, under the assumptions named above.

## Not modelled

Rendering, wire formats, titles, usage accounting and logging. Codex and
OpenCode runs: `HarnessContract` is what they would have to be shown to keep.
Response streams of the channel. Account, catalog and plan-usage discovery. The
inherited editor subsystems, among them the text CRDT, which share no state with
the parts modelled here; they make up nearly all of the repository's lines, so
that the modelled share of the whole is small.

Left out inside the modelled parts: `handle_heartbeat_result` in the 50 ms in
which a closing window has taken the state (it would panic there); a transcript
write that is still running when the next one begins half a second later; a
steer's attachments, which can only add error events.
