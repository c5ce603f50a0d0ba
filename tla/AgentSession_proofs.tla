------------------------ MODULE AgentSession_proofs ------------------------
(***************************************************************************)
(* Proofs about AgentSession, for every set of messages and commands, every *)
(* queue read back from disk and every capacity of the channels.            *)
(***************************************************************************)
EXTENDS AgentSession, TLAPS, SequenceTheorems, WellFoundedInduction

-----------------------------------------------------------------------------
(* Sequences.                                                               *)

\* Removing a queued message or a transcript entry leaves a sequence of the same kind.
LEMMA RemoveAtType ==
    ASSUME NEW S, NEW q \in Seq(S), NEW i \in DOMAIN q
    PROVE  RemoveAt(q, i) \in Seq(S)
<1>1. Len(q) \in Nat /\ DOMAIN q = 1 .. Len(q)
    BY LenProperties
<1>2. \A j \in 1 .. Len(q) : q[j] \in S
    BY ElementOfSeq
<1>3. SubSeq(q, 1, i - 1) \in Seq(S)
    BY <1>1, <1>2, SubSeqProperties
<1>4. SubSeq(q, i + 1, Len(q)) \in Seq(S)
    BY <1>1, <1>2, SubSeqProperties
<1> QED
    BY <1>3, <1>4, ConcatProperties DEF RemoveAt

\* Inserting an element, at the latest after the last, keeps the kind of a sequence.
LEMMA InsertAtType ==
    ASSUME NEW S, NEW q \in Seq(S), NEW i \in 1 .. Len(q) + 1, NEW e \in S
    PROVE  InsertAt(q, i, e) \in Seq(S)
<1>1. Len(q) \in Nat
    BY LenProperties
<1>2. \A j \in 1 .. Len(q) : q[j] \in S
    BY ElementOfSeq
<1>3. SubSeq(q, 1, i - 1) \in Seq(S)
    BY <1>1, <1>2, SubSeqProperties
<1>4. SubSeq(q, i, Len(q)) \in Seq(S)
    BY <1>1, <1>2, SubSeqProperties
<1>5. <<e>> \in Seq(S)
    OBVIOUS
<1> QED
    BY <1>3, <1>4, <1>5, ConcatProperties DEF InsertAt

-----------------------------------------------------------------------------
(* Runs and prompts.                                                        *)

\* The run start_run creates is a run.
LEMMA NewRunType == \A p \in Prompts : NewRun(p) \in RunType
BY DEF NewRun, RunIn, RunType, Phases, Prompts

\* The absent run is a value of the run's type, is not being stopped and holds no prompt.
LEMMA NoRunType == NoRun \in RunType /\ ~NoRun.stopping /\ NoRun.phase = "none" /\ NoRun.prompt = <<>>
BY DEF NoRun, RunIn, RunType, Phases, Prompts

\* A prompt of at most one message has no command glued into it.
LEMMA UngluedSmall == Unglued(<<>>) /\ \A m \in Messages : Unglued(<<m>>) /\ <<m>> \in Prompts
BY DEF Unglued, Prompts

\* Prompt::merge of a message into a prompt, neither being a command, glues none.
LEMMA MergeKeepsUnglued ==
    ASSUME NEW p \in Prompts, NEW m \in Messages, Unglued(p),
           p # <<>> => ~IsCommand(p) /\ m \notin Commands
    PROVE  Merge(p, m) \in Prompts /\ Merge(p, m) # <<>> /\ Unglued(Merge(p, m))
<1>1. CASE p = <<>>
    BY <1>1, UngluedSmall DEF Merge, Prompts
<1>2. CASE p # <<>>
    <2>9. Len(p) >= 1
        BY <1>2 DEF Prompts
    <2>1. \A i \in DOMAIN p : p[i] \notin Commands
        BY <1>2, <2>9 DEF Unglued, IsCommand, Prompts
    <2>2. \A i \in DOMAIN Append(p, m) : Append(p, m)[i] \notin Commands
        BY <1>2, <2>1 DEF Prompts
    <2> QED
        BY <2>2 DEF Merge, Unglued, Prompts
<1> QED
    BY <1>1, <1>2

-----------------------------------------------------------------------------
(* Types: every method of the session returns a session.                    *)

\* push_user keeps the session's type.
LEMMA PushUserType ==
    ASSUME NEW s \in SessionType, NEW m \in Messages
    PROVE  PushUser(s, m) \in SessionType
<1>1. [msg |-> m, undelivered |-> FALSE, tail |-> "none"] \in EntryType
    BY DEF EntryType
<1>2. s.entries \in Seq(EntryType)
    BY DEF SessionType
<1>3. Append(s.entries, [msg |-> m, undelivered |-> FALSE, tail |-> "none"]) \in Seq(EntryType)
    BY <1>1, <1>2, AppendProperties
<1> QED
    BY <1>3 DEF PushUser, SessionType

\* Rewriting a field of the last transcript entry keeps the session's type.
LEMMA EntryUpdateType ==
    ASSUME NEW s \in SessionType, s.entries # <<>>,
           NEW t \in {"none", "errors", "mixed"}
    PROVE  /\ [s EXCEPT !.entries[Len(s.entries)].tail = t] \in SessionType
           /\ [s EXCEPT !.entries[Len(s.entries)].undelivered = TRUE] \in SessionType
<1>1. s.entries \in Seq(EntryType) /\ Len(s.entries) \in DOMAIN s.entries
    BY DEF SessionType
<1>2. s.entries[Len(s.entries)] \in EntryType
    BY <1>1
<1>3. [s.entries[Len(s.entries)] EXCEPT !.tail = t] \in EntryType
    BY <1>2 DEF EntryType
<1>4. [s.entries[Len(s.entries)] EXCEPT !.undelivered = TRUE] \in EntryType
    BY <1>2 DEF EntryType
<1>5. [s.entries EXCEPT ![Len(s.entries)].tail = t] \in Seq(EntryType)
    BY <1>1, <1>3
<1>6. [s.entries EXCEPT ![Len(s.entries)].undelivered = TRUE] \in Seq(EntryType)
    BY <1>1, <1>4
<1> QED
    BY <1>5, <1>6 DEF SessionType

\* push_notice and its like keep the session's type.
LEMMA PushEntryType ==
    ASSUME NEW s \in SessionType, NEW isError \in BOOLEAN
    PROVE  PushEntry(s, isError) \in SessionType
<1>1. CASE s.entries = <<>>
    BY <1>1 DEF PushEntry
<1>2. CASE s.entries # <<>>
    <2>1. PushEntry(s, isError) =
            [s EXCEPT !.entries[Len(s.entries)].tail =
               IF isError /\ s.entries[Len(s.entries)].tail # "mixed" THEN "errors" ELSE "mixed"]
        BY <1>2 DEF PushEntry
    <2> QED
        BY <1>2, <2>1, EntryUpdateType
<1> QED
    BY <1>1, <1>2

\* Marking the last entry undelivered keeps the session's type.
LEMMA MarkUndeliveredType ==
    ASSUME NEW s \in SessionType
    PROVE  MarkUndelivered(s) \in SessionType
BY EntryUpdateType DEF MarkUndelivered

\* A message with the next id is a queued message.
LEMMA QueuedTypeNew ==
    ASSUME NEW s \in SessionType, NEW m \in Messages
    PROVE  [id |-> s.nextId + 1, msg |-> m] \in QueuedType /\ s.nextId + 1 \in Nat
BY DEF QueuedType, SessionType

\* enqueue keeps the session's type.
LEMMA EnqueueType ==
    ASSUME NEW s \in SessionType, NEW m \in Messages
    PROVE  Enqueue(s, m) \in SessionType
<1>1. s.queue \in Seq(QueuedType)
    BY DEF SessionType
<1>2. Append(s.queue, [id |-> s.nextId + 1, msg |-> m]) \in Seq(QueuedType)
    BY <1>1, QueuedTypeNew, AppendProperties
<1> QED
    BY <1>2, QueuedTypeNew DEF Enqueue, SessionType

\* Putting a message back at the front of the queue keeps the session's type.
LEMMA RequeueType ==
    ASSUME NEW s \in SessionType, NEW m \in Messages
    PROVE  Requeue(s, m) \in SessionType
<1>1. <<[id |-> s.nextId + 1, msg |-> m]>> \o s.queue \in Seq(QueuedType)
    BY QueuedTypeNew, ConcatProperties DEF SessionType
<1> QED
    BY <1>1, QueuedTypeNew DEF Requeue, SessionType

\* What is found in the queue has an id and a message.
LEMMA QueueItem ==
    ASSUME NEW s \in SessionType, NEW i \in DOMAIN s.queue
    PROVE  s.queue[i] \in QueuedType /\ s.queue[i].id \in Nat /\ s.queue[i].msg \in Messages
<1>1. s.queue \in Seq(QueuedType)
    BY DEF SessionType
<1>2. s.queue[i] \in QueuedType
    BY <1>1, LenProperties, ElementOfSeq
<1> QED
    BY <1>2 DEF QueuedType

\* Taking a message out of the queue keeps the session's type.
LEMMA DropQueuedType ==
    ASSUME NEW s \in SessionType, NEW i \in DOMAIN s.queue
    PROVE  [s EXCEPT !.queue = RemoveAt(@, i)] \in SessionType
<1>1. RemoveAt(s.queue, i) \in Seq(QueuedType)
    BY RemoveAtType DEF SessionType
<1> QED
    BY <1>1 DEF SessionType

\* take_queued keeps the session's type.
LEMMA TakeQueuedType ==
    ASSUME NEW s \in SessionType, NEW i \in DOMAIN s.queue
    PROVE  TakeQueued(s, i) \in SessionType
<1>1. RemoveAt(s.queue, i) \in Seq(QueuedType)
    BY RemoveAtType DEF SessionType
<1> QED
    BY <1>1 DEF TakeQueued, SessionType, NoId

\* move_queued keeps the session's type, whatever index it is asked for.
LEMMA MoveToType ==
    ASSUME NEW s \in SessionType, NEW i \in DOMAIN s.queue, NEW to \in Nat
    PROVE  MoveTo(s, i, to) \in SessionType
<1> DEFINE rest == RemoveAt(s.queue, i)
           at   == IF to <= Len(rest) THEN to ELSE Len(rest)
<1>1. rest \in Seq(QueuedType)
    BY RemoveAtType DEF SessionType
<1>2. at + 1 \in 1 .. Len(rest) + 1
    <2> HIDE DEF rest
    <2> QED  BY <1>1
<1>3. InsertAt(rest, at + 1, s.queue[i]) \in Seq(QueuedType)
    <2> HIDE DEF rest, at
    <2> QED  BY <1>1, <1>2, QueueItem, InsertAtType
<1> QED
    BY <1>3 DEF MoveTo, SessionType

\* start_run keeps the session's type.
LEMMA StartRunType ==
    ASSUME NEW s \in SessionType, NEW p \in Prompts
    PROVE  StartRun(s, p) \in SessionType
<1>1. NewRun(p) \in RunType /\ <<>> \in Prompts
    BY NewRunType DEF Prompts
<1> QED
    BY <1>1 DEF StartRun, SessionType

-----------------------------------------------------------------------------
(* Coherence: the methods keep Coherent, one lemma per method.              *)

\* take_next_queued finds a message whenever one is sendable: the indices of a
\* queue are well founded.
LEMMA FirstSendableExists ==
    ASSUME NEW s \in SessionType, Sendable(s) # {}
    PROVE  FirstSendable(s) \in Sendable(s)
<1>1. Sendable(s) \subseteq Nat
    <2>1. s.queue \in Seq(QueuedType)
        BY DEF SessionType
    <2>2. DOMAIN s.queue = 1 .. Len(s.queue) /\ Len(s.queue) \in Nat
        BY <2>1, LenProperties
    <2> QED
        BY <2>2 DEF Sendable
<1>2. \E x \in Sendable(s) : \A y \in Sendable(s) : ~(<<y, x>> \in OpToRel(<, Nat))
    <2> HIDE DEF Sendable
    <2> QED  BY <1>1, WFMin, NatLessThanWellFounded
<1>3. \E x \in Sendable(s) : \A y \in Sendable(s) : x <= y
    <2>1. PICK x \in Sendable(s) : \A y \in Sendable(s) : ~(<<y, x>> \in OpToRel(<, Nat))
        BY <1>2
    <2>2. ASSUME NEW y \in Sendable(s)
          PROVE  x <= y
        <3>1. x \in Nat /\ y \in Nat
            BY <1>1
        <3>2. <<y, x>> \notin {ss \in Nat \X Nat : ss[1] < ss[2]}
            BY <2>1 DEF OpToRel
        <3>3. ~(y < x)
            BY <3>1, <3>2
        <3> QED
            BY <3>1, <3>3
    <2> QED
        BY <2>2
<1> QED
    BY <1>3 DEF FirstSendable

\* start_run makes a working session coherent, whatever its previous run was.
LEMMA StartRunCoherent ==
    ASSUME NEW s \in SessionType, NEW p \in Prompts,
           Unglued(p), Unglued(s.pending), s.working, ~s.deleted,
           s.pending # <<>> => GaveUpSource(s),
           ~Forked => ~s.forkSource
    PROVE  /\ StartRun(s, p) \in SessionType
           /\ Coherent(StartRun(s, p))
           /\ HasRun(StartRun(s, p))
           /\ ~StartRun(s, p).deleted
<1> DEFINE r == StartRun(s, p)
<1>1. r \in SessionType
    BY StartRunType
<1>2. /\ r.working = s.working /\ r.deleted = s.deleted /\ r.pending = s.pending
      /\ r.forkSource = s.forkSource /\ r.run = NewRun(p)
      /\ r.forkPrompt = (IF ~s.nativeId /\ s.forkSource THEN p ELSE <<>>)
    BY DEF StartRun, SessionType
<1>3. r.run.phase = "starting" /\ r.run.prompt = p
    BY <1>2 DEF NewRun, RunIn
<1>4. HasRun(r)
    BY <1>3 DEF HasRun
<1>5. Unglued(r.forkPrompt)
    BY <1>2, UngluedSmall
<1>6. ~r.forkSource => r.forkPrompt = <<>>
    BY <1>2
<1> HIDE DEF r
<1>7. Coherent(r)
    BY <1>2, <1>3, <1>4, <1>5, <1>6 DEF Coherent, GaveUpSource, HasRun
<1> QED
    BY <1>1, <1>2, <1>4, <1>7 DEF r

\* The part of deliver that pushes, merges or starts a run keeps a session coherent
\* when the guard MustWait let the message through.
LEMMA DispatchCoherent ==
    ASSUME NEW s \in SessionType, NEW m \in Messages,
           Coherent(s), ~s.deleted, ~MustWait(s, m)
    PROVE  /\ Dispatch(s, m) \in SessionType
           /\ Coherent(Dispatch(s, m))
           /\ HasRun(Dispatch(s, m))
           /\ ~Dispatch(s, m).deleted
<1> DEFINE u == PushUser(s, m)
           t == [u EXCEPT !.userStopped = FALSE,
                          !.working = TRUE,
                          !.restart = @ /\ s.working,
                          !.run = IF s.restart /\ ~s.working THEN NoRun ELSE @]
<1>1. u \in SessionType /\ u.run = s.run /\ u.pending = s.pending /\ u.deleted = s.deleted
      /\ u.forkSource = s.forkSource /\ u.forkPrompt = s.forkPrompt
    BY PushUserType DEF PushUser, SessionType
<1>2. s.run \in RunType /\ NoRun \in RunType /\ s.pending \in Prompts
      /\ s.restart \in BOOLEAN /\ s.working \in BOOLEAN /\ u.restart \in BOOLEAN
    BY <1>1, NoRunType DEF SessionType
<1>3. /\ t \in SessionType
      /\ t.working /\ ~t.deleted /\ t.pending = s.pending
      /\ t.forkSource = s.forkSource /\ t.forkPrompt = s.forkPrompt
      /\ t.run = (IF s.restart /\ ~s.working THEN NoRun ELSE s.run)
    <2> DEFINE restart == u.restart /\ s.working
               run == IF s.restart /\ ~s.working THEN NoRun ELSE u.run
    <2>1. restart \in BOOLEAN /\ run \in RunType
        BY <1>1, <1>2
    <2>2. t = [u EXCEPT !.userStopped = FALSE, !.working = TRUE, !.restart = restart, !.run = run]
        BY <1>1 DEF SessionType
    <2>3. run = IF s.restart /\ ~s.working THEN NoRun ELSE s.run
        BY <1>1
    <2> HIDE DEF u, t, restart, run
    <2> QED  BY <1>1, <2>1, <2>2, <2>3, ZenonT(40) DEF SessionType
<1>4. Dispatch(s, m) = IF t.run.stopping THEN [t EXCEPT !.pending = Merge(@, m)]
                       ELSE IF CanPush(t.run) THEN [t EXCEPT !.run.inbox = Append(@, m)]
                       ELSE StartRun(t, <<m>>)
    BY DEF Dispatch
<1> HIDE DEF t, u
<1>5. Unglued(t.pending) /\ Unglued(t.run.prompt) /\ Unglued(t.forkPrompt)
    BY <1>3, NoRunType, UngluedSmall DEF Coherent, GaveUpSource
<1>6. (~Forked => ~t.forkSource) /\ (~t.forkSource => t.forkPrompt = <<>>)
    BY <1>3 DEF Coherent, GaveUpSource
<1>7. CASE t.run.stopping
    <2> DEFINE d == [t EXCEPT !.pending = Merge(@, m)]
    <2>1. t.run = s.run
        BY <1>3, <1>7, NoRunType
    <2>2. s.pending # <<>> => ~IsCommand(s.pending) /\ m \notin Commands
        BY <1>7, <2>1 DEF MustWait, Coherent, GaveUpSource
    <2>3. Merge(t.pending, m) \in Prompts /\ Unglued(Merge(t.pending, m))
        BY <1>2, <1>3, <1>5, <2>2, MergeKeepsUnglued
    <2>4. d \in SessionType
        BY <1>3, <2>3 DEF SessionType
    <2>5. /\ d.working /\ ~d.deleted /\ d.run = t.run /\ d.pending = Merge(t.pending, m)
          /\ d.forkSource = t.forkSource /\ d.forkPrompt = t.forkPrompt
        BY <1>3 DEF SessionType
    <2>6. HasRun(s)
        <3>1. CASE s.working
            BY <3>1 DEF Coherent, GaveUpSource
        <3>2. CASE ~s.working
            BY <3>2, <2>1, <1>7, NoRunType DEF Coherent, GaveUpSource
        <3> QED  BY <3>1, <3>2
    <2> HIDE DEF d
    <2>7. Coherent(d) /\ HasRun(d)
        BY <1>5, <1>6, <1>7, <2>1, <2>3, <2>5, <2>6 DEF Coherent, GaveUpSource, HasRun
    <2> QED
        BY <1>4, <1>7, <2>4, <2>5, <2>7 DEF d
<1>8. CASE ~t.run.stopping
    <2>1. t.pending # <<>> => GaveUpSource(t)
        BY <1>3, <1>8 DEF Coherent, GaveUpSource
    <2>2. CASE CanPush(t.run)
        <3> DEFINE d == [t EXCEPT !.run.inbox = Append(@, m)]
        <3>1. t.run \in RunType /\ t.run.inbox \in Seq(Messages)
            BY <1>3 DEF SessionType, RunType, Prompts
        <3>2. Append(t.run.inbox, m) \in Prompts
            BY <3>1 DEF Prompts
        <3>3. [t.run EXCEPT !.inbox = Append(@, m)] \in RunType
            BY <3>1, <3>2 DEF RunType
        <3>4. /\ d \in SessionType
              /\ d.working /\ ~d.deleted /\ d.pending = t.pending
              /\ d.forkSource = t.forkSource /\ d.forkPrompt = t.forkPrompt
              /\ d.run = [t.run EXCEPT !.inbox = Append(@, m)]
            BY <1>3, <3>3 DEF SessionType
        <3>5. d.run.phase = t.run.phase /\ d.run.prompt = t.run.prompt
            BY <3>1, <3>4 DEF RunType
        <3> HIDE DEF d
        <3>6. HasRun(d)
            BY <2>2, <3>5 DEF HasRun, CanPush
        <3>7. Coherent(d)
            BY <1>5, <1>6, <2>1, <3>4, <3>5, <3>6 DEF Coherent, GaveUpSource
        <3> QED
            BY <1>4, <1>8, <2>2, <3>4, <3>6, <3>7 DEF d
    <2>3. CASE ~CanPush(t.run)
        BY <1>3, <1>4, <1>5, <1>6, <1>8, <2>1, <2>3, UngluedSmall, StartRunCoherent
    <2> QED
        BY <2>2, <2>3
<1> QED
    BY <1>7, <1>8

\* What Coherent reads of a session; the queue and the transcript are not in it.
SameCore(s, t) ==
    /\ t.working = s.working /\ t.deleted = s.deleted /\ t.pending = s.pending
    /\ t.forkSource = s.forkSource /\ t.forkPrompt = s.forkPrompt /\ t.run = s.run

\* Coherence depends on nothing but the fields SameCore lists.
LEMMA SameCoreCoherent ==
    ASSUME NEW s, NEW t, SameCore(s, t), Coherent(s)
    PROVE  Coherent(t) /\ (HasRun(s) <=> HasRun(t))
BY DEF SameCore, Coherent, GaveUpSource, HasRun

\* Queueing a message changes nothing coherence depends on.
LEMMA QueueKeepsCore ==
    ASSUME NEW s \in SessionType, NEW m
    PROVE  SameCore(s, Enqueue(s, m)) /\ SameCore(s, Requeue(s, m))
BY DEF Enqueue, Requeue, SameCore, SessionType

\* Taking, dropping or moving a queued message changes nothing coherence depends on.
LEMMA TakeKeepsCore ==
    ASSUME NEW s \in SessionType, NEW i, NEW to
    PROVE  /\ SameCore(s, TakeQueued(s, i)) /\ SameCore(s, MoveTo(s, i, to))
           /\ SameCore(s, [s EXCEPT !.queue = RemoveAt(@, i)])
BY DEF TakeQueued, MoveTo, SameCore, SessionType

\* Writing to the transcript changes nothing coherence depends on.
LEMMA TranscriptKeepsCore ==
    ASSUME NEW s \in SessionType, NEW isError
    PROVE  SameCore(s, PushEntry(s, isError)) /\ SameCore(s, MarkUndelivered(s))
BY DEF PushEntry, MarkUndelivered, SameCore, SessionType

\* deliver keeps a session coherent and leaves it with a run.
LEMMA DeliverCoherent ==
    ASSUME NEW s \in SessionType, NEW m \in Messages, Coherent(s), ~s.deleted
    PROVE  /\ Deliver(s, m) \in SessionType
           /\ Coherent(Deliver(s, m))
           /\ HasRun(Deliver(s, m))
           /\ ~Deliver(s, m).deleted
<1>1. CASE MustWait(s, m)
    <2>1. HasRun(s)
        BY <1>1 DEF MustWait, Coherent, GaveUpSource
    <2>2. Coherent(Requeue(s, m)) /\ HasRun(Requeue(s, m)) /\ ~Requeue(s, m).deleted
        BY <2>1, QueueKeepsCore, SameCoreCoherent DEF SameCore
    <2> QED
        BY <1>1, <2>2, RequeueType DEF Deliver
<1>2. CASE ~MustWait(s, m)
    BY <1>2, DispatchCoherent DEF Deliver
<1> QED
    BY <1>1, <1>2

\* Sending the first sendable message keeps a session coherent and leaves it with a run.
LEMMA DeliverNextCoherent ==
    ASSUME NEW s \in SessionType, Coherent(s), ~s.deleted, Sendable(s) # {}
    PROVE  /\ DeliverNext(s) \in SessionType
           /\ Coherent(DeliverNext(s))
           /\ HasRun(DeliverNext(s))
           /\ ~DeliverNext(s).deleted
<1> DEFINE i == FirstSendable(s)
           t == [s EXCEPT !.queue = RemoveAt(@, i)]
<1>1. i \in DOMAIN s.queue
    BY FirstSendableExists DEF Sendable
<1>2. s.queue[i].msg \in Messages
    BY <1>1, QueueItem
<1>3. t \in SessionType
    BY <1>1, DropQueuedType
<1>4. Coherent(t) /\ ~t.deleted
    <2>1. SameCore(s, t)
        BY TakeKeepsCore
    <2> HIDE DEF t
    <2> QED
        BY <2>1, SameCoreCoherent DEF SameCore
<1>5. DeliverNext(s) = Deliver(t, s.queue[i].msg)
    BY DEF DeliverNext
<1> HIDE DEF i, t
<1> QED
    BY <1>2, <1>3, <1>4, <1>5, DeliverCoherent

\* send_next_queued keeps a session coherent and never drops its run.
LEMMA SendNextQueuedCoherent ==
    ASSUME NEW s \in SessionType, Coherent(s), ~s.deleted
    PROVE  /\ SendNextQueued(s) \in SessionType
           /\ Coherent(SendNextQueued(s))
           /\ HasRun(s) => HasRun(SendNextQueued(s))
           /\ ~SendNextQueued(s).deleted
BY DeliverNextCoherent DEF SendNextQueued

\* send_message keeps a session coherent, with steering on or off.
LEMMA SendMessageCoherent ==
    ASSUME NEW s \in SessionType, NEW m \in Messages, NEW steer \in BOOLEAN,
           Coherent(s), ~s.deleted
    PROVE  SendMessage(s, m, steer) \in SessionType /\ Coherent(SendMessage(s, m, steer))
<1>1. Enqueue(s, m) \in SessionType /\ Coherent(Enqueue(s, m)) /\ ~Enqueue(s, m).deleted
    BY EnqueueType, QueueKeepsCore, SameCoreCoherent DEF SameCore
<1>2. Sendable(s) # {} => Sendable(Enqueue(s, m)) # {}
    <2>1. /\ Enqueue(s, m).queue = Append(s.queue, [id |-> s.nextId + 1, msg |-> m])
          /\ Enqueue(s, m).editing = s.editing
          /\ s.queue \in Seq(QueuedType)
        BY DEF Enqueue, SessionType
    <2>2. \A i \in DOMAIN s.queue : /\ i \in DOMAIN Enqueue(s, m).queue
                                    /\ Enqueue(s, m).queue[i] = s.queue[i]
        BY <2>1, QueuedTypeNew, AppendProperties, LenProperties
    <2> QED
        BY <2>1, <2>2 DEF Sendable
<1> QED
    BY <1>1, <1>2, DeliverCoherent, DeliverNextCoherent DEF SendMessage

\* run_ended keeps a session coherent: fork fallback, pending prompt, next queued
\* message or idle.
LEMMA RunEndedCoherent ==
    ASSUME NEW s \in SessionType, Coherent(s), ~s.deleted
    PROVE  RunEnded(s) \in SessionType /\ Coherent(RunEnded(s))
<1> DEFINE e == [s EXCEPT !.run = NoRun, !.forkFailed = FALSE]
<1>1. /\ e \in SessionType /\ ~e.deleted /\ e.run = NoRun
      /\ e.pending = s.pending /\ e.forkSource = s.forkSource /\ e.forkPrompt = s.forkPrompt
    BY NoRunType DEF SessionType
<1>2. RunEnded(s) = IF s.forkFailed /\ s.forkPrompt # <<>> /\ ~s.deleted THEN ForkFallback(e)
                    ELSE IF s.pending # <<>> /\ ~s.deleted THEN StartPending(e)
                    ELSE IF s.userStopped THEN Idle(e)
                    ELSE SendNextQueued(Idle(e))
    BY DEF RunEnded
<1>3. s.forkPrompt \in Prompts /\ s.pending \in Prompts /\ <<>> \in Prompts
    BY DEF SessionType, Prompts
<1> HIDE DEF e
<1>4. s.forkPrompt # <<>> => ForkFallback(e) \in SessionType /\ Coherent(ForkFallback(e))
    <2> DEFINE f == [e EXCEPT !.forkSource = FALSE, !.working = TRUE]
    <2>1. /\ f \in SessionType /\ f.working /\ ~f.deleted /\ f.pending = s.pending
          /\ ~f.forkSource
        BY <1>1 DEF SessionType
    <2>2. ForkFallback(e) = StartRun(f, s.forkPrompt)
        BY <1>1 DEF ForkFallback
    <2> HIDE DEF f
    <2>3. Unglued(s.forkPrompt) /\ Unglued(f.pending) /\ (s.forkPrompt # <<>> => GaveUpSource(f))
        BY <1>1, <2>1 DEF Coherent, GaveUpSource
    <2> QED
        BY <1>3, <2>1, <2>2, <2>3, StartRunCoherent
<1>5. StartPending(e) \in SessionType /\ Coherent(StartPending(e))
    <2> DEFINE f == [e EXCEPT !.pending = <<>>, !.working = TRUE]
    <2>1. /\ f \in SessionType /\ f.working /\ ~f.deleted /\ f.pending = <<>>
          /\ f.forkSource = s.forkSource
        BY <1>1, <1>3 DEF SessionType
    <2>2. StartPending(e) = StartRun(f, s.pending)
        BY <1>1 DEF StartPending
    <2> HIDE DEF f
    <2>3. Unglued(s.pending) /\ Unglued(f.pending) /\ (~Forked => ~f.forkSource)
        BY <2>1, UngluedSmall DEF Coherent, GaveUpSource
    <2> QED
        BY <1>3, <2>1, <2>2, <2>3, StartRunCoherent
<1>6. Idle(e) \in SessionType /\ Coherent(Idle(e)) /\ ~Idle(e).deleted
    <2>1. /\ Idle(e) \in SessionType /\ Idle(e).working = FALSE /\ ~Idle(e).deleted
          /\ Idle(e).pending = <<>> /\ Idle(e).run = NoRun
          /\ Idle(e).forkSource = s.forkSource /\ Idle(e).forkPrompt = s.forkPrompt
        BY <1>1, <1>3 DEF Idle, SessionType
    <2> QED
        BY <2>1, NoRunType, UngluedSmall DEF Coherent, GaveUpSource, HasRun
<1> QED
    BY <1>2, <1>4, <1>5, <1>6, SendNextQueuedCoherent

\* fail_run keeps a session coherent, for a fork and for any other run.
LEMMA FailRunCoherent ==
    ASSUME NEW s \in SessionType, Coherent(s), ~s.deleted
    PROVE  FailRun(s) \in SessionType /\ Coherent(FailRun(s))
<1>1. CASE ForkPending(s)
    <2> DEFINE f == [s EXCEPT !.forkFailed = TRUE]
    <2>1. f \in SessionType /\ SameCore(s, f)
        BY DEF SessionType, SameCore
    <2>2. Coherent(f) /\ ~f.deleted
        BY <2>1, SameCoreCoherent DEF SameCore
    <2>3. FailRun(s) = RunEnded(f)
        BY <1>1 DEF FailRun
    <2> HIDE DEF f
    <2> QED
        BY <2>1, <2>2, <2>3, RunEndedCoherent
<1>2. CASE ~ForkPending(s)
    <2> DEFINE u == MarkUndelivered(s)
               v == PushEntry(u, TRUE)
    <2>1. u \in SessionType /\ Coherent(u) /\ ~u.deleted
        BY MarkUndeliveredType, TranscriptKeepsCore, SameCoreCoherent DEF SameCore
    <2> HIDE DEF u
    <2>2. v \in SessionType /\ Coherent(v) /\ ~v.deleted
        <3>1. v \in SessionType /\ SameCore(u, v)
            BY <2>1, PushEntryType, TranscriptKeepsCore
        <3> HIDE DEF v
        <3> QED
            BY <2>1, <3>1, SameCoreCoherent DEF SameCore
    <2>3. FailRun(s) = RunEnded(v)
        BY <1>2 DEF FailRun, u
    <2> HIDE DEF v
    <2> QED
        BY <2>2, <2>3, RunEndedCoherent
<1> QED
    BY <1>1, <1>2

\* What set_native_session_id leaves alone, and what it makes of the fork.
LEMMA SetNativeIdFields ==
    ASSUME NEW s \in SessionType
    PROVE  /\ SetNativeId(s) \in SessionType
           /\ SetNativeId(s).working = s.working /\ SetNativeId(s).deleted = s.deleted
           /\ SetNativeId(s).pending = s.pending /\ SetNativeId(s).run = s.run
           /\ SetNativeId(s).queue = s.queue /\ SetNativeId(s).nextId = s.nextId
           /\ SetNativeId(s).editing = s.editing /\ SetNativeId(s).entries = s.entries
           /\ SetNativeId(s).restart = s.restart
           /\ SetNativeId(s).forkPrompt = <<>>
           /\ SetNativeId(s).forkSource = (s.forkSource /\ s.forkPrompt = <<>>)
<1> DEFINE b == s.forkSource /\ s.forkPrompt = <<>>
<1>1. b \in BOOLEAN /\ <<>> \in Prompts
    BY DEF Prompts, SessionType
<1>2. SetNativeId(s) = [s EXCEPT !.nativeId = TRUE, !.forkPrompt = <<>>, !.forkSource = b]
    BY DEF SetNativeId, SessionType
<1> HIDE DEF b
<1>3. /\ SetNativeId(s) \in SessionType
      /\ SetNativeId(s).working = s.working /\ SetNativeId(s).deleted = s.deleted
      /\ SetNativeId(s).pending = s.pending /\ SetNativeId(s).run = s.run
      /\ SetNativeId(s).queue = s.queue /\ SetNativeId(s).nextId = s.nextId
      /\ SetNativeId(s).editing = s.editing /\ SetNativeId(s).entries = s.entries
      /\ SetNativeId(s).restart = s.restart
      /\ SetNativeId(s).forkPrompt = <<>> /\ SetNativeId(s).forkSource = b
    BY <1>1, <1>2 DEF SessionType
<1> QED
    BY <1>3 DEF b

\* What the report of a Done event leaves alone.
LEMMA EndReportFields ==
    ASSUME NEW s \in SessionType, NEW status
    PROVE  /\ EndReport(s, status) \in SessionType
           /\ EndReport(s, status).queue = s.queue /\ EndReport(s, status).nextId = s.nextId
           /\ EndReport(s, status).editing = s.editing
           /\ EndReport(s, status).pending = s.pending /\ EndReport(s, status).run = s.run
           /\ EndReport(s, status).restart = s.restart
           /\ EndReport(s, status) \in {SetNativeId(s), PushEntry(s, TRUE), s}
<1> DEFINE n == SetNativeId(s)
           t == PushEntry(s, TRUE)
           e == EndReport(s, status)
<1>1. /\ t \in SessionType /\ t.queue = s.queue /\ t.nextId = s.nextId /\ t.editing = s.editing
      /\ t.pending = s.pending /\ t.run = s.run /\ t.restart = s.restart
    BY PushEntryType DEF PushEntry, SessionType
<1>2. /\ n \in SessionType /\ n.queue = s.queue /\ n.nextId = s.nextId /\ n.editing = s.editing
      /\ n.pending = s.pending /\ n.run = s.run /\ n.restart = s.restart
    BY SetNativeIdFields
<1>3. e = IF status = "completed" THEN n ELSE IF status = "errored" THEN t ELSE s
    BY DEF EndReport
<1> HIDE DEF n, t, e
<1>4. e \in {n, t, s}
    BY <1>3
<1>5. /\ e \in SessionType /\ e.queue = s.queue /\ e.nextId = s.nextId /\ e.editing = s.editing
      /\ e.pending = s.pending /\ e.run = s.run /\ e.restart = s.restart
    BY <1>1, <1>2, <1>4
<1> QED
    BY <1>4, <1>5 DEF n, t, e

\* set_native_session_id keeps a session with a run coherent.
LEMMA SetNativeIdCoherent ==
    ASSUME NEW s \in SessionType, Coherent(s), HasRun(s), ~s.deleted
    PROVE  /\ SetNativeId(s) \in SessionType /\ Coherent(SetNativeId(s))
           /\ HasRun(SetNativeId(s)) /\ ~SetNativeId(s).deleted
           /\ SetNativeId(s).pending = s.pending
<1> DEFINE t == SetNativeId(s)
<1>1. /\ t \in SessionType /\ t.working = s.working /\ t.deleted = s.deleted
      /\ t.pending = s.pending /\ t.run = s.run /\ t.forkPrompt = <<>>
      /\ t.forkSource = (s.forkSource /\ s.forkPrompt = <<>>)
    BY SetNativeIdFields
<1>2. Unglued(t.forkPrompt)
    BY <1>1, UngluedSmall
<1> HIDE DEF t
<1>3. t.forkSource => s.forkSource
    BY <1>1
<1>4. Coherent(t) /\ HasRun(t)
    BY <1>1, <1>2, <1>3 DEF Coherent, GaveUpSource, HasRun
<1> QED
    BY <1>1, <1>4 DEF t

\* So does all that a Done event reports besides the end of the turn.
LEMMA EndReportCoherent ==
    ASSUME NEW s \in SessionType, NEW status \in DoneEvents,
           Coherent(s), HasRun(s), ~s.deleted
    PROVE  /\ EndReport(s, status) \in SessionType /\ Coherent(EndReport(s, status))
           /\ HasRun(EndReport(s, status)) /\ ~EndReport(s, status).deleted
           /\ EndReport(s, status).pending = s.pending
<1>1. CASE status = "completed"
    BY <1>1, SetNativeIdCoherent DEF EndReport
<1>2. CASE status = "errored"
    <2> DEFINE t == PushEntry(s, TRUE)
    <2>1. t \in SessionType /\ SameCore(s, t)
        BY PushEntryType, TranscriptKeepsCore
    <2>2. EndReport(s, status) = t
        BY <1>2 DEF EndReport
    <2> HIDE DEF t
    <2> QED
        BY <2>1, <2>2, SameCoreCoherent DEF SameCore
<1>3. CASE status \notin {"completed", "errored"}
    BY <1>3 DEF EndReport
<1> QED
    BY <1>1, <1>2, <1>3

\* A Done event keeps a session with a run coherent and leaves it with a run.
LEMMA TurnDoneCoherent ==
    ASSUME NEW s \in SessionType, NEW status \in DoneEvents,
           Coherent(s), HasRun(s), ~s.deleted
    PROVE  /\ TurnDone(s, status) \in SessionType
           /\ Coherent(TurnDone(s, status))
           /\ HasRun(TurnDone(s, status))
           /\ ~TurnDone(s, status).deleted
<1> DEFINE e == EndReport(s, status)
           w == (s.pending # <<>>)
           d == [e EXCEPT !.working = w]
<1>1. e \in SessionType /\ Coherent(e) /\ HasRun(e) /\ ~e.deleted /\ e.pending = s.pending
    BY EndReportCoherent
<1>2. TurnDone(s, status) = IF status = "interrupted" THEN d ELSE SendNextQueued(d)
    BY DEF TurnDone
<1>3. w \in BOOLEAN /\ (e.pending # <<>> => w)
    BY <1>1
<1> HIDE DEF e, w
<1>4. /\ d \in SessionType /\ d.working = w /\ d.pending = e.pending /\ d.run = e.run
      /\ d.deleted = e.deleted /\ d.forkSource = e.forkSource /\ d.forkPrompt = e.forkPrompt
    BY <1>1, <1>3 DEF SessionType
<1> HIDE DEF d
<1>5. Coherent(d) /\ HasRun(d)
    BY <1>1, <1>3, <1>4 DEF Coherent, GaveUpSource, HasRun
<1> QED
    BY <1>1, <1>2, <1>4, <1>5, SendNextQueuedCoherent

\* resume_working keeps a session with a run coherent.
LEMMA ResumeCoherent ==
    ASSUME NEW s \in SessionType, Coherent(s), HasRun(s), ~s.deleted
    PROVE  /\ Resume(s) \in SessionType /\ Coherent(Resume(s))
           /\ HasRun(Resume(s)) /\ ~Resume(s).deleted
<1>1. /\ Resume(s) \in SessionType /\ Resume(s).working = TRUE
      /\ Resume(s).deleted = s.deleted /\ Resume(s).pending = s.pending
      /\ Resume(s).forkSource = s.forkSource /\ Resume(s).forkPrompt = s.forkPrompt
      /\ Resume(s).run = s.run
    BY DEF Resume, SessionType
<1> QED
    BY <1>1 DEF Coherent, GaveUpSource, HasRun

\* A notice keeps a session with a run coherent.
LEMMA PushEntryCoherent ==
    ASSUME NEW s \in SessionType, NEW isError \in BOOLEAN, Coherent(s), HasRun(s), ~s.deleted
    PROVE  /\ PushEntry(s, isError) \in SessionType /\ Coherent(PushEntry(s, isError))
           /\ HasRun(PushEntry(s, isError)) /\ ~PushEntry(s, isError).deleted
<1> DEFINE t == PushEntry(s, isError)
<1>1. t \in SessionType /\ SameCore(s, t)
    BY PushEntryType, TranscriptKeepsCore
<1> HIDE DEF t
<1>2. Coherent(t) /\ HasRun(t) /\ ~t.deleted
    BY <1>1, SameCoreCoherent DEF SameCore
<1> QED
    BY <1>1, <1>2 DEF t

\* apply_event keeps a session with a run coherent and leaves it with a run,
\* whatever the event.
LEMMA ApplyEventCoherent ==
    ASSUME NEW s \in SessionType, NEW ev \in Events, Coherent(s), HasRun(s), ~s.deleted
    PROVE  /\ ApplyEvent(s, ev) \in SessionType
           /\ Coherent(ApplyEvent(s, ev))
           /\ HasRun(ApplyEvent(s, ev))
           /\ ~ApplyEvent(s, ev).deleted
<1>1. CASE ev = "started"
    <2>1. ApplyEvent(s, ev) = SetNativeId(s)
        BY <1>1 DEF ApplyEvent
    <2> QED
        BY <2>1, SetNativeIdCoherent
<1>2. CASE ev = "work"
    <2>1. ApplyEvent(s, ev) = PushEntry(Resume(s), FALSE)
        BY <1>2 DEF ApplyEvent
    <2> QED
        BY <2>1, ResumeCoherent, PushEntryCoherent
<1>3. CASE ev = "steered"
    <2>1. ApplyEvent(s, ev) = Resume(s)
        BY <1>3 DEF ApplyEvent
    <2> QED
        BY <2>1, ResumeCoherent
<1>4. CASE ev = "error"
    <2>1. ApplyEvent(s, ev) = IF ForkPending(s) THEN s ELSE PushEntry(s, TRUE)
        BY <1>4 DEF ApplyEvent
    <2> QED
        BY <2>1, PushEntryCoherent
<1>5. CASE ev = "compacted"
    <2> DEFINE r == (s.restart \/ Claude)
               t == [s EXCEPT !.restart = r]
    <2>1. r \in BOOLEAN
        OBVIOUS
    <2>2. ApplyEvent(s, ev) = PushEntry(t, FALSE)
        BY <1>5 DEF ApplyEvent, SessionType
    <2> HIDE DEF r
    <2>3. t \in SessionType /\ SameCore(s, t)
        BY <2>1 DEF SessionType, SameCore
    <2> HIDE DEF t
    <2>4. Coherent(t) /\ HasRun(t) /\ ~t.deleted
        BY <2>3, SameCoreCoherent DEF SameCore
    <2> QED
        BY <2>2, <2>3, <2>4, PushEntryCoherent
<1>6. CASE ev = "errored" /\ ForkPending(s)
    <2> DEFINE t == [s EXCEPT !.forkFailed = TRUE]
    <2>1. t \in SessionType /\ SameCore(s, t) /\ ApplyEvent(s, ev) = t
        BY <1>6 DEF SessionType, SameCore, ApplyEvent
    <2> HIDE DEF t
    <2> QED
        BY <2>1, SameCoreCoherent DEF SameCore
<1>7. CASE ev \in DoneEvents /\ ~(ev = "errored" /\ ForkPending(s))
    <2>1. ApplyEvent(s, ev) = TurnDone(s, ev)
        BY <1>7 DEF ApplyEvent, DoneEvents
    <2> QED
        BY <1>7, <2>1, TurnDoneCoherent
<1> QED
    BY <1>1, <1>2, <1>3, <1>4, <1>5, <1>6, <1>7 DEF Events, ResumeEvents, DoneEvents

-----------------------------------------------------------------------------
(* The invariant.                                                           *)

\* A chat just created, forked or read back from disk satisfies the invariant.
LEMMA InitInv == Init => SessionInv
<1> SUFFICES ASSUME Init PROVE SessionInv
    OBVIOUS
<1> DEFINE q == [i \in DOMAIN Loaded |-> [id |-> i - 1, msg |-> Loaded[i]]]
<1>1. q \in Seq(QueuedType)
    <2>1. DOMAIN Loaded = 1 .. Len(Loaded) /\ Len(Loaded) \in Nat
        BY MessagesAssumption, LenProperties
    <2>2. \A i \in 1 .. Len(Loaded) : [id |-> i - 1, msg |-> Loaded[i]] \in QueuedType
        BY <2>1, MessagesAssumption, ElementOfSeq DEF QueuedType
    <2> QED
        BY <2>1, <2>2
<1>2. Len(Loaded) \in Nat /\ <<>> \in Prompts /\ <<>> \in Seq(EntryType)
      /\ (~Forked) \in BOOLEAN /\ Forked \in BOOLEAN
    BY MessagesAssumption, KindAssumption, LenProperties DEF Prompts
<1> HIDE DEF q
<1>3. session \in SessionType
    BY <1>1, <1>2, NoRunType DEF Init, SessionType, q
<1>4. TypeOK
    BY <1>3 DEF Init, TypeOK, Prompts
<1>5. Coherent(session)
    BY NoRunType, UngluedSmall DEF Init, Coherent, GaveUpSource, HasRun
<1> QED
    BY <1>4, <1>5 DEF SessionInv, Init

-----------------------------------------------------------------------------
(* The user's operations.                                                   *)

\* A user's step keeps the invariant when the session it makes is coherent: the
\* events task is not in the middle of a poll.
LEMMA UserStepInv ==
    ASSUME SessionInv, stale = <<>>, stale' = stale, log' = log,
           view' \in Nat \cup {NoId}, fresh' \subseteq Messages,
           session' \in SessionType, Coherent(session')
    PROVE  SessionInv'
BY DEF SessionInv, TypeOK

\* retry_undelivered's edit of the transcript keeps the session's type.
LEMMA EntryDropType ==
    ASSUME NEW s \in SessionType, NEW i \in DOMAIN s.entries
    PROVE  /\ s.entries[i] \in EntryType
           /\ [s EXCEPT !.entries = RemoveAt(@, i)] \in SessionType
           /\ i > 1 => [[s EXCEPT !.entries = RemoveAt(@, i)] EXCEPT !.entries[i - 1].tail = "mixed"]
                         \in SessionType
<1>1. /\ s.entries \in Seq(EntryType) /\ Len(s.entries) \in Nat
      /\ DOMAIN s.entries = 1 .. Len(s.entries)
    BY LenProperties DEF SessionType
<1>2. s.entries[i] \in EntryType
    BY <1>1, ElementOfSeq
<1> DEFINE q == RemoveAt(s.entries, i)
           t == [s EXCEPT !.entries = q]
<1>3. q \in Seq(EntryType) /\ Len(q) = Len(s.entries) - 1
    <2>1. q \in Seq(EntryType)
        BY <1>1, RemoveAtType
    <2>2. \A j \in 1 .. Len(s.entries) : s.entries[j] \in EntryType
        BY <1>1, ElementOfSeq
    <2>3. SubSeq(s.entries, 1, i - 1) \in Seq(EntryType) /\ Len(SubSeq(s.entries, 1, i - 1)) = i - 1
        BY <1>1, <2>2, SubSeqProperties
    <2>4. /\ SubSeq(s.entries, i + 1, Len(s.entries)) \in Seq(EntryType)
          /\ Len(SubSeq(s.entries, i + 1, Len(s.entries))) = Len(s.entries) - i
        BY <1>1, <2>2, SubSeqProperties
    <2> DEFINE a == SubSeq(s.entries, 1, i - 1)
               b == SubSeq(s.entries, i + 1, Len(s.entries))
    <2>5. q = a \o b
        BY DEF RemoveAt
    <2> HIDE DEF a, b, q
    <2>6. Len(a \o b) = Len(a) + Len(b)
        BY <2>3, <2>4, ConcatProperties DEF a, b
    <2>7. Len(a) = i - 1 /\ Len(b) = Len(s.entries) - i
        BY <2>3, <2>4 DEF a, b
    <2>8. i \in Nat
        BY <1>1
    <2> QED
        BY <1>1, <2>1, <2>5, <2>6, <2>7, <2>8
<1> HIDE DEF q
<1>4. t \in SessionType /\ t.entries = q
    BY <1>3 DEF SessionType
<1>5. ASSUME i > 1 PROVE [t EXCEPT !.entries[i - 1].tail = "mixed"] \in SessionType
    <2>1. i - 1 \in DOMAIN q /\ q[i - 1] \in EntryType
        BY <1>1, <1>3, <1>5, ElementOfSeq, LenProperties
    <2>2. [q[i - 1] EXCEPT !.tail = "mixed"] \in EntryType
        BY <2>1 DEF EntryType
    <2>3. [q EXCEPT ![i - 1] = [q[i - 1] EXCEPT !.tail = "mixed"]] \in Seq(EntryType)
        BY <1>3, <2>1, <2>2, ExceptSeq
    <2> DEFINE u == [q EXCEPT ![i - 1] = [q[i - 1] EXCEPT !.tail = "mixed"]]
    <2>4. [t EXCEPT !.entries[i - 1].tail = "mixed"] = [t EXCEPT !.entries = u]
        BY <1>4 DEF SessionType
    <2> HIDE DEF u, t
    <2> QED
        BY <1>4, <2>3, <2>4 DEF SessionType, u
<1> QED
    BY <1>2, <1>4, <1>5 DEF q

\* retry_undelivered's edit of the transcript changes nothing coherence depends on.
LEMMA RetryKeepsCore ==
    ASSUME NEW s \in SessionType, NEW i
    PROVE  /\ SameCore(s, [s EXCEPT !.entries = RemoveAt(@, i)])
           /\ SameCore(s, [[s EXCEPT !.entries = RemoveAt(@, i)] EXCEPT !.entries[i - 1].tail = "mixed"])
BY DEF SameCore, SessionType

\* retry_undelivered keeps the invariant.
LEMMA RetryInv ==
    ASSUME SessionInv, NEW i \in DOMAIN session.entries, NEW steer \in SteerModes, Retry(i, steer)
    PROVE  SessionInv'
<1> DEFINE e == session.entries[i]
           rest == [session EXCEPT !.entries = RemoveAt(@, i)]
           kept == IF e.tail = "mixed" /\ i > 1
                   THEN [rest EXCEPT !.entries[i - 1].tail = "mixed"] ELSE rest
<1>1. session \in SessionType /\ Coherent(session) /\ ~session.deleted /\ stale = <<>>
    BY DEF Retry, SessionInv, TypeOK, Allowed
<1>2. session' = SendMessage(kept, e.msg, steer) /\ UNCHANGED <<view, stale, fresh, log>>
    BY DEF Retry
<1>3. e.msg \in Messages
    BY <1>1, EntryDropType DEF EntryType
<1>4. kept \in SessionType /\ SameCore(session, kept)
    BY <1>1, EntryDropType, RetryKeepsCore
<1> HIDE DEF kept, e
<1>5. Coherent(kept) /\ ~kept.deleted
    BY <1>1, <1>4, SameCoreCoherent DEF SameCore
<1>6. session' \in SessionType /\ Coherent(session')
    BY <1>2, <1>3, <1>4, <1>5, SendMessageCoherent, InputAssumption
<1> QED
    BY <1>1, <1>2, <1>6, UserStepInv DEF SessionInv, TypeOK

\* Cancelling the interrupt token of a run keeps a session coherent.
LEMMA InterruptCoherent ==
    ASSUME NEW s \in SessionType, Coherent(s), ~s.deleted, HasRun(s)
    PROVE  /\ [s EXCEPT !.run.stopping = TRUE] \in SessionType
           /\ Coherent([s EXCEPT !.run.stopping = TRUE])
           /\ ~[s EXCEPT !.run.stopping = TRUE].deleted
<1> DEFINE r == [s.run EXCEPT !.stopping = TRUE]
           t == [s EXCEPT !.run = r]
<1>1. [s EXCEPT !.run.stopping = TRUE] = t
    BY DEF SessionType
<1>2. r \in RunType /\ r.phase = s.run.phase /\ r.prompt = s.run.prompt /\ r.stopping = TRUE
    BY DEF SessionType, RunType
<1> HIDE DEF r
<1>3. /\ t \in SessionType /\ t.run = r /\ t.working = s.working /\ t.deleted = s.deleted
      /\ t.pending = s.pending /\ t.forkSource = s.forkSource /\ t.forkPrompt = s.forkPrompt
    BY <1>2 DEF SessionType
<1> HIDE DEF t
<1>4. Coherent(t) /\ ~t.deleted
    BY <1>2, <1>3 DEF Coherent, GaveUpSource, HasRun
<1> QED
    BY <1>1, <1>3, <1>4

\* The queue panel's operations (steer, send now, remove, edit, move) keep the invariant.
LEMMA QueueUserInv ==
    ASSUME SessionInv, NEW i \in DOMAIN session.queue,
           \/ SteerQueued(i) \/ SendQueuedNow(i) \/ RemoveQueued(i) \/ BeginEdit(i)
           \/ \E to \in 0 .. Len(session.queue) : MoveQueued(i, to)
    PROVE  SessionInv'
<1>1. session \in SessionType /\ Coherent(session) /\ ~session.deleted /\ stale = <<>>
      /\ view \in Nat \cup {NoId} /\ fresh \subseteq Messages
    BY DEF SteerQueued, SendQueuedNow, RemoveQueued, BeginEdit, MoveQueued, SessionInv, TypeOK, Allowed
<1> DEFINE t == TakeQueued(session, i)
           m == session.queue[i].msg
<1>2. m \in Messages /\ session.queue[i].id \in Nat
    BY <1>1, QueueItem
<1>3. t \in SessionType /\ SameCore(session, t)
    BY <1>1, TakeQueuedType, TakeKeepsCore
<1> HIDE DEF t, m
<1>4. Coherent(t) /\ ~t.deleted
    BY <1>1, <1>3, SameCoreCoherent DEF SameCore
<1>5. CASE SteerQueued(i)
    <2>1. session' = Deliver(t, m) /\ UNCHANGED <<view, stale, fresh, log>>
        BY <1>5 DEF SteerQueued, t, m
    <2>2. session' \in SessionType /\ Coherent(session')
        BY <1>2, <1>3, <1>4, <2>1, DeliverCoherent
    <2> QED
        BY <1>1, <2>1, <2>2, UserStepInv
<1>6. CASE SendQueuedNow(i)
    <2> DEFINE c == IF t.working /\ HasRun(t) THEN [t EXCEPT !.run.stopping = TRUE] ELSE t
    <2>1. session' = Deliver(c, m) /\ UNCHANGED <<view, stale, fresh, log>>
        BY <1>6 DEF SendQueuedNow, t, m
    <2>2. c \in SessionType /\ Coherent(c) /\ ~c.deleted
        BY <1>3, <1>4, InterruptCoherent
    <2> HIDE DEF c
    <2>3. session' \in SessionType /\ Coherent(session')
        BY <1>2, <2>1, <2>2, DeliverCoherent
    <2> QED
        BY <1>1, <2>1, <2>3, UserStepInv
<1>7. CASE RemoveQueued(i)
    <2>1. session' = t /\ UNCHANGED <<view, stale, fresh, log>>
        BY <1>7 DEF RemoveQueued, t
    <2> QED
        BY <1>1, <1>3, <1>4, <2>1, UserStepInv
<1>8. CASE BeginEdit(i)
    <2> DEFINE u == [session EXCEPT !.editing = session.queue[i].id]
    <2>1. /\ session' = u /\ view' = session.queue[i].id
          /\ UNCHANGED <<stale, fresh, log>>
        BY <1>8 DEF BeginEdit
    <2>2. u \in SessionType /\ SameCore(session, u)
        BY <1>1, <1>2 DEF SessionType, SameCore
    <2> HIDE DEF u
    <2>3. Coherent(u)
        BY <1>1, <2>2, SameCoreCoherent
    <2> QED
        BY <1>1, <1>2, <2>1, <2>2, <2>3, UserStepInv
<1>9. ASSUME NEW to \in 0 .. Len(session.queue), MoveQueued(i, to) PROVE SessionInv'
    <2>1. session' = MoveTo(session, i, to) /\ UNCHANGED <<view, stale, fresh, log>>
        BY <1>9 DEF MoveQueued
    <2>2. to \in Nat
        BY LenProperties
    <2>3. MoveTo(session, i, to) \in SessionType /\ SameCore(session, MoveTo(session, i, to))
        BY <1>1, <2>2, MoveToType, TakeKeepsCore
    <2>4. Coherent(MoveTo(session, i, to))
        BY <1>1, <2>3, SameCoreCoherent
    <2> QED
        BY <1>1, <2>1, <2>3, <2>4, UserStepInv
<1> QED
    BY <1>5, <1>6, <1>7, <1>8, <1>9

\* Ending an edit, with or without a new text, keeps the invariant.
LEMMA EditInv ==
    ASSUME SessionInv, CancelEdit \/ \E m \in fresh : SaveEdit(m)
    PROVE  SessionInv'
<1>1. session \in SessionType /\ Coherent(session) /\ ~session.deleted /\ stale = <<>>
      /\ fresh \subseteq Messages
    BY DEF CancelEdit, SaveEdit, SessionInv, TypeOK, Allowed
<1> DEFINE s == [session EXCEPT !.editing = IF @ = view THEN NoId ELSE @]
<1>2. s \in SessionType /\ SameCore(session, s)
    BY <1>1 DEF SessionType, SameCore
<1>3. NoId \in Nat \cup {NoId}
    OBVIOUS
<1>4. CASE CancelEdit
    <2>1. session' = s /\ view' = NoId /\ UNCHANGED <<stale, fresh, log>>
        BY <1>4 DEF CancelEdit
    <2> HIDE DEF s
    <2>2. Coherent(s)
        BY <1>1, <1>2, SameCoreCoherent
    <2> QED
        BY <1>1, <1>2, <1>3, <2>1, <2>2, UserStepInv
<1>5. ASSUME NEW m \in fresh, SaveEdit(m) PROVE SessionInv'
    <2> DEFINE at == {i \in DOMAIN s.queue : s.queue[i].id = view}
    <2>1. /\ session' = Enqueue(s, m) \/ \E i \in at : session' = [s EXCEPT !.queue[i].msg = m]
          /\ view' = NoId /\ fresh' = fresh \ {m} /\ UNCHANGED <<stale, log>>
        BY <1>5 DEF SaveEdit
    <2> HIDE DEF s
    <2>2. Coherent(s) /\ m \in Messages
        BY <1>1, <1>2, SameCoreCoherent
    <2>3. CASE session' = Enqueue(s, m)
        <3>1. Enqueue(s, m) \in SessionType /\ SameCore(s, Enqueue(s, m))
            BY <1>2, <2>2, EnqueueType, QueueKeepsCore
        <3>2. Coherent(Enqueue(s, m))
            BY <2>2, <3>1, SameCoreCoherent
        <3> QED
            BY <1>1, <1>3, <2>1, <2>3, <3>1, <3>2, UserStepInv
    <2>4. ASSUME NEW i \in at, session' = [s EXCEPT !.queue[i].msg = m] PROVE SessionInv'
        <3> DEFINE q == [s.queue EXCEPT ![i] = [s.queue[i] EXCEPT !.msg = m]]
                   u == [s EXCEPT !.queue = q]
        <3>1. s.queue[i] \in QueuedType /\ s.queue \in Seq(QueuedType)
            BY <1>2, QueueItem DEF SessionType
        <3>2. [s.queue[i] EXCEPT !.msg = m] \in QueuedType
            BY <2>2, <3>1 DEF QueuedType
        <3>3. q \in Seq(QueuedType)
            BY <3>1, <3>2, ExceptSeq
        <3>4. session' = u
            BY <1>2, <2>4 DEF SessionType
        <3> HIDE DEF q
        <3>5. u \in SessionType /\ SameCore(s, u)
            BY <1>2, <3>3 DEF SessionType, SameCore
        <3> HIDE DEF u
        <3>6. Coherent(u)
            BY <2>2, <3>5, SameCoreCoherent
        <3> QED
            BY <1>1, <1>3, <2>1, <3>4, <3>5, <3>6, UserStepInv
    <2> QED
        BY <2>1, <2>3, <2>4
<1> QED
    BY <1>4, <1>5

\* stop keeps the invariant.
LEMMA StopInv ==
    ASSUME SessionInv, Stop
    PROVE  SessionInv'
<1> DEFINE s == [session EXCEPT !.pending = <<>>, !.userStopped = TRUE]
           i == [s EXCEPT !.working = FALSE]
<1>1. session \in SessionType /\ Coherent(session) /\ ~session.deleted /\ stale = <<>>
      /\ view \in Nat \cup {NoId} /\ fresh \subseteq Messages
    BY DEF Stop, SessionInv, TypeOK, Allowed
<1>2. /\ session' = IF HasRun(s) THEN [s EXCEPT !.run.stopping = TRUE] ELSE i
      /\ UNCHANGED <<view, stale, fresh, log>>
    BY DEF Stop
<1>3. <<>> \in Prompts
    BY DEF Prompts
<1>4. /\ s \in SessionType /\ s.run = session.run /\ s.working = session.working
      /\ s.pending = <<>> /\ s.deleted = session.deleted
      /\ s.forkSource = session.forkSource /\ s.forkPrompt = session.forkPrompt
    BY <1>1, <1>3 DEF SessionType
<1> HIDE DEF s
<1>5. Coherent(s)
    BY <1>1, <1>4, UngluedSmall DEF Coherent, GaveUpSource, HasRun
<1>6. /\ i \in SessionType /\ i.run = s.run /\ i.working = FALSE
      /\ i.pending = s.pending /\ i.deleted = s.deleted
      /\ i.forkSource = s.forkSource /\ i.forkPrompt = s.forkPrompt
    BY <1>4 DEF SessionType
<1> HIDE DEF i
<1>7. Coherent(i)
    BY <1>4, <1>5, <1>6 DEF Coherent, GaveUpSource, HasRun
<1>8. session' \in SessionType /\ Coherent(session')
    BY <1>1, <1>2, <1>4, <1>5, <1>6, <1>7, InterruptCoherent
<1> QED
    BY <1>1, <1>2, <1>8, UserStepInv

\* A change of settings keeps the invariant.
LEMMA SettingsInv ==
    ASSUME SessionInv, ChangeSettings
    PROVE  SessionInv'
<1> DEFINE b == HasRun(session)
           t == [session EXCEPT !.restart = b]
<1>1. session \in SessionType /\ Coherent(session) /\ stale = <<>>
      /\ view \in Nat \cup {NoId} /\ fresh \subseteq Messages
    BY DEF ChangeSettings, SessionInv, TypeOK, Allowed
<1>2. session' = t /\ UNCHANGED <<view, stale, fresh, log>>
    BY DEF ChangeSettings
<1>3. b \in BOOLEAN
    BY DEF HasRun
<1> HIDE DEF b
<1>4. t \in SessionType /\ SameCore(session, t)
    BY <1>1, <1>3 DEF SessionType, SameCore
<1> HIDE DEF t
<1>5. Coherent(t)
    BY <1>1, <1>4, SameCoreCoherent
<1> QED
    BY <1>1, <1>2, <1>4, <1>5, UserStepInv

\* close_for_deletion keeps the invariant.
LEMMA DeleteInv ==
    ASSUME SessionInv, Delete
    PROVE  SessionInv'
<1>1. session \in SessionType /\ Coherent(session) /\ stale = <<>> /\ fresh \subseteq Messages
    BY DEF Delete, SessionInv, TypeOK, Allowed
<1> DEFINE d == IF session.editing = view THEN NoId ELSE session.editing
           t == [session EXCEPT !.deleted = TRUE, !.run = NoRun, !.pending = <<>>,
                                !.working = FALSE, !.editing = d]
<1>2. session' = t /\ view' = NoId /\ UNCHANGED <<stale, fresh, log>>
    BY <1>1 DEF Delete, SessionType
<1>3. d \in Nat \cup {NoId} /\ <<>> \in Prompts
    BY <1>1 DEF SessionType, Prompts
<1> HIDE DEF d
<1>4. /\ t \in SessionType /\ t.run = NoRun /\ t.working = FALSE /\ t.pending = <<>>
      /\ t.forkSource = session.forkSource /\ t.forkPrompt = session.forkPrompt
    BY <1>1, <1>3, NoRunType DEF SessionType
<1> HIDE DEF t
<1>5. Coherent(t)
    BY <1>1, <1>4, NoRunType, UngluedSmall DEF Coherent, GaveUpSource, HasRun
<1>6. NoId \in Nat \cup {NoId}
    OBVIOUS
<1> QED
    BY <1>1, <1>2, <1>4, <1>5, <1>6, UserStepInv

\* Every step of the user keeps the invariant.
LEMMA UserNextInv == SessionInv /\ UserNext => SessionInv'
<1> SUFFICES ASSUME SessionInv, UserNext PROVE SessionInv'
    OBVIOUS
<1>1. ASSUME NEW m \in fresh, NEW steer \in SteerModes, Send(m, steer) PROVE SessionInv'
    <2>1. session \in SessionType /\ Coherent(session) /\ ~session.deleted /\ stale = <<>>
          /\ view \in Nat \cup {NoId} /\ fresh \subseteq Messages
        BY <1>1 DEF Send, SessionInv, TypeOK, Allowed
    <2>2. /\ session' = SendMessage(session, m, steer) /\ fresh' = fresh \ {m}
          /\ UNCHANGED <<view, stale, log>>
        BY <1>1 DEF Send
    <2>3. session' \in SessionType /\ Coherent(session')
        BY <2>1, <2>2, SendMessageCoherent, InputAssumption
    <2> QED
        BY <2>1, <2>2, <2>3, UserStepInv
<1> QED
    BY <1>1, RetryInv, QueueUserInv, EditInv, StopInv, SettingsInv, DeleteInv DEF UserNext

-----------------------------------------------------------------------------
(* The events task.                                                         *)

\* Every step of the events task keeps the invariant, the leftovers of a replaced run
\* included.
LEMMA TaskNextInv == SessionInv /\ TaskNext => SessionInv'
<1> SUFFICES ASSUME SessionInv, TaskNext PROVE SessionInv'
    OBVIOUS
<1>1. /\ session \in SessionType /\ Coherent(session) /\ stale \in Seq(Events \cup {"ended"})
      /\ view \in Nat \cup {NoId} /\ fresh \subseteq Messages /\ log \in Prompts
      /\ stale # <<>> => HasRun(session) /\ ~session.deleted
    BY DEF SessionInv, TypeOK
<1>2. CASE ReceiveEvent
    <2> DEFINE r == session.run
               c == [session EXCEPT !.run.out = Tail(@)]
               s == ApplyEvent(c, Head(r.out))
    <2>1. /\ stale = <<>> /\ r.phase # "none" /\ r.out # <<>> /\ session' = s
          /\ \/ stale' = <<>> \/ stale' = Tail(r.out) \/ stale' = Append(Tail(r.out), "ended")
          /\ UNCHANGED <<view, fresh, log>>
        BY <1>2 DEF ReceiveEvent
    <2>2. r \in RunType /\ r.out \in Seq(Events)
        BY <1>1 DEF SessionType, RunType
    <2>3. Head(r.out) \in Events /\ Tail(r.out) \in Seq(Events)
        BY <2>1, <2>2, HeadTailProperties
    <2> DEFINE q == [r EXCEPT !.out = Tail(r.out)]
    <2>4. c = [session EXCEPT !.run = q]
        BY <1>1 DEF SessionType
    <2>5. /\ q \in RunType /\ q.phase = r.phase /\ q.prompt = r.prompt /\ q.stopping = r.stopping
        BY <2>2, <2>3 DEF RunType
    <2> HIDE DEF q
    <2>6. /\ c \in SessionType /\ c.run = q /\ c.working = session.working
          /\ c.pending = session.pending /\ c.deleted = session.deleted
          /\ c.forkSource = session.forkSource /\ c.forkPrompt = session.forkPrompt
        BY <1>1, <2>4, <2>5 DEF SessionType
    <2> HIDE DEF c
    <2>7. Coherent(c) /\ HasRun(c) /\ ~c.deleted
        BY <1>1, <2>1, <2>5, <2>6 DEF Coherent, GaveUpSource, HasRun
    <2>8. session' \in SessionType /\ Coherent(session') /\ HasRun(session')
        BY <2>1, <2>3, <2>6, <2>7, ApplyEventCoherent
    <2>9. ~session'.deleted
        BY <2>8 DEF Coherent, GaveUpSource
    <2> HIDE DEF r
    <2>10. Tail(r.out) \in Seq(Events \cup {"ended"})
        BY <2>3
    <2>11. Append(Tail(r.out), "ended") \in Seq(Events \cup {"ended"})
        BY <2>10
    <2>12. stale' = <<>> \/ stale' = Tail(r.out) \/ stale' = Append(Tail(r.out), "ended")
        BY <2>1
    <2>13. <<>> \in Seq(Events \cup {"ended"})
        OBVIOUS
    <2>14. stale' \in Seq(Events \cup {"ended"})
        BY <2>10, <2>11, <2>12, <2>13, Zenon
    <2> QED
        BY <1>1, <2>1, <2>8, <2>9, <2>14 DEF SessionInv, TypeOK
<1>3. CASE ReceiveStale
    <2>1. HasRun(session) /\ ~session.deleted /\ stale # <<>>
        BY <1>1, <1>3 DEF ReceiveStale
    <2>2. Head(stale) \in Events \cup {"ended"} /\ Tail(stale) \in Seq(Events \cup {"ended"})
        BY <1>1, <2>1, HeadTailProperties
    <2>3. CASE Head(stale) = "ended" /\ session' = RunEnded(session) /\ stale' = <<>>
        <3>1. session' \in SessionType /\ Coherent(session')
            BY <1>1, <2>1, <2>3, RunEndedCoherent
        <3> QED
            BY <1>1, <1>3, <2>3, <3>1 DEF SessionInv, TypeOK, ReceiveStale
    <2>4. CASE /\ Head(stale) # "ended" /\ session' = ApplyEvent(session, Head(stale))
               /\ stale' = Tail(stale)
        <3>1. session' \in SessionType /\ Coherent(session') /\ HasRun(session')
            BY <1>1, <2>1, <2>2, <2>4, ApplyEventCoherent
        <3>2. ~session'.deleted
            BY <3>1 DEF Coherent, GaveUpSource
        <3> QED
            BY <1>1, <1>3, <2>2, <2>4, <3>1, <3>2 DEF SessionInv, TypeOK, ReceiveStale
    <2> QED
        BY <1>3, <2>3, <2>4 DEF ReceiveStale
<1>4. CASE ReceiveEnd
    <2>1. /\ stale = <<>> /\ HasRun(session) /\ session' = RunEnded(session)
          /\ UNCHANGED <<view, stale, fresh, log>>
        BY <1>4 DEF ReceiveEnd, HasRun
    <2>2. ~session.deleted
        BY <1>1, <2>1 DEF Coherent, GaveUpSource
    <2>3. session' \in SessionType /\ Coherent(session')
        BY <1>1, <2>1, <2>2, RunEndedCoherent
    <2> QED
        BY <1>1, <2>1, <2>3 DEF SessionInv, TypeOK
<1>5. CASE ReceiveFailure
    <2>1. /\ stale = <<>> /\ HasRun(session) /\ session' = FailRun(session)
          /\ UNCHANGED <<view, stale, fresh, log>>
        BY <1>5 DEF ReceiveFailure, HasRun
    <2>2. ~session.deleted
        BY <1>1, <2>1 DEF Coherent, GaveUpSource
    <2>3. session' \in SessionType /\ Coherent(session')
        BY <1>1, <2>1, <2>2, FailRunCoherent
    <2> QED
        BY <1>1, <2>1, <2>3 DEF SessionInv, TypeOK
<1> QED
    BY <1>2, <1>3, <1>4, <1>5 DEF TaskNext

-----------------------------------------------------------------------------
(* The harness.                                                             *)

\* A step of the harness that leaves the interrupt token alone keeps the invariant.
LEMMA HarnessKeepsInv ==
    ASSUME SessionInv, HasRun(session), NEW r \in RunType, Harness(r),
           r.phase # "none", r.stopping = session.run.stopping, Unglued(r.prompt),
           log' \in Prompts
    PROVE  SessionInv'
<1> DEFINE t == [session EXCEPT !.run = r]
<1>1. /\ session \in SessionType /\ Coherent(session) /\ ~session.deleted
      /\ session' = t /\ UNCHANGED <<view, stale, fresh>>
    BY DEF SessionInv, TypeOK, Harness, Coherent, GaveUpSource
<1>2. /\ t \in SessionType /\ t.run = r /\ t.working = session.working
      /\ t.pending = session.pending /\ t.deleted = session.deleted
      /\ t.forkSource = session.forkSource /\ t.forkPrompt = session.forkPrompt
    BY <1>1 DEF SessionType
<1> HIDE DEF t
<1>3. Coherent(t) /\ HasRun(t) /\ ~t.deleted
    BY <1>1, <1>2 DEF Coherent, GaveUpSource, HasRun
<1> QED
    BY <1>1, <1>2, <1>3 DEF SessionInv, TypeOK

\* Every step of the harness keeps the invariant.
LEMMA HarnessNextInv == SessionInv /\ HarnessNext => SessionInv'
<1> SUFFICES ASSUME SessionInv, HarnessNext PROVE SessionInv'
    OBVIOUS
<1> DEFINE r == session.run
<1>1. /\ r \in RunType /\ Unglued(r.prompt) /\ log \in Prompts /\ <<>> \in Prompts
      /\ r.out \in Seq(Events) /\ r.inbox \in Prompts /\ r.prompt \in Prompts
    BY DEF SessionInv, TypeOK, SessionType, RunType, Coherent, GaveUpSource, Prompts
<1>2. Unglued(<<>>)
    BY UngluedSmall
<1>3. \A ev \in Events : Append(r.out, ev) \in Seq(Events) /\ <<ev>> \in Seq(Events)
    BY <1>1, AppendProperties
<1>4. HasRun(session) <=> r.phase # "none"
    BY DEF HasRun
<1> HIDE DEF r
<1>5. ASSUME NEW named \in BOOLEAN, HarnessStart(named) PROVE SessionInv'
    <2> DEFINE o == IF named THEN <<"started">> ELSE <<>>
               n == [r EXCEPT !.phase = "live", !.turn = TRUE, !.prompt = <<>>, !.out = o]
    <2>1. r.phase = "starting" /\ Harness(n) /\ log' = log \o r.prompt
        BY <1>5 DEF HarnessStart, r
    <2>2. o \in Seq(Events)
        <3>1. "started" \in Events
            BY DEF Events
        <3>2. <<"started">> \in Seq(Events) /\ <<>> \in Seq(Events)
            BY <3>1
        <3> QED
            BY <3>2
    <2> HIDE DEF o
    <2>3. n \in RunType /\ n.phase = "live" /\ n.stopping = r.stopping /\ n.prompt = <<>>
        BY <1>1, <2>2 DEF RunType, Phases
    <2> HIDE DEF n
    <2>4. log' \in Prompts
        BY <1>1, <2>1, ConcatProperties DEF Prompts
    <2> QED
        BY <1>2, <1>4, <2>1, <2>3, <2>4, HarnessKeepsInv DEF r
<1>6. CASE HarnessFail
    <2> DEFINE n == [r EXCEPT !.phase = "failed", !.inbox = <<>>]
    <2>1. r.phase = "starting" /\ Harness(n) /\ log' = log
        BY <1>6 DEF HarnessFail, r
    <2>2. n \in RunType /\ n.phase = "failed" /\ n.stopping = r.stopping /\ n.prompt = r.prompt
        BY <1>1 DEF RunType, Phases
    <2> HIDE DEF n
    <2> QED
        BY <1>1, <1>4, <2>1, <2>2, HarnessKeepsInv DEF r
<1>7. ASSUME NEW ev \in Chatter, HarnessEmit(ev) PROVE SessionInv'
    <2> DEFINE o == Append(r.out, ev)
               n == [r EXCEPT !.turn = TRUE, !.out = o]
    <2>1. o \in Seq(Events)
        BY <1>3, InputAssumption DEF Events, ResumeEvents
    <2>2. r.phase = "live" /\ Harness(n) /\ log' = log
        BY <1>1, <1>7 DEF HarnessEmit, r, RunType
    <2> HIDE DEF o
    <2>3. n \in RunType /\ n.phase = r.phase /\ n.stopping = r.stopping /\ n.prompt = r.prompt
        BY <1>1, <2>1 DEF RunType
    <2> HIDE DEF n
    <2> QED
        BY <1>1, <1>4, <2>2, <2>3, HarnessKeepsInv DEF r
<1>8. CASE HarnessTakeSteer
    <2> DEFINE o == Append(r.out, "steered")
               x == Tail(r.inbox)
               n == [r EXCEPT !.turn = TRUE, !.inbox = x, !.out = o]
    <2>1. /\ r.phase = "live" /\ r.inbox # <<>> /\ Harness(n) /\ log' = Append(log, Head(r.inbox))
        BY <1>1, <1>8 DEF HarnessTakeSteer, r, RunType
    <2>2. x \in Prompts /\ Head(r.inbox) \in Messages
        BY <1>1, <2>1, HeadTailProperties DEF Prompts
    <2>3. o \in Seq(Events)
        BY <1>3 DEF Events, ResumeEvents
    <2> HIDE DEF o, x
    <2>4. n \in RunType /\ n.phase = r.phase /\ n.stopping = r.stopping /\ n.prompt = r.prompt
        BY <1>1, <2>2, <2>3 DEF RunType
    <2> HIDE DEF n
    <2>5. log' \in Prompts
        BY <1>1, <2>1, <2>2, AppendProperties DEF Prompts
    <2> QED
        BY <1>1, <1>4, <2>1, <2>4, <2>5, HarnessKeepsInv DEF r
<1>9. ASSUME NEW status \in {"completed", "errored"}, HarnessTurnEnd(status) PROVE SessionInv'
    <2> DEFINE o == Append(r.out, status)
               n == [r EXCEPT !.turn = FALSE, !.anyDone = TRUE, !.out = o]
    <2>1. o \in Seq(Events)
        BY <1>3 DEF Events, DoneEvents
    <2>2. r.phase = "live" /\ Harness(n) /\ log' = log
        BY <1>1, <1>9 DEF HarnessTurnEnd, r, RunType
    <2> HIDE DEF o
    <2>3. n \in RunType /\ n.phase = r.phase /\ n.stopping = r.stopping /\ n.prompt = r.prompt
        BY <1>1, <2>1 DEF RunType
    <2> HIDE DEF n
    <2> QED
        BY <1>1, <1>4, <2>2, <2>3, HarnessKeepsInv DEF r
<1>10. ASSUME HarnessInterrupt \/ HarnessCrash PROVE SessionInv'
    <2>1. PICK o \in Seq(Events) :
              /\ r.phase = "live" /\ log' = log
              /\ Harness([r EXCEPT !.phase = "closing", !.turn = FALSE, !.out = o])
        <3>1. CASE HarnessInterrupt
            <4>1. /\ r.phase = "live" /\ log' = log
                  /\ Harness([r EXCEPT !.phase = "closing", !.turn = FALSE,
                                       !.out = Append(r.out, "interrupted")])
                BY <1>1, <3>1 DEF HarnessInterrupt, r, RunType
            <4> QED
                BY <1>3, <4>1 DEF Events, DoneEvents
        <3>2. CASE HarnessCrash
            <4>1. /\ r.phase = "live" /\ log' = log
                  /\ Harness([r EXCEPT !.phase = "closing", !.turn = FALSE,
                                       !.out = IF r.anyDone THEN r.out ELSE Append(r.out, "errored")])
                BY <1>1, <3>2 DEF HarnessCrash, r, RunType
            <4>2. (IF r.anyDone THEN r.out ELSE Append(r.out, "errored")) \in Seq(Events)
                BY <1>1, <1>3 DEF Events, DoneEvents
            <4> QED
                BY <4>1, <4>2
        <3> QED
            BY <1>10, <3>1, <3>2
    <2> DEFINE n == [r EXCEPT !.phase = "closing", !.turn = FALSE, !.out = o]
    <2>2. n \in RunType /\ n.phase = "closing" /\ n.stopping = r.stopping /\ n.prompt = r.prompt
        BY <1>1, <2>1 DEF RunType, Phases
    <2>3. Harness(n)
        BY <2>1
    <2> HIDE DEF n
    <2> QED
        BY <1>1, <1>4, <2>1, <2>2, <2>3, HarnessKeepsInv DEF r
<1>11. CASE HarnessClose
    <2> DEFINE n == [r EXCEPT !.phase = "closed", !.inbox = <<>>]
    <2>1. r.phase = "closing" /\ Harness(n) /\ log' = log
        BY <1>11 DEF HarnessClose, r
    <2>2. n \in RunType /\ n.phase = "closed" /\ n.stopping = r.stopping /\ n.prompt = r.prompt
        BY <1>1 DEF RunType, Phases
    <2> HIDE DEF n
    <2> QED
        BY <1>1, <1>4, <2>1, <2>2, HarnessKeepsInv DEF r
<1> QED
    BY <1>5, <1>6, <1>7, <1>8, <1>9, <1>10, <1>11 DEF HarnessNext

-----------------------------------------------------------------------------
(* The theorems.                                                            *)

\* Every step keeps the invariant.
LEMMA NextInv == SessionInv /\ [Next]_vars => SessionInv'
<1> SUFFICES ASSUME SessionInv, [Next]_vars PROVE SessionInv'
    OBVIOUS
<1>1. CASE UNCHANGED vars
    BY <1>1 DEF SessionInv, TypeOK, vars
<1> QED
    BY <1>1, UserNextInv, TaskNextInv, HarnessNextInv DEF Next

\* The inductive invariant of the session holds in every state of every chat: for any
\* messages, commands, loaded queue, agent kind, faults and channel capacities.
THEOREM SessionInvariant == Spec => []SessionInv
BY InitInv, NextInv, PTL DEF Spec

\* Every field of AgentSession keeps the type its declaration gives it.
THEOREM TypeCorrect == Spec => []TypeOK
<1>1. SessionInv => TypeOK
    BY DEF SessionInv
<1> QED
    BY <1>1, SessionInvariant, PTL

\* The session never shows `working` without an active_run, and a deleted chat has no
\* run (deliver, run_ended, stop, close_for_deletion together).
THEOREM NoWorkWithoutRun == Spec => []WorkingHasRun
<1>1. SessionInv => WorkingHasRun
    BY DEF SessionInv, Coherent, GaveUpSource, WorkingHasRun
<1> QED
    BY <1>1, SessionInvariant, PTL

\* prompt_after_stop is filled only while there is a run at whose end it will start:
\* one that is being stopped, or, in a fork that has given up its source, one that may
\* be the fallback run, which nobody stops (deliver, stop, run_ended together).
THEOREM PendingIsStarted == Spec => []PendingHasStop
<1>1. SessionInv => PendingHasStop
    BY DEF SessionInv, Coherent, GaveUpSource, PendingHasStop
<1> QED
    BY <1>1, SessionInvariant, PTL

\* No prompt waiting, starting or kept for a fork's fallback has a slash command merged
\* with another message (deliver's guard and Prompt::merge).
THEOREM CommandsStayWhole == Spec => []CommandsNeverGlued
<1>1. SessionInv => CommandsNeverGlued
    BY DEF SessionInv, Coherent, GaveUpSource, CommandsNeverGlued
<1> QED
    BY <1>1, SessionInvariant, PTL
=============================================================================
