---------------------------- MODULE SessionStore ----------------------------
(***************************************************************************)
(* The chats Wu keeps: AgentStore of crates/agent_chat/src/session.rs, the *)
(* sessions it has open, and the two files of each chat on disk (its       *)
(* metadata and its transcript).                                           *)
(*                                                                         *)
(* The store and the sessions live on the UI thread; each of their methods *)
(* is one action.  What they write goes through tasks: metadata writes of  *)
(* a chat wait for one another, transcript saves are debounced and a newer *)
(* save drops the task of an older one.  Opening a chat reads its          *)
(* transcript in the background, between two steps of the UI thread.       *)
(*                                                                         *)
(* Metadata is reduced to a version, which every change advances, to the   *)
(* turns the chat has moved on (updated_at), and to the fields of a fork.  *)
(* A fork copies its parent's native session at its first run, so the      *)
(* parent must not have moved on since.                                    *)
(***************************************************************************)
EXTENDS Integers, Sequences, FiniteSets, SequencesExt

CONSTANTS
    Chats,       \* the chats there may be
    Saved,       \* those an earlier launch left on disk, each with a native session
    Openings,    \* the tasks of open_session that may run at once
    None,        \* no metadata, no session, no opening, no parent
    MaxVersion,  \* bound on the changes to the metadata of each chat
    MaxCrashes,  \* bound on how often Wu is killed
    Races        \* what may meet a step it can overtake, of the set below

ASSUME StoreAssumption ==
    /\ Saved \subseteq Chats
    /\ MaxVersion \in [Chats -> Nat] /\ MaxCrashes \in Nat
    /\ Races \subseteq {"deleteWhileLoading", "changeWhileOpening"}

VARIABLES
    known,    \* AgentStore::sessions: the metadata of every chat in the list
    live,     \* AgentStore::live: the open sessions, [meta, text]
    queued,   \* metadata writes in order: [store : Seq, session : Seq]
    save,     \* AgentSession::save_entries_task: [stage, text]
    disk,     \* the files: [meta, text]
    opening,  \* the tasks of open_session: [chat, meta, text]
    load,     \* load_saved_chats: [stage : "unread", "read", "merged", found]
    deleting, \* chats whose files delete_session's task will remove
    deleted,  \* history: the chats the user has deleted
    spared,   \* history: those of them whose files were still there when Wu was killed
    crashes,  \* history: how often Wu was killed
    torn      \* history: it was killed with metadata still to be written or removed

vars == <<known, live, queued, save, disk, opening, load, deleting, deleted, spared, crashes, torn>>

NoText == -1   \* no transcript file
Unread == -2   \* an opening that has not read it yet

MetaType    == [version : Nat, moved : Nat, native : BOOLEAN,
                parent : Chats \cup {None}, since : Nat, source : BOOLEAN]
SessionType == [meta : MetaType, text : Nat]
OpeningType == [chat : Chats, meta : MetaType, text : Nat \cup {Unread}]

\* None stands for Option::None, which is none of the values there may be.
ASSUME NoneAssumption == None \notin MetaType \cup SessionType \cup OpeningType

Idle == [stage |-> "idle", text |-> 0]
Waiting == [stage |-> "waiting", text |-> 0]
NoFiles == [meta |-> None, text |-> NoText]
Unloaded == [stage |-> "unread", found |-> [c \in Chats |-> None]]
NoWrites == [store |-> <<>>, session |-> <<>>]

\* SessionMetadata::new, and what fork_session adds.
NewMeta(parent, since, source) ==
    [version |-> 0, moved |-> 0, native |-> FALSE,
     parent |-> parent, since |-> since, source |-> source]

Init ==
    /\ known = [c \in Chats |-> None] /\ live = [c \in Chats |-> None]
    /\ queued = [c \in Chats |-> NoWrites] /\ save = [c \in Chats |-> Idle]
    /\ disk = [c \in Chats |-> IF c \in Saved
            THEN [meta |-> [NewMeta(None, 0, FALSE) EXCEPT !.native = TRUE], text |-> 1] ELSE NoFiles]
    /\ opening = [o \in Openings |-> None]
    /\ load = Unloaded /\ deleting = {} /\ deleted = {} /\ spared = {} /\ crashes = 0 /\ torn = FALSE

Fresh(c) == known[c] = None /\ disk[c] = NoFiles /\ c \notin deleted

\* An open_session task has cloned c's metadata and not finished yet.
BeingOpened(c) ==
    live[c] = None /\ \E o \in Openings : opening[o] # None /\ opening[o].chat = c

MayChange(c) ==
    /\ known[c] # None /\ known[c].version < MaxVersion[c]
    /\ live[c] # None => live[c].meta.version < MaxVersion[c]
    /\ BeingOpened(c) => "changeWhileOpening" \in Races

-----------------------------------------------------------------------------
(* Changes of metadata.                                                     *)

Advance(m) == [m EXCEPT !.version = @ + 1]

Unsourced(m) == Advance([m EXCEPT !.source = FALSE])

\* Mutant: a fork that is not open is not looked at.
StaleLiveForks(c, m) ==
    {f \in Chats : known[f] # None /\ live[f] # None /\ known[f].parent = c
                   /\ known[f].source /\ ~known[f].native /\ m.moved > known[f].since}

\* The MetadataChanged handler: the forks that may no longer copy the chat.
StaleForks(c, m) ==
    {f \in Chats : known[f] # None /\ known[f].parent = c
                   /\ known[f].source /\ ~known[f].native /\ m.moved > known[f].since}

\* Mutant: a change to a chat that is not open stays in memory.
QueueForgetful(w, c, isLive, m) == IF isLive THEN [w EXCEPT !.session = Append(@, m)] ELSE w

\* save_metadata, or update_session_metadata for a chat that is not open: the
\* write waits for the previous one of its chain.
Queue(w, c, isLive, m) ==
    IF isLive THEN [w EXCEPT !.session = Append(@, m)] ELSE [w EXCEPT !.store = Append(@, m)]

\* The metadata each chat of `new` gets; the list follows the open sessions.
Change(new) ==
    /\ known' = [c \in Chats |-> IF c \in DOMAIN new THEN new[c] ELSE known[c]]
    /\ live' = [c \in Chats |-> IF c \in DOMAIN new /\ live[c] # None
                                THEN [live[c] EXCEPT !.meta = new[c]] ELSE live[c]]
    /\ queued' = [c \in Chats |-> IF c \in DOMAIN new
                                  THEN Queue(queued[c], c, live[c] # None, new[c]) ELSE queued[c]]

Current(c) == IF live[c] # None THEN live[c].meta ELSE known[c]

\* update_session_metadata: a name, a pin.
Rename(c) ==
    /\ MayChange(c)
    /\ Change([x \in {c} |-> Advance(Current(c))])
    /\ UNCHANGED <<save, disk, opening, load, deleting, deleted, spared, crashes, torn>>

\* touch, with the message that is delivered: the chat moves on.  The newer
\* transcript save drops the task of an older one; a write that has begun by then
\* is taken to be over before the debounce of the newer one is.
Touch(c) ==
    LET m == Advance([live[c].meta EXCEPT !.moved = @ + 1])
        F == StaleForks(c, m)
    IN  /\ live[c] # None
        /\ \A x \in {c} \cup F : MayChange(x)
        /\ known' = [x \in Chats |-> IF x = c THEN m ELSE IF x \in F THEN Unsourced(Current(x)) ELSE known[x]]
        /\ live' = [x \in Chats |->
                IF x = c THEN [meta |-> m, text |-> live[c].text + 1]
                ELSE IF x \in F /\ live[x] # None
                     THEN [live[x] EXCEPT !.meta = Unsourced(@)] ELSE live[x]]
        /\ queued' = [x \in Chats |->
                IF x = c THEN Queue(queued[x], x, TRUE, m)
                ELSE IF x \in F THEN Queue(queued[x], x, live[x] # None, Unsourced(Current(x)))
                ELSE queued[x]]
        /\ save' = [save EXCEPT ![c] = Waiting]
        /\ UNCHANGED <<disk, opening, load, deleting, deleted, spared, crashes, torn>>

\* set_native_session_id: a first run has begun; a fork has made its copy.
Named(c) ==
    /\ live[c] # None /\ MayChange(c)
    /\ live[c].meta.moved > 0 /\ ~live[c].meta.native
    /\ Change([x \in {c} |-> Advance([live[c].meta EXCEPT !.native = TRUE, !.source = FALSE])])
    /\ UNCHANGED <<save, disk, opening, load, deleting, deleted, spared, crashes, torn>>

-----------------------------------------------------------------------------
(* Chats come and go.                                                       *)

\* create_session_in: nothing is saved before the first message.
Create(c) ==
    /\ Fresh(c)
    /\ known' = [known EXCEPT ![c] = NewMeta(None, 0, FALSE)]
    /\ live' = [live EXCEPT ![c] = [meta |-> NewMeta(None, 0, FALSE), text |-> 0]]
    /\ UNCHANGED <<queued, save, disk, opening, load, deleting, deleted, spared, crashes, torn>>

\* What a fork of p may start from: p as it is, with its native session unless p is
\* working; or, when p was deleted while fork_session waited for open_session, the
\* session its task still holds, with whatever metadata that had in the end.
MayFork(p, moved, source) ==
    \/ /\ live[p] # None
       /\ moved = live[p].meta.moved /\ source \in {FALSE, live[p].meta.native}
    \/ p \in deleting

\* insert_session, which saves the fork.
InsertFork(f, m) ==
    /\ Fresh(f)
    /\ known' = [known EXCEPT ![f] = m]
    /\ live' = [live EXCEPT ![f] = [meta |-> m, text |-> 0]]
    /\ queued' = [queued EXCEPT ![f] = Queue(@, f, TRUE, m)]
    /\ save' = [save EXCEPT ![f] = Waiting]
    /\ UNCHANGED <<disk, opening, load, deleting, deleted, spared, crashes, torn>>

\* fork_session after its await.
Fork(p, f) ==
    \E moved \in 0 .. MaxVersion[p], source \in BOOLEAN :
        MayFork(p, moved, source) /\ InsertFork(f, NewMeta(p, moved, source))

\* open_session up to its await: the metadata is cloned.
OpenStart(o, c) ==
    /\ opening[o] = None
    /\ known[c] # None /\ live[c] = None
    /\ opening' = [opening EXCEPT ![o] = [chat |-> c, meta |-> known[c], text |-> Unread]]
    /\ UNCHANGED <<known, live, queued, save, disk, load, deleting, deleted, spared, crashes, torn>>

OpenRead(o) ==
    /\ opening[o] # None /\ opening[o].text = Unread
    /\ LET text == disk[opening[o].chat].text
       IN  opening' = [opening EXCEPT ![o].text = IF text = NoText THEN 0 ELSE text]
    /\ UNCHANGED <<known, live, queued, save, disk, load, deleting, deleted, spared, crashes, torn>>

\* Mutants: a deleted chat is opened; an open chat is opened again.
OpensDeleted(c) == live[c] = None
OpensTwice(c) == known[c] # None

Opens(c) == live[c] = None /\ known[c] # None

\* Mutant: the session starts a chain of metadata writes of its own.
HandOverNothing(w) == w

\* The session's first save waits for the store's last write.
HandOver(w) == [store |-> <<>>, session |-> w.store]

\* open_session after its await.
OpenFinish(o) ==
    LET c == opening[o].chat
    IN  /\ opening[o] # None /\ opening[o].text # Unread
        /\ opening' = [opening EXCEPT ![o] = None]
        /\ \/ /\ Opens(c)
              /\ live' = [live EXCEPT ![c] = [meta |-> opening[o].meta, text |-> opening[o].text]]
              /\ queued' = [queued EXCEPT ![c] = HandOver(@)]
           \/ ~Opens(c) /\ UNCHANGED <<live, queued>>
        /\ UNCHANGED <<known, save, disk, load, deleting, deleted, spared, crashes, torn>>

\* delete_session, with close_for_deletion of an open session.
Delete(c) ==
    /\ known[c] # None
    /\ load.stage = "merged" \/ "deleteWhileLoading" \in Races
    /\ known' = [known EXCEPT ![c] = None]
    /\ live' = [live EXCEPT ![c] = None]
    /\ deleting' = deleting \cup {c}
    /\ deleted' = deleted \cup {c} /\ spared' = spared \ {c}
    /\ UNCHANGED <<queued, save, disk, opening, load, crashes, torn>>

WritesDone(c) == queued[c] = NoWrites /\ save[c] = Idle

\* delete_session's task, after join_all of the pending writes.
RemoveFiles(c) ==
    /\ c \in deleting /\ WritesDone(c)
    /\ disk' = [disk EXCEPT ![c] = NoFiles]
    /\ deleting' = deleting \ {c}
    /\ UNCHANGED <<known, live, queued, save, opening, load, deleted, spared, crashes, torn>>

-----------------------------------------------------------------------------
(* The tasks that write, and the one that reads at the start.               *)

WriteMeta(c, chain) ==
    /\ queued[c][chain] # <<>>
    /\ disk' = [disk EXCEPT ![c].meta = Head(queued[c][chain])]
    /\ queued' = [queued EXCEPT ![c][chain] = Tail(@)]
    /\ UNCHANGED <<known, live, save, opening, load, deleting, deleted, spared, crashes, torn>>

\* The debounce is over; a deleted session saves nothing.
TakeSnapshot(c) ==
    /\ save[c].stage = "waiting"
    /\ save' = [save EXCEPT ![c] =
            IF live[c] = None THEN Idle ELSE [stage |-> "writing", text |-> live[c].text]]
    /\ UNCHANGED <<known, live, queued, disk, opening, load, deleting, deleted, spared, crashes, torn>>

WriteText(c) ==
    /\ save[c].stage = "writing"
    /\ disk' = [disk EXCEPT ![c].text = save[c].text]
    /\ save' = [save EXCEPT ![c] = Idle]
    /\ UNCHANGED <<known, live, queued, opening, load, deleting, deleted, spared, crashes, torn>>

\* load_all_metadata.
LoadRead ==
    /\ load.stage = "unread"
    /\ load' = [stage |-> "read", found |-> [c \in Chats |-> disk[c].meta]]
    /\ UNCHANGED <<known, live, queued, save, disk, opening, deleting, deleted, spared, crashes, torn>>

\* A chat that is already in the list stays as it is.
LoadMerge ==
    /\ load.stage = "read"
    /\ known' = [c \in Chats |-> IF known[c] = None THEN load.found[c] ELSE known[c]]
    /\ load' = [Unloaded EXCEPT !.stage = "merged"]
    /\ UNCHANGED <<live, queued, save, disk, opening, deleting, deleted, spared, crashes, torn>>

\* Wu is killed and started again: only the files are left, each of them whole
\* (write_atomically renames).  No record is left of a deletion whose task had not
\* removed the files yet.
Crash ==
    /\ crashes < MaxCrashes
    /\ crashes' = crashes + 1
    /\ known' = [c \in Chats |-> None] /\ live' = [c \in Chats |-> None]
    /\ queued' = [c \in Chats |-> NoWrites] /\ save' = [c \in Chats |-> Idle]
    /\ opening' = [o \in Openings |-> None]
    /\ load' = Unloaded /\ deleting' = {}
    /\ spared' = spared \cup deleting
    /\ UNCHANGED <<disk, deleted>>
    /\ torn' = (torn \/ deleting # {} \/ \E c \in Chats : queued[c] # NoWrites)

-----------------------------------------------------------------------------
UserNext ==
    \/ \E c \in Chats : Create(c) \/ Rename(c) \/ Touch(c) \/ Named(c) \/ Delete(c)
    \/ \E p, f \in Chats : Fork(p, f)
    \/ \E o \in Openings, c \in Chats : OpenStart(o, c)

TaskNext ==
    \/ \E o \in Openings : OpenRead(o) \/ OpenFinish(o)
    \/ \E c \in Chats : \/ TakeSnapshot(c) \/ WriteText(c) \/ RemoveFiles(c)
                        \/ \E chain \in {"store", "session"} : WriteMeta(c, chain)
    \/ LoadRead \/ LoadMerge

Next == UserNext \/ TaskNext \/ Crash

Spec == Init /\ [][Next]_vars

-----------------------------------------------------------------------------
Quiet(c) ==
    /\ WritesDone(c)
    /\ c \notin deleting /\ load.stage = "merged"

\* Once nothing is under way the files of a chat are what the list and its session
\* say: no rename, pin or message is only in memory, none was overwritten by an
\* older write.  (A chat nothing was ever sent in has no files.)
SavedWhenQuiet ==
    \A c \in Chats : (Quiet(c) /\ known[c] # None) =>
        /\ known[c] = Current(c)
        /\ disk[c].meta = known[c] \/ (disk[c] = NoFiles /\ known[c].version = 0)
        /\ live[c] # None => live[c].text = disk[c].text \/ (live[c].text = 0 /\ disk[c].text = NoText)

\* A deleted chat does not come back: not into the list, not as a session that an
\* opening finishes late, and not onto the disk by a write that was still waiting.
\* Except for `spared`: the files are removed by a detached task, and when Wu is
\* killed before that is done the next start lists the chat again.
DeletedForGood ==
    \A c \in deleted \ spared :
        /\ known[c] = None /\ live[c] = None
        /\ c \notin deleting => disk[c] = NoFiles

\* The metadata on disk never goes back to an older version, whatever order the
\* tasks of the store and of the session run in.
MetadataInOrder ==
    [][ \A c \in Chats :
          (disk[c].meta # None /\ disk'[c].meta # None)
              => disk'[c].meta.version >= disk[c].meta.version ]_vars

\* An open chat never shows less than its transcript file holds: a second opening
\* that finishes late does not bring back what it read.
NothingForgotten ==
    \A c \in Chats : live[c] # None => live[c].text >= disk[c].text

\* An open fork that still copies its parent's native session finds the parent as
\* it was when it was forked ("so it must not have moved on").  Killing Wu
\* before it has written the metadata of both chats, or removed the fork it was
\* deleting, is left out.
NoStaleCopy ==
    \A f \in Chats :
        (live[f] # None /\ live[f].meta.source /\ ~torn) =>
            LET p == live[f].meta.parent
            IN  known[p] # None => known[p].moved = live[f].meta.since
=============================================================================
