------------------------- MODULE SessionStore_proofs -------------------------
(***************************************************************************)
(* A deleted chat stays deleted, and an open chat shows all its transcript *)
(* file holds: proofs about SessionStore for any number of chats, openings,*)
(* changes and crashes, with one assumption: chats are deleted after the   *)
(* list was loaded (NoDeleteWhileLoading).                                 *)
(*                                                                         *)
(* DeletedForGood alone is not inductive.  A write that waits, or a list   *)
(* that was read and not merged, could bring a chat back, so the invariant *)
(* says that no chat that was removed has either.  For NothingForgotten    *)
(* the invariant says what a save under way writes, what an opening has    *)
(* read, and what load_all_metadata has found (TextInv).                   *)
(***************************************************************************)
EXTENDS SessionStore, TLAPS, SequenceTheorems

\* The deleted chats whose files delete_session's task has removed; expanded everywhere.
Removed == deleted \ (deleting \cup spared)
USE DEF Removed

NoDeleteWhileLoading == "deleteWhileLoading" \notin Races

\* Nothing is left of a chat whose files were removed: in memory, on disk, or in
\* a task that writes.
Gone(c) ==
    /\ known[c] = None /\ live[c] = None
    /\ disk[c] = NoFiles /\ queued[c] = NoWrites /\ save[c] = Idle

DeletedInv ==
    /\ DOMAIN known = Chats /\ DOMAIN live = Chats /\ DOMAIN disk = Chats
    /\ DOMAIN queued = Chats /\ DOMAIN save = Chats
    /\ deleted \subseteq Chats /\ deleting \subseteq deleted \ spared
    /\ \A c \in deleting : known[c] = None /\ live[c] = None
    /\ \A c \in Removed : Gone(c)
    /\ load.stage # "merged" => deleting = {}
    /\ load.stage = "read" => \A c \in Removed : load.found[c] = None

LEMMA InitDeleted == Init => DeletedInv
BY StoreAssumption DEF Init, DeletedInv, Unloaded

\* A step that changes nothing of a chat that is not in the list, and removes and
\* deletes none.
LEMMA KeepsDeleted ==
    ASSUME DeletedInv, UNCHANGED <<load, deleting, deleted, spared>>,
           DOMAIN known' = Chats, DOMAIN live' = Chats, DOMAIN disk' = Chats,
           DOMAIN queued' = Chats, DOMAIN save' = Chats,
           \A c \in deleting \cup Removed : known'[c] = known[c] /\ live'[c] = live[c],
           \A c \in Removed : disk'[c] = disk[c] /\ queued'[c] = queued[c] /\ save'[c] = save[c]
    PROVE  DeletedInv'
<1>1. \A c \in Removed' : Gone(c)'
    BY DEF DeletedInv, Gone
<1> QED BY <1>1 DEF DeletedInv

-----------------------------------------------------------------------------
(* The user.                                                                *)

\* Change only reaches the chats it is about.
LEMMA ChangeKeeps ==
    ASSUME NEW new, Change(new), NEW c \in Chats, c \notin DOMAIN new
    PROVE  known'[c] = known[c] /\ live'[c] = live[c] /\ queued'[c] = queued[c]
BY DEF Change

LEMMA RenameDeleted == ASSUME DeletedInv, NEW c \in Chats, Rename(c) PROVE DeletedInv'
<1>1. c \notin deleting \cup Removed
    BY DEF Rename, MayChange, DeletedInv, Gone
<1>2. \A d \in Chats \ {c} : known'[d] = known[d] /\ live'[d] = live[d] /\ queued'[d] = queued[d]
    BY ChangeKeeps DEF Rename
<1>3. DOMAIN known' = Chats /\ DOMAIN live' = Chats /\ DOMAIN queued' = Chats
    BY DEF Rename, Change
<1> QED BY <1>1, <1>2, <1>3, KeepsDeleted DEF Rename, DeletedInv

LEMMA NamedDeleted == ASSUME DeletedInv, NEW c \in Chats, Named(c) PROVE DeletedInv'
<1>1. c \notin deleting \cup Removed
    BY DEF Named, MayChange, DeletedInv, Gone
<1>2. \A d \in Chats \ {c} : known'[d] = known[d] /\ live'[d] = live[d] /\ queued'[d] = queued[d]
    BY ChangeKeeps DEF Named
<1>3. DOMAIN known' = Chats /\ DOMAIN live' = Chats /\ DOMAIN queued' = Chats
    BY DEF Named, Change
<1> QED BY <1>1, <1>2, <1>3, KeepsDeleted DEF Named, DeletedInv

\* The forks of a chat that moves on are in the list as well.
LEMMA TouchDeleted == ASSUME DeletedInv, NEW c \in Chats, Touch(c) PROVE DeletedInv'
<1> DEFINE m == Advance([live[c].meta EXCEPT !.moved = @ + 1])
           F == StaleForks(c, m)
<1>1. \A x \in {c} \cup F : x \notin deleting \cup Removed
    BY DEF Touch, MayChange, DeletedInv, Gone
<1>2. \A x \in Chats : (x # c /\ x \notin F) =>
          known'[x] = known[x] /\ live'[x] = live[x] /\ queued'[x] = queued[x] /\ save'[x] = save[x]
    BY DEF Touch, DeletedInv
<1>3. /\ DOMAIN known' = Chats /\ DOMAIN live' = Chats /\ DOMAIN queued' = Chats
      /\ DOMAIN save' = Chats
    BY DEF Touch, DeletedInv
<1>4. UNCHANGED <<disk, load, deleting, deleted, spared>>
    BY DEF Touch
<1> HIDE DEF F
<1>5. \A x \in deleting \cup Removed : x \in Chats /\ x # c /\ x \notin F
    BY <1>1 DEF DeletedInv
<1> QED BY <1>2, <1>3, <1>4, <1>5, KeepsDeleted DEF DeletedInv

LEMMA CreateDeleted == ASSUME DeletedInv, NEW c \in Chats, Create(c) PROVE DeletedInv'
<1>1. c \notin deleting \cup Removed
    BY DEF Create, Fresh, DeletedInv
<1> QED BY <1>1, KeepsDeleted DEF Create, DeletedInv

LEMMA ForkDeleted == ASSUME DeletedInv, NEW f \in Chats, NEW m, InsertFork(f, m) PROVE DeletedInv'
<1>1. f \notin deleting \cup Removed
    BY DEF InsertFork, Fresh, DeletedInv
<1> QED BY <1>1, KeepsDeleted DEF InsertFork, DeletedInv

\* An opening that comes late finds that the chat is not in the list.
LEMMA OpenFinishDeleted == ASSUME DeletedInv, NEW o \in Openings, OpenFinish(o) PROVE DeletedInv'
<1> DEFINE c == opening[o].chat
<1>1. CASE UNCHANGED <<live, queued>>
    BY <1>1, KeepsDeleted DEF OpenFinish, DeletedInv
<1>2. CASE /\ Opens(c)
           /\ live' = [live EXCEPT ![c] = [meta |-> opening[o].meta, text |-> opening[o].text]]
           /\ queued' = [queued EXCEPT ![c] = HandOver(@)]
    <2>1. c \notin deleting \cup Removed
        BY <1>2 DEF Opens, DeletedInv, Gone
    <2> QED BY <1>2, <2>1, KeepsDeleted DEF OpenFinish, DeletedInv
<1> QED BY <1>1, <1>2 DEF OpenFinish

LEMMA DeleteDeleted ==
    ASSUME DeletedInv, NoDeleteWhileLoading, NEW c \in Chats, Delete(c)
    PROVE  DeletedInv'
<1>1. c \notin Removed /\ load.stage = "merged"
    BY DEF Delete, DeletedInv, Gone, NoDeleteWhileLoading
<1>2. \A d \in Removed : Gone(d)'
    BY <1>1 DEF Delete, DeletedInv, Gone
<1>3. \A d \in deleting' : known'[d] = None /\ live'[d] = None
    BY DEF Delete, DeletedInv
<1> QED BY <1>1, <1>2, <1>3 DEF Delete, DeletedInv

-----------------------------------------------------------------------------
(* The tasks.                                                               *)

\* The files go when no write of the chat is left.
LEMMA RemoveFilesDeleted == ASSUME DeletedInv, NEW c \in Chats, RemoveFiles(c) PROVE DeletedInv'
<1>1. Gone(c)'
    BY DEF RemoveFiles, WritesDone, DeletedInv, Gone
<1>2. \A d \in Removed : Gone(d)'
    BY <1>1 DEF RemoveFiles, DeletedInv, Gone
<1>3. load'.stage = "read" => \A d \in Removed' : load'.found[d] = None
    BY DEF RemoveFiles, DeletedInv
<1> QED BY <1>1, <1>2, <1>3 DEF RemoveFiles, DeletedInv

LEMMA WriteMetaDeleted ==
    ASSUME DeletedInv, NEW c \in Chats, NEW chain \in {"store", "session"}, WriteMeta(c, chain)
    PROVE  DeletedInv'
<1>1. c \notin Removed
    BY DEF WriteMeta, DeletedInv, Gone, NoWrites
<1> QED BY <1>1, KeepsDeleted DEF WriteMeta, DeletedInv

LEMMA TakeSnapshotDeleted == ASSUME DeletedInv, NEW c \in Chats, TakeSnapshot(c) PROVE DeletedInv'
<1>1. c \notin Removed
    BY DEF TakeSnapshot, DeletedInv, Gone, Idle
<1> QED BY <1>1, KeepsDeleted DEF TakeSnapshot, DeletedInv

LEMMA WriteTextDeleted == ASSUME DeletedInv, NEW c \in Chats, WriteText(c) PROVE DeletedInv'
<1>1. c \notin Removed
    BY DEF WriteText, DeletedInv, Gone, Idle
<1> QED BY <1>1, KeepsDeleted DEF WriteText, DeletedInv

LEMMA LoadReadDeleted == DeletedInv /\ LoadRead => DeletedInv'
<1> SUFFICES ASSUME DeletedInv, LoadRead PROVE DeletedInv'
    OBVIOUS
<1>1. deleting = {}
    BY DEF LoadRead, DeletedInv
<1>2. \A c \in Removed : Gone(c)' /\ load'.found[c] = None
    BY DEF LoadRead, DeletedInv, Gone, NoFiles
<1> QED BY <1>1, <1>2 DEF LoadRead, DeletedInv

LEMMA LoadMergeDeleted == DeletedInv /\ LoadMerge => DeletedInv'
<1> SUFFICES ASSUME DeletedInv, LoadMerge PROVE DeletedInv'
    OBVIOUS
<1>1. deleting = {}
    BY DEF LoadMerge, DeletedInv
<1>2. \A c \in Removed : Gone(c)'
    BY DEF LoadMerge, DeletedInv, Gone
<1>3. load'.stage = "merged"
    BY DEF LoadMerge, Unloaded
<1> QED BY <1>1, <1>2, <1>3 DEF LoadMerge, DeletedInv

LEMMA CrashDeleted == DeletedInv /\ Crash => DeletedInv'
<1> SUFFICES ASSUME DeletedInv, Crash PROVE DeletedInv'
    OBVIOUS
<1>1. \A c \in Removed : Gone(c)'
    BY DEF Crash, DeletedInv, Gone
<1>2. load'.stage = "unread"
    BY DEF Crash, Unloaded
<1> QED BY <1>1, <1>2 DEF Crash, DeletedInv

-----------------------------------------------------------------------------
LEMMA NextDeleted == NoDeleteWhileLoading /\ DeletedInv /\ [Next]_vars => DeletedInv'
<1> SUFFICES ASSUME NoDeleteWhileLoading, DeletedInv, [Next]_vars PROVE DeletedInv'
    OBVIOUS
<1>1. ASSUME NEW c \in Chats, Create(c) \/ Rename(c) \/ Touch(c) \/ Named(c) \/ Delete(c)
      PROVE  DeletedInv'
    BY <1>1, CreateDeleted, RenameDeleted, TouchDeleted, NamedDeleted, DeleteDeleted
<1>2. ASSUME NEW p \in Chats, NEW f \in Chats, Fork(p, f)
      PROVE  DeletedInv'
    BY <1>2, ForkDeleted DEF Fork
<1>3. ASSUME NEW o \in Openings, NEW c \in Chats, OpenStart(o, c) PROVE DeletedInv'
    BY <1>3, KeepsDeleted DEF OpenStart, DeletedInv
<1>4. ASSUME NEW o \in Openings, OpenRead(o) PROVE DeletedInv'
    BY <1>4, KeepsDeleted DEF OpenRead, DeletedInv
<1>5. ASSUME NEW o \in Openings, OpenFinish(o) PROVE DeletedInv'
    BY <1>5, OpenFinishDeleted
<1>6. ASSUME NEW c \in Chats, TakeSnapshot(c) \/ WriteText(c) \/ RemoveFiles(c) PROVE DeletedInv'
    BY <1>6, TakeSnapshotDeleted, WriteTextDeleted, RemoveFilesDeleted
<1>7. ASSUME NEW c \in Chats, NEW chain \in {"store", "session"}, WriteMeta(c, chain) PROVE DeletedInv'
    BY <1>7, WriteMetaDeleted
<1>8. CASE LoadRead \/ LoadMerge \/ Crash
    BY <1>8, LoadReadDeleted, LoadMergeDeleted, CrashDeleted
<1>9. CASE UNCHANGED vars
    BY <1>9, KeepsDeleted DEF vars, DeletedInv
<1> QED BY <1>1, <1>2, <1>3, <1>4, <1>5, <1>6, <1>7, <1>8, <1>9 DEF Next, UserNext, TaskNext

\* A deleted chat does not come back, by any of the tasks that run on after the
\* deletion, or by killing Wu at any point after its files were removed.
THEOREM DeletionHolds == NoDeleteWhileLoading => (Spec => []DeletedForGood)
<1> SUFFICES ASSUME NoDeleteWhileLoading PROVE Spec => []DeletedForGood
    OBVIOUS
<1>1. Init => DeletedInv
    BY InitDeleted
<1>2. DeletedInv /\ [Next]_vars => DeletedInv'
    BY NextDeleted
<1>3. DeletedInv => DeletedForGood
    BY DEF DeletedInv, DeletedForGood, Gone
<1> QED BY <1>1, <1>2, <1>3, PTL DEF Spec

-----------------------------------------------------------------------------
(* Types.                                                                   *)

SaveType   == [stage : {"idle", "waiting", "writing"}, text : Nat]
WritesType == [store : Seq(MetaType), session : Seq(MetaType)]
FilesType  == [meta : MetaType \cup {None}, text : Nat \cup {NoText}]
LoadType   == [stage : {"unread", "read", "merged"}, found : [Chats -> MetaType \cup {None}]]

\* The store, its sessions and its tasks keep the types of their declarations.
StoreTypes ==
    /\ known \in [Chats -> MetaType \cup {None}]
    /\ live \in [Chats -> SessionType \cup {None}]
    /\ queued \in [Chats -> WritesType]
    /\ save \in [Chats -> SaveType]
    /\ disk \in [Chats -> FilesType]
    /\ opening \in [Openings -> OpeningType \cup {None}]
    /\ load \in LoadType
    /\ deleting \subseteq Chats /\ deleted \subseteq Chats /\ spared \subseteq Chats
    /\ crashes \in Nat /\ torn \in BOOLEAN

\* The values the actions write, and None apart from all of them.
LEMMA ValueTypes ==
    /\ Idle \in SaveType /\ Waiting \in SaveType /\ NoWrites \in WritesType
    /\ NoFiles \in FilesType /\ Unloaded \in LoadType
    /\ None \notin MetaType /\ None \notin SessionType /\ None \notin OpeningType
    /\ \A p \in Chats \cup {None}, since \in Nat, source \in BOOLEAN : NewMeta(p, since, source) \in MetaType
    /\ Unloaded.stage = "unread" /\ \A c \in Chats : Unloaded.found[c] = None
BY NoneAssumption DEF Idle, SaveType, Waiting, NoWrites, WritesType, NoFiles, FilesType, Unloaded,
    LoadType, NewMeta, MetaType

\* What a change of metadata keeps and what it changes.
LEMMA AdvanceType ==
    ASSUME NEW m \in MetaType
    PROVE  /\ Advance(m) \in MetaType /\ Advance(m).version = m.version + 1
           /\ Advance(m).moved = m.moved /\ Advance(m).native = m.native
           /\ Advance(m).parent = m.parent /\ Advance(m).since = m.since
           /\ Advance(m).source = m.source
BY DEF Advance, MetaType

\* A fork that lost its source.
LEMMA UnsourcedType ==
    ASSUME NEW m \in MetaType
    PROVE  /\ Unsourced(m) \in MetaType /\ Unsourced(m).version = m.version + 1
           /\ Unsourced(m).moved = m.moved /\ Unsourced(m).native = m.native
           /\ ~Unsourced(m).source
<1> DEFINE u == [m EXCEPT !.source = FALSE]
<1>1. u \in MetaType /\ u.version = m.version /\ u.moved = m.moved /\ u.native = m.native /\ ~u.source
    BY DEF MetaType
<1> HIDE DEF u
<1> QED BY <1>1, AdvanceType DEF Unsourced, u

\* A chat that moves on.
LEMMA MovedType ==
    ASSUME NEW m \in MetaType
    PROVE  LET a == Advance([m EXCEPT !.moved = @ + 1])
           IN  /\ a \in MetaType /\ a.version = m.version + 1 /\ a.moved = m.moved + 1
               /\ a.native = m.native /\ a.parent = m.parent /\ a.since = m.since
               /\ a.source = m.source
<1> DEFINE u == [m EXCEPT !.moved = @ + 1]
<1>1. u \in MetaType /\ u.version = m.version /\ u.moved = m.moved + 1 /\ u.native = m.native
      /\ u.parent = m.parent /\ u.since = m.since /\ u.source = m.source
    BY DEF MetaType
<1> HIDE DEF u
<1> QED BY <1>1, AdvanceType DEF u

\* A chat whose first run has begun.
LEMMA NamedType ==
    ASSUME NEW m \in MetaType
    PROVE  LET a == Advance([m EXCEPT !.native = TRUE, !.source = FALSE])
           IN  /\ a \in MetaType /\ a.version = m.version + 1 /\ a.moved = m.moved
               /\ a.native /\ ~a.source
<1> DEFINE u == [m EXCEPT !.native = TRUE, !.source = FALSE]
<1>1. u \in MetaType /\ u.version = m.version /\ u.moved = m.moved /\ u.native /\ ~u.source
    BY DEF MetaType
<1> HIDE DEF u
<1> QED BY <1>1, AdvanceType DEF u

\* A queued write is one more write.
LEMMA QueueType ==
    ASSUME NEW w \in WritesType, NEW c, NEW isLive \in BOOLEAN, NEW m \in MetaType
    PROVE  Queue(w, c, isLive, m) \in WritesType
<1>1. Append(w.store, m) \in Seq(MetaType) /\ Append(w.session, m) \in Seq(MetaType)
    BY AppendProperties DEF WritesType
<1> QED BY <1>1 DEF Queue, WritesType

LEMMA InitTypes == Init => StoreTypes
<1> SUFFICES ASSUME Init PROVE StoreTypes
    OBVIOUS
<1>1. NewMeta(None, 0, FALSE) \in MetaType
    BY ValueTypes
<1>2. [NewMeta(None, 0, FALSE) EXCEPT !.native = TRUE] \in MetaType
    BY <1>1 DEF MetaType
<1>3. [meta |-> [NewMeta(None, 0, FALSE) EXCEPT !.native = TRUE], text |-> 1] \in FilesType
    BY <1>2 DEF FilesType
<1>4. disk \in [Chats -> FilesType]
    BY <1>3, ValueTypes DEF Init
<1> QED BY <1>4, ValueTypes DEF Init, StoreTypes

\* The metadata a change starts from.
LEMMA CurrentType ==
    ASSUME StoreTypes, NEW c \in Chats, known[c] # None
    PROVE  Current(c) \in MetaType
BY DEF Current, StoreTypes, SessionType

\* The types of a chat's part of the state.
LEMMA ChatTypes ==
    ASSUME StoreTypes, NEW c \in Chats
    PROVE  /\ known[c] \in MetaType \cup {None} /\ live[c] \in SessionType \cup {None}
           /\ queued[c] \in WritesType /\ save[c] \in SaveType /\ disk[c] \in FilesType
BY DEF StoreTypes

\* An open session whose metadata changes.
LEMMA SessionMetaType ==
    ASSUME NEW l \in SessionType, NEW m \in MetaType
    PROVE  /\ [l EXCEPT !.meta = m] \in SessionType
           /\ [l EXCEPT !.meta = m].meta = m /\ [l EXCEPT !.meta = m].text = l.text
BY DEF SessionType

LEMMA ChangeTypes ==
    ASSUME StoreTypes, NEW new, Change(new), \A x \in DOMAIN new : new[x] \in MetaType
    PROVE  /\ known' \in [Chats -> MetaType \cup {None}]
           /\ live' \in [Chats -> SessionType \cup {None}]
           /\ queued' \in [Chats -> WritesType]
<1>1. known' \in [Chats -> MetaType \cup {None}]
    BY DEF Change, StoreTypes
<1>2. live' \in [Chats -> SessionType \cup {None}]
    <2>1. \A x \in Chats : (x \in DOMAIN new /\ live[x] # None) =>
                [live[x] EXCEPT !.meta = new[x]] \in SessionType
        BY SessionMetaType, ChatTypes
    <2> QED BY <2>1, ChatTypes DEF Change
<1>3. queued' \in [Chats -> WritesType]
    <2>1. \A x \in Chats : x \in DOMAIN new =>
                Queue(queued[x], x, live[x] # None, new[x]) \in WritesType
        BY QueueType, ChatTypes
    <2> QED BY <2>1, ChatTypes DEF Change
<1> QED BY <1>1, <1>2, <1>3

LEMMA RenameTypes == ASSUME StoreTypes, NEW c \in Chats, Rename(c) PROVE StoreTypes'
<1> DEFINE new == [x \in {c} |-> Advance(Current(c))]
<1>1. \A x \in DOMAIN new : new[x] \in MetaType
    BY CurrentType, AdvanceType DEF Rename, MayChange
<1>2. Change(new)
    BY DEF Rename
<1>3. UNCHANGED <<save, disk, opening, load, deleting, deleted, spared, crashes, torn>>
    BY DEF Rename
<1> HIDE DEF new
<1>4. /\ known' \in [Chats -> MetaType \cup {None}] /\ live' \in [Chats -> SessionType \cup {None}]
      /\ queued' \in [Chats -> WritesType]
    BY <1>1, <1>2, ChangeTypes
<1> QED BY <1>3, <1>4 DEF StoreTypes

LEMMA NamedTypes == ASSUME StoreTypes, NEW c \in Chats, Named(c) PROVE StoreTypes'
<1> DEFINE new == [x \in {c} |-> Advance([live[c].meta EXCEPT !.native = TRUE, !.source = FALSE])]
<1>1. \A x \in DOMAIN new : new[x] \in MetaType
    <2>1. live[c].meta \in MetaType
        BY ChatTypes DEF Named, SessionType
    <2> QED BY <2>1, NamedType
<1>2. Change(new)
    BY DEF Named
<1>3. UNCHANGED <<save, disk, opening, load, deleting, deleted, spared, crashes, torn>>
    BY DEF Named
<1> HIDE DEF new
<1>4. /\ known' \in [Chats -> MetaType \cup {None}] /\ live' \in [Chats -> SessionType \cup {None}]
      /\ queued' \in [Chats -> WritesType]
    BY <1>1, <1>2, ChangeTypes
<1> QED BY <1>3, <1>4 DEF StoreTypes

LEMMA TouchTypes == ASSUME StoreTypes, NEW c \in Chats, Touch(c) PROVE StoreTypes'
<1> DEFINE m == Advance([live[c].meta EXCEPT !.moved = @ + 1])
           F == StaleForks(c, m)
<1>1. live[c] \in SessionType /\ live[c].meta \in MetaType /\ live[c].text + 1 \in Nat
    BY ChatTypes DEF Touch, SessionType
<1>2. m \in MetaType
    BY <1>1, MovedType
<1>3. \A x \in F : known[x] # None /\ x \in Chats
    BY DEF StaleForks
<1>4. \A x \in F : /\ Unsourced(Current(x)) \in MetaType
                   /\ live[x] # None => Unsourced(live[x].meta) \in MetaType
    BY <1>3, CurrentType, UnsourcedType, ChatTypes DEF SessionType
<1>5. /\ known' = [x \in Chats |-> IF x = c THEN m ELSE IF x \in F THEN Unsourced(Current(x)) ELSE known[x]]
      /\ live' = [x \in Chats |->
              IF x = c THEN [meta |-> m, text |-> live[c].text + 1]
              ELSE IF x \in F /\ live[x] # None
                   THEN [live[x] EXCEPT !.meta = Unsourced(@)] ELSE live[x]]
      /\ queued' = [x \in Chats |->
              IF x = c THEN Queue(queued[x], x, TRUE, m)
              ELSE IF x \in F THEN Queue(queued[x], x, live[x] # None, Unsourced(Current(x)))
              ELSE queued[x]]
      /\ save' = [save EXCEPT ![c] = Waiting]
      /\ UNCHANGED <<disk, opening, load, deleting, deleted, spared, crashes, torn>>
    BY DEF Touch
<1> HIDE DEF m, F
<1>6. known' \in [Chats -> MetaType \cup {None}]
    BY <1>2, <1>4, <1>5, ChatTypes
<1>7. live' \in [Chats -> SessionType \cup {None}]
    <2>1. [meta |-> m, text |-> live[c].text + 1] \in SessionType
        BY <1>1, <1>2 DEF SessionType
    <2>2. \A x \in Chats : (x \in F /\ live[x] # None) =>
                [live[x] EXCEPT !.meta = Unsourced(@)] \in SessionType
        BY <1>4, SessionMetaType, ChatTypes
    <2> QED BY <1>5, <2>1, <2>2, ChatTypes
<1>8. queued' \in [Chats -> WritesType]
    <2>1. Queue(queued[c], c, TRUE, m) \in WritesType
        BY <1>2, QueueType, ChatTypes
    <2>2. \A x \in Chats : x \in F => Queue(queued[x], x, live[x] # None, Unsourced(Current(x))) \in WritesType
        BY <1>4, QueueType, ChatTypes
    <2> QED BY <1>5, <2>1, <2>2, ChatTypes
<1>9. save' \in [Chats -> SaveType]
    BY <1>5, ValueTypes DEF StoreTypes
<1> QED BY <1>5, <1>6, <1>7, <1>8, <1>9 DEF StoreTypes

\* A new chat: one the user begins, or a fork.
Appears(f) == Create(f) \/ \E m \in MetaType : InsertFork(f, m)

LEMMA ForkAppears == ASSUME StoreTypes, NEW p \in Chats, NEW f \in Chats, Fork(p, f) PROVE Appears(f)
<1>1. PICK moved \in Nat, source \in BOOLEAN : InsertFork(f, NewMeta(p, moved, source))
    BY StoreAssumption DEF Fork
<1>2. NewMeta(p, moved, source) \in MetaType
    BY ValueTypes
<1> QED BY <1>1, <1>2 DEF Appears

LEMMA AppearsTypes == ASSUME StoreTypes, NEW f \in Chats, Appears(f) PROVE StoreTypes'
<1>1. CASE Create(f)
    <2>1. NewMeta(None, 0, FALSE) \in MetaType
        BY ValueTypes
    <2>2. [meta |-> NewMeta(None, 0, FALSE), text |-> 0] \in SessionType
        BY <2>1 DEF SessionType
    <2> QED BY <1>1, <2>1, <2>2 DEF Create, StoreTypes
<1>2. ASSUME NEW m \in MetaType, InsertFork(f, m) PROVE StoreTypes'
    <2>1. /\ known' = [known EXCEPT ![f] = m]
          /\ live' = [live EXCEPT ![f] = [meta |-> m, text |-> 0]]
          /\ queued' = [queued EXCEPT ![f] = Queue(queued[f], f, TRUE, m)]
          /\ save' = [save EXCEPT ![f] = Waiting]
          /\ UNCHANGED <<disk, opening, load, deleting, deleted, spared, crashes, torn>>
        BY <1>2 DEF InsertFork, StoreTypes
    <2>2. [meta |-> m, text |-> 0] \in SessionType /\ Queue(queued[f], f, TRUE, m) \in WritesType
        BY QueueType, ChatTypes DEF SessionType
    <2> QED BY <2>1, <2>2, ValueTypes DEF StoreTypes
<1> QED BY <1>1, <1>2 DEF Appears

LEMMA OpeningTypes ==
    ASSUME StoreTypes, NEW o \in Openings, NEW c \in Chats,
           OpenStart(o, c) \/ OpenRead(o) \/ OpenFinish(o)
    PROVE  StoreTypes'
<1>1. opening[o] # None => opening[o] \in OpeningType
    BY DEF StoreTypes
<1>2. CASE OpenStart(o, c)
    <2>1. [chat |-> c, meta |-> known[c], text |-> Unread] \in OpeningType
        BY <1>2, ChatTypes DEF OpenStart, OpeningType
    <2> QED BY <1>2, <2>1 DEF OpenStart, StoreTypes
<1>3. CASE OpenRead(o)
    <2> DEFINE text == IF disk[opening[o].chat].text = NoText THEN 0 ELSE disk[opening[o].chat].text
    <2>1. disk[opening[o].chat] \in FilesType
        BY <1>1, <1>3, ChatTypes DEF OpenRead, OpeningType
    <2>2. text \in Nat
        BY <2>1 DEF FilesType
    <2>3. opening' = [opening EXCEPT ![o] = [opening[o] EXCEPT !.text = text]]
        BY <1>3 DEF OpenRead, StoreTypes
    <2> HIDE DEF text
    <2>4. [opening[o] EXCEPT !.text = text] \in OpeningType
        BY <1>1, <1>3, <2>2 DEF OpenRead, OpeningType
    <2> QED BY <1>3, <2>3, <2>4 DEF OpenRead, StoreTypes
<1>4. CASE OpenFinish(o)
    <2>1. opening' \in [Openings -> OpeningType \cup {None}]
        BY <1>4 DEF OpenFinish, StoreTypes
    <2>2. opening[o].chat \in Chats /\ [meta |-> opening[o].meta, text |-> opening[o].text] \in SessionType
        BY <1>1, <1>4 DEF OpenFinish, OpeningType, SessionType
    <2>3. HandOver(queued[opening[o].chat]) \in WritesType
        BY <2>2, ChatTypes DEF HandOver, WritesType
    <2>4. live' \in [Chats -> SessionType \cup {None}] /\ queued' \in [Chats -> WritesType]
        BY <1>4, <2>2, <2>3 DEF OpenFinish, StoreTypes
    <2> QED BY <1>4, <2>1, <2>4 DEF OpenFinish, StoreTypes
<1> QED BY <1>2, <1>3, <1>4

LEMMA TaskTypes ==
    ASSUME StoreTypes, NEW c \in Chats, NEW chain \in {"store", "session"},
           \/ Delete(c) \/ RemoveFiles(c) \/ TakeSnapshot(c) \/ WriteText(c) \/ WriteMeta(c, chain)
    PROVE  StoreTypes'
<1>1. CASE Delete(c) \/ RemoveFiles(c)
    BY <1>1, ValueTypes DEF Delete, RemoveFiles, StoreTypes
<1>2. CASE TakeSnapshot(c)
    <2>1. live[c] # None => [stage |-> "writing", text |-> live[c].text] \in SaveType
        BY ChatTypes DEF SessionType, SaveType
    <2> QED BY <1>2, <2>1, ValueTypes DEF TakeSnapshot, StoreTypes
<1>3. CASE WriteText(c)
    <2>1. [disk[c] EXCEPT !.text = save[c].text] \in FilesType
        BY ChatTypes DEF FilesType, SaveType
    <2> QED BY <1>3, <2>1, ValueTypes DEF WriteText, StoreTypes
<1>4. CASE WriteMeta(c, chain)
    <2>1. queued[c][chain] \in Seq(MetaType) /\ queued[c][chain] # <<>>
        BY <1>4, ChatTypes DEF WriteMeta, WritesType
    <2>2. Head(queued[c][chain]) \in MetaType /\ Tail(queued[c][chain]) \in Seq(MetaType)
        BY <2>1, HeadTailProperties
    <2>3. [disk[c] EXCEPT !.meta = Head(queued[c][chain])] \in FilesType
        BY <2>2, ChatTypes DEF FilesType
    <2>4. [queued[c] EXCEPT ![chain] = Tail(queued[c][chain])] \in WritesType
        BY <2>2, ChatTypes DEF WritesType
    <2>5. /\ disk' = [disk EXCEPT ![c] = [disk[c] EXCEPT !.meta = Head(queued[c][chain])]]
          /\ queued' = [queued EXCEPT ![c] = [queued[c] EXCEPT ![chain] = Tail(queued[c][chain])]]
        BY <1>4 DEF WriteMeta, StoreTypes, WritesType
    <2> QED BY <1>4, <2>3, <2>4, <2>5 DEF WriteMeta, StoreTypes
<1> QED BY <1>1, <1>2, <1>3, <1>4

LEMMA LoadTypes ==
    ASSUME StoreTypes, LoadRead \/ LoadMerge \/ Crash
    PROVE  StoreTypes'
<1>1. CASE LoadRead
    <2>1. [c \in Chats |-> disk[c].meta] \in [Chats -> MetaType \cup {None}]
        BY ChatTypes DEF FilesType
    <2> QED BY <1>1, <2>1 DEF LoadRead, StoreTypes, LoadType
<1>2. CASE LoadMerge
    <2>1. \A c \in Chats : load.found[c] \in MetaType \cup {None}
        BY DEF StoreTypes, LoadType
    <2>2. [Unloaded EXCEPT !.stage = "merged"] \in LoadType
        BY ValueTypes DEF LoadType
    <2> QED BY <1>2, <2>1, <2>2, ChatTypes DEF LoadMerge, StoreTypes
<1>3. CASE Crash
    <2>1. (torn \/ deleting # {} \/ \E c \in Chats : queued[c] # NoWrites) \in BOOLEAN
        OBVIOUS
    <2> QED BY <1>3, <2>1, ValueTypes DEF Crash, StoreTypes
<1> QED BY <1>1, <1>2, <1>3

LEMMA NextTypes == StoreTypes /\ [Next]_vars => StoreTypes'
<1> SUFFICES ASSUME StoreTypes, [Next]_vars PROVE StoreTypes'
    OBVIOUS
<1>1. ASSUME NEW c \in Chats, Create(c) \/ Rename(c) \/ Touch(c) \/ Named(c) \/ Delete(c)
      PROVE  StoreTypes'
    BY <1>1, AppearsTypes, RenameTypes, TouchTypes, NamedTypes, TaskTypes DEF Appears
<1>2. ASSUME NEW p \in Chats, NEW f \in Chats, Fork(p, f)
      PROVE  StoreTypes'
    BY <1>2, ForkAppears, AppearsTypes
<1>3. ASSUME NEW o \in Openings, NEW c \in Chats, OpenStart(o, c) PROVE StoreTypes'
    BY <1>3, OpeningTypes
<1>4. ASSUME NEW o \in Openings, OpenRead(o) \/ OpenFinish(o) PROVE StoreTypes'
    <2>1. opening[o].chat \in Chats
        BY <1>4 DEF OpenRead, OpenFinish, StoreTypes, OpeningType
    <2> QED BY <1>4, <2>1, OpeningTypes
<1>5. ASSUME NEW c \in Chats, TakeSnapshot(c) \/ WriteText(c) \/ RemoveFiles(c) PROVE StoreTypes'
    BY <1>5, TaskTypes
<1>6. ASSUME NEW c \in Chats, NEW chain \in {"store", "session"}, WriteMeta(c, chain) PROVE StoreTypes'
    BY <1>6, TaskTypes
<1>7. CASE LoadRead \/ LoadMerge \/ Crash
    BY <1>7, LoadTypes
<1>8. CASE UNCHANGED vars
    BY <1>8 DEF vars, StoreTypes
<1> QED BY <1>1, <1>2, <1>3, <1>4, <1>5, <1>6, <1>7, <1>8 DEF Next, UserNext, TaskNext

-----------------------------------------------------------------------------
(* What the changes of metadata do to each chat.                            *)

\* Nothing of chat x changes.
Same(x) ==
    /\ known'[x] = known[x] /\ live'[x] = live[x] /\ queued'[x] = queued[x]
    /\ save'[x] = save[x] /\ disk'[x] = disk[x]

\* Chat x gets the next version of its metadata and queues it; it may have grown.
Updated(x) ==
    \E m \in MetaType :
        /\ known[x] # None /\ m.version = Current(x).version + 1
        /\ known'[x] = m /\ disk'[x] = disk[x]
        /\ queued'[x] = Queue(queued[x], x, live[x] # None, m)
        /\ \/ live[x] = None /\ live'[x] = None /\ save'[x] = save[x]
           \/ live[x] # None /\ live'[x] = [meta |-> m, text |-> live[x].text] /\ save'[x] = save[x]
           \/ live[x] # None /\ live'[x] = [meta |-> m, text |-> live[x].text + 1] /\ save'[x] = Waiting

\* An open session whose metadata changes, as a record.
LEMMA SessionMetaRecord ==
    ASSUME NEW l \in SessionType, NEW m
    PROVE  [l EXCEPT !.meta = m] = [meta |-> m, text |-> l.text]
BY DEF SessionType

LEMMA ChangeUpdates ==
    ASSUME StoreTypes, NEW c \in Chats, NEW m \in MetaType, known[c] # None,
           m.version = Current(c).version + 1,
           Change([x \in {c} |-> m]), UNCHANGED <<save, disk>>
    PROVE  Updated(c) /\ \A x \in Chats \ {c} : Same(x)
<1>1. live[c] # None => [live[c] EXCEPT !.meta = m] = [meta |-> m, text |-> live[c].text]
    BY ChatTypes, SessionMetaRecord
<1>2. /\ known'[c] = m
      /\ live'[c] = IF live[c] # None THEN [live[c] EXCEPT !.meta = m] ELSE live[c]
      /\ queued'[c] = Queue(queued[c], c, live[c] # None, m)
    BY DEF Change
<1>3. \A x \in Chats \ {c} : Same(x)
    BY DEF Change, Same
<1> QED BY <1>1, <1>2, <1>3 DEF Updated

\* update_session_metadata, set_native_session_id and touch.
LEMMA ChangeStep ==
    ASSUME StoreTypes, NEW c \in Chats, Rename(c) \/ Named(c) \/ Touch(c)
    PROVE  /\ \A x \in Chats : Same(x) \/ Updated(x)
           /\ UNCHANGED <<disk, opening, load, deleting, deleted, spared, torn>>
<1>1. CASE Rename(c)
    <2>1. known[c] # None
        BY <1>1 DEF Rename, MayChange
    <2>2. PICK m : m = Advance(Current(c))
        OBVIOUS
    <2>3. m \in MetaType /\ m.version = Current(c).version + 1
        BY <2>1, <2>2, CurrentType, AdvanceType
    <2>4. Change([x \in {c} |-> m]) /\ UNCHANGED <<save, disk, opening, load, deleting, deleted, spared, torn>>
        <3>1. [x \in {c} |-> Advance(Current(c))] = [x \in {c} |-> m]
            BY <2>2
        <3>2. Change([x \in {c} |-> Advance(Current(c))])
            BY <1>1 DEF Rename
        <3> QED BY <1>1, <3>1, <3>2 DEF Rename, Change
    <2> QED BY <2>1, <2>3, <2>4, ChangeUpdates
<1>2. CASE Named(c)
    <2>1. known[c] # None /\ live[c] # None /\ live[c].meta \in MetaType /\ Current(c) = live[c].meta
        BY <1>2, ChatTypes DEF Named, MayChange, SessionType, Current
    <2>2. PICK m : m = Advance([live[c].meta EXCEPT !.native = TRUE, !.source = FALSE])
        OBVIOUS
    <2>3. m \in MetaType /\ m.version = Current(c).version + 1
        BY <2>1, <2>2, NamedType
    <2>4. Change([x \in {c} |-> m]) /\ UNCHANGED <<save, disk, opening, load, deleting, deleted, spared, torn>>
        <3>1. [x \in {c} |-> Advance([live[c].meta EXCEPT !.native = TRUE, !.source = FALSE])]
                = [x \in {c} |-> m]
            BY <2>2
        <3>2. Change([x \in {c} |-> Advance([live[c].meta EXCEPT !.native = TRUE, !.source = FALSE])])
            BY <1>2 DEF Named
        <3> QED BY <1>2, <3>1, <3>2 DEF Named, Change
    <2> QED BY <2>1, <2>3, <2>4, ChangeUpdates
<1>3. CASE Touch(c)
    <2> DEFINE m == Advance([live[c].meta EXCEPT !.moved = @ + 1])
               F == StaleForks(c, m)
    <2>1. /\ live[c] # None /\ \A x \in {c} \cup F : known[x] # None
          /\ live[c].meta \in MetaType /\ Current(c) = live[c].meta
        BY <1>3, ChatTypes DEF Touch, MayChange, SessionType, Current
    <2>2. m \in MetaType /\ m.version = Current(c).version + 1
        BY <2>1, MovedType
    <2>3. F \subseteq Chats
        BY DEF StaleForks
    <2>4. /\ known' = [x \in Chats |-> IF x = c THEN m ELSE IF x \in F THEN Unsourced(Current(x)) ELSE known[x]]
          /\ live' = [x \in Chats |->
                  IF x = c THEN [meta |-> m, text |-> live[c].text + 1]
                  ELSE IF x \in F /\ live[x] # None
                       THEN [live[x] EXCEPT !.meta = Unsourced(@)] ELSE live[x]]
          /\ queued' = [x \in Chats |->
                  IF x = c THEN Queue(queued[x], x, TRUE, m)
                  ELSE IF x \in F THEN Queue(queued[x], x, live[x] # None, Unsourced(Current(x)))
                  ELSE queued[x]]
          /\ save' = [save EXCEPT ![c] = Waiting]
          /\ UNCHANGED <<disk, opening, load, deleting, deleted, spared, torn>>
        BY <1>3 DEF Touch
    <2> HIDE DEF m, F
    <2>5. Updated(c)
        <3>1. (live[c] # None) = TRUE
            BY <2>1
        <3>2. save'[c] = Waiting
            BY <2>4 DEF StoreTypes
        <3>3. queued'[c] = Queue(queued[c], c, live[c] # None, m)
            BY <2>4, <3>1
        <3> QED BY <2>1, <2>2, <2>4, <3>2, <3>3 DEF Updated
    <2>6. ASSUME NEW x \in F, x # c PROVE Updated(x)
        <3>1. x \in Chats /\ known[x] # None /\ Current(x) \in MetaType
            BY <2>1, <2>3, CurrentType
        <3>2. PICK u : u = Unsourced(Current(x))
            OBVIOUS
        <3>3. u \in MetaType /\ u.version = Current(x).version + 1
            BY <3>1, <3>2, UnsourcedType
        <3>4. known'[x] = u /\ queued'[x] = Queue(queued[x], x, live[x] # None, u)
            BY <2>4, <2>6, <3>1, <3>2
        <3>5. save'[x] = save[x] /\ disk'[x] = disk[x]
            BY <2>4, <2>6, <3>1 DEF StoreTypes
        <3>6. live[x] # None => live'[x] = [meta |-> u, text |-> live[x].text]
            <4>1. live[x] # None => live'[x] = [live[x] EXCEPT !.meta = Unsourced(@)]
                BY <2>4, <2>6, <3>1
            <4>2. live[x] # None => [live[x] EXCEPT !.meta = Unsourced(@)] = [live[x] EXCEPT !.meta = u]
                BY <3>1, <3>2, ChatTypes DEF Current, SessionType
            <4>3. live[x] # None => [live[x] EXCEPT !.meta = u] = [meta |-> u, text |-> live[x].text]
                BY <3>1, ChatTypes, SessionMetaRecord
            <4> QED BY <4>1, <4>2, <4>3
        <3>7. live[x] = None => live'[x] = None
            BY <2>4, <2>6, <3>1
        <3> QED BY <3>1, <3>3, <3>4, <3>5, <3>6, <3>7 DEF Updated
    <2>7. ASSUME NEW x \in Chats, x # c, x \notin F PROVE Same(x)
        BY <2>4, <2>7 DEF Same, StoreTypes
    <2> QED BY <2>4, <2>5, <2>6, <2>7
<1> QED BY <1>1, <1>2, <1>3

-----------------------------------------------------------------------------
(* Transcripts: what an open chat shows, what is being saved, what an       *)
(* opening has read, and what the file holds.                               *)

Removing(c) == c \in deleting \cup Removed

\* A session shows t when its file holds d, which may be none.
Shows(t, d) == t = d \/ (t = 0 /\ d = NoText)

\* The list, session, save task and files of one chat; `gone` when it is being
\* removed.  A session never shows less than the file, shows as much once nothing
\* is to be saved, and a save that has begun writes all it shows.
ChatText(k, l, s, d, gone) ==
    /\ k # None => ~gone
    /\ l # None => k # None
    /\ k = None /\ ~gone => s = Idle
    /\ k # None /\ l = None => s = Idle
    /\ l # None => l.text >= d.text
    /\ l # None /\ s.stage = "idle" => Shows(l.text, d.text)
    /\ l # None /\ s.stage = "writing" => s.text = l.text

\* An opening that has read a transcript has read what the file still holds.
OpeningText(o) ==
    opening[o] # None =>
        LET c == opening[o].chat
        IN  /\ known[c] # None \/ Removing(c)
            /\ known[c] # None /\ live[c] = None /\ opening[o].text # Unread =>
                   Shows(opening[o].text, disk[c].text)

\* What load_all_metadata found is still on disk when it is merged.
LoadFound == load.stage = "read" => \A c \in Chats : known[c] = None => load.found[c] = disk[c].meta

TextInv ==
    /\ \A c \in Chats : ChatText(known[c], live[c], save[c], disk[c], Removing(c))
    /\ \A o \in Openings : OpeningText(o)
    /\ LoadFound

\* Only a chat in the list, or one that is being removed, has metadata to write.
NoStrayWrites == \A c \in Chats : known[c] = None /\ ~Removing(c) => queued[c] = NoWrites

StoreInv == StoreTypes /\ DeletedInv /\ TextInv /\ NoStrayWrites

LEMMA InitText == Init => TextInv
<1> SUFFICES ASSUME Init PROVE TextInv
    OBVIOUS
<1>1. ASSUME NEW c \in Chats PROVE ChatText(known[c], live[c], save[c], disk[c], Removing(c))
    BY DEF Init, ChatText
<1>2. \A o \in Openings : OpeningText(o)
    BY DEF Init, OpeningText
<1>3. LoadFound
    BY DEF Init, LoadFound, Unloaded
<1> QED BY <1>1, <1>2, <1>3 DEF TextInv

\* A chat of which nothing changes.
LEMMA SameText ==
    ASSUME NEW c, Same(c), Removing(c)' <=> Removing(c),
           ChatText(known[c], live[c], save[c], disk[c], Removing(c))
    PROVE  ChatText(known[c], live[c], save[c], disk[c], Removing(c))'
BY DEF Same, ChatText

\* Openings and the loading list see neither a chat come or go nor its files change.
LEMMA OpeningFrame ==
    ASSUME StoreTypes, TextInv, UNCHANGED <<opening, load, disk, deleting, deleted, spared>>,
           \A x \in Chats : (known'[x] = None <=> known[x] = None) /\ (live'[x] = None <=> live[x] = None)
    PROVE  (\A o \in Openings : OpeningText(o)') /\ LoadFound'
<1>1. \A o \in Openings : opening[o] # None => opening[o].chat \in Chats
    BY DEF StoreTypes, OpeningType
<1>2. ASSUME NEW o \in Openings PROVE OpeningText(o)'
    <2>1. OpeningText(o)
        BY DEF TextInv
    <2> QED BY <1>1, <2>1 DEF OpeningText, Removing
<1>3. LoadFound'
    BY DEF TextInv, LoadFound
<1> QED BY <1>2, <1>3

LEMMA ChangeText ==
    ASSUME StoreInv, NEW c \in Chats, Rename(c) \/ Named(c) \/ Touch(c)
    PROVE  TextInv'
<1>1. StoreTypes /\ TextInv
    BY DEF StoreInv
<1>2. /\ \A x \in Chats : Same(x) \/ Updated(x)
      /\ UNCHANGED <<disk, opening, load, deleting, deleted, spared, torn>>
    BY <1>1, ChangeStep
<1>3. ASSUME NEW x \in Chats, Updated(x)
      PROVE  /\ ChatText(known[x], live[x], save[x], disk[x], Removing(x))'
             /\ (known'[x] = None <=> known[x] = None) /\ (live'[x] = None <=> live[x] = None)
    <2>1. /\ ChatText(known[x], live[x], save[x], disk[x], Removing(x))
          /\ Removing(x)' = Removing(x) /\ disk'[x] = disk[x]
        BY <1>1, <1>2 DEF TextInv, Removing
    <2>2. PICK m \in MetaType :
             /\ known[x] # None /\ known'[x] = m
             /\ \/ live[x] = None /\ live'[x] = None /\ save'[x] = save[x]
                \/ live[x] # None /\ live'[x] = [meta |-> m, text |-> live[x].text] /\ save'[x] = save[x]
                \/ live[x] # None /\ live'[x] = [meta |-> m, text |-> live[x].text + 1] /\ save'[x] = Waiting
        BY <1>3 DEF Updated
    <2>3. m # None
        BY ValueTypes
    <2>4. live[x] # None =>
              /\ live[x].text \in Nat
              /\ [meta |-> m, text |-> live[x].text] # None
              /\ [meta |-> m, text |-> live[x].text + 1] # None
        <3>1. live[x] # None => live[x].text \in Nat
            BY <1>1, ChatTypes DEF SessionType
        <3>2. live[x] # None => [meta |-> m, text |-> live[x].text] \in SessionType
                                /\ [meta |-> m, text |-> live[x].text + 1] \in SessionType
            BY <3>1 DEF SessionType
        <3> QED BY <3>1, <3>2, ValueTypes
    <2>5. disk[x].text \in Int
        BY <1>1, ChatTypes DEF FilesType, NoText
    <2>6. Waiting.stage = "waiting"
        BY DEF Waiting
    <2>7. CASE live[x] = None
        BY <2>1, <2>2, <2>3, <2>7 DEF ChatText
    <2>8. CASE live[x] # None /\ live'[x] = [meta |-> m, text |-> live[x].text] /\ save'[x] = save[x]
        BY <2>1, <2>2, <2>3, <2>4, <2>8 DEF ChatText
    <2>9. CASE live[x] # None /\ live'[x] = [meta |-> m, text |-> live[x].text + 1] /\ save'[x] = Waiting
        BY <2>1, <2>2, <2>3, <2>4, <2>5, <2>6, <2>9 DEF ChatText
    <2> QED BY <2>2, <2>7, <2>8, <2>9
<1>4. \A x \in Chats : ChatText(known[x], live[x], save[x], disk[x], Removing(x))'
    <2>1. ASSUME NEW x \in Chats, Same(x)
          PROVE  ChatText(known[x], live[x], save[x], disk[x], Removing(x))'
        BY <1>1, <1>2, <2>1, SameText DEF TextInv, Removing
    <2> QED BY <1>2, <1>3, <2>1
<1>5. \A x \in Chats : (known'[x] = None <=> known[x] = None) /\ (live'[x] = None <=> live[x] = None)
    BY <1>2, <1>3 DEF Same
<1> QED BY <1>1, <1>2, <1>4, <1>5, OpeningFrame DEF TextInv

\* A chat that appears was no chat, and no task holds anything of it.
LEMMA AppearsText == ASSUME StoreInv, NEW f \in Chats, Appears(f) PROVE TextInv'
<1>1. StoreTypes /\ TextInv /\ StoreTypes'
    BY AppearsTypes DEF StoreInv
<1>2. /\ known[f] = None /\ disk[f] = NoFiles /\ ~Removing(f)
      /\ UNCHANGED <<disk, opening, load, deleting, deleted, spared>>
    BY DEF Appears, Create, InsertFork, Fresh, Removing, StoreInv, DeletedInv
<1>3. /\ \A x \in Chats \ {f} : Same(x)
      /\ \A x \in Chats : Removing(x)' <=> Removing(x)
    <2>1. \A x \in Chats : Removing(x)' <=> Removing(x)
        BY <1>2 DEF Removing
    <2>2. CASE Create(f)
        BY <1>1, <1>2, <2>1, <2>2 DEF Create, Same, StoreTypes
    <2>3. ASSUME NEW m \in MetaType, InsertFork(f, m) PROVE \A x \in Chats \ {f} : Same(x)
        BY <1>1, <1>2, <2>1, <2>3 DEF InsertFork, Same, StoreTypes
    <2> QED BY <2>1, <2>2, <2>3 DEF Appears
<1>4. PICK m \in MetaType :
          /\ known'[f] = m /\ live'[f] = [meta |-> m, text |-> 0]
          /\ save'[f] = save[f] \/ save'[f] = Waiting
    <2>1. CASE Create(f)
        <3>1. NewMeta(None, 0, FALSE) \in MetaType
            BY ValueTypes
        <3> QED BY <1>1, <2>1, <3>1 DEF Create, StoreTypes
    <2>2. ASSUME NEW m \in MetaType, InsertFork(f, m)
          PROVE  known'[f] = m /\ live'[f] = [meta |-> m, text |-> 0] /\ save'[f] = Waiting
        BY <1>1, <2>2 DEF InsertFork, StoreTypes
    <2> QED BY <2>1, <2>2 DEF Appears
<1>5. ChatText(known[f], live[f], save[f], disk[f], Removing(f))'
    <2>1. ChatText(known[f], live[f], save[f], disk[f], Removing(f))
        BY <1>1 DEF TextInv
    <2>2. save[f] = Idle
        BY <1>2, <2>1 DEF ChatText
    <2>3. m # None /\ [meta |-> m, text |-> 0] # None /\ [meta |-> m, text |-> 0].text = 0
        <3>1. [meta |-> m, text |-> 0] \in SessionType
            BY DEF SessionType
        <3> QED BY <3>1, ValueTypes
    <2>4. disk[f].text = NoText
        BY <1>2 DEF NoFiles
    <2> QED BY <1>2, <1>3, <1>4, <2>2, <2>3, <2>4
            DEF ChatText, Idle, Waiting, Shows, NoText
<1>6. \A x \in Chats : ChatText(known[x], live[x], save[x], disk[x], Removing(x))'
    BY <1>1, <1>3, <1>5, SameText DEF TextInv
<1>7. ASSUME NEW o \in Openings PROVE OpeningText(o)'
    <2>1. OpeningText(o)
        BY <1>1 DEF TextInv
    <2>2. opening[o] # None => opening[o].chat \in Chats \ {f}
        BY <1>1, <1>2, <2>1 DEF OpeningText, StoreTypes, OpeningType
    <2> QED BY <1>2, <1>3, <2>1, <2>2 DEF OpeningText, Same
<1>8. LoadFound'
    <2>1. known'[f] # None
        BY <1>4, ValueTypes
    <2> QED BY <1>1, <1>2, <1>3, <2>1 DEF TextInv, LoadFound, Same
<1> QED BY <1>6, <1>7, <1>8 DEF TextInv

\* An opening holds what it found, and what it has read is on disk while the chat
\* stays closed.
LEMMA OpeningStepText ==
    ASSUME StoreInv, NEW o \in Openings, NEW c \in Chats,
           OpenStart(o, c) \/ OpenRead(o) \/ OpenFinish(o)
    PROVE  TextInv'
<1>1. StoreTypes /\ TextInv
    BY DEF StoreInv
<1>2. UNCHANGED <<known, save, disk, load, deleting, deleted, spared>>
    BY DEF OpenStart, OpenRead, OpenFinish
<1>3. \A x \in Chats : (Removing(x)' <=> Removing(x)) /\ disk[x].text \in Nat \cup {NoText}
    BY <1>1, <1>2, ChatTypes DEF Removing, FilesType
<1>4. LoadFound'
    BY <1>1, <1>2 DEF TextInv, LoadFound
<1>5. \A q \in Openings : OpeningText(q) /\ (opening[q] # None => opening[q].chat \in Chats)
    BY <1>1 DEF TextInv, StoreTypes, OpeningType
<1>6. CASE OpenStart(o, c)
    <2>1. UNCHANGED live /\ \A q \in Openings \ {o} : opening'[q] = opening[q]
        BY <1>1, <1>6 DEF OpenStart, StoreTypes
    <2>2. opening'[o] = [chat |-> c, meta |-> known[c], text |-> Unread] /\ known[c] # None
        BY <1>1, <1>6 DEF OpenStart, StoreTypes
    <2>3. OpeningText(o)'
        BY <1>2, <2>2 DEF OpeningText
    <2>4. \A q \in Openings \ {o} : OpeningText(q)'
        BY <1>2, <1>3, <1>5, <2>1 DEF OpeningText
    <2>5. \A x \in Chats : ChatText(known[x], live[x], save[x], disk[x], Removing(x))'
        BY <1>1, <1>2, <1>3, <2>1 DEF TextInv, ChatText
    <2> QED BY <1>4, <2>3, <2>4, <2>5 DEF TextInv
<1>7. CASE OpenRead(o)
    <2> DEFINE x == opening[o].chat
               text == IF disk[x].text = NoText THEN 0 ELSE disk[x].text
    <2>1. UNCHANGED live /\ \A q \in Openings \ {o} : opening'[q] = opening[q]
        BY <1>1, <1>7 DEF OpenRead, StoreTypes
    <2>2. opening[o] # None /\ opening'[o] = [opening[o] EXCEPT !.text = text] /\ x \in Chats
        BY <1>1, <1>5, <1>7 DEF OpenRead, StoreTypes
    <2>3. opening'[o].chat = x /\ opening'[o].text = text
        BY <1>1, <2>2 DEF StoreTypes, OpeningType
    <2>4. Shows(text, disk[x].text)
        BY DEF Shows
    <2> HIDE DEF text, x
    <2>5. known[x] # None \/ Removing(x)
        BY <1>5, <2>2 DEF OpeningText, x
    <2>6. OpeningText(o)'
        BY <1>2, <1>3, <2>2, <2>3, <2>4, <2>5 DEF OpeningText
    <2>7. \A q \in Openings \ {o} : OpeningText(q)'
        BY <1>2, <1>3, <1>5, <2>1 DEF OpeningText
    <2>8. \A z \in Chats : ChatText(known[z], live[z], save[z], disk[z], Removing(z))'
        BY <1>1, <1>2, <1>3, <2>1 DEF TextInv, ChatText
    <2> QED BY <1>4, <2>6, <2>7, <2>8 DEF TextInv
<1>8. CASE OpenFinish(o)
    <2>0. PICK x \in Chats : x = opening[o].chat
        BY <1>5, <1>8 DEF OpenFinish
    <2>1. /\ opening[o] # None /\ opening[o].text # Unread
          /\ opening'[o] = None /\ \A q \in Openings \ {o} : opening'[q] = opening[q]
        BY <1>1, <1>8 DEF OpenFinish, StoreTypes
    <2>2. \/ UNCHANGED live
          \/ /\ live[x] = None /\ known[x] # None
             /\ live' = [live EXCEPT ![x] = [meta |-> opening[o].meta, text |-> opening[o].text]]
        BY <1>8, <2>0 DEF OpenFinish, Opens
    <2>3. /\ [meta |-> opening[o].meta, text |-> opening[o].text] # None
          /\ opening[o].text \in Nat
        <3>1. [meta |-> opening[o].meta, text |-> opening[o].text] \in SessionType
            BY <1>1, <2>1 DEF StoreTypes, OpeningType, SessionType
        <3> QED BY <1>1, <2>1, <3>1, ValueTypes DEF StoreTypes, OpeningType
    <2>4. known[x] # None /\ live[x] = None => Shows(opening[o].text, disk[x].text)
        BY <1>5, <2>0, <2>1 DEF OpeningText
    <2>5. CASE UNCHANGED live
        <3>1. \A q \in Openings : OpeningText(q)'
            BY <1>2, <1>3, <1>5, <2>1, <2>5 DEF OpeningText
        <3>2. \A z \in Chats : ChatText(known[z], live[z], save[z], disk[z], Removing(z))'
            BY <1>1, <1>2, <1>3, <2>5 DEF TextInv, ChatText
        <3> QED BY <1>4, <3>1, <3>2 DEF TextInv
    <2>6. CASE /\ live[x] = None /\ known[x] # None
               /\ live' = [live EXCEPT ![x] = [meta |-> opening[o].meta, text |-> opening[o].text]]
        <3>1. live'[x] = [meta |-> opening[o].meta, text |-> opening[o].text]
              /\ \A z \in Chats \ {x} : live'[z] = live[z]
            BY <1>1, <2>1, <2>6 DEF StoreTypes
        <3>2. \A q \in Openings : OpeningText(q)'
            BY <1>2, <1>3, <1>5, <2>1, <2>3, <3>1 DEF OpeningText
        <3>3. ChatText(known[x], live[x], save[x], disk[x], Removing(x))'
            <4>1. ChatText(known[x], live[x], save[x], disk[x], Removing(x))
                BY <1>1, <2>1 DEF TextInv
            <4>2. save[x] = Idle /\ Idle.stage = "idle"
                BY <2>6, <4>1 DEF ChatText, Idle
            <4>3. opening[o].text >= disk[x].text
                BY <1>3, <2>1, <2>3, <2>4, <2>6 DEF Shows, NoText
            <4>4. /\ live'[x] # None /\ live'[x].text = opening[o].text /\ save'[x] = save[x]
                  /\ disk'[x] = disk[x] /\ known'[x] = known[x]
                BY <1>2, <2>3, <3>1
            <4> QED BY <1>3, <2>4, <2>6, <4>1, <4>2, <4>3, <4>4 DEF ChatText
        <3>4. \A z \in Chats \ {x} : ChatText(known[z], live[z], save[z], disk[z], Removing(z))'
            BY <1>1, <1>2, <1>3, <3>1 DEF TextInv, ChatText
        <3> QED BY <1>4, <3>2, <3>3, <3>4 DEF TextInv
    <2> QED BY <2>2, <2>5, <2>6
<1> QED BY <1>6, <1>7, <1>8

\* A chat that is deleted is gone, whatever is still waiting for it.
LEMMA DeleteText ==
    ASSUME StoreInv, NoDeleteWhileLoading, NEW c \in Chats, Delete(c)
    PROVE  TextInv'
<1>1. StoreTypes /\ TextInv
    BY DEF StoreInv
<1>2. /\ known' = [known EXCEPT ![c] = None] /\ live' = [live EXCEPT ![c] = None]
      /\ deleting' = deleting \cup {c} /\ deleted' = deleted \cup {c} /\ spared' = spared \ {c}
      /\ UNCHANGED <<save, disk, opening, load>>
      /\ load.stage = "merged"
    BY DEF Delete, NoDeleteWhileLoading
<1>3. /\ known'[c] = None /\ live'[c] = None /\ Removing(c)'
      /\ \A x \in Chats \ {c} : known'[x] = known[x] /\ live'[x] = live[x] /\ (Removing(x)' <=> Removing(x))
    BY <1>1, <1>2 DEF StoreTypes, Removing
<1>4. \A x \in Chats : ChatText(known[x], live[x], save[x], disk[x], Removing(x))'
    BY <1>1, <1>2, <1>3 DEF TextInv, ChatText
<1>5. \A q \in Openings : OpeningText(q) /\ (opening[q] # None => opening[q].chat \in Chats)
    BY <1>1 DEF TextInv, StoreTypes, OpeningType
<1>6. \A q \in Openings : OpeningText(q)'
    BY <1>2, <1>3, <1>5 DEF OpeningText
<1>7. LoadFound'
    BY <1>2 DEF LoadFound
<1> QED BY <1>4, <1>6, <1>7 DEF TextInv

\* The files that go are those of a chat that is not in the list.
LEMMA RemoveFilesText == ASSUME StoreInv, NEW c \in Chats, RemoveFiles(c) PROVE TextInv'
<1>1. StoreTypes /\ TextInv /\ DeletedInv
    BY DEF StoreInv
<1>2. /\ c \in deleting /\ deleting' = deleting \ {c} /\ Removed' = Removed \cup {c}
      /\ disk' = [disk EXCEPT ![c] = NoFiles]
      /\ UNCHANGED <<known, live, queued, save, opening, load>>
    BY <1>1 DEF RemoveFiles, DeletedInv
<1>3. known[c] = None /\ live[c] = None /\ load.stage = "merged"
    BY <1>1, <1>2 DEF DeletedInv
<1>4. /\ \A x \in Chats : Removing(x)' <=> Removing(x)
      /\ \A x \in Chats \ {c} : disk'[x] = disk[x]
    BY <1>1, <1>2 DEF Removing, StoreTypes
<1>5. ChatText(known[c], live[c], save[c], disk[c], Removing(c))'
    BY <1>2, <1>3, <1>4 DEF ChatText, Removing
<1>6. \A x \in Chats \ {c} : ChatText(known[x], live[x], save[x], disk[x], Removing(x))'
    BY <1>1, <1>2, <1>4 DEF TextInv, ChatText
<1>7. \A q \in Openings : OpeningText(q) /\ (opening[q] # None => opening[q].chat \in Chats)
    BY <1>1 DEF TextInv, StoreTypes, OpeningType
<1>8. \A q \in Openings : OpeningText(q)'
    BY <1>2, <1>3, <1>4, <1>7 DEF OpeningText
<1>9. LoadFound'
    BY <1>2, <1>3 DEF LoadFound
<1> QED BY <1>5, <1>6, <1>8, <1>9 DEF TextInv

\* Metadata is only written for chats in the list and chats that are being removed.
LEMMA WriteMetaText ==
    ASSUME StoreInv, NEW c \in Chats, NEW chain \in {"store", "session"}, WriteMeta(c, chain)
    PROVE  TextInv'
<1>1. StoreTypes /\ TextInv
    BY DEF StoreInv
<1>2. load.stage = "read" => known[c] # None
    <2>1. queued[c] # NoWrites
        BY DEF WriteMeta, NoWrites
    <2>2. load.stage = "read" => ~Removing(c)
        BY <2>1 DEF StoreInv, DeletedInv, Removing, Gone
    <2> QED BY <2>1, <2>2 DEF StoreInv, NoStrayWrites
<1>3. UNCHANGED <<known, live, save, opening, load, deleting, deleted, spared>>
    BY DEF WriteMeta
<1>4. /\ \A x \in Chats : disk'[x].text = disk[x].text
      /\ \A x \in Chats \ {c} : disk'[x].meta = disk[x].meta
    BY <1>1 DEF WriteMeta, StoreTypes, FilesType
<1>5. \A x \in Chats : Removing(x)' <=> Removing(x)
    BY <1>3 DEF Removing
<1>6. \A x \in Chats : ChatText(known[x], live[x], save[x], disk[x], Removing(x))'
    BY <1>1, <1>3, <1>4, <1>5 DEF TextInv, ChatText
<1>7. \A q \in Openings : OpeningText(q) /\ (opening[q] # None => opening[q].chat \in Chats)
    BY <1>1 DEF TextInv, StoreTypes, OpeningType
<1>8. \A q \in Openings : OpeningText(q)'
    BY <1>3, <1>4, <1>5, <1>7 DEF OpeningText
<1>9. LoadFound'
    BY <1>1, <1>3, <1>4, <1>2 DEF TextInv, LoadFound
<1> QED BY <1>6, <1>8, <1>9 DEF TextInv

\* A save takes what the session shows, or nothing when the chat is gone.
LEMMA TakeSnapshotText == ASSUME StoreInv, NEW c \in Chats, TakeSnapshot(c) PROVE TextInv'
<1>1. StoreTypes /\ TextInv
    BY DEF StoreInv
<1>2. /\ save[c].stage = "waiting" /\ UNCHANGED <<known, live, disk, opening, load, deleting, deleted, spared>>
      /\ \A x \in Chats \ {c} : save'[x] = save[x]
      /\ save'[c] = IF live[c] = None THEN Idle ELSE [stage |-> "writing", text |-> live[c].text]
    BY <1>1 DEF TakeSnapshot, StoreTypes
<1>3. \A x \in Chats : Removing(x)' <=> Removing(x)
    BY <1>2 DEF Removing
<1>4. ChatText(known[c], live[c], save[c], disk[c], Removing(c))'
    <2>1. ChatText(known[c], live[c], save[c], disk[c], Removing(c))
        BY <1>1 DEF TextInv
    <2>2. Idle.stage = "idle"
        BY DEF Idle
    <2> QED BY <1>2, <1>3, <2>1, <2>2 DEF ChatText
<1>5. \A x \in Chats \ {c} : ChatText(known[x], live[x], save[x], disk[x], Removing(x))'
    BY <1>1, <1>2, <1>3 DEF TextInv, ChatText
<1>6. (\A q \in Openings : OpeningText(q)') /\ LoadFound'
    BY <1>1, <1>2, OpeningFrame
<1> QED BY <1>4, <1>5, <1>6 DEF TextInv

\* A save that ends leaves on disk what the session shows.
LEMMA WriteTextText == ASSUME StoreInv, NEW c \in Chats, WriteText(c) PROVE TextInv'
<1>1. StoreTypes /\ TextInv
    BY DEF StoreInv
<1>2. /\ save[c].stage = "writing" /\ UNCHANGED <<known, live, opening, load, deleting, deleted, spared>>
      /\ \A x \in Chats \ {c} : save'[x] = save[x] /\ disk'[x] = disk[x]
      /\ save'[c] = Idle /\ disk'[c].text = save[c].text /\ disk'[c].meta = disk[c].meta
    BY <1>1 DEF WriteText, StoreTypes, FilesType
<1>3. \A x \in Chats : Removing(x)' <=> Removing(x)
    BY <1>2 DEF Removing
<1>4. ChatText(known[c], live[c], save[c], disk[c], Removing(c))
    BY <1>1 DEF TextInv
<1>5. ~(known[c] # None /\ live[c] = None)
    BY <1>2, <1>4 DEF ChatText, Idle
<1>6. ChatText(known[c], live[c], save[c], disk[c], Removing(c))'
    <2>1. live[c] # None => live[c].text \in Nat /\ save[c].text = live[c].text
        BY <1>1, <1>2, <1>4, ChatTypes DEF ChatText, SessionType
    <2>2. Idle.stage = "idle"
        BY DEF Idle
    <2> QED BY <1>2, <1>3, <1>4, <1>5, <2>1, <2>2 DEF ChatText, Shows
<1>7. \A x \in Chats \ {c} : ChatText(known[x], live[x], save[x], disk[x], Removing(x))'
    BY <1>1, <1>2, <1>3 DEF TextInv, ChatText
<1>8. \A q \in Openings : OpeningText(q) /\ (opening[q] # None => opening[q].chat \in Chats)
    BY <1>1 DEF TextInv, StoreTypes, OpeningType
<1>9. \A q \in Openings : OpeningText(q)'
    BY <1>2, <1>3, <1>5, <1>8 DEF OpeningText
<1>10. LoadFound'
    BY <1>1, <1>2 DEF TextInv, LoadFound
<1> QED BY <1>6, <1>7, <1>9, <1>10 DEF TextInv

\* Loading adds chats to the list that no task holds anything of.
LEMMA LoadText == ASSUME StoreInv, LoadRead \/ LoadMerge PROVE TextInv'
<1>1. StoreTypes /\ TextInv /\ DeletedInv
    BY DEF StoreInv
<1>2. UNCHANGED <<live, save, disk, opening, deleting, deleted, spared>>
    BY DEF LoadRead, LoadMerge
<1>3. \A x \in Chats : Removing(x)' <=> Removing(x)
    BY <1>2 DEF Removing
<1>4. CASE LoadRead
    <2>1. UNCHANGED known /\ \A x \in Chats : load'.found[x] = disk[x].meta
        BY <1>4 DEF LoadRead
    <2>2. \A x \in Chats : ChatText(known[x], live[x], save[x], disk[x], Removing(x))'
        BY <1>1, <1>2, <1>3, <2>1 DEF TextInv, ChatText
    <2>3. \A q \in Openings : OpeningText(q)'
        <3>1. \A q \in Openings : OpeningText(q) /\ (opening[q] # None => opening[q].chat \in Chats)
            BY <1>1 DEF TextInv, StoreTypes, OpeningType
        <3> QED BY <1>2, <1>3, <2>1, <3>1 DEF OpeningText
    <2>4. LoadFound'
        BY <1>2, <2>1 DEF LoadFound
    <2> QED BY <2>2, <2>3, <2>4 DEF TextInv
<1>5. CASE LoadMerge
    <2>1. /\ load.stage = "read" /\ load'.stage = "merged"
          /\ \A x \in Chats : known'[x] = IF known[x] = None THEN load.found[x] ELSE known[x]
        BY <1>5 DEF LoadMerge, Unloaded
    <2>2. \A x \in Chats : Removing(x) => x \in Removed /\ known[x] = None /\ load.found[x] = None
        BY <1>1, <2>1 DEF DeletedInv, Removing, Gone
    <2>3. \A x \in Chats : ChatText(known[x], live[x], save[x], disk[x], Removing(x))'
        BY <1>1, <1>2, <1>3, <2>1, <2>2 DEF TextInv, ChatText
    <2>4. \A q \in Openings : OpeningText(q) /\ (opening[q] # None => opening[q].chat \in Chats)
        BY <1>1 DEF TextInv, StoreTypes, OpeningType
    <2>5. \A q \in Openings : OpeningText(q)'
        BY <1>2, <1>3, <2>1, <2>2, <2>4 DEF OpeningText
    <2>6. LoadFound'
        BY <2>1 DEF LoadFound
    <2> QED BY <2>3, <2>5, <2>6 DEF TextInv
<1> QED BY <1>4, <1>5

LEMMA CrashText == ASSUME StoreInv, Crash PROVE TextInv'
<1>1. StoreTypes
    BY DEF StoreInv
<1>2. /\ \A x \in Chats : known'[x] = None /\ live'[x] = None /\ save'[x] = Idle
      /\ \A o \in Openings : opening'[o] = None
      /\ load'.stage = "unread"
    BY DEF Crash, Unloaded
<1> QED BY <1>2 DEF TextInv, ChatText, OpeningText, LoadFound

\* Metadata is queued for chats in the list only.
LEMMA NextStray == ASSUME StoreInv, [Next]_vars PROVE NoStrayWrites'
<1>1. StoreTypes /\ NoStrayWrites
    BY DEF StoreInv
<1>2. ASSUME NEW c \in Chats, Rename(c) \/ Named(c) \/ Touch(c) PROVE NoStrayWrites'
    <2>1. /\ \A x \in Chats : Same(x) \/ Updated(x)
          /\ UNCHANGED <<deleting, deleted, spared>>
        BY <1>1, <1>2, ChangeStep
    <2>2. \A x \in Chats : Updated(x) => known'[x] # None
        BY ValueTypes DEF Updated
    <2>3. \A x \in Chats : Same(x) \/ known'[x] # None
        BY <2>1, <2>2
    <2> QED BY <1>1, <2>1, <2>3 DEF NoStrayWrites, Same, Removing
<1>3. ASSUME NEW f \in Chats, Appears(f) PROVE NoStrayWrites'
    <2>1. CASE Create(f)
        <3>1. /\ UNCHANGED <<deleting, deleted, spared, queued>>
              /\ known'[f] = NewMeta(None, 0, FALSE) /\ \A x \in Chats \ {f} : known'[x] = known[x]
            BY <1>1, <2>1 DEF Create, StoreTypes
        <3>2. known'[f] # None
            BY <3>1, ValueTypes
        <3> QED BY <1>1, <3>1, <3>2 DEF NoStrayWrites, Removing
    <2>2. ASSUME NEW m \in MetaType, InsertFork(f, m) PROVE NoStrayWrites'
        <3>1. /\ UNCHANGED <<deleting, deleted, spared>> /\ known'[f] = m
              /\ \A x \in Chats \ {f} : known'[x] = known[x] /\ queued'[x] = queued[x]
            BY <1>1, <2>2 DEF InsertFork, StoreTypes
        <3>2. known'[f] # None
            BY <3>1, ValueTypes
        <3> QED BY <1>1, <3>1, <3>2 DEF NoStrayWrites, Removing
    <2> QED BY <1>3, <2>1, <2>2 DEF Appears
<1>4. ASSUME NEW c \in Chats, Delete(c) \/ RemoveFiles(c) PROVE NoStrayWrites'
    <2>1. CASE Delete(c)
        <3>1. /\ queued' = queued /\ deleting' = deleting \cup {c}
              /\ deleted' = deleted \cup {c} /\ spared' = spared \ {c}
              /\ \A x \in Chats \ {c} : known'[x] = known[x]
            BY <1>1, <2>1 DEF Delete, StoreTypes
        <3> QED BY <1>1, <3>1 DEF NoStrayWrites, Removing
    <2>2. CASE RemoveFiles(c)
        BY <1>1, <2>2 DEF NoStrayWrites, RemoveFiles, WritesDone, Removing
    <2> QED BY <1>4, <2>1, <2>2
<1>5. ASSUME NEW o \in Openings, OpenFinish(o) PROVE NoStrayWrites'
    BY <1>1, <1>5 DEF NoStrayWrites, OpenFinish, Opens, Removing, StoreTypes
<1>6. ASSUME NEW c \in Chats, NEW chain \in {"store", "session"}, WriteMeta(c, chain)
      PROVE  NoStrayWrites'
    <2>1. /\ queued[c] # NoWrites /\ \A x \in Chats \ {c} : queued'[x] = queued[x]
          /\ UNCHANGED <<known, deleting, deleted, spared>>
        BY <1>1, <1>6 DEF WriteMeta, NoWrites, StoreTypes
    <2> QED BY <1>1, <2>1 DEF NoStrayWrites, Removing
<1>7. ASSUME NEW o \in Openings, NEW c \in Chats, OpenStart(o, c) PROVE NoStrayWrites'
    BY <1>1, <1>7 DEF NoStrayWrites, OpenStart, Removing
<1>8. CASE LoadRead \/ UNCHANGED vars
    BY <1>1, <1>8 DEF NoStrayWrites, LoadRead, vars, Removing
<1>9. CASE LoadMerge
    BY <1>1, <1>9 DEF NoStrayWrites, LoadMerge, Removing
<1>10. CASE Crash
    BY <1>10 DEF NoStrayWrites, Crash
<1>11. ASSUME NEW c \in Chats, TakeSnapshot(c) \/ WriteText(c) PROVE NoStrayWrites'
    BY <1>1, <1>11 DEF NoStrayWrites, TakeSnapshot, WriteText, Removing
<1>12. ASSUME NEW o \in Openings, OpenRead(o) PROVE NoStrayWrites'
    BY <1>1, <1>12 DEF NoStrayWrites, OpenRead, Removing
<1>13. ASSUME NEW p \in Chats, NEW f \in Chats, Create(f) \/ Fork(p, f) PROVE NoStrayWrites'
    BY <1>1, <1>3, <1>13, ForkAppears DEF Appears
<1> QED BY <1>2, <1>4, <1>5, <1>6, <1>7, <1>8, <1>9, <1>10, <1>11, <1>12, <1>13 DEF Next, UserNext, TaskNext

LEMMA NextText == ASSUME NoDeleteWhileLoading, StoreInv, [Next]_vars PROVE TextInv'
<1>1. ASSUME NEW c \in Chats, Create(c) \/ Rename(c) \/ Touch(c) \/ Named(c) \/ Delete(c)
      PROVE  TextInv'
    BY <1>1, AppearsText, ChangeText, DeleteText DEF Appears, StoreInv
<1>2. ASSUME NEW p \in Chats, NEW f \in Chats, Fork(p, f)
      PROVE  TextInv'
    BY <1>2, ForkAppears, AppearsText DEF StoreInv
<1>3. ASSUME NEW o \in Openings, NEW c \in Chats, OpenStart(o, c) PROVE TextInv'
    BY <1>3, OpeningStepText
<1>4. ASSUME NEW o \in Openings, OpenRead(o) \/ OpenFinish(o) PROVE TextInv'
    <2>1. opening[o].chat \in Chats
        BY <1>4 DEF OpenRead, OpenFinish, StoreInv, StoreTypes, OpeningType
    <2> QED BY <1>4, <2>1, OpeningStepText
<1>5. ASSUME NEW c \in Chats, TakeSnapshot(c) \/ WriteText(c) \/ RemoveFiles(c) PROVE TextInv'
    BY <1>5, TakeSnapshotText, WriteTextText, RemoveFilesText
<1>6. ASSUME NEW c \in Chats, NEW chain \in {"store", "session"}, WriteMeta(c, chain) PROVE TextInv'
    BY <1>6, WriteMetaText
<1>7. CASE LoadRead \/ LoadMerge \/ Crash
    BY <1>7, LoadText, CrashText
<1>8. CASE UNCHANGED vars
    <2>1. TextInv /\ StoreTypes
        BY DEF StoreInv
    <2>2. \A x \in Chats : ChatText(known[x], live[x], save[x], disk[x], Removing(x))'
        BY <1>8, <2>1 DEF vars, TextInv, ChatText, Removing
    <2> QED BY <1>8, <2>1, <2>2, OpeningFrame DEF vars, TextInv
<1> QED BY <1>1, <1>2, <1>3, <1>4, <1>5, <1>6, <1>7, <1>8 DEF Next, UserNext, TaskNext

LEMMA InitStore == Init => StoreInv
<1>1. Init => NoStrayWrites
    BY DEF Init, NoStrayWrites
<1> QED BY <1>1, InitTypes, InitDeleted, InitText DEF StoreInv

LEMMA NextStore == NoDeleteWhileLoading /\ StoreInv /\ [Next]_vars => StoreInv'
BY NextTypes, NextDeleted, NextText, NextStray DEF StoreInv

\* An open chat never shows less than its transcript file holds: open_session drops
\* what it read when the chat was opened meanwhile, and a save that begins writes
\* what the session shows.
THEOREM NothingIsForgotten == NoDeleteWhileLoading => (Spec => []NothingForgotten)
<1> SUFFICES ASSUME NoDeleteWhileLoading PROVE Spec => []NothingForgotten
    OBVIOUS
<1>1. Init => StoreInv
    BY InitStore
<1>2. StoreInv /\ [Next]_vars => StoreInv'
    BY NextStore
<1>3. StoreInv => NothingForgotten
    BY DEF StoreInv, TextInv, ChatText, NothingForgotten
<1> QED BY <1>1, <1>2, <1>3, PTL DEF Spec
=============================================================================
