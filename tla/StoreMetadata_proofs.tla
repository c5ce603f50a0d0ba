------------------------ MODULE StoreMetadata_proofs ------------------------
(***************************************************************************)
(* What the chats' metadata files hold: proofs about SessionStore for any  *)
(* number of chats, openings, changes and crashes, with two assumptions:   *)
(* chats are deleted after the list was loaded (NoDeleteWhileLoading), and *)
(* a chat is not changed while a task that opens it holds its metadata     *)
(* (NoChangeWhileOpening, the race of StoreStaleFork.cfg).                 *)
(*                                                                         *)
(* The metadata waits in two chains, the store's and the session's.  The   *)
(* invariant says that at most one of them holds writes, that a chain      *)
(* never goes back in version, starts at or above what the file holds, and *)
(* ends in what the list shows; so when it is empty the file shows that.   *)
(***************************************************************************)
EXTENDS SessionStore_proofs

\* As in SessionStore_proofs, Removed is expanded everywhere.
USE DEF Removed

NoChangeWhileOpening == "changeWhileOpening" \notin Races

-----------------------------------------------------------------------------
(* Chains of writes.                                                        *)

\* The writes w go up from what the file holds, d, to what the list shows, k.
Chain(d, w, k) ==
    /\ \A i \in DOMAIN w : d # None => d.version <= w[i].version
    /\ \A i, j \in DOMAIN w : i <= j => w[i].version <= w[j].version
    /\ k # None /\ w # <<>> => w[Len(w)] = k

LEMMA EmptyChain == ASSUME NEW d, NEW k PROVE Chain(d, <<>>, k)
BY DEF Chain

\* Nothing is shown of a chat that is deleted.
LEMMA ForgottenChain ==
    ASSUME NEW d, NEW w, NEW k, Chain(d, w, k) PROVE Chain(d, w, None)
BY DEF Chain

\* A change queues the next version.
LEMMA LongerChain ==
    ASSUME NEW d \in MetaType \cup {None}, NEW w \in Seq(MetaType), NEW k \in MetaType, NEW m \in MetaType,
           Chain(d, w, k), m.version = k.version + 1,
           w = <<>> => d = None \/ d = k
    PROVE  Chain(d, Append(w, m), m)
<1> DEFINE v == Append(w, m)
<1>1. /\ Len(w) \in Nat /\ DOMAIN w = 1 .. Len(w) /\ v \in Seq(MetaType)
      /\ Len(v) = Len(w) + 1 /\ v[Len(w) + 1] = m /\ \A i \in 1 .. Len(w) : v[i] = w[i] /\ w[i] \in MetaType
    BY AppendProperties, LenProperties, ElementOfSeq
<1>2. DOMAIN v = 1 .. Len(w) + 1 /\ v # <<>>
    BY <1>1, LenProperties
<1> HIDE DEF v
<1>3. \A i \in 1 .. Len(w) : w[i].version <= k.version
    <2> SUFFICES ASSUME NEW i \in 1 .. Len(w) PROVE w[i].version <= k.version
        OBVIOUS
    <2>1. w # <<>> /\ Len(w) \in DOMAIN w /\ i <= Len(w)
        BY <1>1
    <2>2. w[Len(w)] = k /\ k # None
        BY <2>1, ValueTypes DEF Chain
    <2> QED BY <1>1, <2>1, <2>2 DEF Chain
<1>4. k.version \in Nat /\ m.version \in Nat /\ \A i \in 1 .. Len(w) : w[i].version \in Nat
    BY <1>1 DEF MetaType
<1>5. d # None => d.version \in Nat
    BY DEF MetaType
<1>6. d # None => d.version <= m.version
    <2>1. CASE w = <<>>
        BY <1>4, <2>1
    <2>2. CASE w # <<>>
        <3>1. 1 \in DOMAIN w
            BY <1>1, <2>2, EmptySeq
        <3>2. d # None => d.version <= w[1].version
            BY <3>1 DEF Chain
        <3> QED BY <1>1, <1>3, <1>4, <1>5, <3>1, <3>2
    <2> QED BY <2>1, <2>2
<1>7. \A i \in DOMAIN v : d # None => d.version <= v[i].version
    BY <1>1, <1>2, <1>6 DEF Chain
<1>8. ASSUME NEW i \in DOMAIN v, NEW j \in DOMAIN v, i <= j PROVE v[i].version <= v[j].version
    <2>1. CASE j \in 1 .. Len(w)
        <3>1. i \in DOMAIN w /\ j \in DOMAIN w
            BY <1>1, <1>2, <1>8, <2>1
        <3> QED BY <1>1, <1>8, <3>1 DEF Chain
    <2>2. CASE j = Len(w) + 1 /\ i \in 1 .. Len(w)
        BY <1>1, <1>3, <1>4, <2>2
    <2>3. CASE j = Len(w) + 1 /\ i = Len(w) + 1
        BY <1>1, <1>4, <2>3
    <2> QED BY <1>1, <1>2, <1>8, <2>1, <2>2, <2>3
<1> QED BY <1>1, <1>7, <1>8 DEF Chain, v

\* The first write of the chain reaches the file.
LEMMA ShorterChain ==
    ASSUME NEW d \in MetaType \cup {None}, NEW w \in Seq(MetaType), w # <<>>,
           NEW k \in MetaType \cup {None}, Chain(d, w, k)
    PROVE  /\ Head(w) \in MetaType /\ Tail(w) \in Seq(MetaType)
           /\ Chain(Head(w), Tail(w), k)
           /\ d # None => d.version <= Head(w).version
           /\ Tail(w) = <<>> /\ k # None => Head(w) = k
<1>1. /\ Len(w) \in Nat /\ Len(w) >= 1 /\ DOMAIN w = 1 .. Len(w) /\ Head(w) = w[1]
      /\ Head(w) \in MetaType /\ Tail(w) \in Seq(MetaType) /\ Len(Tail(w)) = Len(w) - 1
      /\ \A i \in 1 .. Len(Tail(w)) : Tail(w)[i] = w[i + 1]
    BY HeadTailProperties, LenProperties, EmptySeq
<1>2. PICK v : v = Tail(w)
    OBVIOUS
<1>3. DOMAIN v = 1 .. Len(w) - 1 /\ Len(v) = Len(w) - 1 /\ \A i \in DOMAIN v : i + 1 \in DOMAIN w /\ v[i] = w[i + 1]
    BY <1>1, <1>2, LenProperties
<1>4. \A i \in DOMAIN v : Head(w).version <= v[i].version
    BY <1>1, <1>3 DEF Chain
<1>5. \A i, j \in DOMAIN v : i <= j => v[i].version <= v[j].version
    BY <1>1, <1>3 DEF Chain
<1>6. k # None /\ v # <<>> => v[Len(v)] = k
    <2>1. v # <<>> => Len(v) \in DOMAIN v
        BY <1>1, <1>2, <1>3, EmptySeq
    <2>2. v # <<>> => v[Len(v)] = w[Len(w)]
        BY <1>1, <1>3, <2>1
    <2> QED BY <2>2 DEF Chain
<1>7. v = <<>> => Len(w) = 1
    <2>1. v = <<>> => Len(v) = 0
        OBVIOUS
    <2>2. Len(v) = Len(w) - 1 /\ Len(w) \in Nat
        BY <1>1, <1>3
    <2> QED BY <2>1, <2>2
<1>8. Chain(Head(w), v, k)
    BY <1>4, <1>5, <1>6 DEF Chain
<1> QED BY <1>1, <1>2, <1>7, <1>8 DEF Chain

-----------------------------------------------------------------------------
(* The invariant.                                                           *)

Blank == NewMeta(None, 0, FALSE)

\* The list, session, writes, save task and metadata file of one chat.
ChatMeta(k, l, w, s, d) ==
    /\ l # None => k = l.meta
    /\ k # None => IF l = None THEN w.session = <<>> ELSE w.store = <<>>
    /\ w.store = <<>> \/ w.session = <<>>
    /\ Chain(d.meta, w.store, k) /\ Chain(d.meta, w.session, k)
    /\ k # None /\ w = NoWrites => d.meta = k \/ (d = NoFiles /\ k = Blank /\ s = Idle)

\* A task that opens a chat holds what the list shows of it.
OpeningMeta(o) ==
    opening[o] # None =>
        LET c == opening[o].chat
        IN  known[c] # None /\ live[c] = None => opening[o].meta = known[c]

MetaInv ==
    /\ \A c \in Chats : ChatMeta(known[c], live[c], queued[c], save[c], disk[c])
    /\ \A o \in Openings : OpeningMeta(o)

LEMMA InitMeta == Init => MetaInv
<1> SUFFICES ASSUME Init PROVE MetaInv
    OBVIOUS
<1>1. ASSUME NEW c \in Chats PROVE ChatMeta(known[c], live[c], queued[c], save[c], disk[c])
    BY EmptyChain DEF Init, ChatMeta, NoWrites
<1>2. \A o \in Openings : OpeningMeta(o)
    BY DEF Init, OpeningMeta
<1> QED BY <1>1, <1>2 DEF MetaInv

\* A chat of which nothing changes.
LEMMA SameMeta ==
    ASSUME NEW c, Same(c), ChatMeta(known[c], live[c], queued[c], save[c], disk[c])
    PROVE  ChatMeta(known[c], live[c], queued[c], save[c], disk[c])'
BY DEF Same, ChatMeta

\* A chat that is changed.
LEMMA UpdatedMeta ==
    ASSUME StoreTypes, NEW x \in Chats, Updated(x),
           ChatMeta(known[x], live[x], queued[x], save[x], disk[x])
    PROVE  ChatMeta(known[x], live[x], queued[x], save[x], disk[x])'
<1>1. PICK m \in MetaType :
        /\ known[x] # None /\ m.version = Current(x).version + 1
        /\ known'[x] = m /\ disk'[x] = disk[x]
        /\ queued'[x] = Queue(queued[x], x, live[x] # None, m)
        /\ \/ live[x] = None /\ live'[x] = None
           \/ live[x] # None /\ live'[x] = [meta |-> m, text |-> live[x].text]
           \/ live[x] # None /\ live'[x] = [meta |-> m, text |-> live[x].text + 1]
    BY DEF Updated
<1>2. /\ known[x] \in MetaType /\ disk[x].meta \in MetaType \cup {None}
      /\ queued[x].store \in Seq(MetaType) /\ queued[x].session \in Seq(MetaType)
      /\ queued[x] = [store |-> queued[x].store, session |-> queued[x].session]
    BY <1>1, ChatTypes DEF WritesType, FilesType
<1>3. Current(x) = known[x]
    BY <1>1 DEF Current, ChatMeta
<1>4. live'[x] # None <=> live[x] # None
    <2>1. live[x] # None => live[x].text \in Nat
        BY ChatTypes DEF SessionType
    <2>2. live[x] # None => /\ [meta |-> m, text |-> live[x].text] \in SessionType
                            /\ [meta |-> m, text |-> live[x].text + 1] \in SessionType
        BY <2>1 DEF SessionType
    <2> QED BY <1>1, <2>2, ValueTypes
<1>5. live'[x] # None => live'[x].meta = m
    BY <1>1, <1>4
<1>6. queued[x] = NoWrites => disk[x].meta = None \/ disk[x].meta = known[x]
    BY <1>1 DEF ChatMeta, NoFiles
<1>7. CASE live[x] = None
    <2>1. queued[x].session = <<>>
        BY <1>1, <1>7 DEF ChatMeta
    <2>2. queued'[x].store = Append(queued[x].store, m) /\ queued'[x].session = <<>>
        BY <1>1, <1>2, <1>7, <2>1 DEF Queue
    <2>3. queued[x].store = <<>> => disk[x].meta = None \/ disk[x].meta = known[x]
        BY <1>2, <1>6, <2>1 DEF NoWrites
    <2>4. Chain(disk[x].meta, Append(queued[x].store, m), m)
        BY <1>1, <1>2, <1>3, <2>3, LongerChain DEF ChatMeta
    <2>5. queued'[x] # NoWrites
        BY <1>2, <2>2, AppendProperties DEF NoWrites
    <2> QED BY <1>1, <1>4, <1>7, <2>2, <2>4, <2>5, EmptyChain DEF ChatMeta
<1>8. CASE live[x] # None
    <2>1. queued[x].store = <<>>
        BY <1>1, <1>8 DEF ChatMeta
    <2>2. queued'[x].session = Append(queued[x].session, m) /\ queued'[x].store = <<>>
        BY <1>1, <1>2, <1>8, <2>1 DEF Queue
    <2>3. queued[x].session = <<>> => disk[x].meta = None \/ disk[x].meta = known[x]
        BY <1>2, <1>6, <2>1 DEF NoWrites
    <2>4. Chain(disk[x].meta, Append(queued[x].session, m), m)
        BY <1>1, <1>2, <1>3, <2>3, LongerChain DEF ChatMeta
    <2>5. queued'[x] # NoWrites
        BY <1>2, <2>2, AppendProperties DEF NoWrites
    <2> QED BY <1>1, <1>4, <1>5, <1>8, <2>2, <2>4, <2>5, EmptyChain DEF ChatMeta
<1> QED BY <1>7, <1>8

\* Openings when chats keep their place in the list and their openness, and those
\* being opened their metadata.
LEMMA OpeningMetaFrame ==
    ASSUME StoreTypes, MetaInv, UNCHANGED opening,
           \A x \in Chats : /\ known'[x] # None /\ live'[x] = None => live[x] = None
                            /\ known'[x] # None /\ BeingOpened(x) => known'[x] = known[x]
    PROVE  \A o \in Openings : OpeningMeta(o)'
<1>1. SUFFICES ASSUME NEW o \in Openings PROVE OpeningMeta(o)'
    OBVIOUS
<1>2. OpeningMeta(o) /\ (opening[o] # None => opening[o].chat \in Chats)
    BY DEF MetaInv, StoreTypes, OpeningType
<1> QED BY <1>2 DEF OpeningMeta, BeingOpened

\* What changes may change.
LEMMA ChangeMay ==
    ASSUME NEW c \in Chats, Rename(c) \/ Named(c) \/ Touch(c), StoreTypes
    PROVE  \A x \in Chats : known'[x] = known[x] \/ MayChange(x)
<1>1. CASE Rename(c)
    BY <1>1 DEF Rename, Change
<1>2. CASE Named(c)
    BY <1>2 DEF Named, Change
<1>3. CASE Touch(c)
    <2> DEFINE m == Advance([live[c].meta EXCEPT !.moved = @ + 1])
               F == StaleForks(c, m)
    <2>1. \A x \in {c} \cup F : MayChange(x)
        BY <1>3 DEF Touch
    <2>2. known' = [x \in Chats |-> IF x = c THEN m ELSE IF x \in F THEN Unsourced(Current(x)) ELSE known[x]]
        BY <1>3 DEF Touch
    <2> HIDE DEF m, F
    <2> QED BY <2>1, <2>2
<1> QED BY <1>1, <1>2, <1>3

LEMMA ChangeMeta ==
    ASSUME StoreInv, MetaInv, NoChangeWhileOpening, NEW c \in Chats, Rename(c) \/ Named(c) \/ Touch(c)
    PROVE  MetaInv'
<1>1. StoreTypes /\ StoreTypes'
    BY NextTypes DEF StoreInv, Next, UserNext
<1>2. /\ \A x \in Chats : Same(x) \/ Updated(x)
      /\ UNCHANGED <<disk, opening, load, deleting, deleted, spared, torn>>
    BY <1>1, ChangeStep
<1>3. \A x \in Chats : ChatMeta(known[x], live[x], queued[x], save[x], disk[x])'
    BY <1>1, <1>2, SameMeta, UpdatedMeta DEF MetaInv
<1>4. \A x \in Chats : BeingOpened(x) => known'[x] = known[x]
    BY <1>1, ChangeMay DEF MayChange, NoChangeWhileOpening
<1>5. \A x \in Chats : live'[x] = None => live[x] = None
    <2>1. ASSUME NEW x \in Chats, Updated(x), live[x] # None PROVE live'[x] # None
        <3>1. live[x].text \in Nat
            BY <1>1, <2>1, ChatTypes DEF SessionType
        <3>2. \A m \in MetaType : /\ [meta |-> m, text |-> live[x].text] \in SessionType
                                  /\ [meta |-> m, text |-> live[x].text + 1] \in SessionType
            BY <3>1 DEF SessionType
        <3> QED BY <2>1, <3>2, ValueTypes DEF Updated
    <2> QED BY <1>2, <2>1 DEF Same
<1>6. \A o \in Openings : OpeningMeta(o)'
    BY <1>1, <1>2, <1>4, <1>5, OpeningMetaFrame
<1> QED BY <1>3, <1>6 DEF MetaInv

\* A new chat has no writes, and a fork one.
LEMMA AppearsMeta == ASSUME StoreInv, MetaInv, NEW f \in Chats, Appears(f) PROVE MetaInv'
<1>1. StoreTypes /\ TextInv /\ NoStrayWrites
    BY DEF StoreInv
<1>2. /\ known[f] = None /\ disk[f] = NoFiles /\ ~Removing(f)
      /\ UNCHANGED <<disk, opening, load, deleting, deleted, spared>>
    BY DEF Appears, Create, InsertFork, Fresh, Removing, StoreInv, DeletedInv
<1>3. queued[f] = NoWrites /\ save[f] = Idle
    <2>1. ChatText(known[f], live[f], save[f], disk[f], Removing(f))
        BY <1>1 DEF TextInv
    <2> QED BY <1>1, <1>2, <2>1 DEF NoStrayWrites, ChatText
<1>4. \A x \in Chats \ {f} : Same(x)
    BY <1>1 DEF Appears, Create, InsertFork, Same, StoreTypes, Removing
<1>5. ASSUME Create(f)
      PROVE  ChatMeta(known[f], live[f], queued[f], save[f], disk[f])'
    <2>1. /\ known'[f] = Blank /\ live'[f] = [meta |-> Blank, text |-> 0]
          /\ queued'[f] = NoWrites /\ save'[f] = Idle /\ disk'[f] = NoFiles
        BY <1>1, <1>2, <1>3, <1>5 DEF Create, StoreTypes, Blank
    <2>2. known'[f] # None /\ live'[f] # None
        <3>1. Blank \in MetaType
            BY ValueTypes DEF Blank
        <3>2. [meta |-> Blank, text |-> 0] \in SessionType
            BY <3>1 DEF SessionType
        <3> QED BY <2>1, <3>1, <3>2, ValueTypes
    <2>3. NoWrites.store = <<>> /\ NoWrites.session = <<>> /\ live'[f].meta = Blank
        BY <2>1 DEF NoWrites
    <2>4. queued'[f].store = <<>> /\ queued'[f].session = <<>> /\ Chain(disk'[f].meta, <<>>, known'[f])
        BY <2>1, <2>3, EmptyChain
    <2> QED BY <2>1, <2>2, <2>3, <2>4 DEF ChatMeta
<1>6. ASSUME NEW m \in MetaType, InsertFork(f, m)
      PROVE  ChatMeta(known[f], live[f], queued[f], save[f], disk[f])'
    <2>1. /\ known'[f] = m /\ live'[f] = [meta |-> m, text |-> 0]
          /\ queued'[f] = [store |-> <<>>, session |-> <<m>>] /\ disk'[f] = NoFiles
        <3>1. Queue(NoWrites, f, TRUE, m) = [store |-> <<>>, session |-> <<m>>]
            BY DEF Queue, NoWrites
        <3> QED BY <1>1, <1>2, <1>3, <1>6, <3>1 DEF InsertFork, StoreTypes
    <2>2. known'[f] # None /\ live'[f] # None /\ live'[f].meta = m
        <3>1. [meta |-> m, text |-> 0] \in SessionType
            BY DEF SessionType
        <3> QED BY <2>1, <3>1, ValueTypes
    <2>3. Chain(None, <<m>>, m)
        <3>1. Len(<<m>>) = 1 /\ DOMAIN <<m>> = {1} /\ <<m>>[1] = m
            OBVIOUS
        <3>2. m.version \in Nat
            BY DEF MetaType
        <3> QED BY <3>1, <3>2 DEF Chain
    <2>4. /\ queued'[f].store = <<>> /\ queued'[f].session = <<m>> /\ queued'[f] # NoWrites
          /\ disk'[f].meta = None
        <3>1. NoWrites.session = <<>> /\ NoFiles.meta = None /\ <<m>> # <<>>
            BY DEF NoWrites, NoFiles
        <3>2. queued'[f].store = <<>> /\ queued'[f].session = <<m>>
            BY <2>1
        <3> QED BY <2>1, <3>1, <3>2
    <2>5. Chain(disk'[f].meta, queued'[f].store, known'[f]) /\ Chain(disk'[f].meta, queued'[f].session, known'[f])
        BY <2>1, <2>3, <2>4, EmptyChain
    <2> QED BY <2>1, <2>2, <2>4, <2>5 DEF ChatMeta
<1>7. \A x \in Chats : ChatMeta(known[x], live[x], queued[x], save[x], disk[x])'
    BY <1>4, <1>5, <1>6, SameMeta DEF MetaInv, Appears
<1>8. \A o \in Openings : OpeningMeta(o)'
    <2>1. ASSUME NEW o \in Openings PROVE OpeningMeta(o)'
        <3>1. OpeningMeta(o) /\ OpeningText(o)
            BY <1>1 DEF MetaInv, TextInv
        <3>2. opening[o] # None => opening[o].chat \in Chats \ {f}
            BY <1>1, <1>2, <3>1 DEF OpeningText, StoreTypes, OpeningType
        <3> QED BY <1>2, <1>4, <3>1, <3>2 DEF OpeningMeta, Same
    <2> QED BY <2>1
<1> QED BY <1>7, <1>8 DEF MetaInv

\* An opening starts from what the list shows, and hands the store's writes over to
\* the session it ends in.
LEMMA OpeningStepMeta ==
    ASSUME StoreInv, MetaInv, NEW o \in Openings, NEW c \in Chats,
           OpenStart(o, c) \/ OpenRead(o) \/ OpenFinish(o)
    PROVE  MetaInv'
<1>1. StoreTypes /\ TextInv
    BY DEF StoreInv
<1>2. /\ UNCHANGED <<known, save, disk>>
      /\ \A q \in Openings \ {o} : opening'[q] = opening[q]
    BY <1>1 DEF OpenStart, OpenRead, OpenFinish, StoreTypes
<1>3. \A q \in Openings : OpeningMeta(q) /\ (opening[q] # None => opening[q].chat \in Chats)
    BY <1>1 DEF MetaInv, StoreTypes, OpeningType
<1>4. CASE OpenStart(o, c) \/ OpenRead(o)
    <2>1. UNCHANGED <<live, queued>>
        BY <1>4 DEF OpenStart, OpenRead
    <2>2. \A x \in Chats : ChatMeta(known[x], live[x], queued[x], save[x], disk[x])'
        BY <1>2, <2>1 DEF MetaInv, ChatMeta
    <2>3. \A q \in Openings \ {o} : OpeningMeta(q)'
        BY <1>2, <1>3, <2>1 DEF OpeningMeta
    <2>4. OpeningMeta(o)'
        <3>1. CASE OpenStart(o, c)
            <4>1. opening'[o] = [chat |-> c, meta |-> known[c], text |-> Unread]
                BY <1>1, <3>1 DEF OpenStart, StoreTypes
            <4>2. opening'[o].chat = c /\ opening'[o].meta = known[c]
                BY <4>1
            <4> QED BY <1>2, <4>2 DEF OpeningMeta
        <3>2. CASE OpenRead(o)
            <4>1. /\ opening[o] # None
                  /\ opening'[o].chat = opening[o].chat /\ opening'[o].meta = opening[o].meta
                BY <1>1, <3>2 DEF OpenRead, StoreTypes, OpeningType
            <4> QED BY <1>2, <1>3, <2>1, <4>1 DEF OpeningMeta
        <3> QED BY <1>4, <3>1, <3>2
    <2> QED BY <2>2, <2>3, <2>4 DEF MetaInv
<1>5. CASE OpenFinish(o)
    <2>1. PICK x \in Chats : x = opening[o].chat
        BY <1>3, <1>5 DEF OpenFinish
    <2>2. opening[o] # None /\ opening[o].text # Unread /\ opening'[o] = None
        BY <1>1, <1>5 DEF OpenFinish, StoreTypes
    <2>3. CASE UNCHANGED <<live, queued>>
        <3>1. \A z \in Chats : ChatMeta(known[z], live[z], queued[z], save[z], disk[z])'
            BY <1>2, <2>3 DEF MetaInv, ChatMeta
        <3>2. \A q \in Openings : OpeningMeta(q)'
            BY <1>2, <1>3, <2>2, <2>3 DEF OpeningMeta
        <3> QED BY <3>1, <3>2 DEF MetaInv
    <2>4. CASE /\ live[x] = None /\ known[x] # None
               /\ live' = [live EXCEPT ![x] = [meta |-> opening[o].meta, text |-> opening[o].text]]
               /\ queued' = [queued EXCEPT ![x] = HandOver(@)]
        <3>1. /\ live'[x] = [meta |-> opening[o].meta, text |-> opening[o].text]
              /\ queued'[x] = [store |-> <<>>, session |-> queued[x].store]
              /\ \A z \in Chats \ {x} : live'[z] = live[z] /\ queued'[z] = queued[z]
            BY <1>1, <2>4 DEF StoreTypes, HandOver
        <3>2. live'[x] # None /\ live'[x].meta = known[x]
            <4>1. [meta |-> opening[o].meta, text |-> opening[o].text] \in SessionType
                BY <1>1, <2>2 DEF StoreTypes, OpeningType, SessionType
            <4>2. opening[o].meta = known[x]
                BY <1>3, <2>1, <2>2, <2>4 DEF OpeningMeta
            <4> QED BY <3>1, <4>1, <4>2, ValueTypes
        <3>3. ChatMeta(known[x], live[x], queued[x], save[x], disk[x])
            BY DEF MetaInv
        <3>4. queued[x] = [store |-> queued[x].store, session |-> queued[x].session] /\ queued[x].session = <<>>
            BY <2>4, <3>3, ChatTypes, <1>1 DEF ChatMeta, WritesType
        <3>5. /\ queued'[x].store = <<>> /\ queued'[x].session = queued[x].store
              /\ queued'[x] = NoWrites => queued[x] = NoWrites
            BY <3>1, <3>4 DEF NoWrites
        <3>6. ChatMeta(known[x], live[x], queued[x], save[x], disk[x])'
            BY <1>2, <3>2, <3>3, <3>5, EmptyChain DEF ChatMeta
        <3>7. \A z \in Chats \ {x} : ChatMeta(known[z], live[z], queued[z], save[z], disk[z])'
            BY <1>2, <3>1 DEF MetaInv, ChatMeta
        <3>8. \A q \in Openings : OpeningMeta(q)'
            BY <1>2, <1>3, <2>2, <3>1, <3>2 DEF OpeningMeta
        <3> QED BY <3>6, <3>7, <3>8 DEF MetaInv
    <2> QED BY <1>5, <2>1, <2>3, <2>4 DEF OpenFinish, Opens
<1> QED BY <1>4, <1>5

\* A deleted chat keeps its writes, and shows nothing.
LEMMA DeleteMeta == ASSUME StoreInv, MetaInv, NEW c \in Chats, Delete(c) PROVE MetaInv'
<1>1. StoreTypes
    BY DEF StoreInv
<1>2. /\ UNCHANGED <<queued, save, disk, opening>> /\ known'[c] = None /\ live'[c] = None
      /\ \A x \in Chats \ {c} : known'[x] = known[x] /\ live'[x] = live[x]
    BY <1>1 DEF Delete, StoreTypes
<1>3. ChatMeta(known[c], live[c], queued[c], save[c], disk[c])
    BY DEF MetaInv
<1>4. ChatMeta(known[c], live[c], queued[c], save[c], disk[c])'
    BY <1>2, <1>3, ForgottenChain DEF ChatMeta
<1>5. \A x \in Chats \ {c} : ChatMeta(known[x], live[x], queued[x], save[x], disk[x])'
    BY <1>2 DEF MetaInv, ChatMeta
<1>6. \A o \in Openings : OpeningMeta(o)'
    BY <1>1, <1>2, OpeningMetaFrame
<1> QED BY <1>4, <1>5, <1>6 DEF MetaInv

LEMMA RemoveFilesMeta == ASSUME StoreInv, MetaInv, NEW c \in Chats, RemoveFiles(c) PROVE MetaInv'
<1>1. StoreTypes /\ DeletedInv
    BY DEF StoreInv
<1>2. /\ UNCHANGED <<known, live, queued, save, opening>> /\ c \in deleting /\ queued[c] = NoWrites
      /\ disk'[c] = NoFiles /\ \A x \in Chats \ {c} : disk'[x] = disk[x]
    BY <1>1 DEF RemoveFiles, WritesDone, StoreTypes
<1>3. known[c] = None /\ live[c] = None
    BY <1>1, <1>2 DEF DeletedInv
<1>4. ChatMeta(known[c], live[c], queued[c], save[c], disk[c])'
    <2>1. NoWrites.store = <<>> /\ NoWrites.session = <<>>
        BY DEF NoWrites
    <2>2. Chain(disk'[c].meta, <<>>, known'[c])
        BY EmptyChain
    <2> QED BY <1>2, <1>3, <2>1, <2>2 DEF ChatMeta
<1>5. \A x \in Chats \ {c} : ChatMeta(known[x], live[x], queued[x], save[x], disk[x])'
    BY <1>2 DEF MetaInv, ChatMeta
<1>6. \A o \in Openings : OpeningMeta(o)'
    BY <1>1, <1>2, OpeningMetaFrame
<1> QED BY <1>4, <1>5, <1>6 DEF MetaInv

\* What a metadata write finds and leaves.
LEMMA WriteMetaStep ==
    ASSUME StoreTypes, MetaInv, NEW c \in Chats, NEW chain \in {"store", "session"}, WriteMeta(c, chain)
    PROVE  /\ UNCHANGED <<known, live, save, opening>>
           /\ \A x \in Chats \ {c} : queued'[x] = queued[x] /\ disk'[x] = disk[x]
           /\ disk'[c].text = disk[c].text
           /\ disk[c].meta # None => disk[c].meta.version <= disk'[c].meta.version
           /\ ChatMeta(known[c], live[c], queued[c], save[c], disk[c])'
<1>1. PICK w : w = queued[c][chain]
    OBVIOUS
<1>2. /\ UNCHANGED <<known, live, save, opening>>
      /\ \A x \in Chats \ {c} : queued'[x] = queued[x] /\ disk'[x] = disk[x]
      /\ w # <<>> /\ disk' = [disk EXCEPT ![c].meta = Head(w)]
      /\ queued' = [queued EXCEPT ![c] = [queued[c] EXCEPT ![chain] = Tail(w)]]
    BY <1>1 DEF WriteMeta, StoreTypes, WritesType
<1>3. disk'[c] = [disk[c] EXCEPT !.meta = Head(w)] /\ queued'[c] = [queued[c] EXCEPT ![chain] = Tail(w)]
    BY <1>2 DEF StoreTypes
<1>4. disk'[c].meta = Head(w) /\ disk'[c].text = disk[c].text
    BY <1>3, ChatTypes DEF FilesType
<1>5. ChatMeta(known[c], live[c], queued[c], save[c], disk[c])
    BY DEF MetaInv
<1>6. /\ w \in Seq(MetaType) /\ disk[c].meta \in MetaType \cup {None} /\ known[c] \in MetaType \cup {None}
      /\ Chain(disk[c].meta, w, known[c])
    BY <1>1, <1>5, ChatTypes DEF WritesType, FilesType, ChatMeta
<1>7. /\ Chain(Head(w), Tail(w), known[c])
      /\ disk[c].meta # None => disk[c].meta.version <= Head(w).version
      /\ Tail(w) = <<>> /\ known[c] # None => Head(w) = known[c]
    BY <1>2, <1>6, ShorterChain
<1>8. CASE chain = "store"
    <2>1. queued'[c].store = Tail(w) /\ queued'[c].session = queued[c].session
        BY <1>3, <1>8, ChatTypes DEF WritesType
    <2>2. queued[c].store # <<>> /\ queued[c].session = <<>> /\ (known[c] # None => live[c] = None)
        BY <1>1, <1>2, <1>5, <1>8 DEF ChatMeta
    <2>3. queued'[c] = NoWrites => Tail(w) = <<>>
        BY <2>1 DEF NoWrites
    <2>4. ChatMeta(known[c], live[c], queued[c], save[c], disk[c])'
        BY <1>2, <1>4, <1>5, <1>7, <2>1, <2>2, <2>3, EmptyChain DEF ChatMeta
    <2> QED BY <1>2, <1>4, <1>7, <2>4
<1>9. CASE chain = "session"
    <2>1. queued'[c].session = Tail(w) /\ queued'[c].store = queued[c].store
        BY <1>3, <1>9, ChatTypes DEF WritesType
    <2>2. queued[c].session # <<>> /\ queued[c].store = <<>> /\ (known[c] # None => live[c] # None)
        BY <1>1, <1>2, <1>5, <1>9 DEF ChatMeta
    <2>3. queued'[c] = NoWrites => Tail(w) = <<>>
        BY <2>1 DEF NoWrites
    <2>4. ChatMeta(known[c], live[c], queued[c], save[c], disk[c])'
        BY <1>2, <1>4, <1>5, <1>7, <2>1, <2>2, <2>3, EmptyChain DEF ChatMeta
    <2> QED BY <1>2, <1>4, <1>7, <2>4
<1> QED BY <1>8, <1>9

LEMMA WriteMetaMeta ==
    ASSUME StoreInv, MetaInv, NEW c \in Chats, NEW chain \in {"store", "session"}, WriteMeta(c, chain)
    PROVE  MetaInv'
<1>1. StoreTypes
    BY DEF StoreInv
<1>2. /\ UNCHANGED <<known, live, save, opening>>
      /\ \A x \in Chats \ {c} : queued'[x] = queued[x] /\ disk'[x] = disk[x]
      /\ ChatMeta(known[c], live[c], queued[c], save[c], disk[c])'
    BY <1>1, WriteMetaStep
<1>3. \A x \in Chats \ {c} : ChatMeta(known[x], live[x], queued[x], save[x], disk[x])'
    BY <1>2 DEF MetaInv, ChatMeta
<1>4. \A o \in Openings : OpeningMeta(o)'
    BY <1>1, <1>2, OpeningMetaFrame
<1> QED BY <1>2, <1>3, <1>4 DEF MetaInv

\* The transcript's save does not touch the metadata; a chat that was never saved has
\* none under way.
LEMMA SaveMeta ==
    ASSUME StoreInv, MetaInv, NEW c \in Chats, TakeSnapshot(c) \/ WriteText(c)
    PROVE  MetaInv'
<1>1. StoreTypes
    BY DEF StoreInv
<1>2. /\ save[c] # Idle /\ UNCHANGED <<known, live, queued, opening>> /\ disk'[c].meta = disk[c].meta
      /\ \A x \in Chats \ {c} : save'[x] = save[x] /\ disk'[x] = disk[x]
    BY <1>1 DEF TakeSnapshot, WriteText, StoreTypes, Idle, FilesType
<1>3. ChatMeta(known[c], live[c], queued[c], save[c], disk[c])
    BY DEF MetaInv
<1>4. ChatMeta(known[c], live[c], queued[c], save[c], disk[c])'
    BY <1>2, <1>3 DEF ChatMeta
<1>5. \A x \in Chats \ {c} : ChatMeta(known[x], live[x], queued[x], save[x], disk[x])'
    BY <1>2 DEF MetaInv, ChatMeta
<1>6. \A o \in Openings : OpeningMeta(o)'
    BY <1>1, <1>2, OpeningMetaFrame
<1> QED BY <1>4, <1>5, <1>6 DEF MetaInv

\* A chat that is merged into the list shows what its file holds.
LEMMA LoadMergeMeta == ASSUME StoreInv, MetaInv, LoadMerge PROVE MetaInv'
<1>1. StoreTypes /\ DeletedInv /\ TextInv /\ NoStrayWrites
    BY DEF StoreInv
<1>2. /\ UNCHANGED <<live, queued, save, disk, opening, deleting, deleted, spared>> /\ load.stage = "read"
      /\ \A x \in Chats : known'[x] = IF known[x] = None THEN load.found[x] ELSE known[x]
    BY DEF LoadMerge
<1>3. \A x \in Chats : Removing(x) => known'[x] = None
    BY <1>1, <1>2 DEF DeletedInv, Removing, Gone
<1>4. \A x \in Chats : known[x] = None => live[x] = None
    BY <1>1 DEF TextInv, ChatText
<1>5. ASSUME NEW x \in Chats PROVE ChatMeta(known[x], live[x], queued[x], save[x], disk[x])'
    <2>1. ChatMeta(known[x], live[x], queued[x], save[x], disk[x])
        BY DEF MetaInv
    <2>2. CASE known'[x] = known[x]
        BY <1>2, <2>1, <2>2 DEF ChatMeta
    <2>3. CASE known'[x] # known[x]
        <3>1. known[x] = None /\ live[x] = None /\ ~Removing(x) /\ known'[x] = disk[x].meta
            BY <1>1, <1>2, <1>3, <1>4, <2>3 DEF TextInv, LoadFound
        <3>2. queued[x] = NoWrites /\ NoWrites.store = <<>> /\ NoWrites.session = <<>>
            BY <1>1, <3>1 DEF NoStrayWrites, NoWrites
        <3> QED BY <1>2, <3>1, <3>2, EmptyChain DEF ChatMeta
    <2> QED BY <2>2, <2>3
<1>6. ASSUME NEW o \in Openings PROVE OpeningMeta(o)'
    <2>1. OpeningMeta(o) /\ OpeningText(o) /\ (opening[o] # None => opening[o].chat \in Chats)
        BY <1>1 DEF MetaInv, TextInv, StoreTypes, OpeningType
    <2> QED BY <1>2, <1>3, <2>1 DEF OpeningMeta, OpeningText
<1> QED BY <1>5, <1>6 DEF MetaInv

LEMMA CrashMeta == ASSUME Crash PROVE MetaInv'
<1>1. /\ \A x \in Chats : known'[x] = None /\ live'[x] = None /\ queued'[x] = NoWrites
      /\ \A o \in Openings : opening'[o] = None
    BY DEF Crash
<1>2. NoWrites.store = <<>> /\ NoWrites.session = <<>>
    BY DEF NoWrites
<1>3. \A x \in Chats : ChatMeta(known[x], live[x], queued[x], save[x], disk[x])'
    BY <1>1, <1>2, EmptyChain DEF ChatMeta
<1>4. \A o \in Openings : OpeningMeta(o)'
    BY <1>1 DEF OpeningMeta
<1> QED BY <1>3, <1>4 DEF MetaInv

LEMMA NextMeta == ASSUME NoChangeWhileOpening, StoreInv, MetaInv, [Next]_vars PROVE MetaInv'
<1>1. ASSUME NEW c \in Chats, Create(c) \/ Rename(c) \/ Touch(c) \/ Named(c) \/ Delete(c)
      PROVE  MetaInv'
    BY <1>1, AppearsMeta, ChangeMeta, DeleteMeta DEF Appears
<1>2. ASSUME NEW p \in Chats, NEW f \in Chats, Fork(p, f)
      PROVE  MetaInv'
    BY <1>2, ForkAppears, AppearsMeta DEF StoreInv
<1>3. ASSUME NEW o \in Openings, NEW c \in Chats, OpenStart(o, c) PROVE MetaInv'
    BY <1>3, OpeningStepMeta
<1>4. ASSUME NEW o \in Openings, OpenRead(o) \/ OpenFinish(o) PROVE MetaInv'
    <2>1. opening[o].chat \in Chats
        BY <1>4 DEF OpenRead, OpenFinish, StoreInv, StoreTypes, OpeningType
    <2> QED BY <1>4, <2>1, OpeningStepMeta
<1>5. ASSUME NEW c \in Chats, TakeSnapshot(c) \/ WriteText(c) \/ RemoveFiles(c) PROVE MetaInv'
    BY <1>5, SaveMeta, RemoveFilesMeta
<1>6. ASSUME NEW c \in Chats, NEW chain \in {"store", "session"}, WriteMeta(c, chain) PROVE MetaInv'
    BY <1>6, WriteMetaMeta
<1>7. CASE LoadMerge \/ Crash
    BY <1>7, LoadMergeMeta, CrashMeta
<1>8. CASE LoadRead \/ UNCHANGED vars
    <2>1. UNCHANGED <<known, live, queued, save, disk, opening>>
        BY <1>8 DEF LoadRead, vars
    <2>2. \A x \in Chats : ChatMeta(known[x], live[x], queued[x], save[x], disk[x])'
        BY <2>1 DEF MetaInv, ChatMeta
    <2>3. \A o \in Openings : OpeningMeta(o)'
        BY <2>1, OpeningMetaFrame DEF StoreInv
    <2> QED BY <2>2, <2>3 DEF MetaInv
<1> QED BY <1>1, <1>2, <1>3, <1>4, <1>5, <1>6, <1>7, <1>8 DEF Next, UserNext, TaskNext

\* Only a metadata write puts metadata into a file, and it is the next of its chain.
LEMMA StepInOrder ==
    ASSUME StoreInv, MetaInv, [Next]_vars, NEW c \in Chats,
           disk[c].meta # None, disk'[c].meta # None
    PROVE  disk'[c].meta.version >= disk[c].meta.version
<1>1. StoreTypes
    BY DEF StoreInv
<1>2. disk[c].meta.version \in Nat
    BY <1>1, ChatTypes DEF FilesType, MetaType
<1>3. ASSUME NEW x \in Chats, NEW chain \in {"store", "session"}, WriteMeta(x, chain)
      PROVE  disk'[c].meta.version >= disk[c].meta.version
    <2>1. CASE x = c
        <3>1. disk[c].meta.version <= disk'[c].meta.version
            BY <1>1, <1>3, <2>1, WriteMetaStep
        <3>2. disk'[c].meta \in MetaType
            BY NextTypes, <1>1, ChatTypes DEF StoreTypes, FilesType
        <3> QED BY <1>2, <3>1, <3>2 DEF MetaType
    <2>2. CASE x # c
        BY <1>1, <1>2, <1>3, <2>2, WriteMetaStep
    <2> QED BY <2>1, <2>2
<1>4. ASSUME NEW x \in Chats, RemoveFiles(x) PROVE disk'[c] = disk[c]
    BY <1>1, <1>4 DEF RemoveFiles, StoreTypes, NoFiles
<1>5. ASSUME NEW x \in Chats, WriteText(x) PROVE disk'[c].meta = disk[c].meta
    BY <1>1, <1>5 DEF WriteText, StoreTypes, FilesType
<1>6. (\/ UserNext \/ LoadRead \/ LoadMerge \/ Crash \/ UNCHANGED vars
       \/ \E o \in Openings : OpenRead(o) \/ OpenFinish(o)
       \/ \E x \in Chats : TakeSnapshot(x)) => disk' = disk
    BY DEF UserNext, Create, Rename, Touch, Named, Delete, Fork, InsertFork, OpenStart, OpenRead, OpenFinish,
           TakeSnapshot, LoadRead, LoadMerge, Crash, vars
<1> QED BY <1>2, <1>3, <1>4, <1>5, <1>6 DEF Next, TaskNext

\* The metadata on disk never goes back to an older version: the session's first write
\* waits for the store's last one (open_session hands the task over).
THEOREM FilesInOrder == NoDeleteWhileLoading /\ NoChangeWhileOpening => (Spec => MetadataInOrder)
<1> SUFFICES ASSUME NoDeleteWhileLoading, NoChangeWhileOpening PROVE Spec => MetadataInOrder
    OBVIOUS
<1>1. Init => StoreInv /\ MetaInv
    BY InitStore, InitMeta
<1>2. StoreInv /\ MetaInv /\ [Next]_vars => StoreInv' /\ MetaInv'
    BY NextStore, NextMeta
<1>3. StoreInv /\ MetaInv /\ [Next]_vars =>
          [ \A c \in Chats : (disk[c].meta # None /\ disk'[c].meta # None)
              => disk'[c].meta.version >= disk[c].meta.version ]_vars
    BY StepInOrder
<1> QED BY <1>1, <1>2, <1>3, PTL DEF Spec, MetadataInOrder

\* Once no task is under way for a chat its files are what the list and its session
\* show: a rename or a pin of a chat that is not open, a message whose save was
\* superseded and a write handed over to the session all reach the disk.
THEOREM QuietIsSaved == NoDeleteWhileLoading /\ NoChangeWhileOpening => (Spec => []SavedWhenQuiet)
<1> SUFFICES ASSUME NoDeleteWhileLoading, NoChangeWhileOpening PROVE Spec => []SavedWhenQuiet
    OBVIOUS
<1>1. Init => StoreInv /\ MetaInv
    BY InitStore, InitMeta
<1>2. StoreInv /\ MetaInv /\ [Next]_vars => StoreInv' /\ MetaInv'
    BY NextStore, NextMeta
<1>3. StoreInv /\ MetaInv => SavedWhenQuiet
    <2> SUFFICES ASSUME StoreInv, MetaInv, NEW c \in Chats, Quiet(c), known[c] # None
                 PROVE  /\ known[c] = Current(c)
                        /\ disk[c].meta = known[c] \/ (disk[c] = NoFiles /\ known[c].version = 0)
                        /\ live[c] # None => live[c].text = disk[c].text
                                             \/ (live[c].text = 0 /\ disk[c].text = NoText)
        BY DEF SavedWhenQuiet
    <2>1. /\ ChatText(known[c], live[c], save[c], disk[c], Removing(c))
          /\ ChatMeta(known[c], live[c], queued[c], save[c], disk[c])
        BY DEF StoreInv, TextInv, MetaInv
    <2>2. queued[c] = NoWrites /\ save[c] = Idle /\ Idle.stage = "idle"
        BY DEF Quiet, WritesDone, Idle
    <2>3. Blank.version = 0
        BY DEF Blank, NewMeta
    <2>4. known[c] = Current(c)
        BY <2>1 DEF ChatMeta, Current
    <2>5. disk[c].meta = known[c] \/ (disk[c] = NoFiles /\ known[c].version = 0)
        BY <2>1, <2>2, <2>3 DEF ChatMeta
    <2>6. live[c] # None => Shows(live[c].text, disk[c].text)
        BY <2>1, <2>2 DEF ChatText
    <2> QED BY <2>4, <2>5, <2>6 DEF Shows
<1> QED BY <1>1, <1>2, <1>3, PTL DEF Spec

-----------------------------------------------------------------------------
(* Forks that are still to copy their parent's native session.              *)

\* What Wu would know of a chat after the next launch, or knows of it now.
Latest(c) ==
    IF c \in deleting THEN None ELSE IF known[c] # None THEN known[c] ELSE disk[c].meta

\* The parent p of f is as it was when f was forked, or is being removed.  A fork that
\* is in no list yet has a parent that is in none, so touch finds the one with the other.
Faithful(f, p) ==
    /\ Latest(f).parent = p /\ ~Latest(f).native
    /\ Removing(p) \/ (Latest(p) # None /\ Latest(p).native /\ Latest(p).moved = Latest(f).since)
    /\ known[f] = None => known[p] = None

Copies(f) == Latest(f) # None /\ Latest(f).source

ForkOk(f) == Copies(f) => \E p \in Chats \ {f} : Faithful(f, p)

ForkInv == ~torn => \A f \in Chats : ForkOk(f)

\* The metadata of a chat in the list.
LEMMA LatestKnown ==
    ASSUME StoreInv, NEW c \in Chats, known[c] # None
    PROVE  Latest(c) = known[c] /\ c \notin deleting /\ ~Removing(c)
<1>1. ChatText(known[c], live[c], save[c], disk[c], Removing(c))
    BY DEF StoreInv, TextInv
<1>2. ~Removing(c)
    BY <1>1 DEF ChatText
<1> QED BY <1>2 DEF Latest, Removing

\* Metadata that a fork, or a parent, cannot tell apart.
Alike(a, b) ==
    /\ a = None <=> b = None
    /\ a # None => /\ a.parent = b.parent /\ a.native = b.native /\ a.moved = b.moved
                   /\ a.since = b.since /\ a.source = b.source

LEMMA ForkFrame ==
    ASSUME ForkInv, UNCHANGED torn,
           \A x \in Chats : Alike(Latest(x), Latest(x)'),
           \A x \in Chats : Removing(x) => Removing(x)',
           \A x \in Chats : known'[x] = None <=> known[x] = None
    PROVE  ForkInv'
<1> SUFFICES ASSUME ~torn', NEW f \in Chats, Copies(f)'
             PROVE  \E p \in Chats \ {f} : Faithful(f, p)'
    BY DEF ForkInv, ForkOk
<1>1. Alike(Latest(f), Latest(f)')
    OBVIOUS
<1>2. Copies(f)
    BY <1>1 DEF Copies, Alike
<1>3. PICK p \in Chats \ {f} : Faithful(f, p)
    BY <1>2 DEF ForkInv, ForkOk
<1>4. Alike(Latest(p), Latest(p)')
    OBVIOUS
<1>5. Faithful(f, p)'
    BY <1>1, <1>2, <1>3, <1>4 DEF Faithful, Alike, Copies
<1> QED BY <1>5

LEMMA InitFork == Init => ForkInv
<1> SUFFICES ASSUME Init PROVE ForkInv
    OBVIOUS
<1>1. ASSUME NEW f \in Chats, Copies(f) PROVE FALSE
    <2>1. Latest(f) = disk[f].meta
        BY DEF Init, Latest
    <2>2. ~[NewMeta(None, 0, FALSE) EXCEPT !.native = TRUE].source
        BY DEF NewMeta
    <2> QED BY <1>1, <2>1, <2>2 DEF Init, Copies, NoFiles
<1> QED BY <1>1 DEF ForkInv, ForkOk

\* Steps that leave the list and the metadata on disk alone.
LEMMA QuietFork ==
    ASSUME ForkInv, UNCHANGED <<known, deleting, deleted, spared, torn>>,
           \A x \in Chats : disk'[x].meta = disk[x].meta
    PROVE  ForkInv'
<1>1. \A x \in Chats : Alike(Latest(x), Latest(x)')
    BY DEF Latest, Alike
<1> QED BY <1>1, ForkFrame DEF Removing

\* A write only reaches the file of a chat the list knows better, or is deleting.
LEMMA WriteMetaFork ==
    ASSUME StoreInv, MetaInv, ForkInv, NEW c \in Chats, NEW chain \in {"store", "session"}, WriteMeta(c, chain)
    PROVE  ForkInv'
<1>1. StoreTypes
    BY DEF StoreInv
<1>2. /\ UNCHANGED <<known, deleting, deleted, spared, torn>>
      /\ \A x \in Chats \ {c} : disk'[x] = disk[x]
    BY <1>1 DEF WriteMeta, StoreTypes
<1>3. known[c] # None \/ c \in deleting
    <2>1. queued[c] # NoWrites
        BY DEF WriteMeta, NoWrites
    <2> QED BY <2>1 DEF StoreInv, NoStrayWrites, DeletedInv, Gone, Removing
<1>4. \A x \in Chats : Alike(Latest(x), Latest(x)')
    BY <1>2, <1>3 DEF Latest, Alike
<1> QED BY <1>2, <1>4, ForkFrame DEF Removing

\* A deleted fork copies nothing, and a deleted parent is no parent any more.
LEMMA DeleteFork == ASSUME StoreInv, ForkInv, NEW c \in Chats, Delete(c) PROVE ForkInv'
<1>1. /\ UNCHANGED <<disk, torn>> /\ deleting' = deleting \cup {c} /\ known'[c] = None
      /\ deleted' = deleted \cup {c} /\ spared' = spared \ {c}
      /\ \A x \in Chats \ {c} : known'[x] = known[x]
    BY DEF Delete, StoreInv, StoreTypes
<1>2. Latest(c)' = None /\ Removing(c)'
    BY <1>1 DEF Latest, Removing
<1>3. \A x \in Chats \ {c} : Latest(x)' = Latest(x) /\ (Removing(x)' <=> Removing(x))
    BY <1>1 DEF Latest, Removing
<1> SUFFICES ASSUME ~torn', NEW f \in Chats, Copies(f)'
             PROVE  \E p \in Chats \ {f} : Faithful(f, p)'
    BY DEF ForkInv, ForkOk
<1>4. f # c
    BY <1>2 DEF Copies
<1>5. Copies(f)
    BY <1>3, <1>4 DEF Copies
<1>6. PICK p \in Chats \ {f} : Faithful(f, p)
    BY <1>1, <1>5 DEF ForkInv, ForkOk
<1>7. Faithful(f, p)'
    <2>1. CASE p = c
        BY <1>1, <1>2, <1>3, <1>4, <1>6, <2>1 DEF Faithful
    <2>2. CASE p # c
        BY <1>1, <1>3, <1>4, <1>6, <2>2 DEF Faithful
    <2> QED BY <2>1, <2>2
<1> QED BY <1>7

LEMMA RemoveFilesFork == ASSUME StoreInv, ForkInv, NEW c \in Chats, RemoveFiles(c) PROVE ForkInv'
<1>1. /\ UNCHANGED <<known, torn>> /\ c \in deleting /\ deleting' = deleting \ {c}
      /\ Removed' = Removed \cup {c} /\ disk'[c] = NoFiles /\ known[c] = None
      /\ \A x \in Chats \ {c} : disk'[x] = disk[x]
    BY DEF RemoveFiles, StoreInv, StoreTypes, DeletedInv
<1>2. Latest(c) = None /\ Latest(c)' = None
    BY <1>1 DEF Latest, NoFiles
<1>3. \A x \in Chats : Alike(Latest(x), Latest(x)')
    BY <1>1, <1>2 DEF Latest, Alike
<1> QED BY <1>1, <1>3, ForkFrame DEF Removing

\* The list shows what the files held, of forks and parents alike.
LEMMA LoadMergeFork == ASSUME StoreInv, ForkInv, LoadMerge PROVE ForkInv'
<1>1. /\ UNCHANGED <<disk, deleting, deleted, spared, torn>> /\ deleting = {} /\ load.stage = "read"
      /\ \A x \in Chats : known'[x] = IF known[x] = None THEN disk[x].meta ELSE known[x]
    BY DEF LoadMerge, StoreInv, DeletedInv, TextInv, LoadFound
<1>2. \A x \in Chats : Latest(x)' = Latest(x) /\ (Removing(x)' <=> Removing(x)) /\ Latest(x) = known'[x]
    BY <1>1 DEF Latest, Removing
<1> SUFFICES ASSUME ~torn', NEW f \in Chats, Copies(f)'
             PROVE  \E p \in Chats \ {f} : Faithful(f, p)'
    BY DEF ForkInv, ForkOk
<1>3. Copies(f) /\ known'[f] # None
    BY <1>2 DEF Copies
<1>4. PICK p \in Chats \ {f} : Faithful(f, p)
    BY <1>1, <1>3 DEF ForkInv, ForkOk
<1>5. Faithful(f, p)'
    BY <1>2, <1>3, <1>4 DEF Faithful
<1> QED BY <1>5

\* When nothing is torn the files hold what the list showed, but for a chat nothing was
\* ever sent in, and such a chat was not forked.
LEMMA CrashFork == ASSUME StoreInv, MetaInv, ForkInv, Crash PROVE ForkInv'
<1> SUFFICES ASSUME ~torn', NEW f \in Chats, Copies(f)'
             PROVE  \E p \in Chats \ {f} : Faithful(f, p)'
    BY DEF ForkInv, ForkOk
<1>1. /\ ~torn /\ deleting = {} /\ deleting' = {} /\ UNCHANGED <<disk, Removed>>
      /\ \A x \in Chats : queued[x] = NoWrites /\ known'[x] = None
    BY DEF Crash
<1>2. \A x \in Chats : Latest(x)' = disk[x].meta /\ (Removing(x)' <=> Removing(x))
    BY <1>1 DEF Latest, Removing
<1>3. \A x \in Chats : Latest(x) = disk[x].meta \/ (Latest(x) = Blank /\ disk[x].meta = None)
    <2>1. ASSUME NEW x \in Chats
          PROVE  Latest(x) = disk[x].meta \/ (Latest(x) = Blank /\ disk[x].meta = None)
        <3>1. ChatMeta(known[x], live[x], queued[x], save[x], disk[x])
            BY DEF MetaInv
        <3>2. CASE known[x] = None
            BY <1>1, <3>2 DEF Latest
        <3>3. CASE known[x] # None
            BY <1>1, <3>1, <3>3 DEF ChatMeta, Latest, NoFiles
        <3> QED BY <3>2, <3>3
    <2> QED BY <2>1
<1>4. Latest(f)' = Latest(f) /\ Copies(f)
    BY <1>2, <1>3 DEF Copies
<1>5. PICK p \in Chats \ {f} : Faithful(f, p)
    BY <1>1, <1>4 DEF ForkInv, ForkOk
<1>6. Removing(p) \/ Latest(p)' = Latest(p)
    <2>1. ~Blank.native
        BY DEF Blank, NewMeta
    <2> QED BY <1>2, <1>3, <1>5, <2>1 DEF Faithful
<1>7. Faithful(f, p)'
    BY <1>1, <1>2, <1>4, <1>5, <1>6 DEF Faithful
<1> QED BY <1>7

\* An open session and the list show the same metadata.
LEMMA CurrentKnown ==
    ASSUME StoreInv, MetaInv, NEW c \in Chats, known[c] # None
    PROVE  Current(c) = known[c] /\ known[c] \in MetaType
BY ChatTypes DEF Current, MetaInv, ChatMeta, StoreInv

\* A name or a pin is neither a turn nor a run.
LEMMA RenameFork == ASSUME StoreInv, MetaInv, ForkInv, NEW c \in Chats, Rename(c) PROVE ForkInv'
<1>1. known[c] # None /\ UNCHANGED <<disk, deleting, deleted, spared, torn>>
    BY DEF Rename, MayChange
<1>2. known'[c] = Advance(known[c]) /\ \A x \in Chats \ {c} : known'[x] = known[x]
    BY <1>1, CurrentKnown DEF Rename, Change
<1>3. known'[c] # None /\ Alike(known[c], known'[c])
    BY <1>1, <1>2, CurrentKnown, AdvanceType, ValueTypes DEF Alike
<1>4. \A x \in Chats : Alike(Latest(x), Latest(x)')
    BY <1>1, <1>2, <1>3 DEF Latest, Alike
<1> QED BY <1>1, <1>2, <1>3, <1>4, ForkFrame DEF Removing

\* A fork that has made its copy copies nothing any more, and its own forks see no turn.
LEMMA NamedFork == ASSUME StoreInv, MetaInv, ForkInv, NEW c \in Chats, Named(c) PROVE ForkInv'
<1>1. known[c] # None /\ live[c] # None /\ UNCHANGED <<disk, deleting, deleted, spared, torn>>
    BY DEF Named, MayChange
<1>2. live[c].meta = known[c] /\ known[c] \in MetaType /\ Latest(c) = known[c] /\ c \notin deleting
    BY <1>1, CurrentKnown, LatestKnown DEF Current
<1>3. PICK m \in MetaType : m = Advance([known[c] EXCEPT !.native = TRUE, !.source = FALSE])
                            /\ m.moved = known[c].moved /\ m.native /\ ~m.source
    BY <1>2, NamedType
<1>4. known'[c] = m /\ \A x \in Chats \ {c} : known'[x] = known[x]
    BY <1>2, <1>3 DEF Named, Change
<1>5. Latest(c)' = m /\ m # None /\ \A x \in Chats \ {c} : Latest(x)' = Latest(x)
    BY <1>1, <1>2, <1>4, ValueTypes DEF Latest
<1>6. \A x \in Chats : (Removing(x)' <=> Removing(x)) /\ (known'[x] = None <=> known[x] = None)
    BY <1>1, <1>4, <1>5 DEF Removing
<1> SUFFICES ASSUME ~torn', NEW f \in Chats, Copies(f)'
             PROVE  \E p \in Chats \ {f} : Faithful(f, p)'
    BY DEF ForkInv, ForkOk
<1>7. f # c /\ Copies(f)
    BY <1>3, <1>5 DEF Copies
<1>8. PICK p \in Chats \ {f} : Faithful(f, p)
    BY <1>1, <1>7 DEF ForkInv, ForkOk
<1>9. Faithful(f, p)'
    BY <1>2, <1>3, <1>5, <1>6, <1>7, <1>8 DEF Faithful
<1> QED BY <1>9

\* touch takes the source from every fork of the chat that is in the list, and a fork
\* that still copies the chat is in the list when the chat is.
LEMMA TouchFork == ASSUME StoreInv, MetaInv, ForkInv, NEW c \in Chats, Touch(c) PROVE ForkInv'
<1> DEFINE t == Advance([live[c].meta EXCEPT !.moved = @ + 1])
           T == StaleForks(c, t)
<1>1. /\ live[c] # None /\ \A x \in {c} \cup T : known[x] # None
      /\ UNCHANGED <<disk, deleting, deleted, spared, torn>>
    BY DEF Touch, MayChange
<1>2. /\ live[c].meta = known[c] /\ known[c] \in MetaType
      /\ Latest(c) = known[c] /\ c \notin deleting /\ ~Removing(c)
    BY <1>1, CurrentKnown, LatestKnown DEF Current
<1>3. known' = [x \in Chats |-> IF x = c THEN t ELSE IF x \in T THEN Unsourced(Current(x)) ELSE known[x]]
    BY DEF Touch
<1>4. /\ t \in MetaType /\ t.moved = known[c].moved + 1 /\ t.native = known[c].native
      /\ t.parent = known[c].parent /\ t.since = known[c].since /\ t.source = known[c].source
    BY <1>2, MovedType
<1>5. PICK m \in MetaType : m = t
    BY <1>4
<1>6. PICK F : F = T
    OBVIOUS
<1>7. F \subseteq Chats /\ \A x \in Chats : (x \in F <=>
           known[x] # None /\ known[x].parent = c /\ known[x].source /\ ~known[x].native
           /\ m.moved > known[x].since)
    BY <1>5, <1>6 DEF StaleForks
<1>8. /\ known'[c] = m /\ \A x \in F \ {c} : known'[x] = Unsourced(known[x])
      /\ \A x \in Chats \ (F \cup {c}) : known'[x] = known[x]
    <2>1. \A x \in F : Current(x) = known[x]
        BY <1>1, <1>6, <1>7, CurrentKnown
    <2> HIDE DEF t, T
    <2> QED BY <1>3, <1>5, <1>6, <1>7, <2>1
<1>9. m.moved = known[c].moved + 1 /\ m.native = known[c].native /\ m.source = known[c].source
      /\ m.parent = known[c].parent /\ m.since = known[c].since /\ m # None
    BY <1>4, <1>5, ValueTypes
<1> HIDE DEF t, T
<1>10. \A x \in F \ {c} : /\ Latest(x) = known[x] /\ Latest(x)' = known'[x] /\ known'[x] # None
                          /\ known'[x].native = known[x].native /\ known'[x].moved = known[x].moved
                          /\ ~known'[x].source
    <2> SUFFICES ASSUME NEW x \in F \ {c}
                 PROVE  /\ Latest(x) = known[x] /\ Latest(x)' = known'[x] /\ known'[x] # None
                        /\ known'[x].native = known[x].native /\ known'[x].moved = known[x].moved
                        /\ ~known'[x].source
        OBVIOUS
    <2>1. x \in Chats /\ known[x] # None /\ known[x] \in MetaType /\ x \notin deleting /\ Latest(x) = known[x]
        BY <1>7, CurrentKnown, LatestKnown
    <2>2. /\ known'[x] \in MetaType /\ ~known'[x].source
          /\ known'[x].native = known[x].native /\ known'[x].moved = known[x].moved
        BY <1>8, <2>1, UnsourcedType
    <2>3. known'[x] # None
        BY <2>2, ValueTypes
    <2> QED BY <1>1, <2>1, <2>2, <2>3 DEF Latest
<1>11. Latest(c)' = m /\ \A x \in Chats \ (F \cup {c}) : Latest(x)' = Latest(x)
    BY <1>1, <1>2, <1>8, <1>9 DEF Latest
<1>12. \A x \in Chats : (Removing(x)' <=> Removing(x)) /\ (known'[x] = None <=> known[x] = None)
    BY <1>1, <1>6, <1>7, <1>8, <1>9, <1>10 DEF Removing
<1> SUFFICES ASSUME ~torn', NEW f \in Chats, Copies(f)'
             PROVE  \E p \in Chats \ {f} : Faithful(f, p)'
    BY DEF ForkInv, ForkOk
<1>13. f \notin F \ {c}
    BY <1>10 DEF Copies
<1>14. Copies(f)
    BY <1>2, <1>9, <1>11, <1>13, ValueTypes DEF Copies
<1>15. PICK p \in Chats \ {f} : Faithful(f, p)
    BY <1>1, <1>14 DEF ForkInv, ForkOk
<1>16. p # c
    <2> SUFFICES ASSUME p = c PROVE FALSE
        OBVIOUS
    <2>1. known[f] # None /\ Latest(f) = known[f]
        BY <1>1, <1>15, LatestKnown DEF Faithful
    <2>2. known[f].parent = c /\ known[f].source /\ ~known[f].native /\ known[c].moved = known[f].since
        BY <1>2, <1>14, <1>15, <2>1 DEF Faithful, Copies
    <2>3. m.moved > known[f].since
        BY <1>2, <1>9, <2>2 DEF MetaType
    <2> QED BY <1>7, <1>13, <1>15, <2>1, <2>2, <2>3
<1>17. /\ Latest(f)'.parent = Latest(f).parent /\ Latest(f)'.native = Latest(f).native
       /\ Latest(f)'.since = Latest(f).since
    BY <1>2, <1>9, <1>11, <1>13
<1>18. Latest(p) # None => /\ Latest(p)' # None /\ Latest(p)'.native = Latest(p).native
                           /\ Latest(p)'.moved = Latest(p).moved
    BY <1>10, <1>11, <1>15, <1>16
<1>19. Faithful(f, p)'
    BY <1>12, <1>15, <1>17, <1>18 DEF Faithful
<1> QED BY <1>19

\* What Wu knows of a chat that appeared is what the list shows.
LEMMA LatestAppeared ==
    ASSUME StoreInv, NEW c \in Chats, Fresh(c), UNCHANGED <<deleting, deleted, spared>>, known'[c] # None,
           UNCHANGED disk, \A x \in Chats \ {c} : known'[x] = known[x]
    PROVE  /\ Latest(c)' = known'[c]
           /\ \A x \in Chats \ {c} : Latest(x)' = Latest(x)
BY DEF Latest, Fresh, StoreInv, DeletedInv

\* What appears was not there: no fork that is to copy has it as its parent.
LEMMA AppearFork ==
    ASSUME StoreInv, ForkInv, NEW c \in Chats, Fresh(c),
           UNCHANGED <<disk, deleting, deleted, spared, torn>>,
           \A x \in Chats \ {c} : known'[x] = known[x],
           ForkOk(c)'
    PROVE  ForkInv'
<1>1. Latest(c) = None /\ ~Removing(c)
    BY DEF Fresh, Latest, Removing, NoFiles, StoreInv, DeletedInv
<1>2. \A x \in Chats \ {c} : Latest(x)' = Latest(x) /\ (Removing(x)' <=> Removing(x))
    BY DEF Latest, Removing
<1> SUFFICES ASSUME ~torn', NEW f \in Chats, f # c PROVE ForkOk(f)'
    BY DEF ForkInv
<1> SUFFICES ASSUME Copies(f)' PROVE \E p \in Chats \ {f} : Faithful(f, p)'
    BY DEF ForkOk
<1>3. Copies(f)
    BY <1>2 DEF Copies
<1>4. PICK p \in Chats \ {f} : Faithful(f, p)
    BY <1>3 DEF ForkInv, ForkOk
<1>5. p # c
    BY <1>1, <1>4 DEF Faithful
<1>6. Faithful(f, p)'
    BY <1>2, <1>4, <1>5 DEF Faithful
<1> QED BY <1>6

LEMMA CreateFork == ASSUME StoreInv, ForkInv, NEW c \in Chats, Create(c) PROVE ForkInv'
<1>1. /\ Fresh(c) /\ UNCHANGED <<disk, deleting, deleted, spared, torn>>
      /\ known'[c] = Blank /\ \A x \in Chats \ {c} : known'[x] = known[x]
    BY DEF Create, StoreInv, StoreTypes, Blank
<1>2. Blank # None /\ ~Blank.source
    BY ValueTypes DEF Blank, NewMeta
<1>3. ~Copies(c)'
    BY <1>1, <1>2, LatestAppeared DEF Copies
<1> QED BY <1>1, <1>3, AppearFork DEF ForkOk

\* A fork of an idle chat that has a native session is to copy it as it is.
LEMMA ForkLive ==
    ASSUME StoreInv, MetaInv, ForkInv, NEW p \in Chats, NEW f \in Chats, live[p] # None,
           NEW source \in {FALSE, live[p].meta.native},
           InsertFork(f, NewMeta(p, live[p].meta.moved, source))
    PROVE  ForkInv'
<1>1. /\ Fresh(f) /\ UNCHANGED <<disk, deleting, deleted, spared, torn>>
      /\ known'[f] = NewMeta(p, live[p].meta.moved, source)
      /\ \A x \in Chats \ {f} : known'[x] = known[x]
    BY DEF InsertFork, StoreInv, StoreTypes
<1>2. /\ known[p] # None /\ live[p].meta = known[p] /\ known[p] \in MetaType
      /\ Latest(p) = known[p] /\ p \notin deleting /\ p # f
    <2>1. ChatText(known[p], live[p], save[p], disk[p], Removing(p)) /\ ChatMeta(known[p], live[p], queued[p], save[p], disk[p])
        BY DEF StoreInv, TextInv, MetaInv
    <2>2. known[p] # None /\ live[p].meta = known[p]
        BY <2>1 DEF ChatText, ChatMeta
    <2> QED BY <1>1, <2>2, CurrentKnown, LatestKnown DEF Fresh
<1>3. PICK m \in MetaType : /\ m = known'[f] /\ m # None /\ m.parent = p /\ ~m.native /\ m.since = known[p].moved
                            /\ m.source => known[p].native
    <2>1. known[p].moved \in Nat /\ known[p].native \in BOOLEAN
        BY <1>2 DEF MetaType
    <2>2. source \in BOOLEAN /\ (source => known[p].native)
        BY <1>2, <2>1
    <2>3. NewMeta(p, known[p].moved, source) \in MetaType
        BY <2>1, <2>2, ValueTypes
    <2> QED BY <1>1, <1>2, <2>2, <2>3, ValueTypes DEF NewMeta
<1>4. Latest(f)' = m /\ Latest(p)' = known[p] /\ known'[f] # None
    BY <1>1, <1>2, <1>3, LatestAppeared
<1>5. Copies(f)' => Faithful(f, p)'
    BY <1>2, <1>3, <1>4 DEF Copies, Faithful
<1>6. ForkOk(f)'
    BY <1>2, <1>5 DEF ForkOk
<1> QED BY <1>1, <1>6, AppearFork

\* A fork of a chat that was deleted meanwhile has a parent that is gone.
LEMMA ForkGone ==
    ASSUME StoreInv, ForkInv, NEW p \in Chats, NEW f \in Chats, p \in deleting,
           NEW moved \in Nat, NEW source \in BOOLEAN, InsertFork(f, NewMeta(p, moved, source))
    PROVE  ForkInv'
<1>1. /\ Fresh(f) /\ UNCHANGED <<disk, deleting, deleted, spared, torn>>
      /\ known'[f] = NewMeta(p, moved, source)
      /\ \A x \in Chats \ {f} : known'[x] = known[x]
    BY DEF InsertFork, StoreInv, StoreTypes
<1>2. p # f /\ Removing(p)'
    BY <1>1 DEF Fresh, StoreInv, DeletedInv, Removing
<1>3. PICK m \in MetaType : m = known'[f] /\ m # None /\ m.parent = p /\ ~m.native
    <2>1. NewMeta(p, moved, source) \in MetaType
        BY ValueTypes
    <2> QED BY <1>1, <2>1, ValueTypes DEF NewMeta
<1>4. Latest(f)' = m /\ known'[f] # None
    BY <1>1, <1>3, LatestAppeared
<1>5. ForkOk(f)'
    BY <1>2, <1>3, <1>4 DEF ForkOk, Faithful
<1> QED BY <1>1, <1>5, AppearFork

LEMMA ForkFork ==
    ASSUME StoreInv, MetaInv, ForkInv, NEW p \in Chats, NEW f \in Chats, Fork(p, f)
    PROVE  ForkInv'
<1>1. PICK moved \in Nat, source \in BOOLEAN :
          MayFork(p, moved, source) /\ InsertFork(f, NewMeta(p, moved, source))
    BY StoreAssumption DEF Fork
<1>2. CASE /\ live[p] # None
           /\ moved = live[p].meta.moved /\ source \in {FALSE, live[p].meta.native}
    BY <1>1, <1>2, ForkLive
<1>3. CASE p \in deleting
    BY <1>1, <1>3, ForkGone
<1> QED BY <1>1, <1>2, <1>3 DEF MayFork

LEMMA NextFork == ASSUME StoreInv, MetaInv, ForkInv, [Next]_vars PROVE ForkInv'
<1>1. ASSUME NEW c \in Chats, Create(c) \/ Rename(c) \/ Touch(c) \/ Named(c) \/ Delete(c)
      PROVE  ForkInv'
    BY <1>1, CreateFork, RenameFork, TouchFork, NamedFork, DeleteFork
<1>2. ASSUME NEW p \in Chats, NEW f \in Chats, Fork(p, f)
      PROVE  ForkInv'
    BY <1>2, ForkFork
<1>3. ASSUME NEW c \in Chats, NEW chain \in {"store", "session"}, WriteMeta(c, chain) PROVE ForkInv'
    BY <1>3, WriteMetaFork
<1>4. ASSUME NEW c \in Chats, TakeSnapshot(c) \/ WriteText(c) PROVE ForkInv'
    <2>1. \A x \in Chats : disk'[x].meta = disk[x].meta
        BY <1>4 DEF TakeSnapshot, WriteText, StoreInv, StoreTypes, FilesType
    <2> QED BY <1>4, <2>1, QuietFork DEF TakeSnapshot, WriteText
<1>5. CASE \/ LoadRead \/ UNCHANGED vars
           \/ \E o \in Openings : OpenRead(o) \/ OpenFinish(o)
           \/ \E o \in Openings, c \in Chats : OpenStart(o, c)
    <2>1. UNCHANGED <<known, deleting, deleted, spared, torn, disk>>
        BY <1>5 DEF LoadRead, vars, OpenRead, OpenFinish, OpenStart
    <2> QED BY <2>1, QuietFork
<1>6. ASSUME NEW c \in Chats, RemoveFiles(c) PROVE ForkInv'
    BY <1>6, RemoveFilesFork
<1>7. CASE LoadMerge \/ Crash
    BY <1>7, LoadMergeFork, CrashFork
<1> QED BY <1>1, <1>2, <1>3, <1>4, <1>5, <1>6, <1>7 DEF Next, UserNext, TaskNext

\* A fork that still copies its parent's native session finds it as it was when the
\* fork was made: touch takes the source from the forks of a chat that moves on, also
\* from those that are not open, and what it took stays taken over a crash.
THEOREM ForksCopyTheirParent == NoDeleteWhileLoading /\ NoChangeWhileOpening => (Spec => []NoStaleCopy)
<1> SUFFICES ASSUME NoDeleteWhileLoading, NoChangeWhileOpening PROVE Spec => []NoStaleCopy
    OBVIOUS
<1>1. Init => StoreInv /\ MetaInv /\ ForkInv
    BY InitStore, InitMeta, InitFork
<1>2. StoreInv /\ MetaInv /\ ForkInv /\ [Next]_vars => StoreInv' /\ MetaInv' /\ ForkInv'
    BY NextStore, NextMeta, NextFork
<1>3. StoreInv /\ MetaInv /\ ForkInv => NoStaleCopy
    <2> SUFFICES ASSUME StoreInv, MetaInv, ForkInv, ~torn, NEW f \in Chats, live[f] # None, live[f].meta.source,
                        known[live[f].meta.parent] # None
                 PROVE  known[live[f].meta.parent].moved = live[f].meta.since
        BY DEF NoStaleCopy
    <2>1. /\ ChatText(known[f], live[f], save[f], disk[f], Removing(f))
          /\ ChatMeta(known[f], live[f], queued[f], save[f], disk[f])
        BY DEF StoreInv, TextInv, MetaInv
    <2>2. known[f] # None /\ live[f].meta = known[f] /\ Latest(f) = known[f]
        BY <2>1, LatestKnown DEF ChatText, ChatMeta
    <2>3. PICK p \in Chats \ {f} : Faithful(f, p)
        BY <2>2 DEF ForkInv, ForkOk, Copies
    <2>4. p = live[f].meta.parent /\ known[p] # None
        BY <2>2, <2>3 DEF Faithful
    <2>5. Latest(p) = known[p] /\ ~Removing(p)
        BY <2>4, LatestKnown
    <2> QED BY <2>2, <2>3, <2>4, <2>5 DEF Faithful
<1> QED BY <1>1, <1>2, <1>3, PTL DEF Spec
=============================================================================
