------------------------ MODULE RemoteChannel_proofs ------------------------
(***************************************************************************)
(* Proofs about RemoteChannel, for any number of messages, background      *)
(* threads and drops: answers match requests however often the connection  *)
(* drops, and until it does each message is handled once, in order when    *)
(* all senders are on the foreground thread.  Then nothing is lost to the  *)
(* first drop either.                                                      *)
(***************************************************************************)
EXTENDS RemoteChannel, SequenceTheorems, FiniteSetTheorems, TLAPS

(***************************************************************************)
(* What may be on its way, when p has given out the ids below n[p] and the *)
(* requests in w[p] wait for an answer.                                    *)
(***************************************************************************)

\* Ids that no waiter of another kind has.
Belonging(kind, n, w) == {i \in 0 .. n - 1 : \A r \in w : r.id = i => r.kind = kind}

\* Either side asks with ids of its own, the client the flushes; it answers what it
\* was asked, except that it also acknowledges id 0.  Nothing but RemoteStarted is
\* sent before an id was given out, and the server asks nothing before the client
\* has given one out too.
Sound(p, n, w) ==
    {e \in EnvelopeType :
        /\ e.kind = "started" => e.id = 0
        /\ e.kind # "started" => n[p] >= 1
        /\ e.kind \in {"send", "request"} => e.re = None
        /\ e.kind = "flush" => p = "client" /\ e.id \in Belonging("flush", n[p], w[p])
        /\ e.kind = "request" => n["client"] >= 1 /\ e.id \in Belonging("request", n[p], w[p])
        /\ e.kind = "response" => e.re \in Belonging("request", n[Other(p)], w[Other(p)])
        /\ e.kind = "ack" => e.re \in {0} \cup Belonging("flush", n[Other(p)], w[Other(p)])}

\* What a background thread sends.
Sends == {e \in EnvelopeType : e.kind = "send" /\ e.re = None}

Works == {<<>>} \cup {<<e>> : e \in Sends}

Waiters(n) == [id : 1 .. n - 1, kind : {"request", "flush"}]

\* A ChannelClient whose envelopes are all in G.
Channel(G) == [next : Nat, buffer : Seq(G), maxReceived : Nat, outgoing : Seq(G)]

\* Whatever p's peer may still receive is sound.
Supply(c, r, n, w) ==
    \A p \in Peers : c[p] \in Channel(Sound(p, n, w)) /\ r[p] \in Seq(Sound(p, n, w))

Nexts == [p \in Peers |-> ch[p].next]

\* Requests that p's handlers may be at work on.
Tasks(p, n, w) == Seq(Belonging("request", n[Other(p)], w[Other(p)]))

Core ==
    /\ ch \in [Peers -> Channel(EnvelopeType)] /\ wire \in [Peers -> Seq(EnvelopeType)]
    /\ Supply(ch, wire, Nexts, waiting)
    /\ work \in [Peers -> [Threads -> Works]]
    /\ waiting \in [Peers -> SUBSET [id : Nat, kind : {"request", "flush"}]]
    /\ \A p \in Peers : waiting[p] \subseteq Waiters(ch[p].next)
    /\ todo \in [Peers -> Seq(Nat)]
    /\ \A p \in Peers : todo[p] \in Tasks(p, Nexts, waiting)
    /\ state \in {"connecting", "started", "connected", "swapped", "resyncing"}
    /\ flushId \in Nat \cup {None}
    /\ link \in {"up", "down"}
    /\ budget \in [client : Nat, server : Nat, drops : Nat]
    /\ posted \in [Peers -> SUBSET Nat]
    /\ received \in [Peers -> Seq(Nat)]
    /\ AnswersMatch

\* RemoteStarted is the next that the server will hear of the client.
Announced ==
    \/ wire["client"] # <<>> /\ Head(wire["client"]) = Started
    \/ wire["client"] = <<>> /\ ch["client"].outgoing # <<>> /\ Head(ch["client"].outgoing) = Started

\* How the two begin: the client numbers nothing before it has heard of the server,
\* and the server hears nothing numbered of the client before it has numbered an
\* ack of its own.
Begun ==
    /\ state = "connecting" <=> ch["client"].next = 0
    /\ ch["server"].maxReceived > 0 => ch["client"].next >= 1
    /\ todo["client"] # <<>> => ch["client"].next >= 1
    /\ \A p \in Peers : \A t \in Threads : work[p][t] # <<>> => ch[p].next >= 1
    /\ ch["server"].next = 0 =>
          ch["server"].maxReceived = 0 /\ Announced /\ state \in {"connecting", "started"}

Inv == Core /\ Begun

-----------------------------------------------------------------------------
(* Ids are given out once, and a waiter leaves or takes a new one: what was *)
(* sound stays so.                                                          *)

LEMMA PeersKnown == "client" \in Peers /\ "server" \in Peers /\ \A p \in Peers : Other(p) \in Peers /\ Other(Other(p)) = p
BY DEF Peers, Other

LEMMA SoundTyped == \A p, n, w : Sound(p, n, w) \subseteq EnvelopeType
BY DEF Sound

LEMMA SendsSound == \A p, n, w : n[p] >= 1 => Sends \subseteq Sound(p, n, w)
BY DEF Sends, Sound

LEMMA StartedSound == \A p, n, w : Started \in Sound(p, n, w)
BY DEF Started, Envelope, Sound, EnvelopeType, None

\* p gave out n[p] ids, then m[p]; v[p] waits where w[p] did.
Later(n, w, m, v) ==
    \A p \in Peers : n[p] <= m[p] /\ \A r \in v[p] : r \in w[p] \/ r.id >= n[p]

LEMMA StayBelonging ==
    ASSUME NEW n \in Nat, NEW m \in Nat, n <= m, NEW w, NEW v, \A r \in v : r \in w \/ r.id >= n
    PROVE  \A kind : Belonging(kind, n, w) \subseteq Belonging(kind, m, v)
BY DEF Belonging

LEMMA StaySound ==
    ASSUME NEW n \in [Peers -> Nat], NEW m \in [Peers -> Nat], NEW w, NEW v, Later(n, w, m, v),
           NEW p \in Peers
    PROVE  /\ \A kind : Belonging(kind, n[p], w[p]) \subseteq Belonging(kind, m[p], v[p])
           /\ Sound(p, n, w) \subseteq Sound(p, m, v)
<1>1. ASSUME NEW q \in Peers
      PROVE  \A kind : Belonging(kind, n[q], w[q]) \subseteq Belonging(kind, m[q], v[q])
    <2>1. n[q] \in Nat /\ m[q] \in Nat /\ n[q] <= m[q] /\ \A r \in v[q] : r \in w[q] \/ r.id >= n[q]
        BY DEF Later
    <2> QED BY <2>1, StayBelonging
<1>2. n["client"] <= m["client"] /\ n[p] <= m[p] /\ {n["client"], n[p], m["client"], m[p]} \subseteq Nat
    BY PeersKnown DEF Later
<1>3. ASSUME NEW e \in Sound(p, n, w) PROVE e \in Sound(p, m, v)
    <2>1. \A kind : /\ Belonging(kind, n[p], w[p]) \subseteq Belonging(kind, m[p], v[p])
                    /\ Belonging(kind, n[Other(p)], w[Other(p)]) \subseteq Belonging(kind, m[Other(p)], v[Other(p)])
        BY <1>1, PeersKnown
    <2> QED BY <1>2, <1>3, <2>1 DEF Sound
<1> QED BY <1>1, <1>3

LEMMA ChannelMonotonic ==
    ASSUME NEW G, NEW H, G \subseteq H
    PROVE  Channel(G) \subseteq Channel(H)
<1>1. Seq(G) \subseteq Seq(H)
    BY SeqMonotonic
<1> QED BY <1>1 DEF Channel

LEMMA Grown ==
    ASSUME NEW n \in [Peers -> Nat], NEW m \in [Peers -> Nat], NEW w, NEW v, Later(n, w, m, v),
           NEW p \in Peers
    PROVE  /\ Channel(Sound(p, n, w)) \subseteq Channel(Sound(p, m, v))
           /\ Seq(Sound(p, n, w)) \subseteq Seq(Sound(p, m, v))
           /\ Tasks(p, n, w) \subseteq Tasks(p, m, v)
<1>1. Sound(p, n, w) \subseteq Sound(p, m, v)
    BY StaySound
<1>2. Belonging("request", n[Other(p)], w[Other(p)]) \subseteq Belonging("request", m[Other(p)], v[Other(p)])
    BY StaySound, PeersKnown
<1>3. Tasks(p, n, w) \subseteq Tasks(p, m, v)
    BY <1>2, SeqMonotonic DEF Tasks
<1> QED BY <1>1, <1>3, ChannelMonotonic, SeqMonotonic

LEMMA SupplyLasts ==
    ASSUME NEW n \in [Peers -> Nat], NEW m \in [Peers -> Nat], NEW w, NEW v, Later(n, w, m, v),
           NEW c, NEW r, Supply(c, r, n, w)
    PROVE  Supply(c, r, m, v)
<1> SUFFICES ASSUME NEW p \in Peers
             PROVE  c[p] \in Channel(Sound(p, m, v)) /\ r[p] \in Seq(Sound(p, m, v))
    BY DEF Supply
<1>1. c[p] \in Channel(Sound(p, n, w)) /\ r[p] \in Seq(Sound(p, n, w))
    BY DEF Supply
<1> QED BY <1>1, Grown

-----------------------------------------------------------------------------
(* What the operations of a ChannelClient leave in it.                      *)

LEMMA EnvelopeTyped ==
    ASSUME NEW k \in {"started", "flush", "ack", "send", "request", "response"}, NEW i \in Nat,
           NEW j \in Nat \cup {None}, NEW a \in Nat \cup {None}
    PROVE  Envelope(k, i, j, a) \in EnvelopeType
BY DEF Envelope, EnvelopeType

LEMMA TrimKeeps ==
    ASSUME NEW G, G \subseteq EnvelopeType, NEW q \in Seq(G), NEW id \in Nat
    PROVE  Trim(q, id) \in Seq(G)
<1> DEFINE popped == {i \in DOMAIN q : \A j \in 1 .. i : q[j].id <= id}
<1>1. Len(q) \in Nat /\ DOMAIN q = 1 .. Len(q) /\ \A i \in 1 .. Len(q) : q[i] \in G
    BY LenProperties, ElementOfSeq
<1>2. IsFiniteSet(1 .. Len(q))
    BY <1>1, FS_Interval
<1>3. popped \in SUBSET (1 .. Len(q))
    BY <1>1
<1>4. Cardinality(popped) \in Nat
    <2> HIDE DEF popped
    <2> QED BY <1>2, <1>3, FS_Subset, FS_CardinalityType
<1>5. Trim(q, id) = SubSeq(q, Cardinality(popped) + 1, Len(q))
    BY DEF Trim
<1> HIDE DEF popped
<1>6. \A i \in Cardinality(popped) + 1 .. Len(q) : q[i] \in G
    BY <1>1, <1>4
<1>7. Cardinality(popped) + 1 \in Int /\ Len(q) \in Int
    BY <1>1, <1>4
<1> QED BY <1>5, <1>6, <1>7, SubSeqProperties

LEMMA Numbered ==
    ASSUME NEW G, NEW c \in Channel(G)
    PROVE  LET d == [c EXCEPT !.next = @ + 1]
           IN  /\ d \in Channel(G) /\ d.next = c.next + 1
               /\ d.buffer = c.buffer /\ d.outgoing = c.outgoing /\ d.maxReceived = c.maxReceived
BY DEF Channel

LEMMA PostKeeps ==
    ASSUME NEW G, NEW c \in Channel(G), NEW kind, NEW re,
           Envelope(kind, c.next, re, c.maxReceived) \in G
    PROVE  /\ Post(c, kind, re) \in Channel(G) /\ Post(c, kind, re).next = c.next + 1
           /\ Post(c, kind, re).outgoing = Append(c.outgoing, Envelope(kind, c.next, re, c.maxReceived))
<1> DEFINE e == Envelope(kind, c.next, re, c.maxReceived)
           d == [c EXCEPT !.next = @ + 1]
           b == Append(c.buffer, e)
           o == Append(c.outgoing, e)
<1>1. b \in Seq(G) /\ o \in Seq(G)
    BY AppendProperties DEF Channel
<1>2. d \in Channel(G) /\ d.next = c.next + 1
    BY Numbered
<1>3. Post(c, kind, re) = [d EXCEPT !.buffer = b, !.outgoing = o]
    BY DEF Post
<1> HIDE DEF e, b, o, d
<1>4. [d EXCEPT !.buffer = b] \in Channel(G) /\ [d EXCEPT !.buffer = b].next = c.next + 1
    BY <1>1, <1>2 DEF Channel
<1> DEFINE f == [d EXCEPT !.buffer = b]
<1>5. Post(c, kind, re) = [f EXCEPT !.outgoing = o]
    BY <1>3
<1> HIDE DEF f
<1>6. f \in Channel(G) /\ f.next = c.next + 1
    BY <1>4 DEF f
<1>7. Post(c, kind, re) \in Channel(G) /\ Post(c, kind, re).next = c.next + 1
          /\ Post(c, kind, re).outgoing = o
    BY <1>1, <1>5, <1>6 DEF Channel
<1> QED BY <1>7 DEF o, e

LEMMA BufferedKeeps ==
    ASSUME NEW G, NEW c \in Channel(G), NEW e, [e EXCEPT !.ack = c.maxReceived] \in G
    PROVE  /\ Buffered(c, e) \in Channel(G) /\ Buffered(c, e).next = c.next
           /\ Buffered(c, e).outgoing = c.outgoing
           /\ Last(Buffered(c, e).buffer) = [e EXCEPT !.ack = c.maxReceived]
<1>1. c.buffer \in Seq(G)
    BY DEF Channel
<1> DEFINE b == Append(c.buffer, [e EXCEPT !.ack = c.maxReceived])
<1>2. b \in Seq(G) /\ b[Len(b)] = [e EXCEPT !.ack = c.maxReceived]
    BY <1>1, AppendProperties
<1>3. Buffered(c, e) = [c EXCEPT !.buffer = b]
    BY DEF Buffered
<1> HIDE DEF b
<1>4. /\ Buffered(c, e) \in Channel(G) /\ Buffered(c, e).next = c.next
      /\ Buffered(c, e).buffer = b /\ Buffered(c, e).outgoing = c.outgoing
    BY <1>2, <1>3 DEF Channel
<1> QED BY <1>2, <1>4 DEF Last

LEMMA AckKeeps ==
    ASSUME NEW G, NEW c \in Channel(G), NEW id, Envelope("ack", c.next, id, None) \in G
    PROVE  /\ Ack(c, id) \in Channel(G) /\ Ack(c, id).next = c.next + 1
           /\ Ack(c, id).outgoing = Append(c.outgoing, Envelope("ack", c.next, id, None))
<1> DEFINE o == Append(c.outgoing, Envelope("ack", c.next, id, None))
<1>1. o \in Seq(G)
    BY AppendProperties DEF Channel
<1> DEFINE d == [c EXCEPT !.next = @ + 1]
<1>2. Ack(c, id) = [d EXCEPT !.outgoing = o]
    BY DEF Ack
<1>3. d \in Channel(G) /\ d.next = c.next + 1
    BY Numbered
<1> HIDE DEF o, d
<1>4. Ack(c, id) \in Channel(G) /\ Ack(c, id).next = c.next + 1 /\ Ack(c, id).outgoing = o
    BY <1>1, <1>2, <1>3 DEF Channel
<1> QED BY <1>4 DEF o

LEMMA ResendKeeps ==
    ASSUME NEW G, NEW c \in Channel(G)
    PROVE  Resend(c) \in Channel(G) /\ Resend(c).next = c.next
BY ConcatProperties DEF Resend, Channel

LEMMA FlushKeeps ==
    ASSUME NEW G, NEW c \in Channel(G), Envelope("flush", c.next, None, c.maxReceived) \in G
    PROVE  Flush(c) \in Channel(G) /\ Flush(c).next = c.next + 1
<1> DEFINE o == Append(c.outgoing, Envelope("flush", c.next, None, c.maxReceived))
<1>1. o \in Seq(G)
    BY AppendProperties DEF Channel
<1> DEFINE d == [c EXCEPT !.next = @ + 1]
<1>2. Flush(c) = [d EXCEPT !.outgoing = o]
    BY DEF Flush
<1>3. d \in Channel(G) /\ d.next = c.next + 1
    BY Numbered
<1> HIDE DEF o, d
<1> QED BY <1>1, <1>2, <1>3 DEF Channel

-----------------------------------------------------------------------------
(* The parts of a step that most actions share.                             *)

LEMMA Known ==
    ASSUME Core
    PROVE  /\ Nexts \in [Peers -> Nat]
           /\ \A p \in Peers :
                 /\ Nexts[p] = ch[p].next /\ ch[p].next \in Nat /\ ch[p].maxReceived \in Nat
                 /\ ch[p].buffer \in Seq(EnvelopeType) /\ ch[p].outgoing \in Seq(EnvelopeType)
                 /\ ch[p] \in Channel(Sound(p, Nexts, waiting))
                 /\ wire[p] \in Seq(Sound(p, Nexts, waiting))
                 /\ \A r \in waiting[p] : /\ r.id \in 1 .. ch[p].next - 1
                                          /\ r.kind \in {"request", "flush"}
<1>1. \A p \in Peers : ch[p] \in Channel(EnvelopeType)
    BY DEF Core
<1>2. \A p \in Peers : Nexts[p] = ch[p].next /\ ch[p].next \in Nat
    BY <1>1 DEF Nexts, Channel
<1>3. Nexts \in [Peers -> Nat]
    BY <1>2 DEF Nexts
<1>4. \A p \in Peers : \A r \in waiting[p] : r.id \in 1 .. ch[p].next - 1 /\ r.kind \in {"request", "flush"}
    BY <1>2 DEF Core, Waiters
<1> QED BY <1>1, <1>2, <1>3, <1>4 DEF Core, Supply, Channel

\* At p w waits: what waited before, or something new.
Joins(p, w) == \A r \in w : r \in waiting[p] \/ r.id >= ch[p].next

NextsAt(p, k) == [Nexts EXCEPT ![p] = k]

WaitersAt(p, w) == [waiting EXCEPT ![p] = w]

\* p has given out k ids and w waits there: what was sound is still.
LEMMA Renewed ==
    ASSUME Core, NEW p \in Peers, NEW k \in Nat, ch[p].next <= k,
           NEW w, Joins(p, w)
    PROVE  /\ NextsAt(p, k) \in [Peers -> Nat] /\ NextsAt(p, k)[p] = k /\ WaitersAt(p, w)[p] = w
           /\ \A q \in Peers : Nexts[q] <= NextsAt(p, k)[q]
           /\ \A q \in Peers : q # p => NextsAt(p, k)[q] = Nexts[q] /\ WaitersAt(p, w)[q] = waiting[q]
           /\ Later(Nexts, waiting, NextsAt(p, k), WaitersAt(p, w))
           /\ ch[p] \in Channel(Sound(p, NextsAt(p, k), WaitersAt(p, w)))
<1> DEFINE m == NextsAt(p, k)
           v == WaitersAt(p, w)
<1>1. Nexts \in [Peers -> Nat] /\ \A q \in Peers : Nexts[q] = ch[q].next /\ ch[q].next \in Nat
    BY Known
<1>2. /\ m \in [Peers -> Nat] /\ m[p] = k /\ v[p] = w
      /\ \A q \in Peers : q # p => m[q] = Nexts[q] /\ v[q] = waiting[q]
    BY <1>1 DEF Core, NextsAt, WaitersAt
<1> HIDE DEF m, v
<1>3. \A q \in Peers : Nexts[q] <= m[q]
    BY <1>1, <1>2
<1>4. Later(Nexts, waiting, m, v)
    BY <1>1, <1>2, <1>3 DEF Later, Joins
<1>5. ch[p] \in Channel(Sound(p, m, v))
    BY <1>1, <1>2, <1>4, Grown, Known
<1> QED BY <1>2, <1>3, <1>4, <1>5 DEF m, v

\* What is left of Core when the ChannelClients and the waiters have moved on.
Moved ==
    /\ ch' \in [Peers -> Channel(EnvelopeType)]
    /\ Supply(ch', wire, Nexts', waiting')
    /\ waiting' \in [Peers -> SUBSET [id : Nat, kind : {"request", "flush"}]]
    /\ \A p \in Peers : waiting'[p] \subseteq Waiters(ch'[p].next)
    /\ \A p \in Peers : todo[p] \in Tasks(p, Nexts', waiting')

\* One ChannelClient changes, to x.
LEMMA OneChannel ==
    ASSUME Core, NEW p \in Peers, NEW k \in Nat, ch[p].next <= k,
           NEW w, Joins(p, w), w \subseteq Waiters(k),
           NEW x \in Channel(Sound(p, NextsAt(p, k), WaitersAt(p, w))), x.next = k,
           ch' = [ch EXCEPT ![p] = x], waiting' = WaitersAt(p, w)
    PROVE  Moved /\ Nexts' = NextsAt(p, k)
<1> DEFINE m == NextsAt(p, k)
           v == WaitersAt(p, w)
<1>1. /\ m \in [Peers -> Nat] /\ m[p] = k /\ v[p] = w
      /\ \A q \in Peers : q # p => m[q] = Nexts[q] /\ v[q] = waiting[q]
      /\ Later(Nexts, waiting, m, v)
    BY Renewed
<1>2. ch' = [ch EXCEPT ![p] = x] /\ waiting' = v /\ x \in Channel(Sound(p, m, v)) /\ x.next = k
    OBVIOUS
<1>3. Nexts' = m
    BY <1>2, Known DEF Core, Nexts, NextsAt
<1> HIDE DEF m, v
<1>4. x \in Channel(EnvelopeType)
    BY <1>2, SoundTyped, ChannelMonotonic
<1>5. ch' \in [Peers -> Channel(EnvelopeType)]
    BY <1>2, <1>4 DEF Core
<1>6. Nexts \in [Peers -> Nat] /\ Supply(ch, wire, m, v)
    BY <1>1, Known, SupplyLasts DEF Core
<1>7. Supply(ch', wire, m, v)
    BY <1>2, <1>6 DEF Supply, Core
<1>8. \A q \in Peers : todo[q] \in Tasks(q, m, v)
    BY <1>1, <1>6, Grown DEF Core
<1>9. \A q \in Peers : waiting'[q] \subseteq Waiters(ch'[q].next)
    <2> TAKE q \in Peers
    <2>1. CASE q = p
        BY <1>1, <1>2, <2>1 DEF Core
    <2>2. CASE q # p
        BY <1>1, <1>2, <2>2 DEF Core
    <2> QED BY <2>1, <2>2
<1>10. w \in SUBSET [id : Nat, kind : {"request", "flush"}]
    BY DEF Waiters
<1>11. waiting' \in [Peers -> SUBSET [id : Nat, kind : {"request", "flush"}]]
    BY <1>10 DEF Core, WaitersAt
<1> QED BY <1>1, <1>2, <1>3, <1>5, <1>7, <1>8, <1>9, <1>11 DEF Moved, m

\* ... and nobody begins or stops waiting.
LEMMA SameWaiters ==
    ASSUME Core, NEW p \in Peers
    PROVE  /\ WaitersAt(p, waiting[p]) = waiting /\ NextsAt(p, ch[p].next) = Nexts
           /\ Joins(p, waiting[p])
           /\ \A k \in Nat : ch[p].next <= k => waiting[p] \subseteq Waiters(k)
<1>1. Nexts \in [Peers -> Nat] /\ ch[p].next \in Nat /\ Nexts[p] = ch[p].next
    BY Known
<1>2. waiting[p] \subseteq Waiters(ch[p].next)
    BY DEF Core
<1>3. \A k \in Nat : ch[p].next <= k => waiting[p] \subseteq Waiters(k)
    BY <1>1, <1>2 DEF Waiters
<1> QED BY <1>1, <1>3 DEF Core, WaitersAt, NextsAt, Joins

\* One ChannelClient changes and gives out no id.
LEMMA QuietChannel ==
    ASSUME Core, NEW p \in Peers, NEW x \in Channel(Sound(p, Nexts, waiting)), x.next = ch[p].next,
           ch' = [ch EXCEPT ![p] = x], waiting' = waiting
    PROVE  Moved /\ Nexts' = Nexts
<1>1. /\ WaitersAt(p, waiting[p]) = waiting /\ NextsAt(p, ch[p].next) = Nexts
      /\ ch[p].next \in Nat /\ ch[p].next <= ch[p].next /\ waiting[p] \subseteq Waiters(ch[p].next)
      /\ Joins(p, waiting[p])
    BY Known, SameWaiters
<1>2. /\ x \in Channel(Sound(p, NextsAt(p, ch[p].next), WaitersAt(p, waiting[p])))
      /\ waiting' = WaitersAt(p, waiting[p])
    BY <1>1
<1> QED BY <1>1, <1>2, OneChannel

\* One wire changes.
LEMMA OneWire ==
    ASSUME NEW n, NEW w, NEW c, NEW r \in [Peers -> Seq(EnvelopeType)], Supply(c, r, n, w),
           NEW p \in Peers, NEW q \in Seq(Sound(p, n, w))
    PROVE  /\ [r EXCEPT ![p] = q] \in [Peers -> Seq(EnvelopeType)]
           /\ Supply(c, [r EXCEPT ![p] = q], n, w)
<1>1. q \in Seq(EnvelopeType)
    BY SoundTyped, SeqMonotonic
<1> QED BY <1>1 DEF Supply

LEMMA Spent ==
    ASSUME NEW b \in [client : Nat, server : Nat, drops : Nat], NEW p \in Peers, b[p] > 0
    PROVE  /\ [b EXCEPT ![p] = @ - 1] \in [client : Nat, server : Nat, drops : Nat]
           /\ [b EXCEPT ![p] = @ - 1].drops = b.drops
<1>1. CASE p = "client"
    BY <1>1
<1>2. CASE p = "server"
    BY <1>2
<1> QED BY <1>1, <1>2 DEF Peers

-----------------------------------------------------------------------------
(* One lemma per action: what it leaves is sound and typed.                 *)

\* What is left of Core when the handlers' requests are the same.
LEMMA CoreMoved ==
    ASSUME Core, Moved, todo' = todo, answers' = answers,
           wire' \in [Peers -> Seq(EnvelopeType)], Supply(ch', wire', Nexts', waiting'),
           work' \in [Peers -> [Threads -> Works]],
           state' \in {"connecting", "started", "connected", "swapped", "resyncing"},
           flushId' \in Nat \cup {None}, link' \in {"up", "down"},
           budget' \in [client : Nat, server : Nat, drops : Nat],
           posted' \in [Peers -> SUBSET Nat], received' \in [Peers -> Seq(Nat)]
    PROVE  Core'
BY DEF Core, Moved, AnswersMatch

\* Sending is for one who knows its peer.
LEMMA SenderBegun ==
    ASSUME Inv, NEW p \in Peers, NEW kind, MaySend(p, kind)
    PROVE  /\ p = "client" => state # "connecting" /\ ch[p].next >= 1
           /\ kind = "request" => ch[p].next >= 1 /\ ch["client"].next >= 1
           /\ budget[p] > 0
<1>1. ch["client"].next \in Nat /\ ch["server"].next \in Nat /\ ch["server"].maxReceived \in Nat
    BY Known, PeersKnown DEF Inv
<1> QED BY <1>1 DEF MaySend, Inv, Begun, Peers

LEMMA ForegroundStep ==
    ASSUME Inv, NEW p \in Peers, NEW kind \in {"send", "request"}, SendForeground(p, kind)
    PROVE  Core'
<1> DEFINE k == ch[p].next + 1
           w == waiting[p] \cup {r \in {[id |-> ch[p].next, kind |-> kind]} : kind = "request"}
           m == NextsAt(p, k)
           v == WaitersAt(p, w)
           e == Envelope(kind, ch[p].next, None, ch[p].maxReceived)
           x == Post(ch[p], kind, None)
<1>1. /\ ch' = [ch EXCEPT ![p] = x] /\ waiting' = v /\ MaySend(p, kind)
      /\ posted' = [posted EXCEPT ![p] = @ \cup {ch[p].next}]
      /\ budget' = [budget EXCEPT ![p] = @ - 1]
      /\ UNCHANGED <<wire, work, todo, state, flushId, link, received, answers>>
    BY DEF SendForeground, WaitersAt
<1>2. /\ p = "client" => ch[p].next >= 1
      /\ kind = "request" => ch[p].next >= 1 /\ ch["client"].next >= 1
      /\ budget[p] > 0
    BY <1>1, SenderBegun
<1>3. /\ ch[p].next \in Nat /\ ch[p].maxReceived \in Nat /\ k \in Nat /\ ch[p].next <= k
      /\ Nexts["client"] = ch["client"].next /\ ch["client"].next \in Nat
      /\ \A r \in waiting[p] : r.id \in 1 .. ch[p].next - 1 /\ r.kind \in {"request", "flush"}
    BY Known, PeersKnown DEF Inv
<1>4. Joins(p, w)
    BY <1>3 DEF Joins
<1>5. w \subseteq Waiters(k)
    <2>1. \A r \in w : r \in waiting[p] \/ (r = [id |-> ch[p].next, kind |-> kind] /\ kind = "request")
        OBVIOUS
    <2>2. waiting[p] \subseteq Waiters(k)
        BY <1>3, SameWaiters DEF Inv
    <2> QED BY <1>2, <1>3, <2>1, <2>2 DEF Waiters
<1>6. ch[p].next \in Belonging(kind, k, w) \/ kind # "request"
    BY <1>3 DEF Belonging
<1> HIDE DEF k, w
<1>7. /\ m[p] = k /\ v[p] = w /\ m["client"] >= ch["client"].next /\ m["client"] \in Nat
      /\ ch[p] \in Channel(Sound(p, m, v))
    BY <1>3, <1>4, Renewed, PeersKnown DEF Inv
<1>8. e \in Sound(p, m, v)
    <2>1. e \in EnvelopeType /\ e.kind = kind /\ e.re = None /\ e.id = ch[p].next
        BY <1>3, EnvelopeTyped DEF Envelope
    <2>2. kind = "request" => m["client"] >= 1 /\ e.id \in Belonging("request", m[p], v[p])
        BY <1>2, <1>3, <1>6, <1>7, <2>1
    <2>3. m[p] >= 1
        BY <1>3, <1>7 DEF k
    <2> HIDE DEF e, m, v
    <2> QED BY <2>1, <2>2, <2>3 DEF Sound
<1>9. x \in Channel(Sound(p, m, v)) /\ x.next = k
    BY <1>7, <1>8, PostKeeps DEF k
<1> HIDE DEF x
<1>10. Moved
    BY <1>1, <1>3, <1>4, <1>5, <1>9, OneChannel DEF Inv
<1>11. budget' \in [client : Nat, server : Nat, drops : Nat]
    BY <1>1, <1>2, Spent DEF Inv, Core
<1>12. posted' \in [Peers -> SUBSET Nat]
    BY <1>1, <1>3 DEF Inv, Core
<1> QED BY <1>1, <1>10, <1>11, <1>12, CoreMoved DEF Inv, Core, Moved

LEMMA RespondStep == ASSUME Core, NEW p \in Peers, Respond(p) PROVE Core'
<1> DEFINE k == ch[p].next + 1
           m == NextsAt(p, k)
           j == Head(todo[p])
           e == Envelope("response", ch[p].next, j, ch[p].maxReceived)
           x == Post(ch[p], "response", j)
<1>1. /\ ch' = [ch EXCEPT ![p] = x] /\ todo[p] # <<>> /\ todo' = [todo EXCEPT ![p] = Tail(@)]
      /\ posted' = [posted EXCEPT ![p] = @ \cup {ch[p].next}]
      /\ UNCHANGED <<wire, work, waiting, state, flushId, link, budget, received, answers>>
    BY DEF Respond
<1>2. /\ ch[p].next \in Nat /\ ch[p].maxReceived \in Nat /\ k \in Nat /\ ch[p].next <= k
      /\ WaitersAt(p, waiting[p]) = waiting /\ Joins(p, waiting[p]) /\ waiting[p] \subseteq Waiters(k)
    BY Known, SameWaiters
<1>3. j \in Nat
    BY <1>1, HeadTailProperties DEF Core
<1> HIDE DEF k
<1>4. m \in [Peers -> Nat] /\ m[p] = k /\ Later(Nexts, waiting, m, waiting) /\ ch[p] \in Channel(Sound(p, m, waiting))
    BY <1>2, Renewed
<1>5. todo[p] \in Tasks(p, m, waiting)
    BY <1>4, Known, Grown DEF Core
<1>6. j \in Belonging("request", m[Other(p)], waiting[Other(p)]) /\ Tail(todo[p]) \in Tasks(p, m, waiting)
    BY <1>1, <1>5, HeadTailProperties DEF Tasks
<1>7. e \in Sound(p, m, waiting)
    <2>1. e \in EnvelopeType /\ e.kind = "response" /\ e.re = j
        BY <1>2, <1>3, EnvelopeTyped DEF Envelope
    <2>2. m[p] >= 1
        BY <1>2, <1>4 DEF k
    <2> HIDE DEF e, m, j
    <2> QED BY <1>6, <2>1, <2>2 DEF Sound
<1>8. x \in Channel(Sound(p, m, waiting)) /\ x.next = k
    BY <1>4, <1>7, PostKeeps DEF k
<1> HIDE DEF x, j
<1>9. Moved /\ Nexts' = m
    <2>1. waiting' = WaitersAt(p, waiting[p]) /\ x \in Channel(Sound(p, m, WaitersAt(p, waiting[p])))
        BY <1>1, <1>2, <1>8
    <2> QED BY <1>1, <1>2, <1>8, <2>1, OneChannel
<1>10. todo' \in [Peers -> Seq(Nat)]
    <2>1. Tail(todo[p]) \in Seq(Nat)
        BY <1>1, HeadTailProperties DEF Core
    <2> QED BY <1>1, <2>1 DEF Core
<1> HIDE DEF m
<1>11. \A q \in Peers : todo'[q] \in Tasks(q, Nexts', waiting')
    <2> TAKE q \in Peers
    <2>1. CASE q = p
        BY <1>1, <1>6, <1>9, <2>1 DEF Core
    <2>2. CASE q # p
        BY <1>1, <1>9, <2>2 DEF Core, Moved
    <2> QED BY <2>1, <2>2
<1>12. posted' \in [Peers -> SUBSET Nat]
    BY <1>1, <1>2 DEF Core
<1> QED BY <1>1, <1>9, <1>10, <1>11, <1>12 DEF Core, Moved, AnswersMatch

LEMMA NumberStep ==
    ASSUME Inv, NEW p \in Peers, NEW t \in Threads, BackgroundNumber(p, t)
    PROVE  Core'
<1> DEFINE k == ch[p].next + 1
           m == NextsAt(p, k)
           x == [ch[p] EXCEPT !.next = @ + 1]
           e == Envelope("send", ch[p].next, None, None)
<1>1. /\ ch' = [ch EXCEPT ![p] = x] /\ work' = [work EXCEPT ![p][t] = <<e>>]
      /\ MaySend(p, "send") /\ budget' = [budget EXCEPT ![p] = @ - 1]
      /\ UNCHANGED <<wire, waiting, todo, state, flushId, link, posted, received, answers>>
    BY DEF BackgroundNumber
<1>2. /\ ch[p].next \in Nat /\ k \in Nat /\ ch[p].next <= k /\ Core
      /\ WaitersAt(p, waiting[p]) = waiting /\ Joins(p, waiting[p]) /\ waiting[p] \subseteq Waiters(k)
    BY Known, SameWaiters DEF Inv
<1>3. budget[p] > 0
    BY <1>1, SenderBegun
<1>4. ch[p] \in Channel(Sound(p, m, waiting))
    <2> HIDE DEF k
    <2> QED BY <1>2, Renewed
<1>5. x \in Channel(Sound(p, m, waiting)) /\ x.next = k
    BY <1>4, Numbered
<1>6. e \in Sends
    BY <1>2, EnvelopeTyped DEF Sends, Envelope
<1> HIDE DEF x, e, k
<1>7. Moved
    <2>1. waiting' = WaitersAt(p, waiting[p]) /\ x \in Channel(Sound(p, m, WaitersAt(p, waiting[p])))
        BY <1>1, <1>2, <1>5
    <2> QED BY <1>1, <1>2, <1>5, <2>1, OneChannel
<1>8. budget' \in [client : Nat, server : Nat, drops : Nat]
    BY <1>1, <1>2, <1>3, Spent DEF Core
<1>9. work' \in [Peers -> [Threads -> Works]]
    BY <1>1, <1>2, <1>6 DEF Core, Works
<1> QED BY <1>1, <1>2, <1>7, <1>8, <1>9, CoreMoved DEF Core, Moved

\* The envelope in the hands of a background thread.
LEMMA InHand ==
    ASSUME Inv, NEW p \in Peers, NEW t \in Threads, work[p][t] # <<>>
    PROVE  \E e \in Sends : work[p][t] = <<e>> /\ Head(work[p][t]) = e /\ e \in Sound(p, Nexts, waiting)
<1>1. work[p][t] \in Works
    BY DEF Inv, Core
<1>2. PICK e \in Sends : work[p][t] = <<e>> /\ Head(work[p][t]) = e
    BY <1>1 DEF Works
<1>3. Nexts[p] >= 1
    BY Known DEF Inv, Begun
<1> QED BY <1>2, <1>3, SendsSound

LEMMA BufferStep ==
    ASSUME Inv, NEW p \in Peers, NEW t \in Threads, BackgroundBuffer(p, t)
    PROVE  Core'
<1>1. PICK e \in Sends : work[p][t] = <<e>> /\ Head(work[p][t]) = e
    BY InHand DEF BackgroundBuffer
<1> DEFINE x == Buffered(ch[p], e)
           f == [e EXCEPT !.ack = ch[p].maxReceived]
<1>2. /\ ch' = [ch EXCEPT ![p] = x] /\ work' = [work EXCEPT ![p][t] = <<Last(ch'[p].buffer)>>]
      /\ posted' = [posted EXCEPT ![p] = @ \cup {e.id}] /\ work[p][t] # <<>>
      /\ UNCHANGED <<wire, waiting, todo, state, flushId, link, budget, received, answers>>
    BY <1>1 DEF BackgroundBuffer
<1>3. ch[p].maxReceived \in Nat /\ ch[p] \in Channel(Sound(p, Nexts, waiting)) /\ Core /\ Nexts[p] >= 1
    BY <1>2, Known DEF Inv, Begun
<1>4. f \in Sends
    BY <1>3 DEF Sends, EnvelopeType
<1>5. f \in Sound(p, Nexts, waiting)
    BY <1>3, <1>4, SendsSound
<1>6. x \in Channel(Sound(p, Nexts, waiting)) /\ x.next = ch[p].next /\ Last(x.buffer) = f
    BY <1>3, <1>5, BufferedKeeps
<1> HIDE DEF x, f
<1>7. Moved
    BY <1>2, <1>3, <1>6, QuietChannel
<1>8. work' \in [Peers -> [Threads -> Works]]
    <2>1. ch'[p] = x
        BY <1>2, <1>3 DEF Core
    <2>2. work' = [work EXCEPT ![p][t] = <<f>>]
        BY <1>2, <1>6, <2>1
    <2> QED BY <2>2, <1>3, <1>4 DEF Core, Works
<1>9. posted' \in [Peers -> SUBSET Nat]
    BY <1>2, <1>3 DEF Core, Sends, EnvelopeType
<1> QED BY <1>2, <1>3, <1>7, <1>8, <1>9, CoreMoved DEF Core, Moved

LEMMA QueueStep ==
    ASSUME Inv, NEW p \in Peers, NEW t \in Threads, BackgroundQueue(p, t)
    PROVE  Core'
<1> DEFINE o == ch[p].outgoing \o work[p][t]
           x == [ch[p] EXCEPT !.outgoing = o]
           G == Sound(p, Nexts, waiting)
<1>1. PICK e \in Sends : work[p][t] = <<e>> /\ e \in G
    BY InHand DEF BackgroundQueue
<1>2. /\ ch' = [ch EXCEPT ![p] = x] /\ work' = [work EXCEPT ![p][t] = <<>>]
      /\ UNCHANGED <<wire, waiting, todo, state, flushId, link, budget, posted, received, answers>>
    BY DEF BackgroundQueue
<1>3. ch[p] \in Channel(G) /\ Core
    BY Known DEF Inv
<1>4. o \in Seq(G)
    <2>1. <<e>> \in Seq(G)
        BY <1>1
    <2> QED BY <1>1, <1>3, <2>1, ConcatProperties DEF Channel
<1> HIDE DEF o
<1>5. x \in Channel(G) /\ x.next = ch[p].next
    BY <1>3, <1>4 DEF Channel
<1> HIDE DEF x
<1>6. Moved
    BY <1>2, <1>3, <1>5, QuietChannel
<1>7. work' \in [Peers -> [Threads -> Works]]
    BY <1>2, <1>3 DEF Core, Works
<1> QED BY <1>2, <1>3, <1>6, <1>7, CoreMoved DEF Core, Moved

LEMMA TransmitStep == ASSUME Core, NEW p \in Peers, Transmit(p) PROVE Core'
<1> DEFINE x == [ch[p] EXCEPT !.outgoing = Tail(@)]
           q == Append(wire[p], Head(ch[p].outgoing))
           G == Sound(p, Nexts, waiting)
<1>1. /\ ch' = [ch EXCEPT ![p] = x] /\ wire' = [wire EXCEPT ![p] = q] /\ ch[p].outgoing # <<>>
      /\ UNCHANGED <<work, waiting, todo, state, flushId, link, budget, posted, received, answers>>
    BY DEF Transmit
<1>2. ch[p] \in Channel(G) /\ wire[p] \in Seq(G)
    BY Known
<1>3. Head(ch[p].outgoing) \in G /\ Tail(ch[p].outgoing) \in Seq(G)
    BY <1>1, <1>2, HeadTailProperties DEF Channel
<1>4. q \in Seq(G)
    BY <1>2, <1>3, AppendProperties
<1>5. x \in Channel(G) /\ x.next = ch[p].next
    BY <1>2, <1>3 DEF Channel
<1> HIDE DEF x, q
<1>6. Moved /\ Nexts' = Nexts
    BY <1>1, <1>5, QuietChannel
<1>7. wire' \in [Peers -> Seq(EnvelopeType)] /\ Supply(ch', wire', Nexts, waiting)
    BY <1>1, <1>4, <1>6, OneWire DEF Core, Moved
<1> QED BY <1>1, <1>6, <1>7, CoreMoved DEF Core

LEMMA DisconnectStep == ASSUME Core, Disconnect PROVE Core'
<1>1. PICK i \in 0 .. Len(wire["client"]), j \in 0 .. Len(wire["server"]) :
          wire' = [client |-> SubSeq(wire["client"], 1, i), server |-> SubSeq(wire["server"], 1, j)]
    BY DEF Disconnect
<1>2. /\ link' = "down" /\ budget' = [budget EXCEPT !.drops = @ - 1] /\ budget.drops > 0
      /\ UNCHANGED <<ch, work, waiting, todo, state, flushId, posted, received, answers>>
    BY DEF Disconnect
<1>3. ASSUME NEW p \in Peers, NEW k \in 0 .. Len(wire[p])
      PROVE  SubSeq(wire[p], 1, k) \in Seq(Sound(p, Nexts, waiting))
    <2>1. wire[p] \in Seq(Sound(p, Nexts, waiting))
        BY Known
    <2>2. Len(wire[p]) \in Nat /\ \A l \in 1 .. Len(wire[p]) : wire[p][l] \in Sound(p, Nexts, waiting)
        BY <2>1, LenProperties, ElementOfSeq
    <2>3. \A l \in 1 .. k : wire[p][l] \in Sound(p, Nexts, waiting)
        BY <2>2
    <2> QED BY <2>3, SubSeqProperties
<1>4. \A p \in Peers : wire'[p] \in Seq(Sound(p, Nexts, waiting))
    <2>1. wire'["client"] \in Seq(Sound("client", Nexts, waiting))
        BY <1>1, <1>3, PeersKnown
    <2>2. wire'["server"] \in Seq(Sound("server", Nexts, waiting))
        BY <1>1, <1>3, PeersKnown
    <2> QED BY <2>1, <2>2 DEF Peers
<1>5. \A p \in Peers : wire'[p] \in Seq(EnvelopeType)
    BY <1>4, SoundTyped, SeqMonotonic
<1>6. wire' \in [Peers -> Seq(EnvelopeType)]
    BY <1>1, <1>5 DEF Peers
<1>7. Supply(ch, wire', Nexts, waiting)
    BY <1>4 DEF Core, Supply
<1>8. budget' \in [client : Nat, server : Nat, drops : Nat]
    <2>1. budget \in [client : Nat, server : Nat, drops : Nat]
        BY DEF Core
    <2>2. budget.drops - 1 \in Nat
        BY <1>2, <2>1
    <2> QED BY <1>2, <2>1, <2>2
<1>9. Nexts' = Nexts
    BY <1>2 DEF Nexts
<1> QED BY <1>2, <1>6, <1>7, <1>8, <1>9 DEF Core, AnswersMatch

LEMMA LoseWriteStep == ASSUME Core, LoseWrite PROVE Core'
<1> DEFINE x == [ch["server"] EXCEPT !.outgoing = Tail(@)]
           G == Sound("server", Nexts, waiting)
<1>1. /\ ch' = [ch EXCEPT !["server"] = x] /\ ch["server"].outgoing # <<>>
      /\ UNCHANGED <<wire, work, waiting, todo, state, flushId, link, budget, posted, received, answers>>
    BY DEF LoseWrite
<1>2. ch["server"] \in Channel(G)
    BY Known, PeersKnown
<1>3. Tail(ch["server"].outgoing) \in Seq(G)
    BY <1>1, <1>2, HeadTailProperties DEF Channel
<1>4. x \in Channel(G) /\ x.next = ch["server"].next
    BY <1>2, <1>3 DEF Channel
<1> HIDE DEF x
<1>5. Moved
    BY <1>1, <1>4, PeersKnown, QuietChannel
<1> QED BY <1>1, <1>5, CoreMoved DEF Core, Moved

LEMMA ReconnectStep == ASSUME Core, Reconnect PROVE Core'
<1> DEFINE x == [ch["client"] EXCEPT !.outgoing = <<>>]
<1>1. /\ ch' = [ch EXCEPT !["client"] = x] /\ wire' = [wire EXCEPT !["server"] = <<>>]
      /\ state \in {"connected", "resyncing"} /\ state' = "swapped" /\ link' = "up"
      /\ UNCHANGED <<work, waiting, todo, flushId, budget, posted, received, answers>>
    BY DEF Reconnect
<1>2. ch["client"] \in Channel(Sound("client", Nexts, waiting))
    BY Known, PeersKnown
<1>3. \A p : <<>> \in Seq(Sound(p, Nexts, waiting))
    BY EmptySeq
<1>4. x \in Channel(Sound("client", Nexts, waiting)) /\ x.next = ch["client"].next
    BY <1>2, <1>3 DEF Channel
<1> HIDE DEF x
<1>5. Moved /\ Nexts' = Nexts
    BY <1>1, <1>4, PeersKnown, QuietChannel
<1>6. wire' \in [Peers -> Seq(EnvelopeType)] /\ Supply(ch', wire', Nexts, waiting)
    BY <1>1, <1>3, <1>5, PeersKnown, OneWire DEF Core, Moved
<1> QED BY <1>1, <1>5, <1>6, CoreMoved DEF Core

LEMMA ResyncStep == ASSUME Inv, Resync PROVE Core'
<1> DEFINE n == ch["client"].next
           k == n + 1
           w == waiting["client"] \cup {[id |-> n, kind |-> "flush"]}
           m == NextsAt("client", k)
           v == WaitersAt("client", w)
           G == Sound("client", m, v)
           f == Flush(ch["client"])
           x == [f EXCEPT !.outgoing = Append(@, Started)]
           e == Envelope("flush", n, None, ch["client"].maxReceived)
<1>1. /\ ch' = [ch EXCEPT !["client"] = x] /\ waiting' = v /\ flushId' = n
      /\ state = "swapped" /\ state' = "resyncing"
      /\ UNCHANGED <<wire, work, todo, link, budget, posted, received, answers>>
    BY DEF Resync, WaitersAt
<1>2. /\ n \in Nat /\ "client" \in Peers /\ ch["client"].maxReceived \in Nat /\ k \in Nat /\ n <= k
      /\ \A r \in waiting["client"] : r.id \in 1 .. n - 1 /\ r.kind \in {"request", "flush"}
      /\ Core
    BY Known, PeersKnown DEF Inv
<1>3. n >= 1
    BY <1>1, <1>2 DEF Inv, Begun
<1>4. Joins("client", w)
    BY <1>2 DEF Joins
<1>5. w \subseteq Waiters(k)
    <2>1. waiting["client"] \subseteq Waiters(k)
        BY <1>2, SameWaiters
    <2> QED BY <1>2, <1>3, <2>1 DEF Waiters
<1>6. n \in Belonging("flush", k, w)
    BY <1>2 DEF Belonging
<1> HIDE DEF k, w
<1>7. m["client"] = k /\ v["client"] = w /\ ch["client"] \in Channel(G)
    BY <1>2, <1>4, Renewed
<1>8. e \in G
    <2>1. e \in EnvelopeType /\ e.kind = "flush" /\ e.id = n
        BY <1>2, EnvelopeTyped DEF Envelope
    <2>2. m["client"] >= 1
        BY <1>2, <1>7 DEF k
    <2> HIDE DEF e, m, v, n
    <2> QED BY <1>6, <1>7, <2>1, <2>2 DEF Sound
<1>9. f \in Channel(G) /\ f.next = k
    BY <1>7, <1>8, FlushKeeps DEF k
<1>10. Started \in G
    BY StartedSound
<1>11. x \in Channel(G) /\ x.next = k
    <2> HIDE DEF f, G
    <2>1. Append(f.outgoing, Started) \in Seq(G)
        BY <1>9, <1>10, AppendProperties DEF Channel
    <2> QED BY <2>1, <1>9 DEF Channel
<1> HIDE DEF x
<1>12. Moved
    BY <1>1, <1>2, <1>4, <1>5, <1>11, OneChannel
<1> QED BY <1>1, <1>2, <1>12, CoreMoved DEF Core, Moved

-----------------------------------------------------------------------------
(* The receive loop, with e the head of its input.                          *)

\* What handling an envelope must leave; the wire is Receive's own.
Handled ==
    /\ Moved /\ Nexts' \in [Peers -> Nat] /\ Later(Nexts, waiting, Nexts', waiting')
    /\ todo' \in [Peers -> Seq(Nat)]
    /\ \A p \in Peers : todo'[p] \in Tasks(p, Nexts', waiting')
    /\ state' \in {"connecting", "started", "connected", "swapped", "resyncing"}
    /\ received' \in [Peers -> Seq(Nat)]
    /\ AnswersMatch'

LEMMA AckedKeeps ==
    ASSUME NEW p \in Peers, NEW G, G \subseteq EnvelopeType, ch[p] \in Channel(G), NEW e \in EnvelopeType
    PROVE  /\ Acked(p, e) \in Channel(G) /\ Acked(p, e).next = ch[p].next
           /\ Acked(p, e).outgoing = ch[p].outgoing /\ Acked(p, e).maxReceived = ch[p].maxReceived
<1>1. CASE e.ack = None
    BY <1>1 DEF Acked
<1>2. CASE e.ack # None
    <2> DEFINE b == Trim(ch[p].buffer, e.ack)
    <2>1. b \in Seq(G)
        BY <1>2, TrimKeeps DEF Channel, EnvelopeType
    <2>2. Acked(p, e) = [ch[p] EXCEPT !.buffer = b]
        BY <1>2 DEF Acked
    <2> HIDE DEF b
    <2> QED BY <2>1, <2>2 DEF Channel
<1> QED BY <1>1, <1>2

LEMMA FlushHandled ==
    ASSUME Core, NEW p \in Peers, NEW e \in Sound(Other(p), Nexts, waiting), ReceiveFlush(p, e)
    PROVE  Handled
<1> DEFINE a == Resend(Acked(p, e))
           k == ch[p].next + 1
           m == NextsAt(p, k)
           G == Sound(p, m, waiting)
           x == Ack(a, e.id)
<1>1. /\ e.kind = "flush" /\ ch' = [ch EXCEPT ![p] = x]
      /\ UNCHANGED <<waiting, todo, state, received, answers>>
    BY DEF ReceiveFlush
<1>2. e \in EnvelopeType /\ e.id \in Nat
    BY SoundTyped DEF EnvelopeType
<1>3. e.id \in Belonging("flush", Nexts[Other(p)], waiting[Other(p)])
    BY <1>1 DEF Sound
<1>4. /\ ch[p].next \in Nat /\ k \in Nat /\ ch[p].next <= k
      /\ WaitersAt(p, waiting[p]) = waiting /\ Joins(p, waiting[p]) /\ waiting[p] \subseteq Waiters(k)
      /\ Nexts \in [Peers -> Nat] /\ Other(p) \in Peers /\ Other(p) # p
    <2>1. ch[p].next \in Nat /\ Nexts \in [Peers -> Nat]
        BY Known
    <2>2. Other(p) \in Peers /\ Other(p) # p
        BY DEF Other, Peers
    <2>3. k \in Nat /\ ch[p].next <= k
        BY <2>1
    <2>4. /\ WaitersAt(p, waiting[p]) = waiting /\ Joins(p, waiting[p])
          /\ \A l \in Nat : ch[p].next <= l => waiting[p] \subseteq Waiters(l)
        BY SameWaiters
    <2> HIDE DEF k
    <2> QED BY <2>1, <2>2, <2>3, <2>4
<1> HIDE DEF k
<1>5. /\ m \in [Peers -> Nat] /\ m[p] = k /\ Later(Nexts, waiting, m, waiting) /\ ch[p] \in Channel(G)
      /\ m[Other(p)] = Nexts[Other(p)]
    BY <1>4, Renewed
<1>6. a \in Channel(G) /\ a.next = ch[p].next
    <2>1. Acked(p, e) \in Channel(G) /\ Acked(p, e).next = ch[p].next
        BY <1>2, <1>5, SoundTyped, AckedKeeps
    <2> QED BY <2>1, ResendKeeps
<1>7. x \in Channel(G) /\ x.next = k
    <2>1. Envelope("ack", a.next, e.id, None) \in EnvelopeType
        BY <1>2, <1>4, <1>6, EnvelopeTyped
    <2>2. Envelope("ack", a.next, e.id, None) \in G
        <3>1. m[p] >= 1
            BY <1>4, <1>5 DEF k
        <3> HIDE DEF m, a
        <3> QED BY <1>3, <1>5, <2>1, <3>1 DEF Sound, Envelope
    <2> QED BY <1>6, <2>2, AckKeeps DEF k
<1> HIDE DEF x
<1>8. Moved /\ Nexts' = m
    <2>1. waiting' = WaitersAt(p, waiting[p]) /\ x \in Channel(Sound(p, m, WaitersAt(p, waiting[p])))
        BY <1>1, <1>4, <1>7
    <2> QED BY <1>1, <1>4, <1>7, <2>1, OneChannel
<1> QED BY <1>1, <1>5, <1>8 DEF Core, Handled, Moved, AnswersMatch

LEMMA StartedHandled ==
    ASSUME Core, NEW p \in Peers, NEW e \in Sound(Other(p), Nexts, waiting), ReceiveStarted(p, e)
    PROVE  Handled
<1> DEFINE k == ch[p].next + 1
           m == NextsAt(p, k)
           G == Sound(p, m, waiting)
           x == Ack(ch[p], e.id)
<1>1. /\ e.kind = "started" /\ ch' = [ch EXCEPT ![p] = x]
      /\ state' = IF p = "client" /\ state = "connecting" THEN "started" ELSE state
      /\ UNCHANGED <<waiting, todo, received, answers>>
    BY DEF ReceiveStarted
<1>2. e.id = 0
    BY <1>1 DEF Sound
<1>3. /\ ch[p].next \in Nat /\ k \in Nat /\ ch[p].next <= k
      /\ WaitersAt(p, waiting[p]) = waiting /\ Joins(p, waiting[p]) /\ waiting[p] \subseteq Waiters(k)
    BY Known, SameWaiters
<1> HIDE DEF k
<1>4. m \in [Peers -> Nat] /\ m[p] = k /\ Later(Nexts, waiting, m, waiting) /\ ch[p] \in Channel(G)
    BY <1>3, Renewed
<1>5. x \in Channel(G) /\ x.next = k
    <2>1. Envelope("ack", ch[p].next, 0, None) \in EnvelopeType
        BY <1>3, EnvelopeTyped
    <2>2. Envelope("ack", ch[p].next, 0, None) \in G
        <3>1. m[p] >= 1
            BY <1>3, <1>4 DEF k
        <3> HIDE DEF m
        <3> QED BY <2>1, <3>1 DEF Sound, Envelope
    <2> QED BY <1>2, <1>4, <2>2, AckKeeps DEF k
<1> HIDE DEF x
<1>6. Moved /\ Nexts' = m
    <2>1. waiting' = WaitersAt(p, waiting[p]) /\ x \in Channel(Sound(p, m, WaitersAt(p, waiting[p])))
        BY <1>1, <1>3, <1>5
    <2> QED BY <1>1, <1>3, <1>5, <2>1, OneChannel
<1> QED BY <1>1, <1>4, <1>6 DEF Core, Handled, Moved, AnswersMatch

LEMMA MessageHandled ==
    ASSUME Core, NEW p \in Peers, NEW e \in Sound(Other(p), Nexts, waiting), ReceiveMessage(p, e)
    PROVE  Handled
<1> DEFINE mine == {r \in waiting[p] : e.re = r.id}
           w == waiting[p] \ mine
           v == WaitersAt(p, w)
           c == [Acked(p, e) EXCEPT !.maxReceived = e.id]
           G == Sound(p, Nexts, waiting)
<1>1. PICK x : x = ch'[p]
    OBVIOUS
<1>2. /\ ch[p].next \in Nat /\ ch[p].next <= ch[p].next /\ ch[p] \in Channel(G) /\ G \subseteq EnvelopeType
      /\ Nexts[p] = ch[p].next /\ Nexts \in [Peers -> Nat] /\ Other(p) \in Peers
      /\ \A r \in waiting[p] : r.id \in 1 .. ch[p].next - 1 /\ r.kind \in {"request", "flush"}
      /\ waiting[p] \subseteq Waiters(ch[p].next) /\ NextsAt(p, ch[p].next) = Nexts
    BY Known, SoundTyped, SameWaiters, PeersKnown
<1>3. e \in EnvelopeType /\ e.id \in Nat
    BY SoundTyped DEF EnvelopeType
<1>4. c \in Channel(G) /\ c.next = ch[p].next
    <2>1. Acked(p, e) \in Channel(G) /\ Acked(p, e).next = ch[p].next
        BY <1>2, <1>3, AckedKeeps
    <2> QED BY <1>3, <2>1 DEF Channel
<1>5. /\ e.kind \in {"ack", "send", "request", "response"}
      /\ ch' = [ch EXCEPT ![p] = x] /\ (x = c \/ x = Resend(c))
      /\ waiting' = v
      /\ answers' = answers \cup {<<r.kind, e.kind>> : r \in mine}
      /\ todo' = IF e.kind = "request" THEN [todo EXCEPT ![p] = Append(@, e.id)] ELSE todo
      /\ state' \in {"connected", state}
      /\ received' = IF e.kind = "ack" THEN received ELSE [received EXCEPT ![p] = Append(@, e.id)]
    BY <1>1 DEF ReceiveMessage, Core, WaitersAt
<1> HIDE DEF c
<1>6. x \in Channel(G) /\ x.next = ch[p].next
    BY <1>4, <1>5, ResendKeeps
<1>7. Joins(p, w) /\ w \subseteq Waiters(ch[p].next)
    BY <1>2 DEF Joins
<1> HIDE DEF w
<1>8. Later(Nexts, waiting, Nexts, v) /\ ch[p] \in Channel(Sound(p, Nexts, v))
    BY <1>2, <1>7, Renewed
<1>9. x \in Channel(Sound(p, Nexts, v))
    BY <1>2, <1>6, <1>8, Grown
<1>10. Moved /\ Nexts' = Nexts
    <2>1. x \in Channel(Sound(p, NextsAt(p, ch[p].next), v))
        BY <1>2, <1>9
    <2> HIDE DEF mine, v
    <2> QED BY <1>2, <1>5, <1>6, <1>7, <2>1, OneChannel DEF v
<1> HIDE DEF v
<1>11. ASSUME e.kind = "request" PROVE Append(todo[p], e.id) \in Tasks(p, Nexts, v) /\ todo' = [todo EXCEPT ![p] = Append(@, e.id)]
    <2>1. e.id \in Belonging("request", Nexts[Other(p)], waiting[Other(p)])
        BY <1>11 DEF Sound
    <2>2. e.id \in Belonging("request", Nexts[Other(p)], v[Other(p)])
        <3>1. PICK n, u, o : n = Nexts /\ u = waiting /\ o = Other(p)
            OBVIOUS
        <3>2. PICK z : z = v
            OBVIOUS
        <3>3. n \in [Peers -> Nat] /\ Later(n, u, n, z) /\ o \in Peers
            BY <1>2, <1>8, <3>1, <3>2
        <3>4. Belonging("request", n[o], u[o]) \subseteq Belonging("request", n[o], z[o])
            BY <3>3, StaySound
        <3> QED BY <2>1, <3>1, <3>2, <3>4
    <2>3. todo[p] \in Tasks(p, Nexts, v)
        BY <1>5, <1>10 DEF Moved
    <2> QED BY <1>5, <1>11, <2>2, <2>3, AppendProperties DEF Tasks
<1>12. todo' \in [Peers -> Seq(Nat)] /\ \A q \in Peers : todo'[q] \in Tasks(q, Nexts, v)
    <2>1. CASE e.kind = "request"
        <3>1. Append(todo[p], e.id) \in Seq(Nat)
            BY <1>3, AppendProperties DEF Core
        <3> QED BY <1>5, <1>10, <1>11, <2>1, <3>1 DEF Core, Moved
    <2>2. CASE e.kind # "request"
        BY <1>5, <1>10, <2>2 DEF Core, Moved
    <2> QED BY <2>1, <2>2
<1>13. \A r \in mine : <<r.kind, e.kind>> \in {<<"request", "response">>, <<"flush", "ack">>}
    <2> SUFFICES ASSUME NEW r \in mine
                 PROVE  \/ r.kind = "request" /\ e.kind = "response"
                        \/ r.kind = "flush" /\ e.kind = "ack"
        OBVIOUS
    <2>1. r \in waiting[p] /\ e.re = r.id /\ Other(Other(p)) = p
        BY PeersKnown
    <2>2. r.id \in 1 .. Nexts[p] - 1 /\ r.kind \in {"request", "flush"} /\ r.id # 0 /\ r.id # None
        BY <1>2, <2>1 DEF None
    <2>3. CASE e.kind = "response"
        BY <2>1, <2>3 DEF Sound, Belonging
    <2>4. CASE e.kind = "ack"
        BY <2>1, <2>2, <2>4 DEF Sound, Belonging
    <2>5. e.kind \notin {"send", "request"}
        BY <2>1, <2>2 DEF Sound
    <2> QED BY <1>5, <2>3, <2>4, <2>5
<1>14. AnswersMatch'
    BY <1>5, <1>13 DEF Core, AnswersMatch
<1>15. received' \in [Peers -> Seq(Nat)]
    <2>1. received[p] \in Seq(Nat) /\ Append(received[p], e.id) \in Seq(Nat)
        BY <1>3, AppendProperties DEF Core
    <2> QED BY <1>5, <2>1 DEF Core
<1>16. state' \in {"connecting", "started", "connected", "swapped", "resyncing"}
    BY <1>5 DEF Core
<1> QED BY <1>2, <1>5, <1>8, <1>10, <1>12, <1>14, <1>15, <1>16 DEF Handled

LEMMA ReceiveStep == ASSUME Core, NEW p \in Peers, Receive(p) PROVE Core'
<1> DEFINE q == Other(p)
<1>1. q \in Peers /\ wire[q] # <<>>
    BY PeersKnown DEF Receive
<1>2. wire[q] \in Seq(Sound(q, Nexts, waiting)) /\ Nexts \in [Peers -> Nat]
    BY <1>1, Known
<1>3. PICK e : e = Head(wire[q])
    OBVIOUS
<1>4. e \in Sound(q, Nexts, waiting) /\ Tail(wire[q]) \in Seq(Sound(q, Nexts, waiting))
    BY <1>1, <1>2, <1>3, HeadTailProperties
<1>5. ReceiveFlush(p, e) \/ ReceiveStarted(p, e) \/ ReceiveMessage(p, e)
    BY <1>3 DEF Receive
<1>6. Handled
    BY <1>4, <1>5, FlushHandled, StartedHandled, MessageHandled
<1>7. /\ wire' = [wire EXCEPT ![q] = Tail(wire[q])]
      /\ UNCHANGED <<work, flushId, link, budget, posted>>
    BY DEF Receive
<1>8. Tail(wire[q]) \in Seq(Sound(q, Nexts', waiting'))
    BY <1>1, <1>2, <1>4, <1>6, Grown DEF Handled
<1>9. wire' \in [Peers -> Seq(EnvelopeType)] /\ Supply(ch', wire', Nexts', waiting')
    <2>1. wire \in [Peers -> Seq(EnvelopeType)] /\ Supply(ch', wire, Nexts', waiting')
        BY <1>6 DEF Core, Handled, Moved
    <2> HIDE DEF q
    <2> QED BY <1>1, <1>7, <1>8, <2>1, OneWire
<1> QED BY <1>6, <1>7, <1>9 DEF Handled, Core, Moved

-----------------------------------------------------------------------------
(* The beginning.                                                           *)

\* Nothing happens to the client's RemoteStarted while only more is queued after it.
LEMMA StaysAnnounced ==
    ASSUME Core, Core', Announced, wire'["client"] = wire["client"],
           ch'["client"].outgoing = ch["client"].outgoing
             \/ \E e \in EnvelopeType :
                   ch'["client"].outgoing \in {Append(ch["client"].outgoing, e), ch["client"].outgoing \o <<e>>}
    PROVE  Announced'
<1>1. ch["client"].outgoing \in Seq(EnvelopeType)
    BY Known, PeersKnown
<1>2. PICK o, o1 : o = ch["client"].outgoing /\ o1 = ch'["client"].outgoing
    OBVIOUS
<1>3. /\ o \in Seq(EnvelopeType)
      /\ o1 = o \/ \E e \in EnvelopeType : o1 = Append(o, e) \/ o1 = o \o <<e>>
    BY <1>1, <1>2
<1>4. ASSUME o # <<>> PROVE o1 # <<>> /\ Head(o1) = Head(o)
    <2>1. CASE o1 = o
        BY <1>4, <2>1
    <2>2. ASSUME NEW e \in EnvelopeType, o1 = Append(o, e) PROVE o1 # <<>> /\ Head(o1) = Head(o)
        BY <1>3, <1>4, <2>2
    <2>3. ASSUME NEW e \in EnvelopeType, o1 = o \o <<e>> PROVE o1 # <<>> /\ Head(o1) = Head(o)
        BY <1>3, <1>4, <2>3
    <2> QED BY <1>3, <2>1, <2>2, <2>3
<1> QED BY <1>2, <1>4 DEF Announced

LEMMA ForegroundBegun ==
    ASSUME Inv, Core', NEW p \in Peers, NEW kind \in {"send", "request"}, SendForeground(p, kind)
    PROVE  Begun'
<1> DEFINE e == Envelope(kind, ch[p].next, None, ch[p].maxReceived)
<1>1. /\ ch' = [ch EXCEPT ![p] = Post(@, kind, None)] /\ MaySend(p, kind)
      /\ UNCHANGED <<wire, work, todo, state>>
    BY DEF SendForeground
<1>2. /\ ch[p].next \in Nat /\ ch[p].maxReceived \in Nat /\ ch["client"].next \in Nat
      /\ ch[p] \in Channel(EnvelopeType)
    BY Known, PeersKnown DEF Inv, Core
<1>3. e \in EnvelopeType
    BY <1>2, EnvelopeTyped
<1>4. ch'[p].next = ch[p].next + 1 /\ ch'[p].outgoing = Append(ch[p].outgoing, e) /\ ch'[p].maxReceived = ch[p].maxReceived
    <2>1. ch'[p] = Post(ch[p], kind, None)
        BY <1>1 DEF Inv, Core
    <2>2. Post(ch[p], kind, None).maxReceived = ch[p].maxReceived
        BY <1>2 DEF Post, Channel
    <2>3. /\ Post(ch[p], kind, None).next = ch[p].next + 1
          /\ Post(ch[p], kind, None).outgoing = Append(ch[p].outgoing, e)
        BY <1>2 DEF Post, Channel
    <2> HIDE DEF e
    <2> QED BY <2>1, <2>2, <2>3
<1>5. \A q \in Peers : q # p => ch'[q] = ch[q]
    BY <1>1 DEF Inv, Core
<1>6. p = "client" => state # "connecting"
    BY <1>1, SenderBegun
<1>7. p = "client" /\ Announced => Announced'
    BY <1>1, <1>3, <1>4, StaysAnnounced DEF Inv
<1> QED
    <2>1. CASE p = "client"
        BY <1>1, <1>2, <1>4, <1>5, <1>6, <1>7, <2>1 DEF Inv, Begun, Peers
    <2>2. CASE p = "server"
        BY <1>1, <1>2, <1>4, <1>5, <2>2 DEF Inv, Begun, Peers
    <2> QED BY <2>1, <2>2 DEF Peers

LEMMA RespondBegun ==
    ASSUME Inv, Core', NEW p \in Peers, Respond(p)
    PROVE  Begun'
<1>0. PICK h : h = Head(todo[p])
    OBVIOUS
<1> DEFINE e == Envelope("response", ch[p].next, h, ch[p].maxReceived)
<1>1. /\ ch' = [ch EXCEPT ![p] = Post(@, "response", h)] /\ todo[p] # <<>>
      /\ todo' = [todo EXCEPT ![p] = Tail(@)]
      /\ UNCHANGED <<wire, work, state>>
    BY <1>0 DEF Respond
<1>2. /\ ch[p].next \in Nat /\ ch[p].maxReceived \in Nat /\ ch["client"].next \in Nat
      /\ ch[p] \in Channel(EnvelopeType)
    BY Known, PeersKnown DEF Inv, Core
<1>3. e \in EnvelopeType
    <2>1. h \in Nat
        BY <1>0, <1>1, HeadTailProperties DEF Inv, Core
    <2> QED BY <1>2, <2>1, EnvelopeTyped
<1>4. ch'[p].next = ch[p].next + 1 /\ ch'[p].outgoing = Append(ch[p].outgoing, e) /\ ch'[p].maxReceived = ch[p].maxReceived
    <2>1. ch'[p] = Post(ch[p], "response", h)
        BY <1>1 DEF Inv, Core
    <2>2. Post(ch[p], "response", h).maxReceived = ch[p].maxReceived
        BY <1>2 DEF Post, Channel
    <2>3. /\ Post(ch[p], "response", h).next = ch[p].next + 1
          /\ Post(ch[p], "response", h).outgoing = Append(ch[p].outgoing, e)
        BY <1>2 DEF Post, Channel
    <2> HIDE DEF e
    <2> QED BY <2>1, <2>2, <2>3
<1>5. \A q \in Peers : q # p => ch'[q] = ch[q] /\ todo'[q] = todo[q]
    BY <1>1 DEF Inv, Core
<1>6. p = "client" /\ Announced => Announced'
    BY <1>1, <1>3, <1>4, StaysAnnounced DEF Inv
<1> QED
    <2>1. CASE p = "client"
        BY <1>1, <1>2, <1>4, <1>5, <1>6, <2>1 DEF Inv, Begun, Peers
    <2>2. CASE p = "server"
        BY <1>1, <1>2, <1>4, <1>5, <2>2 DEF Inv, Begun, Peers
    <2> QED BY <2>1, <2>2 DEF Peers

LEMMA BackgroundBegun ==
    ASSUME Inv, Core', NEW p \in Peers, NEW t \in Threads,
           BackgroundNumber(p, t) \/ BackgroundBuffer(p, t) \/ BackgroundQueue(p, t)
    PROVE  Begun'
<1>1. /\ ch[p].next \in Nat /\ ch["client"].next \in Nat /\ ch[p] \in Channel(EnvelopeType)
      /\ ch \in [Peers -> Channel(EnvelopeType)] /\ work \in [Peers -> [Threads -> Works]]
    BY Known, PeersKnown DEF Inv, Core
<1>2. CASE BackgroundNumber(p, t)
    <2>1. /\ ch' = [ch EXCEPT ![p].next = @ + 1] /\ MaySend(p, "send")
          /\ UNCHANGED <<wire, todo, state>>
        BY <1>2 DEF BackgroundNumber
    <2>2. ch'[p].next = ch[p].next + 1 /\ ch'[p].outgoing = ch[p].outgoing /\ ch'[p].maxReceived = ch[p].maxReceived
        BY <1>1, <2>1, Numbered
    <2>3. \A q \in Peers : q # p => ch'[q] = ch[q] /\ work'[q] = work[q]
        BY <1>1, <1>2, <2>1 DEF BackgroundNumber
    <2>4. p = "client" => state # "connecting"
        BY <2>1, SenderBegun
    <2>5. p = "client" /\ Announced => Announced'
        BY <2>1, <2>2, StaysAnnounced DEF Inv
    <2>6. CASE p = "client"
        BY <1>1, <2>1, <2>2, <2>3, <2>4, <2>5, <2>6 DEF Inv, Begun, Peers
    <2>7. CASE p = "server"
        BY <1>1, <2>1, <2>2, <2>3, <2>7 DEF Inv, Begun, Peers
    <2> QED BY <2>6, <2>7 DEF Peers
<1>3. CASE BackgroundBuffer(p, t) \/ BackgroundQueue(p, t)
    <2>1. /\ work[p][t] # <<>> /\ UNCHANGED <<wire, todo, state>>
        BY <1>3 DEF BackgroundBuffer, BackgroundQueue
    <2>2. PICK e \in Sends : work[p][t] = <<e>> /\ Head(work[p][t]) = e
        BY <2>1, InHand
    <2>3. /\ ch'[p].next = ch[p].next /\ ch'[p].maxReceived = ch[p].maxReceived
          /\ ch'[p].outgoing = ch[p].outgoing \/ ch'[p].outgoing = ch[p].outgoing \o <<e>>
        <3>1. CASE BackgroundBuffer(p, t)
            <4>1. ch'[p] = Buffered(ch[p], e)
                BY <1>1, <2>2, <3>1 DEF BackgroundBuffer
            <4> QED BY <1>1, <4>1 DEF Buffered, Channel
        <3>2. CASE BackgroundQueue(p, t)
            <4>1. ch'[p] = [ch[p] EXCEPT !.outgoing = @ \o <<e>>]
                BY <1>1, <2>2, <3>2 DEF BackgroundQueue
            <4> QED BY <1>1, <4>1 DEF Channel
        <3> QED BY <1>3, <3>1, <3>2
    <2>4. \A q \in Peers : q # p => ch'[q] = ch[q]
        BY <1>1, <1>3 DEF BackgroundBuffer, BackgroundQueue
    <2>5. \A q \in Peers : \A u \in Threads : work'[q][u] # <<>> => work[q][u] # <<>>
        <3>1. CASE BackgroundBuffer(p, t)
            BY <1>1, <2>1, <3>1 DEF BackgroundBuffer
        <3>2. CASE BackgroundQueue(p, t)
            BY <1>1, <2>1, <3>2 DEF BackgroundQueue
        <3> QED BY <1>3, <3>1, <3>2
    <2>6. p = "client" /\ Announced => Announced'
        BY <2>1, <2>2, <2>3, StaysAnnounced DEF Inv, Sends
    <2>7. CASE p = "client"
        BY <1>1, <2>1, <2>3, <2>4, <2>5, <2>6, <2>7 DEF Inv, Begun, Peers
    <2>8. CASE p = "server"
        <3>1. Announced => Announced'
            BY <2>1, <2>4, <2>8, PeersKnown DEF Announced
        <3> QED BY <1>1, <2>1, <2>3, <2>4, <2>5, <2>8, <3>1 DEF Inv, Begun, Peers
    <2> QED BY <2>7, <2>8 DEF Peers
<1> QED BY <1>2, <1>3

LEMMA TransmitBegun ==
    ASSUME Inv, Core', NEW p \in Peers, Transmit(p)
    PROVE  Begun'
<1>1. /\ ch' = [ch EXCEPT ![p].outgoing = Tail(@)] /\ ch[p].outgoing # <<>>
      /\ wire' = [wire EXCEPT ![p] = Append(@, Head(ch[p].outgoing))]
      /\ UNCHANGED <<work, todo, state>>
    BY DEF Transmit
<1>2. /\ ch \in [Peers -> Channel(EnvelopeType)] /\ wire \in [Peers -> Seq(EnvelopeType)]
      /\ \A q \in Peers : /\ ch[q].outgoing \in Seq(EnvelopeType) /\ wire[q] \in Seq(EnvelopeType)
                          /\ ch[q] \in Channel(EnvelopeType)
    BY Known DEF Inv, Core
<1>3. \A q \in Peers : ch'[q].next = ch[q].next /\ ch'[q].maxReceived = ch[q].maxReceived
    BY <1>1, <1>2 DEF Channel
<1>4. ASSUME Announced PROVE Announced'
    <2>1. CASE p = "server"
        <3>1. ch'["client"] = ch["client"] /\ wire'["client"] = wire["client"]
            BY <1>1, <1>2, <2>1, PeersKnown
        <3> QED BY <1>4, <3>1 DEF Announced
    <2>2. CASE p = "client"
        <3>1. PICK s, h : s = wire["client"] /\ h = Head(ch["client"].outgoing)
            OBVIOUS
        <3>2. s \in Seq(EnvelopeType) /\ h \in EnvelopeType /\ wire'["client"] = Append(s, h)
            BY <1>1, <1>2, <2>2, <3>1, HeadTailProperties
        <3>3. (s # <<>> /\ Head(s) = Started) \/ (s = <<>> /\ h = Started)
            BY <1>4, <3>1 DEF Announced
        <3>4. Append(s, h) # <<>> /\ Head(Append(s, h)) = Started
            BY <3>2, <3>3
        <3> QED BY <3>2, <3>4 DEF Announced
    <2> QED BY <2>1, <2>2 DEF Peers
<1> QED BY <1>1, <1>3, <1>4, PeersKnown DEF Inv, Begun

\* The connection drops and is replaced between two who have heard of each other.
LEMMA ConnectionBegun ==
    ASSUME Inv, Core', Disconnect \/ LoseWrite \/ Reconnect \/ Resync
    PROVE  Begun'
<1>1. /\ \A p \in Peers : /\ ch[p] \in Channel(EnvelopeType) /\ ch[p].next \in Nat
                          /\ ch[p].maxReceived \in Nat
      /\ ch \in [Peers -> Channel(EnvelopeType)] /\ wire \in [Peers -> Seq(EnvelopeType)]
      /\ "client" \in Peers /\ "server" \in Peers
    BY Known, PeersKnown DEF Inv, Core
<1>2. UNCHANGED <<work, todo>>
    BY DEF Disconnect, LoseWrite, Reconnect, Resync
<1>3. CASE Disconnect
    <2>1. ch' = ch /\ state' = state /\ state \in {"connected", "resyncing"}
        BY <1>3 DEF Disconnect
    <2> QED BY <1>1, <1>2, <2>1 DEF Inv, Begun
<1>4. CASE LoseWrite
    <2>1. /\ ch' = [ch EXCEPT !["server"].outgoing = Tail(@)] /\ state' = state /\ wire' = wire
        BY <1>4 DEF LoseWrite
    <2>2. /\ ch'["client"] = ch["client"] /\ ch'["server"].next = ch["server"].next
          /\ ch'["server"].maxReceived = ch["server"].maxReceived
        BY <1>1, <2>1 DEF Channel
    <2> QED BY <1>2, <2>1, <2>2 DEF Inv, Begun, Announced, Peers
<1>5. CASE Reconnect
    <2>1. /\ ch' = [ch EXCEPT !["client"].outgoing = <<>>] /\ state' = "swapped"
          /\ state \in {"connected", "resyncing"}
        BY <1>5 DEF Reconnect
    <2>2. /\ ch'["client"].next = ch["client"].next /\ ch'["server"] = ch["server"]
        BY <1>1, <2>1 DEF Channel
    <2> QED BY <1>1, <1>2, <2>1, <2>2 DEF Inv, Begun, Peers
<1>6. CASE Resync
    <2>1. /\ ch' = [ch EXCEPT !["client"] = [Flush(ch["client"]) EXCEPT !.outgoing = Append(@, Started)]]
          /\ state = "swapped" /\ state' = "resyncing"
        BY <1>6 DEF Resync
    <2>2. ch'["client"].next = ch["client"].next + 1 /\ ch'["server"] = ch["server"]
        BY <1>1, <2>1 DEF Flush, Channel
    <2> QED BY <1>1, <1>2, <2>1, <2>2 DEF Inv, Begun, Peers
<1> QED BY <1>3, <1>4, <1>5, <1>6

\* A message, to the server, comes after RemoteStarted.
LEMMA MessageBegun ==
    ASSUME Inv, Core', NEW p \in Peers, NEW e \in Sound(Other(p), Nexts, waiting),
           wire[Other(p)] # <<>>, e = Head(wire[Other(p)]), Receive(p), ReceiveMessage(p, e)
    PROVE  Begun'
<1>1. /\ e.kind \in {"ack", "send", "request", "response"} /\ e.kind # "started"
      /\ todo' = IF e.kind = "request" THEN [todo EXCEPT ![p] = Append(@, e.id)] ELSE todo
    BY DEF ReceiveMessage
<1>2. /\ \A q \in Peers : ch[q].next \in Nat /\ Nexts[q] = ch[q].next
      /\ ch \in [Peers -> Channel(EnvelopeType)] /\ wire \in [Peers -> Seq(EnvelopeType)]
      /\ ch[p] \in Channel(EnvelopeType)
      /\ e \in EnvelopeType /\ e.id \in Nat
    <2>1. e \in EnvelopeType
        BY SoundTyped
    <2>2. e.id \in Nat
        BY <2>1 DEF EnvelopeType
    <2> QED BY <2>1, <2>2, Known DEF Inv, Core
<1>3. Nexts[Other(p)] >= 1 /\ (e.kind = "request" => Nexts["client"] >= 1)
    BY <1>1 DEF Sound
<1>4. work' = work /\ wire' = [wire EXCEPT ![Other(p)] = Tail(@)]
    BY DEF Receive
<1>5. \A q \in Peers : q # p => ch'[q] = ch[q] /\ todo'[q] = todo[q]
    BY <1>1, <1>2 DEF ReceiveMessage, Inv, Core
<1>6. ch'[p].next = ch[p].next
    <2> DEFINE c == [Acked(p, e) EXCEPT !.maxReceived = e.id]
    <2>1. Acked(p, e) \in Channel(EnvelopeType) /\ Acked(p, e).next = ch[p].next
        BY <1>2, AckedKeeps
    <2>2. c \in Channel(EnvelopeType) /\ c.next = ch[p].next
        BY <1>2, <2>1 DEF Channel
    <2>3. ch'[p] = c \/ ch'[p] = Resend(c)
        BY <1>2 DEF ReceiveMessage
    <2> HIDE DEF c
    <2> QED BY <2>2, <2>3, ResendKeeps
<1>7. CASE p = "server"
    <2>1. state' = state /\ ch["client"].next >= 1
        BY <1>2, <1>3, <1>7, PeersKnown DEF ReceiveMessage, Other
    <2>2. e # Started
        BY <1>1 DEF Started, Envelope
    <2>3. ch["server"].next # 0
        BY <1>7, <2>2 DEF Inv, Begun, Announced, Other
    <2> QED BY <1>2, <1>4, <1>5, <1>6, <1>7, <2>1, <2>3 DEF Inv, Begun, Peers
<1>8. CASE p = "client"
    <2>1. ch["server"].next >= 1
        BY <1>2, <1>3, <1>8, PeersKnown DEF Other
    <2>2. (state' # "connecting" /\ state # "connecting") \/ state' = state
        BY <1>8 DEF ReceiveMessage, Inv, Core
    <2>3. todo["client"] # <<>> \/ e.kind = "request" => ch["client"].next >= 1
        BY <1>2, <1>3, PeersKnown DEF Inv, Begun
    <2>4. todo'["client"] # <<>> => ch["client"].next >= 1
        BY <1>1, <2>3
    <2> QED BY <1>2, <1>4, <1>5, <1>6, <1>8, <2>1, <2>2, <2>4 DEF Inv, Begun, Peers
<1> QED BY <1>7, <1>8 DEF Peers

LEMMA ReceiveBegun ==
    ASSUME Inv, Core', NEW p \in Peers, Receive(p)
    PROVE  Begun'
<1>1. Other(p) \in Peers /\ wire[Other(p)] # <<>>
    BY PeersKnown DEF Receive
<1>2. PICK e : e = Head(wire[Other(p)])
    OBVIOUS
<1>3. e \in Sound(Other(p), Nexts, waiting) /\ e \in EnvelopeType /\ e.id \in Nat
    <2>1. e \in Sound(Other(p), Nexts, waiting)
        BY <1>1, <1>2, Known, HeadTailProperties DEF Inv
    <2> QED BY <2>1, SoundTyped DEF EnvelopeType
<1>4. /\ \A q \in Peers : /\ ch[q].next \in Nat /\ ch[q].maxReceived \in Nat
                          /\ ch[q].outgoing \in Seq(EnvelopeType) /\ ch[q] \in Channel(EnvelopeType)
      /\ ch \in [Peers -> Channel(EnvelopeType)] /\ wire \in [Peers -> Seq(EnvelopeType)]
    BY Known DEF Inv, Core
<1>5. work' = work /\ wire' = [wire EXCEPT ![Other(p)] = Tail(@)]
    BY DEF Receive
<1>6. CASE ReceiveMessage(p, e)
    BY <1>1, <1>2, <1>3, <1>6, MessageBegun
<1>7. CASE ReceiveFlush(p, e) \/ ReceiveStarted(p, e)
    <2>1. todo' = todo /\ (ReceiveFlush(p, e) => state' = state)
        BY <1>7 DEF ReceiveFlush, ReceiveStarted
    <2>2. \A q \in Peers : q # p => ch'[q] = ch[q]
        BY <1>4, <1>7 DEF ReceiveFlush, ReceiveStarted
    <2>3. PICK c \in {ch[p], Resend(Acked(p, e))} :
              ch'[p] = Ack(c, e.id) /\ (ReceiveStarted(p, e) => c = ch[p])
        BY <1>4, <1>7 DEF ReceiveFlush, ReceiveStarted
    <2>4. c \in Channel(EnvelopeType) /\ c.next = ch[p].next /\ c.maxReceived = ch[p].maxReceived
        <3>1. /\ Acked(p, e) \in Channel(EnvelopeType) /\ Acked(p, e).next = ch[p].next
              /\ Acked(p, e).maxReceived = ch[p].maxReceived
            BY <1>3, <1>4, AckedKeeps
        <3>2. /\ Resend(Acked(p, e)) \in Channel(EnvelopeType)
              /\ Resend(Acked(p, e)).next = ch[p].next
            BY <3>1, ResendKeeps
        <3>3. Resend(Acked(p, e)).maxReceived = ch[p].maxReceived
            BY <3>1 DEF Resend, Channel
        <3> QED BY <1>4, <3>2, <3>3
    <2> DEFINE a == Envelope("ack", c.next, e.id, None)
    <2>5. a \in EnvelopeType
        BY <1>3, <1>4, <2>4, EnvelopeTyped
    <2>6. ch'[p].next = ch[p].next + 1 /\ ch'[p].outgoing = Append(c.outgoing, a)
        <3>1. Ack(c, e.id).next = c.next + 1 /\ Ack(c, e.id).outgoing = Append(c.outgoing, a)
            BY <2>4, <2>5, AckKeeps
        <3> HIDE DEF a
        <3> QED BY <2>3, <2>4, <3>1
    <2>7. ch'[p].maxReceived = ch[p].maxReceived
        <3>1. Ack(c, e.id).maxReceived = c.maxReceived
            BY <2>4 DEF Ack, Channel
        <3> QED BY <2>3, <2>4, <3>1
    <2> HIDE DEF a
    <2>8. CASE p = "server"
        <3>1. state' = state
            BY <2>1, <2>8, <1>7 DEF ReceiveStarted
        <3>2. /\ ch'["server"].next # 0 /\ ch'["client"] = ch["client"]
              /\ ch'["server"].maxReceived = ch["server"].maxReceived
            BY <1>4, <2>2, <2>6, <2>7, <2>8 DEF Peers
        <3>3. Begun
            BY DEF Inv
        <3>4. ch'["server"].next >= 1
            BY <1>4, <2>6, <2>8 DEF Peers
        <3> QED BY <1>5, <2>1, <3>1, <3>2, <3>3, <3>4 DEF Begun, Peers
    <2>9. CASE p = "client"
        <3>1. e.kind # "flush" /\ ReceiveStarted(p, e)
            BY <1>3, <1>7, <2>9 DEF Sound, Other, ReceiveFlush
        <3>2. state' = IF state = "connecting" THEN "started" ELSE state
            BY <2>9, <3>1 DEF ReceiveStarted
        <3>3. ch'["client"].outgoing = Append(ch["client"].outgoing, a)
            <4>1. c = ch["client"]
                BY <2>3, <2>9, <3>1
            <4> QED BY <2>6, <2>9, <4>1
        <3>4. wire'["client"] = wire["client"]
            BY <1>4, <1>5, <2>9, PeersKnown DEF Other
        <3>5. Announced => Announced'
            BY <2>5, <3>3, <3>4, StaysAnnounced DEF Inv
        <3> QED BY <1>4, <1>5, <2>1, <2>2, <2>6, <2>7, <2>9, <3>2, <3>5 DEF Inv, Begun, Peers
    <2> QED BY <2>8, <2>9 DEF Peers
<1> QED BY <1>2, <1>6, <1>7 DEF Receive

-----------------------------------------------------------------------------
(* Together: answers match, however often the connection drops.             *)

LEMMA InitInv == Init => Inv
<1> SUFFICES ASSUME Init PROVE Inv
    OBVIOUS
<1> DEFINE c == [next |-> 0, buffer |-> <<>>, maxReceived |-> 0, outgoing |-> <<Started>>]
<1>1. \A G : Started \in G => c \in Channel(G)
    <2> SUFFICES ASSUME NEW G, Started \in G PROVE c \in Channel(G)
        OBVIOUS
    <2>1. <<>> \in Seq(G) /\ <<Started>> \in Seq(G)
        BY EmptySeq
    <2> QED BY <2>1 DEF Channel
<1>2. \A p, n, w : c \in Channel(Sound(p, n, w)) /\ c \in Channel(EnvelopeType)
    BY <1>1, StartedSound, SoundTyped
<1>3. \A G : <<>> \in Seq(G)
    BY EmptySeq
<1>4. ch = [p \in Peers |-> c] /\ wire = [p \in Peers |-> <<>>]
    BY DEF Init
<1>5. c.next = 0 /\ c.maxReceived = 0 /\ c.outgoing = <<Started>>
    OBVIOUS
<1> HIDE DEF c
<1>6. \A p \in Peers : ch[p] = c /\ wire[p] = <<>>
    BY <1>4
<1>7. Supply(ch, wire, Nexts, waiting)
    BY <1>2, <1>3, <1>6 DEF Supply
<1>8. ch \in [Peers -> Channel(EnvelopeType)] /\ wire \in [Peers -> Seq(EnvelopeType)]
    BY <1>2, <1>3, <1>4
<1>9. /\ work \in [Peers -> [Threads -> Works]] /\ posted \in [Peers -> SUBSET Nat]
      /\ received \in [Peers -> Seq(Nat)] /\ todo \in [Peers -> Seq(Nat)]
      /\ \A p \in Peers : todo[p] \in Tasks(p, Nexts, waiting) /\ todo[p] = <<>>
      /\ \A p \in Peers : \A t \in Threads : work[p][t] = <<>>
    BY <1>3 DEF Init, Works, Tasks
<1>10. /\ waiting \in [Peers -> SUBSET [id : Nat, kind : {"request", "flush"}]]
       /\ \A p \in Peers : waiting[p] \subseteq Waiters(ch[p].next)
       /\ state = "connecting" /\ flushId = None /\ link = "up" /\ answers = {}
    BY DEF Init
<1>11. budget \in [client : Nat, server : Nat, drops : Nat]
    BY SendsAssumption DEF Init
<1>12. Core
    BY <1>7, <1>8, <1>9, <1>10, <1>11 DEF Core, AnswersMatch
<1>13. Begun
    <2>1. Head(<<Started>>) = Started
        OBVIOUS
    <2> QED BY <1>5, <1>6, <1>9, <1>10, <2>1, PeersKnown DEF Begun, Announced
<1> QED BY <1>12, <1>13 DEF Inv

LEMMA NextInv == Inv /\ [Next]_vars => Inv'
<1> SUFFICES ASSUME Inv, [Next]_vars PROVE Inv'
    OBVIOUS
<1> USE DEF Inv
<1>1. CASE Next
    <2>1. ASSUME NEW p \in Peers, NEW kind \in {"send", "request"}, SendForeground(p, kind) PROVE Inv'
        BY <2>1, ForegroundStep, ForegroundBegun
    <2>2. ASSUME NEW p \in Peers, Respond(p) PROVE Inv'
        BY <2>2, RespondStep, RespondBegun
    <2>3. ASSUME NEW p \in Peers, NEW t \in Threads,
                 BackgroundNumber(p, t) \/ BackgroundBuffer(p, t) \/ BackgroundQueue(p, t)
          PROVE  Inv'
        BY <2>3, NumberStep, BufferStep, QueueStep, BackgroundBegun
    <2>4. ASSUME NEW p \in Peers, Receive(p) \/ Transmit(p) PROVE Inv'
        BY <2>4, ReceiveStep, ReceiveBegun, TransmitStep, TransmitBegun
    <2>5. CASE Disconnect \/ LoseWrite \/ Reconnect \/ Resync
        BY <2>5, DisconnectStep, LoseWriteStep, ReconnectStep, ResyncStep, ConnectionBegun
    <2> QED BY <1>1, <2>1, <2>2, <2>3, <2>4, <2>5 DEF Next
<1>2. CASE UNCHANGED vars
    BY <1>2 DEF vars, Core, Begun, Announced, AnswersMatch, Nexts, Supply
<1> QED BY <1>1, <1>2

\* Every envelope on its way is one its receiver may get, however often the
\* connection dropped.
THEOREM ChannelInvariant == Spec => []Inv
BY InitInv, NextInv, PTL DEF Spec

LEMMA InvTyped == Inv => TypeOK
<1> SUFFICES ASSUME Inv PROVE TypeOK
    OBVIOUS
<1>1. Channel(EnvelopeType) = ChannelType
    BY DEF Channel, ChannelType
<1>2. work \in [Peers -> [Threads -> Seq(EnvelopeType)]]
    <2>1. \A e \in Sends : <<e>> \in Seq(EnvelopeType)
        BY DEF Sends
    <2>2. Works \subseteq Seq(EnvelopeType)
        BY <2>1, EmptySeq DEF Works
    <2> QED BY <2>2 DEF Inv, Core
<1> QED BY <1>1, <1>2 DEF Inv, Core, TypeOK

\* Both channels, the wires between them and the client's state keep their types.
THEOREM TypeCorrect == Spec => []TypeOK
BY ChannelInvariant, InvTyped, PTL

\* On either side a request is answered by a response and a flush by an ack:
\* start_handling_messages finds no other waiter under the id an envelope responds to,
\* although the ack of a RemoteStarted responds to id 0, both sides number from 0 and
\* ask, and a resync delivers envelopes twice.
THEOREM Matching == Spec => []AnswersMatch
<1>1. Inv => AnswersMatch
    BY DEF Inv, Core
<1> QED BY <1>1, ChannelInvariant, PTL

(***************************************************************************)
(* Before the first drop.  What p's peer has handled, what is on its way   *)
(* to it and what p's threads have in hand are told apart by their ids;    *)
(* without threads they are in the order of their ids.                     *)
(***************************************************************************)

Message == {"send", "request", "response"}

Apart(a, b) == IF Threads = {} THEN a < b ELSE a # b

\* The id of what a thread has in hand is neither on the line nor handled, and
\* no other thread's.
Own(got, line, next, hands, t) ==
    LET id == hands[t][1].id
    IN  /\ id < next
        /\ \A i \in 1 .. Len(got) : got[i] # id
        /\ \A i \in 1 .. Len(line) : line[i].kind \in Message => line[i].id # id
        /\ \A u \in Threads \ {t} : hands[u] # <<>> => hands[u][1].id # id

Orderly(got, line, next, hands) ==
    /\ \A i \in 1 .. Len(got) : got[i] < next
    /\ \A i, j \in 1 .. Len(got) : i < j => Apart(got[i], got[j])
    /\ \A i \in 1 .. Len(line) : line[i].kind # "flush"
    /\ \A i \in 1 .. Len(line) : line[i].kind \in Message =>
          /\ line[i].id < next
          /\ \A k \in 1 .. Len(got) : Apart(got[k], line[i].id)
    /\ \A i, j \in 1 .. Len(line) :
          (i < j /\ line[i].kind \in Message /\ line[j].kind \in Message)
              => Apart(line[i].id, line[j].id)
    /\ \A t \in Threads : hands[t] # <<>> => Own(got, line, next, hands, t)

\* What is on its way from p to its peer, and what p may still queue.
Ordered(p) ==
    Orderly(received[Other(p)], wire[p] \o ch[p].outgoing, ch[p].next, work[p])

\* Nothing is resynced before a connection drops.
Calm ==
    /\ link = "up" /\ state \in {"connecting", "started", "connected"}
    /\ \A p \in Peers : Ordered(p)

Before ==
    /\ budget.drops <= MaxDrops
    /\ budget.drops = MaxDrops => Calm

-----------------------------------------------------------------------------
(* The line of a sender.                                                    *)

LEMMA QueuedLast ==
    ASSUME NEW w \in Seq(EnvelopeType), NEW o \in Seq(EnvelopeType), NEW e \in EnvelopeType
    PROVE  w \o Append(o, e) = Append(w \o o, e)
<1>1. <<e>> \in Seq(EnvelopeType) /\ w \o o \in Seq(EnvelopeType)
    BY ConcatProperties
<1>2. Append(o, e) = o \o <<e>> /\ Append(w \o o, e) = (w \o o) \o <<e>>
    BY <1>1, AppendIsConcat
<1> QED BY <1>1, <1>2, ConcatAssociative

LEMMA TransmittedInPlace ==
    ASSUME NEW w \in Seq(EnvelopeType), NEW o \in Seq(EnvelopeType), o # <<>>
    PROVE  Append(w, Head(o)) \o Tail(o) = w \o o
<1>1. Head(o) \in EnvelopeType /\ Tail(o) \in Seq(EnvelopeType) /\ <<Head(o)>> \in Seq(EnvelopeType)
    BY HeadTailProperties
<1>2. Append(w, Head(o)) = w \o <<Head(o)>>
    BY <1>1, AppendIsConcat
<1>3. <<Head(o)>> \o Tail(o) = o
    <2>1. Len(o) \in Nat \ {0} /\ Len(Tail(o)) = Len(o) - 1
        BY EmptySeq, HeadTailProperties
    <2>2. SubSeq(o, 1, Len(o)) = <<o[1]>> \o SubSeq(o, 2, Len(o))
        BY <2>1, SubSeqRecursiveFirst
    <2>3. o[1] = Head(o) /\ Tail(o) = SubSeq(o, 2, Len(o)) /\ SubSeq(o, 1, Len(o)) = o
        BY TailIsSubSeq, SubSeqFull
    <2> QED BY <2>2, <2>3
<1> QED BY <1>1, <1>2, <1>3, ConcatAssociative

LEMMA ReadFirst ==
    ASSUME NEW w \in Seq(EnvelopeType), NEW o \in Seq(EnvelopeType), w # <<>>
    PROVE  /\ w \o o # <<>> /\ w \o o \in Seq(EnvelopeType) /\ Head(w \o o) = Head(w)
           /\ Tail(w) \o o = Tail(w \o o)
<1>1. /\ w \o o \in Seq(EnvelopeType) /\ Len(w \o o) = Len(w) + Len(o)
      /\ \A i \in 1 .. Len(w) + Len(o) : (w \o o)[i] = IF i <= Len(w) THEN w[i] ELSE o[i - Len(w)]
    BY ConcatProperties
<1>2. Len(w) \in Nat \ {0} /\ Len(o) \in Nat
    BY EmptySeq
<1>3. w \o o # <<>>
    BY <1>1, <1>2
<1>4. Head(w \o o) = Head(w)
    BY <1>1, <1>2
<1>5. /\ Tail(w) \in Seq(EnvelopeType) /\ Len(Tail(w)) = Len(w) - 1
      /\ \A i \in 1 .. Len(w) - 1 : Tail(w)[i] = w[i + 1]
    BY HeadTailProperties
<1>6. /\ Tail(w \o o) \in Seq(EnvelopeType) /\ Len(Tail(w \o o)) = Len(w) + Len(o) - 1
      /\ \A i \in 1 .. Len(w) + Len(o) - 1 : Tail(w \o o)[i] = (w \o o)[i + 1]
    BY <1>1, <1>3, HeadTailProperties
<1>7. /\ Tail(w) \o o \in Seq(EnvelopeType) /\ Len(Tail(w) \o o) = Len(w) - 1 + Len(o)
      /\ \A i \in 1 .. Len(w) - 1 + Len(o) :
            (Tail(w) \o o)[i] = IF i <= Len(w) - 1 THEN Tail(w)[i] ELSE o[i - (Len(w) - 1)]
    BY <1>5, ConcatProperties
<1>8. ASSUME NEW i \in 1 .. Len(w) - 1 + Len(o) PROVE (Tail(w) \o o)[i] = Tail(w \o o)[i]
    <2>1. i + 1 \in 1 .. Len(w) + Len(o) /\ i \in 1 .. Len(w) + Len(o) - 1
        BY <1>2
    <2>2. CASE i <= Len(w) - 1
        BY <1>1, <1>2, <1>5, <1>6, <1>7, <2>1, <2>2
    <2>3. CASE i > Len(w) - 1
        <3>1. (Tail(w) \o o)[i] = o[i - (Len(w) - 1)]
            BY <1>2, <1>7, <2>3
        <3>2. Tail(w \o o)[i] = o[i + 1 - Len(w)]
            BY <1>1, <1>2, <1>6, <2>1, <2>3
        <3>3. i - (Len(w) - 1) = i + 1 - Len(w)
            BY <1>2
        <3> QED BY <3>1, <3>2, <3>3
    <2> QED BY <1>2, <2>2, <2>3
<1>9. Tail(w) \o o = Tail(w \o o)
    <2>1. PICK x \in Seq(EnvelopeType) : x = Tail(w) \o o
        BY <1>7
    <2>2. PICK y \in Seq(EnvelopeType) : y = Tail(w \o o)
        BY <1>6
    <2>3. Len(x) = Len(w) - 1 + Len(o)
        BY <1>7, <2>1
    <2>4. Len(y) = Len(w) + Len(o) - 1
        BY <1>6, <2>2
    <2>5. Len(x) = Len(y)
        BY <1>2, <2>3, <2>4
    <2>6. \A i \in 1 .. Len(x) : x[i] = y[i]
        BY <1>8, <2>1, <2>2, <2>3, Zenon
    <2>7. x = y
        BY <2>5, <2>6, SeqEqual
    <2> QED BY <2>1, <2>2, <2>7
<1> QED BY <1>1, <1>3, <1>4, <1>9

-----------------------------------------------------------------------------
(* What a step makes of the order, of which a handled message and a given   *)
(* id are each one end.                                                     *)

\* A new last envelope, with an id that was just given out.
LEMMA PostedOrderly ==
    ASSUME NEW got \in Seq(Nat), NEW line \in Seq(EnvelopeType), NEW next \in Nat,
           NEW hands \in [Threads -> Works], Orderly(got, line, next, hands),
           NEW e \in EnvelopeType, e.id = next, e.kind # "flush"
    PROVE  Orderly(got, Append(line, e), next + 1, hands)
<1> DEFINE new == Append(line, e)
<1>1. /\ Len(new) = Len(line) + 1 /\ new[Len(line) + 1] = e
      /\ \A i \in 1 .. Len(line) : new[i] = line[i]
    BY AppendProperties
<1> HIDE DEF new
<1>2. Len(got) \in Nat /\ Len(line) \in Nat
    OBVIOUS
<1>3. /\ \A i \in 1 .. Len(got) : got[i] \in Nat
      /\ \A i \in 1 .. Len(line) : line[i].id \in Nat
    <2>1. \A i \in 1 .. Len(line) : line[i] \in EnvelopeType
        BY ElementOfSeq
    <2>2. \A f \in EnvelopeType : f.id \in Nat
        BY DEF EnvelopeType
    <2> QED BY <2>1, <2>2
<1>4. \A i \in 1 .. Len(got) : got[i] < next + 1 /\ Apart(got[i], e.id)
    BY <1>3 DEF Orderly, Apart
<1>5. \A i \in 1 .. Len(line) :
          line[i].kind \in Message => line[i].id < next + 1 /\ Apart(line[i].id, e.id)
    BY <1>3 DEF Orderly, Apart
<1>6. \A i \in 1 .. Len(new) : i \in 1 .. Len(line) \/ (i = Len(line) + 1 /\ new[i] = e)
    BY <1>1, <1>2
<1>7. \A i \in 1 .. Len(new) : new[i].kind # "flush"
    BY <1>1, <1>6 DEF Orderly
<1>8. \A i \in 1 .. Len(new) : new[i].kind \in Message =>
          /\ new[i].id < next + 1
          /\ \A k \in 1 .. Len(got) : Apart(got[k], new[i].id)
    <2> SUFFICES ASSUME NEW i \in 1 .. Len(new), new[i].kind \in Message
                 PROVE  new[i].id < next + 1 /\ \A k \in 1 .. Len(got) : Apart(got[k], new[i].id)
        OBVIOUS
    <2>1. CASE i \in 1 .. Len(line)
        <3>1. new[i] = line[i]
            BY <1>1, <2>1
        <3> QED BY <1>5, <2>1, <3>1 DEF Orderly
    <2>2. CASE new[i] = e
        BY <1>4, <2>2
    <2> QED BY <1>6, <2>1, <2>2
<1>9. ASSUME NEW i \in 1 .. Len(new), NEW j \in 1 .. Len(new), i < j,
             new[i].kind \in Message, new[j].kind \in Message
      PROVE  Apart(new[i].id, new[j].id)
    <2>1. i \in 1 .. Len(line) /\ new[i] = line[i]
        BY <1>1, <1>2, <1>9
    <2>2. CASE j \in 1 .. Len(line)
        BY <1>1, <1>9, <2>1, <2>2 DEF Orderly
    <2>3. CASE new[j] = e
        BY <1>5, <1>9, <2>1, <2>3
    <2> QED BY <1>6, <2>2, <2>3
<1>10. ASSUME NEW t \in Threads, hands[t] # <<>> PROVE Own(got, new, next + 1, hands, t)
    <2>1. Own(got, line, next, hands, t)
        BY <1>10 DEF Orderly
    <2>2. PICK id : id = hands[t][1].id
        OBVIOUS
    <2>3. hands[t] \in Works /\ id \in Nat
        BY <1>10, <2>2 DEF Works, Sends, EnvelopeType
    <2>4. \A i \in 1 .. Len(new) : new[i].kind \in Message => new[i].id # id
        BY <1>1, <1>6, <2>1, <2>2, <2>3 DEF Own
    <2>5. id < next + 1
        BY <2>1, <2>2, <2>3 DEF Own
    <2> QED BY <2>1, <2>2, <2>4, <2>5 DEF Own
<1> QED BY <1>4, <1>7, <1>8, <1>9, <1>10 DEF Orderly, new

\* The handling of the first envelope.
LEMMA TakenOrderly ==
    ASSUME NEW got \in Seq(Nat), NEW line \in Seq(EnvelopeType), NEW next \in Nat,
           NEW hands \in [Threads -> Works], Orderly(got, line, next, hands), line # <<>>
    PROVE  /\ Orderly(got, Tail(line), next, hands)
           /\ Head(line).kind \in Message =>
                 Orderly(Append(got, Head(line).id), Tail(line), next, hands)
<1> DEFINE rest == Tail(line)
           new == Append(got, Head(line).id)
<1>1. /\ Len(line) \in Nat \ {0} /\ Len(rest) = Len(line) - 1 /\ Head(line) = line[1]
      /\ \A i \in 1 .. Len(rest) : rest[i] = line[i + 1] /\ i + 1 \in 1 .. Len(line)
    BY HeadTailProperties, EmptySeq
<1>2. Head(line).id \in Nat
    <2>1. Head(line) \in EnvelopeType
        BY HeadTailProperties
    <2> QED BY <2>1 DEF EnvelopeType
<1>3. /\ Len(got) \in Nat /\ Len(new) = Len(got) + 1 /\ new[Len(got) + 1] = Head(line).id
      /\ \A i \in 1 .. Len(got) : new[i] = got[i]
    BY <1>2, AppendProperties
<1> HIDE DEF rest, new
<1>4. /\ \A i \in 1 .. Len(rest) : rest[i].kind # "flush"
      /\ \A i \in 1 .. Len(rest) : rest[i].kind \in Message =>
            /\ rest[i].id < next
            /\ \A k \in 1 .. Len(got) : Apart(got[k], rest[i].id)
    BY <1>1 DEF Orderly
<1>5. ASSUME NEW i \in 1 .. Len(rest), NEW j \in 1 .. Len(rest), i < j,
             rest[i].kind \in Message, rest[j].kind \in Message
      PROVE  Apart(rest[i].id, rest[j].id)
    <2>1. i + 1 < j + 1
        BY <1>1, <1>5
    <2> QED BY <1>1, <1>5, <2>1 DEF Orderly
<1>6. ASSUME NEW t \in Threads, hands[t] # <<>> PROVE Own(got, rest, next, hands, t)
    <2>1. Own(got, line, next, hands, t)
        BY <1>6 DEF Orderly
    <2>2. \A i \in 1 .. Len(rest) : rest[i].kind \in Message => rest[i].id # hands[t][1].id
        BY <1>1, <2>1 DEF Own
    <2> QED BY <2>1, <2>2 DEF Own
<1>7. Orderly(got, rest, next, hands)
    BY <1>4, <1>5, <1>6 DEF Orderly
<1>8. ASSUME Head(line).kind \in Message PROVE Orderly(new, rest, next, hands)
    <2>1. \A i \in 1 .. Len(new) : i \in 1 .. Len(got) \/ (i = Len(got) + 1 /\ new[i] = Head(line).id)
        BY <1>3
    <2>2. /\ Head(line).id < next /\ 1 \in 1 .. Len(line)
          /\ \A k \in 1 .. Len(got) : Apart(got[k], Head(line).id)
        BY <1>1, <1>8 DEF Orderly
    <2>3. \A i \in 1 .. Len(rest) : rest[i].kind \in Message => Apart(Head(line).id, rest[i].id)
        <3> SUFFICES ASSUME NEW i \in 1 .. Len(rest), rest[i].kind \in Message
                     PROVE  Apart(Head(line).id, rest[i].id)
            OBVIOUS
        <3>1. 1 < i + 1
            BY <1>1
        <3> QED BY <1>1, <1>8, <2>2, <3>1 DEF Orderly
    <2>4. \A i \in 1 .. Len(new) : new[i] < next
        BY <1>3, <2>1, <2>2 DEF Orderly
    <2>5. ASSUME NEW i \in 1 .. Len(new), NEW j \in 1 .. Len(new), i < j PROVE Apart(new[i], new[j])
        <3>1. i \in 1 .. Len(got)
            BY <1>3, <2>5
        <3> QED BY <1>3, <2>1, <2>2, <2>5, <3>1 DEF Orderly
    <2>6. \A i \in 1 .. Len(rest) : rest[i].kind \in Message =>
              \A k \in 1 .. Len(new) : Apart(new[k], rest[i].id)
        BY <1>3, <1>4, <2>1, <2>3
    <2>7. ASSUME NEW t \in Threads, hands[t] # <<>> PROVE Own(new, rest, next, hands, t)
        <3>1. Own(got, rest, next, hands, t)
            BY <1>6, <2>7
        <3>2. Head(line).id # hands[t][1].id
            BY <1>1, <1>8, <2>2, <2>7 DEF Orderly, Own
        <3>3. \A i \in 1 .. Len(new) : new[i] # hands[t][1].id
            BY <1>3, <2>1, <3>1, <3>2 DEF Own
        <3> QED BY <3>1, <3>3 DEF Own
    <2> QED BY <1>4, <1>5, <2>4, <2>5, <2>6, <2>7 DEF Orderly
<1> QED BY <1>7, <1>8 DEF rest, new

\* Thread t now has `what` in hand, and the others what they had.
Holding(hands, new, t, what) ==
    new[t] = what /\ \A u \in Threads \ {t} : new[u] = hands[u]

\* A thread takes an id in hand that was just given out.
LEMMA NumberedOrderly ==
    ASSUME NEW got \in Seq(Nat), NEW line \in Seq(EnvelopeType), NEW next \in Nat,
           NEW hands \in [Threads -> Works], Orderly(got, line, next, hands),
           NEW t \in Threads, NEW e \in Sends, e.id = next,
           NEW new, Holding(hands, new, t, <<e>>)
    PROVE  Orderly(got, line, next + 1, new)
<1>1. new[t] = <<e>> /\ new[t][1] = e /\ \A u \in Threads \ {t} : new[u] = hands[u]
    BY DEF Holding
<1>2. /\ \A i \in 1 .. Len(got) : got[i] \in Nat
      /\ \A i \in 1 .. Len(line) : line[i].id \in Nat
    <2>1. \A i \in 1 .. Len(line) : line[i] \in EnvelopeType
        BY ElementOfSeq
    <2>2. \A f \in EnvelopeType : f.id \in Nat
        BY DEF EnvelopeType
    <2> QED BY <2>1, <2>2, ElementOfSeq
<1>3. ASSUME NEW u \in Threads, u # t, hands[u] # <<>>
      PROVE  hands[u][1].id < next /\ hands[u][1].id \in Nat
    <2>1. hands[u] \in Works /\ Own(got, line, next, hands, u)
        BY <1>3 DEF Orderly
    <2>2. hands[u][1].id \in Nat
        BY <1>3, <2>1 DEF Works, Sends, EnvelopeType
    <2> QED BY <2>1, <2>2 DEF Own
<1>4. Own(got, line, next + 1, new, t)
    <2>1. \A i \in 1 .. Len(got) : got[i] # next
        BY <1>2 DEF Orderly
    <2>2. \A i \in 1 .. Len(line) : line[i].kind \in Message => line[i].id # next
        BY <1>2 DEF Orderly
    <2>3. \A u \in Threads \ {t} : new[u] # <<>> => new[u][1].id # next
        BY <1>1, <1>3
    <2> QED BY <1>1, <2>1, <2>2, <2>3 DEF Own
<1>5. ASSUME NEW u \in Threads \ {t}, new[u] # <<>> PROVE Own(got, line, next + 1, new, u)
    <2>1. hands[u] # <<>> /\ new[u] = hands[u] /\ Own(got, line, next, hands, u)
        BY <1>1, <1>5 DEF Orderly
    <2>2. hands[u][1].id < next /\ hands[u][1].id \in Nat
        BY <1>3, <2>1
    <2>3. \A v \in Threads \ {u} : new[v] # <<>> => new[v][1].id # hands[u][1].id
        BY <1>1, <2>1, <2>2 DEF Own
    <2>4. hands[u][1].id < next + 1
        BY <2>2
    <2> QED BY <2>1, <2>3, <2>4 DEF Own
<1>6. /\ \A i \in 1 .. Len(got) : got[i] < next + 1
      /\ \A i \in 1 .. Len(line) : line[i].kind \in Message => line[i].id < next + 1
    BY <1>2 DEF Orderly
<1> QED BY <1>4, <1>5, <1>6 DEF Orderly

\* A thread's envelope gets the last id received; its own id stays.
LEMMA BufferedOrderly ==
    ASSUME NEW got \in Seq(Nat), NEW line \in Seq(EnvelopeType), NEW next \in Nat,
           NEW hands \in [Threads -> Works], Orderly(got, line, next, hands),
           NEW t \in Threads, NEW e \in Sends, NEW f \in Sends, hands[t] = <<e>>, f.id = e.id,
           NEW new, Holding(hands, new, t, <<f>>)
    PROVE  Orderly(got, line, next, new)
<1>1. /\ new[t] = <<f>> /\ new[t][1].id = hands[t][1].id /\ hands[t] # <<>>
      /\ \A u \in Threads \ {t} : new[u] = hands[u]
    BY DEF Holding
<1>2. \A u \in Threads : new[u] # <<>> => hands[u] # <<>> /\ new[u][1].id = hands[u][1].id
    BY <1>1
<1>3. ASSUME NEW u \in Threads, new[u] # <<>> PROVE Own(got, line, next, new, u)
    <2>1. Own(got, line, next, hands, u)
        BY <1>2, <1>3 DEF Orderly
    <2> QED BY <1>2, <1>3, <2>1 DEF Own
<1> QED BY <1>3 DEF Orderly

\* A thread queues what it has in hand.
LEMMA QueuedOrderly ==
    ASSUME NEW got \in Seq(Nat), NEW line \in Seq(EnvelopeType), NEW next \in Nat,
           NEW hands \in [Threads -> Works], Orderly(got, line, next, hands),
           NEW t \in Threads, NEW e \in Sends, hands[t] = <<e>>,
           NEW new, Holding(hands, new, t, <<>>)
    PROVE  Orderly(got, Append(line, e), next, new)
<1> DEFINE longer == Append(line, e)
<1>1. new[t] = <<>> /\ hands[t] # <<>> /\ hands[t][1] = e /\ \A u \in Threads \ {t} : new[u] = hands[u]
    BY DEF Holding
<1>2. /\ Len(line) \in Nat /\ Len(longer) = Len(line) + 1 /\ longer[Len(line) + 1] = e
      /\ \A i \in 1 .. Len(line) : longer[i] = line[i]
    <2>1. e \in EnvelopeType
        BY DEF Sends
    <2> QED BY <2>1, AppendProperties
<1> HIDE DEF longer
<1>3. Own(got, line, next, hands, t) /\ e.kind = "send"
    BY <1>1 DEF Orderly, Sends
<1>4. \A a, b : Apart(a, b) <=> a # b
    BY DEF Apart
<1>5. \A i \in 1 .. Len(longer) : i \in 1 .. Len(line) \/ (i = Len(line) + 1 /\ longer[i] = e)
    BY <1>2
<1>6. /\ e.id < next /\ \A k \in 1 .. Len(got) : Apart(got[k], e.id)
      /\ \A i \in 1 .. Len(line) : line[i].kind \in Message => Apart(line[i].id, e.id)
    BY <1>1, <1>3, <1>4 DEF Own
<1>7. \A i \in 1 .. Len(longer) : longer[i].kind # "flush"
    BY <1>2, <1>3, <1>5 DEF Orderly
<1>8. ASSUME NEW i \in 1 .. Len(longer), longer[i].kind \in Message
      PROVE  longer[i].id < next /\ \A k \in 1 .. Len(got) : Apart(got[k], longer[i].id)
    <2>1. CASE i \in 1 .. Len(line)
        <3>1. longer[i] = line[i]
            BY <1>2, <2>1
        <3> QED BY <1>8, <2>1, <3>1 DEF Orderly
    <2>2. CASE longer[i] = e
        BY <1>6, <2>2
    <2> QED BY <1>5, <2>1, <2>2
<1>9. ASSUME NEW i \in 1 .. Len(longer), NEW j \in 1 .. Len(longer), i < j,
             longer[i].kind \in Message, longer[j].kind \in Message
      PROVE  Apart(longer[i].id, longer[j].id)
    <2>1. i \in 1 .. Len(line) /\ longer[i] = line[i]
        BY <1>2, <1>9
    <2>2. CASE j \in 1 .. Len(line)
        BY <1>2, <1>9, <2>1, <2>2 DEF Orderly
    <2>3. CASE longer[j] = e
        BY <1>6, <1>9, <2>1, <2>3
    <2> QED BY <1>5, <2>2, <2>3
<1>10. ASSUME NEW u \in Threads, new[u] # <<>> PROVE Own(got, longer, next, new, u)
    <2>1. u # t /\ new[u] = hands[u] /\ Own(got, line, next, hands, u)
        BY <1>1, <1>10 DEF Orderly
    <2>2. e.id # hands[u][1].id
        BY <1>1, <1>3, <1>10, <2>1 DEF Own
    <2>3. \A i \in 1 .. Len(longer) : longer[i].kind \in Message => longer[i].id # hands[u][1].id
        BY <1>2, <1>5, <2>1, <2>2 DEF Own
    <2>4. \A v \in Threads \ {u} : new[v] # <<>> => new[v][1].id # hands[u][1].id
        BY <1>1, <2>1 DEF Own
    <2> QED BY <2>1, <2>3, <2>4 DEF Own
<1> QED BY <1>7, <1>8, <1>9, <1>10 DEF Orderly, longer

-----------------------------------------------------------------------------
(* The lines of the peers in a step.                                        *)

LEMMA LineTyped ==
    ASSUME Inv, NEW p \in Peers
    PROVE  /\ wire[p] \in Seq(EnvelopeType) /\ ch[p].outgoing \in Seq(EnvelopeType)
           /\ wire[p] \o ch[p].outgoing \in Seq(EnvelopeType)
           /\ received[Other(p)] \in Seq(Nat) /\ ch[p].next \in Nat /\ work[p] \in [Threads -> Works]
<1>1. Other(p) \in Peers
    BY DEF Other, Peers
<1>2. wire[p] \in Seq(EnvelopeType) /\ ch[p].outgoing \in Seq(EnvelopeType) /\ ch[p].next \in Nat
    BY Known DEF Inv, Core
<1> QED BY <1>1, <1>2, ConcatProperties DEF Inv, Core

LEMMA OtherLine ==
    ASSUME NEW p \in Peers, Ordered(p),
           wire'[p] = wire[p], ch'[p].outgoing = ch[p].outgoing, ch'[p].next = ch[p].next,
           work'[p] = work[p], received'[Other(p)] = received[Other(p)]
    PROVE  Ordered(p)'
BY DEF Ordered

LEMMA PostedLine ==
    ASSUME Inv, NEW p \in Peers, Ordered(p), NEW e \in EnvelopeType, e.id = ch[p].next, e.kind # "flush",
           ch'[p].outgoing = Append(ch[p].outgoing, e), ch'[p].next = ch[p].next + 1,
           wire'[p] = wire[p], work'[p] = work[p], received'[Other(p)] = received[Other(p)]
    PROVE  Ordered(p)'
<1>1. wire[p] \o Append(ch[p].outgoing, e) = Append(wire[p] \o ch[p].outgoing, e)
    <2>1. /\ wire[p] \in Seq(EnvelopeType) /\ ch[p].outgoing \in Seq(EnvelopeType)
          /\ wire[p] \o ch[p].outgoing \in Seq(EnvelopeType)
          /\ received[Other(p)] \in Seq(Nat) /\ ch[p].next \in Nat /\ work[p] \in [Threads -> Works]
        BY LineTyped
    <2> QED BY <2>1, QueuedLast
<1>2. Orderly(received[Other(p)], Append(wire[p] \o ch[p].outgoing, e), ch[p].next + 1, work[p])
    BY LineTyped, PostedOrderly DEF Ordered
<1> QED BY <1>1, <1>2 DEF Ordered

LEMMA TakenLine ==
    ASSUME Inv, NEW p \in Peers, Ordered(p), wire[p] # <<>>,
           wire'[p] = Tail(wire[p]), ch'[p].outgoing = ch[p].outgoing, ch'[p].next = ch[p].next,
           work'[p] = work[p],
           \/ received'[Other(p)] = received[Other(p)]
           \/ /\ Head(wire[p]).kind \in Message
              /\ received'[Other(p)] = Append(received[Other(p)], Head(wire[p]).id)
    PROVE  Ordered(p)'
<1> DEFINE line == wire[p] \o ch[p].outgoing
<1>1. /\ line # <<>> /\ line \in Seq(EnvelopeType) /\ Head(line) = Head(wire[p])
      /\ Tail(wire[p]) \o ch[p].outgoing = Tail(line)
    BY LineTyped, ReadFirst
<1>2. Orderly(received[Other(p)], line, ch[p].next, work[p])
    BY DEF Ordered
<1> HIDE DEF line
<1>3. /\ Orderly(received[Other(p)], Tail(line), ch[p].next, work[p])
      /\ Head(line).kind \in Message =>
            Orderly(Append(received[Other(p)], Head(line).id), Tail(line), ch[p].next, work[p])
    BY <1>1, <1>2, LineTyped, TakenOrderly
<1>4. Orderly(received'[Other(p)], Tail(line), ch[p].next, work[p])
    BY <1>1, <1>3
<1> QED BY <1>1, <1>4 DEF Ordered

-----------------------------------------------------------------------------
(* One lemma per action that can happen before the first drop.              *)

LEMMA ForegroundCalm ==
    ASSUME Inv, Calm, NEW p \in Peers, NEW kind \in {"send", "request"}, SendForeground(p, kind)
    PROVE  Calm'
<1> DEFINE e == Envelope(kind, ch[p].next, None, ch[p].maxReceived)
           x == Post(ch[p], kind, None)
<1>1. ch' = [ch EXCEPT ![p] = x] /\ UNCHANGED <<wire, work, state, link, received>>
    BY DEF SendForeground
<1>2. ch[p] \in Channel(EnvelopeType) /\ e \in EnvelopeType /\ e.id = ch[p].next /\ e.kind = kind
    <2>1. ch[p].next \in Nat /\ ch[p].maxReceived \in Nat
        BY Known DEF Inv
    <2>2. e \in EnvelopeType
        BY <2>1, EnvelopeTyped
    <2> QED BY <2>2 DEF Inv, Core, Envelope
<1>3. x.next = ch[p].next + 1 /\ x.outgoing = Append(ch[p].outgoing, e)
    BY <1>2, PostKeeps
<1> HIDE DEF x, e
<1>4. Ordered(p)'
    <2>1. ch'[p] = x
        BY <1>1 DEF Inv, Core
    <2> QED BY <1>1, <1>2, <1>3, <2>1, PostedLine DEF Calm
<1>5. \A q \in Peers \ {p} : Ordered(q)'
    BY <1>1, OtherLine DEF Calm, Inv, Core
<1> QED BY <1>1, <1>4, <1>5 DEF Calm

LEMMA RespondCalm == ASSUME Inv, Calm, NEW p \in Peers, Respond(p) PROVE Calm'
<1> DEFINE e == Envelope("response", ch[p].next, Head(todo[p]), ch[p].maxReceived)
           x == Post(ch[p], "response", Head(todo[p]))
<1>1. /\ ch' = [ch EXCEPT ![p] = x] /\ todo[p] # <<>>
      /\ UNCHANGED <<wire, work, state, link, received>>
    BY DEF Respond
<1>2. ch[p] \in Channel(EnvelopeType) /\ e \in EnvelopeType /\ e.id = ch[p].next /\ e.kind = "response"
    <2>1. ch[p].next \in Nat /\ ch[p].maxReceived \in Nat
        BY Known DEF Inv
    <2>2. Head(todo[p]) \in Nat
        BY <1>1, HeadTailProperties DEF Inv, Core
    <2>3. e \in EnvelopeType
        BY <2>1, <2>2, EnvelopeTyped
    <2> QED BY <2>3 DEF Inv, Core, Envelope
<1>3. x.next = ch[p].next + 1 /\ x.outgoing = Append(ch[p].outgoing, e)
    BY <1>2, PostKeeps
<1> HIDE DEF x, e
<1>4. Ordered(p)'
    <2>1. ch'[p] = x
        BY <1>1 DEF Inv, Core
    <2> QED BY <1>1, <1>2, <1>3, <2>1, PostedLine DEF Calm
<1>5. \A q \in Peers \ {p} : Ordered(q)'
    BY <1>1, OtherLine DEF Calm, Inv, Core
<1> QED BY <1>1, <1>4, <1>5 DEF Calm

LEMMA NumberCalm ==
    ASSUME Inv, Calm, NEW p \in Peers, NEW t \in Threads, BackgroundNumber(p, t)
    PROVE  Calm'
<1> DEFINE e == Envelope("send", ch[p].next, None, None)
           x == [ch[p] EXCEPT !.next = @ + 1]
<1>1. /\ ch' = [ch EXCEPT ![p] = x] /\ work' = [work EXCEPT ![p][t] = <<e>>]
      /\ UNCHANGED <<wire, state, link, received>>
    BY DEF BackgroundNumber
<1>2. ch[p] \in Channel(EnvelopeType) /\ e \in Sends /\ e.id = ch[p].next
    <2>1. ch[p].next \in Nat
        BY Known DEF Inv
    <2>2. e \in EnvelopeType
        BY <2>1, EnvelopeTyped
    <2> QED BY <2>2 DEF Inv, Core, Envelope, Sends
<1>3. x.next = ch[p].next + 1 /\ x.outgoing = ch[p].outgoing
    BY <1>2, Numbered
<1> HIDE DEF x, e
<1>4. ch'[p] = x /\ Holding(work[p], work'[p], t, <<e>>)
    BY <1>1 DEF Inv, Core, Holding
<1>5. Orderly(received[Other(p)], wire[p] \o ch[p].outgoing, ch[p].next + 1, work'[p])
    <2>1. /\ wire[p] \in Seq(EnvelopeType) /\ ch[p].outgoing \in Seq(EnvelopeType)
          /\ wire[p] \o ch[p].outgoing \in Seq(EnvelopeType)
          /\ received[Other(p)] \in Seq(Nat) /\ ch[p].next \in Nat /\ work[p] \in [Threads -> Works]
        BY LineTyped
    <2>2. Orderly(received[Other(p)], wire[p] \o ch[p].outgoing, ch[p].next, work[p])
        BY DEF Calm, Ordered
    <2> QED BY <1>2, <1>4, <2>1, <2>2, NumberedOrderly
<1>6. Ordered(p)'
    BY <1>1, <1>3, <1>4, <1>5 DEF Ordered
<1>7. \A q \in Peers \ {p} : Ordered(q)'
    BY <1>1, OtherLine DEF Calm, Inv, Core
<1> QED BY <1>1, <1>6, <1>7 DEF Calm

LEMMA BufferCalm ==
    ASSUME Inv, Calm, NEW p \in Peers, NEW t \in Threads, BackgroundBuffer(p, t)
    PROVE  Calm'
<1>1. PICK e \in Sends : work[p][t] = <<e>> /\ Head(work[p][t]) = e
    BY InHand DEF BackgroundBuffer
<1> DEFINE x == Buffered(ch[p], e)
           f == [e EXCEPT !.ack = ch[p].maxReceived]
<1>2. /\ ch' = [ch EXCEPT ![p] = x] /\ work' = [work EXCEPT ![p][t] = <<Last(ch'[p].buffer)>>]
      /\ UNCHANGED <<wire, state, link, received>>
    BY <1>1 DEF BackgroundBuffer
<1>3. ch[p] \in Channel(EnvelopeType) /\ f \in Sends /\ f \in EnvelopeType /\ f.id = e.id
    <2>1. ch[p].maxReceived \in Nat
        BY Known DEF Inv
    <2> QED BY <2>1 DEF Inv, Core, Sends, EnvelopeType
<1>4. x.next = ch[p].next /\ x.outgoing = ch[p].outgoing /\ Last(x.buffer) = f
    BY <1>3, BufferedKeeps
<1> HIDE DEF x, f
<1>5. ch'[p] = x
    BY <1>2 DEF Inv, Core
<1>6. work' = [work EXCEPT ![p][t] = <<f>>]
    BY <1>2, <1>4, <1>5
<1>7. Holding(work[p], work'[p], t, <<f>>)
    BY <1>6 DEF Inv, Core, Holding
<1>8. Orderly(received[Other(p)], wire[p] \o ch[p].outgoing, ch[p].next, work'[p])
    <2>1. /\ wire[p] \in Seq(EnvelopeType) /\ ch[p].outgoing \in Seq(EnvelopeType)
          /\ wire[p] \o ch[p].outgoing \in Seq(EnvelopeType)
          /\ received[Other(p)] \in Seq(Nat) /\ ch[p].next \in Nat /\ work[p] \in [Threads -> Works]
        BY LineTyped
    <2>2. Orderly(received[Other(p)], wire[p] \o ch[p].outgoing, ch[p].next, work[p])
        BY DEF Calm, Ordered
    <2> QED BY <1>1, <1>3, <1>7, <2>1, <2>2, BufferedOrderly
<1>9. Ordered(p)'
    BY <1>2, <1>4, <1>5, <1>8 DEF Ordered
<1>10. \A q \in Peers \ {p} : Ordered(q)'
    BY <1>2, <1>6, OtherLine DEF Calm, Inv, Core
<1> QED BY <1>2, <1>9, <1>10 DEF Calm

LEMMA QueueCalm ==
    ASSUME Inv, Calm, NEW p \in Peers, NEW t \in Threads, BackgroundQueue(p, t)
    PROVE  Calm'
<1>1. PICK e \in Sends : work[p][t] = <<e>> /\ Head(work[p][t]) = e
    BY InHand DEF BackgroundQueue
<1> DEFINE o == ch[p].outgoing \o <<e>>
           x == [ch[p] EXCEPT !.outgoing = o]
<1>2. /\ ch' = [ch EXCEPT ![p] = x] /\ work' = [work EXCEPT ![p][t] = <<>>]
      /\ UNCHANGED <<wire, state, link, received>>
    BY <1>1 DEF BackgroundQueue
<1>3. e \in EnvelopeType /\ ch[p] \in Channel(EnvelopeType)
    BY DEF Sends, Inv, Core
<1>4. o = Append(ch[p].outgoing, e)
    BY <1>3, LineTyped, AppendIsConcat
<1> HIDE DEF o
<1>5. x.next = ch[p].next /\ x.outgoing = o
    BY <1>3 DEF Channel
<1> HIDE DEF x
<1>6. ch'[p] = x /\ Holding(work[p], work'[p], t, <<>>)
    BY <1>2 DEF Inv, Core, Holding
<1>7. wire[p] \o o = Append(wire[p] \o ch[p].outgoing, e)
    <2>1. /\ wire[p] \in Seq(EnvelopeType) /\ ch[p].outgoing \in Seq(EnvelopeType)
          /\ wire[p] \o ch[p].outgoing \in Seq(EnvelopeType)
          /\ received[Other(p)] \in Seq(Nat) /\ ch[p].next \in Nat /\ work[p] \in [Threads -> Works]
        BY LineTyped
    <2> QED BY <1>3, <1>4, <2>1, QueuedLast
<1>8. Orderly(received[Other(p)], wire[p] \o o, ch[p].next, work'[p])
    <2>1. /\ wire[p] \in Seq(EnvelopeType) /\ ch[p].outgoing \in Seq(EnvelopeType)
          /\ wire[p] \o ch[p].outgoing \in Seq(EnvelopeType)
          /\ received[Other(p)] \in Seq(Nat) /\ ch[p].next \in Nat /\ work[p] \in [Threads -> Works]
        BY LineTyped
    <2>2. Orderly(received[Other(p)], wire[p] \o ch[p].outgoing, ch[p].next, work[p])
        BY DEF Calm, Ordered
    <2> QED BY <1>1, <1>6, <1>7, <2>1, <2>2, QueuedOrderly
<1>9. Ordered(p)'
    BY <1>2, <1>5, <1>6, <1>8 DEF Ordered
<1>10. \A q \in Peers \ {p} : Ordered(q)'
    BY <1>2, OtherLine DEF Calm, Inv, Core
<1> QED BY <1>2, <1>9, <1>10 DEF Calm

LEMMA TransmitCalm == ASSUME Inv, Calm, NEW p \in Peers, Transmit(p) PROVE Calm'
<1> DEFINE x == [ch[p] EXCEPT !.outgoing = Tail(@)]
<1>1. /\ ch' = [ch EXCEPT ![p] = x] /\ wire' = [wire EXCEPT ![p] = Append(@, Head(ch[p].outgoing))]
      /\ ch[p].outgoing # <<>> /\ UNCHANGED <<work, state, link, received>>
    BY DEF Transmit
<1>2. ch[p] \in Channel(EnvelopeType)
    BY DEF Inv, Core
<1>3. x.next = ch[p].next /\ x.outgoing = Tail(ch[p].outgoing)
    BY <1>2 DEF Channel
<1> HIDE DEF x
<1>4. ch'[p] = x /\ wire'[p] = Append(wire[p], Head(ch[p].outgoing))
    BY <1>1 DEF Inv, Core
<1>5. wire'[p] \o ch'[p].outgoing = wire[p] \o ch[p].outgoing
    <2>1. /\ wire[p] \in Seq(EnvelopeType) /\ ch[p].outgoing \in Seq(EnvelopeType)
          /\ wire[p] \o ch[p].outgoing \in Seq(EnvelopeType)
          /\ received[Other(p)] \in Seq(Nat) /\ ch[p].next \in Nat /\ work[p] \in [Threads -> Works]
        BY LineTyped
    <2>2. Append(wire[p], Head(ch[p].outgoing)) \o Tail(ch[p].outgoing) = wire[p] \o ch[p].outgoing
        BY <1>1, <2>1, TransmittedInPlace
    <2>3. ch'[p].outgoing = Tail(ch[p].outgoing)
        BY <1>3, <1>4
    <2> QED BY <1>4, <2>2, <2>3
<1>6. Ordered(p)'
    BY <1>1, <1>3, <1>4, <1>5 DEF Calm, Ordered
<1>7. \A q \in Peers \ {p} : Ordered(q)'
    BY <1>1, OtherLine DEF Calm, Inv, Core
<1> QED BY <1>1, <1>6, <1>7 DEF Calm

LEMMA ReceiveCalm == ASSUME Inv, Calm, NEW p \in Peers, Receive(p) PROVE Calm'
<1> DEFINE q == Other(p)
<1>1. p \in Peers /\ q \in Peers /\ q # p /\ Other(q) = p /\ Peers = {p, q}
    BY DEF Other, Peers
<1>2. PICK e : e = Head(wire[q])
    OBVIOUS
<1>3. /\ wire[q] # <<>> /\ wire' = [wire EXCEPT ![q] = Tail(wire[q])] /\ UNCHANGED <<work, link>>
      /\ ReceiveFlush(p, e) \/ ReceiveStarted(p, e) \/ ReceiveMessage(p, e)
    BY <1>2 DEF Receive
<1> HIDE DEF q
<1>4. wire'[q] = Tail(wire[q]) /\ wire'[p] = wire[p] /\ work' = work
    BY <1>1, <1>3 DEF Inv, Core
<1>5. wire[q] \in Seq(EnvelopeType) /\ ch[q].outgoing \in Seq(EnvelopeType)
    BY <1>1, LineTyped
<1>6. e \in EnvelopeType /\ e.id \in Nat
    <2>1. e \in EnvelopeType
        BY <1>2, <1>3, <1>5, HeadTailProperties
    <2> QED BY <2>1 DEF EnvelopeType
<1>7. e.kind # "flush"
    <2> DEFINE line == wire[q] \o ch[q].outgoing
    <2>1. line # <<>> /\ line \in Seq(EnvelopeType) /\ Head(line) = e
        BY <1>2, <1>3, <1>5, ReadFirst
    <2>2. \A i \in 1 .. Len(line) : line[i].kind # "flush"
        BY <1>1 DEF Calm, Ordered, Orderly
    <2> HIDE DEF line
    <2>3. Head(line) = line[1] /\ 1 \in 1 .. Len(line)
        BY <2>1, EmptySeq
    <2> QED BY <2>1, <2>2, <2>3
<1>8. /\ ch[p] \in Channel(EnvelopeType) /\ ch[p].next \in Nat
      /\ Ordered(p) /\ Ordered(q) /\ state # "resyncing"
    BY <1>1, Known DEF Inv, Core, Calm
<1>9. CASE ReceiveStarted(p, e)
    <2> DEFINE x == Ack(ch[p], e.id)
               a == Envelope("ack", ch[p].next, e.id, None)
    <2>1. /\ ch' = [ch EXCEPT ![p] = x] /\ received' = received
          /\ state' \in {"connecting", "started", "connected"}
        BY <1>9 DEF ReceiveStarted, Calm
    <2>2. a \in EnvelopeType /\ a.id = ch[p].next /\ a.kind # "flush"
        <3>1. a \in EnvelopeType
            BY <1>6, <1>8, EnvelopeTyped
        <3> QED BY <3>1 DEF Envelope
    <2>3. x.next = ch[p].next + 1 /\ x.outgoing = Append(ch[p].outgoing, a)
        BY <1>8, <2>2, AckKeeps
    <2> HIDE DEF x, a
    <2>4. ch'[p] = x /\ ch'[q] = ch[q]
        BY <1>1, <2>1 DEF Inv, Core
    <2>5. Ordered(p)'
        BY <1>1, <1>4, <1>8, <2>1, <2>2, <2>3, <2>4, PostedLine
    <2>6. Ordered(q)'
        BY <1>1, <1>3, <1>4, <1>8, <2>1, <2>4, TakenLine
    <2> QED BY <1>1, <1>3, <2>1, <2>5, <2>6 DEF Calm
<1>10. CASE ReceiveMessage(p, e)
    <2> DEFINE c == [Acked(p, e) EXCEPT !.maxReceived = e.id]
    <2>1. Acked(p, e) \in Channel(EnvelopeType) /\ Acked(p, e).next = ch[p].next
          /\ Acked(p, e).outgoing = ch[p].outgoing
        BY <1>6, <1>8, AckedKeeps
    <2>2. c.next = ch[p].next /\ c.outgoing = ch[p].outgoing
        BY <2>1 DEF Channel
    <2>3. ch' = [ch EXCEPT ![p] = c]
        BY <1>8, <1>10 DEF ReceiveMessage
    <2>4. /\ e.kind \in {"ack", "send", "request", "response"}
          /\ state' \in {"connecting", "started", "connected"}
          /\ received' = IF e.kind = "ack" THEN received ELSE [received EXCEPT ![p] = Append(@, e.id)]
        BY <1>10 DEF ReceiveMessage, Calm
    <2> HIDE DEF c
    <2>5. ch'[p] = c /\ ch'[q] = ch[q]
        BY <1>1, <2>3 DEF Inv, Core
    <2>6. received'[q] = received[q]
        BY <1>1, <2>4 DEF Inv, Core
    <2>7. \/ received'[p] = received[p]
          \/ e.kind \in Message /\ received'[p] = Append(received[p], e.id)
        BY <1>1, <2>4 DEF Inv, Core, Message
    <2>8. Ordered(p)'
        BY <1>1, <1>4, <1>8, <2>2, <2>5, <2>6, OtherLine DEF q
    <2>9. Ordered(q)'
        BY <1>1, <1>2, <1>3, <1>4, <1>8, <2>5, <2>7, TakenLine
    <2> QED BY <1>1, <1>3, <2>4, <2>8, <2>9 DEF Calm
<1>11. ~ReceiveFlush(p, e)
    BY <1>7 DEF ReceiveFlush
<1> QED BY <1>3, <1>9, <1>10, <1>11

-----------------------------------------------------------------------------
(* Together: until the first drop messages are told apart, and in order.    *)

LEMMA InitBefore == Init => Before
<1> SUFFICES ASSUME Init PROVE Before
    OBVIOUS
<1>1. /\ budget.drops = MaxDrops /\ link = "up" /\ state = "connecting"
      /\ MaxDrops \in Nat
    BY SendsAssumption DEF Init
<1>2. ASSUME NEW p \in Peers PROVE Ordered(p)
    <2>1. Other(p) \in Peers
        BY DEF Other, Peers
    <2>2. /\ wire[p] = <<>> /\ ch[p].outgoing = <<Started>> /\ ch[p].next = 0
          /\ received[Other(p)] = <<>> /\ \A t \in Threads : work[p][t] = <<>>
        BY <2>1 DEF Init
    <2>3. wire[p] \o ch[p].outgoing = <<Started>>
        BY <2>2
    <2>4. Started.kind = "started"
        BY DEF Started, Envelope
    <2>5. Orderly(<<>>, <<Started>>, 0, work[p])
        <3> DEFINE line == <<Started>>
        <3>1. Len(line) = 1 /\ line[1] = Started
            OBVIOUS
        <3> HIDE DEF line
        <3>2. \A i \in 1 .. Len(line) : line[i].kind # "flush" /\ line[i].kind \notin Message
            BY <2>4, <3>1 DEF Message
        <3>3. Len(<<>>) = 0
            OBVIOUS
        <3>4. Orderly(<<>>, line, 0, work[p])
            BY <2>2, <3>2, <3>3 DEF Orderly
        <3> QED BY <3>4 DEF line
    <2> QED BY <2>2, <2>3, <2>5 DEF Ordered
<1> QED BY <1>1, <1>2 DEF Before, Calm

LEMMA NextBefore == Inv /\ Before /\ [Next]_vars => Before'
<1> SUFFICES ASSUME Inv, Before, [Next]_vars PROVE Before'
    OBVIOUS
<1>1. budget.drops \in Nat /\ MaxDrops \in Nat
    BY SendsAssumption DEF Inv, Core
<1>2. CASE Disconnect
    <2>1. budget'.drops = budget.drops - 1
        BY <1>2 DEF Disconnect, Inv, Core
    <2> QED BY <1>1, <2>1 DEF Before
<1>3. CASE budget'.drops = budget.drops /\ (Calm => Calm')
    BY <1>3 DEF Before
<1>4. ASSUME NEW p \in Peers, NEW kind \in {"send", "request"}, SendForeground(p, kind)
      PROVE  budget'.drops = budget.drops /\ (Calm => Calm')
    BY <1>4, ForegroundCalm, Spent DEF SendForeground, MaySend, Inv, Core
<1>5. ASSUME NEW p \in Peers, NEW t \in Threads, BackgroundNumber(p, t)
      PROVE  budget'.drops = budget.drops /\ (Calm => Calm')
    BY <1>5, NumberCalm, Spent DEF BackgroundNumber, MaySend, Inv, Core
<1>6. ASSUME NEW p \in Peers, NEW t \in Threads, BackgroundBuffer(p, t) \/ BackgroundQueue(p, t)
      PROVE  budget'.drops = budget.drops /\ (Calm => Calm')
    <2>1. budget' = budget
        BY <1>6 DEF BackgroundBuffer, BackgroundQueue
    <2> QED BY <1>6, <2>1, BufferCalm, QueueCalm
<1>7. ASSUME NEW p \in Peers, Receive(p) \/ Transmit(p)
      PROVE  budget'.drops = budget.drops /\ (Calm => Calm')
    <2>1. budget' = budget
        BY <1>7 DEF Receive, Transmit
    <2> QED BY <1>7, <2>1, ReceiveCalm, TransmitCalm
<1>8. ASSUME NEW p \in Peers, Respond(p) PROVE budget'.drops = budget.drops /\ (Calm => Calm')
    <2>1. budget' = budget
        BY <1>8 DEF Respond
    <2> QED BY <1>8, <2>1, RespondCalm
<1>9. ASSUME LoseWrite \/ Reconnect \/ Resync PROVE budget'.drops = budget.drops /\ ~Calm
    BY <1>9 DEF LoseWrite, Reconnect, Resync, Calm
<1>10. ASSUME UNCHANGED vars PROVE budget'.drops = budget.drops /\ (Calm => Calm')
    BY <1>10 DEF vars, Calm, Ordered
<1> QED BY <1>2, <1>3, <1>4, <1>5, <1>6, <1>7, <1>8, <1>9, <1>10 DEF Next

LEMMA OrderInvariant == Spec => []Before
BY InitBefore, NextBefore, ChannelInvariant, PTL DEF Spec

LEMMA CalmApart ==
    ASSUME Inv, Calm, NEW p \in Peers
    PROVE  /\ received[p] \in Seq(Nat) /\ DOMAIN received[p] = 1 .. Len(received[p])
           /\ \A i, j \in 1 .. Len(received[p]) : i < j => Apart(received[p][i], received[p][j])
<1>1. Other(p) \in Peers /\ Other(Other(p)) = p
    BY DEF Other, Peers
<1>2. Ordered(Other(p))
    BY <1>1 DEF Calm
<1> QED BY <1>1, <1>2 DEF Ordered, Orderly, Inv, Core

\* Until the connection drops, start_handling_messages hands each message on at most
\* once, whatever threads it was sent from and in whatever order they queued it.
THEOREM AtMostOnce == Spec => []HandledOnce
<1>1. Inv /\ Before => HandledOnce
    <2> SUFFICES ASSUME Inv, Calm, NEW p \in Peers,
                        NEW i \in DOMAIN received[p], NEW j \in DOMAIN received[p],
                        received[p][i] = received[p][j]
                 PROVE  i = j
        BY DEF Before, HandledOnce
    <2>1. i \in 1 .. Len(received[p]) /\ j \in 1 .. Len(received[p]) /\ i \in Nat /\ j \in Nat
        BY CalmApart
    <2>2. received[p][i] \in Nat
        BY <2>1, CalmApart, ElementOfSeq
    <2>3. ~Apart(received[p][i], received[p][j]) /\ ~Apart(received[p][j], received[p][i])
        BY <2>2 DEF Apart
    <2>4. ~(i < j) /\ ~(j < i)
        BY <2>1, <2>3, CalmApart
    <2> QED BY <2>1, <2>4
<1> QED BY <1>1, ChannelInvariant, OrderInvariant, PTL

\* When everything is sent from the foreground thread, messages are handled in the
\* order of their ids until the connection drops.
THEOREM ForegroundOrder == ASSUME Threads = {} PROVE Spec => []InOrder
<1>1. Inv /\ Before => InOrder
    <2> SUFFICES ASSUME Inv, Calm, NEW p \in Peers,
                        NEW i \in DOMAIN received[p], NEW j \in DOMAIN received[p],
                        i < j
                 PROVE  received[p][i] < received[p][j]
        BY DEF Before, InOrder
    <2>1. Apart(received[p][i], received[p][j])
        BY CalmApart
    <2> QED BY <2>1 DEF Apart
<1> QED BY <1>1, ChannelInvariant, OrderInvariant, PTL

-----------------------------------------------------------------------------
(* Nothing is lost to one drop, when everything is sent from the foreground *)
(* thread.  Of a line from a sender to its peer, what stands in front of    *)
(* the first envelope of a set `marks` is what the peer will have read when *)
(* it gets there.                                                           *)

UpTo(q, marks) == {i \in 1 .. Len(q) : \A j \in 1 .. i - 1 : q[j] \notin marks}

\* The envelopes up to the first mark, which is included.
Old(q, marks) == {q[i] : i \in UpTo(q, marks)}

Items(q) == {q[i] : i \in 1 .. Len(q)}

Carries(q, i, n) == \E j \in 1 .. i : q[j].kind \in Message /\ q[j].id = n

\* Whoever reads an acknowledgement of id a may forget the messages up to it; id 0 is
\* what a peer acknowledges that has received nothing.
Told(a, sent, got, next) ==
    /\ a = 0 \/ a < next
    /\ \A n \in sent : 0 < n /\ n <= a => n \in got

Flushes == {e \in EnvelopeType : e.kind = "flush"}

Counted == Message \cup {"ack"}

\* What maxReceived will be set to up to the flush: all that was sent before
\* has been handled by then.
Gapless(q, sent, got, next) ==
    \A i \in UpTo(q, Flushes) : q[i].kind \in Counted =>
        /\ q[i].id < next
        /\ \A n \in sent : n <= q[i].id => n \in got \/ Carries(q, i, n)

Whole(q, sent, got) == \A n \in sent : n \in got \/ Carries(q, Len(q), n)

\* More ids are given out and sent, and more is handled.
Grows(sent, got, next, sent2, got2, next2) ==
    /\ sent2 \in SUBSET Nat /\ next2 \in Nat /\ next <= next2 /\ got \subseteq got2
    /\ \A n \in sent2 : n \in sent \/ n >= next

-----------------------------------------------------------------------------
(* Lemmas about lines.                                                      *)

LEMMA Taken ==
    ASSUME NEW q \in Seq(EnvelopeType), q # <<>>
    PROVE  /\ Len(q) \in Nat \ {0} /\ Head(q) = q[1] /\ Head(q) \in EnvelopeType
           /\ Tail(q) \in Seq(EnvelopeType) /\ Len(Tail(q)) = Len(q) - 1
           /\ \A i \in 1 .. Len(q) - 1 : Tail(q)[i] = q[i + 1]
BY EmptySeq, HeadTailProperties

LEMMA FirstOld ==
    ASSUME NEW q \in Seq(EnvelopeType), NEW marks, q # <<>>
    PROVE  1 \in UpTo(q, marks) /\ Head(q) \in Old(q, marks) /\ Head(q) \in Items(q)
<1>1. Len(q) \in Nat \ {0} /\ Head(q) = q[1]
    BY Taken
<1>2. 1 \in UpTo(q, marks)
    BY <1>1 DEF UpTo
<1> QED BY <1>1, <1>2 DEF Old, Items

LEMMA TailUpTo ==
    ASSUME NEW q \in Seq(EnvelopeType), NEW marks, q # <<>>, Head(q) \notin marks,
           NEW i \in UpTo(Tail(q), marks)
    PROVE  i \in 1 .. Len(q) - 1 /\ i + 1 \in UpTo(q, marks) /\ Tail(q)[i] = q[i + 1]
<1>1. /\ Len(q) \in Nat \ {0} /\ Head(q) = q[1] /\ Len(Tail(q)) = Len(q) - 1
      /\ \A j \in 1 .. Len(q) - 1 : Tail(q)[j] = q[j + 1]
    BY Taken
<1>2. i \in 1 .. Len(q) - 1 /\ \A j \in 1 .. i - 1 : Tail(q)[j] \notin marks
    BY <1>1 DEF UpTo
<1>3. ASSUME NEW j \in 1 .. i PROVE q[j] \notin marks
    <2>1. CASE j = 1
        BY <1>1, <2>1
    <2>2. CASE j # 1
        <3>1. j - 1 \in 1 .. i - 1 /\ j - 1 \in 1 .. Len(q) - 1 /\ (j - 1) + 1 = j
            BY <1>1, <1>2, <2>2
        <3>2. Tail(q)[j - 1] = q[(j - 1) + 1] /\ Tail(q)[j - 1] \notin marks
            BY <1>1, <1>2, <3>1
        <3> QED BY <3>1, <3>2
    <2> QED BY <2>1, <2>2
<1>4. i + 1 \in 1 .. Len(q) /\ (i + 1) - 1 = i
    BY <1>1, <1>2
<1> QED BY <1>1, <1>2, <1>3, <1>4 DEF UpTo

LEMMA TailOld ==
    ASSUME NEW q \in Seq(EnvelopeType), NEW marks, q # <<>>
    PROVE  /\ Head(q) \notin marks => Old(Tail(q), marks) \subseteq Old(q, marks)
           /\ Items(Tail(q)) \subseteq Items(q) /\ Items(q) \subseteq {Head(q)} \cup Items(Tail(q))
<1>1. /\ Len(q) \in Nat \ {0} /\ Head(q) = q[1] /\ Len(Tail(q)) = Len(q) - 1
      /\ \A j \in 1 .. Len(q) - 1 : Tail(q)[j] = q[j + 1]
    BY Taken
<1>2. Head(q) \notin marks => Old(Tail(q), marks) \subseteq Old(q, marks)
    BY TailUpTo DEF Old
<1>3. Items(Tail(q)) \subseteq Items(q)
    BY <1>1 DEF Items
<1>4. ASSUME NEW i \in 1 .. Len(q) PROVE q[i] \in {Head(q)} \cup Items(Tail(q))
    <2>1. CASE i = 1
        BY <1>1, <2>1
    <2>2. CASE i # 1
        <3>1. i - 1 \in 1 .. Len(Tail(q)) /\ (i - 1) + 1 = i /\ i - 1 \in 1 .. Len(q) - 1
            BY <1>1, <2>2
        <3>2. Tail(q)[i - 1] = q[i]
            BY <1>1, <3>1
        <3> QED BY <3>1, <3>2 DEF Items
    <2> QED BY <2>1, <2>2
<1> QED BY <1>2, <1>3, <1>4 DEF Items

LEMMA Joined ==
    ASSUME NEW q \in Seq(EnvelopeType), NEW s \in Seq(EnvelopeType)
    PROVE  /\ Len(q) \in Nat /\ Len(s) \in Nat /\ q \o s \in Seq(EnvelopeType)
           /\ Len(q \o s) = Len(q) + Len(s)
           /\ \A i \in 1 .. Len(q) : (q \o s)[i] = q[i]
           /\ \A i \in 1 .. Len(s) : (q \o s)[Len(q) + i] = s[i]
<1>1. Len(q) \in Nat /\ Len(s) \in Nat
    BY LenProperties
<1>2. /\ q \o s \in Seq(EnvelopeType) /\ Len(q \o s) = Len(q) + Len(s)
      /\ \A i \in 1 .. Len(q) + Len(s) : (q \o s)[i] = IF i <= Len(q) THEN q[i] ELSE s[i - Len(q)]
    BY ConcatProperties
<1>3. ASSUME NEW i \in 1 .. Len(s) PROVE (q \o s)[Len(q) + i] = s[i]
    <2>1. Len(q) + i \in 1 .. Len(q) + Len(s) /\ ~(Len(q) + i <= Len(q)) /\ (Len(q) + i) - Len(q) = i
        BY <1>1
    <2> QED BY <1>2, <2>1
<1> QED BY <1>1, <1>2, <1>3

LEMMA JoinedItems ==
    ASSUME NEW q \in Seq(EnvelopeType), NEW s \in Seq(EnvelopeType)
    PROVE  Items(q \o s) = Items(q) \cup Items(s)
<1>1. /\ Len(q) \in Nat /\ Len(s) \in Nat /\ Len(q \o s) = Len(q) + Len(s)
      /\ \A i \in 1 .. Len(q) : (q \o s)[i] = q[i]
      /\ \A i \in 1 .. Len(s) : (q \o s)[Len(q) + i] = s[i]
    BY Joined
<1>2. ASSUME NEW i \in 1 .. Len(q \o s) PROVE (q \o s)[i] \in Items(q) \cup Items(s)
    <2>1. CASE i <= Len(q)
        BY <1>1, <2>1 DEF Items
    <2>2. CASE i > Len(q)
        <3>1. i - Len(q) \in 1 .. Len(s) /\ Len(q) + (i - Len(q)) = i
            BY <1>1, <2>2
        <3>2. (q \o s)[i] = s[i - Len(q)]
            BY <1>1, <3>1
        <3> QED BY <3>1, <3>2 DEF Items
    <2> QED BY <1>1, <2>1, <2>2
<1>3. \A i \in 1 .. Len(q) : q[i] \in Items(q \o s)
    BY <1>1 DEF Items
<1>4. ASSUME NEW i \in 1 .. Len(s) PROVE s[i] \in Items(q \o s)
    <2>1. Len(q) + i \in 1 .. Len(q \o s)
        BY <1>1
    <2>2. (q \o s)[Len(q) + i] = s[i]
        BY <1>1
    <2> QED BY <2>1, <2>2 DEF Items
<1> QED BY <1>2, <1>3, <1>4 DEF Items

LEMMA JoinedUpTo ==
    ASSUME NEW q \in Seq(EnvelopeType), NEW s \in Seq(EnvelopeType), NEW marks
    PROVE  \A i \in UpTo(q \o s, marks) :
              \/ i \in UpTo(q, marks) /\ (q \o s)[i] = q[i]
              \/ /\ Items(q) \cap marks = {}
                 /\ \E k \in UpTo(s, marks) : i = Len(q) + k /\ (q \o s)[i] = s[k]
<1> TAKE i \in UpTo(q \o s, marks)
<1>1. /\ Len(q) \in Nat /\ Len(s) \in Nat /\ Len(q \o s) = Len(q) + Len(s)
      /\ \A k \in 1 .. Len(q) : (q \o s)[k] = q[k]
      /\ \A k \in 1 .. Len(s) : (q \o s)[Len(q) + k] = s[k]
    BY Joined
<1>2. i \in 1 .. Len(q) + Len(s) /\ \A k \in 1 .. i - 1 : (q \o s)[k] \notin marks
    BY <1>1 DEF UpTo
<1>3. CASE i <= Len(q)
    <2>1. i \in 1 .. Len(q) /\ \A k \in 1 .. i - 1 : q[k] \notin marks
        BY <1>1, <1>2, <1>3
    <2> QED BY <1>1, <2>1 DEF UpTo
<1>4. CASE i > Len(q)
    <2>1. PICK h \in 1 .. Len(s) : i = Len(q) + h /\ h = i - Len(q)
        <3>1. i - Len(q) \in 1 .. Len(s) /\ i = Len(q) + (i - Len(q))
            BY <1>1, <1>2, <1>4
        <3> QED BY <3>1
    <2>2. \A k \in 1 .. Len(q) : q[k] \notin marks
        BY <1>1, <1>2, <1>4
    <2>3. ASSUME NEW k \in 1 .. h - 1 PROVE s[k] \notin marks
        <3>1. Len(q) + k \in 1 .. i - 1 /\ k \in 1 .. Len(s)
            BY <1>1, <2>1
        <3>2. (q \o s)[Len(q) + k] = s[k] /\ (q \o s)[Len(q) + k] \notin marks
            BY <1>1, <1>2, <3>1
        <3> QED BY <3>2
    <2>4. h \in UpTo(s, marks)
        BY <2>1, <2>3 DEF UpTo
    <2>5. (q \o s)[i] = s[h]
        BY <1>1, <2>1
    <2> QED BY <2>1, <2>2, <2>4, <2>5 DEF Items
<1> QED BY <1>1, <1>2, <1>3, <1>4

LEMMA JoinedOld ==
    ASSUME NEW q \in Seq(EnvelopeType), NEW s \in Seq(EnvelopeType), NEW marks
    PROVE  /\ Old(q \o s, marks) \subseteq Old(q, marks) \cup Old(s, marks)
           /\ Items(q) \cap marks # {} => Old(q \o s, marks) \subseteq Old(q, marks)
<1>1. \A i \in UpTo(q \o s, marks) :
          \/ i \in UpTo(q, marks) /\ (q \o s)[i] = q[i]
          \/ /\ Items(q) \cap marks = {}
             /\ \E k \in UpTo(s, marks) : i = Len(q) + k /\ (q \o s)[i] = s[k]
    BY JoinedUpTo, Zenon
<1>2. /\ \A i \in UpTo(q, marks) : q[i] \in Old(q, marks)
      /\ \A i \in UpTo(s, marks) : s[i] \in Old(s, marks)
    BY Zenon DEF Old
<1>3. \A i \in UpTo(q \o s, marks) :
          (q \o s)[i] \in Old(q, marks) \/ (Items(q) \cap marks = {} /\ (q \o s)[i] \in Old(s, marks))
    BY <1>1, <1>2, Zenon
<1>4. \A e \in Old(q \o s, marks) : \E i \in UpTo(q \o s, marks) : e = (q \o s)[i]
    BY Zenon DEF Old
<1>5. \A e \in Old(q \o s, marks) :
          e \in Old(q, marks) \/ (Items(q) \cap marks = {} /\ e \in Old(s, marks))
    BY <1>3, <1>4, Zenon
<1> QED BY <1>5

LEMMA OldItems ==
    ASSUME NEW q, NEW marks
    PROVE  Old(q, marks) \subseteq Items(q) /\ (Items(q) \cap marks = {} => Old(q, marks) = Items(q))
<1>1. UpTo(q, marks) \subseteq 1 .. Len(q)
    BY DEF UpTo
<1>2. ASSUME Items(q) \cap marks = {} PROVE UpTo(q, marks) = 1 .. Len(q)
    <2>1. \A j \in 1 .. Len(q) : q[j] \notin marks
        BY <1>2 DEF Items
    <2> QED BY <2>1 DEF UpTo
<1> QED BY <1>1, <1>2, Zenon DEF Old, Items

-----------------------------------------------------------------------------
(* What reading, sending and resending make of what is told, gapless, whole. *)

LEMMA ToldKept ==
    ASSUME NEW a \in Nat, NEW sent \in SUBSET Nat, NEW got, NEW next \in Nat,
           NEW sent2, NEW got2, NEW next2, Grows(sent, got, next, sent2, got2, next2),
           Told(a, sent, got, next)
    PROVE  Told(a, sent2, got2, next2)
BY DEF Grows, Told

LEMMA CarriedOn ==
    ASSUME NEW q \in Seq(EnvelopeType), q # <<>>, NEW i \in 1 .. Len(q) - 1, NEW n, Carries(q, i + 1, n)
    PROVE  (Head(q).kind \in Message /\ Head(q).id = n) \/ Carries(Tail(q), i, n)
<1>1. /\ Len(q) \in Nat \ {0} /\ Head(q) = q[1]
      /\ \A j \in 1 .. Len(q) - 1 : Tail(q)[j] = q[j + 1]
    BY Taken
<1>2. PICK j \in 1 .. i + 1 : q[j].kind \in Message /\ q[j].id = n
    BY DEF Carries
<1>3. CASE j = 1
    BY <1>1, <1>2, <1>3
<1>4. CASE j # 1
    <2>1. j - 1 \in 1 .. i /\ j - 1 \in 1 .. Len(q) - 1 /\ (j - 1) + 1 = j
        BY <1>1, <1>4
    <2>2. Tail(q)[j - 1] = q[j]
        BY <1>1, <2>1
    <2> QED BY <1>2, <2>1, <2>2 DEF Carries
<1> QED BY <1>3, <1>4

LEMMA CarriedJoined ==
    ASSUME NEW q \in Seq(EnvelopeType), NEW s \in Seq(EnvelopeType), NEW n
    PROVE  /\ \A i \in 1 .. Len(q) : Carries(q, i, n) => Carries(q \o s, i, n)
           /\ \A i \in 0 .. Len(s) :
                 Carries(q, Len(q), n) \/ Carries(s, i, n) => Carries(q \o s, Len(q) + i, n)
<1>1. /\ Len(q) \in Nat /\ Len(s) \in Nat
      /\ \A i \in 1 .. Len(q) : (q \o s)[i] = q[i]
      /\ \A i \in 1 .. Len(s) : (q \o s)[Len(q) + i] = s[i]
    BY Joined
<1>2. ASSUME NEW i \in 1 .. Len(q), Carries(q, i, n) PROVE Carries(q \o s, i, n)
    <2>1. PICK j \in 1 .. i : q[j].kind \in Message /\ q[j].id = n
        BY <1>2 DEF Carries
    <2>2. (q \o s)[j] = q[j]
        BY <1>1, <2>1
    <2> QED BY <2>1, <2>2 DEF Carries
<1>3. ASSUME NEW i \in 0 .. Len(s), Carries(q, Len(q), n) PROVE Carries(q \o s, Len(q) + i, n)
    <2>1. PICK j \in 1 .. Len(q) : q[j].kind \in Message /\ q[j].id = n
        BY <1>3 DEF Carries
    <2>2. (q \o s)[j] = q[j] /\ j \in 1 .. Len(q) + i
        BY <1>1, <2>1
    <2> QED BY <2>1, <2>2 DEF Carries
<1>4. ASSUME NEW i \in 0 .. Len(s), Carries(s, i, n) PROVE Carries(q \o s, Len(q) + i, n)
    <2>1. PICK j \in 1 .. i : s[j].kind \in Message /\ s[j].id = n
        BY <1>4 DEF Carries
    <2>2. (q \o s)[Len(q) + j] = s[j] /\ Len(q) + j \in 1 .. Len(q) + i
        BY <1>1, <2>1
    <2> QED BY <2>1, <2>2 DEF Carries
<1> QED BY <1>2, <1>3, <1>4

\* The peer reads the first envelope.
LEMMA GaplessTail ==
    ASSUME NEW q \in Seq(EnvelopeType), q # <<>>, Head(q) \notin Flushes,
           NEW sent \in SUBSET Nat, NEW got, NEW next \in Nat,
           NEW sent2, NEW got2, NEW next2, Grows(sent, got, next, sent2, got2, next2),
           Head(q).kind \in Message => Head(q).id \in got2,
           Gapless(q, sent, got, next)
    PROVE  Gapless(Tail(q), sent2, got2, next2)
<1> SUFFICES ASSUME NEW i \in UpTo(Tail(q), Flushes), Tail(q)[i].kind \in Counted
             PROVE  /\ Tail(q)[i].id < next2
                    /\ \A n \in sent2 : n <= Tail(q)[i].id => n \in got2 \/ Carries(Tail(q), i, n)
    BY DEF Gapless
<1>1. i \in 1 .. Len(q) - 1 /\ i + 1 \in UpTo(q, Flushes) /\ Tail(q)[i] = q[i + 1]
    BY TailUpTo
<1>2. PICK e : e = Tail(q)[i] /\ e = q[i + 1]
    BY <1>1
<1>3. e.id \in Nat
    <2>1. Tail(q) \in Seq(EnvelopeType) /\ Len(Tail(q)) = Len(q) - 1
        BY Taken
    <2>2. e \in EnvelopeType
        BY <1>1, <1>2, <2>1, ElementOfSeq
    <2> QED BY <2>2 DEF EnvelopeType
<1>4. e.id < next /\ \A n \in sent : n <= e.id => n \in got \/ Carries(q, i + 1, n)
    BY <1>1, <1>2 DEF Gapless
<1>5. ASSUME NEW n \in sent2, n <= e.id PROVE n \in got2 \/ Carries(Tail(q), i, n)
    <2>1. n \in sent
        <3>1. n \in Nat /\ (n \in sent \/ n >= next)
            BY DEF Grows
        <3> QED BY <1>3, <1>4, <1>5, <3>1
    <2>2. n \in got \/ Carries(q, i + 1, n)
        BY <1>4, <1>5, <2>1
    <2>3. Carries(q, i + 1, n) => n \in got2 \/ Carries(Tail(q), i, n)
        BY <1>1, CarriedOn, Zenon
    <2> QED BY <2>2, <2>3 DEF Grows
<1>6. e.id < next2
    BY <1>3, <1>4 DEF Grows
<1> QED BY <1>2, <1>5, <1>6

LEMMA GaplessHead ==
    ASSUME NEW q \in Seq(EnvelopeType), q # <<>>, Head(q).kind \in Counted,
           NEW sent \in SUBSET Nat, NEW got, NEW next \in Nat,
           NEW sent2, NEW got2, NEW next2, Grows(sent, got, next, sent2, got2, next2),
           Head(q).kind \in Message => Head(q).id \in got2,
           Gapless(q, sent, got, next)
    PROVE  /\ Told(Head(q).id, sent2, got2, next2) /\ Head(q).id < next2
           /\ 0 \in sent2 => 0 \in got2
<1>1. Head(q) = q[1] /\ 1 \in UpTo(q, Flushes) /\ Head(q) \in EnvelopeType
    BY Taken, FirstOld
<1>2. Head(q).id \in Nat
    BY <1>1 DEF EnvelopeType
<1>3. /\ Head(q).id < next
      /\ \A n \in sent : n <= Head(q).id => n \in got \/ Carries(q, 1, n)
    BY <1>1 DEF Gapless
<1>4. ASSUME NEW n \in sent2, n <= Head(q).id PROVE n \in got2
    <2>1. n \in sent
        <3>1. n \in Nat /\ (n \in sent \/ n >= next)
            BY DEF Grows
        <3> QED BY <1>2, <1>3, <1>4, <3>1
    <2>2. n \in got \/ Carries(q, 1, n)
        BY <1>3, <1>4, <2>1
    <2>3. Carries(q, 1, n) => Head(q).kind \in Message /\ Head(q).id = n
        BY <1>1 DEF Carries
    <2> QED BY <2>2, <2>3 DEF Grows
<1> QED BY <1>2, <1>3, <1>4 DEF Told, Grows

LEMMA GaplessKept ==
    ASSUME NEW q \in Seq(EnvelopeType), NEW sent \in SUBSET Nat, NEW got, NEW next \in Nat,
           NEW sent2, NEW got2, NEW next2, Grows(sent, got, next, sent2, got2, next2),
           Gapless(q, sent, got, next)
    PROVE  Gapless(q, sent2, got2, next2)
<1> SUFFICES ASSUME NEW i \in UpTo(q, Flushes), q[i].kind \in Counted
             PROVE  /\ q[i].id < next2
                    /\ \A n \in sent2 : n <= q[i].id => n \in got2 \/ Carries(q, i, n)
    BY DEF Gapless
<1>1. q[i].id \in Nat
    <2>1. i \in 1 .. Len(q)
        BY DEF UpTo
    <2>2. q[i] \in EnvelopeType
        BY <2>1, ElementOfSeq
    <2> QED BY <2>2 DEF EnvelopeType
<1>2. q[i].id < next /\ \A n \in sent : n <= q[i].id => n \in got \/ Carries(q, i, n)
    BY DEF Gapless
<1>3. ASSUME NEW n \in sent2, n <= q[i].id PROVE n \in got2 \/ Carries(q, i, n)
    <2>1. n \in sent
        <3>1. n \in Nat /\ (n \in sent \/ n >= next)
            BY DEF Grows
        <3> QED BY <1>1, <1>2, <1>3, <3>1
    <2> QED BY <1>2, <1>3, <2>1 DEF Grows
<1> QED BY <1>1, <1>2, <1>3 DEF Grows

\* The sender adds an envelope.  It is read behind all that was sent before.
LEMMA GaplessJoined ==
    ASSUME NEW q \in Seq(EnvelopeType), NEW e \in EnvelopeType,
           NEW sent \in SUBSET Nat, NEW got, NEW next \in Nat,
           NEW sent2, NEW got2, NEW next2, Grows(sent, got, next, sent2, got2, next2),
           Gapless(q, sent, got, next),
           Items(q) \cap Flushes = {} /\ e.kind \in Counted =>
               e.id < next2 /\ Whole(q \o <<e>>, sent2, got2)
    PROVE  Gapless(q \o <<e>>, sent2, got2, next2)
<1> DEFINE s == <<e>>
<1>1. Len(s) = 1 /\ s[1] = e
    OBVIOUS
<1>7. s \in Seq(EnvelopeType)
    OBVIOUS
<1>8. Items(q) \cap Flushes = {} /\ e.kind \in Counted => e.id < next2 /\ Whole(q \o s, sent2, got2)
    OBVIOUS
<1> HIDE DEF s
<1>2. Gapless(q, sent2, got2, next2)
    BY GaplessKept
<1>3. Len(q) \in Nat /\ Len(q \o s) = Len(q) + 1
    <2>1. Len(q) \in Nat /\ Len(q \o s) = Len(q) + Len(s)
        BY <1>7, Joined
    <2> QED BY <1>1, <2>1
<1>4. \A i \in UpTo(q \o s, Flushes) :
          \/ i \in UpTo(q, Flushes) /\ (q \o s)[i] = q[i]
          \/ /\ Items(q) \cap Flushes = {}
             /\ \E k \in UpTo(s, Flushes) : i = Len(q) + k /\ (q \o s)[i] = s[k]
    BY <1>7, JoinedUpTo, Zenon
<1> SUFFICES ASSUME NEW i \in UpTo(q \o s, Flushes), (q \o s)[i].kind \in Counted
             PROVE  /\ (q \o s)[i].id < next2
                    /\ \A n \in sent2 : n <= (q \o s)[i].id => n \in got2 \/ Carries(q \o s, i, n)
    BY Zenon DEF Gapless, s
<1>5. CASE i \in UpTo(q, Flushes) /\ (q \o s)[i] = q[i]
    <2>1. i \in 1 .. Len(q) /\ q[i].kind \in Counted
        BY <1>5 DEF UpTo
    <2>2. q[i].id < next2 /\ \A n \in sent2 : n <= q[i].id => n \in got2 \/ Carries(q, i, n)
        BY <1>2, <1>5, <2>1 DEF Gapless
    <2> QED BY <1>7, <1>5, <2>1, <2>2, CarriedJoined
<1>6. CASE /\ Items(q) \cap Flushes = {}
           /\ \E k \in UpTo(s, Flushes) : i = Len(q) + k /\ (q \o s)[i] = s[k]
    <2>1. PICK k \in UpTo(s, Flushes) : i = Len(q) + k /\ (q \o s)[i] = s[k]
        BY <1>6
    <2>2. i = Len(q \o s) /\ (q \o s)[i] = e
        BY <1>1, <1>3, <2>1 DEF UpTo
    <2>3. e.id < next2 /\ Whole(q \o s, sent2, got2)
        BY <1>6, <1>8, <2>2
    <2> QED BY <2>2, <2>3 DEF Whole
<1> QED BY <1>4, <1>5, <1>6

\* What has not arrived is lost.
LEMMA GaplessPrefix ==
    ASSUME NEW q \in Seq(EnvelopeType), NEW s \in Seq(EnvelopeType),
           NEW sent, NEW got, NEW next, Gapless(q \o s, sent, got, next)
    PROVE  Gapless(q, sent, got, next)
<1> SUFFICES ASSUME NEW i \in UpTo(q, Flushes), q[i].kind \in Counted
             PROVE  /\ q[i].id < next
                    /\ \A n \in sent : n <= q[i].id => n \in got \/ Carries(q, i, n)
    BY DEF Gapless
<1>1. /\ Len(q) \in Nat /\ Len(s) \in Nat /\ Len(q \o s) = Len(q) + Len(s)
      /\ \A k \in 1 .. Len(q) : (q \o s)[k] = q[k]
    BY Joined
<1>2. i \in 1 .. Len(q) /\ \A k \in 1 .. i - 1 : q[k] \notin Flushes
    BY DEF UpTo
<1>3. i \in UpTo(q \o s, Flushes)
    BY <1>1, <1>2 DEF UpTo
<1>4. \A n : Carries(q \o s, i, n) => Carries(q, i, n)
    BY <1>1, <1>2 DEF Carries
<1> QED BY <1>1, <1>2, <1>3, <1>4 DEF Gapless

LEMMA WholeTail ==
    ASSUME NEW q \in Seq(EnvelopeType), q # <<>>, NEW sent, NEW got, NEW got2, got \subseteq got2,
           Head(q).kind \in Message => Head(q).id \in got2, Whole(q, sent, got)
    PROVE  Whole(Tail(q), sent, got2)
<1> SUFFICES ASSUME NEW n \in sent PROVE n \in got2 \/ Carries(Tail(q), Len(Tail(q)), n)
    BY DEF Whole
<1>1. n \in got \/ Carries(q, Len(q), n)
    BY DEF Whole
<1>2. Len(q) \in Nat \ {0} /\ Len(Tail(q)) = Len(q) - 1 /\ Head(q) = q[1]
    BY Taken
<1>3. ASSUME Carries(q, Len(q), n) PROVE n \in got2 \/ Carries(Tail(q), Len(Tail(q)), n)
    <2>1. CASE Len(q) = 1
        BY <1>2, <1>3, <2>1 DEF Carries
    <2>2. CASE Len(q) # 1
        <3>1. Len(q) - 1 \in 1 .. Len(q) - 1 /\ (Len(q) - 1) + 1 = Len(q)
            BY <1>2, <2>2
        <3> QED BY <1>2, <1>3, <3>1, CarriedOn
    <2> QED BY <2>1, <2>2
<1> QED BY <1>1, <1>3

LEMMA WholeJoined ==
    ASSUME NEW q \in Seq(EnvelopeType), NEW s \in Seq(EnvelopeType), NEW sent, NEW got,
           NEW sent2, NEW got2, got \subseteq got2, Whole(q, sent, got),
           \A n \in sent2 : n \in sent \/ n \in got2 \/ Carries(s, Len(s), n)
    PROVE  Whole(q \o s, sent2, got2)
<1>1. Len(q \o s) = Len(q) + Len(s) /\ Len(s) \in Nat /\ Len(s) \in 0 .. Len(s)
    BY Joined
<1> SUFFICES ASSUME NEW n \in sent2 PROVE n \in got2 \/ Carries(q \o s, Len(q) + Len(s), n)
    BY <1>1 DEF Whole
<1>2. n \in sent => n \in got \/ Carries(q, Len(q), n)
    BY DEF Whole
<1> QED BY <1>1, <1>2, CarriedJoined

\* An acknowledgement forgets no message behind the acknowledged one.
LEMMA Trimmed ==
    ASSUME NEW q \in Seq(EnvelopeType), NEW a \in Nat
    PROVE  /\ Trim(q, a) \in Seq(EnvelopeType) /\ Items(Trim(q, a)) \subseteq Items(q)
           /\ \A n \in IdsOf(q) : n > a => n \in IdsOf(Trim(q, a))
<1> DEFINE popped == {i \in DOMAIN q : \A j \in 1 .. i : q[j].id <= a}
           k == Cardinality(popped)
<1>1. /\ Len(q) \in Nat /\ DOMAIN q = 1 .. Len(q) /\ \A i \in 1 .. Len(q) : q[i] \in EnvelopeType
      /\ \A i \in 1 .. Len(q) : q[i].id \in Nat
    <2>1. Len(q) \in Nat /\ DOMAIN q = 1 .. Len(q) /\ \A i \in 1 .. Len(q) : q[i] \in EnvelopeType
        BY LenProperties, ElementOfSeq
    <2> QED BY <2>1 DEF EnvelopeType
<1>2. popped \in SUBSET (1 .. Len(q))
    BY <1>1
<1>3. ASSUME NEW i \in 1 .. Len(q), q[i].id > a PROVE popped \in SUBSET (1 .. i - 1)
    BY <1>1, <1>3
<1>4. Trim(q, a) = SubSeq(q, k + 1, Len(q))
    BY DEF Trim
<1> HIDE DEF popped
<1>5. k \in Nat
    <2>1. IsFiniteSet(1 .. Len(q))
        BY <1>1, FS_Interval
    <2> QED BY <1>2, <2>1, FS_Subset, FS_CardinalityType
<1>6. ASSUME NEW i \in 1 .. Len(q), q[i].id > a PROVE k <= i - 1
    <2>1. IsFiniteSet(1 .. i - 1) /\ Cardinality(1 .. i - 1) = i - 1
        <3>1. PICK m \in Nat : m = i - 1
            BY <1>1
        <3>2. IsFiniteSet(1 .. m) /\ Cardinality(1 .. m) = IF 1 > m THEN 0 ELSE m - 1 + 1
            BY FS_Interval
        <3>3. (IF 1 > m THEN 0 ELSE m - 1 + 1) = m
            OBVIOUS
        <3> QED BY <3>1, <3>2, <3>3
    <2>2. popped \in SUBSET (1 .. i - 1)
        BY <1>3, <1>6
    <2>3. Cardinality(popped) <= Cardinality(1 .. i - 1)
        BY <2>1, <2>2, FS_Subset
    <2> QED BY <2>1, <2>3
<1> HIDE DEF k
<1> DEFINE t == SubSeq(q, k + 1, Len(q))
<1>7. /\ t \in Seq(EnvelopeType) /\ Len(t) = IF k + 1 <= Len(q) THEN Len(q) - k ELSE 0
      /\ \A i \in 1 .. Len(q) - k : t[i] = q[k + i]
    <2>1. k + 1 \in Int /\ Len(q) \in Int /\ \A i \in k + 1 .. Len(q) : q[i] \in EnvelopeType
        BY <1>1, <1>5
    <2>2. /\ t \in Seq(EnvelopeType) /\ Len(t) = IF k + 1 <= Len(q) THEN Len(q) - (k + 1) + 1 ELSE 0
          /\ \A i \in 1 .. Len(q) - (k + 1) + 1 : t[i] = q[(k + 1) + i - 1]
        BY <2>1, SubSeqProperties
    <2>3. Len(q) - (k + 1) + 1 = Len(q) - k /\ \A i \in 1 .. Len(q) - k : (k + 1) + i - 1 = k + i
        BY <1>1, <1>5
    <2> HIDE DEF t
    <2> QED BY <2>2, <2>3
<1> HIDE DEF t
<1>10. ASSUME NEW i \in 1 .. Len(t) PROVE i \in 1 .. Len(q) - k /\ k + i \in 1 .. Len(q)
    <2>1. Len(q) \in Nat /\ Len(t) = IF k + 1 <= Len(q) THEN Len(q) - k ELSE 0
        BY <1>1, <1>7
    <2>2. k + 1 <= Len(q) /\ Len(t) = Len(q) - k
        BY <2>1, <1>5
    <2> QED BY <1>5, <2>1, <2>2
<1>8. Items(t) \subseteq Items(q)
    <2>1. ASSUME NEW i \in 1 .. Len(t) PROVE k + i \in 1 .. Len(q) /\ t[i] = q[k + i]
        BY <1>7, <1>10
    <2> QED BY <2>1 DEF Items
<1>9. ASSUME NEW n \in IdsOf(q), n > a PROVE n \in IdsOf(t)
    <2>1. PICK i \in 1 .. Len(q) : q[i].id = n
        BY <1>1 DEF IdsOf
    <2>2. k <= i - 1
        BY <1>6, <1>9, <2>1
    <2>3. i - k \in 1 .. Len(t) /\ i - k \in 1 .. Len(q) - k /\ k + (i - k) = i
        <3>1. i \in Nat /\ i >= 1 /\ i <= Len(q) /\ Len(q) \in Nat
            BY <1>1
        <3>2. k + 1 <= Len(q)
            BY <1>5, <2>2, <3>1
        <3>3. Len(t) = Len(q) - k
            BY <1>7, <3>2
        <3> QED BY <1>5, <2>2, <3>1, <3>3
    <2>4. t[i - k] = q[i]
        BY <1>7, <2>3
    <2>5. i - k \in DOMAIN t
        BY <1>7, <2>3, LenProperties
    <2> QED BY <2>1, <2>4, <2>5 DEF IdsOf
<1> QED BY <1>4, <1>7, <1>8, <1>9 DEF t

-----------------------------------------------------------------------------
(* The invariant, which a drop divides in three: until the server reads the *)
(* flush it must hold on to what the client lacks, and until the client     *)
(* reads the answer so must the client; from then on the lines themselves   *)
(* are whole again.                                                         *)

Line(p) == wire[p] \o ch[p].outgoing

\* What of it the present connection still brings.
Kept(p) == IF link = "down" THEN wire[p] ELSE Line(p)

Got(p) == ToSet(received[Other(p)])

Flushing == Items(Line("client")) \cap Flushes # {}

\* The answer to the flush.
Reply == {e \in EnvelopeType : e.kind # "started" /\ e.re = flushId /\ flushId # None}

Knows(p, a) == Told(a, posted[p], Got(p), ch[p].next)

AllKnown(p, E) == \A e \in E : e.ack # None => Knows(p, e.ack)

InStep(p) == Gapless(Kept(p), posted[p], Got(p), ch[p].next)

Complete(p) == Whole(Line(p), posted[p], Got(p))

\* Number 0 is acknowledged by those who have received nothing.
Secured(p) == \A n \in posted[p] : n = 0 \/ n \in Got(p) \/ n \in IdsOf(ch[p].buffer)

Once(q) == \A i, j \in 1 .. Len(q) : q[i] \in Flushes /\ q[j] \in Flushes => i = j

PhaseInv ==
    /\ budget.drops <= 1
    /\ link = "down" \/ state = "swapped" \/ flushId # None => budget.drops = 0
    /\ link = "down" => flushId = None /\ state = "connected"
    /\ state = "swapped" => flushId = None
    /\ state = "resyncing" => flushId # None /\ [id |-> flushId, kind |-> "flush"] \in waiting["client"]
    /\ flushId # None => state \in {"resyncing", "connected"}

FlushInv ==
    /\ flushId = None => ~Flushing
    /\ Once(Line("client"))
    /\ \A e \in Items(Line("client")) : e \in Flushes => e.id = flushId
    /\ \A p \in Peers : \A e \in Items(ch[p].buffer) : e.kind \in Message

ZeroInv ==
    /\ 0 \notin posted["client"]
    /\ state \notin {"connecting", "started"} =>
          ch["server"].next > 0 /\ (0 \in posted["server"] => 0 \in Got("server"))

ServerInv == flushId = None \/ Flushing =>
    /\ Secured("server")
    /\ AllKnown("server", Old(Line("client"), Flushes))
    /\ Knows("client", ch["server"].maxReceived)
    /\ AllKnown("client", Items(ch["server"].buffer))
    /\ InStep("client")

ClientInv == flushId = None \/ state = "resyncing" =>
    /\ Secured("client")
    /\ AllKnown("client", Old(Line("server"), Reply))

ReaderInv == flushId = None =>
    /\ Knows("server", ch["client"].maxReceived)
    /\ state # "swapped" => InStep("server")

WholeInv ==
    /\ flushId = None /\ link = "up" /\ state # "swapped" => Complete("client") /\ Complete("server")
    /\ flushId # None /\ state # "resyncing" => Complete("client")
    /\ flushId # None /\ ~Flushing => Complete("server")
    /\ state = "resyncing" /\ ~Flushing => Items(Line("server")) \cap Reply # {}

LossInv ==
    /\ PhaseInv /\ FlushInv /\ ZeroInv
    /\ ServerInv /\ ClientInv /\ ReaderInv /\ WholeInv

\* Every step of the system.
Growing ==
    \A p \in Peers : Grows(posted[p], Got(p), ch[p].next, posted'[p], Got(p)', ch'[p].next)

-----------------------------------------------------------------------------
(* What all steps have in common.                                           *)

LEMMA Lines ==
    ASSUME Inv, NEW p \in Peers
    PROVE  /\ wire[p] \in Seq(EnvelopeType) /\ ch[p].outgoing \in Seq(EnvelopeType)
           /\ Line(p) \in Seq(EnvelopeType) /\ Kept(p) \in Seq(EnvelopeType)
           /\ ch[p].buffer \in Seq(EnvelopeType) /\ ch[p] \in Channel(EnvelopeType)
           /\ posted[p] \in SUBSET Nat /\ ch[p].next \in Nat /\ ch[p].maxReceived \in Nat
           /\ Other(p) \in Peers /\ received[Other(p)] \in Seq(Nat)
<1>1. /\ wire[p] \in Seq(EnvelopeType) /\ ch[p].outgoing \in Seq(EnvelopeType)
      /\ wire[p] \o ch[p].outgoing \in Seq(EnvelopeType) /\ received[Other(p)] \in Seq(Nat)
    BY LineTyped
<1>2. /\ ch[p].buffer \in Seq(EnvelopeType) /\ ch[p].next \in Nat /\ ch[p].maxReceived \in Nat
    BY Known DEF Inv
<1>3. posted[p] \in SUBSET Nat /\ ch[p] \in Channel(EnvelopeType)
    BY DEF Inv, Core
<1> QED BY <1>1, <1>2, <1>3 DEF Line, Kept, Other, Peers

LEMMA ItemsTyped ==
    ASSUME NEW q \in Seq(EnvelopeType)
    PROVE  Items(q) \subseteq EnvelopeType /\ \A marks : Old(q, marks) \subseteq EnvelopeType
<1>1. Items(q) \subseteq EnvelopeType
    BY ElementOfSeq DEF Items
<1> QED BY <1>1, OldItems

\* The server never asks for a flush.
LEMMA ServerFlushes ==
    ASSUME Inv
    PROVE  Items(Line("server")) \cap Flushes = {}
<1> DEFINE G == Sound("server", Nexts, waiting)
<1>1. wire["server"] \in Seq(G) /\ ch["server"].outgoing \in Seq(G)
    BY Known DEF Inv, Channel, Peers
<1>2. \A e \in G : e \notin Flushes
    BY DEF Sound, Flushes
<1> HIDE DEF G
<1>3. Line("server") \in Seq(G)
    BY <1>1, ConcatProperties DEF Line
<1> QED BY <1>2, <1>3, ElementOfSeq DEF Items

LEMMA AllKnownKept ==
    ASSUME Inv, Growing, NEW p \in Peers
    PROVE  /\ \A a \in Nat : Knows(p, a) => Knows(p, a)'
           /\ \A E \in SUBSET EnvelopeType : AllKnown(p, E) => AllKnown(p, E)'
<1>1. \A a \in Nat : Knows(p, a) => Knows(p, a)'
    BY Lines, ToldKept DEF Growing, Knows
<1>2. \A e \in EnvelopeType : e.ack # None => e.ack \in Nat
    BY DEF EnvelopeType
<1> QED BY <1>1, <1>2 DEF AllKnown

LEMMA InStepKept ==
    ASSUME Inv, Growing, NEW p \in Peers, Kept(p)' = Kept(p), InStep(p)
    PROVE  InStep(p)'
<1>1. Gapless(Kept(p), posted'[p], Got(p)', ch'[p].next)
    <2>1. Kept(p) \in Seq(EnvelopeType) /\ posted[p] \in SUBSET Nat /\ ch[p].next \in Nat
        BY Lines
    <2>2. Grows(posted[p], Got(p), ch[p].next, posted'[p], Got(p)', ch'[p].next)
        BY DEF Growing
    <2>3. Gapless(Kept(p), posted[p], Got(p), ch[p].next)
        BY DEF InStep
    <2> QED BY <2>1, <2>2, <2>3, GaplessKept
<1> QED BY <1>1 DEF InStep

LEMMA OnceJoined ==
    ASSUME NEW q \in Seq(EnvelopeType), NEW s \in Seq(EnvelopeType), Once(q), Items(s) \cap Flushes = {}
    PROVE  Once(q \o s)
<1>1. /\ Len(q) \in Nat /\ Len(s) \in Nat /\ Len(q \o s) = Len(q) + Len(s)
      /\ \A i \in 1 .. Len(q) : (q \o s)[i] = q[i]
      /\ \A i \in 1 .. Len(s) : (q \o s)[Len(q) + i] = s[i]
    BY Joined
<1>2. ASSUME NEW i \in 1 .. Len(q \o s), (q \o s)[i] \in Flushes PROVE i \in 1 .. Len(q)
    <2>1. CASE i > Len(q)
        <3>1. i - Len(q) \in 1 .. Len(s) /\ Len(q) + (i - Len(q)) = i
            BY <1>1, <2>1
        <3>2. (q \o s)[i] = s[i - Len(q)]
            BY <1>1, <3>1
        <3> QED BY <1>2, <3>1, <3>2 DEF Items
    <2> QED BY <1>1, <2>1
<1> QED BY <1>1, <1>2 DEF Once

LEMMA OnceTail ==
    ASSUME NEW q \in Seq(EnvelopeType), q # <<>>, Once(q)
    PROVE  Once(Tail(q)) /\ (Head(q) \in Flushes => Items(Tail(q)) \cap Flushes = {})
<1>1. /\ Len(q) \in Nat \ {0} /\ Head(q) = q[1] /\ Len(Tail(q)) = Len(q) - 1
      /\ \A i \in 1 .. Len(q) - 1 : Tail(q)[i] = q[i + 1]
    BY Taken
<1>2. \A i \in 1 .. Len(Tail(q)) : i + 1 \in 1 .. Len(q) /\ i + 1 # 1 /\ Tail(q)[i] = q[i + 1]
    BY <1>1
<1>3. 1 \in 1 .. Len(q)
    BY <1>1
<1>4. Head(q) \in Flushes => Items(Tail(q)) \cap Flushes = {}
    BY <1>1, <1>2, <1>3 DEF Once, Items
<1>5. ASSUME NEW i \in 1 .. Len(Tail(q)), NEW j \in 1 .. Len(Tail(q)),
             Tail(q)[i] \in Flushes, Tail(q)[j] \in Flushes
      PROVE  i = j
    <2>1. i + 1 = j + 1
        BY <1>2, <1>5 DEF Once
    <2> QED BY <2>1
<1> QED BY <1>4, <1>5 DEF Once

\* A line without a flush.
LEMMA NoFlush == ASSUME NEW q, Items(q) \cap Flushes = {} PROVE Once(q)
BY DEF Once, Items

\* Concatenation under a name of its own, which the provers leave alone.
Cat(x, y) == x \o y

LEMMA Associated ==
    \A x, y, z \in Seq(EnvelopeType) :
        Cat(x, y) \in Seq(EnvelopeType) /\ Cat(Cat(x, y), z) = Cat(x, Cat(y, z))
<1>1. \A x, y \in Seq(EnvelopeType) : Cat(x, y) \in Seq(EnvelopeType)
    BY ConcatProperties DEF Cat
<1>2. \A x, y, z \in Seq(EnvelopeType) : Cat(Cat(x, y), z) = Cat(x, Cat(y, z))
    BY ConcatAssociative DEF Cat
<1> QED BY <1>1, <1>2

\* p adds s to its queue.
LEMMA Queued ==
    ASSUME Inv, NEW p \in Peers, NEW s \in Seq(EnvelopeType),
           ch'[p].outgoing = ch[p].outgoing \o s, wire'[p] = wire[p], link' = link
    PROVE  /\ Line(p)' = Line(p) \o s
           /\ Kept(p)' = IF link = "down" THEN Kept(p) ELSE Kept(p) \o s
           /\ link # "down" => Kept(p) = Line(p)
<1>1. wire[p] \in Seq(EnvelopeType) /\ ch[p].outgoing \in Seq(EnvelopeType)
    BY Lines
<1>2. wire[p] \o (ch[p].outgoing \o s) = (wire[p] \o ch[p].outgoing) \o s
    <2>1. PICK w \in Seq(EnvelopeType), o \in Seq(EnvelopeType) : w = wire[p] /\ o = ch[p].outgoing
        BY <1>1
    <2>2. Cat(w, Cat(o, s)) = Cat(Cat(w, o), s)
        BY Associated
    <2>3. w \o (o \o s) = (w \o o) \o s
        BY <2>2 DEF Cat
    <2> QED BY <2>1, <2>3
<1> QED BY <1>2 DEF Line, Kept

LEMMA Single ==
    ASSUME NEW e \in EnvelopeType
    PROVE  /\ <<e>> \in Seq(EnvelopeType) /\ Items(<<e>>) = {e} /\ Len(<<e>>) = 1
           /\ \A marks : Old(<<e>>, marks) = {e}
           /\ \A n : Carries(<<e>>, 1, n) <=> e.kind \in Message /\ e.id = n
           /\ \A q \in Seq(EnvelopeType) : Append(q, e) = q \o <<e>>
<1> DEFINE s == <<e>>
<1>1. s \in Seq(EnvelopeType) /\ Len(s) = 1 /\ s[1] = e
    OBVIOUS
<1>2. \A q \in Seq(EnvelopeType) : Append(q, e) = q \o s
    BY AppendIsConcat
<1> HIDE DEF s
<1>3. Items(s) = {e}
    BY <1>1 DEF Items
<1>4. ASSUME NEW marks PROVE Old(s, marks) = {e}
    <2>1. UpTo(s, marks) = {1}
        BY <1>1 DEF UpTo
    <2> QED BY <1>1, <2>1 DEF Old
<1>5. \A n : Carries(s, 1, n) <=> e.kind \in Message /\ e.id = n
    BY <1>1 DEF Carries
<1> QED BY <1>1, <1>2, <1>3, <1>4, <1>5 DEF s

LEMMA IdsItems ==
    ASSUME NEW q \in Seq(EnvelopeType)
    PROVE  IdsOf(q) = {e.id : e \in Items(q)}
<1>1. DOMAIN q = 1 .. Len(q)
    BY LenProperties
<1> QED BY <1>1 DEF IdsOf, Items

LEMMA Added ==
    ASSUME Inv, Growing, NEW p \in Peers, NEW s \in Seq(EnvelopeType), Line(p)' = Line(p) \o s,
           Complete(p), \A n \in posted'[p] : n \in posted[p] \/ n \in Got(p)' \/ Carries(s, Len(s), n)
    PROVE  Complete(p)'
<1>1. Line(p) \in Seq(EnvelopeType) /\ Got(p) \subseteq Got(p)'
    BY Lines DEF Growing, Grows
<1>2. Whole(Line(p), posted[p], Got(p))
    BY DEF Complete
<1>3. Whole(Line(p) \o s, posted'[p], Got(p)')
    BY <1>1, <1>2, WholeJoined
<1> QED BY <1>3 DEF Complete

LEMMA AddedKnown ==
    ASSUME Inv, NEW p \in Peers, NEW r, NEW s \in Seq(EnvelopeType), Line(p)' = Line(p) \o s,
           NEW marks, AllKnown(r, Old(Line(p), marks)),
           Items(Line(p)) \cap marks = {} => AllKnown(r, Items(s))
    PROVE  AllKnown(r, Old(Line(p)', marks))
<1>1. Line(p) \in Seq(EnvelopeType)
    BY Lines
<1>2. /\ Old(Line(p) \o s, marks) \subseteq Old(Line(p), marks) \cup Old(s, marks)
      /\ Items(Line(p)) \cap marks # {} => Old(Line(p) \o s, marks) \subseteq Old(Line(p), marks)
    BY <1>1, JoinedOld
<1>3. Old(s, marks) \subseteq Items(s)
    BY OldItems
<1> QED BY <1>2, <1>3 DEF AllKnown

LEMMA AddedInStep ==
    ASSUME Inv, Growing, NEW p \in Peers, NEW e \in EnvelopeType, InStep(p),
           Line(p)' = Line(p) \o <<e>>, Kept(p) = Line(p), Kept(p)' = Line(p)', e.id < ch'[p].next,
           Items(Kept(p)) \cap Flushes = {} => Complete(p)'
    PROVE  InStep(p)'
<1> DEFINE s == <<e>>
<1>1. Items(Kept(p)) \cap Flushes = {} /\ e.kind \in Counted =>
          e.id < ch'[p].next /\ Whole(Kept(p) \o s, posted'[p], Got(p)')
    BY DEF Complete
<1>2. /\ Kept(p) \in Seq(EnvelopeType) /\ posted[p] \in SUBSET Nat /\ ch[p].next \in Nat
      /\ Grows(posted[p], Got(p), ch[p].next, posted'[p], Got(p)', ch'[p].next)
      /\ Gapless(Kept(p), posted[p], Got(p), ch[p].next)
    BY Lines DEF Growing, InStep
<1>3. Gapless(Kept(p) \o s, posted'[p], Got(p)', ch'[p].next)
    BY <1>1, <1>2, GaplessJoined
<1> QED BY <1>3 DEF InStep

\* A new message at the end of what p sends.
LEMMA PostLoss ==
    ASSUME Inv, LossInv, Growing, NEW p \in Peers, NEW e \in EnvelopeType, NEW x,
           e.kind \in Message, e.id = ch[p].next, e.ack = ch[p].maxReceived,
           ch' = [ch EXCEPT ![p] = x], x.next = ch[p].next + 1, x.maxReceived = ch[p].maxReceived,
           x.buffer = Append(ch[p].buffer, e), x.outgoing = Append(ch[p].outgoing, e),
           posted' = [posted EXCEPT ![p] = @ \cup {ch[p].next}],
           p = "client" => state \notin {"connecting", "swapped"}, waiting["client"] \subseteq waiting'["client"],
           UNCHANGED <<wire, state, flushId, link, received>>, budget'.drops = budget.drops
    PROVE  LossInv'
<1> DEFINE s == <<e>>
           q == Other(p)
<1>1. /\ p \in Peers /\ q \in Peers /\ q # p /\ Other(q) = p /\ Peers = {p, q}
      /\ (p = "client" /\ q = "server") \/ (p = "server" /\ q = "client")
    BY DEF Other, Peers
<1>2. /\ s \in Seq(EnvelopeType) /\ Items(s) = {e} /\ Len(s) = 1
      /\ \A n : Carries(s, 1, n) <=> e.kind \in Message /\ e.id = n
      /\ \A z \in Seq(EnvelopeType) : Append(z, e) = z \o s
    BY Single
<1> HIDE DEF s, q
<1>3. /\ wire[p] \in Seq(EnvelopeType) /\ ch[p].outgoing \in Seq(EnvelopeType)
      /\ Line(p) \in Seq(EnvelopeType) /\ ch[p].buffer \in Seq(EnvelopeType) /\ ch[p].next \in Nat
    BY Lines
<1>4. /\ ch'[p] = x /\ ch'[q] = ch[q] /\ posted'[p] = posted[p] \cup {e.id} /\ posted'[q] = posted[q]
    BY <1>1 DEF Inv, Core
<1>5. /\ Line(p)' = Line(p) \o s
      /\ Kept(p)' = IF link = "down" THEN Kept(p) ELSE Kept(p) \o s
      /\ link # "down" => Kept(p) = Line(p)
    <2>1. ch'[p].outgoing = ch[p].outgoing \o s /\ wire'[p] = wire[p] /\ link' = link
        BY <1>2, <1>3, <1>4
    <2> QED BY <1>2, <2>1, Queued
<1>6. /\ Line(q)' = Line(q) /\ Kept(q)' = Kept(q) /\ Got(p)' = Got(p) /\ Got(q)' = Got(q)
    <2>1. wire'[q] = wire[q] /\ link' = link /\ received' = received
        OBVIOUS
    <2>2. Line(q)' = Line(q)
        BY <1>4, <2>1 DEF Line
    <2>3. Kept(q)' = Kept(q)
        BY <2>1, <2>2 DEF Kept
    <2>4. Got(p)' = Got(p) /\ Got(q)' = Got(q)
        BY <2>1 DEF Got
    <2> QED BY <2>2, <2>3, <2>4
<1>19. \A r \in Peers : Line(r)' \in Seq(EnvelopeType)
    <2>1. Line(p) \o s \in Seq(EnvelopeType) /\ Line(q) \in Seq(EnvelopeType)
        BY <1>1, <1>2, <1>3, Lines, ConcatProperties
    <2> QED BY <1>1, <1>5, <1>6, <2>1
<1>7. /\ Items(Line(p)') = Items(Line(p)) \cup {e} /\ Items(Line(q)') = Items(Line(q))
      /\ Items(ch'[p].buffer) = Items(ch[p].buffer) \cup {e} /\ Items(ch'[q].buffer) = Items(ch[q].buffer)
      /\ IdsOf(ch[p].buffer) \cup {e.id} \subseteq IdsOf(ch'[p].buffer)
      /\ IdsOf(ch[q].buffer) = IdsOf(ch'[q].buffer)
    <2>1. Items(Line(p) \o s) = Items(Line(p)) \cup {e}
        BY <1>2, <1>3, JoinedItems
    <2>2. ch'[p].buffer = ch[p].buffer \o s
        BY <1>2, <1>3, <1>4
    <2>3. Items(ch[p].buffer \o s) = Items(ch[p].buffer) \cup {e}
        BY <1>2, <1>3, JoinedItems
    <2>4. ch[p].buffer \o s \in Seq(EnvelopeType)
        BY <1>2, <1>3, ConcatProperties
    <2>5. /\ IdsOf(ch[p].buffer) = {d.id : d \in Items(ch[p].buffer)}
          /\ IdsOf(ch'[p].buffer) = {d.id : d \in Items(ch[p].buffer) \cup {e}}
        BY <1>3, <2>2, <2>3, <2>4, IdsItems
    <2>6. IdsOf(ch[p].buffer) \cup {e.id} \subseteq IdsOf(ch'[p].buffer)
        BY <2>5
    <2> QED BY <1>4, <1>5, <1>6, <2>1, <2>2, <2>3, <2>6
<1>8. e \notin Flushes /\ (Flushing' <=> Flushing)
    <2>1. e \notin Flushes
        BY DEF Flushes, Message
    <2> QED BY <1>1, <1>7, <2>1 DEF Flushing
<1>9. /\ \A r \in Peers : \A a \in Nat : Knows(r, a) => Knows(r, a)'
      /\ \A r \in Peers : \A E \in SUBSET EnvelopeType : AllKnown(r, E) => AllKnown(r, E)'
    BY AllKnownKept
<1>10. \A r \in Peers : Complete(r) => Complete(r)'
    <2>1. Complete(p) => Complete(p)'
        BY <1>2, <1>4, <1>5, Added
    <2>2. Complete(q) => Complete(q)'
        BY <1>4, <1>6 DEF Complete
    <2> QED BY <1>1, <2>1, <2>2
<1>11. PhaseInv'
    BY DEF LossInv, PhaseInv
<1>12. FlushInv'
    <2>1. Once(Line("client")')
        <3>1. Once(Line("client"))
            BY DEF LossInv, FlushInv
        <3>2. Once(Line(p)) => Once(Line(p) \o s)
            BY <1>2, <1>3, <1>8, OnceJoined
        <3> QED BY <1>1, <1>5, <1>6, <3>1, <3>2
    <2>2. \A d \in Items(Line("client")') : d \in Flushes => d.id = flushId
        <3>1. \A d \in Items(Line("client")) : d \in Flushes => d.id = flushId
            BY DEF LossInv, FlushInv
        <3>2. Items(Line("client")') \subseteq Items(Line("client")) \cup {e}
            BY <1>1, <1>7
        <3> QED BY <1>8, <3>1, <3>2
    <2>3. \A r \in Peers : \A d \in Items(ch'[r].buffer) : d.kind \in Message
        <3>1. \A r \in Peers : \A d \in Items(ch[r].buffer) : d.kind \in Message
            BY DEF LossInv, FlushInv
        <3>2. \A r \in Peers : Items(ch'[r].buffer) \subseteq Items(ch[r].buffer) \cup {e}
            BY <1>1, <1>7
        <3> QED BY <3>1, <3>2
    <2> QED BY <1>8, <2>1, <2>2, <2>3 DEF LossInv, FlushInv
<1>13. ZeroInv'
    <2>1. 0 \notin posted'["client"]
        <3>1. 0 \notin posted["client"]
            BY DEF LossInv, ZeroInv
        <3>2. p = "client" => e.id # 0
            BY <1>3 DEF Inv, Begun
        <3>3. CASE p = "client"
            BY <1>4, <3>1, <3>2, <3>3
        <3>4. CASE p = "server"
            BY <1>1, <1>4, <3>1, <3>4
        <3> QED BY <1>1, <3>3, <3>4
    <2>2. ASSUME state \notin {"connecting", "started"}
          PROVE  ch'["server"].next > 0 /\ (0 \in posted'["server"] => 0 \in Got("server")')
        <3>1. ch["server"].next > 0 /\ (0 \in posted["server"] => 0 \in Got("server"))
            BY <2>2 DEF LossInv, ZeroInv
        <3> QED BY <1>1, <1>3, <1>4, <1>6, <3>1
    <2> QED BY <2>1, <2>2 DEF ZeroInv
<1>14. \A r \in Peers : Secured(r) => Secured(r)'
    <2>1. Secured(p) => Secured(p)'
        BY <1>4, <1>6, <1>7 DEF Secured
    <2>2. Secured(q) => Secured(q)'
        BY <1>4, <1>6, <1>7 DEF Secured
    <2> QED BY <1>1, <2>1, <2>2
<1>15. ServerInv'
    <2> SUFFICES ASSUME flushId = None \/ Flushing
                 PROVE  /\ Secured("server")'
                        /\ AllKnown("server", Old(Line("client"), Flushes))'
                        /\ Knows("client", ch["server"].maxReceived)'
                        /\ AllKnown("client", Items(ch["server"].buffer))'
                        /\ InStep("client")'
        BY <1>8 DEF ServerInv
    <2>1. /\ Secured("server") /\ Knows("client", ch["server"].maxReceived)
          /\ AllKnown("server", Old(Line("client"), Flushes))
          /\ AllKnown("client", Items(ch["server"].buffer)) /\ InStep("client")
        BY DEF LossInv, ServerInv
    <2>2. AllKnown("server", Old(Line("client"), Flushes)')
        <3>1. CASE p = "client"
            <4>1. Items(Line(p)) \cap Flushes = {} => Knows("server", ch["client"].maxReceived)
                BY <3>1 DEF Flushing, LossInv, ReaderInv
            <4>2. Items(Line(p)) \cap Flushes = {} => AllKnown("server", Items(s))
                BY <1>2, <3>1, <4>1 DEF AllKnown
            <4> QED BY <1>1, <1>2, <1>5, <2>1, <3>1, <4>2, AddedKnown
        <3>2. CASE p = "server"
            BY <1>1, <1>6, <2>1, <3>2
        <3> QED BY <1>1, <3>1, <3>2
    <2>3. AllKnown("server", Old(Line("client"), Flushes))'
        <3>1. Old(Line("client"), Flushes)' \in SUBSET EnvelopeType
            <4>1. Line("client")' \in Seq(EnvelopeType)
                BY <1>1, <1>19
            <4> QED BY <4>1, ItemsTyped
        <3> QED BY <1>1, <1>9, <2>2, <3>1
    <2>4. Knows("client", ch["server"].maxReceived)' /\ AllKnown("client", Items(ch["server"].buffer))'
        <3>1. ch'["server"].maxReceived = ch["server"].maxReceived /\ ch["server"].maxReceived \in Nat
            BY <1>1, <1>4, Lines
        <3>2. AllKnown("client", Items(ch'["server"].buffer))
            BY <1>1, <1>7, <2>1 DEF AllKnown
        <3>3. Items(ch'["server"].buffer) \in SUBSET EnvelopeType
            <4>1. ch["server"].buffer \in Seq(EnvelopeType)
                BY <1>1, Lines
            <4>2. Items(ch["server"].buffer) \subseteq EnvelopeType
                BY <4>1, ItemsTyped
            <4>3. Items(ch'["server"].buffer) \subseteq Items(ch["server"].buffer) \cup {e}
                BY <1>1, <1>7
            <4> QED BY <4>2, <4>3
        <3> QED BY <1>1, <1>9, <2>1, <3>1, <3>2, <3>3
    <2>5. InStep("client")'
        <3>1. CASE p = "client" /\ link # "down"
            <4>1. Items(Kept(p)) \cap Flushes = {} => Complete(p)'
                BY <1>5, <1>10, <3>1 DEF Flushing, LossInv, WholeInv, PhaseInv, Inv, Core
            <4>2. e.id < ch'[p].next /\ InStep(p)
                BY <1>3, <1>4, <2>1, <3>1
            <4> QED BY <1>2, <1>5, <3>1, <4>1, <4>2, AddedInStep DEF s
        <3>2. CASE Kept("client")' = Kept("client")
            BY <1>1, <2>1, <3>2, InStepKept
        <3> QED BY <1>1, <1>5, <1>6, <3>1, <3>2
    <2> QED BY <1>1, <1>14, <2>1, <2>3, <2>4, <2>5
<1>16. ClientInv'
    <2> SUFFICES ASSUME flushId = None \/ state = "resyncing"
                 PROVE  Secured("client")' /\ AllKnown("client", Old(Line("server"), Reply))'
        BY DEF ClientInv
    <2>1. Secured("client") /\ AllKnown("client", Old(Line("server"), Reply))
        BY DEF LossInv, ClientInv
    <2>2. Reply' = Reply
        BY DEF Reply
    <2>3. AllKnown("client", Old(Line("server")', Reply))
        <3>1. CASE p = "server"
            <4>1. Items(Line(p)) \cap Reply = {} => Knows("client", ch["server"].maxReceived)
                BY <3>1 DEF LossInv, ServerInv, WholeInv
            <4>2. Items(Line(p)) \cap Reply = {} => AllKnown("client", Items(s))
                BY <1>2, <3>1, <4>1 DEF AllKnown
            <4> QED BY <1>1, <1>2, <1>5, <2>1, <3>1, <4>2, AddedKnown
        <3>2. CASE p = "client"
            BY <1>1, <1>6, <2>1, <3>2
        <3> QED BY <1>1, <3>1, <3>2
    <2>4. Old(Line("server")', Reply) \in SUBSET EnvelopeType
        <3>1. Line("server")' \in Seq(EnvelopeType)
            BY <1>1, <1>19
        <3> QED BY <3>1, ItemsTyped
    <2> QED BY <1>1, <1>9, <1>14, <2>1, <2>2, <2>3, <2>4
<1>17. ReaderInv'
    <2> SUFFICES ASSUME flushId = None
                 PROVE  Knows("server", ch["client"].maxReceived)' /\ (state # "swapped" => InStep("server")')
        BY DEF ReaderInv
    <2>1. Knows("server", ch["client"].maxReceived) /\ (state # "swapped" => InStep("server"))
        BY DEF LossInv, ReaderInv
    <2>2. Knows("server", ch["client"].maxReceived)'
        <3>1. ch'["client"].maxReceived = ch["client"].maxReceived /\ ch["client"].maxReceived \in Nat
            BY <1>1, <1>4, Lines
        <3> QED BY <1>1, <1>9, <2>1, <3>1
    <2>3. ASSUME state # "swapped" PROVE InStep("server")'
        <3>1. CASE p = "server" /\ link # "down"
            <4>1. Complete(p)'
                BY <1>5, <1>10, <2>3, <3>1 DEF LossInv, WholeInv, Inv, Core
            <4>2. e.id < ch'[p].next /\ InStep(p)
                BY <1>3, <1>4, <2>1, <2>3, <3>1
            <4> QED BY <1>2, <1>5, <3>1, <4>1, <4>2, AddedInStep DEF s
        <3>2. CASE Kept("server")' = Kept("server")
            BY <1>1, <2>1, <2>3, <3>2, InStepKept
        <3> QED BY <1>1, <1>5, <1>6, <3>1, <3>2
    <2> QED BY <2>2, <2>3
<1>18. WholeInv'
    <2>1. Reply' = Reply /\ "client" \in Peers /\ "server" \in Peers
        BY DEF Reply, Peers
    <2>2. Items(Line("server")) \subseteq Items(Line("server")')
        BY <1>1, <1>7
    <2> QED BY <1>8, <1>10, <2>1, <2>2 DEF LossInv, WholeInv
<1> QED BY <1>11, <1>12, <1>13, <1>15, <1>16, <1>17, <1>18 DEF LossInv

LEMMA PostGrows ==
    ASSUME Inv, Inv', NEW p \in Peers, ch'[p].next = ch[p].next + 1,
           \A r \in Peers \ {p} : ch'[r].next = ch[r].next,
           posted' = [posted EXCEPT ![p] = @ \cup {ch[p].next}], received' = received
    PROVE  Growing
<1> SUFFICES ASSUME NEW r \in Peers
             PROVE  Grows(posted[r], Got(r), ch[r].next, posted'[r], Got(r)', ch'[r].next)
    BY DEF Growing
<1>1. posted'[r] \in SUBSET Nat /\ Got(r)' = Got(r) /\ ch[r].next \in Nat
    BY Known DEF Inv, Core, Got
<1>2. ch'[r].next \in Nat /\ ch[r].next <= ch'[r].next
    BY <1>1
<1>3. \A n \in posted'[r] : n \in posted[r] \/ n = ch[r].next
    BY DEF Inv, Core
<1> QED BY <1>1, <1>2, <1>3 DEF Grows

LEMMA ForegroundLoss ==
    ASSUME Inv, Inv', LossInv, NEW p \in Peers, NEW kind \in {"send", "request"}, SendForeground(p, kind)
    PROVE  LossInv'
<1> DEFINE e == Envelope(kind, ch[p].next, None, ch[p].maxReceived)
           x == Post(ch[p], kind, None)
<1>1. /\ ch' = [ch EXCEPT ![p] = x] /\ posted' = [posted EXCEPT ![p] = @ \cup {ch[p].next}]
      /\ budget[p] > 0 /\ budget' = [budget EXCEPT ![p] = @ - 1]
      /\ waiting["client"] \subseteq waiting'["client"]
      /\ UNCHANGED <<wire, state, flushId, link, received>>
      /\ p = "client" => state \notin {"connecting", "swapped"}
    BY PeersKnown DEF SendForeground, MaySend, Inv, Core
<1>2. ch[p] \in Channel(EnvelopeType) /\ ch[p].next \in Nat /\ ch[p].maxReceived \in Nat
    BY Lines
<1>3. e \in EnvelopeType
    BY <1>2, EnvelopeTyped
<1>4. /\ x.next = ch[p].next + 1 /\ x.maxReceived = ch[p].maxReceived
      /\ x.buffer = Append(ch[p].buffer, e) /\ x.outgoing = Append(ch[p].outgoing, e)
      /\ e.kind = kind /\ e.id = ch[p].next /\ e.ack = ch[p].maxReceived
    BY <1>2 DEF Post, Channel, Envelope
<1> HIDE DEF x, e
<1>5. ch'[p] = x /\ \A r \in Peers \ {p} : ch'[r] = ch[r]
    BY <1>1 DEF Inv, Core
<1>6. Growing
    BY <1>1, <1>4, <1>5, PostGrows
<1>7. budget'.drops = budget.drops
    BY <1>1, Spent DEF Inv, Core
<1>8. e.kind \in Message
    BY <1>4 DEF Message
<1> QED BY <1>1, <1>3, <1>4, <1>6, <1>7, <1>8, PostLoss

LEMMA RespondLoss == ASSUME Inv, Inv', LossInv, NEW p \in Peers, Respond(p) PROVE LossInv'
<1> DEFINE e == Envelope("response", ch[p].next, Head(todo[p]), ch[p].maxReceived)
           x == Post(ch[p], "response", Head(todo[p]))
<1>1. /\ ch' = [ch EXCEPT ![p] = x] /\ posted' = [posted EXCEPT ![p] = @ \cup {ch[p].next}]
      /\ todo[p] # <<>> /\ (p = "client" => state # "swapped")
      /\ UNCHANGED <<wire, waiting, state, flushId, link, budget, received>>
    BY DEF Respond
<1>2. p = "client" => state \notin {"connecting", "swapped"}
    <2>1. ch["client"].next \in Nat
        BY Lines, PeersKnown
    <2> QED BY <1>1, <2>1 DEF Inv, Begun
<1>3. ch[p] \in Channel(EnvelopeType) /\ ch[p].next \in Nat /\ ch[p].maxReceived \in Nat
    BY Lines
<1>4. e \in EnvelopeType
    <2>1. Head(todo[p]) \in Nat
        BY <1>1, HeadTailProperties DEF Inv, Core
    <2> QED BY <1>3, <2>1, EnvelopeTyped
<1>5. /\ x.next = ch[p].next + 1 /\ x.maxReceived = ch[p].maxReceived
      /\ x.buffer = Append(ch[p].buffer, e) /\ x.outgoing = Append(ch[p].outgoing, e)
      /\ e.kind = "response" /\ e.id = ch[p].next /\ e.ack = ch[p].maxReceived
    BY <1>3 DEF Post, Channel, Envelope
<1> HIDE DEF x, e
<1>6. ch'[p] = x /\ \A r \in Peers \ {p} : ch'[r] = ch[r]
    BY <1>1 DEF Inv, Core
<1>7. Growing
    BY <1>1, <1>5, <1>6, PostGrows
<1>8. e.kind \in Message /\ budget'.drops = budget.drops /\ waiting["client"] \subseteq waiting'["client"]
      /\ UNCHANGED <<wire, state, flushId, link, received>>
    BY <1>1, <1>5 DEF Message
<1> QED BY <1>1, <1>2, <1>4, <1>5, <1>7, <1>8, PostLoss

\* Nothing is sent, read or lost.
LEMMA SameLoss ==
    ASSUME LossInv,
           \A r \in Peers : /\ Line(r)' = Line(r) /\ Kept(r)' = Kept(r)
                            /\ ch'[r].next = ch[r].next /\ ch'[r].buffer = ch[r].buffer
                            /\ ch'[r].maxReceived = ch[r].maxReceived,
           UNCHANGED <<posted, received, waiting, state, flushId, link, budget>>
    PROVE  LossInv'
<1>1. "client" \in Peers /\ "server" \in Peers
    BY DEF Peers
<1>2. /\ \A r \in Peers : Got(r)' = Got(r)
      /\ (Flushing' <=> Flushing) /\ Reply' = Reply
    BY <1>1 DEF Got, Flushing, Reply
<1>3. \A r \in Peers : /\ \A a : Knows(r, a)' <=> Knows(r, a)
                       /\ \A E : AllKnown(r, E)' <=> AllKnown(r, E)
                       /\ InStep(r)' <=> InStep(r)
                       /\ Complete(r)' <=> Complete(r)
                       /\ Secured(r)' <=> Secured(r)
    <2> SUFFICES ASSUME NEW r \in Peers
                 PROVE  /\ \A a : Knows(r, a)' <=> Knows(r, a)
                        /\ \A E : AllKnown(r, E)' <=> AllKnown(r, E)
                        /\ InStep(r)' <=> InStep(r)
                        /\ Complete(r)' <=> Complete(r)
                        /\ Secured(r)' <=> Secured(r)
        OBVIOUS
    <2>1. \A a : Knows(r, a)' <=> Knows(r, a)
        BY <1>2 DEF Knows
    <2>2. \A E : AllKnown(r, E)' <=> AllKnown(r, E)
        BY <2>1 DEF AllKnown
    <2>3. InStep(r)' <=> InStep(r)
        BY <1>2 DEF InStep
    <2>4. Complete(r)' <=> Complete(r)
        BY <1>2 DEF Complete
    <2>5. Secured(r)' <=> Secured(r)
        BY <1>2 DEF Secured
    <2> QED BY <2>1, <2>2, <2>3, <2>4, <2>5
<1>4. PhaseInv'
    BY DEF LossInv, PhaseInv
<1>5. FlushInv'
    BY <1>1, <1>2 DEF LossInv, FlushInv
<1>6. ZeroInv'
    BY <1>1, <1>2 DEF LossInv, ZeroInv
<1>7. ServerInv'
    BY <1>1, <1>2, <1>3 DEF LossInv, ServerInv
<1>8. ClientInv'
    BY <1>1, <1>2, <1>3 DEF LossInv, ClientInv
<1>9. ReaderInv'
    BY <1>1, <1>3 DEF LossInv, ReaderInv
<1>10. WholeInv'
    BY <1>1, <1>2, <1>3 DEF LossInv, WholeInv
<1> QED BY <1>4, <1>5, <1>6, <1>7, <1>8, <1>9, <1>10 DEF LossInv

LEMMA TransmitLoss == ASSUME Inv, LossInv, NEW p \in Peers, Transmit(p) PROVE LossInv'
<1> DEFINE x == [ch[p] EXCEPT !.outgoing = Tail(@)]
<1>1. /\ ch' = [ch EXCEPT ![p] = x] /\ wire' = [wire EXCEPT ![p] = Append(@, Head(ch[p].outgoing))]
      /\ ch[p].outgoing # <<>> /\ link = "up"
      /\ UNCHANGED <<posted, received, waiting, state, flushId, link, budget>>
    BY DEF Transmit
<1>2. /\ ch[p] \in Channel(EnvelopeType) /\ wire[p] \in Seq(EnvelopeType)
      /\ ch[p].outgoing \in Seq(EnvelopeType)
    BY Lines
<1>3. /\ x.next = ch[p].next /\ x.outgoing = Tail(ch[p].outgoing) /\ x.buffer = ch[p].buffer
      /\ x.maxReceived = ch[p].maxReceived
    BY <1>2 DEF Channel
<1> HIDE DEF x
<1>4. ch'[p] = x /\ wire'[p] = Append(wire[p], Head(ch[p].outgoing))
    BY <1>1 DEF Inv, Core
<1>5. wire'[p] \o ch'[p].outgoing = wire[p] \o ch[p].outgoing
    <2>1. Append(wire[p], Head(ch[p].outgoing)) \o Tail(ch[p].outgoing) = wire[p] \o ch[p].outgoing
        BY <1>1, <1>2, TransmittedInPlace
    <2>2. ch'[p].outgoing = Tail(ch[p].outgoing)
        BY <1>3, <1>4
    <2> QED BY <1>4, <2>1, <2>2
<1>6. \A r \in Peers \ {p} : ch'[r] = ch[r] /\ wire'[r] = wire[r]
    BY <1>1 DEF Inv, Core
<1>7. \A r \in Peers : Line(r)' = Line(r)
    BY <1>5, <1>6 DEF Line
<1>8. \A r \in Peers : Kept(r)' = Kept(r)
    BY <1>1, <1>7 DEF Kept
<1>9. \A r \in Peers : ch'[r].next = ch[r].next /\ ch'[r].buffer = ch[r].buffer
                          /\ ch'[r].maxReceived = ch[r].maxReceived
    BY <1>3, <1>4, <1>6
<1> QED BY <1>1, <1>7, <1>8, <1>9, SameLoss

\* Lines get shorter, in a drop or while the connection is down.
LEMMA CutLoss ==
    ASSUME Inv, LossInv, flushId = None, flushId' = None, budget'.drops = 0,
           state \notin {"connecting", "started"},
           (link' = "down" /\ state' = "connected") \/ (link' = "up" /\ state' = "swapped"),
           \A r \in Peers : /\ Items(Line(r)') \subseteq Items(Line(r))
                            /\ ch'[r].next = ch[r].next /\ ch'[r].buffer = ch[r].buffer
                            /\ ch'[r].maxReceived = ch[r].maxReceived,
           posted' = posted, received' = received,
           Kept("client")' = Kept("client") \/ InStep("client")',
           state' # "swapped" => InStep("server")'
    PROVE  LossInv'
<1>1. "client" \in Peers /\ "server" \in Peers
    BY DEF Peers
<1>2. /\ \A r \in Peers : Got(r)' = Got(r)
      /\ Reply = {} /\ Reply' = {} /\ ~Flushing /\ ~Flushing'
    BY <1>1 DEF Got, Flushing, Reply, LossInv, FlushInv
<1>3. ASSUME NEW r \in Peers
      PROVE  /\ \A a : Knows(r, a)' <=> Knows(r, a)
             /\ \A E : AllKnown(r, E)' <=> AllKnown(r, E)
             /\ Secured(r)' <=> Secured(r)
    <2>1. \A a : Knows(r, a)' <=> Knows(r, a)
        BY <1>2 DEF Knows
    <2>2. \A E : AllKnown(r, E)' <=> AllKnown(r, E)
        BY <2>1 DEF AllKnown
    <2>3. Secured(r)' <=> Secured(r)
        BY <1>2 DEF Secured
    <2> QED BY <2>1, <2>2, <2>3
<1>4. /\ Old(Line("client"), Flushes)' \subseteq Old(Line("client"), Flushes)
      /\ Old(Line("server"), Reply)' \subseteq Old(Line("server"), Reply)
    <2>1. Items(Line("client")) \cap Flushes = {} /\ Items(Line("server")) \cap Reply = {}
        BY <1>2 DEF Flushing
    <2>2. /\ Old(Line("client"), Flushes) = Items(Line("client"))
          /\ Old(Line("server"), Reply) = Items(Line("server"))
        BY <2>1, OldItems
    <2>3. /\ Old(Line("client"), Flushes)' \subseteq Items(Line("client")')
          /\ Old(Line("server"), Reply)' \subseteq Items(Line("server")')
        BY OldItems
    <2> QED BY <1>1, <2>2, <2>3
<1>5. PhaseInv'
    <2>1. budget'.drops <= 1
        OBVIOUS
    <2> QED BY <2>1 DEF PhaseInv
<1>6. FlushInv'
    <2>1. Once(Line("client"))'
        BY <1>2, NoFlush DEF Flushing
    <2> QED BY <1>1, <1>2, <2>1 DEF LossInv, FlushInv, Flushing
<1>7. ZeroInv'
    BY <1>1, <1>2 DEF LossInv, ZeroInv
<1>8. ServerInv'
    <2>1. /\ Secured("server") /\ Knows("client", ch["server"].maxReceived)
          /\ AllKnown("server", Old(Line("client"), Flushes))
          /\ AllKnown("client", Items(ch["server"].buffer)) /\ InStep("client")
        BY DEF LossInv, ServerInv
    <2>2. AllKnown("server", Old(Line("client"), Flushes)')
        BY <1>4, <2>1 DEF AllKnown
    <2>3. InStep("client")'
        <3>1. CASE Kept("client")' = Kept("client")
            <4>1. posted'["client"] = posted["client"] /\ Got("client")' = Got("client")
                  /\ ch'["client"].next = ch["client"].next
                BY <1>1, <1>2
            <4> QED BY <2>1, <3>1, <4>1 DEF InStep
        <3> QED BY <3>1
    <2> QED BY <1>1, <1>3, <2>1, <2>2, <2>3 DEF ServerInv
<1>9. ClientInv'
    <2>1. Secured("client") /\ AllKnown("client", Old(Line("server"), Reply))
        BY DEF LossInv, ClientInv
    <2>2. AllKnown("client", Old(Line("server"), Reply)')
        BY <1>4, <2>1 DEF AllKnown
    <2> QED BY <1>1, <1>3, <2>1, <2>2 DEF ClientInv
<1>10. ReaderInv'
    BY <1>1, <1>3 DEF LossInv, ReaderInv
<1>11. WholeInv'
    BY DEF WholeInv
<1> QED BY <1>5, <1>6, <1>7, <1>8, <1>9, <1>10, <1>11 DEF LossInv

LEMMA DisconnectLoss == ASSUME Inv, LossInv, Disconnect PROVE LossInv'
<1>1. /\ state \in {"connected", "resyncing"} /\ link = "up" /\ budget.drops > 0
      /\ link' = "down" /\ budget' = [budget EXCEPT !.drops = @ - 1]
      /\ UNCHANGED <<ch, state, flushId, posted, received>>
    BY DEF Disconnect
<1>2. PICK i \in 0 .. Len(wire["client"]), j \in 0 .. Len(wire["server"]) :
          wire' = [client |-> SubSeq(wire["client"], 1, i), server |-> SubSeq(wire["server"], 1, j)]
    BY DEF Disconnect
<1>3. budget.drops \in Nat /\ budget.drops <= 1 /\ budget'.drops = budget.drops - 1
    BY <1>1 DEF Inv, Core, LossInv, PhaseInv
<1>4. flushId = None /\ flushId' = None /\ budget'.drops = 0 /\ state = "connected" /\ state' = "connected"
    BY <1>1, <1>3 DEF LossInv, PhaseInv
<1>5. ASSUME NEW q \in Seq(EnvelopeType), NEW k \in 0 .. Len(q)
      PROVE  \E s \in Seq(EnvelopeType) : SubSeq(q, 1, k) \in Seq(EnvelopeType) /\ q = SubSeq(q, 1, k) \o s
    <2>1. Len(q) \in Nat /\ \A h \in 1 .. Len(q) : q[h] \in EnvelopeType
        BY LenProperties, ElementOfSeq
    <2>2. SubSeq(q, 1, k) \o SubSeq(q, k + 1, Len(q)) = SubSeq(q, 1, Len(q))
        <3>1. 1 \in 1 .. Len(q) + 1 /\ k \in 1 - 1 .. Len(q) /\ Len(q) \in k .. Len(q)
            BY <2>1
        <3> QED BY <3>1, ConcatAdjacentSubSeq
    <2>3. SubSeq(q, 1, Len(q)) = q
        BY SubSeqFull
    <2>4. SubSeq(q, 1, k) \in Seq(EnvelopeType)
        BY <2>1, SubSeqProperties
    <2>5. SubSeq(q, k + 1, Len(q)) \in Seq(EnvelopeType)
        BY <2>1, SubSeqProperties
    <2> QED BY <2>2, <2>3, <2>4, <2>5
<1>6. ASSUME NEW r \in Peers
      PROVE  \E s \in Seq(EnvelopeType) : wire'[r] \in Seq(EnvelopeType) /\ wire[r] = wire'[r] \o s
    <2>1. CASE r = "client"
        <3>1. wire'[r] = SubSeq(wire[r], 1, i) /\ wire[r] \in Seq(EnvelopeType)
            BY <1>2, <2>1, Lines
        <3> QED BY <1>5, <2>1, <3>1
    <2>2. CASE r = "server"
        <3>1. wire'[r] = SubSeq(wire[r], 1, j) /\ wire[r] \in Seq(EnvelopeType)
            BY <1>2, <2>2, Lines
        <3> QED BY <1>5, <2>2, <3>1
    <2> QED BY <2>1, <2>2 DEF Peers
<1>7. ASSUME NEW r \in Peers
      PROVE  Items(Line(r)') \subseteq Items(Line(r)) /\ (InStep(r) => InStep(r)')
    <2>1. PICK s \in Seq(EnvelopeType) : wire'[r] \in Seq(EnvelopeType) /\ wire[r] = wire'[r] \o s
        BY <1>6
    <2>2. PICK o \in Seq(EnvelopeType) : o = ch[r].outgoing /\ ch'[r].outgoing = o
        BY <1>1, Lines
    <2>3. Line(r)' = wire'[r] \o o /\ Line(r) = wire[r] \o o /\ wire[r] \in Seq(EnvelopeType)
        BY <2>2, Lines DEF Line
    <2>4. Items(Line(r)') = Items(wire'[r]) \cup Items(o)
        BY <2>1, <2>3, JoinedItems
    <2>5. Items(Line(r)) = Items(wire[r]) \cup Items(o) /\ Items(wire[r]) = Items(wire'[r]) \cup Items(s)
        BY <2>1, <2>3, JoinedItems
    <2>6. ASSUME InStep(r) PROVE InStep(r)'
        <3>1. Gapless(wire[r] \o o, posted[r], Got(r), ch[r].next)
            BY <1>1, <2>3, <2>6 DEF InStep, Kept
        <3>2. Gapless(wire[r], posted[r], Got(r), ch[r].next)
            BY <2>3, <3>1, GaplessPrefix
        <3>3. Gapless(wire'[r], posted[r], Got(r), ch[r].next)
            BY <2>1, <3>2, GaplessPrefix
        <3>4. Kept(r)' = wire'[r] /\ Got(r)' = Got(r)
            BY <1>1 DEF Kept, Got
        <3> QED BY <1>1, <3>3, <3>4 DEF InStep
    <2> QED BY <2>4, <2>5, <2>6
<1>8. InStep("client")' /\ InStep("server")'
    <2>1. InStep("client") /\ InStep("server")
        BY <1>4 DEF LossInv, ServerInv, ReaderInv
    <2> QED BY <1>7, <2>1 DEF Peers
<1> QED BY <1>1, <1>4, <1>7, <1>8, CutLoss

LEMMA LoseWriteLoss == ASSUME Inv, LossInv, LoseWrite PROVE LossInv'
<1> DEFINE x == [ch["server"] EXCEPT !.outgoing = Tail(@)]
<1>1. /\ link = "down" /\ ch["server"].outgoing # <<>> /\ ch' = [ch EXCEPT !["server"] = x]
      /\ UNCHANGED <<wire, state, flushId, link, budget, posted, received>>
    BY DEF LoseWrite
<1>2. /\ ch["server"] \in Channel(EnvelopeType) /\ wire["server"] \in Seq(EnvelopeType)
      /\ ch["server"].outgoing \in Seq(EnvelopeType) /\ "server" \in Peers /\ "client" \in Peers
    BY Lines DEF Peers
<1>3. /\ x.next = ch["server"].next /\ x.outgoing = Tail(ch["server"].outgoing)
      /\ x.buffer = ch["server"].buffer /\ x.maxReceived = ch["server"].maxReceived
    BY <1>2 DEF Channel
<1> HIDE DEF x
<1>4. ch'["server"] = x /\ ch'["client"] = ch["client"]
    BY <1>1, <1>2 DEF Inv, Core
<1>5. flushId = None /\ state = "connected" /\ budget.drops = 0
    BY <1>1 DEF LossInv, PhaseInv
<1>6. \A r \in Peers : Kept(r)' = Kept(r)
    BY <1>1 DEF Kept
<1>7. Items(Line("server")') \subseteq Items(Line("server"))
    <2>1. PICK t \in Seq(EnvelopeType) : t = Tail(ch["server"].outgoing) /\ Items(t) \subseteq Items(ch["server"].outgoing)
        BY <1>1, <1>2, Taken, TailOld
    <2>2. Line("server")' = wire["server"] \o t /\ Line("server") = wire["server"] \o ch["server"].outgoing
        BY <1>1, <1>3, <1>4, <2>1 DEF Line
    <2>3. /\ Items(Line("server")') = Items(wire["server"]) \cup Items(t)
          /\ Items(Line("server")) = Items(wire["server"]) \cup Items(ch["server"].outgoing)
        BY <1>2, <2>1, <2>2, JoinedItems
    <2> QED BY <2>1, <2>3
<1>8. \A r \in Peers : /\ Items(Line(r)') \subseteq Items(Line(r))
                       /\ ch'[r].next = ch[r].next /\ ch'[r].buffer = ch[r].buffer
                       /\ ch'[r].maxReceived = ch[r].maxReceived
    <2>1. Line("client")' = Line("client")
        BY <1>1, <1>4 DEF Line
    <2> QED BY <1>3, <1>4, <1>7, <2>1 DEF Peers
<1>9. InStep("server")'
    <2>1. InStep("server")
        BY <1>5 DEF LossInv, ReaderInv
    <2>2. ch'["server"].next = ch["server"].next /\ Got("server")' = Got("server") /\ Kept("server")' = Kept("server")
        BY <1>1, <1>2, <1>3, <1>4, <1>6 DEF Got
    <2> QED BY <1>1, <2>1, <2>2 DEF InStep
<1> QED BY <1>1, <1>2, <1>5, <1>6, <1>8, <1>9, CutLoss

LEMMA ReconnectLoss == ASSUME Inv, LossInv, Reconnect PROVE LossInv'
<1> DEFINE x == [ch["client"] EXCEPT !.outgoing = <<>>]
<1>1. /\ link = "down" /\ link' = "up" /\ state' = "swapped" /\ ch' = [ch EXCEPT !["client"] = x]
      /\ wire' = [wire EXCEPT !["server"] = <<>>]
      /\ UNCHANGED <<flushId, budget, posted, received>>
    BY DEF Reconnect
<1>2. \A r \in Peers : /\ ch[r] \in Channel(EnvelopeType) /\ wire[r] \in Seq(EnvelopeType)
                       /\ ch[r].outgoing \in Seq(EnvelopeType)
    BY Lines
<1>3. "server" \in Peers /\ "client" \in Peers /\ Peers = {"client", "server"}
    BY DEF Peers
<1>4. /\ x.next = ch["client"].next /\ x.outgoing = <<>>
      /\ x.buffer = ch["client"].buffer /\ x.maxReceived = ch["client"].maxReceived
    BY <1>2, <1>3 DEF Channel
<1> HIDE DEF x
<1>5. /\ ch'["client"] = x /\ ch'["server"] = ch["server"]
      /\ wire'["client"] = wire["client"] /\ wire'["server"] = <<>>
    BY <1>1, <1>3 DEF Inv, Core
<1>6. flushId = None /\ state = "connected" /\ budget.drops = 0
    BY <1>1 DEF LossInv, PhaseInv
<1>7. Line("client")' = wire["client"] /\ Line("server")' = ch["server"].outgoing
    BY <1>2, <1>3, <1>4, <1>5, ConcatEmptySeq DEF Line
<1>8. Kept("client")' = Kept("client")
    BY <1>1, <1>7 DEF Kept
<1>9. \A r \in Peers : Items(Line(r)) = Items(wire[r]) \cup Items(ch[r].outgoing)
    BY <1>2, JoinedItems DEF Line
<1>10. \A r \in Peers : /\ Items(Line(r)') \subseteq Items(Line(r))
                        /\ ch'[r].next = ch[r].next /\ ch'[r].buffer = ch[r].buffer
                        /\ ch'[r].maxReceived = ch[r].maxReceived
    BY <1>3, <1>4, <1>5, <1>7, <1>9
<1> QED BY <1>1, <1>6, <1>8, <1>10, CutLoss

LEMMA QuietGrows ==
    ASSUME Inv, Inv', posted' = posted, \A r \in Peers : Got(r) \subseteq Got(r)' /\ ch[r].next <= ch'[r].next
    PROVE  Growing
<1> SUFFICES ASSUME NEW r \in Peers
             PROVE  Grows(posted[r], Got(r), ch[r].next, posted'[r], Got(r)', ch'[r].next)
    BY DEF Growing
<1>1. ch'[r] \in Channel(EnvelopeType) /\ posted'[r] \in SUBSET Nat
    BY DEF Inv, Core
<1>2. ch'[r].next \in Nat
    BY <1>1 DEF Channel
<1> QED BY <1>1, <1>2 DEF Grows

\* From here on the server will resend what it cannot know to be received.
LEMMA ResyncLoss == ASSUME Inv, Inv', LossInv, Resync PROVE LossInv'
<1> DEFINE n == ch["client"].next
           e == Envelope("flush", n, None, ch["client"].maxReceived)
           f == Flush(ch["client"])
           x == [f EXCEPT !.outgoing = Append(@, Started)]
<1>1. /\ state = "swapped" /\ state' = "resyncing" /\ ch' = [ch EXCEPT !["client"] = x]
      /\ waiting'["client"] = waiting["client"] \cup {[id |-> n, kind |-> "flush"]} /\ flushId' = n
      /\ UNCHANGED <<wire, link, budget, posted, received>>
    BY PeersKnown DEF Resync, Inv, Core
<1>2. "server" \in Peers /\ "client" \in Peers /\ Peers = {"client", "server"}
    BY DEF Peers
<1>3. /\ ch["client"] \in Channel(EnvelopeType) /\ n \in Nat /\ ch["client"].maxReceived \in Nat
      /\ wire["client"] \in Seq(EnvelopeType) /\ ch["client"].outgoing \in Seq(EnvelopeType)
      /\ Line("client") \in Seq(EnvelopeType)
    BY <1>2, Lines
<1>4. /\ e \in EnvelopeType /\ e \in Flushes /\ e.id = n /\ e.ack = ch["client"].maxReceived
      /\ e.kind = "flush"
    <2>1. e \in EnvelopeType
        BY <1>3, EnvelopeTyped
    <2> QED BY <2>1 DEF Envelope, Flushes
<1>5. Started \in EnvelopeType /\ Started \notin Flushes /\ Started.kind = "started" /\ Started.ack = None
    BY DEF Started, Envelope, EnvelopeType, Flushes, None
<1>6. /\ x.next = n + 1 /\ x.buffer = ch["client"].buffer /\ x.maxReceived = ch["client"].maxReceived
      /\ x.outgoing = Append(Append(ch["client"].outgoing, e), Started)
    <2>1. /\ f.next = n + 1 /\ f.buffer = ch["client"].buffer /\ f.maxReceived = ch["client"].maxReceived
          /\ f.outgoing = Append(ch["client"].outgoing, e)
          /\ DOMAIN f = {"next", "buffer", "maxReceived", "outgoing"}
        BY <1>3 DEF Flush, Channel
    <2> HIDE DEF f, e
    <2> QED BY <2>1
<1> HIDE DEF x, f, e
<1>7. ch'["client"] = x /\ ch'["server"] = ch["server"]
    BY <1>1, <1>2 DEF Inv, Core
<1>8. flushId = None /\ link # "down" /\ budget.drops = 0 /\ flushId' # None
    <2>1. flushId = None /\ link # "down" /\ budget.drops = 0
        BY <1>1 DEF LossInv, PhaseInv
    <2> QED BY <1>1, <1>3, <2>1 DEF None
<1> DEFINE s == <<e>>
           u == <<Started>>
<1>9. /\ s \in Seq(EnvelopeType) /\ u \in Seq(EnvelopeType) /\ Items(s) = {e} /\ Items(u) = {Started}
      /\ Len(s) = 1 /\ s[1] = e
    BY <1>4, <1>5, Single
<1>10. x.outgoing = (ch["client"].outgoing \o s) \o u
    <2>1. Append(ch["client"].outgoing, e) = ch["client"].outgoing \o s
        BY <1>3, <1>4, Single
    <2>2. ch["client"].outgoing \o s \in Seq(EnvelopeType)
        BY <1>3, <1>9, ConcatProperties
    <2>3. Append(ch["client"].outgoing \o s, Started) = (ch["client"].outgoing \o s) \o u
        BY <1>5, <2>2, Single
    <2> QED BY <1>6, <2>1, <2>3
<1> HIDE DEF s, u
<1> DEFINE old == Line("client")
           mid == old \o s
<1>11. Line("client")' = mid \o u /\ mid \in Seq(EnvelopeType)
    <2>1. PICK w \in Seq(EnvelopeType), o \in Seq(EnvelopeType) :
              w = wire["client"] /\ o = ch["client"].outgoing
        BY <1>3
    <2>5. PICK a \in Seq(EnvelopeType), b \in Seq(EnvelopeType) : a = s /\ b = u
        BY <1>9
    <2>6. Cat(w, Cat(Cat(o, a), b)) = Cat(Cat(Cat(w, o), a), b)
        <3>1. Cat(o, a) \in Seq(EnvelopeType)
            BY Associated
        <3>2. Cat(w, Cat(Cat(o, a), b)) = Cat(Cat(w, Cat(o, a)), b)
            BY <3>1, Associated
        <3>3. Cat(w, Cat(o, a)) = Cat(Cat(w, o), a)
            BY Associated
        <3> QED BY <3>2, <3>3
    <2>7. w \o ((o \o a) \o b) = ((w \o o) \o a) \o b
        BY <2>6 DEF Cat
    <2>2. wire["client"] \o ((ch["client"].outgoing \o s) \o u) = ((wire["client"] \o ch["client"].outgoing) \o s) \o u
        BY <2>1, <2>5, <2>7, Zenon
    <2>3. wire'["client"] = wire["client"] /\ ch'["client"].outgoing = (ch["client"].outgoing \o s) \o u
        BY <1>1, <1>7, <1>10
    <2>4. mid \in Seq(EnvelopeType)
        BY <1>3, <1>9, ConcatProperties
    <2> QED BY <2>2, <2>3, <2>4 DEF Line
<1>12. Items(mid) = Items(old) \cup {e} /\ Items(mid \o u) = Items(old) \cup {e, Started}
    <2>1. Items(mid) = Items(old) \cup {e}
        BY <1>3, <1>9, JoinedItems
    <2>2. Items(mid \o u) = Items(mid) \cup {Started}
        BY <1>9, <1>11, JoinedItems
    <2> QED BY <2>1, <2>2
<1> HIDE DEF mid
<1>13. Line("server")' = Line("server") /\ (\A r \in Peers : Got(r)' = Got(r))
    BY <1>1, <1>7 DEF Line, Got
<1>14. Growing
    <2>1. \A r \in Peers : Got(r) \subseteq Got(r)' /\ ch[r].next <= ch'[r].next
        <3> SUFFICES ASSUME NEW r \in Peers PROVE Got(r) \subseteq Got(r)' /\ ch[r].next <= ch'[r].next
            OBVIOUS
        <3>1. Got(r)' = Got(r) /\ ch[r].next \in Nat
            BY <1>13, Lines
        <3>2. ch'[r].next = ch[r].next \/ ch'[r].next = ch[r].next + 1
            BY <1>2, <1>6, <1>7
        <3> QED BY <3>1, <3>2
    <2> QED BY <1>1, <2>1, QuietGrows
<1>15. /\ \A r \in Peers : \A a \in Nat : Knows(r, a) => Knows(r, a)'
       /\ \A r \in Peers : \A E \in SUBSET EnvelopeType : AllKnown(r, E) => AllKnown(r, E)'
    BY <1>14, AllKnownKept
<1>16. Items(old) \cap Flushes = {} /\ Flushing'
    <2>1. Items(old) \cap Flushes = {}
        BY <1>8 DEF LossInv, FlushInv, Flushing
    <2> QED BY <1>4, <1>11, <1>12, <2>1 DEF Flushing
<1>17. \A r \in Peers : Secured(r) => Secured(r)'
    <2>1. \A r \in Peers : ch'[r].buffer = ch[r].buffer
        BY <1>2, <1>6, <1>7
    <2> QED BY <1>1, <1>13, <2>1 DEF Secured
<1>18. PhaseInv'
    BY <1>1, <1>8 DEF LossInv, PhaseInv
<1>19. FlushInv'
    <2>1. Once(Line("client"))'
        <3>1. Once(s)
            BY <1>9 DEF Once
        <3>2. Once(mid)
            <4>1. /\ Len(old) \in Nat /\ Len(mid) = Len(old) + 1
                  /\ \A i \in 1 .. Len(old) : mid[i] = old[i]
                <5>1. s \in Seq(EnvelopeType)
                    BY <1>9
                <5>2. /\ Len(old) \in Nat /\ Len(mid) = Len(old) + Len(s)
                      /\ \A i \in 1 .. Len(old) : mid[i] = old[i]
                    BY <1>3, <5>1, Joined DEF mid
                <5> QED BY <1>9, <5>2
            <4>2. \A i \in 1 .. Len(old) : mid[i] \notin Flushes
                BY <1>16, <4>1 DEF Items
            <4> QED BY <4>1, <4>2 DEF Once
        <3>3. Once(mid \o u)
            BY <1>5, <1>9, <1>11, <3>2, OnceJoined
        <3> QED BY <1>11, <3>3
    <2>2. \A d \in Items(Line("client")') : d \in Flushes => d.id = flushId'
        BY <1>1, <1>4, <1>5, <1>11, <1>12, <1>16
    <2>3. \A r \in Peers : ch'[r].buffer = ch[r].buffer
        BY <1>2, <1>6, <1>7
    <2> QED BY <1>8, <2>1, <2>2, <2>3 DEF LossInv, FlushInv
<1>20. ZeroInv'
    BY <1>1, <1>2, <1>7, <1>13 DEF LossInv, ZeroInv
<1>21. ServerInv'
    <2>1. /\ Secured("server") /\ Knows("client", ch["server"].maxReceived)
          /\ AllKnown("server", Old(old, Flushes))
          /\ AllKnown("client", Items(ch["server"].buffer)) /\ InStep("client")
          /\ Knows("server", ch["client"].maxReceived)
        BY <1>8 DEF LossInv, ServerInv, ReaderInv
    <2>2. AllKnown("server", Old(Line("client")', Flushes))
        <3>1. /\ Old(mid, Flushes) \subseteq Old(old, Flushes) \cup Old(s, Flushes)
              /\ Old(mid \o u, Flushes) \subseteq Old(mid, Flushes) \cup Old(u, Flushes)
            BY <1>3, <1>9, <1>11, JoinedOld DEF mid
        <3>2. Old(s, Flushes) \subseteq {e} /\ Old(u, Flushes) \subseteq {Started}
            BY <1>9, OldItems
        <3> QED BY <1>4, <1>5, <1>11, <2>1, <3>1, <3>2 DEF AllKnown
    <2>3. AllKnown("server", Old(Line("client"), Flushes))'
        <3>1. Line("client")' \in Seq(EnvelopeType)
            <4>1. mid \in Seq(EnvelopeType) /\ u \in Seq(EnvelopeType)
                BY <1>9, <1>11
            <4>2. mid \o u \in Seq(EnvelopeType)
                BY <4>1, ConcatProperties
            <4> QED BY <1>11, <4>2
        <3>2. Old(Line("client")', Flushes) \in SUBSET EnvelopeType
            BY <3>1, ItemsTyped
        <3> QED BY <1>2, <1>15, <2>2, <3>2
    <2>4. Knows("client", ch["server"].maxReceived)' /\ AllKnown("client", Items(ch["server"].buffer))'
        <3>1. ch["server"].maxReceived \in Nat /\ Items(ch["server"].buffer) \in SUBSET EnvelopeType
            BY <1>2, Lines, ItemsTyped
        <3> QED BY <1>2, <1>7, <1>15, <2>1, <3>1
    <2>5. InStep("client")'
        <3>1. /\ posted["client"] \in SUBSET Nat /\ ch["client"].next \in Nat
              /\ Grows(posted["client"], Got("client"), ch["client"].next,
                       posted'["client"], Got("client")', ch'["client"].next)
              /\ Gapless(old, posted["client"], Got("client"), ch["client"].next)
            <4>1. posted["client"] \in SUBSET Nat /\ ch["client"].next \in Nat
                BY <1>2, Lines
            <4>2. Grows(posted["client"], Got("client"), ch["client"].next,
                        posted'["client"], Got("client")', ch'["client"].next)
                BY <1>2, <1>14 DEF Growing
            <4>3. Gapless(old, posted["client"], Got("client"), ch["client"].next)
                BY <1>8, <2>1 DEF InStep, Kept
            <4> QED BY <4>1, <4>2, <4>3
        <3>2. e.kind \notin Counted /\ Started.kind \notin Counted
            BY <1>4, <1>5 DEF Counted, Message
        <3>3. Gapless(mid, posted'["client"], Got("client")', ch'["client"].next)
            BY <1>3, <1>4, <3>1, <3>2, GaplessJoined DEF mid, s
        <3>4. Grows(posted'["client"], Got("client")', ch'["client"].next,
                    posted'["client"], Got("client")', ch'["client"].next)
              /\ posted'["client"] \in SUBSET Nat /\ ch'["client"].next \in Nat
            BY <3>1 DEF Grows
        <3>5. Gapless(mid \o u, posted'["client"], Got("client")', ch'["client"].next)
            BY <1>5, <1>11, <3>2, <3>3, <3>4, GaplessJoined DEF u
        <3>6. Kept("client")' = mid \o u
            BY <1>1, <1>8, <1>11 DEF Kept
        <3> QED BY <3>5, <3>6 DEF InStep
    <2> QED BY <1>2, <1>17, <2>1, <2>3, <2>4, <2>5 DEF ServerInv
<1>22. ClientInv'
    <2>1. Secured("client") /\ AllKnown("client", Old(Line("server"), Reply))
        BY <1>8 DEF LossInv, ClientInv
    <2>2. Old(Line("server"), Reply) = Items(Line("server"))
        <3>1. Reply = {}
            BY <1>8 DEF Reply
        <3> QED BY <3>1, OldItems
    <2>3. Old(Line("server"), Reply)' \subseteq Items(Line("server"))
        BY <1>13, OldItems
    <2>4. AllKnown("client", Old(Line("server"), Reply)')
        BY <2>1, <2>2, <2>3 DEF AllKnown
    <2>5. Old(Line("server"), Reply)' \in SUBSET EnvelopeType
        BY <1>2, <2>3, Lines, ItemsTyped
    <2> QED BY <1>2, <1>15, <1>17, <2>1, <2>4, <2>5 DEF ClientInv
<1>23. ReaderInv'
    BY <1>8 DEF ReaderInv
<1>24. WholeInv'
    BY <1>1, <1>8, <1>16 DEF WholeInv
<1> QED BY <1>18, <1>19, <1>20, <1>21, <1>22, <1>23, <1>24 DEF LossInv

-----------------------------------------------------------------------------
(* The receive loop.                                                        *)

\* What reading e makes of the line it was in.
LEMMA ReadKeeps ==
    ASSUME Inv, Growing, NEW q \in Peers, NEW e, wire[q] # <<>>, e = Head(wire[q]),
           wire'[q] = Tail(wire[q]), ch'[q].outgoing = ch[q].outgoing, link' = link,
           posted' = posted, e.kind \in Message => e.id \in Got(q)'
    PROVE  /\ e \in EnvelopeType /\ Line(q)' \in Seq(EnvelopeType)
           /\ e \in Items(Line(q)) /\ \A marks : e \in Old(Line(q), marks)
           /\ Items(Line(q)') \subseteq Items(Line(q)) /\ Items(Line(q)) \subseteq {e} \cup Items(Line(q)')
           /\ \A marks : e \notin marks => Old(Line(q)', marks) \subseteq Old(Line(q), marks)
           /\ Once(Line(q)) =>
                 Once(Line(q)') /\ (e \in Flushes => Items(Line(q)') \cap Flushes = {})
           /\ Complete(q) => Complete(q)'
           /\ InStep(q) /\ e \notin Flushes => InStep(q)'
           /\ InStep(q) /\ e.kind \in Counted =>
                 Knows(q, e.id)' /\ ch'[q].next > 0 /\ (0 \in posted[q] => 0 \in Got(q)')
<1>1. /\ wire[q] \in Seq(EnvelopeType) /\ ch[q].outgoing \in Seq(EnvelopeType)
      /\ posted[q] \in SUBSET Nat /\ ch[q].next \in Nat
    BY Lines
<1>2. PICK line \in Seq(EnvelopeType) :
          line = Line(q) /\ line # <<>> /\ Head(line) = e /\ Line(q)' = Tail(line)
    <2>1. /\ wire[q] \o ch[q].outgoing # <<>> /\ wire[q] \o ch[q].outgoing \in Seq(EnvelopeType)
          /\ Head(wire[q] \o ch[q].outgoing) = e
          /\ Tail(wire[q]) \o ch[q].outgoing = Tail(wire[q] \o ch[q].outgoing)
        BY <1>1, ReadFirst
    <2>2. Line(q) = wire[q] \o ch[q].outgoing
        BY DEF Line
    <2>3. Line(q)' = Tail(wire[q]) \o ch[q].outgoing
        BY DEF Line
    <2>4. Line(q)' = Tail(Line(q))
        BY <2>1, <2>2, <2>3
    <2> QED BY <2>1, <2>2, <2>4
<1>3. PICK kept \in Seq(EnvelopeType) :
          kept = Kept(q) /\ kept # <<>> /\ Head(kept) = e /\ Kept(q)' = Tail(kept)
    BY <1>1, <1>2 DEF Kept
<1>4. e \in EnvelopeType /\ e.id \in Nat /\ Tail(line) \in Seq(EnvelopeType)
    <2>1. e \in EnvelopeType /\ Tail(line) \in Seq(EnvelopeType)
        BY <1>2, Taken
    <2> QED BY <2>1 DEF EnvelopeType
<1>5. e \in Items(line) /\ \A marks : e \in Old(line, marks)
    BY <1>2, FirstOld
<1>6. /\ \A marks : e \notin marks => Old(Tail(line), marks) \subseteq Old(line, marks)
      /\ Items(Tail(line)) \subseteq Items(line) /\ Items(line) \subseteq {e} \cup Items(Tail(line))
    BY <1>2, TailOld
<1>7. Once(line) => Once(Tail(line)) /\ (e \in Flushes => Items(Tail(line)) \cap Flushes = {})
    BY <1>2, OnceTail
<1>8. Grows(posted[q], Got(q), ch[q].next, posted'[q], Got(q)', ch'[q].next) /\ posted'[q] = posted[q]
    BY DEF Growing
<1>9. ASSUME Complete(q) PROVE Complete(q)'
    <2>1. Whole(line, posted[q], Got(q)) /\ Got(q) \subseteq Got(q)'
        BY <1>2, <1>8, <1>9 DEF Complete, Grows
    <2>2. Whole(Tail(line), posted[q], Got(q)')
        BY <1>2, <2>1, WholeTail
    <2> QED BY <1>2, <1>8, <2>2 DEF Complete
<1>10. ASSUME InStep(q) PROVE Gapless(kept, posted[q], Got(q), ch[q].next)
    BY <1>3, <1>10 DEF InStep
<1>11. ASSUME InStep(q), e \notin Flushes PROVE InStep(q)'
    <2>1. Gapless(Tail(kept), posted'[q], Got(q)', ch'[q].next)
        BY <1>1, <1>3, <1>8, <1>10, <1>11, GaplessTail
    <2> QED BY <1>3, <2>1 DEF InStep
<1>12. ASSUME InStep(q), e.kind \in Counted
       PROVE  Knows(q, e.id)' /\ ch'[q].next > 0 /\ (0 \in posted[q] => 0 \in Got(q)')
    <2>1. /\ Told(e.id, posted'[q], Got(q)', ch'[q].next) /\ e.id < ch'[q].next
          /\ 0 \in posted'[q] => 0 \in Got(q)'
        <3>1. posted[q] \in SUBSET Nat /\ ch[q].next \in Nat
            BY <1>1
        <3>2. Head(kept).kind \in Counted /\ (Head(kept).kind \in Message => Head(kept).id \in Got(q)')
            BY <1>3, <1>12
        <3>3. Gapless(kept, posted[q], Got(q), ch[q].next) /\ kept # <<>> /\ Head(kept) = e
            BY <1>3, <1>10, <1>12
        <3>4. Grows(posted[q], Got(q), ch[q].next, posted'[q], Got(q)', ch'[q].next)
            BY <1>8
        <3>5. /\ Told(Head(kept).id, posted'[q], Got(q)', ch'[q].next) /\ Head(kept).id < ch'[q].next
              /\ 0 \in posted'[q] => 0 \in Got(q)'
            BY <3>1, <3>2, <3>3, <3>4, GaplessHead
        <3> QED BY <3>3, <3>5
    <2>2. ch'[q].next \in Nat
        BY <1>8 DEF Grows
    <2> QED BY <1>4, <1>8, <2>1, <2>2 DEF Knows
<1> QED BY <1>2, <1>4, <1>5, <1>6, <1>7, <1>9, <1>11, <1>12

\* The buffer after an acknowledgement.
LEMMA Acknowledged ==
    ASSUME Inv, NEW p \in Peers, NEW e \in EnvelopeType
    PROVE  /\ Acked(p, e) \in Channel(EnvelopeType)
           /\ Acked(p, e).next = ch[p].next /\ Acked(p, e).outgoing = ch[p].outgoing
           /\ Acked(p, e).maxReceived = ch[p].maxReceived
           /\ Acked(p, e).buffer \in Seq(EnvelopeType)
           /\ Items(Acked(p, e).buffer) \subseteq Items(ch[p].buffer)
           /\ Secured(p) /\ (e.ack # None => Knows(p, e.ack)) =>
                 \A n \in posted[p] : n = 0 \/ n \in Got(p) \/ n \in IdsOf(Acked(p, e).buffer)
<1>1. /\ ch[p] \in Channel(EnvelopeType) /\ ch[p].buffer \in Seq(EnvelopeType)
      /\ posted[p] \in SUBSET Nat
    BY Lines
<1>2. CASE e.ack = None
    BY <1>1, <1>2 DEF Acked, Secured
<1>3. CASE e.ack # None
    <2> DEFINE b == Trim(ch[p].buffer, e.ack)
    <2>1. e.ack \in Nat
        BY <1>3 DEF EnvelopeType
    <2>2. /\ b \in Seq(EnvelopeType) /\ Items(b) \subseteq Items(ch[p].buffer)
          /\ \A n \in IdsOf(ch[p].buffer) : n > e.ack => n \in IdsOf(b)
        BY <1>1, <2>1, Trimmed
    <2>3. Acked(p, e) = [ch[p] EXCEPT !.buffer = b]
        BY <1>3 DEF Acked
    <2> HIDE DEF b
    <2>4. /\ Acked(p, e) \in Channel(EnvelopeType) /\ Acked(p, e).buffer = b
          /\ Acked(p, e).next = ch[p].next /\ Acked(p, e).outgoing = ch[p].outgoing
          /\ Acked(p, e).maxReceived = ch[p].maxReceived
        BY <1>1, <2>2, <2>3 DEF Channel
    <2>5. ASSUME Secured(p), Knows(p, e.ack), NEW n \in posted[p]
          PROVE  n = 0 \/ n \in Got(p) \/ n \in IdsOf(b)
        <3>1. n \in Nat /\ (n = 0 \/ n \in Got(p) \/ n \in IdsOf(ch[p].buffer))
            BY <1>1, <2>5 DEF Secured
        <3>2. 0 < n /\ n <= e.ack => n \in Got(p)
            BY <2>5 DEF Knows, Told
        <3> QED BY <2>1, <2>2, <3>1, <3>2
    <2> QED BY <1>3, <2>2, <2>4, <2>5
<1> QED BY <1>2, <1>3

\* A buffer that is sent again carries what it holds.
LEMMA Carried ==
    ASSUME NEW q \in Seq(EnvelopeType), \A e \in Items(q) : e.kind \in Message, NEW n \in IdsOf(q)
    PROVE  Carries(q, Len(q), n)
<1>1. DOMAIN q = 1 .. Len(q)
    BY LenProperties
<1>2. PICK i \in 1 .. Len(q) : q[i].id = n
    BY <1>1 DEF IdsOf
<1>3. q[i].kind \in Message
    BY DEF Items
<1> QED BY <1>2, <1>3 DEF Carries

\* What stands behind a flush does not count.
LEMMA GaplessFlushed ==
    ASSUME NEW q \in Seq(EnvelopeType), NEW s \in Seq(EnvelopeType), Items(q) \cap Flushes # {},
           NEW sent, NEW got, NEW next, Gapless(q, sent, got, next)
    PROVE  Gapless(q \o s, sent, got, next)
<1>1. \A i \in UpTo(q \o s, Flushes) :
          \/ i \in UpTo(q, Flushes) /\ (q \o s)[i] = q[i]
          \/ /\ Items(q) \cap Flushes = {}
             /\ \E k \in UpTo(s, Flushes) : i = Len(q) + k /\ (q \o s)[i] = s[k]
    BY JoinedUpTo, Zenon
<1> SUFFICES ASSUME NEW i \in UpTo(q \o s, Flushes), (q \o s)[i].kind \in Counted
             PROVE  /\ (q \o s)[i].id < next
                    /\ \A n \in sent : n <= (q \o s)[i].id => n \in got \/ Carries(q \o s, i, n)
    BY Zenon DEF Gapless
<1>2. i \in UpTo(q, Flushes) /\ (q \o s)[i] = q[i]
    BY <1>1
<1>3. i \in 1 .. Len(q) /\ q[i].kind \in Counted
    BY <1>2 DEF UpTo
<1>4. q[i].id < next /\ \A n \in sent : n <= q[i].id => n \in got \/ Carries(q, i, n)
    BY <1>2, <1>3 DEF Gapless
<1> QED BY <1>2, <1>3, <1>4, CarriedJoined

LEMMA Reading ==
    ASSUME Inv, NEW p \in Peers, NEW q \in Peers, q = Other(p), Receive(p)
    PROVE  /\ q # p /\ Other(q) = p /\ Peers = {p, q}
           /\ wire[q] # <<>> /\ wire'[q] = Tail(wire[q]) /\ wire'[p] = wire[p]
           /\ UNCHANGED <<flushId, link, budget, posted>>
           /\ \/ ReceiveFlush(p, Head(wire[q]))
              \/ ReceiveStarted(p, Head(wire[q]))
              \/ ReceiveMessage(p, Head(wire[q]))
<1>1. q # p /\ Other(q) = p /\ Peers = {p, q}
    BY DEF Other, Peers
<1>2. /\ wire[q] # <<>> /\ wire' = [wire EXCEPT ![q] = Tail(wire[q])]
      /\ UNCHANGED <<flushId, link, budget, posted>>
      /\ \/ ReceiveFlush(p, Head(wire[q]))
         \/ ReceiveStarted(p, Head(wire[q]))
         \/ ReceiveMessage(p, Head(wire[q]))
    BY DEF Receive
<1> QED BY <1>1, <1>2 DEF Inv, Core

\* The server reads the flush: what the client lacks is on its line again.
LEMMA FlushLoss ==
    ASSUME Inv, Inv', LossInv, Receive("server"), NEW e, e = Head(wire["client"]), ReceiveFlush("server", e)
    PROVE  LossInv'
<1> DEFINE d == Acked("server", e)
           c == Resend(d)
           a == Envelope("ack", ch["server"].next, e.id, None)
           x == Ack(c, e.id)
<1>1. /\ "server" \in Peers /\ "client" \in Peers /\ Peers = {"client", "server"}
      /\ Other("server") = "client" /\ Other("client") = "server"
    BY DEF Peers, Other
<1>2. /\ wire["client"] # <<>> /\ wire'["client"] = Tail(wire["client"]) /\ wire'["server"] = wire["server"]
      /\ UNCHANGED <<flushId, link, budget, posted>>
    BY <1>1, Reading
<1>3. /\ e.kind = "flush" /\ ch' = [ch EXCEPT !["server"] = x]
      /\ UNCHANGED <<waiting, state, received>>
    BY DEF ReceiveFlush
<1>4. wire["client"] \in Seq(EnvelopeType)
    BY <1>1, Lines
<1>5. e \in EnvelopeType /\ e.id \in Nat /\ e \in Flushes
    <2>1. e \in EnvelopeType
        BY <1>2, <1>4, Taken
    <2> QED BY <1>3, <2>1 DEF EnvelopeType, Flushes
<1>6. /\ d \in Channel(EnvelopeType) /\ d.next = ch["server"].next
      /\ d.outgoing = ch["server"].outgoing /\ d.maxReceived = ch["server"].maxReceived
      /\ d.buffer \in Seq(EnvelopeType) /\ Items(d.buffer) \subseteq Items(ch["server"].buffer)
    BY <1>1, <1>5, Acknowledged
<1>7. Secured("server") /\ (e.ack # None => Knows("server", e.ack)) =>
          \A n \in posted["server"] : n = 0 \/ n \in Got("server") \/ n \in IdsOf(d.buffer)
    BY <1>1, <1>5, Acknowledged
<1>8. /\ ch["server"].outgoing \in Seq(EnvelopeType) /\ ch["server"].next \in Nat
      /\ Line("server") \in Seq(EnvelopeType) /\ Line("client") \in Seq(EnvelopeType)
    BY <1>1, Lines
<1>9. a \in EnvelopeType /\ a.kind = "ack" /\ a.ack = None /\ a.re = e.id
    <2>1. a \in EnvelopeType
        BY <1>5, <1>8, EnvelopeTyped
    <2> QED BY <2>1 DEF Envelope
<1> HIDE DEF d
<1>10. /\ c.next = d.next /\ c.buffer = d.buffer /\ c.maxReceived = d.maxReceived
       /\ c.outgoing = d.outgoing \o d.buffer /\ c \in Channel(EnvelopeType)
    <2>1. c \in Channel(EnvelopeType)
        BY <1>6, ResendKeeps
    <2> QED BY <1>6, <2>1 DEF Resend, Channel
<1> HIDE DEF c
<1>11. /\ x.next = ch["server"].next + 1 /\ x.buffer = d.buffer /\ x.maxReceived = d.maxReceived
       /\ x.outgoing = Append(ch["server"].outgoing \o d.buffer, a)
    BY <1>6, <1>10 DEF Ack, Channel
<1> HIDE DEF x, a
<1> DEFINE t == <<a>>
           s == d.buffer \o t
<1>12. t \in Seq(EnvelopeType) /\ Items(t) = {a}
    BY <1>9, Single
<1>13. x.outgoing = (ch["server"].outgoing \o d.buffer) \o t
    <2>1. ch["server"].outgoing \o d.buffer \in Seq(EnvelopeType)
        BY <1>6, <1>8, ConcatProperties
    <2> QED BY <1>9, <1>11, <2>1, Single
<1> HIDE DEF t
<1>14. s \in Seq(EnvelopeType) /\ Items(s) = Items(d.buffer) \cup {a}
    <2>1. d.buffer \in Seq(EnvelopeType) /\ t \in Seq(EnvelopeType)
        BY <1>6, <1>12
    <2>2. d.buffer \o t \in Seq(EnvelopeType)
        BY <2>1, ConcatProperties
    <2> QED BY <1>12, <2>1, <2>2, JoinedItems
<1>15. x.outgoing = ch["server"].outgoing \o s
    <2>1. PICK o \in Seq(EnvelopeType), b \in Seq(EnvelopeType), u \in Seq(EnvelopeType) :
              o = ch["server"].outgoing /\ b = d.buffer /\ u = t
        BY <1>6, <1>8, <1>12
    <2>2. Cat(Cat(o, b), u) = Cat(o, Cat(b, u))
        BY Associated
    <2>3. (o \o b) \o u = o \o (b \o u)
        BY <2>2 DEF Cat
    <2> QED BY <1>13, <2>1, <2>3
<1>16. ASSUME NEW n \in IdsOf(d.buffer) PROVE Carries(s, Len(s), n)
    <2>1. \A i \in Items(d.buffer) : i.kind \in Message
        BY <1>1, <1>6 DEF LossInv, FlushInv
    <2>2. Carries(d.buffer, Len(d.buffer), n)
        BY <1>6, <1>16, <2>1, Carried
    <2>3. PICK b \in Seq(EnvelopeType), u \in Seq(EnvelopeType) : b = d.buffer /\ u = t
        BY <1>6, <1>12
    <2>4. Len(b \o u) = Len(b) + Len(u) /\ Len(u) \in Nat
        BY Joined
    <2>5. Carries(b \o u, Len(b) + Len(u), n)
        BY <2>2, <2>3, <2>4, CarriedJoined
    <2> QED BY <2>3, <2>4, <2>5
<1> HIDE DEF s
<1>17. ch'["server"] = x /\ ch'["client"] = ch["client"] /\ (\A r \in Peers : Got(r)' = Got(r))
    BY <1>1, <1>3 DEF Inv, Core, Got
<1>18. Growing
    <2>1. ASSUME NEW r \in Peers PROVE Got(r) \subseteq Got(r)' /\ ch[r].next <= ch'[r].next
        <3>1. ch[r].next \in Nat
            BY Lines
        <3>2. ch'[r].next = ch[r].next \/ ch'[r].next = ch[r].next + 1
            BY <1>1, <1>11, <1>17
        <3> QED BY <1>17, <3>1, <3>2
    <2> QED BY <1>2, <2>1, QuietGrows
<1>19. /\ e \in Items(Line("client")) /\ e \in Old(Line("client"), Flushes)
       /\ Items(Line("client")') \subseteq Items(Line("client"))
       /\ Once(Line("client")) =>
             Once(Line("client")') /\ (e \in Flushes => Items(Line("client")') \cap Flushes = {})
       /\ Complete("client") => Complete("client")'
    <2>1. e.kind \notin Message /\ ch'["client"].outgoing = ch["client"].outgoing
        BY <1>3, <1>17 DEF Message
    <2> QED BY <1>1, <1>2, <1>18, <2>1, ReadKeeps
<1>20. Flushing /\ flushId # None /\ e.id = flushId /\ Once(Line("client")') /\ ~Flushing'
    BY <1>5, <1>19 DEF LossInv, FlushInv, Flushing
<1>21. link # "down" /\ state \in {"resyncing", "connected"}
    BY <1>20 DEF LossInv, PhaseInv
<1>22. Line("server")' = Line("server") \o s /\ a \in Reply'
    <2>1. Line("server")' = Line("server") \o s
        BY <1>1, <1>2, <1>14, <1>15, <1>17, Queued
    <2>2. a \in Reply'
        BY <1>2, <1>9, <1>20 DEF Reply
    <2> QED BY <2>1, <2>2
<1>23. PhaseInv'
    BY <1>2, <1>3 DEF LossInv, PhaseInv
<1>24. FlushInv'
    <2>1. \A r \in Peers : Items(ch'[r].buffer) \subseteq Items(ch[r].buffer)
        BY <1>1, <1>6, <1>11, <1>17
    <2>2. \A r \in Peers : \A i \in Items(ch'[r].buffer) : i.kind \in Message
        BY <2>1 DEF LossInv, FlushInv
    <2>3. \A i \in Items(Line("client")') : i \notin Flushes
        BY <1>20 DEF Flushing
    <2> QED BY <1>20, <2>2, <2>3 DEF FlushInv
<1>25. ZeroInv'
    BY <1>1, <1>2, <1>3, <1>8, <1>11, <1>17 DEF LossInv, ZeroInv
<1>26. ServerInv' /\ ReaderInv'
    BY <1>2, <1>20 DEF ServerInv, ReaderInv
<1>27. /\ Secured("server") /\ AllKnown("server", Old(Line("client"), Flushes))
       /\ AllKnown("client", Items(ch["server"].buffer))
    BY <1>20 DEF LossInv, ServerInv
<1>28. ClientInv'
    <2> SUFFICES ASSUME state = "resyncing"
                 PROVE  Secured("client")' /\ AllKnown("client", Old(Line("server"), Reply))'
        BY <1>2, <1>3, <1>20 DEF ClientInv
    <2>1. Secured("client") /\ AllKnown("client", Old(Line("server"), Reply))
        BY DEF LossInv, ClientInv
    <2>2. Reply' = Reply
        BY <1>2 DEF Reply
    <2>3. AllKnown("client", Items(s))
        BY <1>6, <1>9, <1>14, <1>27 DEF AllKnown
    <2>4. AllKnown("client", Old(Line("server")', Reply))
        BY <1>1, <1>14, <1>22, <2>1, <2>3, AddedKnown
    <2>5. Old(Line("server")', Reply) \in SUBSET EnvelopeType
        <3>1. Line("server") \o s \in Seq(EnvelopeType)
            BY <1>8, <1>14, ConcatProperties
        <3> QED BY <1>22, <3>1, ItemsTyped
    <2>6. AllKnown("client", Old(Line("server"), Reply))'
        BY <1>1, <1>18, <2>2, <2>4, <2>5, AllKnownKept
    <2>7. Secured("client")'
        BY <1>1, <1>2, <1>17, <2>1 DEF Secured
    <2> QED BY <2>6, <2>7
<1>29. Complete("server")'
    <2>1. e.ack # None => Knows("server", e.ack)
        BY <1>19, <1>27 DEF AllKnown
    <2>2. \A n \in posted["server"] : n \in Got("server") \/ n \in IdsOf(d.buffer)
        BY <1>7, <1>21, <1>27, <2>1 DEF LossInv, ZeroInv
    <2>3. \A n \in posted["server"] : n \in Got("server") \/ Carries(s, Len(s), n)
        BY <1>16, <2>2
    <2>4. Whole(Line("server"), {}, Got("server"))
        BY DEF Whole
    <2>5. Whole(Line("server") \o s, posted["server"], Got("server"))
        BY <1>8, <1>14, <2>3, <2>4, WholeJoined
    <2> QED BY <1>1, <1>2, <1>17, <1>22, <2>5 DEF Complete
<1>30. WholeInv'
    <2>1. state # "resyncing" => Complete("client")'
        BY <1>19, <1>20 DEF LossInv, WholeInv
    <2>2. Items(Line("server")') \cap Reply' # {}
        <3>1. Items(Line("server") \o s) = Items(Line("server")) \cup Items(s)
            BY <1>8, <1>14, JoinedItems
        <3> QED BY <1>14, <1>22, <3>1
    <2> QED BY <1>2, <1>3, <1>20, <1>29, <2>1, <2>2 DEF WholeInv
<1> QED BY <1>23, <1>24, <1>25, <1>26, <1>28, <1>30 DEF LossInv

\* The acknowledgement of a RemoteStarted acknowledges nothing else.
LEMMA StartedLoss ==
    ASSUME Inv, Inv', LossInv, NEW p \in Peers, NEW q \in Peers, q = Other(p), Receive(p),
           NEW e, e = Head(wire[q]), ReceiveStarted(p, e)
    PROVE  LossInv'
<1> DEFINE a == Envelope("ack", ch[p].next, e.id, None)
           x == Ack(ch[p], e.id)
<1>1. /\ q # p /\ Other(q) = p /\ Peers = {p, q} /\ "client" \in Peers /\ "server" \in Peers
      /\ wire[q] # <<>> /\ wire'[q] = Tail(wire[q]) /\ wire'[p] = wire[p]
      /\ UNCHANGED <<flushId, link, budget, posted>>
    BY Reading DEF Peers
<1>2. /\ e.kind = "started" /\ ch' = [ch EXCEPT ![p] = x]
      /\ state' = IF p = "client" /\ state = "connecting" THEN "started" ELSE state
      /\ UNCHANGED <<waiting, received>>
    BY DEF ReceiveStarted
<1>3. p = "client" => state # "swapped"
    BY DEF Receive
<1>4. /\ wire[q] \in Seq(EnvelopeType) /\ ch[p].outgoing \in Seq(EnvelopeType)
      /\ ch[p].next \in Nat /\ ch[p] \in Channel(EnvelopeType)
      /\ Line(p) \in Seq(EnvelopeType) /\ Line(q) \in Seq(EnvelopeType)
    BY Lines
<1>5. e \in EnvelopeType /\ e.id \in Nat /\ e \notin Flushes /\ e \notin Reply
    <2>1. e \in EnvelopeType
        BY <1>1, <1>4, Taken
    <2> QED BY <1>2, <2>1 DEF EnvelopeType, Flushes, Reply
<1>6. /\ a \in EnvelopeType /\ a.kind = "ack" /\ a.ack = None /\ a.id = ch[p].next /\ a \notin Flushes
    <2>1. a \in EnvelopeType
        BY <1>4, <1>5, EnvelopeTyped
    <2> QED BY <2>1 DEF Envelope, Flushes
<1>7. /\ x.next = ch[p].next + 1 /\ x.buffer = ch[p].buffer /\ x.maxReceived = ch[p].maxReceived
      /\ x.outgoing = Append(ch[p].outgoing, a)
    BY <1>4 DEF Ack, Channel
<1> HIDE DEF x, a
<1> DEFINE s == <<a>>
<1>8. s \in Seq(EnvelopeType) /\ Items(s) = {a} /\ x.outgoing = ch[p].outgoing \o s
    BY <1>4, <1>6, <1>7, Single
<1> HIDE DEF s
<1>9. ch'[p] = x /\ ch'[q] = ch[q] /\ (\A r \in Peers : Got(r)' = Got(r))
    BY <1>1, <1>2 DEF Inv, Core, Got
<1>10. Growing
    <2>1. ASSUME NEW r \in Peers PROVE Got(r) \subseteq Got(r)' /\ ch[r].next <= ch'[r].next
        <3>1. ch[r].next \in Nat
            BY Lines
        <3>2. ch'[r].next = ch[r].next \/ ch'[r].next = ch[r].next + 1
            BY <1>1, <1>7, <1>9
        <3> QED BY <1>9, <3>1, <3>2
    <2> QED BY <1>1, <2>1, QuietGrows
<1>11. e.kind \notin Message /\ ch'[q].outgoing = ch[q].outgoing
    BY <1>2, <1>9 DEF Message
<1>12. /\ Line(q)' \in Seq(EnvelopeType)
       /\ Items(Line(q)') \subseteq Items(Line(q)) /\ Items(Line(q)) \subseteq {e} \cup Items(Line(q)')
       /\ \A marks : e \notin marks => Old(Line(q)', marks) \subseteq Old(Line(q), marks)
       /\ Once(Line(q)) => Once(Line(q)')
    BY <1>1, <1>10, <1>11, ReadKeeps
<1>13. (Complete(q) => Complete(q)') /\ (InStep(q) => InStep(q)')
    BY <1>1, <1>5, <1>10, <1>11, ReadKeeps
<1>14. /\ Line(p)' = Line(p) \o s
       /\ Kept(p)' = IF link = "down" THEN Kept(p) ELSE Kept(p) \o s
       /\ link # "down" => Kept(p) = Line(p)
    BY <1>1, <1>8, <1>9, Queued
<1>15. Line(p)' \in Seq(EnvelopeType) /\ Items(Line(p)') = Items(Line(p)) \cup {a}
    <2>1. Line(p) \o s \in Seq(EnvelopeType) /\ Items(Line(p) \o s) = Items(Line(p)) \cup Items(s)
        BY <1>4, <1>8, JoinedItems, ConcatProperties
    <2> QED BY <1>8, <1>14, <2>1
<1>16. Complete(p) => Complete(p)'
    BY <1>1, <1>8, <1>10, <1>14, Added
<1>17. ASSUME InStep(p), Items(Kept(p)) \cap Flushes = {} /\ link # "down" => Complete(p)
       PROVE  InStep(p)'
    <2>1. CASE link = "down"
        <3>1. Kept(p)' = Kept(p)
            BY <1>14, <2>1
        <3> QED BY <1>10, <1>17, <3>1, InStepKept
    <2>2. CASE link # "down"
        <3>1. a.id < ch'[p].next
            BY <1>4, <1>6, <1>7, <1>9
        <3>2. Line(p)' = Line(p) \o <<a>> /\ Kept(p) = Line(p) /\ Kept(p)' = Line(p)'
            BY <1>14, <2>2 DEF s
        <3> QED BY <1>6, <1>10, <1>16, <1>17, <2>2, <3>1, <3>2, AddedInStep
    <2> QED BY <2>1, <2>2
<1>18. Flushing' <=> Flushing
    <2>1. \A r \in Peers : Items(Line(r)') \cap Flushes = Items(Line(r)) \cap Flushes
        BY <1>1, <1>5, <1>6, <1>12, <1>15
    <2> QED BY <1>1, <2>1 DEF Flushing
<1>19. Reply' = Reply
    BY <1>1 DEF Reply
<1>20. \A r \in Peers : ch'[r].buffer = ch[r].buffer /\ ch'[r].maxReceived = ch[r].maxReceived
    BY <1>1, <1>7, <1>9
<1>21. \A r \in Peers : Secured(r) => Secured(r)'
    BY <1>1, <1>9, <1>20 DEF Secured
<1>22. /\ \A r \in Peers : \A i \in Nat : Knows(r, i) => Knows(r, i)'
       /\ \A r \in Peers : \A E \in SUBSET EnvelopeType : AllKnown(r, E) => AllKnown(r, E)'
    BY <1>10, AllKnownKept
<1>23. ASSUME NEW r \in Peers, NEW o \in Peers, NEW marks, e \notin marks,
              AllKnown(r, Old(Line(o), marks))
       PROVE  AllKnown(r, Old(Line(o)', marks)) /\ Old(Line(o)', marks) \in SUBSET EnvelopeType
    <2>1. Old(Line(o)', marks) \in SUBSET EnvelopeType
        BY <1>1, <1>12, <1>15, ItemsTyped
    <2>2. CASE o = q
        BY <1>12, <1>23, <2>1, <2>2 DEF AllKnown
    <2>3. CASE o = p
        <3>1. AllKnown(r, Items(s))
            BY <1>6, <1>8 DEF AllKnown
        <3> QED BY <1>8, <1>14, <1>23, <2>1, <2>3, <3>1, AddedKnown
    <2> QED BY <1>1, <2>2, <2>3
<1>24. PhaseInv'
    BY <1>1, <1>2 DEF LossInv, PhaseInv
<1>25. FlushInv'
    <2>1. Once(Line("client")')
        <3>1. Once(Line(p)) => Once(Line(p) \o s)
            BY <1>4, <1>6, <1>8, OnceJoined
        <3>2. \A r \in Peers : Once(Line(r)) => Once(Line(r)')
            BY <1>1, <1>12, <1>14, <3>1
        <3> QED BY <1>1, <3>2 DEF LossInv, FlushInv
    <2>2. \A i \in Items(Line("client")') : i \in Flushes => i.id = flushId
        <3>1. \A r \in Peers : \A i \in Items(Line(r)') : i \in Flushes => i \in Items(Line(r))
            BY <1>1, <1>6, <1>12, <1>15
        <3> QED BY <1>1, <3>1 DEF LossInv, FlushInv
    <2>3. \A r \in Peers : \A i \in Items(ch'[r].buffer) : i.kind \in Message
        BY <1>20 DEF LossInv, FlushInv
    <2> QED BY <1>1, <1>18, <2>1, <2>2, <2>3 DEF LossInv, FlushInv
<1>26. ZeroInv'
    <2>1. state' \notin {"connecting", "started"} => state \notin {"connecting", "started"}
        BY <1>2
    <2>2. ch["server"].next > 0 => ch'["server"].next > 0
        BY <1>1, <1>4, <1>7, <1>9
    <2> QED BY <1>1, <1>9, <2>1, <2>2 DEF LossInv, ZeroInv
<1>27. ServerInv'
    <2> SUFFICES ASSUME flushId = None \/ Flushing
                 PROVE  /\ Secured("server")'
                        /\ AllKnown("server", Old(Line("client"), Flushes))'
                        /\ Knows("client", ch["server"].maxReceived)'
                        /\ AllKnown("client", Items(ch["server"].buffer))'
                        /\ InStep("client")'
        BY <1>1, <1>18 DEF ServerInv
    <2>1. /\ Secured("server") /\ Knows("client", ch["server"].maxReceived)
          /\ AllKnown("server", Old(Line("client"), Flushes))
          /\ AllKnown("client", Items(ch["server"].buffer)) /\ InStep("client")
        BY DEF LossInv, ServerInv
    <2>2. AllKnown("server", Old(Line("client"), Flushes))'
        BY <1>1, <1>5, <1>22, <1>23, <2>1
    <2>3. Knows("client", ch["server"].maxReceived)' /\ AllKnown("client", Items(ch["server"].buffer))'
        <3>1. ch["server"].maxReceived \in Nat /\ Items(ch["server"].buffer) \in SUBSET EnvelopeType
            BY <1>1, Lines, ItemsTyped
        <3> QED BY <1>1, <1>20, <1>22, <2>1, <3>1
    <2>4. InStep("client")'
        <3>1. CASE p = "client"
            <4>1. ASSUME Items(Kept(p)) \cap Flushes = {}, link # "down" PROVE Complete(p)
                <5>1. flushId = None
                    BY <1>14, <3>1, <4>1 DEF Flushing
                <5> QED BY <1>3, <3>1, <4>1, <5>1 DEF LossInv, WholeInv, Inv, Core
            <4> QED BY <1>17, <2>1, <3>1, <4>1
        <3>2. CASE q = "client"
            BY <1>13, <2>1, <3>2
        <3> QED BY <1>1, <3>1, <3>2
    <2> QED BY <1>1, <1>21, <2>1, <2>2, <2>3, <2>4
<1>28. ClientInv'
    <2> SUFFICES ASSUME flushId = None \/ state = "resyncing"
                 PROVE  Secured("client")' /\ AllKnown("client", Old(Line("server"), Reply))'
        <3>1. state' = "resyncing" => state = "resyncing"
            BY <1>2
        <3> QED BY <1>1, <3>1 DEF ClientInv
    <2>1. Secured("client") /\ AllKnown("client", Old(Line("server"), Reply))
        BY DEF LossInv, ClientInv
    <2>2. AllKnown("client", Old(Line("server")', Reply)) /\ Old(Line("server")', Reply) \in SUBSET EnvelopeType
        BY <1>1, <1>5, <1>23, <2>1
    <2> QED BY <1>1, <1>19, <1>21, <1>22, <2>1, <2>2
<1>29. ReaderInv'
    <2> SUFFICES ASSUME flushId = None
                 PROVE  Knows("server", ch["client"].maxReceived)' /\ (state # "swapped" => InStep("server")')
        BY <1>1, <1>2 DEF ReaderInv
    <2>1. Knows("server", ch["client"].maxReceived) /\ (state # "swapped" => InStep("server"))
        BY DEF LossInv, ReaderInv
    <2>2. Knows("server", ch["client"].maxReceived)'
        <3>1. ch["client"].maxReceived \in Nat
            BY <1>1, Lines
        <3> QED BY <1>1, <1>20, <1>22, <2>1, <3>1
    <2>3. ASSUME state # "swapped" PROVE InStep("server")'
        <3>1. CASE p = "server"
            <4>1. link # "down" => Complete(p)
                BY <2>3, <3>1 DEF LossInv, WholeInv, Inv, Core
            <4> QED BY <1>17, <2>1, <2>3, <3>1, <4>1
        <3>2. CASE q = "server"
            BY <1>13, <2>1, <2>3, <3>2
        <3> QED BY <1>1, <3>1, <3>2
    <2> QED BY <2>2, <2>3
<1>30. WholeInv'
    <2>1. \A r \in Peers : Complete(r) => Complete(r)'
        BY <1>1, <1>13, <1>16
    <2>2. \A r \in Peers : Items(Line(r)) \cap Reply # {} => Items(Line(r)') \cap Reply # {}
        BY <1>1, <1>5, <1>12, <1>15
    <2>3. (state' = "swapped" <=> state = "swapped") /\ (state' = "resyncing" <=> state = "resyncing")
        BY <1>2
    <2> QED BY <1>1, <1>18, <1>19, <2>1, <2>2, <2>3 DEF LossInv, WholeInv
<1> QED BY <1>24, <1>25, <1>26, <1>27, <1>28, <1>29, <1>30 DEF LossInv

\* e answers the flush that the client waits for.
Answers(p, e) == p = "client" /\ state = "resyncing" /\ \E r \in waiting["client"] : e.re = r.id /\ r.id = flushId

LEMMA Remembered ==
    ASSUME NEW s \in Seq(Nat), NEW n \in Nat
    PROVE  ToSet(s) \cup {n} \subseteq ToSet(Append(s, n))
<1>1. /\ Len(s) \in Nat /\ DOMAIN s = 1 .. Len(s) /\ Append(s, n) \in Seq(Nat)
      /\ Len(Append(s, n)) = Len(s) + 1 /\ Append(s, n)[Len(s) + 1] = n
      /\ \A i \in 1 .. Len(s) : Append(s, n)[i] = s[i]
    BY AppendProperties, LenProperties
<1>2. DOMAIN Append(s, n) = 1 .. Len(s) + 1
    BY <1>1, LenProperties
<1>3. Len(s) + 1 \in 1 .. Len(s) + 1 /\ 1 .. Len(s) \subseteq 1 .. Len(s) + 1
    BY <1>1
<1> QED BY <1>1, <1>2, <1>3 DEF ToSet

\* What p does with a message or an acknowledgement that it reads.
LEMMA MessageRead ==
    ASSUME Inv, Inv', NEW p \in Peers, NEW q \in Peers, q = Other(p), Receive(p),
           NEW e, e = Head(wire[q]), ReceiveMessage(p, e)
    PROVE  /\ e \in EnvelopeType /\ e.id \in Nat /\ e.kind \in Counted /\ e \notin Flushes
           /\ Growing /\ ch'[q] = ch[q] /\ Got(p)' = Got(p)
           /\ e.kind \in Message => e.id \in Got(q)'
           /\ ch'[p].next = ch[p].next /\ ch'[p].maxReceived = e.id
           /\ ch'[p].buffer \in Seq(EnvelopeType) /\ Items(ch'[p].buffer) \subseteq Items(ch[p].buffer)
           /\ Secured(p) /\ (e.ack # None => Knows(p, e.ack)) =>
                 \A n \in posted[p] : n = 0 \/ n \in Got(p) \/ n \in IdsOf(ch'[p].buffer)
           /\ ch'[p].outgoing = IF Answers(p, e) THEN ch[p].outgoing \o ch'[p].buffer ELSE ch[p].outgoing
<1> DEFINE d == Acked(p, e)
           c == [d EXCEPT !.maxReceived = e.id]
           mine == {r \in waiting[p] : e.re = r.id}
           resynced == p = "client" /\ state = "resyncing" /\ \E r \in mine : r.id = flushId
<1>1. /\ q # p /\ Other(q) = p /\ Peers = {p, q}
      /\ wire[q] # <<>> /\ posted' = posted
    BY Reading
<1>2. /\ e.kind \in {"ack", "send", "request", "response"}
      /\ ch' = [ch EXCEPT ![p] = IF resynced THEN Resend(c) ELSE c]
      /\ received' = IF e.kind = "ack" THEN received ELSE [received EXCEPT ![p] = Append(@, e.id)]
    BY DEF ReceiveMessage
<1>3. resynced <=> Answers(p, e)
    BY DEF Answers
<1>4. wire[q] \in Seq(EnvelopeType) /\ received[p] \in Seq(Nat) /\ received \in [Peers -> Seq(Nat)]
    BY <1>1, Lines DEF Inv, Core
<1>5. e \in EnvelopeType /\ e.id \in Nat
    <2>1. e \in EnvelopeType
        BY <1>1, <1>4, Taken
    <2> QED BY <2>1 DEF EnvelopeType
<1>6. e.kind \in Counted /\ e \notin Flushes /\ (e.kind \in Message <=> e.kind # "ack")
    BY <1>2 DEF Counted, Message, Flushes
<1>7. /\ d \in Channel(EnvelopeType) /\ d.next = ch[p].next /\ d.outgoing = ch[p].outgoing
      /\ d.buffer \in Seq(EnvelopeType) /\ Items(d.buffer) \subseteq Items(ch[p].buffer)
    BY <1>5, Acknowledged
<1>8. Secured(p) /\ (e.ack # None => Knows(p, e.ack)) =>
          \A n \in posted[p] : n = 0 \/ n \in Got(p) \/ n \in IdsOf(d.buffer)
    BY <1>5, Acknowledged
<1> HIDE DEF d
<1>9. /\ c \in Channel(EnvelopeType) /\ c.next = ch[p].next /\ c.outgoing = ch[p].outgoing
      /\ c.buffer = d.buffer /\ c.maxReceived = e.id
    BY <1>5, <1>7 DEF Channel
<1>10. PICK x : x = IF Answers(p, e) THEN Resend(c) ELSE c
    OBVIOUS
<1>11. ch' = [ch EXCEPT ![p] = x]
    BY <1>2, <1>3, <1>10
<1> HIDE DEF c, resynced, mine
<1>12. /\ x.next = ch[p].next /\ x.buffer = d.buffer /\ x.maxReceived = e.id
       /\ x.outgoing = IF Answers(p, e) THEN ch[p].outgoing \o d.buffer ELSE ch[p].outgoing
    BY <1>9, <1>10 DEF Resend, Channel
<1>13. ch'[p] = x /\ ch'[q] = ch[q]
    BY <1>1, <1>11 DEF Inv, Core
<1>14. /\ Got(p)' = Got(p) /\ Got(q) \subseteq Got(q)'
       /\ e.kind \in Message => e.id \in Got(q)'
    <2>1. received'[q] = received[q] /\ received'[p] = IF e.kind = "ack" THEN received[p] ELSE Append(received[p], e.id)
        BY <1>1, <1>2, <1>4
    <2>2. ToSet(received[p]) \cup {e.id} \subseteq ToSet(Append(received[p], e.id))
        BY <1>4, <1>5, Remembered
    <2> QED BY <1>1, <1>6, <2>1, <2>2 DEF Got
<1>15. Growing
    <2>1. ASSUME NEW r \in Peers PROVE Got(r) \subseteq Got(r)' /\ ch[r].next <= ch'[r].next
        <3>1. ch[r].next \in Nat
            BY Lines
        <3>2. ch'[r].next = ch[r].next /\ Got(r) \subseteq Got(r)'
            BY <1>1, <1>12, <1>13, <1>14
        <3> QED BY <3>1, <3>2
    <2> QED BY <1>1, <2>1, QuietGrows
<1> QED BY <1>5, <1>6, <1>7, <1>8, <1>12, <1>13, <1>14, <1>15

LEMMA ServerLoss ==
    ASSUME Inv, Inv', LossInv, Receive("server"), NEW e, e = Head(wire["client"]), ReceiveMessage("server", e)
    PROVE  LossInv'
<1>1. /\ "server" \in Peers /\ "client" \in Peers /\ Peers = {"client", "server"}
      /\ Other("server") = "client" /\ Other("client") = "server"
    BY DEF Peers, Other
<1>2. /\ wire["client"] # <<>> /\ wire'["client"] = Tail(wire["client"]) /\ wire'["server"] = wire["server"]
      /\ UNCHANGED <<flushId, link, budget, posted>>
    BY <1>1, Reading
<1>3. /\ e \in EnvelopeType /\ e.id \in Nat /\ e.kind \in Counted /\ e \notin Flushes
      /\ Growing /\ ch'["client"] = ch["client"] /\ Got("server")' = Got("server")
      /\ e.kind \in Message => e.id \in Got("client")'
      /\ ch'["server"].next = ch["server"].next /\ ch'["server"].maxReceived = e.id
      /\ ch'["server"].buffer \in Seq(EnvelopeType)
      /\ Items(ch'["server"].buffer) \subseteq Items(ch["server"].buffer)
    BY <1>1, MessageRead
<1>4. Secured("server") /\ (e.ack # None => Knows("server", e.ack)) =>
          \A n \in posted["server"] : n = 0 \/ n \in Got("server") \/ n \in IdsOf(ch'["server"].buffer)
    BY <1>1, MessageRead
<1>5. ch'["server"].outgoing = ch["server"].outgoing
    BY <1>1, MessageRead DEF Answers
<1>6. waiting'["client"] = waiting["client"] /\ state' = state
    BY <1>1 DEF ReceiveMessage, Inv, Core
<1>7. /\ e \in Items(Line("client")) /\ e \in Old(Line("client"), Flushes)
      /\ Line("client")' \in Seq(EnvelopeType)
      /\ Items(Line("client")') \subseteq Items(Line("client"))
      /\ Items(Line("client")) \subseteq {e} \cup Items(Line("client")')
      /\ Old(Line("client")', Flushes) \subseteq Old(Line("client"), Flushes)
      /\ Once(Line("client")) => Once(Line("client")')
      /\ Complete("client") => Complete("client")'
      /\ InStep("client") => InStep("client")' /\ Knows("client", e.id)'
    BY <1>1, <1>2, <1>3, ReadKeeps
<1>8. /\ Line("server")' = Line("server") /\ Kept("server")' = Kept("server") /\ Reply' = Reply
      /\ (Flushing' <=> Flushing)
    <2>1. Line("server")' = Line("server")
        BY <1>2, <1>5 DEF Line
    <2>2. Kept("server")' = Kept("server")
        BY <1>2, <2>1 DEF Kept
    <2> QED BY <1>2, <1>3, <1>7, <2>1, <2>2 DEF Reply, Flushing
<1>9. /\ \A r \in Peers : \A i \in Nat : Knows(r, i) => Knows(r, i)'
      /\ \A r \in Peers : \A E \in SUBSET EnvelopeType : AllKnown(r, E) => AllKnown(r, E)'
    BY <1>3, AllKnownKept
<1>10. Got("client") \subseteq Got("client")'
    BY <1>1, <1>3 DEF Growing, Grows
<1>11. PhaseInv'
    BY <1>2, <1>6 DEF LossInv, PhaseInv
<1>12. FlushInv'
    <2>1. \A r \in Peers : \A i \in Items(ch'[r].buffer) : i.kind \in Message
        BY <1>1, <1>3 DEF LossInv, FlushInv
    <2> QED BY <1>2, <1>7, <1>8, <2>1 DEF LossInv, FlushInv
<1>13. ZeroInv'
    BY <1>2, <1>3, <1>6 DEF LossInv, ZeroInv
<1>14. ServerInv'
    <2> SUFFICES ASSUME flushId = None \/ Flushing
                 PROVE  /\ Secured("server")'
                        /\ AllKnown("server", Old(Line("client"), Flushes))'
                        /\ Knows("client", ch["server"].maxReceived)'
                        /\ AllKnown("client", Items(ch["server"].buffer))'
                        /\ InStep("client")'
        BY <1>2, <1>8 DEF ServerInv
    <2>1. /\ Secured("server") /\ AllKnown("server", Old(Line("client"), Flushes))
          /\ AllKnown("client", Items(ch["server"].buffer)) /\ InStep("client")
        BY DEF LossInv, ServerInv
    <2>2. Secured("server")'
        <3>1. e.ack # None => Knows("server", e.ack)
            BY <1>7, <2>1 DEF AllKnown
        <3> QED BY <1>2, <1>3, <1>4, <2>1, <3>1 DEF Secured
    <2>3. AllKnown("server", Old(Line("client"), Flushes))'
        <3>1. AllKnown("server", Old(Line("client")', Flushes))
            BY <1>7, <2>1 DEF AllKnown
        <3>2. Old(Line("client")', Flushes) \in SUBSET EnvelopeType
            BY <1>7, ItemsTyped
        <3> QED BY <1>1, <1>9, <3>1, <3>2
    <2>4. AllKnown("client", Items(ch["server"].buffer))'
        <3>1. AllKnown("client", Items(ch'["server"].buffer))
            BY <1>3, <2>1 DEF AllKnown
        <3>2. Items(ch'["server"].buffer) \in SUBSET EnvelopeType
            BY <1>3, ItemsTyped
        <3> QED BY <1>1, <1>9, <3>1, <3>2
    <2> QED BY <1>3, <1>7, <2>1, <2>2, <2>3, <2>4
<1>15. ClientInv'
    <2> SUFFICES ASSUME flushId = None \/ state = "resyncing"
                 PROVE  Secured("client")' /\ AllKnown("client", Old(Line("server"), Reply))'
        BY <1>2, <1>6 DEF ClientInv
    <2>1. Secured("client") /\ AllKnown("client", Old(Line("server"), Reply))
        BY DEF LossInv, ClientInv
    <2>2. Secured("client")'
        BY <1>2, <1>3, <1>10, <2>1 DEF Secured
    <2>3. Old(Line("server"), Reply) \in SUBSET EnvelopeType
        BY <1>1, Lines, ItemsTyped
    <2> QED BY <1>1, <1>8, <1>9, <2>1, <2>2, <2>3
<1>16. ReaderInv'
    <2> SUFFICES ASSUME flushId = None
                 PROVE  Knows("server", ch["client"].maxReceived)' /\ (state # "swapped" => InStep("server")')
        BY <1>2, <1>6 DEF ReaderInv
    <2>1. Knows("server", ch["client"].maxReceived) /\ (state # "swapped" => InStep("server"))
        BY DEF LossInv, ReaderInv
    <2>2. ch["client"].maxReceived \in Nat
        BY <1>1, Lines
    <2> QED BY <1>1, <1>3, <1>8, <1>9, <2>1, <2>2, InStepKept
<1>17. WholeInv'
    <2>1. Complete("server") => Complete("server")'
        BY <1>2, <1>3, <1>8 DEF Complete
    <2> QED BY <1>2, <1>6, <1>7, <1>8, <2>1 DEF LossInv, WholeInv
<1> QED BY <1>11, <1>12, <1>13, <1>14, <1>15, <1>16, <1>17 DEF LossInv

LEMMA ClientLoss ==
    ASSUME Inv, Inv', LossInv, Receive("client"), NEW e, e = Head(wire["server"]),
           ReceiveMessage("client", e), ~Answers("client", e)
    PROVE  LossInv'
<1>1. /\ "server" \in Peers /\ "client" \in Peers /\ Peers = {"client", "server"}
      /\ Other("server") = "client" /\ Other("client") = "server"
    BY DEF Peers, Other
<1>2. /\ wire["server"] # <<>> /\ wire'["server"] = Tail(wire["server"]) /\ wire'["client"] = wire["client"]
      /\ UNCHANGED <<flushId, link, budget, posted>>
    BY <1>1, Reading
<1>3. /\ e \in EnvelopeType /\ e.id \in Nat /\ e.kind \in Counted /\ e \notin Flushes
      /\ Growing /\ ch'["server"] = ch["server"] /\ Got("client")' = Got("client")
      /\ e.kind \in Message => e.id \in Got("server")'
      /\ ch'["client"].next = ch["client"].next /\ ch'["client"].maxReceived = e.id
      /\ ch'["client"].buffer \in Seq(EnvelopeType)
      /\ Items(ch'["client"].buffer) \subseteq Items(ch["client"].buffer)
    BY <1>1, MessageRead
<1>4. Secured("client") /\ (e.ack # None => Knows("client", e.ack)) =>
          \A n \in posted["client"] : n = 0 \/ n \in Got("client") \/ n \in IdsOf(ch'["client"].buffer)
    BY <1>1, MessageRead
<1>5. ch'["client"].outgoing = ch["client"].outgoing
    BY <1>1, MessageRead
<1>6. /\ state # "swapped" /\ state' \in {state, "connected"}
      /\ state' # state => state = "started"
      /\ state = "resyncing" => waiting'["client"] = {r \in waiting["client"] : e.re # r.id}
    <2> DEFINE mine == {r \in waiting["client"] : e.re = r.id}
    <2>1. state # "swapped"
        BY DEF Receive
    <2>2. waiting' = [waiting EXCEPT !["client"] = @ \ mine]
        BY DEF ReceiveMessage
    <2>3. waiting \in [Peers -> SUBSET [id : Nat, kind : {"request", "flush"}]]
        BY DEF Inv, Core
    <2>4. waiting'["client"] = waiting["client"] \ mine
        <3> HIDE DEF mine
        <3> QED BY <2>2, <2>3, PeersKnown
    <2>5. ~(state = "resyncing" /\ \E r \in mine : r.id = flushId)
        BY DEF Answers
    <2>6. state' \in {state, "connected"} /\ (state' # state => state = "started")
        BY <2>5 DEF ReceiveMessage
    <2> QED BY <2>1, <2>4, <2>6
<1>7. /\ e \in Items(Line("server")) /\ e \in Old(Line("server"), Reply)
      /\ Line("server")' \in Seq(EnvelopeType)
      /\ Items(Line("server")) \subseteq {e} \cup Items(Line("server")')
      /\ e \notin Reply => Old(Line("server")', Reply) \subseteq Old(Line("server"), Reply)
      /\ Complete("server") => Complete("server")'
      /\ InStep("server") => /\ InStep("server")' /\ Knows("server", e.id)'
                             /\ ch'["server"].next > 0 /\ (0 \in posted["server"] => 0 \in Got("server")')
    BY <1>1, <1>2, <1>3, ReadKeeps
<1>8. /\ Line("client")' = Line("client") /\ Kept("client")' = Kept("client") /\ Reply' = Reply
      /\ (Flushing' <=> Flushing)
    <2>1. Line("client")' = Line("client")
        BY <1>2, <1>5 DEF Line
    <2>2. Kept("client")' = Kept("client")
        BY <1>2, <2>1 DEF Kept
    <2> QED BY <1>2, <2>1, <2>2 DEF Reply, Flushing
<1>9. /\ \A r \in Peers : \A i \in Nat : Knows(r, i) => Knows(r, i)'
      /\ \A r \in Peers : \A E \in SUBSET EnvelopeType : AllKnown(r, E) => AllKnown(r, E)'
    BY <1>3, AllKnownKept
<1>10. Got("server") \subseteq Got("server")'
    BY <1>1, <1>3 DEF Growing, Grows
<1>11. ASSUME flushId = None \/ state = "resyncing" PROVE e \notin Reply
    <2>1. CASE flushId = None
        BY <2>1 DEF Reply
    <2>2. CASE state = "resyncing"
        <3>1. [id |-> flushId, kind |-> "flush"] \in waiting["client"]
            BY <2>2 DEF LossInv, PhaseInv
        <3>2. e.re # flushId
            BY <2>2, <3>1 DEF Answers
        <3> QED BY <3>2 DEF Reply
    <2> QED BY <1>11, <2>1, <2>2
<1>12. PhaseInv'
    <2>1. state = "resyncing" => flushId # None /\ [id |-> flushId, kind |-> "flush"] \in waiting'["client"]
        <3> SUFFICES ASSUME state = "resyncing"
                     PROVE  flushId # None /\ [id |-> flushId, kind |-> "flush"] \in waiting'["client"]
            OBVIOUS
        <3>1. flushId # None /\ [id |-> flushId, kind |-> "flush"] \in waiting["client"]
            BY DEF LossInv, PhaseInv
        <3>2. e.re # flushId
            BY <3>1 DEF Answers
        <3> QED BY <1>6, <3>1, <3>2
    <2>2. flushId # None \/ link = "down" => state' = state
        BY <1>6 DEF LossInv, PhaseInv
    <2>3. /\ budget.drops <= 1
          /\ link = "down" \/ state = "swapped" \/ flushId # None => budget.drops = 0
          /\ link = "down" => flushId = None /\ state = "connected"
          /\ flushId # None => state \in {"resyncing", "connected"}
        BY DEF LossInv, PhaseInv
    <2> QED BY <1>2, <1>6, <2>1, <2>2, <2>3 DEF PhaseInv
<1>13. FlushInv'
    <2>1. \A r \in Peers : \A i \in Items(ch'[r].buffer) : i.kind \in Message
        BY <1>1, <1>3 DEF LossInv, FlushInv
    <2> QED BY <1>2, <1>8, <2>1 DEF LossInv, FlushInv
<1>14. ZeroInv'
    <2>1. CASE state' # state
        <3>1. flushId = None
            BY <1>6, <2>1 DEF LossInv, PhaseInv
        <3>2. InStep("server")
            BY <1>6, <3>1 DEF LossInv, ReaderInv
        <3> QED BY <1>2, <1>7, <3>2 DEF LossInv, ZeroInv
    <2>2. CASE state' = state
        BY <1>2, <1>3, <1>10, <2>2 DEF LossInv, ZeroInv
    <2> QED BY <2>1, <2>2
<1>15. ServerInv'
    <2> SUFFICES ASSUME flushId = None \/ Flushing
                 PROVE  /\ Secured("server")'
                        /\ AllKnown("server", Old(Line("client"), Flushes))'
                        /\ Knows("client", ch["server"].maxReceived)'
                        /\ AllKnown("client", Items(ch["server"].buffer))'
                        /\ InStep("client")'
        BY <1>2, <1>8 DEF ServerInv
    <2>1. /\ Secured("server") /\ Knows("client", ch["server"].maxReceived)
          /\ AllKnown("server", Old(Line("client"), Flushes))
          /\ AllKnown("client", Items(ch["server"].buffer)) /\ InStep("client")
        BY DEF LossInv, ServerInv
    <2>2. Secured("server")'
        BY <1>2, <1>3, <1>10, <2>1 DEF Secured
    <2>3. /\ Old(Line("client"), Flushes) \in SUBSET EnvelopeType
          /\ Items(ch["server"].buffer) \in SUBSET EnvelopeType /\ ch["server"].maxReceived \in Nat
        BY <1>1, Lines, ItemsTyped
    <2>4. InStep("client")'
        BY <1>1, <1>3, <1>8, <2>1, InStepKept
    <2> QED BY <1>1, <1>3, <1>8, <1>9, <2>1, <2>2, <2>3, <2>4
<1>16. ClientInv'
    <2> SUFFICES ASSUME flushId = None \/ state = "resyncing"
                 PROVE  Secured("client")' /\ AllKnown("client", Old(Line("server"), Reply))'
        <3>1. state' = "resyncing" => state = "resyncing"
            BY <1>6
        <3> QED BY <1>2, <3>1 DEF ClientInv
    <2>1. Secured("client") /\ AllKnown("client", Old(Line("server"), Reply))
        BY DEF LossInv, ClientInv
    <2>2. Secured("client")'
        <3>1. e.ack # None => Knows("client", e.ack)
            BY <1>7, <2>1 DEF AllKnown
        <3> QED BY <1>2, <1>3, <1>4, <2>1, <3>1 DEF Secured
    <2>3. AllKnown("client", Old(Line("server")', Reply)) /\ Old(Line("server")', Reply) \in SUBSET EnvelopeType
        <3>1. AllKnown("client", Old(Line("server")', Reply))
            BY <1>7, <1>11, <2>1 DEF AllKnown
        <3> QED BY <1>7, <3>1, ItemsTyped
    <2> QED BY <1>1, <1>8, <1>9, <2>2, <2>3
<1>17. ReaderInv'
    <2> SUFFICES ASSUME flushId = None
                 PROVE  Knows("server", ch["client"].maxReceived)' /\ InStep("server")'
        BY <1>2 DEF ReaderInv
    <2>1. InStep("server")
        BY <1>6 DEF LossInv, ReaderInv
    <2> QED BY <1>3, <1>7, <2>1
<1>18. WholeInv'
    <2>1. Complete("client") => Complete("client")'
        BY <1>2, <1>3, <1>8 DEF Complete
    <2>2. state' # "swapped" /\ (flushId # None => state' = state)
          /\ (state' = "resyncing" => state = "resyncing")
        BY <1>6 DEF LossInv, PhaseInv
    <2>3. state' = "resyncing" /\ ~Flushing => Items(Line("server")') \cap Reply # {}
        BY <1>7, <1>11, <2>2 DEF LossInv, WholeInv
    <2> QED BY <1>2, <1>6, <1>7, <1>8, <2>1, <2>2, <2>3 DEF LossInv, WholeInv
<1> QED BY <1>12, <1>13, <1>14, <1>15, <1>16, <1>17, <1>18 DEF LossInv

\* The client reads the answer to its flush: what the server lacks is on its line again.
LEMMA AnswerLoss ==
    ASSUME Inv, Inv', LossInv, Receive("client"), NEW e, e = Head(wire["server"]),
           ReceiveMessage("client", e), Answers("client", e)
    PROVE  LossInv'
<1> DEFINE b == ch'["client"].buffer
<1>1. /\ "server" \in Peers /\ "client" \in Peers /\ Peers = {"client", "server"}
      /\ Other("server") = "client" /\ Other("client") = "server"
    BY DEF Peers, Other
<1>2. /\ wire["server"] # <<>> /\ wire'["server"] = Tail(wire["server"]) /\ wire'["client"] = wire["client"]
      /\ UNCHANGED <<flushId, link, budget, posted>>
    BY <1>1, Reading
<1>3. /\ e \in EnvelopeType /\ e.id \in Nat /\ e.kind \in Counted /\ e \notin Flushes
      /\ Growing /\ ch'["server"] = ch["server"] /\ Got("client")' = Got("client")
      /\ e.kind \in Message => e.id \in Got("server")'
      /\ ch'["client"].next = ch["client"].next
      /\ b \in Seq(EnvelopeType) /\ Items(b) \subseteq Items(ch["client"].buffer)
    BY <1>1, MessageRead
<1>4. Secured("client") /\ (e.ack # None => Knows("client", e.ack)) =>
          \A n \in posted["client"] : n = 0 \/ n \in Got("client") \/ n \in IdsOf(b)
    BY <1>1, MessageRead
<1>5. ch'["client"].outgoing = ch["client"].outgoing \o b
    BY <1>1, MessageRead
<1> HIDE DEF b
<1>6. state = "resyncing" /\ state' = "connected"
    BY DEF ReceiveMessage, Answers
<1>7. flushId # None /\ link # "down" /\ budget.drops = 0
    BY <1>6 DEF LossInv, PhaseInv
<1>8. /\ e \in Old(Line("server"), Reply)
      /\ Complete("server") => Complete("server")'
    BY <1>1, <1>2, <1>3, ReadKeeps
<1>9. Line("client") \in Seq(EnvelopeType) /\ \A i \in Items(b) : i.kind \in Message /\ i \notin Flushes
    BY <1>1, <1>3, Lines DEF LossInv, FlushInv, Flushes, Message
<1>10. Line("client")' = Line("client") \o b /\ Kept("client")' = Kept("client") \o b /\ Kept("client") = Line("client")
    BY <1>1, <1>2, <1>3, <1>5, <1>7, Queued
<1>11. Items(Line("client")') = Items(Line("client")) \cup Items(b) /\ Line("client")' \in Seq(EnvelopeType)
    <2>1. Line("client") \o b \in Seq(EnvelopeType)
        BY <1>3, <1>9, ConcatProperties
    <2>2. Items(Line("client") \o b) = Items(Line("client")) \cup Items(b)
        BY <1>3, <1>9, JoinedItems
    <2> QED BY <1>10, <2>1, <2>2
<1>12. Reply' = Reply /\ (Flushing' <=> Flushing)
    BY <1>2, <1>9, <1>11 DEF Reply, Flushing
<1>13. /\ \A r \in Peers : \A i \in Nat : Knows(r, i) => Knows(r, i)'
       /\ \A r \in Peers : \A E \in SUBSET EnvelopeType : AllKnown(r, E) => AllKnown(r, E)'
    BY <1>3, AllKnownKept
<1>14. Got("server") \subseteq Got("server")'
    BY <1>1, <1>3 DEF Growing, Grows
<1>15. PhaseInv'
    BY <1>2, <1>6, <1>7 DEF PhaseInv
<1>16. FlushInv'
    <2>1. Once(Line("client")')
        <3>1. Once(Line("client")) /\ Items(b) \cap Flushes = {}
            BY <1>9 DEF LossInv, FlushInv
        <3>2. Once(Line("client") \o b)
            BY <1>3, <1>9, <3>1, OnceJoined
        <3> QED BY <1>10, <3>2
    <2>2. \A i \in Items(Line("client")') : i \in Flushes => i.id = flushId
        BY <1>9, <1>11 DEF LossInv, FlushInv
    <2>3. \A r \in Peers : \A i \in Items(ch'[r].buffer) : i.kind \in Message
        BY <1>1, <1>3, <1>9 DEF LossInv, FlushInv, b
    <2> QED BY <1>2, <1>7, <2>1, <2>2, <2>3 DEF FlushInv
<1>17. ZeroInv'
    BY <1>2, <1>3, <1>6, <1>14 DEF LossInv, ZeroInv
<1>18. ServerInv'
    <2> SUFFICES ASSUME Flushing
                 PROVE  /\ Secured("server")'
                        /\ AllKnown("server", Old(Line("client"), Flushes))'
                        /\ Knows("client", ch["server"].maxReceived)'
                        /\ AllKnown("client", Items(ch["server"].buffer))'
                        /\ InStep("client")'
        BY <1>2, <1>7, <1>12 DEF ServerInv
    <2>1. /\ Secured("server") /\ Knows("client", ch["server"].maxReceived)
          /\ AllKnown("server", Old(Line("client"), Flushes))
          /\ AllKnown("client", Items(ch["server"].buffer)) /\ InStep("client")
        BY DEF LossInv, ServerInv
    <2>2. Secured("server")'
        BY <1>2, <1>3, <1>14, <2>1 DEF Secured
    <2>3. AllKnown("server", Old(Line("client"), Flushes))'
        <3>1. AllKnown("server", Old(Line("client")', Flushes))
            BY <1>1, <1>3, <1>10, <2>1, AddedKnown DEF Flushing
        <3>2. Old(Line("client")', Flushes) \in SUBSET EnvelopeType
            BY <1>11, ItemsTyped
        <3> QED BY <1>1, <1>13, <3>1, <3>2
    <2>4. Knows("client", ch["server"].maxReceived)' /\ AllKnown("client", Items(ch["server"].buffer))'
        <3>1. Items(ch["server"].buffer) \in SUBSET EnvelopeType /\ ch["server"].maxReceived \in Nat
            BY <1>1, Lines, ItemsTyped
        <3> QED BY <1>1, <1>3, <1>13, <2>1, <3>1
    <2>5. InStep("client")'
        <3>1. Gapless(Line("client"), posted["client"], Got("client"), ch["client"].next)
            BY <1>10, <2>1 DEF InStep
        <3>2. Gapless(Line("client") \o b, posted["client"], Got("client"), ch["client"].next)
            BY <1>3, <1>9, <3>1, GaplessFlushed DEF Flushing
        <3> QED BY <1>2, <1>3, <1>10, <3>2 DEF InStep
    <2> QED BY <2>2, <2>3, <2>4, <2>5
<1>19. ClientInv' /\ ReaderInv'
    BY <1>2, <1>6, <1>7 DEF ClientInv, ReaderInv
<1>20. Complete("client")'
    <2>1. Secured("client") /\ AllKnown("client", Old(Line("server"), Reply))
        BY <1>6 DEF LossInv, ClientInv
    <2>2. e.ack # None => Knows("client", e.ack)
        BY <1>8, <2>1 DEF AllKnown
    <2>3. \A n \in posted["client"] : n \in Got("client") \/ n \in IdsOf(b)
        BY <1>4, <2>1, <2>2 DEF LossInv, ZeroInv
    <2>4. \A n \in posted["client"] : n \in Got("client") \/ Carries(b, Len(b), n)
        BY <1>3, <1>9, <2>3, Carried
    <2>5. Whole(Line("client"), {}, Got("client"))
        BY DEF Whole
    <2>6. Whole(Line("client") \o b, posted["client"], Got("client"))
        BY <1>3, <1>9, <2>4, <2>5, WholeJoined
    <2> QED BY <1>2, <1>3, <1>10, <2>6 DEF Complete
<1>21. WholeInv'
    BY <1>2, <1>6, <1>7, <1>8, <1>12, <1>20 DEF LossInv, WholeInv
<1> QED BY <1>15, <1>16, <1>17, <1>18, <1>19, <1>21 DEF LossInv

-----------------------------------------------------------------------------
(* Together.                                                                *)

LEMMA ReceiveLoss == ASSUME Inv, Inv', LossInv, NEW p \in Peers, Receive(p) PROVE LossInv'
<1>1. PICK q \in Peers : q = Other(p)
    BY DEF Other, Peers
<1>2. PICK e : e = Head(wire[q])
    OBVIOUS
<1>3. wire[q] # <<>> /\ (ReceiveFlush(p, e) \/ ReceiveStarted(p, e) \/ ReceiveMessage(p, e))
    BY <1>1, <1>2, Reading
<1>4. CASE ReceiveStarted(p, e)
    BY <1>1, <1>2, <1>4, StartedLoss
<1>5. CASE p = "server"
    <2>1. q = "client"
        BY <1>1, <1>5 DEF Other
    <2> QED BY <1>2, <1>3, <1>4, <1>5, <2>1, FlushLoss, ServerLoss
<1>6. CASE p = "client"
    <2>1. q = "server"
        BY <1>1, <1>6 DEF Other
    <2>2. ~ReceiveFlush(p, e)
        <3>1. Line(q) \in Seq(EnvelopeType) /\ wire[q] \in Seq(EnvelopeType) /\ ch[q].outgoing \in Seq(EnvelopeType)
            BY Lines
        <3>2. wire[q] \o ch[q].outgoing # <<>> /\ Head(wire[q] \o ch[q].outgoing) = e
            BY <1>2, <1>3, <3>1, ReadFirst
        <3>3. Line(q) # <<>> /\ Head(Line(q)) = e
            BY <3>2 DEF Line
        <3>4. e \in Items(Line(q)) /\ e \in EnvelopeType
            BY <3>1, <3>3, FirstOld, ItemsTyped
        <3>5. e \notin Flushes
            BY <2>1, <3>4, ServerFlushes
        <3> QED BY <3>4, <3>5 DEF ReceiveFlush, Flushes
    <2> QED BY <1>2, <1>3, <1>4, <1>6, <2>1, <2>2, ClientLoss, AnswerLoss
<1> QED BY <1>5, <1>6 DEF Peers

LEMMA InitLoss == ASSUME MaxDrops <= 1, Init PROVE LossInv
<1>1. /\ state = "connecting" /\ flushId = None /\ link = "up" /\ budget.drops <= 1
      /\ posted = [p \in Peers |-> {}]
    BY DEF Init
<1>2. Started \in EnvelopeType /\ Started \notin Flushes /\ Started.kind = "started" /\ Started.ack = None
    BY DEF Started, Envelope, EnvelopeType, Flushes, None
<1> DEFINE s == <<Started>>
<1>3. /\ s \in Seq(EnvelopeType) /\ Items(s) = {Started}
    BY <1>2, Single
<1>4. \A p \in Peers : ch[p].buffer = <<>> /\ ch[p].maxReceived = 0 /\ ch[p].next = 0
                           /\ ch[p].outgoing = s /\ wire[p] = <<>>
    BY DEF Init
<1> HIDE DEF s
<1>5. ASSUME NEW p \in Peers PROVE Line(p) = s /\ Kept(p) = s /\ posted[p] = {} /\ Items(ch[p].buffer) = {}
    <2>1. <<>> \o s = s
        BY <1>3, ConcatEmptySeq
    <2>2. Items(<<>>) = {}
        BY DEF Items
    <2> QED BY <1>1, <1>4, <2>1, <2>2 DEF Line, Kept
<1>6. ASSUME NEW p \in Peers
      PROVE  /\ Secured(p) /\ Complete(p) /\ InStep(p) /\ Knows(p, 0)
             /\ \A marks : AllKnown(p, Old(s, marks))
    <2>1. Secured(p) /\ Complete(p) /\ Knows(p, 0)
        BY <1>5 DEF Secured, Complete, Whole, Knows, Told
    <2>2. \A i \in UpTo(s, Flushes) : s[i] \in Items(s)
        BY DEF UpTo, Items
    <2>3. \A i \in UpTo(s, Flushes) : s[i].kind \notin Counted
        BY <1>2, <1>3, <2>2 DEF Counted, Message
    <2>4. InStep(p)
        BY <1>5, <2>3 DEF InStep, Gapless
    <2>5. \A marks : Old(s, marks) \subseteq {Started}
        BY <1>3, OldItems
    <2> QED BY <1>2, <2>1, <2>4, <2>5 DEF AllKnown
<1>7. "client" \in Peers /\ "server" \in Peers
    BY DEF Peers
<1>8. ~Flushing
    BY <1>2, <1>3, <1>5, <1>7 DEF Flushing
<1>9. PhaseInv
    BY <1>1 DEF PhaseInv
<1>10. FlushInv
    <2>1. Items(Line("client")) \cap Flushes = {}
        BY <1>8 DEF Flushing
    <2>2. Once(Line("client"))
        BY <2>1, NoFlush
    <2> QED BY <1>5, <1>8, <2>1, <2>2 DEF FlushInv
<1>11. ZeroInv
    BY <1>1, <1>5, <1>7 DEF ZeroInv
<1>12. ServerInv
    <2>1. AllKnown("client", Items(ch["server"].buffer))
        BY <1>5, <1>7 DEF AllKnown
    <2>2. Knows("client", ch["server"].maxReceived)
        BY <1>4, <1>6, <1>7
    <2>3. AllKnown("server", Old(Line("client"), Flushes))
        BY <1>5, <1>6, <1>7
    <2> QED BY <1>6, <1>7, <2>1, <2>2, <2>3 DEF ServerInv
<1>13. ClientInv
    <2>1. AllKnown("client", Old(Line("server"), Reply))
        BY <1>5, <1>6, <1>7
    <2> QED BY <1>6, <1>7, <2>1 DEF ClientInv
<1>14. ReaderInv
    BY <1>4, <1>6, <1>7 DEF ReaderInv
<1>15. WholeInv
    BY <1>1, <1>6, <1>7 DEF WholeInv
<1> QED BY <1>9, <1>10, <1>11, <1>12, <1>13, <1>14, <1>15 DEF LossInv

LEMMA NextLoss == ASSUME Threads = {}, Inv, Inv', LossInv, [Next]_vars PROVE LossInv'
<1>1. ASSUME NEW p \in Peers, NEW kind \in {"send", "request"}, SendForeground(p, kind) PROVE LossInv'
    BY <1>1, ForegroundLoss
<1>2. ASSUME NEW p \in Peers, Receive(p) \/ Transmit(p) PROVE LossInv'
    BY <1>2, ReceiveLoss, TransmitLoss
<1>3. ASSUME NEW p \in Peers, Respond(p) PROVE LossInv'
    BY <1>3, RespondLoss
<1>4. CASE Disconnect \/ LoseWrite
    BY <1>4, DisconnectLoss, LoseWriteLoss
<1>5. CASE Reconnect \/ Resync
    BY <1>5, ReconnectLoss, ResyncLoss
<1>6. CASE UNCHANGED vars
    <2>1. UNCHANGED <<ch, wire, waiting, state, flushId, link, budget, posted, received>>
        BY <1>6 DEF vars
    <2>2. \A r \in Peers : Line(r)' = Line(r) /\ Kept(r)' = Kept(r)
        BY <2>1 DEF Line, Kept
    <2> QED BY <2>1, <2>2, SameLoss
<1> QED BY <1>1, <1>2, <1>3, <1>4, <1>5, <1>6 DEF Next

LEMMA CarriedSomewhere ==
    ASSUME Inv, NEW p \in Peers, NEW n, Carries(Line(p), Len(Line(p)), n)
    PROVE  n \in IdsOf(ch[p].outgoing) \cup IdsOf(wire[p])
<1>1. wire[p] \in Seq(EnvelopeType) /\ ch[p].outgoing \in Seq(EnvelopeType)
    BY Lines
<1>2. PICK i \in 1 .. Len(Line(p)) : Line(p)[i].id = n
    BY DEF Carries
<1>3. Line(p)[i] \in Items(Line(p))
    BY DEF Items
<1>4. Items(Line(p)) = Items(wire[p]) \cup Items(ch[p].outgoing)
    BY <1>1, JoinedItems DEF Line
<1>5. /\ IdsOf(wire[p]) = {e.id : e \in Items(wire[p])}
      /\ IdsOf(ch[p].outgoing) = {e.id : e \in Items(ch[p].outgoing)}
    BY <1>1, IdsItems
<1> QED BY <1>2, <1>3, <1>4, <1>5

LEMMA LossNothing == ASSUME Inv, LossInv PROVE NothingLost
<1> SUFFICES ASSUME NEW p \in Peers, NEW n \in posted[p]
             PROVE  n \in Got(p) \cup IdsOf(ch[p].buffer) \cup IdsOf(ch[p].outgoing) \cup IdsOf(wire[p])
    BY DEF NothingLost, Got
<1>1. CASE Complete(p)
    <2>1. n \in Got(p) \/ Carries(Line(p), Len(Line(p)), n)
        BY <1>1 DEF Complete, Whole
    <2> QED BY <2>1, CarriedSomewhere
<1>2. CASE Secured(p) /\ (n = 0 => n \in Got(p))
    BY <1>2 DEF Secured
<1>3. CASE p = "client"
    <2>1. n # 0
        BY <1>3 DEF LossInv, ZeroInv
    <2>2. flushId = None \/ state = "resyncing" => Secured(p)
        BY <1>3 DEF LossInv, ClientInv
    <2>3. flushId # None /\ state # "resyncing" => Complete(p)
        BY <1>3 DEF LossInv, WholeInv
    <2> QED BY <1>1, <1>2, <2>1, <2>2, <2>3
<1>4. CASE p = "server"
    <2>1. flushId = None \/ Flushing => Secured(p)
        BY <1>4 DEF LossInv, ServerInv
    <2>2. flushId # None /\ ~Flushing => Complete(p)
        BY <1>4 DEF LossInv, WholeInv
    <2>3. n = 0 /\ state \notin {"connecting", "started"} => n \in Got(p)
        BY <1>4 DEF LossInv, ZeroInv
    <2>4. state \in {"connecting", "started"} => Complete(p)
        <3>1. state \in {"connecting", "started"} => flushId = None /\ link = "up" /\ state # "swapped"
            BY DEF LossInv, PhaseInv, Inv, Core
        <3> QED BY <1>4, <3>1 DEF LossInv, WholeInv
    <2> QED BY <1>1, <1>2, <2>1, <2>2, <2>3, <2>4
<1> QED BY <1>3, <1>4 DEF Peers

\* When everything is sent from the foreground thread and the connection drops at most
\* once, the buffers of ChannelClient and one FlushBufferedMessages save everything:
\* what was sent is still buffered, on its way, or was handled.
THEOREM NoMessageLost == ASSUME Threads = {}, MaxDrops <= 1 PROVE Spec => []NothingLost
<1>1. Init => LossInv
    BY InitLoss
<1>2. Inv /\ Inv' /\ LossInv /\ [Next]_vars => LossInv'
    BY NextLoss
<1>3. Inv /\ LossInv => NothingLost
    BY LossNothing
<1> QED BY <1>1, <1>2, <1>3, ChannelInvariant, PTL DEF Spec
=============================================================================
