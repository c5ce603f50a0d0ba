---------------------------- MODULE RemoteChannel ----------------------------
(***************************************************************************)
(* The message channel between the editor and the headless server on a     *)
(* remote host: two ChannelClients (crates/remote/src/remote_client.rs)    *)
(* over a connection that may drop.  The client makes a new connection and *)
(* resyncs; the server keeps its ChannelClient, its queue of outgoing      *)
(* envelopes and its unread input across connections                       *)
(* (crates/remote_server/src/server.rs, start_server).                     *)
(*                                                                         *)
(* A ChannelClient numbers its envelopes, keeps the ones it may have to    *)
(* resend in `buffer`, and tells its peer in ack_id the id it received     *)
(* last.  An acknowledged envelope is forgotten, with all before it.       *)
(*                                                                         *)
(* Envelopes are numbered, buffered and queued in three steps, so senders  *)
(* on background threads interleave with each other and with the receive   *)
(* loop.  Senders on the foreground thread, where the receive loop and     *)
(* reconnect run too, do not.                                              *)
(***************************************************************************)
EXTENDS Integers, Sequences, FiniteSets, SequencesExt

CONSTANTS
    ClientSends,   \* bound on the messages the client's application sends
    ServerSends,   \* bound on those the server's sends; responses are not counted
    Threads,       \* the background threads that send, on either side
    MaxDrops       \* bound on the number of times the connection drops

ASSUME SendsAssumption == ClientSends \in Nat /\ ServerSends \in Nat /\ MaxDrops \in Nat

VARIABLES
    ch,         \* both ChannelClients
    wire,       \* wire[p]: what p wrote and its peer's receive loop has not read
    work,       \* work[p][t]: the envelope that background thread t is sending
    waiting,    \* waiting[p]: response_channels of p
    todo,       \* todo[p]: requests that the handlers of p have not answered yet
    state,      \* where RemoteClient::new or ::reconnect of the client is
    flushId,    \* the request that the resync under way waits for
    link,       \* "up" or "down"
    budget,     \* the sends and drops that are left
    posted,     \* history: posted[p], the ids p has put into its buffer
    received,   \* history: received[p], the ids p has handled, in order
    answers     \* history: which kind of envelope answered which kind of request

vars == <<ch, wire, work, waiting, todo, state, flushId, link, budget, posted, received, answers>>

Peers == {"client", "server"}

Other(p) == IF p = "client" THEN "server" ELSE "client"

None == -1

Envelope(kind, id, re, ack) == [kind |-> kind, id |-> id, re |-> re, ack |-> ack]

Started == Envelope("started", 0, None, None)

\* Mutants: an acknowledgement gets no number of its own; it gives one back; or the
\* buffer is resent for a RemoteStarted as it is for a FlushBufferedMessages.
AckUnnumbered(c, id) ==
    [c EXCEPT !.outgoing = Append(@, Envelope("ack", c.next, id, None))]
AckBackwards(c, id) ==
    [c EXCEPT !.next = @ - 1, !.outgoing = Append(@, Envelope("ack", c.next, id, None))]
AckResending(c, id) ==
    [c EXCEPT !.next = @ + 1,
              !.outgoing = @ \o Append(c.buffer, Envelope("ack", c.next, id, None))]

\* The Ack of a RemoteStarted or a FlushBufferedMessages; it acknowledges nothing else.
Ack(c, id) ==
    [c EXCEPT !.next = @ + 1, !.outgoing = Append(@, Envelope("ack", c.next, id, None))]

\* Mutant: the envelope after the acknowledged one goes too.
TrimBeyond(q, id) == SelectSeq(q, LAMBDA e : e.id > id + 1)

\* pop_front while the front has an id up to the acknowledged one.
Trim(q, id) ==
    LET popped == {i \in DOMAIN q : \A j \in 1 .. i : q[j].id <= id}
    IN  SubSeq(q, Cardinality(popped) + 1, Len(q))

\* Mutant: nothing is resent.
ResendNothing(c) == c

Resend(c) == [c EXCEPT !.outgoing = @ \o c.buffer]

\* send_buffered, for an envelope that has its id.
Buffered(c, e) == [c EXCEPT !.buffer = Append(@, [e EXCEPT !.ack = c.maxReceived])]

\* send_dynamic or request_dynamic as one step of the foreground thread.
Post(c, kind, re) ==
    LET e == Envelope(kind, c.next, re, c.maxReceived)
    IN  [c EXCEPT !.next = @ + 1, !.buffer = Append(@, e), !.outgoing = Append(@, e)]

-----------------------------------------------------------------------------
Init ==
    /\ ch = [p \in Peers |-> [next |-> 0, buffer |-> <<>>, maxReceived |-> 0,
                              outgoing |-> <<Started>>]]
    /\ wire = [p \in Peers |-> <<>>]
    /\ work = [p \in Peers |-> [t \in Threads |-> <<>>]]
    /\ waiting = [p \in Peers |-> {}]
    /\ todo = [p \in Peers |-> <<>>]
    /\ state = "connecting"
    /\ flushId = None
    /\ link = "up"
    /\ budget = [client |-> ClientSends, server |-> ServerSends, drops |-> MaxDrops]
    /\ posted = [p \in Peers |-> {}]
    /\ received = [p \in Peers |-> <<>>]
    /\ answers = {}

-----------------------------------------------------------------------------
(* The applications.  The client's sends nothing before the server is known *)
(* to have started, and its first message is the ping of RemoteClient::new. *)
(* The server's notifies at any time (HideToast, before it has heard from   *)
(* the client), but what it asks about, a buffer, a language server or a    *)
(* search, exists only once it has handled a message of the client.         *)

MaySend(p, kind) ==
    /\ budget[p] > 0
    /\ p = "client" =>
         CASE state = "connecting" -> FALSE
           [] state = "started"    -> kind = "request" /\ waiting[p] = {}
           [] OTHER                -> TRUE
    /\ p = "server" /\ kind = "request" => ch[p].maxReceived > 0

SendForeground(p, kind) ==
    /\ MaySend(p, kind) /\ (p = "client" => state # "swapped")
    /\ ch' = [ch EXCEPT ![p] = Post(@, kind, None)]
    /\ posted' = [posted EXCEPT ![p] = @ \cup {ch[p].next}]
    /\ waiting' = [waiting EXCEPT ![p] =
                      @ \cup {r \in {[id |-> ch[p].next, kind |-> kind]} : kind = "request"}]
    /\ budget' = [budget EXCEPT ![p] = @ - 1]
    /\ UNCHANGED <<wire, work, todo, state, flushId, link, received, answers>>

\* A handler is done: send_response.
Respond(p) ==
    /\ todo[p] # <<>> /\ (p = "client" => state # "swapped")
    /\ ch' = [ch EXCEPT ![p] = Post(@, "response", Head(todo[p]))]
    /\ posted' = [posted EXCEPT ![p] = @ \cup {ch[p].next}]
    /\ todo' = [todo EXCEPT ![p] = Tail(@)]
    /\ UNCHANGED <<wire, work, waiting, state, flushId, link, budget, received, answers>>

\* send_dynamic on a background thread: fetch_add, ...
BackgroundNumber(p, t) ==
    /\ MaySend(p, "send") /\ work[p][t] = <<>>
    /\ work' = [work EXCEPT ![p][t] = <<Envelope("send", ch[p].next, None, None)>>]
    /\ ch' = [ch EXCEPT ![p].next = @ + 1]
    /\ budget' = [budget EXCEPT ![p] = @ - 1]
    /\ UNCHANGED <<wire, waiting, todo, state, flushId, link, posted, received, answers>>

\* ... push_back onto the buffer (with the ack_id read just before), ...
BackgroundBuffer(p, t) ==
    /\ work[p][t] # <<>> /\ Head(work[p][t]).ack = None
    /\ ch' = [ch EXCEPT ![p] = Buffered(@, Head(work[p][t]))]
    /\ work' = [work EXCEPT ![p][t] = <<Last(ch'[p].buffer)>>]
    /\ posted' = [posted EXCEPT ![p] = @ \cup {Head(work[p][t]).id}]
    /\ UNCHANGED <<wire, waiting, todo, state, flushId, link, budget, received, answers>>

\* ... and unbounded_send.
BackgroundQueue(p, t) ==
    /\ work[p][t] # <<>> /\ Head(work[p][t]).ack # None
    /\ ch' = [ch EXCEPT ![p].outgoing = @ \o work[p][t]]
    /\ work' = [work EXCEPT ![p][t] = <<>>]
    /\ UNCHANGED <<wire, waiting, todo, state, flushId, link, budget, posted, received, answers>>

-----------------------------------------------------------------------------
(* The receive loop (start_handling_messages).                              *)

\* What p does with the head of its input, its ack_id first.
Acked(p, e) ==
    IF e.ack = None THEN ch[p] ELSE [ch[p] EXCEPT !.buffer = Trim(@, e.ack)]

ReceiveFlush(p, e) ==
    /\ e.kind = "flush"
    /\ ch' = [ch EXCEPT ![p] = Ack(Resend(Acked(p, e)), e.id)]
    /\ UNCHANGED <<waiting, todo, state, received, answers>>

ReceiveStarted(p, e) ==
    /\ e.kind = "started"
    /\ ch' = [ch EXCEPT ![p] = Ack(@, e.id)]
    /\ state' = IF p = "client" /\ state = "connecting" THEN "started" ELSE state
    /\ UNCHANGED <<waiting, todo, received, answers>>

\* A message: a request goes to a handler, a response to the request that waits
\* for it.  At the client the ping's answer makes it connected; the answer to
\* the flush makes it resend its buffer, in the same poll.
ReceiveMessage(p, e) ==
    LET c == [Acked(p, e) EXCEPT !.maxReceived = e.id]
        mine == {r \in waiting[p] : e.re = r.id}
        resynced == p = "client" /\ state = "resyncing" /\ \E r \in mine : r.id = flushId
        pinged == p = "client" /\ state = "started" /\ mine # {}
    IN  /\ e.kind \in {"ack", "send", "request", "response"}
        /\ ch' = [ch EXCEPT ![p] = IF resynced THEN Resend(c) ELSE c]
        /\ waiting' = [waiting EXCEPT ![p] = @ \ mine]
        /\ answers' = answers \cup {<<r.kind, e.kind>> : r \in mine}
        /\ todo' = IF e.kind = "request" THEN [todo EXCEPT ![p] = Append(@, e.id)] ELSE todo
        /\ state' = IF resynced \/ pinged THEN "connected" ELSE state
        /\ received' = IF e.kind = "ack" THEN received
                       ELSE [received EXCEPT ![p] = Append(@, e.id)]

Receive(p) ==
    LET from == Other(p)
    IN  /\ wire[from] # <<>>
        /\ p = "client" => state # "swapped"
        /\ wire' = [wire EXCEPT ![from] = Tail(@)]
        /\ \/ ReceiveFlush(p, Head(wire[from]))
           \/ ReceiveStarted(p, Head(wire[from]))
           \/ ReceiveMessage(p, Head(wire[from]))
        /\ UNCHANGED <<work, flushId, link, budget, posted>>

-----------------------------------------------------------------------------
(* The connection.                                                          *)

Transmit(p) ==
    /\ link = "up" /\ ch[p].outgoing # <<>>
    /\ wire' = [wire EXCEPT ![p] = Append(@, Head(ch[p].outgoing))]
    /\ ch' = [ch EXCEPT ![p].outgoing = Tail(@)]
    /\ UNCHANGED <<work, waiting, todo, state, flushId, link, budget, posted, received, answers>>

\* What had not arrived is lost, in both directions.
Disconnect ==
    /\ state \in {"connected", "resyncing"} /\ link = "up" /\ budget.drops > 0
    /\ \E i \in 0 .. Len(wire["client"]), j \in 0 .. Len(wire["server"]) :
          wire' = [client |-> SubSeq(wire["client"], 1, i), server |-> SubSeq(wire["server"], 1, j)]
    /\ link' = "down"
    /\ budget' = [budget EXCEPT !.drops = @ - 1]
    /\ UNCHANGED <<ch, work, waiting, todo, state, flushId, posted, received, answers>>

\* The server has not noticed yet and writes into the broken connection.
LoseWrite ==
    /\ link = "down" /\ ch["server"].outgoing # <<>>
    /\ ch' = [ch EXCEPT !["server"].outgoing = Tail(@)]
    /\ UNCHANGED <<wire, work, waiting, todo, state, flushId, link, budget, posted, received, answers>>

\* ChannelClient::reconnect gives the client new queues; the server accepts.
Reconnect ==
    /\ link = "down" /\ state \in {"connected", "resyncing"}
    /\ ch' = [ch EXCEPT !["client"].outgoing = <<>>]
    /\ wire' = [wire EXCEPT !["server"] = <<>>]
    /\ state' = "swapped"
    /\ link' = "up"
    /\ UNCHANGED <<work, waiting, todo, flushId, budget, posted, received, answers>>

\* Mutant: the flush gets a number and is not queued.
FlushUnsent(c) == [c EXCEPT !.next = @ + 1]

\* resync asks the server to resend what is in its buffer.
Flush(c) ==
    [c EXCEPT !.next = @ + 1,
              !.outgoing = Append(@, Envelope("flush", c.next, None, c.maxReceived))]

Resync ==
    /\ state = "swapped"
    /\ LET c == Flush(ch["client"])
       IN  ch' = [ch EXCEPT !["client"] = [c EXCEPT !.outgoing = Append(@, Started)]]
    /\ waiting' = [waiting EXCEPT !["client"] = @ \cup {[id |-> ch["client"].next, kind |-> "flush"]}]
    /\ flushId' = ch["client"].next
    /\ state' = "resyncing"
    /\ UNCHANGED <<wire, work, todo, link, budget, posted, received, answers>>

-----------------------------------------------------------------------------
Next ==
    \/ \E p \in Peers, kind \in {"send", "request"} : SendForeground(p, kind)
    \/ \E p \in Peers : Respond(p)
    \/ \E p \in Peers, t \in Threads :
          BackgroundNumber(p, t) \/ BackgroundBuffer(p, t) \/ BackgroundQueue(p, t)
    \/ \E p \in Peers : Receive(p) \/ Transmit(p)
    \/ Disconnect \/ LoseWrite \/ Reconnect \/ Resync

Spec == Init /\ [][Next]_vars

(***************************************************************************)
(* Fairness: both receive loops and both writers keep running, handlers    *)
(* answer, a sender that has begun goes on, and a dropped connection is    *)
(* replaced (the client retries; that an attempt succeeds is assumed of    *)
(* the network).  Nothing makes the applications send or the link drop.    *)
(***************************************************************************)
Fairness ==
    /\ \A p \in Peers : WF_vars(Receive(p)) /\ WF_vars(Transmit(p)) /\ WF_vars(Respond(p))
    /\ WF_vars(Reconnect) /\ WF_vars(Resync)
    /\ \A p \in Peers, t \in Threads :
          WF_vars(BackgroundBuffer(p, t)) /\ WF_vars(BackgroundQueue(p, t))

FairSpec == Spec /\ Fairness

-----------------------------------------------------------------------------
EnvelopeType ==
    [kind : {"started", "flush", "ack", "send", "request", "response"},
     id : Nat, re : Nat \cup {None}, ack : Nat \cup {None}]

ChannelType ==
    [next : Nat, buffer : Seq(EnvelopeType), maxReceived : Nat, outgoing : Seq(EnvelopeType)]

\* Both channels, the wires between them and the client's state keep their types.
TypeOK ==
    /\ ch \in [Peers -> ChannelType]
    /\ wire \in [Peers -> Seq(EnvelopeType)]
    /\ work \in [Peers -> [Threads -> Seq(EnvelopeType)]]
    /\ waiting \in [Peers -> SUBSET [id : Nat, kind : {"request", "flush"}]]
    /\ todo \in [Peers -> Seq(Nat)]
    /\ state \in {"connecting", "started", "connected", "swapped", "resyncing"}
    /\ flushId \in Nat \cup {None}
    /\ link \in {"up", "down"}
    /\ budget \in [client : Nat, server : Nat, drops : Nat]
    /\ posted \in [Peers -> SUBSET Nat]
    /\ received \in [Peers -> Seq(Nat)]

IdsOf(q) == {q[i].id : i \in DOMAIN q}

\* Whatever an application sent is still buffered for the next resync, on its way,
\* or was handled: the save in test_reconnect, issued while the connection is
\* down, gets through.
NothingLost ==
    \A p \in Peers :
        posted[p] \subseteq ToSet(received[Other(p)]) \cup IdsOf(ch[p].buffer)
                                \cup IdsOf(ch[p].outgoing) \cup IdsOf(wire[p])
                                \cup UNION {IdsOf(work[p][t]) : t \in Threads}

\* On either side a request is answered by a response and a flush by an ack: the
\* ack of a RemoteStarted answers id 0 and never passes for the answer to a
\* request.  By the time a side asks it has given its own id 0 to something else:
\* each acks the other's RemoteStarted, the server before any message of the client.
AnswersMatch == answers \subseteq {<<"request", "response">>, <<"flush", "ack">>}

\* Until the connection drops, each message is handled once and in order.
InOrder ==
    budget.drops = MaxDrops =>
        \A p \in Peers : \A i, j \in DOMAIN received[p] : i < j => received[p][i] < received[p][j]

\* Until the connection drops, each message is handled at most once, whatever
\* threads it was sent from.
HandledOnce ==
    budget.drops = MaxDrops =>
        \A p \in Peers : \A i, j \in DOMAIN received[p] : received[p][i] = received[p][j] => i = j

Asked(p) == {r \in waiting[p] : r.kind = "request"}

\* A request of either side is answered in the end, whether or not the connection
\* drops meanwhile: what waits for an answer is at some later time down to nothing.
RequestAnswered == \A p \in Peers : (Asked(p) # {}) ~> (Asked(p) = {})

\* A dropped connection is resynced: both sides agree again on what to resend.
Resynced == (link = "down") ~> (link = "up" /\ state = "connected")
=============================================================================
