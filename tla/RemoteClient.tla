---------------------------- MODULE RemoteClient ----------------------------
(***************************************************************************)
(* How the windows on one remote host keep their connection to it:         *)
(* RemoteClient and ConnectionPool of crates/remote/src/remote_client.rs.  *)
(*                                                                         *)
(* A client runs a proxy process over a connection (an ssh master) that it *)
(* shares with the other clients of the host.  Three tasks per client look *)
(* after it: `monitor` waits for the proxy to end, `heartbeat` pings the   *)
(* server when nothing was heard for a while, and `reconnect` kills the    *)
(* connection, asks the pool for another, starts a proxy and resyncs.      *)
(* Killing a connection ends the proxies of every client on it.            *)
(*                                                                         *)
(* Everything here runs on the UI thread, one action per poll of a task;   *)
(* the messages between client and server are in RemoteChannel.            *)
(***************************************************************************)
EXTENDS Integers, FiniteSets

CONSTANTS
    Clients,      \* the windows on the host
    Conns,        \* names for connections, reused when nobody holds one
    NoConn,
    Closing,      \* the windows the user may close
    MaxAttempts,  \* MAX_RECONNECT_ATTEMPTS, 3 in the code
    MaxMisses     \* MAX_MISSED_HEARTBEATS, 5 in the code

ASSUME ConnsAssumption  == Conns \subseteq Nat /\ NoConn \notin Conns
ASSUME LimitsAssumption == {MaxAttempts, MaxMisses} \subseteq Nat \ {0}

VARIABLES
    client,  \* RemoteClient and the locals of its tasks
    conns,   \* what became of each connection
    pool     \* the ConnectionPool entry of the host: who awaits the connecting
             \* task, or the connection it made

vars == <<client, conns, pool>>

\* `step` is where RemoteClient::new or the task of reconnect is, `failures`
\* (history) the attempts that failed since the client was connected.
\* Taskless is a client with no task and no connection.
Taskless(state, failures) ==
    [state |-> state, step |-> "none", attempts |-> 0, misses |-> 0, conn |-> NoConn,
     proxy |-> "none", monitored |-> FALSE, beat |-> "off", failures |-> failures]

NewConn == [killed |-> FALSE, silent |-> FALSE]

Init ==
    /\ client = [c \in Clients |-> Taskless("absent", 0)]
    /\ conns = [k \in Conns |-> NewConn]
    /\ pool = [waiting |-> {}, conn |-> NoConn]

Held(k) == \E c \in Clients : client[c].conn = k

\* The tasks a client owned are dropped, and kill its proxy as they go.
Dropped(r) == Taskless(r.state, r.failures)

\* A connection that nobody holds any more is dropped, and its name free again.
DropUnheld ==
    conns' = [k \in Conns |-> IF \E c \in Clients : client'[c].conn = k THEN conns[k] ELSE NewConn]

Become(c, r) == client' = [client EXCEPT ![c] = r] /\ DropUnheld

-----------------------------------------------------------------------------
(* The pool.                                                                *)

\* The connecting task is alive while somebody awaits it.
Connecting == pool.waiting # {}

\* Mutant: a connection is only shared while it is being made.
UsableNever(k) == FALSE

\* Weak::upgrade, and ! has_been_killed.
Usable(k) == k # NoConn /\ Held(k) /\ ~conns[k].killed

\* ConnectionPool::connect.
Connect(c, r) ==
    \/ /\ Connecting
       /\ Become(c, [r EXCEPT !.step = "joining"])
       /\ pool' = [pool EXCEPT !.waiting = @ \cup {c}]
    \/ /\ ~Connecting /\ Usable(pool.conn)
       /\ Become(c, [r EXCEPT !.step = "given", !.conn = pool.conn])
       /\ UNCHANGED pool
    \/ /\ ~Connecting /\ ~Usable(pool.conn)
       /\ Become(c, [r EXCEPT !.step = "joining"])
       /\ pool' = [waiting |-> {c}, conn |-> NoConn]

\* The connecting task has a connection for all who await it ...
PoolConnects ==
    /\ Connecting
    /\ \E k \in Conns :
        /\ ~Held(k) /\ \A j \in Conns : ~Held(j) => k <= j
        /\ client' = [c \in Clients |->
                IF c \in pool.waiting
                THEN [client[c] EXCEPT !.conn = k, !.step = "given"] ELSE client[c]]
        /\ DropUnheld
        /\ pool' = [waiting |-> {}, conn |-> k]

\* ... or an error.
PoolFails ==
    /\ Connecting
    /\ client' = [c \in Clients |->
            IF c \in pool.waiting THEN [client[c] EXCEPT !.step = "denied"] ELSE client[c]]
    /\ pool' = [waiting |-> {}, conn |-> NoConn]
    /\ UNCHANGED conns

-----------------------------------------------------------------------------
(* RemoteClient::new.                                                       *)

Open(c) ==
    /\ client[c].state = "absent"
    /\ Connect(c, [client[c] EXCEPT !.state = "connecting"])

\* The user gives up, or an await of `new` fails or times out.
Refuse(c) ==
    /\ client[c].state = "connecting"
    /\ Become(c, Taskless("refused", client[c].failures))
    /\ pool' = [pool EXCEPT !.waiting = @ \ {c}]

\* start_proxy, for `new` and for reconnect.
StartProxy(c) ==
    LET r == [client[c] EXCEPT !.proxy = "up"]
    IN  /\ client[c].step = "given"
        /\ \/ /\ client[c].state = "connecting"
              /\ Become(c, [r EXCEPT !.step = "starting"])
           \/ /\ client[c].state # "connecting"
              /\ Become(c, [r EXCEPT !.step = "resyncing", !.monitored = TRUE])
        /\ UNCHANGED pool

\* The server can be heard: what a client hears and what it is answered.
Heard(c) ==
    client[c].proxy = "up" /\ ~conns[client[c].conn].killed /\ ~conns[client[c].conn].silent

\* RemoteStarted: the proxy is monitored from now on, and the server pinged.
ServerStarted(c) ==
    /\ client[c].step = "starting" /\ Heard(c)
    /\ Become(c, [client[c] EXCEPT !.step = "greeting", !.monitored = TRUE])
    /\ UNCHANGED pool

\* The answer to the ping of `new`, or to the flush of a resync.
Answer(c) ==
    /\ client[c].step \in {"greeting", "resyncing"} /\ Heard(c)
    /\ Become(c, [client[c] EXCEPT !.step = "answered"])
    /\ UNCHANGED pool

Connected(r) ==
    [state |-> "connected", step |-> "none", attempts |-> 0, misses |-> 0, conn |-> r.conn,
     proxy |-> r.proxy, monitored |-> r.monitored, beat |-> "armed", failures |-> 0]

SetConnected(c) ==
    /\ client[c].state = "connecting" /\ client[c].step = "answered"
    /\ Become(c, Connected(client[c]))
    /\ UNCHANGED pool

-----------------------------------------------------------------------------
(* reconnect.                                                               *)

CanReconnect(r) == r.state \in {"connected", "missed", "failed"}

\* Mutant: the attempt after the last one is made too.
LimitPassed(n) == n > MaxAttempts + 1

\* Mutant: the last attempt is not made.
LimitEarly(n) == n >= MaxAttempts

Limit(n) == n > MaxAttempts

\* Only an attempt that failed is counted on.
Reconnect(r) ==
    LET n == (IF r.state = "failed" THEN r.attempts ELSE 0) + 1
    IN  IF ~CanReconnect(r) THEN r
        ELSE IF Limit(n) THEN Taskless("exhausted", r.failures)
        ELSE [Taskless("reconnecting", r.failures) EXCEPT
                !.attempts = n, !.step = "killing", !.conn = r.conn]

KillConn(c) ==
    /\ client[c].step = "killing"
    /\ client' = [client EXCEPT ![c].step = "killed"]
    /\ conns' = [conns EXCEPT ![client[c].conn].killed = TRUE]
    /\ UNCHANGED pool

ConnectAgain(c) ==
    /\ client[c].step = "killed"
    /\ Connect(c, client[c])

\* failed!: the kill, the pool or the resync; the proxy goes with its monitor.
AttemptFails(c) ==
    /\ \/ client[c].step \in {"killed", "resyncing"}
       \/ client[c].step = "denied" /\ client[c].state # "connecting"
    /\ Become(c, [client[c] EXCEPT !.step = "failed", !.proxy = "none", !.monitored = FALSE,
                                   !.failures = @ + 1])
    /\ UNCHANGED pool

\* Mutant: the outcome of a reconnect is adopted whatever happened meanwhile.
AdoptsAlways(r) == TRUE

\* Mutant: an attempt that failed is left at that.
RetriesNever(r) == [r EXCEPT !.state = "failed", !.step = "none"]

Adopts(r) == r.state = "reconnecting"

\* A failed attempt is the new state, and the next attempt starts at once.
Retries(r) == Reconnect([r EXCEPT !.state = "failed"])

\* The second task of reconnect: its outcome counts if nothing else was decided.
Adopt(c) ==
    LET r == client[c]
    IN  /\ r.state # "connecting" /\ r.step \in {"answered", "failed"}
        /\ \/ Adopts(r) /\ r.step = "answered" /\ Become(c, Connected(r))
           \/ Adopts(r) /\ r.step = "failed" /\ Become(c, Retries(r))
           \/ ~Adopts(r) /\ Become(c, Dropped(r))
        /\ UNCHANGED pool

-----------------------------------------------------------------------------
(* monitor.                                                                 *)

\* The proxy ends, by itself or with its connection.
ProxyExits(c) ==
    /\ client[c].proxy = "up"
    /\ Become(c, [client[c] EXCEPT !.proxy = "exited"])
    /\ UNCHANGED pool

\* It finds no server to join again: exit code 90.
ProxyFindsNoServer(c) ==
    /\ client[c].proxy = "up" /\ client[c].step = "resyncing"
    /\ Become(c, [client[c] EXCEPT !.proxy = "noServer"])
    /\ UNCHANGED pool

Monitor(c) ==
    LET r == [client[c] EXCEPT !.monitored = FALSE]
    IN  /\ client[c].monitored
        /\ \/ client[c].proxy = "exited" /\ Become(c, Reconnect(r))
           \/ client[c].proxy = "noServer" /\ Become(c, [r EXCEPT !.state = "notRunning"])
        /\ UNCHANGED pool

-----------------------------------------------------------------------------
(* heartbeat: `armed` while its timer runs, `pinging` while it waits.       *)

BeatTick(c) ==
    /\ client[c].beat = "armed" /\ client[c].proxy = "up"
    /\ Become(c, [client[c] EXCEPT !.beat = "pinging"])
    /\ UNCHANGED pool

Recovered(r) ==
    [r EXCEPT !.misses = 0, !.state = IF @ = "missed" THEN "connected" ELSE @]

\* Something came from the server.  A ping that was not the answer to a missed one
\* leaves the timer unarmed (`continue`) until the server is heard again.  A result
\* in the 50 ms in which shutdown_processes has taken the state is left out.
Hear(c) ==
    LET r == client[c]
    IN  /\ r.beat \in {"armed", "pinging", "unarmed"} /\ Heard(c) /\ r.state # "gone"
        /\ Become(c, [Recovered(r) EXCEPT !.beat =
                        IF r.beat = "pinging" /\ r.misses = 0 THEN "unarmed" ELSE "armed"])
        /\ UNCHANGED pool

\* Mutant: a missed heartbeat is not added to those before.
MissedOnce(r) == [r EXCEPT !.misses = 1, !.state = "missed"]

Missed(r) == [r EXCEPT !.misses = @ + 1, !.state = "missed"]

PingTimesOut(c) ==
    LET r == [Missed(client[c]) EXCEPT !.beat = "armed"]
    IN  /\ client[c].beat = "pinging" /\ client[c].proxy = "up" /\ client[c].state # "gone"
        /\ Become(c, IF r.misses >= MaxMisses THEN Reconnect(r) ELSE r)
        /\ UNCHANGED pool

\* connection_activity is closed with the proxy; a ping under way counts as heard.
BeatStops(c) ==
    LET r == client[c]
    IN  /\ r.beat \in {"armed", "pinging", "unarmed"} /\ r.proxy # "up" /\ r.state # "gone"
        /\ Become(c, [(IF r.beat = "pinging" THEN Recovered(r) ELSE r) EXCEPT !.beat = "off"])
        /\ UNCHANGED pool

-----------------------------------------------------------------------------
\* shutdown_processes, when the window closes: the tasks of a connected client
\* live on for 50 ms, those of reconnect until they are done.
Shutdown(c) ==
    LET r == [client[c] EXCEPT !.state = "gone"]
    IN  /\ c \in Closing /\ client[c].state \in {"connected", "missed", "reconnecting"}
        /\ Become(c, IF client[c].state = "missed" THEN Dropped(r) ELSE r)
        /\ UNCHANGED pool

ShutdownDone(c) ==
    /\ client[c].state = "gone" /\ client[c].step = "none" /\ client[c].conn # NoConn
    /\ Become(c, Dropped(client[c]))
    /\ UNCHANGED pool

\* Nothing comes through any more, and nothing reports an error either.
GoSilent(k) ==
    /\ Held(k) /\ conns[k] = NewConn
    /\ conns' = [conns EXCEPT ![k].silent = TRUE]
    /\ UNCHANGED <<client, pool>>

-----------------------------------------------------------------------------
TaskNext(c) ==
    \/ StartProxy(c) \/ SetConnected(c) \/ KillConn(c) \/ ConnectAgain(c)
    \/ Adopt(c) \/ Monitor(c) \/ BeatStops(c) \/ ShutdownDone(c)

ServerNext(c) == ServerStarted(c) \/ Answer(c) \/ Hear(c)

Next ==
    \/ \E c \in Clients :
         \/ Open(c) \/ Refuse(c) \/ Shutdown(c)
         \/ TaskNext(c) \/ ServerNext(c) \/ AttemptFails(c)
         \/ ProxyExits(c) \/ ProxyFindsNoServer(c) \/ BeatTick(c) \/ PingTimesOut(c)
    \/ PoolConnects \/ PoolFails
    \/ \E k \in Conns : GoSilent(k)

Spec == Init /\ [][Next]_vars

\* What a client does by itself, and its timeouts: an attempt that gets no answer.
OwnNext(c) ==
    \/ TaskNext(c) \/ AttemptFails(c)
    \/ client[c].step \in {"starting", "greeting", "denied"} /\ Refuse(c)
    \/ ProxyExits(c) /\ conns[client[c].conn].killed

(***************************************************************************)
(* Fairness: tasks are polled, timers fire, an attempt to connect ends     *)
(* (ssh has a timeout of its own), and a proxy whose master was killed     *)
(* ends.  Nothing is assumed of the server or of the user.                 *)
(***************************************************************************)
Fairness ==
    /\ WF_vars(PoolConnects \/ PoolFails)
    /\ \A c \in Clients : WF_vars(OwnNext(c)) /\ WF_vars(BeatTick(c) \/ PingTimesOut(c))

FairSpec == Spec /\ Fairness

-----------------------------------------------------------------------------
States == {"absent", "connecting", "refused", "connected", "missed", "reconnecting",
           "exhausted", "notRunning", "gone"}
Steps  == {"none", "joining", "given", "denied", "starting", "greeting", "resyncing",
           "answered", "killing", "killed", "failed"}

ClientType ==
    [state : States, step : Steps, attempts : 0 .. MaxAttempts, misses : 0 .. MaxMisses - 1,
     conn : Conns \cup {NoConn}, proxy : {"none", "up", "exited", "noServer"},
     monitored : BOOLEAN, beat : {"off", "armed", "pinging", "unarmed"},
     failures : 0 .. MaxAttempts]

Established(c) == client[c].state \in {"connected", "missed"}

\* The attempts and missed heartbeats stay within their limits, and a task that
\* reconnects never runs beside an established client.
TypeOK ==
    /\ client \in [Clients -> ClientType]
    /\ conns \in [Conns -> [killed : BOOLEAN, silent : BOOLEAN]]
    /\ pool \in [waiting : SUBSET Clients, conn : Conns \cup {NoConn}]
    /\ \A c \in Clients : Established(c) =>
          client[c].step = "none" /\ client[c].conn # NoConn /\ client[c].proxy # "none"

\* The windows of a host share one connection: there is never a second one that
\* has not been killed, nor an attempt to make one beside it.
OneConnection ==
    /\ \A j, k \in Conns :
          (Held(j) /\ Held(k) /\ ~conns[j].killed /\ ~conns[k].killed) => j = k
    /\ Connecting => \A k \in Conns : Held(k) => conns[k].killed

\* A client that has told its window that the host is gone stays disconnected: a
\* reconnect that succeeds late does not bring it back.
NoComeback ==
    [][ \A c \in Clients :
          client[c].state \in {"exhausted", "notRunning"} => client'[c].state = client[c].state ]_vars

\* A client gives up after all of its attempts failed in a row, and not before.
GivesUpLate ==
    \A c \in Clients : client[c].state = "exhausted" => client[c].failures = MaxAttempts

\* A reconnect ends: with a connection, or by telling the window.
ReconnectEnds ==
    \A c \in Clients :
        (client[c].state = "reconnecting")
            ~> (client[c].state \in {"connected", "exhausted", "notRunning", "gone"})

Lost(c) == client[c].conn # NoConn /\ (conns[client[c].conn].killed \/ conns[client[c].conn].silent)

\* The monitor runs, and with it the timer of the heartbeat.  Either may not: a
\* proxy that ends after the answer and before SetConnected or Adopt is seen by a
\* monitor that may not reconnect yet, and a quiet ping disarms the timer.
Watched(c) ==
    client[c].monitored /\ (conns[client[c].conn].killed \/ client[c].beat \in {"armed", "pinging"})

\* A client notices that its connection is gone: because another client killed it,
\* or because nothing comes through any more while its heartbeat runs.
LossNoticed ==
    \A c \in Clients : (Established(c) /\ Lost(c) /\ Watched(c)) ~> ~(Established(c) /\ Lost(c))
=============================================================================
