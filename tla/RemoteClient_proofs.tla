------------------------ MODULE RemoteClient_proofs ------------------------
(***************************************************************************)
(* Proofs about RemoteClient, for any number of windows, connections,      *)
(* attempts and heartbeats.                                                *)
(*                                                                         *)
(* What is invariant of one client is ClientOK of its record, and most     *)
(* actions change one client: the lemmas say that what an action makes of  *)
(* a record keeps ClientOK.  PoolOK relates the pool to all of them.       *)
(***************************************************************************)
EXTENDS RemoteClient, TLAPS

NewSteps == {"joining", "given", "denied", "starting", "greeting", "answered"}

AgainSteps == {"killing", "killed", "joining", "given", "denied", "resyncing", "answered", "failed"}

\* A task is at one of its steps with what it needs there; a client that is not
\* established has no heartbeat; and an attempt counts the failures before it.
ClientOK(r) ==
    /\ r \in ClientType
    /\ r.state \in {"absent", "refused", "connected", "missed", "exhausted"} => r.step = "none"
    /\ r.state \in {"absent", "refused", "exhausted"} => ~r.monitored
    /\ r.state \in {"connected", "missed"} =>
          r.conn # NoConn /\ r.proxy \in {"up", "exited"} /\ r.failures = 0
    /\ r.state \in {"absent", "connecting"} => r.failures = 0
    /\ r.state = "exhausted" => r.failures = MaxAttempts
    /\ r.state = "connecting" => r.step \in NewSteps
    /\ r.state = "reconnecting" => r.step # "none"
    /\ r.step # "none" => r.beat = "off"
    /\ r.beat # "off" => r.state \in {"connected", "missed", "gone"}
    /\ (r.step # "none" /\ r.state # "connecting") =>
          /\ r.step \in AgainSteps /\ r.attempts >= 1 /\ r.conn # NoConn
          /\ r.failures = IF r.step = "failed" THEN r.attempts ELSE r.attempts - 1
    /\ r.step \in {"given", "starting", "greeting", "answered"} => r.conn # NoConn
    /\ r.step \in {"starting", "greeting", "answered"} => r.proxy \in {"up", "exited"}
    /\ r.proxy = "noServer" => r.step = "resyncing"

\* Every connection that is held and was not killed is the one in the pool, and
\* there is none while another is being made.
PoolOK ==
    /\ conns \in [Conns -> [killed : BOOLEAN, silent : BOOLEAN]]
    /\ pool \in [waiting : SUBSET Clients, conn : Conns \cup {NoConn}]
    /\ \A c \in pool.waiting : client[c].step = "joining"
    /\ \A k \in Conns : (Held(k) /\ ~conns[k].killed) => k = pool.conn /\ ~Connecting

IInv ==
    /\ client \in [Clients -> ClientType]
    /\ \A c \in Clients : ClientOK(client[c])
    /\ PoolOK

-----------------------------------------------------------------------------
(* What the tasks make of a client's record.                                *)

\* Any record the tasks make is built of fields of their types.
LEMMA RecordType ==
    ASSUME NEW s \in States, NEW t \in Steps, NEW a \in 0 .. MaxAttempts, NEW m \in 0 .. MaxMisses - 1,
           NEW k \in Conns \cup {NoConn}, NEW p \in {"none", "up", "exited", "noServer"},
           NEW w \in BOOLEAN, NEW b \in {"off", "armed", "pinging", "unarmed"}, NEW f \in 0 .. MaxAttempts
    PROVE  [state |-> s, step |-> t, attempts |-> a, misses |-> m, conn |-> k, proxy |-> p,
            monitored |-> w, beat |-> b, failures |-> f] \in ClientType
BY DEF ClientType

\* A client whose tasks are dropped, in a state that has none.
LEMMA TasklessOK ==
    ASSUME NEW r, ClientOK(r), NEW s \in {"refused", "gone", "notRunning"}
    PROVE  ClientOK(Taskless(s, r.failures))
BY LimitsAssumption DEF ClientOK, ClientType, States, Steps, Taskless

\* What reconnect makes of a client that was established is its first attempt,
\* however many heartbeats it has missed.
FirstAttempt(r) ==
    [state |-> "reconnecting", step |-> "killing", attempts |-> 1, misses |-> 0, conn |-> r.conn,
     proxy |-> "none", monitored |-> FALSE, beat |-> "off", failures |-> 0]

LEMMA FirstAttemptOK ==
    ASSUME NEW r, ClientOK(r), r.state \in {"connected", "missed"}
    PROVE  ClientOK(FirstAttempt(r))
BY LimitsAssumption DEF ClientOK, ClientType, FirstAttempt, States, Steps, AgainSteps

\* A failed attempt is followed by the next, or by giving up.
LEMMA RetriesOK ==
    ASSUME NEW r, ClientOK(r), r.state = "reconnecting", r.step = "failed"
    PROVE  ClientOK(Retries(r)) /\ Retries(r).conn \in {r.conn, NoConn}
<1>1. r \in ClientType /\ r.attempts \in 1 .. MaxAttempts /\ r.failures = r.attempts
    BY LimitsAssumption DEF ClientOK, ClientType
<1>2. CASE r.attempts + 1 > MaxAttempts
    <2>1. Retries(r) = [state |-> "exhausted", step |-> "none", attempts |-> 0, misses |-> 0,
                        conn |-> NoConn, proxy |-> "none", monitored |-> FALSE, beat |-> "off",
                        failures |-> r.failures]
        BY <1>1, <1>2 DEF ClientType, Retries, Reconnect, CanReconnect, Limit, Taskless
    <2> QED BY <2>1, <1>1, <1>2, LimitsAssumption DEF ClientOK, ClientType, States, Steps
<1>3. CASE ~(r.attempts + 1 > MaxAttempts)
    <2>1. Retries(r) = [state |-> "reconnecting", step |-> "killing", attempts |-> r.attempts + 1, misses |-> 0,
                        conn |-> r.conn, proxy |-> "none", monitored |-> FALSE, beat |-> "off",
                        failures |-> r.failures]
        BY <1>1, <1>3 DEF ClientType, Retries, Reconnect, CanReconnect, Limit, Taskless
    <2> QED BY <2>1, <1>1, <1>3, LimitsAssumption DEF ClientOK, ClientType, States, Steps, AgainSteps
<1> QED BY <1>2, <1>3

-----------------------------------------------------------------------------
(* Most actions change the record of one client and leave the pool alone.   *)

LEMMA BecomeOK ==
    ASSUME IInv, NEW c \in Clients, NEW r, ClientOK(r), Become(c, r), UNCHANGED pool,
           r.conn \in {client[c].conn, NoConn}, c \in pool.waiting => r.step = "joining"
    PROVE  IInv'
<1>1. client' = [client EXCEPT ![c] = r] /\ r \in ClientType
    BY DEF Become, ClientOK
<1>2. client' \in [Clients -> ClientType] /\ \A d \in Clients : client'[d] = IF d = c THEN r ELSE client[d]
    BY <1>1 DEF IInv
<1>3. \A d \in Clients : ClientOK(client'[d])
    BY <1>2 DEF IInv
<1>4. PoolOK'
    <2>1. conns' = [k \in Conns |-> IF Held(k)' THEN conns[k] ELSE NewConn]
        BY DEF Become, DropUnheld, Held
    <2>2. conns' \in [Conns -> [killed : BOOLEAN, silent : BOOLEAN]]
        BY <2>1 DEF IInv, PoolOK, NewConn
    <2>3. \A k \in Conns : Held(k)' => Held(k) /\ conns'[k] = conns[k]
        BY <1>2, <2>1, ConnsAssumption DEF Held
    <2> QED BY <1>2, <2>2, <2>3 DEF IInv, PoolOK, Connecting
<1> QED BY <1>2, <1>3, <1>4 DEF IInv

-----------------------------------------------------------------------------
(* Init and the actions of the pool.                                        *)

LEMMA InitIInv == Init => IInv
<1> SUFFICES ASSUME Init PROVE IInv
    OBVIOUS
<1>1. ClientOK(Taskless("absent", 0)) /\ Taskless("absent", 0) \in ClientType
    BY LimitsAssumption DEF ClientOK, ClientType, Taskless, States, Steps
<1>2. client \in [Clients -> ClientType] /\ \A c \in Clients : ClientOK(client[c])
    BY <1>1 DEF Init
<1>3. \A k \in Conns : ~Held(k)
    BY ConnsAssumption DEF Init, Held, Taskless
<1>4. PoolOK
    BY <1>3, ConnsAssumption DEF Init, PoolOK, NewConn
<1> QED BY <1>2, <1>4 DEF IInv

\* Connect never has two connections made, and adds nobody to a finished wait.
LEMMA ConnectOK ==
    ASSUME IInv, NEW c \in Clients, c \notin pool.waiting, NEW r, r \in ClientType,
           ClientOK([r EXCEPT !.step = "joining"]),
           \A k \in Conns : ClientOK([r EXCEPT !.step = "given", !.conn = k]),
           r.conn = client[c].conn, Connect(c, r)
    PROVE  IInv'
<1> DEFINE joined == [r EXCEPT !.step = "joining"]
<1>1. joined.conn = client[c].conn /\ joined.step = "joining" /\ joined \in ClientType
    BY DEF ClientType, Steps
<1>2. CASE Become(c, joined)
    <2>1. client' = [client EXCEPT ![c] = joined]
        BY <1>2 DEF Become
    <2>2. client' \in [Clients -> ClientType] /\ \A d \in Clients : client'[d] = IF d = c THEN joined ELSE client[d]
        BY <2>1, <1>1 DEF IInv
    <2>3. \A d \in Clients : ClientOK(client'[d])
        BY <2>2 DEF IInv
    <2>4. conns' = [k \in Conns |-> IF Held(k)' THEN conns[k] ELSE NewConn]
        BY <1>2 DEF Become, DropUnheld, Held
    <2>5. conns' \in [Conns -> [killed : BOOLEAN, silent : BOOLEAN]]
        BY <2>4 DEF IInv, PoolOK, NewConn
    <2>6. \A k \in Conns : Held(k)' => Held(k) /\ conns'[k] = conns[k]
        BY <2>2, <2>4, <1>1 DEF Held
    <2>7. CASE Connecting /\ pool' = [pool EXCEPT !.waiting = @ \cup {c}]
        <3>1. pool' \in [waiting : SUBSET Clients, conn : Conns \cup {NoConn}]
            BY <2>7 DEF IInv, PoolOK
        <3>2. pool'.waiting = pool.waiting \cup {c}
            BY <2>7 DEF IInv, PoolOK
        <3>3. \A k \in Conns : Held(k)' => conns'[k].killed
            BY <2>6, <2>7 DEF IInv, PoolOK
        <3>4. \A d \in pool'.waiting : client'[d].step = "joining"
            BY <3>2, <2>2, <1>1 DEF IInv, PoolOK
        <3> QED BY <3>1, <3>3, <3>4, <2>2, <2>3, <2>5 DEF IInv, PoolOK
    <2>8. CASE /\ ~Connecting /\ ~Usable(pool.conn)
               /\ pool' = [waiting |-> {c}, conn |-> NoConn]
        <3>1. \A k \in Conns : Held(k)' => conns'[k].killed
            BY <2>6, <2>8, ConnsAssumption DEF IInv, PoolOK, Usable
        <3> QED BY <3>1, <2>2, <2>3, <2>5, <2>8, <1>1 DEF IInv, PoolOK
    <2>9. \/ Connecting /\ pool' = [pool EXCEPT !.waiting = @ \cup {c}]
          \/ ~Connecting /\ ~Usable(pool.conn) /\ pool' = [waiting |-> {c}, conn |-> NoConn]
        <3>1. CASE ~Connecting /\ Usable(pool.conn) /\ Become(c, [r EXCEPT !.step = "given", !.conn = pool.conn])
            <4>1. client'[c] = [r EXCEPT !.step = "given", !.conn = pool.conn]
                BY <3>1 DEF Become, IInv
            <4>2. client'[c].step = "given"
                BY <4>1 DEF ClientType
            <4> QED BY <4>2, <2>2, <1>1
        <3> QED BY <3>1 DEF Connect
    <2> QED BY <2>7, <2>8, <2>9
<1>3. CASE /\ ~Connecting /\ Usable(pool.conn) /\ UNCHANGED pool
           /\ Become(c, [r EXCEPT !.step = "given", !.conn = pool.conn])
    <2> DEFINE shared == [r EXCEPT !.step = "given", !.conn = pool.conn]
    <2>1. pool.conn \in Conns /\ Held(pool.conn)
        BY <1>3 DEF Usable, IInv, PoolOK
    <2>2. shared \in ClientType /\ ClientOK(shared) /\ shared.conn = pool.conn
        BY <2>1, ZenonT(40) DEF ClientOK, ClientType
    <2>3. client' = [client EXCEPT ![c] = shared]
        BY <1>3 DEF Become
    <2>4. client' \in [Clients -> ClientType] /\ \A d \in Clients : client'[d] = IF d = c THEN shared ELSE client[d]
        BY <2>2, <2>3 DEF IInv
    <2>5. \A d \in Clients : ClientOK(client'[d])
        BY <2>2, <2>4 DEF IInv
    <2>6. conns' = [k \in Conns |-> IF Held(k)' THEN conns[k] ELSE NewConn]
        BY <1>3 DEF Become, DropUnheld, Held
    <2>7. conns' \in [Conns -> [killed : BOOLEAN, silent : BOOLEAN]]
        BY <2>6 DEF IInv, PoolOK, NewConn
    <2>8. \A k \in Conns : Held(k)' => Held(k) /\ conns'[k] = conns[k]
        BY <2>1, <2>2, <2>4, <2>6 DEF Held
    <2>9. \A d \in pool.waiting : client'[d].step = "joining"
        BY <2>4 DEF IInv, PoolOK
    <2> QED BY <1>3, <2>4, <2>5, <2>7, <2>8, <2>9 DEF IInv, PoolOK, Connecting
<1> QED BY <1>2, <1>3 DEF Connect

LEMMA PoolConnectsOK == IInv /\ PoolConnects => IInv'
<1> SUFFICES ASSUME IInv, PoolConnects PROVE IInv'
    OBVIOUS
<1>1. PICK k \in Conns :
          /\ ~Held(k)
          /\ client' = [c \in Clients |->
                IF c \in pool.waiting
                THEN [client[c] EXCEPT !.conn = k, !.step = "given"] ELSE client[c]]
          /\ DropUnheld
          /\ pool' = [waiting |-> {}, conn |-> k]
    BY DEF PoolConnects
<1>2. ASSUME NEW c \in Clients, c \in pool.waiting
      PROVE  client'[c] \in ClientType /\ ClientOK(client'[c]) /\ client'[c].conn = k
    <2>1. client'[c] = [client[c] EXCEPT !.conn = k, !.step = "given"] /\ client[c].step = "joining"
        BY <1>1, <1>2 DEF IInv, PoolOK
    <2>2. client[c] \in ClientType /\ ClientOK(client[c])
        BY DEF IInv
    <2>3. client'[c] \in ClientType /\ client'[c].conn = k
        BY <2>1, <2>2 DEF ClientType, Steps
    <2>4. ClientOK(client'[c])
        BY <2>1, <2>2, <2>3, ConnsAssumption DEF ClientOK, ClientType, NewSteps, AgainSteps
    <2> QED BY <2>3, <2>4
<1>3. \A c \in Clients : c \notin pool.waiting => client'[c] = client[c]
    BY <1>1
<1>4. client' \in [Clients -> ClientType]
    BY <1>1, <1>2, <1>3 DEF IInv
<1>5. \A c \in Clients : ClientOK(client'[c])
    BY <1>2, <1>3 DEF IInv
<1>6. conns' = [j \in Conns |-> IF Held(j)' THEN conns[j] ELSE NewConn]
    BY <1>1 DEF DropUnheld, Held
<1>7. conns' \in [Conns -> [killed : BOOLEAN, silent : BOOLEAN]]
    BY <1>6 DEF IInv, PoolOK, NewConn
<1>8. \A j \in Conns : Held(j)' /\ j # k => conns'[j].killed
    BY <1>2, <1>3, <1>6 DEF Held, IInv, PoolOK, PoolConnects
<1> QED BY <1>1, <1>4, <1>5, <1>7, <1>8 DEF IInv, PoolOK, Connecting

LEMMA PoolFailsOK == IInv /\ PoolFails => IInv'
<1> SUFFICES ASSUME IInv, PoolFails PROVE IInv'
    OBVIOUS
<1>1. client' = [c \in Clients |->
            IF c \in pool.waiting THEN [client[c] EXCEPT !.step = "denied"] ELSE client[c]]
    BY DEF PoolFails
<1>2. ASSUME NEW c \in Clients, c \in pool.waiting
      PROVE  client'[c] \in ClientType /\ ClientOK(client'[c]) /\ client'[c].conn = client[c].conn
    <2>1. client'[c] = [client[c] EXCEPT !.step = "denied"] /\ client[c].step = "joining"
        BY <1>1, <1>2 DEF IInv, PoolOK
    <2>2. client[c] \in ClientType /\ ClientOK(client[c])
        BY DEF IInv
    <2>3. client'[c] \in ClientType /\ client'[c].conn = client[c].conn
        BY <2>1, <2>2 DEF ClientType, Steps
    <2>4. ClientOK(client'[c])
        BY <2>1, <2>2, <2>3 DEF ClientOK, ClientType, NewSteps, AgainSteps
    <2> QED BY <2>3, <2>4
<1>3. \A c \in Clients : c \notin pool.waiting => client'[c] = client[c]
    BY <1>1
<1>4. client' \in [Clients -> ClientType] /\ \A c \in Clients : ClientOK(client'[c])
    BY <1>1, <1>2, <1>3 DEF IInv
<1>5. \A k \in Conns : Held(k)' => Held(k)
    BY <1>2, <1>3 DEF Held
<1> QED BY <1>4, <1>5, ConnsAssumption DEF IInv, PoolOK, Connecting, PoolFails

-----------------------------------------------------------------------------
(* RemoteClient::new.                                                       *)

LEMMA OpenOK == ASSUME IInv, NEW c \in Clients, Open(c) PROVE IInv'
<1> DEFINE r == [client[c] EXCEPT !.state = "connecting"]
<1>1. ClientOK(client[c]) /\ client[c] \in ClientType /\ client[c].state = "absent"
    BY DEF IInv, Open
<1>2. r \in ClientType /\ r.conn = client[c].conn
    BY <1>1 DEF ClientType, States
<1>3. ClientOK([r EXCEPT !.step = "joining"])
    BY <1>1, <1>2 DEF ClientOK, ClientType, NewSteps, Steps
<1>4. ASSUME NEW k \in Conns PROVE ClientOK([r EXCEPT !.step = "given", !.conn = k])
    BY <1>1, <1>2, ConnsAssumption, ZenonT(40) DEF ClientOK, ClientType, NewSteps, Steps
<1>5. c \notin pool.waiting
    BY <1>1 DEF IInv, PoolOK, ClientOK
<1> QED BY <1>2, <1>3, <1>4, <1>5, ConnectOK DEF Open

LEMMA RefuseOK == ASSUME IInv, NEW c \in Clients, Refuse(c) PROVE IInv'
<1> DEFINE r == Taskless("refused", client[c].failures)
<1>1. ClientOK(r) /\ r \in ClientType /\ r.conn = NoConn
    BY TasklessOK DEF IInv, ClientOK, Taskless
<1>2. client' = [client EXCEPT ![c] = r]
    BY DEF Refuse, Become
<1>3. client' \in [Clients -> ClientType] /\ \A d \in Clients : client'[d] = IF d = c THEN r ELSE client[d]
    BY <1>1, <1>2 DEF IInv
<1>4. \A d \in Clients : ClientOK(client'[d])
    BY <1>1, <1>3 DEF IInv
<1>5. conns' = [k \in Conns |-> IF Held(k)' THEN conns[k] ELSE NewConn]
    BY DEF Refuse, Become, DropUnheld, Held
<1>6. conns' \in [Conns -> [killed : BOOLEAN, silent : BOOLEAN]]
    BY <1>5 DEF IInv, PoolOK, NewConn
<1>7. \A k \in Conns : Held(k)' => Held(k) /\ conns'[k] = conns[k]
    BY <1>1, <1>3, <1>5, ConnsAssumption DEF Held
<1>8. /\ pool' \in [waiting : SUBSET Clients, conn : Conns \cup {NoConn}]
      /\ pool'.waiting = pool.waiting \ {c} /\ pool'.conn = pool.conn
    BY DEF Refuse, IInv, PoolOK
<1>9. \A d \in pool'.waiting : client'[d].step = "joining"
    BY <1>3, <1>8 DEF IInv, PoolOK
<1>10. \A k \in Conns : (Held(k)' /\ ~conns'[k].killed) => k = pool'.conn /\ pool'.waiting = {}
    BY <1>7, <1>8 DEF IInv, PoolOK, Connecting
<1> QED BY <1>3, <1>4, <1>6, <1>8, <1>9, <1>10 DEF IInv, PoolOK, Connecting

LEMMA StartProxyOK == ASSUME IInv, NEW c \in Clients, StartProxy(c) PROVE IInv'
<1> DEFINE r == [client[c] EXCEPT !.proxy = "up"]
           first == [r EXCEPT !.step = "starting"]
           again == [r EXCEPT !.step = "resyncing", !.monitored = TRUE]
<1>1. ClientOK(client[c]) /\ client[c] \in ClientType /\ client[c].step = "given"
    BY DEF IInv, StartProxy
<1>2. c \notin pool.waiting
    BY <1>1 DEF IInv, PoolOK
<1>3. CASE client[c].state = "connecting" /\ Become(c, first)
    <2>1. first \in ClientType /\ first.conn = client[c].conn
        BY <1>1 DEF ClientType, Steps
    <2>2. ClientOK(first)
        BY <1>1, <1>3, <2>1 DEF ClientOK, ClientType, NewSteps
    <2> QED BY <1>2, <1>3, <2>1, <2>2, BecomeOK DEF StartProxy
<1>4. CASE client[c].state # "connecting" /\ Become(c, again)
    <2>1. again \in ClientType /\ again.conn = client[c].conn
        BY <1>1 DEF ClientType, Steps
    <2>2. ClientOK(again)
        BY <1>1, <1>4, <2>1 DEF ClientOK, ClientType, AgainSteps
    <2> QED BY <1>2, <1>4, <2>1, <2>2, BecomeOK DEF StartProxy
<1> QED BY <1>3, <1>4 DEF StartProxy

LEMMA ServerStartedOK == ASSUME IInv, NEW c \in Clients, ServerStarted(c) PROVE IInv'
<1> DEFINE r == [client[c] EXCEPT !.step = "greeting", !.monitored = TRUE]
<1>1. ClientOK(client[c]) /\ client[c] \in ClientType
    BY DEF IInv
<1>2. r \in ClientType /\ r.conn = client[c].conn
    BY <1>1 DEF ServerStarted, ClientType, Heard, Steps
<1>3. ClientOK(r)
    BY <1>1, <1>2 DEF ServerStarted, ClientOK, ClientType, NewSteps, AgainSteps, Heard, Steps
<1>4. c \in pool.waiting => r.step = "joining"
    BY <1>1 DEF ServerStarted, IInv, PoolOK, ClientOK, ClientType, Heard, Steps
<1> QED BY <1>2, <1>3, <1>4, BecomeOK DEF ServerStarted

LEMMA AnswerOK == ASSUME IInv, NEW c \in Clients, Answer(c) PROVE IInv'
<1> DEFINE r == [client[c] EXCEPT !.step = "answered"]
<1>1. ClientOK(client[c]) /\ client[c] \in ClientType
    BY DEF IInv
<1>2. r \in ClientType /\ r.conn = client[c].conn
    BY <1>1 DEF Answer, ClientType, Heard, Steps
<1>3. ClientOK(r)
    BY <1>1, <1>2 DEF Answer, ClientOK, ClientType, NewSteps, AgainSteps, Heard, Steps
<1>4. c \in pool.waiting => r.step = "joining"
    BY <1>1 DEF Answer, IInv, PoolOK, ClientOK, ClientType, Heard, Steps
<1> QED BY <1>2, <1>3, <1>4, BecomeOK DEF Answer

\* A client with its proxy that becomes connected, at first or again.
LEMMA ConnectedOK ==
    ASSUME NEW r, ClientOK(r), r.step = "answered"
    PROVE  ClientOK(Connected(r)) /\ Connected(r).conn = r.conn
BY LimitsAssumption DEF ClientOK, ClientType, Connected, States, Steps

LEMMA SetConnectedOK == ASSUME IInv, NEW c \in Clients, SetConnected(c) PROVE IInv'
<1>1. ClientOK(client[c]) /\ client[c].step = "answered"
    BY DEF IInv, SetConnected
<1>2. c \notin pool.waiting
    BY <1>1 DEF IInv, PoolOK
<1> QED BY <1>1, <1>2, ConnectedOK, BecomeOK DEF SetConnected

-----------------------------------------------------------------------------
(* reconnect.                                                               *)

LEMMA KillConnOK == ASSUME IInv, NEW c \in Clients, KillConn(c) PROVE IInv'
<1> DEFINE r == [client[c] EXCEPT !.step = "killed"]
<1>1. ClientOK(client[c]) /\ client[c] \in ClientType /\ client[c].step = "killing"
    BY DEF IInv, KillConn
<1>2. r \in ClientType /\ r.conn = client[c].conn
    BY <1>1 DEF ClientType, Steps
<1>3. ClientOK(r)
    BY <1>1, <1>2 DEF ClientOK, ClientType, NewSteps, AgainSteps
<1>4. client' = [client EXCEPT ![c] = r]
    BY DEF KillConn
<1>5. client' \in [Clients -> ClientType] /\ \A d \in Clients : client'[d] = IF d = c THEN r ELSE client[d]
    BY <1>2, <1>4 DEF IInv
<1>6. \A d \in Clients : ClientOK(client'[d])
    BY <1>3, <1>5 DEF IInv
<1>7. conns' \in [Conns -> [killed : BOOLEAN, silent : BOOLEAN]]
    BY DEF KillConn, IInv, PoolOK
<1>8. \A k \in Conns : (Held(k)' => Held(k)) /\ (conns[k].killed => conns'[k].killed)
    BY <1>2, <1>5 DEF KillConn, Held, IInv, PoolOK
<1>9. c \notin pool.waiting
    BY <1>1 DEF IInv, PoolOK
<1>10. \A d \in pool.waiting : client'[d].step = "joining"
    BY <1>5, <1>9 DEF IInv, PoolOK
<1> QED BY <1>5, <1>6, <1>7, <1>8, <1>10 DEF KillConn, IInv, PoolOK, Connecting

LEMMA ConnectAgainOK == ASSUME IInv, NEW c \in Clients, ConnectAgain(c) PROVE IInv'
<1> DEFINE r == client[c]
<1>1. ClientOK(r) /\ r \in ClientType /\ r.step = "killed"
    BY DEF IInv, ConnectAgain
<1>2. ClientOK([r EXCEPT !.step = "joining"])
    BY <1>1 DEF ClientOK, ClientType, NewSteps, AgainSteps, Steps
<1>3. ASSUME NEW k \in Conns PROVE ClientOK([r EXCEPT !.step = "given", !.conn = k])
    BY <1>1, ConnsAssumption DEF ClientOK, ClientType, NewSteps, AgainSteps, Steps
<1>4. c \notin pool.waiting
    BY <1>1 DEF IInv, PoolOK
<1> QED BY <1>1, <1>2, <1>3, <1>4, ConnectOK DEF ConnectAgain

LEMMA AdoptOK == ASSUME IInv, NEW c \in Clients, Adopt(c) PROVE IInv'
<1> DEFINE r == client[c]
<1>1. ClientOK(r) /\ r.state # "connecting" /\ r.step \in {"answered", "failed"}
    BY DEF IInv, Adopt
<1>2. c \notin pool.waiting
    BY <1>1 DEF IInv, PoolOK
<1>3. CASE r.step = "answered" /\ Become(c, Connected(r))
    BY <1>1, <1>2, <1>3, ConnectedOK, BecomeOK DEF Adopt
<1>4. CASE Adopts(r) /\ r.step = "failed" /\ Become(c, Retries(r))
    BY <1>1, <1>2, <1>4, RetriesOK, BecomeOK DEF Adopt, Adopts
<1>5. CASE ~Adopts(r) /\ Become(c, Dropped(r))
    <2>1. r.state \in {"gone", "notRunning"}
        BY <1>1, <1>5 DEF ClientOK, ClientType, States, Adopts
    <2>2. ClientOK(Dropped(r)) /\ Dropped(r).conn = NoConn
        BY <1>1, <2>1, TasklessOK DEF Dropped, Taskless
    <2> QED BY <1>2, <1>5, <2>2, BecomeOK DEF Adopt
<1> QED BY <1>3, <1>4, <1>5 DEF Adopt

-----------------------------------------------------------------------------
(* monitor and heartbeat.                                                   *)

LEMMA ProxyExitsOK == ASSUME IInv, NEW c \in Clients, ProxyExits(c) PROVE IInv'
<1> DEFINE r == [client[c] EXCEPT !.proxy = "exited"]
<1>1. ClientOK(client[c]) /\ client[c] \in ClientType
    BY DEF IInv
<1>2. r \in ClientType /\ r.conn = client[c].conn
    BY <1>1 DEF ProxyExits, ClientType, Steps
<1>3. ClientOK(r)
    BY <1>1, <1>2 DEF ProxyExits, ClientOK, ClientType, NewSteps, AgainSteps, Steps
<1>4. c \in pool.waiting => r.step = "joining"
    BY <1>1 DEF ProxyExits, IInv, PoolOK, ClientOK, ClientType, Steps
<1> QED BY <1>2, <1>3, <1>4, BecomeOK DEF ProxyExits

LEMMA ProxyFindsNoServerOK == ASSUME IInv, NEW c \in Clients, ProxyFindsNoServer(c) PROVE IInv'
<1> DEFINE r == [client[c] EXCEPT !.proxy = "noServer"]
<1>1. ClientOK(client[c]) /\ client[c] \in ClientType
    BY DEF IInv
<1>2. r \in ClientType /\ r.conn = client[c].conn
    BY <1>1 DEF ProxyFindsNoServer, ClientType, Steps
<1>3. ClientOK(r)
    BY <1>1, <1>2 DEF ProxyFindsNoServer, ClientOK, ClientType, NewSteps, AgainSteps, Steps
<1>4. c \in pool.waiting => r.step = "joining"
    BY <1>1 DEF ProxyFindsNoServer, IInv, PoolOK, ClientOK, ClientType, Steps
<1> QED BY <1>2, <1>3, <1>4, BecomeOK DEF ProxyFindsNoServer

LEMMA BeatTickOK == ASSUME IInv, NEW c \in Clients, BeatTick(c) PROVE IInv'
<1> DEFINE r == [client[c] EXCEPT !.beat = "pinging"]
<1>1. ClientOK(client[c]) /\ client[c] \in ClientType
    BY DEF IInv
<1>2. r \in ClientType /\ r.conn = client[c].conn
    BY <1>1 DEF BeatTick, ClientType, Steps
<1>3. ClientOK(r)
    BY <1>1, <1>2 DEF BeatTick, ClientOK, ClientType, NewSteps, AgainSteps, Steps
<1>4. c \in pool.waiting => r.step = "joining"
    BY <1>1 DEF BeatTick, IInv, PoolOK, ClientOK, ClientType, Steps
<1> QED BY <1>2, <1>3, <1>4, BecomeOK DEF BeatTick

\* What the monitor and the heartbeat make of a client that may reconnect.
LEMMA ReconnectFirst ==
    ASSUME NEW r, r.state \in {"connected", "missed"}, r.failures = 0
    PROVE  Reconnect(r) = FirstAttempt(r)
<1>1. CanReconnect(r) /\ ~Limit(1)
    BY LimitsAssumption DEF CanReconnect, Limit
<1>2. (IF r.state = "failed" THEN r.attempts ELSE 0) + 1 = 1
    OBVIOUS
<1>3. Reconnect(r) = [Taskless("reconnecting", r.failures) EXCEPT
                        !.attempts = 1, !.step = "killing", !.conn = r.conn]
    BY <1>1, <1>2, Zenon DEF Reconnect
<1> QED BY <1>3 DEF Taskless, FirstAttempt

LEMMA MonitorOK == ASSUME IInv, NEW c \in Clients, Monitor(c) PROVE IInv'
<1> DEFINE r == [client[c] EXCEPT !.monitored = FALSE]
<1>1. ClientOK(client[c]) /\ client[c] \in ClientType /\ client[c].monitored
    BY DEF IInv, Monitor
<1>2. r \in ClientType /\ r.conn = client[c].conn /\ r.state = client[c].state
      /\ r.step = client[c].step /\ r.failures = client[c].failures
    BY <1>1 DEF ClientType
<1>3. client[c].step = "joining" => r.step = "joining"
    BY <1>2
<1>4. CASE client[c].proxy = "exited" /\ Become(c, Reconnect(r))
    <2>1. CASE CanReconnect(r)
        <3>1. r.state \in {"connected", "missed"}
            BY <1>2, <2>1 DEF CanReconnect, ClientType, States
        <3>2. Reconnect(r) = FirstAttempt(client[c])
            <4> HIDE DEF r
            <4>1. r.failures = 0
                BY <1>1, <1>2, <3>1 DEF ClientOK
            <4>2. Reconnect(r) = FirstAttempt(r)
                BY <3>1, <4>1, ReconnectFirst
            <4> QED BY <1>2, <4>2 DEF FirstAttempt
        <3>3. ClientOK(Reconnect(r)) /\ Reconnect(r).conn = client[c].conn
            BY <1>1, <1>2, <3>1, <3>2, FirstAttemptOK DEF FirstAttempt
        <3>4. c \notin pool.waiting
            BY <1>1, <1>2, <3>1 DEF IInv, PoolOK, ClientOK
        <3> QED BY <1>4, <3>3, <3>4, BecomeOK DEF Monitor
    <2>2. CASE ~CanReconnect(r)
        <3>1. Reconnect(r) = r
            BY <2>2 DEF Reconnect
        <3>2. ClientOK(r)
            BY <1>1, <1>2 DEF ClientOK, ClientType
        <3>3. c \in pool.waiting => r.step = "joining"
            BY <1>2 DEF IInv, PoolOK
        <3> QED BY <1>2, <1>4, <3>1, <3>2, <3>3, BecomeOK DEF Monitor
    <2> QED BY <2>1, <2>2
<1>5. CASE client[c].proxy = "noServer" /\ Become(c, [r EXCEPT !.state = "notRunning"])
    <2> DEFINE q == [r EXCEPT !.state = "notRunning"]
    <2>1. q \in ClientType /\ q.conn = client[c].conn /\ q.step = "resyncing"
        BY <1>1, <1>2, <1>5 DEF ClientOK, ClientType, States
    <2>2. ClientOK(q)
        BY <1>1, <1>2, <1>5, <2>1 DEF ClientOK, ClientType, NewSteps, AgainSteps
    <2>3. c \notin pool.waiting
        BY <1>1, <1>2, <2>1 DEF IInv, PoolOK, ClientOK
    <2> QED BY <1>5, <2>1, <2>2, <2>3, BecomeOK DEF Monitor
<1> QED BY <1>4, <1>5 DEF Monitor

LEMMA PingTimesOutOK == ASSUME IInv, NEW c \in Clients, PingTimesOut(c) PROVE IInv'
<1> DEFINE r == [Missed(client[c]) EXCEPT !.beat = "armed"]
<1>1. /\ ClientOK(client[c]) /\ client[c] \in ClientType
      /\ client[c].state \in {"connected", "missed"} /\ client[c].step = "none"
    BY DEF IInv, PingTimesOut, ClientOK
<1>2. /\ r.state = "missed" /\ r.misses = client[c].misses + 1 /\ r.conn = client[c].conn
      /\ r.step = client[c].step /\ r.beat = "armed" /\ r.proxy = client[c].proxy
      /\ r.failures = client[c].failures
    BY <1>1 DEF ClientType, Missed
<1>3. c \notin pool.waiting
    BY <1>1 DEF IInv, PoolOK
<1>4. CASE r.misses >= MaxMisses
    <2>1. Reconnect(r) = FirstAttempt(client[c])
        <3> HIDE DEF r
        <3>1. r.state = "missed" /\ r.failures = 0
            BY <1>1, <1>2 DEF ClientOK
        <3>2. Reconnect(r) = FirstAttempt(r)
            BY <3>1, ReconnectFirst
        <3> QED BY <1>2, <3>2 DEF FirstAttempt
    <2>2. ClientOK(Reconnect(r)) /\ Reconnect(r).conn = client[c].conn
        BY <1>1, <2>1, FirstAttemptOK DEF FirstAttempt
    <2> QED BY <1>3, <1>4, <2>2, BecomeOK DEF PingTimesOut
<1>5. CASE ~(r.misses >= MaxMisses)
    <2>1. r.misses \in 0 .. MaxMisses - 1
        BY <1>1, <1>2, <1>5, LimitsAssumption DEF ClientType
    <2>2. r \in ClientType
        BY <1>1, <1>2, <2>1 DEF ClientType, Missed, States
    <2>3. ClientOK(r)
        BY <1>1, <1>2, <2>2 DEF ClientOK
    <2> QED BY <1>2, <1>3, <1>5, <2>3, BecomeOK DEF PingTimesOut
<1> QED BY <1>4, <1>5

\* A client that is heard from again has missed nothing.
LEMMA RecoveredOK ==
    ASSUME NEW r, ClientOK(r), NEW b \in {"off", "armed", "unarmed"}, r.beat # "off"
    PROVE  /\ ClientOK([Recovered(r) EXCEPT !.beat = b])
           /\ [Recovered(r) EXCEPT !.beat = b].conn = r.conn
<1> DEFINE q == [Recovered(r) EXCEPT !.beat = b]
<1>1. r \in ClientType
    BY DEF ClientOK
<1>2. /\ q.state = IF r.state = "missed" THEN "connected" ELSE r.state
      /\ q.step = r.step /\ q.conn = r.conn /\ q.proxy = r.proxy /\ q.failures = r.failures
      /\ q.monitored = r.monitored /\ q.beat = b /\ q.attempts = r.attempts
    BY <1>1 DEF ClientType, Recovered
<1>3. q \in ClientType
    <2>1. [r EXCEPT !.misses = 0] \in ClientType
        BY <1>1, LimitsAssumption DEF ClientType
    <2>2. Recovered(r) \in ClientType
        BY <1>1, <2>1, LimitsAssumption DEF ClientType, Recovered, States
    <2> QED BY <2>2 DEF ClientType
<1> QED BY <1>1, <1>2, <1>3 DEF ClientOK

LEMMA HearOK == ASSUME IInv, NEW c \in Clients, Hear(c) PROVE IInv'
<1> DEFINE r == client[c]
           b == IF r.beat = "pinging" /\ r.misses = 0 THEN "unarmed" ELSE "armed"
           q == [Recovered(r) EXCEPT !.beat = b]
<1>1. ClientOK(r) /\ r.beat # "off" /\ r.step = "none"
    BY DEF IInv, Hear, ClientOK
<1>2. b \in {"off", "armed", "unarmed"}
    OBVIOUS
<1>3. Become(c, q) /\ UNCHANGED pool
    BY DEF Hear
<1>4. c \notin pool.waiting
    BY <1>1 DEF IInv, PoolOK
<1> HIDE DEF r, b
<1>5. ClientOK(q) /\ q.conn = r.conn
    BY <1>1, <1>2, RecoveredOK
<1> HIDE DEF q
<1> QED BY <1>3, <1>4, <1>5, BecomeOK DEF r

LEMMA BeatStopsOK == ASSUME IInv, NEW c \in Clients, BeatStops(c) PROVE IInv'
<1> DEFINE r == client[c]
           q == [Recovered(r) EXCEPT !.beat = "off"]
           t == [r EXCEPT !.beat = "off"]
<1>1. ClientOK(r) /\ r \in ClientType /\ r.beat # "off" /\ r.step = "none"
    BY DEF IInv, BeatStops, ClientOK
<1>2. c \notin pool.waiting
    BY <1>1 DEF IInv, PoolOK
<1>3. CASE Become(c, q)
    <2>1. ClientOK(q) /\ q.conn = r.conn
        BY <1>1, RecoveredOK
    <2> HIDE DEF q
    <2> QED BY <1>2, <1>3, <2>1, BecomeOK DEF BeatStops
<1>4. CASE Become(c, t)
    <2>1. t \in ClientType /\ t.conn = r.conn
        BY <1>1 DEF ClientType
    <2>2. ClientOK(t)
        BY <1>1, <2>1 DEF ClientOK, ClientType
    <2> QED BY <1>2, <1>4, <2>1, <2>2, BecomeOK DEF BeatStops
<1>5. Become(c, q) \/ Become(c, t)
    BY DEF BeatStops
<1> QED BY <1>3, <1>4, <1>5

LEMMA AttemptFailsOK == ASSUME IInv, NEW c \in Clients, AttemptFails(c) PROVE IInv'
<1> DEFINE q == [client[c] EXCEPT !.step = "failed", !.proxy = "none", !.monitored = FALSE,
                                  !.failures = @ + 1]
<1>1. /\ ClientOK(client[c]) /\ client[c] \in ClientType
      /\ client[c].step \in {"killed", "resyncing", "denied"} /\ client[c].state # "connecting"
    BY DEF IInv, AttemptFails, ClientOK, NewSteps
<1>2. /\ q.step = "failed" /\ q.proxy = "none" /\ q.monitored = FALSE /\ q.conn = client[c].conn
      /\ q.failures = client[c].failures + 1 /\ q.state = client[c].state
      /\ q.attempts = client[c].attempts /\ q.beat = client[c].beat
    BY <1>1 DEF ClientType
<1>3. client[c].failures + 1 = client[c].attempts /\ client[c].attempts \in 0 .. MaxAttempts
    BY <1>1, LimitsAssumption DEF ClientOK, ClientType
<1>4. q \in ClientType
    BY <1>1, <1>3 DEF ClientType, Steps
<1>5. ClientOK(q)
    BY <1>1, <1>2, <1>3, <1>4 DEF ClientOK, ClientType, AgainSteps
<1>6. c \notin pool.waiting
    BY <1>1 DEF IInv, PoolOK
<1>7. Become(c, q) /\ UNCHANGED pool
    BY DEF AttemptFails
<1> HIDE DEF q
<1> QED BY <1>2, <1>5, <1>6, <1>7, BecomeOK

LEMMA ShutdownOK == ASSUME IInv, NEW c \in Clients, Shutdown(c) PROVE IInv'
<1> DEFINE r == [client[c] EXCEPT !.state = "gone"]
<1>1. /\ ClientOK(client[c]) /\ client[c] \in ClientType
      /\ client[c].state \in {"connected", "missed", "reconnecting"}
    BY DEF IInv, Shutdown
<1>2. r \in ClientType /\ r.conn = client[c].conn /\ r.step = client[c].step /\ r.failures = client[c].failures
    BY <1>1 DEF ClientType, States
<1>3. r.state = "gone"
    BY <1>1 DEF ClientType
<1>4. CASE client[c].state = "missed" /\ Become(c, Dropped(r))
    <2>1. ClientOK(Dropped(r)) /\ Dropped(r).conn = NoConn
        BY <1>1, <1>2, <1>3, TasklessOK DEF Dropped, Taskless
    <2>2. c \notin pool.waiting
        BY <1>1, <1>4 DEF IInv, PoolOK, ClientOK
    <2> QED BY <1>4, <2>1, <2>2, BecomeOK DEF Shutdown
<1>5. CASE client[c].state # "missed" /\ Become(c, r)
    <2>1. ClientOK(r)
        BY <1>1, <1>2, <1>3, <1>5 DEF ClientOK, ClientType
    <2>2. c \in pool.waiting => r.step = "joining"
        BY <1>2 DEF IInv, PoolOK
    <2> QED BY <1>2, <1>5, <2>1, <2>2, BecomeOK DEF Shutdown
<1> QED BY <1>4, <1>5 DEF Shutdown

LEMMA ShutdownDoneOK == ASSUME IInv, NEW c \in Clients, ShutdownDone(c) PROVE IInv'
<1>1. ClientOK(client[c]) /\ client[c].state = "gone" /\ client[c].step = "none"
    BY DEF IInv, ShutdownDone
<1>2. ClientOK(Dropped(client[c])) /\ Dropped(client[c]).conn = NoConn
    BY <1>1, TasklessOK DEF Dropped, Taskless
<1>3. c \notin pool.waiting
    BY <1>1 DEF IInv, PoolOK
<1> QED BY <1>2, <1>3, BecomeOK DEF ShutdownDone

LEMMA GoSilentOK == ASSUME IInv, NEW k \in Conns, GoSilent(k) PROVE IInv'
<1>1. conns' \in [Conns -> [killed : BOOLEAN, silent : BOOLEAN]]
    BY DEF GoSilent, IInv, PoolOK
<1>2. \A j \in Conns : conns'[j].killed = conns[j].killed
    BY DEF GoSilent, IInv, PoolOK
<1>3. \A j \in Conns : Held(j)' = Held(j)
    BY DEF GoSilent, Held
<1> QED BY <1>1, <1>2, <1>3 DEF GoSilent, IInv, PoolOK, Connecting

-----------------------------------------------------------------------------
(* The invariant, and what follows from it.                                 *)

LEMMA StutterIInv == IInv /\ UNCHANGED vars => IInv'
BY DEF IInv, PoolOK, Held, Connecting, vars

LEMMA NextIInv == IInv /\ [Next]_vars => IInv'
<1> SUFFICES ASSUME IInv, [Next]_vars PROVE IInv'
    OBVIOUS
<1>1. ASSUME NEW c \in Clients, Open(c) \/ Refuse(c) \/ Shutdown(c) PROVE IInv'
    BY <1>1, OpenOK, RefuseOK, ShutdownOK
<1>2. ASSUME NEW c \in Clients, TaskNext(c) PROVE IInv'
    BY <1>2, StartProxyOK, SetConnectedOK, KillConnOK, ConnectAgainOK, AdoptOK, MonitorOK,
       BeatStopsOK, ShutdownDoneOK DEF TaskNext
<1>3. ASSUME NEW c \in Clients, ServerNext(c) \/ AttemptFails(c) PROVE IInv'
    BY <1>3, ServerStartedOK, AnswerOK, HearOK, AttemptFailsOK DEF ServerNext
<1>4. ASSUME NEW c \in Clients,
             ProxyExits(c) \/ ProxyFindsNoServer(c) \/ BeatTick(c) \/ PingTimesOut(c)
      PROVE  IInv'
    BY <1>4, ProxyExitsOK, ProxyFindsNoServerOK, BeatTickOK, PingTimesOutOK
<1>5. ASSUME PoolConnects \/ PoolFails PROVE IInv'
    BY <1>5, PoolConnectsOK, PoolFailsOK
<1>6. ASSUME NEW k \in Conns, GoSilent(k) PROVE IInv'
    BY <1>6, GoSilentOK
<1>7. CASE UNCHANGED vars
    BY <1>7, StutterIInv
<1> QED BY <1>1, <1>2, <1>3, <1>4, <1>5, <1>6, <1>7 DEF Next

THEOREM Invariant == Spec => []IInv
<1> QED BY InitIInv, NextIInv, PTL DEF Spec

\* Attempts and missed heartbeats stay within the limits, and no task of a
\* reconnect runs beside an established client, for any limits.
THEOREM TypeCorrect == Spec => []TypeOK
<1>1. IInv => TypeOK
    BY DEF IInv, ClientOK, PoolOK, TypeOK, Established
<1> QED BY <1>1, Invariant, PTL

\* However many windows share the host, they never hold two connections that
\* have not been killed, nor one beside an attempt to connect.
THEOREM SharesOneConnection == Spec => []OneConnection
<1>1. IInv => OneConnection
    BY DEF IInv, PoolOK, OneConnection, Held, Connecting
<1> QED BY <1>1, Invariant, PTL

\* reconnect gives up when all attempts failed in a row, and not before.
THEOREM GivesUpAfterAll == Spec => []GivesUpLate
<1>1. IInv => GivesUpLate
    BY DEF IInv, ClientOK, GivesUpLate
<1> QED BY <1>1, Invariant, PTL

\* A step of another client, or of a task that has nothing to say of the state.
LEMMA BecomeState ==
    ASSUME NEW c \in Clients, NEW d \in Clients, NEW r, client \in [Clients -> ClientType],
           Become(d, r), d = c => r.state = client[c].state
    PROVE  client'[c].state = client[c].state
BY DEF Become

LEMMA StaysOut ==
    ASSUME IInv, [Next]_vars, NEW c \in Clients, client[c].state \in {"exhausted", "notRunning"}
    PROVE  client'[c].state = client[c].state
<1>1. /\ client \in [Clients -> ClientType] /\ ClientOK(client[c]) /\ client[c] \in ClientType
      /\ client[c].beat = "off"
      /\ client[c].state = "exhausted" => ~client[c].monitored /\ client[c].step = "none"
    BY DEF IInv, ClientOK
<1>2. ASSUME NEW d \in Clients, Open(d) PROVE client'[c].state = client[c].state
    <2>1. d # c
        BY <1>2 DEF Open
    <2> QED BY <1>1, <1>2, <2>1, BecomeState DEF Open, Connect
<1>3. ASSUME NEW d \in Clients, Refuse(d) \/ Shutdown(d) \/ SetConnected(d) \/ ShutdownDone(d)
      PROVE  client'[c].state = client[c].state
    <2>1. d # c
        BY <1>3 DEF Refuse, Shutdown, SetConnected, ShutdownDone
    <2> QED BY <1>1, <1>3, <2>1, BecomeState DEF Refuse, Shutdown, SetConnected, ShutdownDone
<1>4. ASSUME NEW d \in Clients, BeatTick(d) \/ Hear(d) \/ PingTimesOut(d) \/ BeatStops(d)
      PROVE  client'[c].state = client[c].state
    <2>1. d # c
        BY <1>1, <1>4 DEF BeatTick, Hear, PingTimesOut, BeatStops
    <2> QED BY <1>1, <1>4, <2>1, BecomeState DEF BeatTick, Hear, PingTimesOut, BeatStops
<1>5. ASSUME NEW d \in Clients,
             StartProxy(d) \/ ServerStarted(d) \/ Answer(d) \/ AttemptFails(d)
             \/ ProxyExits(d) \/ ProxyFindsNoServer(d)
      PROVE  client'[c].state = client[c].state
    <2>1. CASE StartProxy(d)
        BY <1>1, <2>1, BecomeState DEF StartProxy, ClientType
    <2>2. CASE ServerStarted(d)
        BY <1>1, <2>2, BecomeState DEF ServerStarted, ClientType
    <2>3. CASE Answer(d)
        BY <1>1, <2>3, BecomeState DEF Answer, ClientType
    <2>4. CASE AttemptFails(d)
        BY <1>1, <2>4, BecomeState DEF AttemptFails, ClientType
    <2>5. CASE ProxyExits(d)
        BY <1>1, <2>5, BecomeState DEF ProxyExits, ClientType
    <2>6. CASE ProxyFindsNoServer(d)
        BY <1>1, <2>6, BecomeState DEF ProxyFindsNoServer, ClientType
    <2> QED BY <1>5, <2>1, <2>2, <2>3, <2>4, <2>5, <2>6
<1>6. ASSUME NEW d \in Clients, KillConn(d) PROVE client'[c].state = client[c].state
    BY <1>1, <1>6 DEF KillConn, ClientType
<1>7. ASSUME NEW d \in Clients, ConnectAgain(d) PROVE client'[c].state = client[c].state
    <2>1. CASE Become(d, [client[d] EXCEPT !.step = "joining"])
        BY <1>1, <2>1, BecomeState DEF ClientType
    <2>2. CASE Become(d, [client[d] EXCEPT !.step = "given", !.conn = pool.conn])
        BY <1>1, <2>2, BecomeState DEF ClientType
    <2> QED BY <1>7, <2>1, <2>2 DEF ConnectAgain, Connect
<1>8. ASSUME NEW d \in Clients, Adopt(d) PROVE client'[c].state = client[c].state
    <2>1. d = c => Become(c, Dropped(client[c]))
        BY <1>8 DEF Adopt, Adopts
    <2>2. CASE d = c
        BY <1>1, <2>1, <2>2, BecomeState DEF Dropped, Taskless
    <2>3. CASE d # c
        BY <1>1, <1>8, <2>3, BecomeState DEF Adopt
    <2> QED BY <2>2, <2>3
<1>9. ASSUME NEW d \in Clients, Monitor(d) PROVE client'[c].state = client[c].state
    <2> DEFINE r == [client[c] EXCEPT !.monitored = FALSE]
    <2>1. CASE d = c
        <3>1. client[c].state = "notRunning"
            BY <1>1, <1>9, <2>1 DEF Monitor
        <3>2. r.state = "notRunning" /\ r \in ClientType
            BY <1>1, <3>1 DEF ClientType
        <3>3. Reconnect(r) = r
            BY <3>2 DEF Reconnect, CanReconnect
        <3>4. Become(c, r) \/ Become(c, [r EXCEPT !.state = "notRunning"])
            BY <1>9, <2>1, <3>3 DEF Monitor
        <3>5. [r EXCEPT !.state = "notRunning"].state = "notRunning"
            BY <3>2 DEF ClientType
        <3> HIDE DEF r
        <3> QED BY <1>1, <3>1, <3>2, <3>4, <3>5, BecomeState
    <2>2. CASE d # c
        BY <1>1, <1>9, <2>2, BecomeState DEF Monitor
    <2> QED BY <2>1, <2>2
<1>10. ASSUME PoolConnects \/ PoolFails PROVE client'[c].state = client[c].state
    <2>1. CASE PoolConnects
        <3>1. PICK k \in Conns : client' = [d \in Clients |->
                  IF d \in pool.waiting
                  THEN [client[d] EXCEPT !.conn = k, !.step = "given"] ELSE client[d]]
            BY <2>1 DEF PoolConnects
        <3>2. \/ client'[c] = client[c]
              \/ client'[c] = [client[c] EXCEPT !.conn = k, !.step = "given"]
            BY <3>1
        <3> QED BY <1>1, <3>2 DEF ClientType
    <2>2. CASE PoolFails
        BY <1>1, <2>2 DEF PoolFails, ClientType
    <2> QED BY <1>10, <2>1, <2>2
<1>11. ASSUME NEW k \in Conns, GoSilent(k) PROVE client'[c].state = client[c].state
    BY <1>11 DEF GoSilent
<1>12. CASE UNCHANGED vars
    BY <1>12 DEF vars
<1> QED BY <1>2, <1>3, <1>4, <1>5, <1>6, <1>7, <1>8, <1>9, <1>10, <1>11, <1>12
        DEF Next, TaskNext, ServerNext

\* Once its window was told that the host is gone, nothing brings a client back:
\* not a reconnect that succeeds late, a heartbeat or the end of its proxy.
THEOREM NeverComesBack == Spec => NoComeback
<1>1. IInv /\ [Next]_vars => [\A c \in Clients :
          client[c].state \in {"exhausted", "notRunning"} => client'[c].state = client[c].state]_vars
    BY StaysOut
<1> QED BY <1>1, Invariant, PTL DEF Spec, NoComeback
=============================================================================
