------------------------ MODULE ClaudeContract_proofs ------------------------
(***************************************************************************)
(* A Claude run keeps the contract of a harness: a proof about ClaudeRun   *)
(* for any number of steers, requests, capacities and faults.  On the way  *)
(* the locals of the loop are typed, the order in which turn ends are held *)
(* back and reported is settled, and so is the last word of a run.         *)
(***************************************************************************)
EXTENDS ClaudeRun, SequenceTheorems, TLAPS

Steer == 0 .. MaxSteers

Ev == [kind : Kinds, steer : Steer]

\* A line of stdout, and one of stdin.
Frame == [kind : {"work", "replay"} \cup Ends, steer : Steer] \cup [kind : {"ask"}, steer : Requests]

Input ==
    [kind : {"steer"}, what : Steer, allow : BOOLEAN]
        \cup [kind : {"close", "interrupt"}, what : {0}, allow : BOOLEAN]
        \cup [kind : {"response"}, what : Requests, allow : BOOLEAN]

Run ==
    [phase : {"loop", "exit", "shutdown", "ended"}, pending : Seq(Steer), held : Seq(Ev),
     steeringOpen : BOOLEAN, interrupted : BOOLEAN, anyDone : BOOLEAN, ended : BOOLEAN, skip : BOOLEAN]

Cli ==
    [alive : BOOLEAN, turn : BOOLEAN, reading : BOOLEAN, queue : Seq(Steer), replayed : Steer,
     waits : Requests \cup {NoRequest}, used : SUBSET Requests]

Chat ==
    [gone : BOOLEAN, working : BOOLEAN, pushed : Steer, steered : Nat,
     last : Kinds \cup {"none"}, stops : Nat, allowed : SUBSET Requests]

Asks == [Requests -> {"unasked", "asked", "open", "answered"} \cup Settled]

Types ==
    /\ run \in Run /\ sending \in Seq(Ev) /\ out \in Seq(Ev)
    /\ steering \in Seq(Steer) /\ cancelled \in BOOLEAN
    /\ stdin \in Seq(Input) /\ stdout \in Seq(Frame)
    /\ asks \in Asks /\ cli \in Cli /\ chat \in Chat

-----------------------------------------------------------------------------
(* Sequences.                                                               *)

LEMMA SteerZero == 0 \in Steer
BY BoundsAssumption DEF Steer

LEMMA EventTyped == ASSUME NEW k \in Kinds, NEW n \in Steer PROVE Event(k, n) \in Ev
BY DEF Event, Ev

LEMMA NoneYet == <<>> \in Seq(Ev) /\ <<>> \in Seq(Steer) /\ <<>> \in Seq(Input) /\ <<>> \in Seq(Frame)
BY EmptySeq

LEMMA HeadTail ==
    ASSUME NEW S, NEW s \in Seq(S), s # <<>>
    PROVE  /\ Head(s) \in S /\ Tail(s) \in Seq(S) /\ Len(s) \in Nat \ {0} /\ Len(Tail(s)) = Len(s) - 1
           /\ Head(s) = s[1]
           /\ \A i \in 1 .. Len(s) - 1 : Tail(s)[i] = s[i + 1]
BY HeadTailProperties, EmptySeq

\* A prefix, and what is left of a sequence after one.
LEMMA Split ==
    ASSUME NEW S, NEW s \in Seq(S), NEW k \in 0 .. Len(s)
    PROVE  /\ SubSeq(s, 1, k) \in Seq(S) /\ SubSeq(s, k + 1, Len(s)) \in Seq(S)
           /\ SubSeq(s, 1, k) \o SubSeq(s, k + 1, Len(s)) = s
<1>1. Len(s) \in Nat /\ k \in Nat /\ 1 \in Nat
    OBVIOUS
<1>2. SubSeq(s, 1, k) \in Seq(S) /\ SubSeq(s, k + 1, Len(s)) \in Seq(S)
    BY <1>1, SubSeqProperties
<1>3. SubSeq(s, 1, Len(s)) = s
    BY SubSeqFull
<1>4. SubSeq(s, 1, k) \o SubSeq(s, k + 1, Len(s)) = SubSeq(s, 1, Len(s))
    <2>1. 1 \in 1 .. Len(s) + 1 /\ k \in 1 - 1 .. Len(s) /\ Len(s) \in k .. Len(s)
        BY <1>1
    <2> QED BY <2>1, ConcatAdjacentSubSeq
<1> QED BY <1>2, <1>3, <1>4

LEMMA PositionOf ==
    ASSUME NEW p \in Seq(Steer), NEW n
    PROVE  Position(p, n) \in 0 .. Len(p)
<1>1. CASE n \in ToSet(p)
    BY <1>1 DEF Position, ToSet
<1>2. CASE n \notin ToSet(p)
    BY <1>2 DEF Position
<1> QED BY <1>1, <1>2

LEMMA SteeredEvents ==
    ASSUME NEW s \in Seq(Steer)
    PROVE  /\ Steered(s) \in Seq(Ev) /\ Len(Steered(s)) = Len(s)
           /\ \A i \in 1 .. Len(s) : Steered(s)[i].kind = "steered" /\ Steered(s)[i].steer = s[i]
<1>1. \A i \in 1 .. Len(s) : Event("steered", s[i]) \in Ev
    BY EventTyped, SMTT(30) DEF Kinds
<1>2. Steered(s) = [i \in 1 .. Len(s) |-> Event("steered", s[i])]
    BY DEF Steered
<1>3. Steered(s) \in Seq(Ev)
    BY <1>1, <1>2, IsASeq
<1>4. Len(Steered(s)) = Len(s)
    BY <1>2, <1>3
<1> QED BY <1>2, <1>3, <1>4 DEF Event

\* What is left to say when the loop ends: a held turn end and one more at most.
LEMMA ExitEventsTyped ==
    ASSUME NEW r \in Run
    PROVE  ExitEvents(r) \in Seq(Ev)
<1>1. Event("interrupted", 0) \in Ev /\ Event("errored", 0) \in Ev
    BY EventTyped, SteerZero DEF Kinds, Dones, Ends
<1>2. r.held \in Seq(Ev)
    BY DEF Run
<1>3. <<Event("interrupted", 0)>> \in Seq(Ev) /\ <<Event("errored", 0)>> \in Seq(Ev) /\ <<>> \in Seq(Ev)
    BY <1>1
<1> QED BY <1>2, <1>3 DEF ExitEvents

-----------------------------------------------------------------------------
(* Every step keeps the types.                                              *)

LEMMA InitTypes == Init => Types
<1> SUFFICES ASSUME Init PROVE Types
    OBVIOUS
<1>1. run \in Run
    BY ModesAssumption, NoneYet DEF Init, Run
<1>2. asks \in Asks
    BY DEF Init, Asks
<1>3. cli \in Cli /\ chat \in Chat
    BY SteerZero, NoneYet DEF Init, Cli, Chat
<1> QED BY <1>1, <1>2, <1>3, NoneYet DEF Init, Types

\* What the CLI wrote arrives as an event.
LEMMA FrameEvent ==
    ASSUME Types, stdout # <<>>
    PROVE  /\ Tail(stdout) \in Seq(Frame) /\ Head(stdout) \in Frame
           /\ Head(stdout).kind \in {"work"} \cup Ends =>
                 Head(stdout).steer \in Steer /\ Event(Head(stdout).kind, Head(stdout).steer) = Head(stdout)
           /\ Head(stdout).kind = "ask" => Head(stdout).steer \in Requests
<1>1. Tail(stdout) \in Seq(Frame) /\ Head(stdout) \in Frame
    BY HeadTail DEF Types
<1> QED BY <1>1 DEF Frame, Ends, Event

\* A line is written for the CLI, or dropped.
LEMMA WriteTypes ==
    ASSUME Types, NEW l \in Input, Write(l)
    PROVE  stdin' \in Seq(Input)
BY DEF Types, Write

\* The loop is left, a steer becomes pending, an event is noted.
LEMMA RunSteps ==
    ASSUME NEW r \in Run, NEW n \in Steer, NEW phase \in {"exit", "shutdown", "ended"},
           NEW a \in BOOLEAN, NEW b \in BOOLEAN
    PROVE  /\ [r EXCEPT !.phase = phase] \in Run
           /\ [r EXCEPT !.phase = phase, !.held = <<>>] \in Run
           /\ [r EXCEPT !.phase = phase, !.pending = <<>>] \in Run
           /\ [r EXCEPT !.pending = Append(r.pending, n)] \in Run
           /\ [r EXCEPT !.anyDone = a, !.ended = b] \in Run
<1>1. r.pending \in Seq(Steer)
    BY DEF Run
<1>2. Append(r.pending, n) \in Seq(Steer)
    BY <1>1, AppendProperties
<1> QED BY <1>2, NoneYet DEF Run

LEMMA LeaveLoopTypes ==
    ASSUME Types, NEW first \in Seq(Ev), LeaveLoop(first)
    PROVE  run' \in Run /\ sending' \in Seq(Ev)
<1>1. run \in Run /\ ExitEvents(run) \in Seq(Ev)
    BY ExitEventsTyped DEF Types
<1>2. run' \in Run
    BY <1>1, NoneYet DEF LeaveLoop, Run
<1> QED BY <1>1, <1>2 DEF LeaveLoop

LEMMA ReadOutputTypes == ASSUME Types, ReadOutput PROVE Types'
<1>1. Head(stdout) \in Ev /\ Tail(stdout) \in Seq(Frame)
    BY FrameEvent, EventTyped DEF ReadOutput, Kinds
<1> QED BY <1>1 DEF ReadOutput, Types

LEMMA ReadReplayTypes == ASSUME Types, ReadReplay PROVE Types'
<1> DEFINE n == Head(stdout).steer
<1>1. run \in Run /\ run.pending \in Seq(Steer)
    BY DEF Types, Run
<1>2. /\ SubSeq(run.pending, 1, Position(run.pending, n)) \in Seq(Steer)
      /\ SubSeq(run.pending, Position(run.pending, n) + 1, Len(run.pending)) \in Seq(Steer)
    BY <1>1, PositionOf, Split
<1>3. sending' \in Seq(Ev)
    BY <1>2, SteeredEvents DEF ReadReplay, Confirmed
<1>4. run' \in Run
    BY <1>1, <1>2 DEF ReadReplay, Run
<1>5. stdout' \in Seq(Frame)
    BY FrameEvent DEF ReadReplay
<1> QED BY <1>3, <1>4, <1>5 DEF ReadReplay, Types

LEMMA ReadResultTypes == ASSUME Types, ReadResult PROVE Types'
<1> DEFINE line == Head(stdout)
           done == Event(IF run.interrupted THEN "interrupted" ELSE line.kind, line.steer)
<1>1. line.steer \in Steer /\ line.kind \in Ends /\ Tail(stdout) \in Seq(Frame)
    BY FrameEvent DEF ReadResult
<1>2. done \in Ev
    BY <1>1, EventTyped DEF Kinds, Dones
<1>3. <<done>> \in Seq(Ev) /\ <<>> \in Seq(Ev)
    BY <1>2
<1>4. run' \in Run
    BY <1>3 DEF ReadResult, Hold, Types, Run
<1>5. sending' \in Seq(Ev)
    BY <1>3 DEF ReadResult, Types
<1> QED BY <1>1, <1>4, <1>5 DEF ReadResult, Types

LEMMA HoldExpiresTypes == ASSUME Types, HoldExpires PROVE Types'
<1>1. run \in Run /\ run.pending \in Seq(Steer) /\ run.held \in Seq(Ev)
    BY DEF Types, Run
<1>2. sending' \in Seq(Ev)
    BY <1>1, SteeredEvents DEF HoldExpires, Expired
<1>3. run' \in Run
    BY <1>1, NoneYet DEF HoldExpires, Run
<1> QED BY <1>2, <1>3 DEF HoldExpires, Types

LEMMA ReadEndTypes == ASSUME Types, ReadEnd PROVE Types'
<1>1. run' \in Run /\ sending' \in Seq(Ev)
    BY LeaveLoopTypes, NoneYet DEF ReadEnd
<1> QED BY <1>1 DEF ReadEnd, Types

LEMMA ReadErrorTypes == ASSUME Types, ReadError PROVE Types'
<1>1. <<Event("error", 0)>> \in Seq(Ev)
    BY EventTyped, SteerZero DEF Kinds
<1>2. run' \in Run /\ sending' \in Seq(Ev)
    BY <1>1, LeaveLoopTypes DEF ReadError
<1> QED BY <1>2 DEF ReadError, Types

LEMMA AcceptSteerTypes == ASSUME Types, AcceptSteer PROVE Types'
<1> DEFINE n == Head(steering)
           r == [run EXCEPT !.pending = Append(@, n)]
<1>1. n \in Steer /\ Tail(steering) \in Seq(Steer)
    BY HeadTail DEF AcceptSteer, Types
<1>2. r \in Run
    BY <1>1, RunSteps DEF Types
<1>3. CASE run' = r /\ Write(StdinLine("steer", n, FALSE)) /\ UNCHANGED sending
    <2>1. StdinLine("steer", n, FALSE) \in Input
        BY <1>1 DEF StdinLine, Input
    <2>2. stdin' \in Seq(Input)
        BY <1>3, <2>1, WriteTypes
    <2> QED BY <1>1, <1>2, <1>3, <2>2 DEF AcceptSteer, Types
<1>4. CASE run' = [r EXCEPT !.phase = "exit", !.held = <<>>] /\ sending' = ExitEvents(r) /\ UNCHANGED stdin
    <2>1. ExitEvents(r) \in Seq(Ev)
        BY <1>2, ExitEventsTyped
    <2> HIDE DEF r
    <2>2. [r EXCEPT !.phase = "exit", !.held = <<>>] \in Run
        BY <1>2, <1>1, RunSteps
    <2> QED BY <1>1, <1>4, <2>1, <2>2 DEF AcceptSteer, Types
<1> QED BY <1>3, <1>4 DEF AcceptSteer

LEMMA CloseSteeringTypes == ASSUME Types, CloseSteering PROVE Types'
<1>1. StdinLine("close", 0, FALSE) \in Input
    BY DEF StdinLine, Input
<1>2. stdin' \in Seq(Input)
    BY <1>1, WriteTypes DEF CloseSteering
<1>3. run' \in Run
    BY DEF CloseSteering, Types, Run
<1> QED BY <1>2, <1>3 DEF CloseSteering, Types

LEMMA SeeInterruptTypes == ASSUME Types, SeeInterrupt PROVE Types'
<1>1. StdinLine("interrupt", 0, FALSE) \in Input
    BY DEF StdinLine, Input
<1>2. stdin' \in Seq(Input)
    BY <1>1, WriteTypes DEF SeeInterrupt
<1>3. run' \in Run
    BY DEF SeeInterrupt, Types, Run
<1> QED BY <1>2, <1>3 DEF SeeInterrupt, Types

LEMMA SendEventTypes == ASSUME Types, SendEvent PROVE Types'
<1> DEFINE ev == Head(sending)
           r == [run EXCEPT !.anyDone = @ \/ ev.kind \in Dones, !.ended = @ \/ ev.kind = "interrupted"]
<1>1. ev \in Ev /\ Tail(sending) \in Seq(Ev)
    BY HeadTail DEF SendEvent, Types
<1>2. run \in Run /\ run.anyDone \in BOOLEAN /\ run.ended \in BOOLEAN
    BY DEF Types, Run
<1>3. (run.anyDone \/ ev.kind \in Dones) \in BOOLEAN /\ (run.ended \/ ev.kind = "interrupted") \in BOOLEAN
    OBVIOUS
<1>4. r \in Run
    BY <1>2, <1>3, SteerZero, RunSteps
<1>5. \/ run' = r /\ sending' = Tail(sending)
      \/ run' = [r EXCEPT !.phase = "exit"] /\ sending' = Tail(sending) \o ExitEvents(r)
    BY DEF SendEvent
<1> HIDE DEF r
<1>6. [r EXCEPT !.phase = "exit"] \in Run /\ ExitEvents(r) \in Seq(Ev)
    BY <1>4, SteerZero, RunSteps, ExitEventsTyped
<1>7. Tail(sending) \o ExitEvents(r) \in Seq(Ev)
    BY <1>1, <1>6, ConcatProperties
<1>8. run' \in Run /\ sending' \in Seq(Ev)
    BY <1>1, <1>4, <1>5, <1>6, <1>7
<1>9. out' \in Seq(Ev)
    BY <1>1 DEF SendEvent, Types
<1> QED BY <1>8, <1>9 DEF SendEvent, Types

LEMMA LoopOverTypes ==
    ASSUME Types, ConsumerGone \/ AllReported \/ Shutdown
    PROVE  Types'
<1>1. run \in Run
    BY DEF Types
<1>2. /\ [run EXCEPT !.phase = "shutdown", !.held = <<>>] \in Run
      /\ [run EXCEPT !.phase = "shutdown"] \in Run
      /\ [run EXCEPT !.phase = "ended", !.pending = <<>>] \in Run
    BY <1>1, SteerZero, RunSteps
<1>5. run' \in Run
    BY <1>2 DEF ConsumerGone, AllReported, Shutdown
<1>6. sending' \in Seq(Ev) /\ steering' \in Seq(Steer)
    BY NoneYet DEF ConsumerGone, AllReported, Shutdown, Types
<1>3. stdin' \in Seq(Input) /\ stdout' \in Seq(Frame)
    BY NoneYet DEF ConsumerGone, AllReported, Shutdown, Types
<1>4. cli' \in Cli
    BY NoneYet DEF ConsumerGone, AllReported, Shutdown, Dead, Types, Cli
<1> QED BY <1>3, <1>4, <1>5, <1>6 DEF ConsumerGone, AllReported, Shutdown, Types

-----------------------------------------------------------------------------
LEMMA EscalateTypes == ASSUME Types, Escalate PROVE Types'
<1>1. cli' \in Cli
    BY NoneYet DEF Escalate, Dead, Types, Cli
<1> QED BY <1>1 DEF Escalate, Types

LEMMA ReadRequestTypes == ASSUME Types, ReadRequest PROVE Types'
<1> DEFINE r == Head(stdout).steer
<1>1. r \in Requests /\ stdout' \in Seq(Frame)
    BY FrameEvent DEF ReadRequest
<1>2. asks' \in Asks
    BY <1>1 DEF ReadRequest, Types, Asks, Settled
<1>3. StdinLine("response", r, TRUE) \in Input
    BY <1>1 DEF StdinLine, Input
<1>4. stdin' \in Seq(Input)
    BY <1>3, WriteTypes DEF ReadRequest, Types
<1> QED BY <1>1, <1>2, <1>4 DEF ReadRequest, Types

LEMMA RespondTypes == ASSUME Types, NEW r \in Requests, Respond(r) PROVE Types'
<1>1. Allows(r) \in BOOLEAN
    BY Zenon DEF Allows
<1>2. StdinLine("response", r, Allows(r)) \in Input
    BY <1>1 DEF StdinLine, Input
<1>3. stdin' \in Seq(Input)
    BY <1>2, WriteTypes DEF Respond
<1>4. asks' \in Asks
    BY DEF Respond, Types, Asks
<1> QED BY <1>3, <1>4 DEF Respond, Types

-----------------------------------------------------------------------------
LEMMA CliWrites ==
    ASSUME Types, NEW l \in Frame, Writes(l)
    PROVE  stdout' \in Seq(Frame)
BY AppendProperties DEF Types, Writes

LEMMA CliOutputTypes == ASSUME Types, CliOutput PROVE Types'
<1>1. Event("work", cli.replayed) \in Frame
    BY DEF Types, Cli, Event, Frame
<1>2. stdout' \in Seq(Frame)
    BY <1>1, CliWrites DEF CliOutput
<1>3. cli' \in Cli
    BY DEF CliOutput, Types, Cli
<1> QED BY <1>2, <1>3 DEF CliOutput, CliOnly, Types

LEMMA CliEndTurnTypes == ASSUME Types, NEW status \in Ends, CliEndTurn(status) PROVE Types'
<1>1. Event(status, cli.replayed) \in Frame
    BY DEF Types, Cli, Event, Frame
<1>2. stdout' \in Seq(Frame)
    BY <1>1, CliWrites DEF CliEndTurn
<1>3. cli' \in Cli
    BY DEF CliEndTurn, Types, Cli
<1> QED BY <1>2, <1>3 DEF CliEndTurn, CliOnly, Types

LEMMA CliTakeSteersTypes ==
    ASSUME Types, NEW k \in DOMAIN cli.queue, CliTakeSteers(k)
    PROVE  Types'
<1> DEFINE q == cli.queue
<1>1. cli \in Cli /\ q \in Seq(Steer)
    BY DEF Types, Cli
<1>2. k \in 1 .. Len(q) /\ q[k] \in Steer
    BY <1>1, LenProperties, ElementOfSeq
<1>3. SubSeq(q, k + 1, Len(q)) \in Seq(Steer)
    BY <1>1, <1>2, Split, LenProperties
<1>4. Event("replay", q[k]) \in Frame
    BY <1>2 DEF Event, Frame
<1>5. stdout' \in Seq(Frame)
    BY <1>4, CliWrites DEF CliTakeSteers
<1>6. cli' \in Cli
    BY <1>1, <1>2, <1>3 DEF CliTakeSteers, Cli
<1> QED BY <1>5, <1>6 DEF CliTakeSteers, CliOnly, Types

LEMMA CliAskTypes == ASSUME Types, NEW r \in Requests, CliAsk(r) PROVE Types'
<1>1. Event("ask", r) \in Frame
    BY DEF Event, Frame
<1>2. stdout' \in Seq(Frame)
    BY <1>1, CliWrites DEF CliAsk
<1>3. cli' \in Cli
    BY DEF CliAsk, Types, Cli
<1> QED BY <1>2, <1>3 DEF CliAsk, CliOnly, Types

LEMMA CliOtherTypes == ASSUME Types, CliAbsorb \/ CliExit PROVE Types'
<1>1. cli \in Cli /\ cli.queue \in Seq(Steer)
    BY DEF Types, Cli
<1>2. CliAbsorb => Tail(cli.queue) \in Seq(Steer)
    BY <1>1, HeadTail DEF CliAbsorb
<1>3. cli' \in Cli
    BY <1>1, <1>2, NoneYet DEF CliAbsorb, CliExit, Dead, Cli
<1> QED BY <1>3 DEF CliAbsorb, CliExit, CliOnly, Types

LEMMA CliReadLineTypes == ASSUME Types, CliReadLine PROVE Types'
<1> DEFINE line == Head(stdin)
<1>1. stdin' \in Seq(Input) /\ line \in Input
    BY HeadTail DEF CliReadLine, Types
<1>2. cli \in Cli /\ cli.queue \in Seq(Steer) /\ cli.replayed \in Steer
    BY DEF Types, Cli
<1>3. line.kind = "steer" => Append(cli.queue, line.what) \in Seq(Steer)
    <2>1. line.kind = "steer" => line.what \in Steer
        BY <1>1 DEF Input
    <2> QED BY <1>2, <2>1, AppendProperties
<1>4. cli' \in Cli
    BY <1>2, <1>3 DEF CliReadLine, Cli
<1>5. \A status \in Ends : Event(status, cli.replayed) \in Frame
    BY <1>2 DEF Event, Frame
<1>6. stdout' \in Seq(Frame)
    BY <1>5, CliWrites DEF CliReadLine, Types
<1> QED BY <1>1, <1>4, <1>6 DEF CliReadLine, CliOnly, Types

-----------------------------------------------------------------------------
LEMMA ChatSteerTypes == ASSUME Types, ChatSteer PROVE Types'
<1>1. chat.pushed + 1 \in Steer
    BY BoundsAssumption DEF ChatSteer, Types, Chat, Steer
<1>2. steering' \in Seq(Steer)
    BY <1>1, AppendProperties DEF ChatSteer, Types
<1>3. chat' \in Chat
    BY <1>1 DEF ChatSteer, Types, Chat
<1> QED BY <1>2, <1>3 DEF ChatSteer, Types

LEMMA ChatReceiveTypes == ASSUME Types, ChatReceive PROVE Types'
<1> DEFINE ev == Head(out).kind
<1>0. Head(out) \in Ev /\ Tail(out) \in Seq(Ev)
    BY HeadTail DEF ChatReceive, Types
<1>1. ev \in Kinds /\ out' \in Seq(Ev)
    BY <1>0 DEF ChatReceive, Ev
<1>2. chat \in Chat /\ chat.steered \in Nat /\ chat.stops \in Nat
    BY DEF Types, Chat
<1>3. /\ chat.steered + (IF ev = "steered" THEN 1 ELSE 0) \in Nat
      /\ chat.stops + (IF ev = "interrupted" THEN 1 ELSE 0) \in Nat
    BY <1>2
<1>4. (IF ev = "error" THEN chat.working ELSE ev \notin Dones) \in BOOLEAN
    BY <1>2 DEF Chat
<1>5. chat' \in Chat
    BY <1>1, <1>2, <1>3, <1>4 DEF ChatReceive, Chat
<1> QED BY <1>1, <1>5 DEF ChatReceive, Types

\* Steps that concern questions, the token, or the end of the run.
LEMMA ChatOtherTypes ==
    ASSUME Types,
           \/ ChatStop \/ ChatRunEnded
           \/ \E r \in Requests : ChatReceiveQuestion(r)
           \/ \E r \in Requests, allow \in BOOLEAN : ChatAnswer(r, allow)
           \/ \E states \in {{"asked"}, {"asked", "open"}} : ChatLeave(states)
    PROVE  Types'
<1>1. CASE ChatStop
    BY <1>1 DEF ChatStop, Types
<1>2. CASE ChatRunEnded
    <2>1. asks' \in Asks
        BY <1>2 DEF ChatRunEnded, DropQuestions, Types, Asks, Settled
    <2>2. chat' \in Chat
        BY <1>2 DEF ChatRunEnded, Types, Chat
    <2> QED BY <1>2, <2>1, <2>2 DEF ChatRunEnded, Types
<1>3. ASSUME NEW r \in Requests, ChatReceiveQuestion(r) PROVE Types'
    <2>1. asks' \in Asks
        BY <1>3 DEF ChatReceiveQuestion, Types, Asks
    <2> QED BY <1>3, <2>1 DEF ChatReceiveQuestion, Types
<1>4. ASSUME NEW r \in Requests, NEW allow \in BOOLEAN, ChatAnswer(r, allow) PROVE Types'
    <2>1. asks' \in Asks
        BY <1>4 DEF ChatAnswer, Types, Asks, Settled
    <2>2. chat' \in Chat
        BY <1>4 DEF ChatAnswer, Types, Chat
    <2> QED BY <1>4, <2>1, <2>2 DEF ChatAnswer, Types
<1>5. ASSUME NEW states \in {{"asked"}, {"asked", "open"}}, ChatLeave(states) PROVE Types'
    <2>1. asks' \in Asks
        BY <1>5 DEF ChatLeave, DropQuestions, Types, Asks, Settled
    <2>2. chat' \in Chat
        BY <1>5 DEF ChatLeave, Types, Chat
    <2> QED BY <1>5, <2>1, <2>2, NoneYet DEF ChatLeave, Types
<1> QED BY <1>1, <1>2, <1>3, <1>4, <1>5

LEMMA NextTypes == Types /\ [Next]_vars => Types'
<1> SUFFICES ASSUME Types, [Next]_vars PROVE Types'
    OBVIOUS
<1>1. CASE HarnessNext
    BY <1>1, ReadOutputTypes, ReadReplayTypes, ReadResultTypes, ReadRequestTypes, ReadEndTypes,
       ReadErrorTypes, HoldExpiresTypes, AcceptSteerTypes, CloseSteeringTypes, SeeInterruptTypes,
       SendEventTypes, LoopOverTypes DEF HarnessNext
<1>2. CASE Escalate \/ \E r \in Requests : Respond(r)
    BY <1>2, EscalateTypes, RespondTypes
<1>3. CASE CliNext
    BY <1>3, CliOutputTypes, CliOtherTypes, CliReadLineTypes, CliEndTurnTypes, CliTakeSteersTypes,
       CliAskTypes DEF CliNext
<1>4. CASE ChatNext
    BY <1>4, ChatSteerTypes, ChatReceiveTypes, ChatOtherTypes DEF ChatNext
<1>5. CASE UNCHANGED vars
    BY <1>5 DEF vars, Types
<1> QED BY <1>1, <1>2, <1>3, <1>4, <1>5 DEF Next

-----------------------------------------------------------------------------
(* The order in which a run reports: steers, then what is left to say.      *)

Locals ==
    /\ Len(run.held) <= 1 /\ \A i \in 1 .. Len(run.held) : run.held[i].kind \in Ends
    /\ run.interrupted => cancelled
    /\ run.ended => run.phase # "loop" /\ run.anyDone /\ run.interrupted
    /\ run.phase # "loop" => run.held = <<>>

\* The events still to be sent confirm the steers p, and then say rest: in the
\* loop one event, a turn end only when no steer is pending; behind it the last
\* of them is that the run was interrupted, or that a turn ended.
Rest(r, gone, p, rest) ==
    /\ r.phase = "loop" => Len(rest) <= 1
    /\ r.phase # "loop" => p = <<>>
    /\ r.phase \in {"shutdown", "ended"} \/ r.ended => p = <<>> /\ rest = <<>>
    /\ \A i \in 1 .. Len(rest) :
        /\ rest[i].kind # "steered"
        /\ rest[i].kind \in Ends /\ r.phase = "loop" => r.pending = <<>>
        /\ rest[i].kind = "interrupted" =>
              i = Len(rest) /\ r.interrupted /\ p = <<>> /\ r.held = <<>>
    /\ ~gone /\ r.phase # "loop" =>
        /\ r.interrupted /\ ~r.ended => rest # <<>> /\ rest[Len(rest)].kind = "interrupted"
        /\ ~r.interrupted => r.anyDone \/ \E i \in 1 .. Len(rest) : rest[i].kind \in Dones

Queued ==
    \E p \in Seq(Steer), rest \in Seq(Ev) : sending = Steered(p) \o rest /\ Rest(run, chat.gone, p, rest)

\* The chat hears once, and last, that its run was interrupted.
Told ==
    ~chat.gone =>
        /\ ~run.ended => chat.stops = 0 /\ \A i \in 1 .. Len(out) : out[i].kind # "interrupted"
        /\ run.ended =>
            \/ out = <<>> /\ chat.last = "interrupted" /\ chat.stops = 1
            \/ out # <<>> /\ chat.stops = 0
               /\ \A i \in 1 .. Len(out) : out[i].kind = "interrupted" <=> i = Len(out)

Order == Locals /\ Queued /\ Told

Inv == Types /\ Order

LEMMA SteeredNone == Steered(<<>>) = <<>> /\ \A s \in Seq(Ev) : Steered(<<>>) \o s = s
<1>1. Steered(<<>>) = <<>>
    BY DEF Steered
<1> QED BY <1>1, ConcatEmptySeq

LEMMA NothingToSay ==
    ASSUME NEW p \in Seq(Steer), NEW rest \in Seq(Ev), Steered(p) \o rest = <<>>
    PROVE  p = <<>> /\ rest = <<>>
<1>1. Len(Steered(p) \o rest) = Len(p) + Len(rest)
    BY SteeredEvents, ConcatProperties
<1>2. Len(p) \in Nat /\ Len(rest) \in Nat
    BY LenProperties
<1>3. Len(p) = 0 /\ Len(rest) = 0
    BY <1>1, <1>2
<1> QED BY <1>3, EmptySeq

\* At its select, the loop has nothing to say.
LEMMA AtSelect ==
    ASSUME Inv, sending = <<>>
    PROVE  Rest(run, chat.gone, <<>>, <<>>)
<1> PICK p \in Seq(Steer), rest \in Seq(Ev) : sending = Steered(p) \o rest /\ Rest(run, chat.gone, p, rest)
    BY DEF Inv, Order, Queued
<1> QED BY NothingToSay

LEMMA Says ==
    ASSUME NEW p \in Seq(Steer), NEW rest \in Seq(Ev), sending' = Steered(p) \o rest, Rest(run', chat'.gone, p, rest)
    PROVE  Queued'
BY DEF Queued

LEMMA SaysOnly ==
    ASSUME NEW rest \in Seq(Ev), sending' = rest, Rest(run', chat'.gone, <<>>, rest)
    PROVE  Queued'
BY Says, SteeredNone, NoneYet

LEMMA OneEvent ==
    ASSUME NEW ev \in Ev
    PROVE  <<ev>> \in Seq(Ev) /\ <<ev>> # <<>> /\ Len(<<ev>>) = 1 /\ <<ev>>[1] = ev
OBVIOUS

LEMMA InitOrder == Init => Order
<1> SUFFICES ASSUME Init PROVE Order
    OBVIOUS
<1>1. run.phase = "loop" /\ run.held = <<>> /\ ~run.interrupted /\ ~run.ended /\ sending = <<>> /\ out = <<>>
    BY DEF Init
<1>2. chat.stops = 0
    BY DEF Init
<1>3. Rest(run, chat.gone, <<>>, <<>>)
    BY <1>1 DEF Rest
<1>4. Queued
    BY <1>1, <1>3, SteeredNone, NoneYet DEF Queued
<1>5. Locals /\ Told
    BY <1>1, <1>2 DEF Locals, Told
<1> QED BY <1>4, <1>5 DEF Order

\* Steps beside what the run reports.
LEMMA Aside ==
    ASSUME Inv, UNCHANGED <<run, sending, out>>, cancelled => cancelled',
           chat'.gone = chat.gone, chat'.stops = chat.stops, chat'.last = chat.last
    PROVE  Order'
<1>1. Locals'
    BY DEF Inv, Order, Locals
<1>2. Told'
    BY DEF Inv, Order, Told
<1>3. Queued'
    BY ZenonT(40) DEF Inv, Order, Queued, Rest
<1> QED BY <1>1, <1>2, <1>3 DEF Order

-----------------------------------------------------------------------------
(* The loop keeps the order.                                                *)

LEMMA ReadOutputOrder == ASSUME Inv, ReadOutput PROVE Order'
<1> DEFINE ev == Head(stdout)
<1>1. ev \in Ev /\ ev.kind = "work"
    BY FrameEvent, EventTyped DEF ReadOutput, Kinds, Inv
<1>2. run' = run /\ run.phase = "loop" /\ ~run.ended
    BY DEF ReadOutput, Selecting, Inv, Order, Locals
<1> HIDE DEF ev
<1>3. Rest(run', chat'.gone, <<>>, <<ev>>)
    BY <1>1, <1>2, OneEvent DEF Rest, Ends
<1>4. Queued'
    BY <1>1, <1>3, OneEvent, SaysOnly DEF ReadOutput, ev
<1> QED BY <1>4 DEF ReadOutput, Inv, Order, Locals, Told

LEMMA ReadReplayOrder == ASSUME Inv, ReadReplay PROVE Order'
<1> DEFINE c == Confirmed(run.pending, Head(stdout).steer)
<1>1. run \in Run /\ run.pending \in Seq(Steer)
    BY DEF Inv, Types, Run
<1>2. c \in Seq(Steer)
    BY <1>1, PositionOf, Split DEF Confirmed
<1>3. /\ run'.phase = "loop" /\ run'.held = run.held /\ run'.interrupted = run.interrupted
      /\ run'.anyDone = run.anyDone /\ run'.ended = run.ended
    BY <1>1 DEF ReadReplay, Selecting, Run
<1>4. Rest(run', chat'.gone, c, <<>>)
    BY <1>3 DEF Rest, Inv, Order, Locals, ReadReplay, Selecting
<1>5. sending' = Steered(c) \o <<>>
    BY <1>2, SteeredEvents, ConcatEmptySeq DEF ReadReplay
<1>6. Queued'
    BY <1>2, <1>4, <1>5, Says, NoneYet
<1> QED BY <1>3, <1>6 DEF ReadReplay, Selecting, Inv, Order, Locals, Told

LEMMA ReadResultOrder == ASSUME Inv, ReadResult PROVE Order'
<1> DEFINE line == Head(stdout)
           done == Event(IF run.interrupted THEN "interrupted" ELSE line.kind, line.steer)
<1>1. line.steer \in Steer /\ line.kind \in Ends
    BY FrameEvent DEF ReadResult, Inv
<1>2. /\ done \in Ev
      /\ done.kind = IF run.interrupted THEN "interrupted" ELSE line.kind
    BY <1>1, EventTyped DEF Kinds, Dones, Event
<1>3. run \in Run
    BY DEF Inv, Types
<1>4. /\ run'.phase = "loop" /\ run'.interrupted = run.interrupted /\ run'.pending = run.pending
      /\ run'.anyDone = run.anyDone /\ run'.ended = run.ended /\ ~run.ended
    BY <1>3 DEF ReadResult, Selecting, Run, Inv, Order, Locals
<1>5. CASE HoldsBack /\ run' = [run EXCEPT !.held = Hold(done)] /\ UNCHANGED sending
    <2>1. run'.held = <<done>> /\ done.kind \in Ends
        BY <1>1, <1>2, <1>3, <1>5 DEF HoldsBack, Hold, Run
    <2>2. Rest(run', chat'.gone, <<>>, <<>>)
        BY <1>4 DEF Rest
    <2>3. Queued'
        BY <1>5, <2>2, SaysOnly, NoneYet DEF ReadResult, Selecting
    <2>4. Locals'
        BY <1>4, <2>1 DEF ReadResult, Locals, Inv, Order
    <2> QED BY <1>4, <2>3, <2>4 DEF ReadResult, Inv, Order, Told
<1>6. CASE ~HoldsBack /\ run' = [run EXCEPT !.held = <<>>] /\ sending' = <<done>>
    <2>1. run'.held = <<>>
        BY <1>3, <1>6 DEF Run
    <2>2. done.kind \in Ends => run.pending = <<>>
        BY <1>2, <1>6 DEF HoldsBack, Ends
    <2>3. done.kind = "interrupted" => run.interrupted
        BY <1>1, <1>2 DEF Ends
    <2>4. done.kind # "steered"
        BY <1>1, <1>2 DEF Ends
    <2>5. Rest(run', chat'.gone, <<>>, <<done>>)
        BY <1>4, <2>1, <2>2, <2>3, <2>4 DEF Rest
    <2>6. Queued'
        BY <1>2, <1>6, <2>5, OneEvent, SaysOnly
    <2>7. Locals'
        BY <1>4, <2>1 DEF ReadResult, Locals, Inv, Order
    <2> QED BY <1>4, <2>6, <2>7 DEF ReadResult, Inv, Order, Told
<1> QED BY <1>5, <1>6 DEF ReadResult

LEMMA HoldExpiresOrder == ASSUME Inv, HoldExpires PROVE Order'
<1>1. run \in Run /\ run.pending \in Seq(Steer) /\ run.held \in Seq(Ev)
    BY DEF Inv, Types, Run
<1>2. /\ run'.phase = "loop" /\ run'.interrupted = run.interrupted /\ run'.pending = <<>> /\ run'.held = <<>>
      /\ run'.anyDone = run.anyDone /\ run'.ended = run.ended /\ ~run.ended
    BY <1>1 DEF HoldExpires, Selecting, Run, Inv, Order, Locals
<1>3. Len(run.held) <= 1 /\ \A i \in 1 .. Len(run.held) : run.held[i].kind \in Ends
    BY DEF Inv, Order, Locals
<1>4. Rest(run', chat'.gone, run.pending, run.held)
    BY <1>2, <1>3, <1>1 DEF Rest, Ends
<1>5. Queued'
    BY <1>1, <1>4, Says DEF HoldExpires, Expired
<1> QED BY <1>2, <1>5 DEF HoldExpires, Inv, Order, Locals, Told

\* The elements of e = a \o b and the last of them.
IsJoin(e, a, b) ==
    /\ e \in Seq(Ev) /\ Len(a) \in Nat /\ Len(b) \in Nat /\ Len(e) = Len(a) + Len(b)
    /\ \A i \in 1 .. Len(e) :
         \/ i \in 1 .. Len(a) /\ e[i] = a[i]
         \/ i - Len(a) \in 1 .. Len(b) /\ e[i] = b[i - Len(a)]
    /\ b # <<>> => e # <<>> /\ e[Len(e)] = b[Len(b)]
    /\ b = <<>> => e = a

LEMMA Joined ==
    ASSUME NEW a \in Seq(Ev), NEW b \in Seq(Ev)
    PROVE  IsJoin(a \o b, a, b)
<1> DEFINE e == a \o b
<1>1. /\ e \in Seq(Ev) /\ Len(e) = Len(a) + Len(b)
      /\ \A i \in 1 .. Len(a) + Len(b) : e[i] = IF i <= Len(a) THEN a[i] ELSE b[i - Len(a)]
    BY ConcatProperties
<1>2. Len(a) \in Nat /\ Len(b) \in Nat /\ (b # <<>> => Len(b) > 0)
    BY LenProperties, EmptySeq
<1>3. ASSUME NEW i \in 1 .. Len(e)
      PROVE  \/ i \in 1 .. Len(a) /\ e[i] = a[i]
             \/ i - Len(a) \in 1 .. Len(b) /\ e[i] = b[i - Len(a)]
    BY <1>1, <1>2, <1>3
<1>4. ASSUME b # <<>> PROVE e # <<>> /\ e[Len(e)] = b[Len(b)]
    <2>1. Len(e) \in 1 .. Len(a) + Len(b) /\ ~(Len(e) <= Len(a)) /\ Len(e) - Len(a) = Len(b)
        BY <1>1, <1>2, <1>4
    <2>2. e # <<>>
        BY <2>1, <1>1, <1>2, EmptySeq
    <2> QED BY <1>1, <2>1, <2>2
<1>5. b = <<>> => e = a
    BY ConcatEmptySeq
<1> HIDE DEF e
<1>6. IsJoin(e, a, b)
    BY <1>1, <1>2, <1>3, <1>4, <1>5 DEF IsJoin
<1> QED BY <1>6 DEF e

\* Behind the loop, the last event says that the run was interrupted, or one
\* says that a turn ended.
LastWords(e, r) ==
    /\ e \in Seq(Ev)
    /\ \A i \in 1 .. Len(e) :
         /\ e[i].kind # "steered"
         /\ e[i].kind = "interrupted" => i = Len(e) /\ r.interrupted
    /\ r.interrupted => e # <<>> /\ e[Len(e)].kind = "interrupted"
    /\ ~r.interrupted => r.anyDone \/ \E i \in 1 .. Len(e) : e[i].kind \in Dones

LEMMA ExitShape ==
    ASSUME NEW r \in Run, Len(r.held) <= 1, \A i \in 1 .. Len(r.held) : r.held[i].kind \in Ends, ~r.ended,
           NEW first \in Seq(Ev), first = <<>> \/ first = <<Event("error", 0)>>
    PROVE  LastWords(first \o ExitEvents(r), r)
<1> DEFINE last == IF r.interrupted THEN <<Event("interrupted", 0)>>
                   ELSE IF ~r.anyDone /\ r.held = <<>> THEN <<Event("errored", 0)>> ELSE <<>>
<1>1. r.held \in Seq(Ev)
    BY DEF Run
<1>2. /\ Event("interrupted", 0) \in Ev /\ Event("errored", 0) \in Ev
      /\ Event("interrupted", 0).kind = "interrupted" /\ Event("errored", 0).kind = "errored"
      /\ Event("error", 0).kind = "error"
    BY EventTyped, SteerZero DEF Kinds, Dones, Ends, Event
<1> PICK x : x = last
    OBVIOUS
<1>3. x \in Seq(Ev) /\ ExitEvents(r) = r.held \o x
    BY <1>2, OneEvent, NoneYet DEF ExitEvents
<1>4. \A i \in 1 .. Len(first) : first[i].kind = "error"
    BY <1>2
<1>5. r.interrupted => x # <<>> /\ Len(x) = 1 /\ x[1].kind = "interrupted"
    BY <1>2
<1>6. ~r.interrupted => \A i \in 1 .. Len(x) : x[i].kind = "errored"
    BY <1>2
<1>7. ~r.interrupted /\ ~r.anyDone /\ r.held = <<>> => x # <<>>
    OBVIOUS
<1> HIDE DEF last
<1> PICK y : y = r.held \o x
    OBVIOUS
<1>8. /\ y \in Seq(Ev)
      /\ \A i \in 1 .. Len(y) :
            /\ y[i].kind \in Dones
            /\ y[i].kind = "interrupted" => i = Len(y) /\ r.interrupted
      /\ r.interrupted => y # <<>> /\ y[Len(y)].kind = "interrupted"
      /\ ~r.interrupted /\ ~r.anyDone => y # <<>>
    <2>1. IsJoin(y, r.held, x)
        BY <1>1, <1>3, Joined
    <2>2. ASSUME NEW i \in 1 .. Len(y)
          PROVE  y[i].kind \in Dones /\ (y[i].kind = "interrupted" => i = Len(y) /\ r.interrupted)
        <3>1. CASE i \in 1 .. Len(r.held) /\ y[i] = r.held[i]
            BY <3>1 DEF Dones, Ends
        <3>2. CASE i - Len(r.held) \in 1 .. Len(x) /\ y[i] = x[i - Len(r.held)]
            BY <1>5, <1>6, <2>1, <3>2, SMTT(30) DEF Dones, Ends, IsJoin
        <3> QED BY <2>1, <3>1, <3>2 DEF IsJoin
    <2> QED BY <1>5, <1>7, <2>1, <2>2 DEF IsJoin
<1> PICK e : e = first \o y
    OBVIOUS
<1>9. IsJoin(e, first, y)
    BY <1>8, Joined
<1>10. ASSUME NEW i \in 1 .. Len(e)
       PROVE  e[i].kind # "steered" /\ (e[i].kind = "interrupted" => i = Len(e) /\ r.interrupted)
    <2>1. CASE i \in 1 .. Len(first) /\ e[i] = first[i]
        BY <1>4, <2>1
    <2>2. CASE i - Len(first) \in 1 .. Len(y) /\ e[i] = y[i - Len(first)]
        <3> PICK j \in 1 .. Len(y) : j = i - Len(first) /\ e[i] = y[j]
            BY <2>2
        <3>1. y[j].kind \in Dones /\ (y[j].kind = "interrupted" => j = Len(y) /\ r.interrupted)
            BY <1>8
        <3>2. Len(e) = Len(first) + Len(y) /\ Len(first) \in Nat
            BY <1>9 DEF IsJoin
        <3>3. j = Len(y) => i = Len(e)
            BY <3>2
        <3> QED BY <3>1, <3>3 DEF Dones, Ends
    <2> QED BY <1>9, <2>1, <2>2 DEF IsJoin
<1>11. ASSUME y # <<>> PROVE \E i \in 1 .. Len(e) : e[i].kind \in Dones
    <2>1. Len(y) \in 1 .. Len(y) /\ Len(e) \in 1 .. Len(e)
        BY <1>8, <1>9, <1>11, EmptySeq DEF IsJoin
    <2> QED BY <1>8, <1>9, <1>11, <2>1 DEF IsJoin
<1>12. LastWords(e, r)
    BY <1>8, <1>9, <1>10, <1>11 DEF LastWords, IsJoin
<1> QED BY <1>3, <1>12

\* The loop is left with the locals r, from which nothing was reported yet.
LEMMA Leaves ==
    ASSUME Inv, run.phase = "loop", NEW r \in Run, r.held = run.held, r.interrupted = run.interrupted,
           r.anyDone = run.anyDone, r.ended = run.ended, UNCHANGED <<cancelled, out, chat>>,
           run' = [r EXCEPT !.phase = "exit", !.held = <<>>],
           NEW first \in Seq(Ev), first = <<>> \/ first = <<Event("error", 0)>>,
           sending' = first \o ExitEvents(r)
    PROVE  Order'
<1>1. /\ run'.phase = "exit" /\ run'.held = <<>> /\ run'.interrupted = run.interrupted
      /\ run'.anyDone = run.anyDone /\ run'.ended = run.ended /\ ~run.ended
    BY DEF Inv, Order, Locals, Run
<1>2. Len(run.held) <= 1 /\ \A i \in 1 .. Len(run.held) : run.held[i].kind \in Ends
    BY DEF Inv, Order, Locals
<1> PICK e : e = first \o ExitEvents(r)
    OBVIOUS
<1>3. LastWords(e, r)
    BY <1>1, <1>2, ExitShape
<1>4. Rest(run', chat'.gone, <<>>, e)
    BY <1>1, <1>3 DEF Rest, LastWords
<1>5. Queued'
    BY <1>3, <1>4, SaysOnly DEF LastWords
<1> QED BY <1>1, <1>5 DEF Inv, Order, Locals, Told

LEMMA ReadEndOrder == ASSUME Inv, ReadEnd \/ ReadError PROVE Order'
<1>1. run \in Run /\ run.phase = "loop" /\ UNCHANGED <<cancelled, out, chat>>
    BY DEF ReadEnd, ReadError, Selecting, Inv, Types
<1>2. <<>> \in Seq(Ev) /\ <<Event("error", 0)>> \in Seq(Ev)
    BY NoneYet, OneEvent, EventTyped, SteerZero DEF Kinds
<1>3. PICK first \in Seq(Ev) : (first = <<>> \/ first = <<Event("error", 0)>>) /\ LeaveLoop(first)
    BY <1>2 DEF ReadEnd, ReadError
<1> QED BY <1>1, <1>3, Leaves DEF LeaveLoop

LEMMA AcceptSteerOrder == ASSUME Inv, AcceptSteer PROVE Order'
<1> DEFINE n == Head(steering)
           r == [run EXCEPT !.pending = Append(@, n)]
<1>1. n \in Steer /\ run \in Run /\ run.phase = "loop" /\ sending = <<>>
    BY HeadTail DEF AcceptSteer, Selecting, Inv, Types
<1>2. /\ r \in Run /\ r.held = run.held /\ r.interrupted = run.interrupted /\ r.phase = "loop"
      /\ r.anyDone = run.anyDone /\ r.ended = run.ended
    <2>1. r \in Run
        BY <1>1, RunSteps
    <2> QED BY <1>1, <2>1 DEF Run
<1>3. CASE run' = r /\ UNCHANGED sending
    <2>1. Rest(run', chat'.gone, <<>>, <<>>)
        BY <1>1, <1>2, <1>3 DEF Rest
    <2>2. Queued'
        BY <1>1, <1>3, <2>1, SaysOnly, NoneYet
    <2> QED BY <1>1, <1>2, <1>3, <2>2 DEF AcceptSteer, Inv, Order, Locals, Told
<1>4. CASE run' = [r EXCEPT !.phase = "exit", !.held = <<>>] /\ sending' = ExitEvents(r)
    <2> HIDE DEF r
    <2>1. sending' = <<>> \o ExitEvents(r)
        BY <1>2, <1>4, ExitEventsTyped, ConcatEmptySeq
    <2>2. UNCHANGED <<cancelled, out, chat>>
        BY DEF AcceptSteer
    <2> QED BY <1>1, <1>2, <1>4, <2>1, <2>2, NoneYet, Leaves
<1> QED BY <1>3, <1>4 DEF AcceptSteer

LEMMA SelectsOrder == ASSUME Inv, CloseSteering \/ SeeInterrupt PROVE Order'
<1>1. run \in Run /\ run.phase = "loop" /\ sending = <<>> /\ UNCHANGED <<sending, cancelled, out, chat>>
    BY DEF CloseSteering, SeeInterrupt, Selecting, Inv, Types
<1>2. /\ run'.phase = "loop" /\ run'.held = run.held /\ run'.anyDone = run.anyDone /\ run'.ended = run.ended
      /\ ~run.ended /\ (run'.interrupted => run.interrupted \/ cancelled)
    BY <1>1 DEF CloseSteering, SeeInterrupt, Run, Inv, Order, Locals
<1>3. Rest(run', chat'.gone, <<>>, <<>>)
    BY <1>2 DEF Rest
<1>4. Queued'
    BY <1>1, <1>3, SaysOnly, NoneYet
<1> QED BY <1>1, <1>2, <1>4 DEF Inv, Order, Locals, Told

-----------------------------------------------------------------------------
(* An event is sent.                                                        *)

LEMMA HeadTailJoined ==
    ASSUME NEW S, NEW a \in Seq(S), a # <<>>, NEW b \in Seq(S)
    PROVE  Head(a \o b) = Head(a) /\ Tail(a \o b) = Tail(a) \o b
<1>1. /\ Tail(a) \in Seq(S) /\ Len(a) \in Nat \ {0} /\ Len(Tail(a)) = Len(a) - 1 /\ Head(a) = a[1]
      /\ \A i \in 1 .. Len(a) - 1 : Tail(a)[i] = a[i + 1]
    BY HeadTail
<1> PICK s : s = a \o b
    OBVIOUS
<1> PICK t : t = Tail(a) \o b
    OBVIOUS
<1>2. /\ s \in Seq(S) /\ Len(s) = Len(a) + Len(b) /\ Len(b) \in Nat
      /\ \A i \in 1 .. Len(a) + Len(b) : s[i] = IF i <= Len(a) THEN a[i] ELSE b[i - Len(a)]
    BY ConcatProperties, LenProperties
<1>3. /\ t \in Seq(S) /\ Len(t) = Len(a) - 1 + Len(b)
      /\ \A i \in 1 .. Len(a) - 1 + Len(b) :
            t[i] = IF i <= Len(a) - 1 THEN Tail(a)[i] ELSE b[i - (Len(a) - 1)]
    <2>1. /\ t \in Seq(S) /\ Len(t) = Len(Tail(a)) + Len(b)
          /\ \A i \in 1 .. Len(Tail(a)) + Len(b) :
                t[i] = IF i <= Len(Tail(a)) THEN Tail(a)[i] ELSE b[i - Len(Tail(a))]
        BY <1>1, ConcatProperties
    <2> QED BY <1>1, <2>1
<1>4. s # <<>>
    BY <1>1, <1>2, EmptySeq
<1>5. /\ Tail(s) \in Seq(S) /\ Len(Tail(s)) = Len(s) - 1 /\ Head(s) = s[1]
      /\ \A i \in 1 .. Len(s) - 1 : Tail(s)[i] = s[i + 1]
    BY <1>2, <1>4, HeadTail
<1>6. Head(s) = Head(a)
    BY <1>1, <1>2, <1>5
<1>7. Len(Tail(s)) = Len(t)
    BY <1>1, <1>2, <1>3, <1>5
<1>8. ASSUME NEW i \in 1 .. Len(t) PROVE Tail(s)[i] = t[i]
    <2>1. i \in 1 .. Len(a) - 1 + Len(b) /\ i + 1 \in 1 .. Len(a) + Len(b) /\ Tail(s)[i] = s[i + 1]
        BY <1>1, <1>2, <1>3, <1>5, <1>7
    <2>2. CASE i <= Len(a) - 1
        <3>1. t[i] = Tail(a)[i] /\ i \in 1 .. Len(a) - 1 /\ i + 1 <= Len(a)
            BY <1>1, <1>3, <2>1, <2>2
        <3> QED BY <1>1, <1>2, <2>1, <3>1
    <2>3. CASE ~(i <= Len(a) - 1)
        <3>1. ~(i + 1 <= Len(a)) /\ i + 1 - Len(a) = i - (Len(a) - 1)
            BY <1>1, <2>1, <2>3
        <3>2. t[i] = b[i - (Len(a) - 1)]
            BY <1>3, <2>1, <2>3
        <3>3. s[i + 1] = b[i + 1 - Len(a)]
            BY <1>2, <2>1, <3>1
        <3> QED BY <2>1, <3>1, <3>2, <3>3
    <2> QED BY <2>2, <2>3
<1>9. Tail(s) = t
    BY <1>3, <1>5, <1>7, <1>8, SeqEqual
<1> QED BY <1>6, <1>9

LEMMA HeadTailSteered ==
    ASSUME NEW p \in Seq(Steer), p # <<>>
    PROVE  /\ Steered(p) \in Seq(Ev) /\ Steered(p) # <<>>
           /\ Head(Steered(p)) = Event("steered", Head(p))
           /\ Tail(Steered(p)) = Steered(Tail(p))
<1>1. /\ Len(p) \in Nat \ {0} /\ Tail(p) \in Seq(Steer) /\ Len(Tail(p)) = Len(p) - 1
      /\ Head(p) = p[1]
      /\ \A i \in 1 .. Len(p) - 1 : Tail(p)[i] = p[i + 1]
    BY HeadTail
<1> PICK s : s = Steered(p)
    OBVIOUS
<1> PICK t : t = Steered(Tail(p))
    OBVIOUS
<1>2. s \in Seq(Ev) /\ Len(s) = Len(p) /\ \A i \in 1 .. Len(p) : s[i] = Event("steered", p[i])
    BY SteeredEvents, LenProperties DEF Steered
<1>3. s # <<>>
    BY <1>1, <1>2, EmptySeq
<1>4. /\ Tail(s) \in Seq(Ev) /\ Len(Tail(s)) = Len(p) - 1 /\ Head(s) = s[1]
      /\ \A i \in 1 .. Len(p) - 1 : Tail(s)[i] = s[i + 1]
    BY <1>2, <1>3, HeadTail
<1>5. t \in Seq(Ev) /\ Len(t) = Len(p) - 1 /\ \A i \in 1 .. Len(p) - 1 : t[i] = Event("steered", Tail(p)[i])
    <2>1. t \in Seq(Ev) /\ Len(t) = Len(Tail(p)) /\ \A i \in 1 .. Len(Tail(p)) : t[i] = Event("steered", Tail(p)[i])
        BY <1>1, SteeredEvents, LenProperties DEF Steered
    <2> QED BY <1>1, <2>1
<1>6. Head(s) = Event("steered", Head(p))
    BY <1>1, <1>2, <1>4
<1>7. \A i \in 1 .. Len(p) - 1 : Tail(s)[i] = t[i]
    BY <1>1, <1>2, <1>4, <1>5
<1>8. Tail(s) = t
    BY <1>4, <1>5, <1>7, SeqEqual
<1> QED BY <1>2, <1>3, <1>6, <1>8

LEMMA NextSteered ==
    ASSUME NEW p \in Seq(Steer), p # <<>>, NEW rest \in Seq(Ev)
    PROVE  /\ Head(Steered(p) \o rest) = Event("steered", Head(p))
           /\ Tail(Steered(p) \o rest) = Steered(Tail(p)) \o rest
<1>1. Steered(p) \in Seq(Ev) /\ Steered(p) # <<>>
    BY HeadTailSteered
<1>2. Head(Steered(p) \o rest) = Head(Steered(p)) /\ Tail(Steered(p) \o rest) = Tail(Steered(p)) \o rest
    BY <1>1, HeadTailJoined
<1> QED BY <1>2, HeadTailSteered

\* Either the event confirms the first steer of p, or nothing is left of p and
\* it is the first of rest; after an interrupted turn end nothing is left at all.
Sent(p, rest) ==
    /\ sending = Steered(p) \o rest /\ Rest(run, chat.gone, p, rest)
    /\ run'.pending = run.pending /\ run'.interrupted = run.interrupted
    /\ run'.held = run.held
    /\ \/ /\ p # <<>> /\ Head(sending) = Event("steered", Head(p))
          /\ sending' = Steered(Tail(p)) \o rest
          /\ run'.phase = run.phase /\ run'.anyDone = run.anyDone /\ run'.ended = run.ended
       \/ /\ p = <<>> /\ sending = rest /\ Head(rest) \in Ev
          /\ Head(rest).kind # "interrupted"
          /\ sending' = Tail(rest)
          /\ run'.phase = run.phase /\ run'.ended = run.ended
          /\ run'.anyDone = (run.anyDone \/ Head(rest).kind \in Ends)
       \/ /\ p = <<>> /\ sending = rest /\ rest = <<Head(rest)>> /\ Head(rest) \in Ev
          /\ Head(rest).kind = "interrupted"
          /\ sending' = <<>>
          /\ run'.phase = "exit" /\ run'.anyDone = TRUE /\ run'.ended = TRUE

LEMMA Sends ==
    ASSUME Inv, SendEvent
    PROVE  \E p \in Seq(Steer), rest \in Seq(Ev) : Sent(p, rest)
<1> DEFINE ev == Head(sending)
           r == [run EXCEPT !.anyDone = @ \/ ev.kind \in Dones, !.ended = @ \/ ev.kind = "interrupted"]
<1> PICK p \in Seq(Steer), rest \in Seq(Ev) : sending = Steered(p) \o rest /\ Rest(run, chat.gone, p, rest)
    BY DEF Inv, Order, Queued
<1>1. run \in Run /\ sending # <<>> /\ run.ended \in BOOLEAN /\ run.anyDone \in BOOLEAN
    BY DEF SendEvent, Inv, Types, Run
<1>2. /\ r.pending = run.pending /\ r.interrupted = run.interrupted /\ r.held = run.held
      /\ r.phase = run.phase /\ r.anyDone = (run.anyDone \/ ev.kind \in Dones)
      /\ r.ended = (run.ended \/ ev.kind = "interrupted") /\ r \in Run
    <2>1. (run.anyDone \/ ev.kind \in Dones) \in BOOLEAN /\ (run.ended \/ ev.kind = "interrupted") \in BOOLEAN
        OBVIOUS
    <2>2. r \in Run
        BY <1>1, <2>1, SteerZero, RunSteps
    <2> QED BY <1>1, <2>2 DEF Run
<1>3. \/ /\ run.phase = "loop" /\ ev.kind = "interrupted"
         /\ run' = [r EXCEPT !.phase = "exit"]
         /\ sending' = Tail(sending) \o ExitEvents(r)
      \/ /\ run.phase = "exit" \/ ev.kind # "interrupted"
         /\ run' = r
         /\ sending' = Tail(sending)
    BY DEF SendEvent
<1> PICK e : e = ev
    OBVIOUS
<1> HIDE DEF ev, r
<1>4. CASE p # <<>>
    <2>1. Head(sending) = Event("steered", Head(p)) /\ Tail(sending) = Steered(Tail(p)) \o rest
        BY <1>4, NextSteered
    <2>2. ev.kind = "steered"
        <3>1. Event("steered", Head(p)).kind = "steered"
            BY DEF Event
        <3> QED BY <2>1, <3>1 DEF ev
    <2>3. run' = r /\ sending' = Tail(sending) /\ r.anyDone = run.anyDone /\ r.ended = run.ended
        BY <1>1, <1>2, <1>3, <2>2 DEF Dones, Ends
    <2>4. Sent(p, rest)
        BY <1>2, <1>4, <2>1, <2>3 DEF Sent
    <2> QED BY <2>4
<1>5. CASE p = <<>>
    <2>1. sending = rest
        BY <1>5, SteeredNone
    <2>2. /\ ev \in Ev /\ ev = rest[1] /\ ev = Head(rest) /\ Tail(rest) \in Seq(Ev)
          /\ 1 \in 1 .. Len(rest) /\ Len(Tail(rest)) = Len(rest) - 1
        BY <1>1, <2>1, HeadTail DEF ev
    <2>3. CASE ev.kind # "interrupted"
        <3>1. run' = r /\ sending' = Tail(rest) /\ r.ended = run.ended
            BY <1>1, <1>2, <1>3, <2>1, <2>3
        <3>2. r.anyDone = (run.anyDone \/ Head(rest).kind \in Ends)
            BY <1>2, <2>2, <2>3 DEF Dones
        <3>3. Sent(p, rest)
            BY <1>2, <1>5, <2>1, <2>2, <2>3, <3>1, <3>2 DEF Sent
        <3> QED BY <3>3
    <2>4. CASE ev.kind = "interrupted"
        <3>1. Len(rest) = 1 /\ run.interrupted /\ run.held = <<>> /\ ~run.ended /\ run.phase \in {"loop", "exit"}
            BY <1>1, <2>1, <2>2, <2>4 DEF Rest, Run
        <3>2. rest = <<ev>> /\ Tail(rest) = <<>>
            <4>1. Len(Tail(rest)) = 0 /\ <<ev>> \in Seq(Ev) /\ Len(<<ev>>) = 1 /\ <<ev>>[1] = ev
                BY <2>2, <3>1, OneEvent
            <4>2. \A i \in 1 .. Len(rest) : rest[i] = <<ev>>[i]
                BY <2>2, <3>1, <4>1
            <4>3. rest = <<ev>>
                BY <3>1, <4>1, <4>2, SeqEqual
            <4> QED BY <2>2, <4>1, <4>3, EmptySeq
        <3>3. r.ended = TRUE /\ r.anyDone = TRUE /\ r.interrupted /\ r.held = <<>>
            BY <1>1, <1>2, <2>4, <3>1 DEF Dones
        <3>4. ExitEvents(r) = <<>>
            BY <3>3, NoneYet, ConcatEmptySeq DEF ExitEvents
        <3>5. Tail(sending) \o ExitEvents(r) = <<>>
            BY <2>1, <3>2, <3>4, NoneYet, ConcatEmptySeq
        <3>6. /\ sending' = <<>> /\ run'.phase = "exit" /\ run'.pending = r.pending
              /\ run'.interrupted = r.interrupted /\ run'.held = r.held
              /\ run'.anyDone = TRUE /\ run'.ended = TRUE
            BY <1>2, <1>3, <2>1, <2>4, <3>1, <3>2, <3>3, <3>5 DEF Run
        <3>7. Sent(p, rest)
            BY <1>2, <1>5, <2>1, <2>2, <2>4, <3>2, <3>6 DEF Sent
        <3> QED BY <3>7
    <2> QED BY <2>3, <2>4
<1> QED BY <1>4, <1>5

\* One event is on its way to the chat; an interrupted turn end is the last.
LEMMA ToldMore ==
    ASSUME Inv, ~run.ended, UNCHANGED chat, NEW ev \in Ev, out' = Append(out, ev),
           run'.ended = (ev.kind = "interrupted")
    PROVE  Told'
<1>1. out \in Seq(Ev)
    BY DEF Inv, Types
<1>2. /\ out' \in Seq(Ev) /\ out' # <<>> /\ Len(out') = Len(out) + 1 /\ Len(out) \in Nat
      /\ \A i \in 1 .. Len(out) : out'[i] = out[i]
      /\ out'[Len(out) + 1] = ev
    BY <1>1, AppendProperties, LenProperties
<1>3. ~chat.gone => chat.stops = 0 /\ \A i \in 1 .. Len(out) : out[i].kind # "interrupted"
    BY DEF Inv, Order, Told
<1>4. \A i \in 1 .. Len(out') : i \in 1 .. Len(out) \/ i = Len(out) + 1
    BY <1>2
<1>5. ~chat.gone => \A i \in 1 .. Len(out') : out'[i].kind = "interrupted" => i = Len(out') /\ run'.ended
    BY <1>2, <1>3, <1>4
<1>6. run'.ended => out'[Len(out')].kind = "interrupted"
    BY <1>2
<1> QED BY <1>2, <1>3, <1>5, <1>6 DEF Told

LEMMA SendEventOrder == ASSUME Inv, SendEvent PROVE Order'
<1> PICK p \in Seq(Steer), rest \in Seq(Ev) : Sent(p, rest)
    BY Sends
<1>1. sending # <<>> /\ out' = Append(out, Head(sending)) /\ UNCHANGED <<cancelled, chat>>
    BY DEF SendEvent
<1>2. Rest(run, chat.gone, p, rest) /\ sending = Steered(p) \o rest
    BY DEF Sent
<1>3. ~run.ended
    BY <1>1, <1>2, SteeredNone DEF Rest
<1>4. Head(sending) \in Ev
    BY <1>1, HeadTail DEF Inv, Types
<1>5. CASE /\ p # <<>> /\ Head(sending) = Event("steered", Head(p))
           /\ sending' = Steered(Tail(p)) \o rest
           /\ run'.phase = run.phase /\ run'.anyDone = run.anyDone /\ run'.ended = run.ended
    <2>1. Tail(p) \in Seq(Steer) /\ run.phase = "loop"
        BY <1>2, <1>5, HeadTail DEF Rest
    <2>2. \A j \in 1 .. Len(rest) : rest[j].kind # "interrupted"
        BY <1>2, <1>5 DEF Rest
    <2>3. Rest(run', chat'.gone, Tail(p), rest)
        BY <1>1, <1>2, <1>3, <1>5, <2>1, <2>2 DEF Rest, Sent
    <2>4. Queued'
        BY <1>5, <2>1, <2>3, Says
    <2>5. Head(sending).kind # "interrupted"
        BY <1>5 DEF Event
    <2>6. Told'
        BY <1>1, <1>3, <1>4, <1>5, <2>5, ToldMore DEF Inv, Types, Run
    <2>7. Locals'
        BY <1>1, <1>3, <1>5 DEF Sent, Inv, Order, Locals
    <2> QED BY <2>4, <2>6, <2>7 DEF Order
<1>6. CASE /\ p = <<>> /\ sending = rest /\ Head(rest) \in Ev
           /\ Head(rest).kind # "interrupted"
           /\ sending' = Tail(rest)
           /\ run'.phase = run.phase /\ run'.ended = run.ended
           /\ run'.anyDone = (run.anyDone \/ Head(rest).kind \in Ends)
    <2> PICK t : t = Tail(rest)
        OBVIOUS
    <2>1. /\ t \in Seq(Ev) /\ Len(rest) \in Nat \ {0} /\ Len(t) = Len(rest) - 1 /\ Head(rest) = rest[1]
          /\ \A j \in 1 .. Len(rest) - 1 : t[j] = rest[j + 1]
        BY <1>1, <1>6, HeadTail
    <2>2. ASSUME NEW j \in 1 .. Len(t)
          PROVE  j + 1 \in 1 .. Len(rest) /\ t[j] = rest[j + 1] /\ (j + 1 = Len(rest) => j = Len(t))
        <3>1. j \in 1 .. Len(rest) - 1 /\ Len(rest) \in Nat /\ Len(t) = Len(rest) - 1
            BY <2>1
        <3>2. t[j] = rest[j + 1]
            BY <2>1, <3>1
        <3> QED BY <3>1, <3>2
    <2>3. \A j \in 1 .. Len(t) :
             /\ t[j].kind # "steered"
             /\ t[j].kind \in Ends /\ run.phase = "loop" => run.pending = <<>>
             /\ t[j].kind = "interrupted" => j = Len(t) /\ run.interrupted /\ run.held = <<>>
        BY <1>2, <2>2 DEF Rest
    <2>4. run.phase = "loop" => Len(t) <= 1
        <3>1. run.phase = "loop" => Len(rest) <= 1
            BY <1>2 DEF Rest
        <3> QED BY <2>1, <3>1
    <2>5. ~(run.phase \in {"shutdown", "ended"})
        BY <1>1, <1>2, <1>6 DEF Rest
    <2>6. ASSUME ~chat.gone, run.phase # "loop", run.interrupted
          PROVE  t # <<>> /\ t[Len(t)].kind = "interrupted"
        <3>1. rest # <<>> /\ rest[Len(rest)].kind = "interrupted"
            BY <1>2, <1>3, <2>6 DEF Rest
        <3>2. Len(rest) # 1
            BY <1>6, <2>1, <3>1
        <3>3. Len(t) \in 1 .. Len(t) /\ Len(t) + 1 = Len(rest) /\ Len(t) # 0
            BY <2>1, <3>2
        <3> QED BY <2>2, <3>1, <3>3, EmptySeq
    <2>7. ASSUME ~chat.gone, run.phase # "loop", ~run.interrupted
          PROVE  run'.anyDone \/ \E j \in 1 .. Len(t) : t[j].kind \in Dones
        <3>1. run.anyDone \/ \E j \in 1 .. Len(rest) : rest[j].kind \in Dones
            BY <1>2, <2>7 DEF Rest
        <3>2. CASE run.anyDone
            BY <1>6, <3>2
        <3>3. ASSUME NEW j \in 1 .. Len(rest), rest[j].kind \in Dones
              PROVE  run'.anyDone \/ \E l \in 1 .. Len(t) : t[l].kind \in Dones
            <4>1. CASE j = 1
                BY <1>6, <2>1, <3>3, <4>1 DEF Dones
            <4>2. CASE j # 1
                <5>1. j - 1 \in 1 .. Len(t) /\ t[j - 1] = rest[j]
                    BY <2>1, <4>2
                <5> QED BY <3>3, <5>1
            <4> QED BY <4>1, <4>2
        <3> QED BY <3>1, <3>2, <3>3
    <2>8. Rest(run', chat'.gone, <<>>, t)
        BY <1>1, <1>3, <1>6, <2>3, <2>4, <2>5, <2>6, <2>7 DEF Rest, Sent
    <2>9. Queued'
        BY <1>6, <2>1, <2>8, SaysOnly
    <2>10. Told'
        BY <1>1, <1>3, <1>4, <1>6, ToldMore DEF Inv, Types, Run
    <2>11. Locals'
        BY <1>1, <1>3, <1>6 DEF Sent, Inv, Order, Locals
    <2> QED BY <2>9, <2>10, <2>11 DEF Order
<1>7. CASE /\ p = <<>> /\ sending = rest /\ rest = <<Head(rest)>> /\ Head(rest) \in Ev
           /\ Head(rest).kind = "interrupted"
           /\ sending' = <<>>
           /\ run'.phase = "exit" /\ run'.anyDone = TRUE /\ run'.ended = TRUE
    <2>1. run.interrupted /\ run.held = <<>>
        <3>1. 1 \in 1 .. Len(rest) /\ rest[1] = Head(rest)
            BY <1>1, <1>7, HeadTail
        <3> QED BY <1>2, <1>7, <3>1 DEF Rest
    <2>2. Rest(run', chat'.gone, <<>>, <<>>)
        BY <1>7, <2>1 DEF Rest, Sent
    <2>3. Queued'
        BY <1>7, <2>2, SaysOnly, NoneYet
    <2>4. Told'
        BY <1>1, <1>3, <1>4, <1>7, ToldMore
    <2>5. Locals'
        BY <1>1, <1>7, <2>1 DEF Sent, Inv, Order, Locals
    <2> QED BY <2>3, <2>4, <2>5 DEF Order
<1> QED BY <1>5, <1>6, <1>7 DEF Sent

LEMMA LoopOverOrder == ASSUME Inv, ConsumerGone \/ AllReported \/ Shutdown PROVE Order'
<1>1. run \in Run
    BY DEF Inv, Types
<1>2. CASE ConsumerGone
    <2>1. /\ run'.phase = "shutdown" /\ run'.held = <<>> /\ run'.interrupted = run.interrupted
          /\ run'.anyDone = run.anyDone /\ run'.ended = run.ended
        BY <1>1, <1>2 DEF ConsumerGone, Run
    <2>2. Rest(run', chat'.gone, <<>>, <<>>)
        BY <1>2, <2>1 DEF Rest, ConsumerGone
    <2>3. Queued'
        BY <1>2, <2>2, SaysOnly, NoneYet DEF ConsumerGone
    <2> QED BY <1>2, <2>1, <2>3 DEF ConsumerGone, Inv, Order, Locals, Told
<1>3. CASE AllReported \/ Shutdown
    <2>1. sending = <<>>
        <3>1. ASSUME Shutdown PROVE sending = <<>>
            <4> PICK p \in Seq(Steer), rest \in Seq(Ev) : sending = Steered(p) \o rest /\ Rest(run, chat.gone, p, rest)
                BY DEF Inv, Order, Queued
            <4>1. p = <<>> /\ rest = <<>>
                BY <3>1 DEF Rest, Shutdown
            <4> QED BY <4>1, SteeredNone
        <3> QED BY <1>3, <3>1 DEF AllReported
    <2>2. run'.phase \in {"shutdown", "ended"} /\ run.phase # "loop"
        BY <1>1, <1>3 DEF AllReported, Shutdown, Run
    <2>3. run'.held = run.held /\ run'.interrupted = run.interrupted
        BY <1>1, <1>3 DEF AllReported, Shutdown, Run
    <2>4. run'.anyDone = run.anyDone /\ run'.ended = run.ended
        BY <1>1, <1>3 DEF AllReported, Shutdown, Run
    <2>5. Rest(run', chat'.gone, <<>>, <<>>)
        BY <1>3, <2>1, <2>2, <2>3, <2>4, AtSelect DEF Rest, AllReported, Shutdown
    <2>6. Queued'
        BY <1>3, <2>1, <2>5, SaysOnly, NoneYet DEF AllReported, Shutdown
    <2> QED BY <1>3, <2>2, <2>3, <2>4, <2>6 DEF AllReported, Shutdown, Inv, Order, Locals, Told
<1> QED BY <1>2, <1>3

-----------------------------------------------------------------------------
(* The chat, the CLI and the requests.                                      *)

LEMMA ChatReceiveOrder == ASSUME Inv, ChatReceive PROVE Order'
<1> DEFINE ev == Head(out).kind
<1>1. UNCHANGED <<run, sending, cancelled>> /\ ~chat.gone /\ out # <<>>
    BY DEF ChatReceive
<1>2. chat \in Chat /\ chat.stops \in Nat
    BY DEF Inv, Types, Chat
<1>3. /\ chat'.gone = chat.gone /\ chat'.last = ev
      /\ chat'.stops = chat.stops + IF ev = "interrupted" THEN 1 ELSE 0
    BY <1>2 DEF ChatReceive, Chat
<1>4. Queued' /\ Locals'
    BY <1>1, <1>3, ZenonT(40) DEF Inv, Order, Queued, Rest, Locals
<1> PICK t : t = Tail(out)
    OBVIOUS
<1>5. /\ t \in Seq(Ev) /\ Len(out) \in Nat \ {0} /\ Len(t) = Len(out) - 1 /\ Head(out) = out[1]
      /\ \A i \in 1 .. Len(out) - 1 : t[i] = out[i + 1]
    BY <1>1, HeadTail DEF Inv, Types
<1>6. ASSUME NEW i \in 1 .. Len(t)
      PROVE  i + 1 \in 1 .. Len(out) /\ t[i] = out[i + 1] /\ (i + 1 = Len(out) <=> i = Len(t))
    <2>1. i \in 1 .. Len(out) - 1 /\ Len(out) \in Nat /\ Len(t) = Len(out) - 1
        BY <1>5
    <2>2. t[i] = out[i + 1]
        BY <1>5, <2>1
    <2> QED BY <2>1, <2>2
<1>7. 1 \in 1 .. Len(out) /\ ev = out[1].kind /\ out' = t
    BY <1>5 DEF ChatReceive
<1>8. CASE ~run.ended
    <2>1. chat.stops = 0 /\ \A i \in 1 .. Len(out) : out[i].kind # "interrupted"
        BY <1>1, <1>8 DEF Inv, Order, Told
    <2>2. ev # "interrupted" /\ \A i \in 1 .. Len(t) : t[i].kind # "interrupted"
        BY <1>6, <1>7, <2>1
    <2>3. Told'
        BY <1>1, <1>3, <1>7, <1>8, <2>1, <2>2 DEF Told
    <2> QED BY <1>4, <2>3 DEF Order
<1>9. CASE run.ended
    <2>1. chat.stops = 0 /\ \A i \in 1 .. Len(out) : out[i].kind = "interrupted" <=> i = Len(out)
        BY <1>1, <1>9 DEF Inv, Order, Told
    <2>2. \A i \in 1 .. Len(t) : t[i].kind = "interrupted" <=> i = Len(t)
        BY <1>6, <2>1
    <2>3. CASE Len(out) = 1
        <3>1. t = <<>> /\ ev = "interrupted"
            BY <1>5, <1>7, <2>1, <2>3, EmptySeq
        <3> QED BY <1>1, <1>3, <1>4, <1>7, <1>9, <2>1, <3>1 DEF Order, Told
    <2>4. CASE Len(out) # 1
        <3>1. ev # "interrupted"
            BY <1>7, <2>1, <2>4
        <3>2. t # <<>>
            <4>1. Len(t) # 0
                BY <1>5, <2>4
            <4> QED BY <4>1, EmptySeq
        <3> QED BY <1>1, <1>3, <1>4, <1>7, <1>9, <2>1, <2>2, <3>1, <3>2 DEF Order, Told
    <2> QED BY <2>3, <2>4
<1> QED BY <1>8, <1>9

\* A chat that let go of the run is promised nothing more.
LEMMA ChatGoneOrder ==
    ASSUME Inv, ChatRunEnded \/ \E states \in {{"asked"}, {"asked", "open"}} : ChatLeave(states)
    PROVE  Order'
<1>1. chat \in Chat
    BY DEF Inv, Types
<1>2. chat'.gone = TRUE /\ UNCHANGED <<run, sending, cancelled>>
    BY <1>1 DEF ChatRunEnded, ChatLeave, Chat
<1>3. Told'
    BY <1>2 DEF Told
<1>4. Locals'
    BY <1>2 DEF Inv, Order, Locals
<1>5. Queued'
    BY <1>2 DEF Inv, Order, Queued, Rest
<1> QED BY <1>3, <1>4, <1>5 DEF Order

LEMMA AsideOrder ==
    ASSUME Inv,
           \/ ReadRequest \/ Escalate \/ (\E r \in Requests : Respond(r)) \/ CliNext
           \/ ChatSteer \/ ChatStop
           \/ \E r \in Requests : ChatReceiveQuestion(r)
           \/ \E r \in Requests, allow \in BOOLEAN : ChatAnswer(r, allow)
           \/ UNCHANGED vars
    PROVE  Order'
<1>1. chat \in Chat
    BY DEF Inv, Types
<1>2. CASE CliNext
    <2>1. CliOnly
        BY <1>2 DEF CliNext, CliOutput, CliAbsorb, CliReadLine, CliExit, CliEndTurn, CliTakeSteers, CliAsk
    <2> QED BY <2>1, Aside DEF CliOnly
<1>3. CASE ReadRequest \/ Escalate \/ UNCHANGED vars
    <2>1. UNCHANGED <<run, sending, out, cancelled, chat>>
        BY <1>3 DEF ReadRequest, Escalate, vars
    <2> QED BY <2>1, Aside
<1>4. ASSUME NEW r \in Requests, Respond(r) \/ ChatReceiveQuestion(r) PROVE Order'
    BY <1>4, Aside DEF Respond, ChatReceiveQuestion
<1>5. CASE ChatSteer \/ ChatStop
    <2>1. chat'.gone = chat.gone /\ chat'.stops = chat.stops /\ chat'.last = chat.last
        BY <1>1, <1>5 DEF ChatSteer, ChatStop, Chat
    <2> QED BY <1>5, <2>1, Aside DEF ChatSteer, ChatStop
<1>6. ASSUME NEW r \in Requests, NEW allow \in BOOLEAN, ChatAnswer(r, allow) PROVE Order'
    <2>1. chat'.gone = chat.gone /\ chat'.stops = chat.stops /\ chat'.last = chat.last
        BY <1>1, <1>6 DEF ChatAnswer, Chat
    <2> QED BY <1>6, <2>1, Aside DEF ChatAnswer
<1> QED BY <1>2, <1>3, <1>4, <1>5, <1>6

LEMMA NextOrder == Inv /\ [Next]_vars => Order'
<1> SUFFICES ASSUME Inv, [Next]_vars PROVE Order'
    OBVIOUS
<1>1. CASE HarnessNext
    BY <1>1, ReadOutputOrder, ReadReplayOrder, ReadResultOrder, ReadEndOrder, HoldExpiresOrder,
       AcceptSteerOrder, SelectsOrder, SendEventOrder, LoopOverOrder, AsideOrder DEF HarnessNext
<1>2. CASE Escalate \/ (\E r \in Requests : Respond(r)) \/ CliNext \/ UNCHANGED vars
    BY <1>2, AsideOrder
<1>3. CASE ChatNext
    BY <1>3, ChatReceiveOrder, ChatGoneOrder, AsideOrder DEF ChatNext
<1> QED BY <1>1, <1>2, <1>3 DEF Next

LEMMA InitInv == Init => Inv
BY InitTypes, InitOrder DEF Inv

LEMMA NextInv == Inv /\ [Next]_vars => Inv'
BY NextTypes, NextOrder DEF Inv

\* What the loop holds, what it still has to send and what it told the chat, for
\* any CLI, any number of steers and any capacities.
THEOREM RunInvariant == Spec => []Inv
BY InitInv, NextInv, PTL DEF Spec

\* Every local of the loop keeps its type, and at most one turn end is held back.
THEOREM TypeCorrect == Spec => []TypeOK
<1>1. Inv => TypeOK
    <2> SUFFICES ASSUME Inv PROVE TypeOK
        OBVIOUS
    <2>1. Steer \subseteq Nat
        BY DEF Steer
    <2>2. \A s \in Seq(Steer) : s \in Seq(Nat)
        BY <2>1, SeqMonotonic
    <2>3. Ev \subseteq EventType
        BY <2>1 DEF Ev, EventType
    <2>4. \A s \in Seq(Ev) : s \in Seq(EventType)
        BY <2>3, SeqMonotonic
    <2>5. run \in RunType /\ Len(run.held) <= 1
        BY <2>2, <2>4 DEF Inv, Types, Order, Locals, Run, RunType
    <2>6. chat \in ChatType
        BY <2>1 DEF Inv, Types, Chat, ChatType
    <2> QED BY <2>2, <2>4, <2>5, <2>6 DEF Inv, Types, Asks, TypeOK
<1> QED BY <1>1, RunInvariant, PTL

\* The last word of an interrupted run is that it was interrupted, said once;
\* a run that ends by itself has reported a turn end.
THEOREM LastWord == Spec => []EndReported
<1>1. Inv => EndReported
    <2> SUFFICES ASSUME Inv, run.phase = "ended", out = <<>>, ~chat.gone
                 PROVE  /\ run.interrupted => chat.last = "interrupted" /\ chat.stops = 1
                        /\ ~run.interrupted => run.anyDone /\ chat.stops = 0
        BY DEF EndReported
    <2> PICK p \in Seq(Steer), rest \in Seq(Ev) : sending = Steered(p) \o rest /\ Rest(run, chat.gone, p, rest)
        BY DEF Inv, Order, Queued
    <2>1. rest = <<>>
        BY DEF Rest
    <2>2. run.interrupted => run.ended
        BY <2>1 DEF Rest
    <2>3. ~run.interrupted => run.anyDone /\ ~run.ended
        BY <2>1 DEF Rest, Inv, Order, Locals
    <2> QED BY <2>2, <2>3 DEF Inv, Order, Told
<1> QED BY <1>1, RunInvariant, PTL

\* Only SendEvent adds to what the chat has to receive.
LEMMA OnlySendAdds ==
    ASSUME [Next]_vars, Len(out) \in Nat, out # <<>> => Len(Tail(out)) = Len(out) - 1,
           Len(out') > Len(out)
    PROVE  SendEvent
<1>1. out' # out /\ ~(out # <<>> /\ out' = Tail(out))
    OBVIOUS
<1>2. out' # <<>>
    BY EmptySeq
<1>3. ~(Escalate \/ (\E r \in Requests : Respond(r)) \/ UNCHANGED vars)
    BY <1>1 DEF Escalate, Respond, vars
<1>4. ~CliNext
    BY <1>1 DEF CliNext, CliOutput, CliAbsorb, CliReadLine, CliExit, CliEndTurn, CliTakeSteers, CliAsk, CliOnly
<1>5. ~ChatNext
    BY <1>1, <1>2 DEF ChatNext, ChatSteer, ChatStop, ChatReceive, ChatRunEnded, ChatReceiveQuestion,
       ChatAnswer, ChatLeave
<1>6. HarnessNext
    BY <1>3, <1>4, <1>5 DEF Next
<1> QED BY <1>1, <1>6 DEF HarnessNext, ReadOutput, ReadReplay, ReadResult, ReadRequest, ReadEnd, ReadError,
       HoldExpires, AcceptSteer, CloseSteering, SeeInterrupt, ConsumerGone, AllReported, Shutdown

\* While the loop goes on, a turn end reaches the chat only when no steer that the
\* harness has taken is unreported, so the next queued message is not sent into a
\* steered turn; and no steer is ever reported behind a turn end that was sent while
\* the report waited, also not after the loop was left with steers pending.
THEOREM EndAfterSteers == Spec => NoEndBeforeSteer
<1> DEFINE EndSent == Len(out') > Len(out) /\ Last(out').kind \in Ends
           Reported == /\ run.phase = "loop" => run'.pending = <<>>
                       /\ \A i \in DOMAIN sending' : sending'[i].kind # "steered"
<1>1. ASSUME Inv, [Next]_vars, EndSent PROVE Reported
    <2>1. out \in Seq(Ev) /\ Len(out) \in Nat /\ (out # <<>> => Len(Tail(out)) = Len(out) - 1)
        BY <1>1, HeadTail, LenProperties DEF Inv, Types
    <2>2. SendEvent
        BY <1>1, <2>1, OnlySendAdds
    <2>3. Head(sending) \in Ev /\ out' = Append(out, Head(sending))
        BY <1>1, <2>2, HeadTail DEF SendEvent, Inv, Types
    <2>4. Last(out') = Head(sending)
        <3>1. Len(out') = Len(out) + 1 /\ out'[Len(out) + 1] = Head(sending)
            BY <2>1, <2>3, AppendProperties
        <3> QED BY <3>1 DEF Last
    <2> PICK p \in Seq(Steer), rest \in Seq(Ev) : Sent(p, rest)
        BY <1>1, <2>2, Sends
    <2>5. p = <<>> /\ sending = rest
        <3>1. Head(sending).kind # "steered"
            BY <1>1, <2>4 DEF Ends
        <3>2. Event("steered", Head(p)).kind = "steered"
            BY DEF Event
        <3> QED BY <3>1, <3>2 DEF Sent
    <2>6. 1 \in 1 .. Len(rest) /\ Head(rest) = rest[1]
        BY <2>2, <2>5, HeadTail DEF SendEvent
    <2>7. Head(rest).kind \in Ends /\ Head(rest).kind # "interrupted"
        BY <1>1, <2>4, <2>5 DEF Ends
    <2>8. run.phase = "loop" => run'.pending = <<>>
        <3>1. run.phase = "loop" => run.pending = <<>>
            BY <2>6, <2>7 DEF Sent, Rest
        <3> QED BY <3>1 DEF Sent
    <2>9. \A i \in DOMAIN sending' : sending'[i].kind # "steered"
        <3>1. sending' = Tail(rest)
            BY <2>5, <2>7 DEF Sent
        <3>2. rest # <<>>
            BY <2>2, <2>5 DEF SendEvent
        <3>3. /\ Tail(rest) \in Seq(Ev) /\ Len(Tail(rest)) = Len(rest) - 1 /\ Len(rest) \in Nat
              /\ \A i \in 1 .. Len(rest) - 1 : Tail(rest)[i] = rest[i + 1]
            BY <3>2, HeadTail
        <3>4. \A i \in 1 .. Len(rest) : rest[i].kind # "steered"
            BY DEF Sent, Rest
        <3>5. DOMAIN Tail(rest) = 1 .. Len(Tail(rest))
            BY <3>3, LenProperties
        <3> QED BY <3>1, <3>3, <3>4, <3>5
    <2> QED BY <2>8, <2>9
<1>2. Inv /\ [Next]_vars => [EndSent => Reported]_vars
    BY <1>1
<1> QED BY <1>2, RunInvariant, PTL DEF Spec, NoEndBeforeSteer

-----------------------------------------------------------------------------
(* The refinement.                                                          *)

\* The steers that the events s confirm, and all that the chat waits for.
Confirms(s) == [i \in {j \in DOMAIN s : s[j].kind = "steered"} |-> s[i].steer]

Backlog(s, r, t) == Confirms(s) \o r.pending \o t

LEMMA WaitingIsBacklog ==
    /\ ContractWaiting = IF chat.gone \/ run.phase = "ended" THEN <<>> ELSE Backlog(sending, run, steering)
    /\ ContractWaiting' = IF chat'.gone \/ run'.phase = "ended" THEN <<>> ELSE Backlog(sending', run', steering')
BY DEF ContractWaiting, Confirming, Backlog, Confirms

LEMMA ConfirmsSteered ==
    ASSUME NEW p \in Seq(Steer), NEW rest \in Seq(Ev), \A i \in 1 .. Len(rest) : rest[i].kind # "steered"
    PROVE  Confirms(Steered(p) \o rest) = p
<1> PICK a : a = Steered(p)
    OBVIOUS
<1> PICK s : s = a \o rest
    OBVIOUS
<1>1. /\ a \in Seq(Ev) /\ Len(a) = Len(p) /\ Len(p) \in Nat
      /\ \A i \in 1 .. Len(p) : a[i].kind = "steered" /\ a[i].steer = p[i]
    BY SteeredEvents, LenProperties
<1>2. IsJoin(s, a, rest)
    BY <1>1, Joined
<1>3. DOMAIN s = 1 .. Len(s) /\ DOMAIN p = 1 .. Len(p)
    BY <1>2, LenProperties DEF IsJoin
<1>4. \A i \in 1 .. Len(p) : i \in 1 .. Len(s) /\ s[i] = a[i]
    BY <1>1, <1>2 DEF IsJoin
<1>5. \A i \in 1 .. Len(s) : s[i].kind = "steered" => i \in 1 .. Len(p)
    BY <1>1, <1>2 DEF IsJoin
<1>6. {j \in DOMAIN s : s[j].kind = "steered"} = 1 .. Len(p)
    BY <1>1, <1>3, <1>4, <1>5
<1>7. Confirms(s) = [i \in 1 .. Len(p) |-> p[i]]
    BY <1>1, <1>4, <1>6 DEF Confirms
<1>8. p = [i \in 1 .. Len(p) |-> p[i]]
    BY <1>3
<1> QED BY <1>7, <1>8

LEMMA ConfirmsNothing ==
    ASSUME NEW s \in Seq(Ev), \A i \in 1 .. Len(s) : s[i].kind # "steered"
    PROVE  Confirms(s) = <<>>
BY SteeredNone, NoneYet, ConfirmsSteered

LEMMA ConfirmsAll ==
    /\ \A p \in Seq(Steer) : Confirms(Steered(p)) = p
    /\ Confirms(<<>>) = <<>>
    /\ \A ev \in Ev : ev.kind # "steered" => Confirms(<<ev>>) = <<>>
<1>1. ASSUME NEW p \in Seq(Steer) PROVE Confirms(Steered(p)) = p
    <2>1. \A i \in 1 .. Len(<<>>) : <<>>[i].kind # "steered"
        BY EmptySeq
    <2>2. Steered(p) \o <<>> = Steered(p)
        BY SteeredEvents, ConcatEmptySeq
    <2>3. Confirms(Steered(p) \o <<>>) = p
        BY <2>1, NoneYet, ConfirmsSteered
    <2> QED BY <2>2, <2>3
<1>2. Confirms(<<>>) = <<>>
    BY <1>1, SteeredNone, NoneYet
<1>3. ASSUME NEW ev \in Ev, ev.kind # "steered" PROVE Confirms(<<ev>>) = <<>>
    <2>1. \A i \in 1 .. Len(<<ev>>) : <<ev>>[i].kind # "steered"
        BY <1>3, OneEvent
    <2> QED BY <2>1, OneEvent, ConfirmsNothing
<1> QED BY <1>1, <1>2, <1>3

LEMMA QueuesTyped ==
    ASSUME Inv
    PROVE  run \in Run /\ run.pending \in Seq(Steer) /\ steering \in Seq(Steer) /\ out \in Seq(Ev)
BY DEF Inv, Types, Run

ContractStep == [Contract!Next]_(Contract!vars)

LEMMA Stutters ==
    ASSUME UNCHANGED <<cancelled, out>>, ContractPhase' = ContractPhase, ContractWaiting' = ContractWaiting,
           run'.anyDone = run.anyDone
    PROVE  ContractStep
BY DEF ContractStep, Contract!vars

\* A step inside the loop, or out of it, after which as much is left to confirm.
LEMMA LoopStutters ==
    ASSUME Inv, UNCHANGED <<cancelled, out, chat>>,
           {run.phase, run'.phase} \subseteq {"loop", "exit"}, run'.ended = run.ended,
           run'.anyDone = run.anyDone, Backlog(sending', run', steering') = Backlog(sending, run, steering)
    PROVE  ContractStep
<1>1. ContractPhase' = ContractPhase
    BY DEF ContractPhase
<1>2. ContractWaiting' = ContractWaiting
    BY WaitingIsBacklog
<1> QED BY <1>1, <1>2, Stutters

LEMMA ReadContract ==
    ASSUME Inv, ReadOutput \/ ReadResult \/ CloseSteering \/ SeeInterrupt
    PROVE  ContractStep
<1>1. run \in Run /\ sending = <<>> /\ run.phase = "loop" /\ UNCHANGED <<cancelled, out, chat, steering>>
    BY QueuesTyped DEF ReadOutput, ReadResult, CloseSteering, SeeInterrupt, Selecting
<1>2. /\ run'.phase = "loop" /\ run'.anyDone = run.anyDone /\ run'.ended = run.ended
      /\ run'.pending = run.pending
    BY <1>1 DEF ReadOutput, ReadResult, CloseSteering, SeeInterrupt, Run
<1>3. Confirms(sending') = Confirms(sending)
    <2>1. Confirms(<<>>) = <<>>
        BY ConfirmsAll
    <2>2. CASE UNCHANGED sending
        BY <2>2
    <2>3. ASSUME NEW ev \in Ev, ev.kind # "steered", sending' = <<ev>> PROVE Confirms(sending') = <<>>
        BY <2>3, ConfirmsAll
    <2>4. CASE ReadOutput
        <3>1. Head(stdout) \in Ev /\ Head(stdout).kind # "steered" /\ sending' = <<Head(stdout)>>
            BY <2>4, FrameEvent, EventTyped DEF ReadOutput, Kinds, Inv
        <3> QED BY <1>1, <2>1, <2>3, <3>1
    <2>5. CASE ReadResult
        <3> DEFINE line == Head(stdout)
                   done == Event(IF run.interrupted THEN "interrupted" ELSE line.kind, line.steer)
        <3>1. line.steer \in Steer /\ line.kind \in Ends
            BY <2>5, FrameEvent DEF ReadResult, Inv
        <3>2. done \in Ev /\ done.kind # "steered"
            BY <3>1, EventTyped DEF Kinds, Dones, Ends, Event
        <3>3. UNCHANGED sending \/ sending' = <<done>>
            BY <2>5 DEF ReadResult
        <3> QED BY <1>1, <2>1, <2>2, <2>3, <3>2, <3>3
    <2>6. CASE CloseSteering \/ SeeInterrupt
        BY <2>6 DEF CloseSteering, SeeInterrupt
    <2> QED BY <2>4, <2>5, <2>6
<1>4. Backlog(sending', run', steering') = Backlog(sending, run, steering)
    BY <1>1, <1>2, <1>3 DEF Backlog
<1> QED BY <1>1, <1>2, <1>4, LoopStutters

LEMMA ReadReplayContract == ASSUME Inv, ReadReplay PROVE ContractStep
<1> DEFINE q == run.pending
           k == Position(q, Head(stdout).steer)
           c == SubSeq(q, 1, k)
           d == SubSeq(q, k + 1, Len(q))
<1>1. run \in Run /\ q \in Seq(Steer) /\ steering \in Seq(Steer)
    BY QueuesTyped
<1>2. c \in Seq(Steer) /\ d \in Seq(Steer) /\ c \o d = q
    BY <1>1, PositionOf, Split
<1>3. /\ sending = <<>> /\ run.phase = "loop" /\ UNCHANGED <<cancelled, out, chat, steering>>
      /\ sending' = Steered(c)
      /\ run'.phase = "loop" /\ run'.anyDone = run.anyDone /\ run'.ended = run.ended /\ run'.pending = d
    BY <1>1 DEF ReadReplay, Selecting, Confirmed, Run
<1> HIDE DEF c, d, k
<1>4. Confirms(sending) = <<>>
    BY <1>3, ConfirmsAll
<1>5. Confirms(sending') = c
    BY <1>2, <1>3, ConfirmsAll
<1>6. Backlog(sending', run', steering') = Backlog(sending, run, steering)
    <2>1. Backlog(sending', run', steering') = (c \o d) \o steering
        BY <1>3, <1>5 DEF Backlog
    <2>2. Backlog(sending, run, steering) = (<<>> \o q) \o steering
        BY <1>4 DEF Backlog
    <2>3. <<>> \o q = q
        BY <1>1, ConcatEmptySeq
    <2> QED BY <1>2, <2>1, <2>2, <2>3
<1> QED BY <1>3, <1>6, LoopStutters

LEMMA HoldExpiresContract == ASSUME Inv, HoldExpires PROVE ContractStep
<1>1. run \in Run /\ run.pending \in Seq(Steer) /\ steering \in Seq(Steer) /\ run.held \in Seq(Ev)
    BY QueuesTyped DEF Run
<1>2. /\ sending = <<>> /\ run.phase = "loop" /\ UNCHANGED <<cancelled, out, chat, steering>>
      /\ sending' = Steered(run.pending) \o run.held
      /\ run'.phase = "loop" /\ run'.anyDone = run.anyDone /\ run'.ended = run.ended /\ run'.pending = <<>>
    BY <1>1 DEF HoldExpires, Expired, Selecting, Run
<1>3. \A i \in 1 .. Len(run.held) : run.held[i].kind # "steered"
    BY DEF Inv, Order, Locals, Ends
<1>4. Confirms(sending') = run.pending /\ Confirms(sending) = <<>>
    BY <1>1, <1>2, <1>3, ConfirmsSteered, ConfirmsAll
<1>5. Backlog(sending', run', steering') = Backlog(sending, run, steering)
    BY <1>1, <1>2, <1>4, ConcatEmptySeq DEF Backlog
<1> QED BY <1>2, <1>5, LoopStutters

\* Nothing said on the way out of the loop confirms a steer.
LEMMA LeavesContract ==
    ASSUME Inv, run.phase = "loop", sending = <<>>, NEW r \in Run,
           r.held = run.held, r.interrupted = run.interrupted, r.anyDone = run.anyDone, r.ended = run.ended,
           UNCHANGED <<cancelled, out, chat>>, run' = [r EXCEPT !.phase = "exit", !.held = <<>>],
           NEW first \in Seq(Ev), first = <<>> \/ first = <<Event("error", 0)>>,
           sending' = first \o ExitEvents(r),
           r.pending \o steering' = run.pending \o steering
    PROVE  ContractStep
<1>1. /\ run'.phase = "exit" /\ run'.anyDone = run.anyDone /\ run'.ended = run.ended /\ ~run.ended
      /\ run'.pending = r.pending
    BY DEF Inv, Order, Locals, Run
<1>2. Len(run.held) <= 1 /\ \A i \in 1 .. Len(run.held) : run.held[i].kind \in Ends
    BY DEF Inv, Order, Locals
<1>3. LastWords(first \o ExitEvents(r), r)
    BY <1>1, <1>2, ExitShape
<1>4. Confirms(sending') = <<>> /\ Confirms(sending) = <<>>
    BY <1>3, ConfirmsNothing, ConfirmsAll DEF LastWords
<1>5. Backlog(sending', run', steering') = (<<>> \o r.pending) \o steering'
    BY <1>1, <1>4 DEF Backlog
<1>6. Backlog(sending, run, steering) = (<<>> \o run.pending) \o steering
    BY <1>4 DEF Backlog
<1>7. r.pending \in Seq(Steer) /\ run.pending \in Seq(Steer)
    BY QueuesTyped DEF Run
<1>8. <<>> \o r.pending = r.pending /\ <<>> \o run.pending = run.pending
    BY <1>7, ConcatEmptySeq
<1>9. Backlog(sending', run', steering') = Backlog(sending, run, steering)
    BY <1>5, <1>6, <1>8
<1> QED BY <1>1, <1>9, LoopStutters

LEMMA ReadEndContract == ASSUME Inv, ReadEnd \/ ReadError PROVE ContractStep
<1>1. run \in Run /\ run.phase = "loop" /\ sending = <<>> /\ UNCHANGED <<cancelled, out, chat, steering>>
    BY QueuesTyped DEF ReadEnd, ReadError, Selecting
<1>2. <<>> \in Seq(Ev) /\ <<Event("error", 0)>> \in Seq(Ev)
    BY NoneYet, OneEvent, EventTyped, SteerZero DEF Kinds
<1>3. PICK first \in Seq(Ev) : (first = <<>> \/ first = <<Event("error", 0)>>) /\ LeaveLoop(first)
    BY <1>2 DEF ReadEnd, ReadError
<1> QED BY <1>1, <1>3, LeavesContract DEF LeaveLoop

\* A steer that the harness takes from the channel still waits to be confirmed.
LEMMA AcceptSteerContract == ASSUME Inv, AcceptSteer PROVE ContractStep
<1> DEFINE n == Head(steering)
           q == run.pending
           r == [run EXCEPT !.pending = Append(@, n)]
<1>1. /\ run \in Run /\ q \in Seq(Steer) /\ steering \in Seq(Steer) /\ run.phase = "loop" /\ sending = <<>>
      /\ UNCHANGED <<cancelled, out, chat>> /\ steering # <<>> /\ steering' = Tail(steering)
    BY QueuesTyped DEF AcceptSteer, Selecting
<1>2. n \in Steer /\ Tail(steering) \in Seq(Steer) /\ Len(steering) \in Nat \ {0} /\ n = steering[1]
    BY <1>1, HeadTail
<1>3. /\ r \in Run /\ r.pending = Append(q, n) /\ r.held = run.held /\ r.interrupted = run.interrupted
      /\ r.phase = "loop" /\ r.anyDone = run.anyDone /\ r.ended = run.ended
    <2>1. r \in Run
        BY <1>1, <1>2, RunSteps
    <2> QED BY <1>1, <2>1 DEF Run
<1>4. Append(q, n) \o Tail(steering) = q \o steering
    <2>1. <<n>> \in Seq(Steer)
        BY <1>2
    <2>2. Append(q, n) = q \o <<n>>
        BY <1>1, <1>2, AppendIsConcat
    <2>3. <<n>> \o Tail(steering) = steering
        <3>1. SubSeq(steering, 1, Len(steering)) = <<steering[1]>> \o SubSeq(steering, 1 + 1, Len(steering))
            BY <1>1, <1>2, SubSeqRecursiveFirst
        <3>2. SubSeq(steering, 1, Len(steering)) = steering /\ Tail(steering) = SubSeq(steering, 2, Len(steering))
            BY <1>1, SubSeqFull, TailIsSubSeq
        <3> QED BY <1>2, <3>1, <3>2
    <2>4. (q \o <<n>>) \o Tail(steering) = q \o (<<n>> \o Tail(steering))
        BY <1>1, <1>2, <2>1, ConcatAssociative, SMTT(30)
    <2> QED BY <2>2, <2>3, <2>4
<1>5. r.pending \o steering' = q \o steering
    BY <1>1, <1>3, <1>4
<1> HIDE DEF r
<1>6. CASE run' = r /\ UNCHANGED sending
    <2>1. Confirms(sending) = <<>> /\ Confirms(sending') = <<>>
        BY <1>1, <1>6, ConfirmsAll
    <2>2. <<>> \o q = q /\ <<>> \o r.pending = r.pending
        <3>1. r.pending \in Seq(Steer)
            BY <1>3 DEF Run
        <3> QED BY <1>1, <3>1, ConcatEmptySeq
    <2>3. Backlog(sending', run', steering') = Backlog(sending, run, steering)
        BY <1>5, <1>6, <2>1, <2>2 DEF Backlog
    <2> QED BY <1>1, <1>3, <1>6, <2>3, LoopStutters
<1>7. CASE run' = [r EXCEPT !.phase = "exit", !.held = <<>>] /\ sending' = ExitEvents(r)
    <2>1. sending' = <<>> \o ExitEvents(r)
        BY <1>3, <1>7, ExitEventsTyped, ConcatEmptySeq
    <2> QED BY <1>1, <1>3, <1>5, <1>7, <2>1, NoneYet, LeavesContract
<1> QED BY <1>6, <1>7 DEF AcceptSteer, r

LEMMA HeadTailQueues ==
    ASSUME NEW p \in Seq(Steer), p # <<>>, NEW q \in Seq(Steer), NEW t \in Seq(Steer)
    PROVE  p \o q \o t # <<>> /\ Head(p \o q \o t) = Head(p) /\ Tail(p \o q \o t) = Tail(p) \o q \o t
<1>1. Tail(p) \in Seq(Steer) /\ q \o t \in Seq(Steer)
    BY HeadTail, ConcatProperties
<1>2. (p \o q) \o t = p \o (q \o t)
    BY ConcatAssociative
<1>3. (Tail(p) \o q) \o t = Tail(p) \o (q \o t)
    BY <1>1, ConcatAssociative, SMTT(30)
<1>4. p \o (q \o t) # <<>>
    BY <1>1, ConcatEqualIffEmpty
<1>5. Head(p \o (q \o t)) = Head(p) /\ Tail(p \o (q \o t)) = Tail(p) \o (q \o t)
    BY <1>1, HeadTailJoined
<1> QED BY <1>2, <1>3, <1>4, <1>5

\* What is sent is a step of the contract: a steer confirmed in its turn, an
\* event of a running turn, a turn end, or the end of an interrupted run.
LEMMA SendEventContract == ASSUME Inv, SendEvent PROVE ContractStep
<1> DEFINE ev == Head(sending)
<1> PICK p \in Seq(Steer), rest \in Seq(Ev) : Sent(p, rest)
    BY Sends
<1>1. /\ sending # <<>> /\ ~chat.gone /\ out' = Append(out, ev)
      /\ UNCHANGED <<cancelled, chat, steering>> /\ sending \in Seq(Ev)
    BY DEF SendEvent, Inv, Types
<1>2. ev \in Ev /\ Tail(sending) \in Seq(Ev)
    BY <1>1, HeadTail
<1>3. Rest(run, chat.gone, p, rest) /\ sending = Steered(p) \o rest /\ run'.pending = run.pending
    BY DEF Sent
<1>4. run \in Run /\ run.pending \in Seq(Steer) /\ steering \in Seq(Steer)
    BY QueuesTyped
<1>5. run.phase \in {"loop", "exit"} /\ ~run.ended
    BY <1>1, <1>3, <1>4, SteeredNone DEF Rest, Run
<1>6. ContractPhase = "live" /\ \A i \in 1 .. Len(rest) : rest[i].kind # "steered"
    BY <1>1, <1>3, <1>5 DEF ContractPhase, Rest
<1>7. ContractWaiting = p \o run.pending \o steering
    BY <1>1, <1>3, <1>5, <1>6, WaitingIsBacklog, ConfirmsSteered DEF Backlog
<1> DEFINE w == p \o run.pending \o steering
<1>8. CASE /\ p # <<>> /\ ev = Event("steered", Head(p))
           /\ sending' = Steered(Tail(p)) \o rest
           /\ run'.phase = run.phase /\ run'.anyDone = run.anyDone /\ run'.ended = run.ended
    <2>1. ContractPhase' = "live"
        BY <1>1, <1>5, <1>8 DEF ContractPhase
    <2>2. ContractWaiting' = Tail(p) \o run.pending \o steering
        <3>1. Tail(p) \in Seq(Steer)
            BY <1>8, HeadTail
        <3>2. Confirms(sending') = Tail(p)
            BY <1>6, <1>8, <3>1, ConfirmsSteered
        <3> QED BY <1>1, <1>3, <1>5, <1>8, <3>2, WaitingIsBacklog DEF Backlog
    <2>3. w # <<>> /\ Head(w) = Head(p) /\ Tail(w) = Tail(p) \o run.pending \o steering
        BY <1>4, <1>8, HeadTailQueues, ZenonT(40)
    <2>4. ev = [kind |-> "steered", steer |-> Head(w)]
        BY <1>8, <2>3 DEF Event
    <2>5. Contract!TakeSteer
        BY <1>1, <1>6, <1>7, <1>8, <2>1, <2>2, <2>3, <2>4 DEF Contract!TakeSteer
    <2> QED BY <2>5 DEF ContractStep, Contract!Next
<1>9. ASSUME p = <<>>, sending = rest, Confirms(sending') = <<>>, run'.phase # "ended"
      PROVE  ContractWaiting' = ContractWaiting
    BY <1>1, <1>3, <1>7, <1>9, WaitingIsBacklog DEF Backlog
<1>10. CASE /\ p = <<>> /\ sending = rest /\ Head(rest) \in Ev
            /\ Head(rest).kind # "interrupted"
            /\ sending' = Tail(rest)
            /\ run'.phase = run.phase /\ run'.ended = run.ended
            /\ run'.anyDone = (run.anyDone \/ Head(rest).kind \in Ends)
    <2>1. ContractPhase' = "live"
        BY <1>1, <1>5, <1>10 DEF ContractPhase
    <2>2. Confirms(sending') = <<>>
        <3> PICK t : t = Tail(rest)
            OBVIOUS
        <3>1. t \in Seq(Ev) /\ \A i \in 1 .. Len(t) : i + 1 \in 1 .. Len(rest) /\ t[i] = rest[i + 1]
            <4>1. /\ t \in Seq(Ev) /\ Len(rest) \in Nat \ {0} /\ Len(t) = Len(rest) - 1
                  /\ \A i \in 1 .. Len(rest) - 1 : t[i] = rest[i + 1]
                BY <1>1, <1>10, HeadTail
            <4> QED BY <4>1
        <3>2. \A i \in 1 .. Len(t) : t[i].kind # "steered"
            BY <1>6, <3>1
        <3> QED BY <1>10, <3>1, <3>2, ConfirmsNothing
    <2>3. ContractWaiting' = ContractWaiting
        BY <1>5, <1>9, <1>10, <2>2
    <2>4. ev.kind # "steered" /\ ev.kind # "interrupted" /\ ev = Head(rest)
        <3>1. 1 \in 1 .. Len(rest) /\ Head(rest) = rest[1]
            BY <1>1, <1>10, HeadTail
        <3> QED BY <1>6, <1>10, <3>1
    <2>5. CASE ev.kind \in Ends
        <3>1. ev \in [kind : {"completed", "errored"}, steer : 0 .. MaxSteers]
            BY <1>2, <2>5 DEF Ev, Steer, Ends
        <3>2. run'.anyDone = TRUE
            BY <1>10, <2>4, <2>5
        <3>3. Contract!TurnEnd
            BY <1>1, <1>6, <2>1, <2>3, <3>1, <3>2 DEF Contract!TurnEnd
        <3> QED BY <3>3 DEF ContractStep, Contract!Next
    <2>6. CASE ev.kind \notin Ends
        <3>1. ev \in [kind : {"work", "error"}, steer : 0 .. MaxSteers]
            BY <1>2, <2>4, <2>6 DEF Ev, Steer, Kinds, Dones
        <3>2. run'.anyDone = run.anyDone
            <4>1. run.anyDone \in BOOLEAN
                BY <1>4 DEF Run
            <4> QED BY <1>10, <2>4, <2>6, <4>1
        <3>3. Contract!Emit
            BY <1>1, <1>6, <2>1, <2>3, <3>1, <3>2 DEF Contract!Emit
        <3> QED BY <3>3 DEF ContractStep, Contract!Next
    <2> QED BY <2>5, <2>6
<1>11. CASE /\ p = <<>> /\ sending = rest /\ rest = <<Head(rest)>> /\ Head(rest) \in Ev
            /\ Head(rest).kind = "interrupted"
            /\ sending' = <<>>
            /\ run'.phase = "exit" /\ run'.anyDone = TRUE /\ run'.ended = TRUE
    <2>1. ContractPhase' = "closing"
        BY <1>1, <1>11 DEF ContractPhase
    <2>2. ContractWaiting' = ContractWaiting
        BY <1>9, <1>11, ConfirmsAll
    <2>3. ev = [kind |-> "interrupted", steer |-> ev.steer] /\ ev.steer \in 0 .. MaxSteers
        BY <1>2, <1>11 DEF Ev, Steer
    <2>4. cancelled = TRUE
        <3>1. 1 \in 1 .. Len(rest) /\ Head(rest) = rest[1]
            BY <1>1, <1>11, HeadTail
        <3>2. run.interrupted
            BY <1>3, <1>11, <3>1 DEF Rest
        <3> QED BY <3>2 DEF Inv, Order, Locals, Types
    <2>5. Contract!Interrupted
        BY <1>1, <1>6, <1>11, <2>1, <2>2, <2>3, <2>4 DEF Contract!Interrupted
    <2> QED BY <2>5 DEF ContractStep, Contract!Next
<1> QED BY <1>8, <1>10, <1>11 DEF Sent

LEMMA LoopOverContract == ASSUME Inv, ConsumerGone \/ AllReported \/ Shutdown PROVE ContractStep
<1>1. run \in Run
    BY QueuesTyped
<1>2. UNCHANGED <<out, cancelled, chat>> /\ run'.anyDone = run.anyDone /\ run'.ended = run.ended
    BY <1>1 DEF ConsumerGone, AllReported, Shutdown, Run
<1>3. CASE chat.gone
    <2>1. ContractPhase' = ContractPhase /\ ContractWaiting' = ContractWaiting
        BY <1>2, <1>3 DEF ContractPhase, ContractWaiting
    <2> QED BY <1>2, <2>1, Stutters
<1>4. CASE ~chat.gone /\ AllReported
    <2>1. run.phase = "exit" /\ run'.phase = "shutdown" /\ run'.pending = run.pending
          /\ UNCHANGED <<sending, steering>> /\ sending = <<>>
        BY <1>1, <1>4 DEF AllReported, Run
    <2>2. ContractWaiting' = ContractWaiting
        BY <1>2, <1>4, <2>1, WaitingIsBacklog DEF Backlog
    <2>3. CASE run.ended
        <3>1. ContractPhase' = ContractPhase
            BY <1>2, <1>4, <2>1, <2>3 DEF ContractPhase
        <3> QED BY <1>2, <2>2, <3>1, Stutters
    <2>4. CASE ~run.ended
        <3>1. ContractPhase = "live" /\ ContractPhase' = "closing"
            BY <1>2, <1>4, <2>1, <2>4 DEF ContractPhase
        <3>2. run.anyDone
            BY <1>4, <2>1, <2>4, AtSelect, EmptySeq DEF Rest
        <3>3. Contract!Leave
            BY <1>2, <2>2, <3>1, <3>2 DEF Contract!Leave
        <3> QED BY <3>3 DEF ContractStep, Contract!Next
    <2> QED BY <2>3, <2>4
<1>5. CASE ~chat.gone /\ Shutdown
    <2>1. run.phase = "shutdown" /\ run'.phase = "ended"
        BY <1>1, <1>5 DEF Shutdown, Run
    <2>2. ContractPhase = "closing" /\ ContractPhase' = "closed" /\ ContractWaiting' = <<>>
        BY <1>2, <1>5, <2>1 DEF ContractPhase, ContractWaiting
    <2>3. Contract!Close
        BY <1>2, <2>2 DEF Contract!Close
    <2> QED BY <2>3 DEF ContractStep, Contract!Next
<1> QED BY <1>3, <1>4, <1>5 DEF ConsumerGone

LEMMA ChatSteerContract == ASSUME Inv, ChatSteer PROVE ContractStep
<1> DEFINE n == chat.pushed + 1
           w == Confirms(sending) \o run.pending
<1>1. /\ ~chat.gone /\ run.phase # "ended" /\ UNCHANGED <<run, sending, out, cancelled>>
      /\ steering' = Append(steering, n)
    BY DEF ChatSteer
<1>2. chat'.gone = chat.gone /\ n \in Steer
    BY BoundsAssumption DEF ChatSteer, Inv, Types, Chat, Steer
<1>3. ContractPhase \in {"live", "closing"} /\ ContractPhase' = ContractPhase
    BY <1>1, <1>2 DEF ContractPhase
<1>4. ContractWaiting = w \o steering /\ ContractWaiting' = w \o Append(steering, n)
    BY <1>1, <1>2, WaitingIsBacklog DEF Backlog
<1>5. w \in Seq(Steer) /\ steering \in Seq(Steer)
    <2> PICK p \in Seq(Steer), rest \in Seq(Ev) : sending = Steered(p) \o rest /\ Rest(run, chat.gone, p, rest)
        BY DEF Inv, Order, Queued
    <2>1. Confirms(sending) = p
        BY ConfirmsSteered DEF Rest
    <2> QED BY <2>1, QueuesTyped, ConcatProperties
<1> HIDE DEF w, n
<1>6. w \o Append(steering, n) = Append(w \o steering, n)
    <2>1. <<n>> \in Seq(Steer) /\ w \o steering \in Seq(Steer)
        BY <1>2, <1>5, ConcatProperties
    <2>2. Append(steering, n) = steering \o <<n>> /\ Append(w \o steering, n) = (w \o steering) \o <<n>>
        BY <1>2, <1>5, <2>1, AppendIsConcat
    <2> QED BY <1>5, <2>1, <2>2, ConcatAssociative
<1>7. Contract!Push
    BY <1>1, <1>2, <1>3, <1>4, <1>6 DEF Contract!Push, Steer
<1> QED BY <1>7 DEF ContractStep, Contract!Next

LEMMA ChatReceiveContract == ASSUME Inv, ChatReceive PROVE ContractStep
<1>1. chat \in Chat
    BY DEF Inv, Types
<1>2. chat'.gone = chat.gone /\ UNCHANGED <<run, sending, steering, cancelled>>
    BY <1>1 DEF ChatReceive, Chat
<1>3. ContractPhase' = ContractPhase /\ ContractWaiting' = ContractWaiting
    BY <1>2, WaitingIsBacklog DEF ContractPhase
<1>4. Contract!Receive
    BY <1>2, <1>3 DEF ChatReceive, Contract!Receive
<1> QED BY <1>4 DEF ContractStep, Contract!Next

LEMMA ChatStopContract == ASSUME Inv, ChatStop PROVE ContractStep
<1>1. UNCHANGED <<run, sending, out, steering, chat>> /\ cancelled' = TRUE
    BY DEF ChatStop
<1>2. ContractPhase' = ContractPhase /\ ContractWaiting' = ContractWaiting
    BY <1>1, WaitingIsBacklog DEF ContractPhase
<1>3. Contract!Stop
    BY <1>1, <1>2 DEF Contract!Stop
<1> QED BY <1>3 DEF ContractStep, Contract!Next

LEMMA ChatGoneContract ==
    ASSUME Inv, ChatRunEnded \/ \E states \in {{"asked"}, {"asked", "open"}} : ChatLeave(states)
    PROVE  ContractStep
<1>1. chat \in Chat
    BY DEF Inv, Types
<1>2. chat'.gone = TRUE /\ UNCHANGED <<run, cancelled>> /\ out' = <<>>
    BY <1>1 DEF ChatRunEnded, ChatLeave, Chat
<1>3. ContractPhase' = "left" /\ ContractWaiting' = <<>>
    BY <1>2, WaitingIsBacklog DEF ContractPhase
<1>4. Contract!DropRun
    BY <1>2, <1>3 DEF Contract!DropRun
<1> QED BY <1>4 DEF ContractStep, Contract!Next

LEMMA AsideContract ==
    ASSUME Inv,
           \/ ReadRequest \/ Escalate \/ (\E r \in Requests : Respond(r)) \/ CliNext
           \/ \E r \in Requests : ChatReceiveQuestion(r)
           \/ \E r \in Requests, allow \in BOOLEAN : ChatAnswer(r, allow)
           \/ UNCHANGED vars
    PROVE  ContractStep
<1>1. chat \in Chat
    BY DEF Inv, Types
<1>2. ASSUME UNCHANGED <<run, sending, out, steering, cancelled>>, chat'.gone = chat.gone PROVE ContractStep
    <2>1. ContractPhase' = ContractPhase /\ ContractWaiting' = ContractWaiting
        BY <1>2, WaitingIsBacklog DEF ContractPhase
    <2> QED BY <1>2, <2>1, Stutters
<1>3. CASE CliNext
    <2>1. CliOnly
        BY <1>3 DEF CliNext, CliOutput, CliAbsorb, CliReadLine, CliExit, CliEndTurn, CliTakeSteers, CliAsk
    <2> QED BY <1>2, <2>1 DEF CliOnly
<1>4. CASE ReadRequest \/ Escalate \/ UNCHANGED vars
    <2>1. UNCHANGED <<run, sending, out, steering, cancelled, chat>>
        BY <1>4 DEF ReadRequest, Escalate, vars
    <2> QED BY <1>2, <2>1
<1>5. ASSUME NEW r \in Requests, Respond(r) \/ ChatReceiveQuestion(r) PROVE ContractStep
    BY <1>2, <1>5 DEF Respond, ChatReceiveQuestion
<1>6. ASSUME NEW r \in Requests, NEW allow \in BOOLEAN, ChatAnswer(r, allow) PROVE ContractStep
    <2>1. chat'.gone = chat.gone
        BY <1>1, <1>6 DEF ChatAnswer, Chat
    <2> QED BY <1>2, <1>6, <2>1 DEF ChatAnswer
<1> QED BY <1>3, <1>4, <1>5, <1>6

\* Every step of a Claude run is a step of the contract, or none of its concern.
LEMMA NextContract == Inv /\ [Next]_vars => ContractStep
<1> SUFFICES ASSUME Inv, [Next]_vars PROVE ContractStep
    OBVIOUS
<1>1. CASE HarnessNext
    BY <1>1, ReadContract, ReadReplayContract, ReadEndContract, HoldExpiresContract, AcceptSteerContract,
       SendEventContract, LoopOverContract, AsideContract DEF HarnessNext
<1>2. CASE Escalate \/ (\E r \in Requests : Respond(r)) \/ CliNext \/ UNCHANGED vars
    BY <1>2, AsideContract
<1>3. CASE ChatNext
    BY <1>3, ChatSteerContract, ChatStopContract, ChatReceiveContract, ChatGoneContract, AsideContract
    DEF ChatNext
<1> QED BY <1>1, <1>2, <1>3 DEF Next

LEMMA InitContract == Init => Contract!Init
<1> SUFFICES ASSUME Init PROVE Contract!Init
    OBVIOUS
<1>1. /\ run.phase = "loop" /\ run.pending = <<>> /\ run.anyDone = FALSE /\ run.ended = FALSE
      /\ sending = <<>> /\ out = <<>> /\ steering = <<>> /\ cancelled = FALSE /\ chat.gone = FALSE
    BY DEF Init
<1>2. ContractPhase = "live"
    BY <1>1 DEF ContractPhase
<1>3. ContractWaiting = <<>>
    BY <1>1, WaitingIsBacklog, ConfirmsAll, NoneYet, ConcatEmptySeq DEF Backlog
<1> QED BY <1>1, <1>2, <1>3 DEF Contract!Init

\* A Claude run makes no step that its chat was not promised: steers confirmed in
\* the order in which they were sent, an interrupt answered once and last, and no
\* end of the stream before a turn end, for any CLI, steers, capacities and faults.
THEOREM KeepsTheContract == Spec => KeepsContract
BY RunInvariant, InitContract, NextContract, PTL DEF Spec, KeepsContract, Contract!Spec, ContractStep

=============================================================================
