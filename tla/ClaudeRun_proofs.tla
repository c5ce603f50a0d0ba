--------------------------- MODULE ClaudeRun_proofs ---------------------------
(***************************************************************************)
(* Three proofs about ClaudeRun, for any requests, permission modes and    *)
(* bounds: no tool is allowed without the user's word, no text is shown    *)
(* above the steer it answers, and the chat works iff the agent does.      *)
(*                                                                         *)
(* For the first only the lines for the CLI and the answers of the user    *)
(* matter, and the invariant types no more than what leads to them.  The   *)
(* second follows a steer from the chat to the agent and back, on top of   *)
(* the invariant of ClaudeContract_proofs.  The third follows the turns as *)
(* well, from the last line the agent wrote to the last event for the      *)
(* chat; that a turn end is not released early needs the agent to write    *)
(* something within the settle time, so "silence" is excluded there and    *)
(* nowhere else.                                                           *)
(***************************************************************************)
EXTENDS ClaudeContract_proofs, FiniteSetTheorems

LineKinds == {"steer", "close", "interrupt", "response"}

Line == [kind : LineKinds, what : Nat \cup Requests, allow : BOOLEAN]

\* The user, or the permission mode of the run, stands behind what a line allows.
Justified(line) ==
    (line.kind = "response" /\ line.allow /\ line.what \in Permissions)
        => run.skip \/ line.what \in chat.allowed

AllowInv ==
    /\ stdin \in Seq(Line) /\ steering \in Seq(Nat)
    /\ "skip" \in DOMAIN run /\ run.skip \in BOOLEAN
    /\ {"allowed", "pushed"} \subseteq DOMAIN chat /\ chat.pushed \in Nat
    /\ DOMAIN asks = Requests
    /\ \A r \in Requests : asks[r] = "yes" => r \in chat.allowed
    /\ \A i \in DOMAIN stdin : Justified(stdin[i])

\* What most steps keep: the mode of the run, and every word of the user.
KeepsWords ==
    /\ "skip" \in DOMAIN run' /\ run'.skip = run.skip
    /\ {"allowed", "pushed"} \subseteq DOMAIN chat' /\ chat'.pushed \in Nat
    /\ chat.allowed \subseteq chat'.allowed

LEMMA InitAllow == Init => AllowInv
<1> SUFFICES ASSUME Init PROVE AllowInv
    OBVIOUS
<1>1. "skip" \in DOMAIN run /\ run.skip \in BOOLEAN
    BY ModesAssumption DEF Init
<1>2. stdin = <<>> /\ steering = <<>>
    BY DEF Init
<1>3. {"allowed", "pushed"} \subseteq DOMAIN chat /\ chat.pushed \in Nat
    BY DEF Init
<1>4. DOMAIN asks = Requests /\ \A r \in Requests : asks[r] # "yes"
    BY DEF Init
<1> QED BY <1>1, <1>2, <1>3, <1>4 DEF AllowInv

\* The lines already written stay justified, and there may be fewer of them.
LEMMA LinesKept ==
    ASSUME AllowInv, KeepsWords, stdin' = stdin \/ stdin' = <<>> \/ (stdin # <<>> /\ stdin' = Tail(stdin))
    PROVE  stdin' \in Seq(Line) /\ (\A i \in DOMAIN stdin : Justified(stdin[i]))'
<1>1. \A l \in Line : Justified(l) => Justified(l)'
    BY DEF Justified, KeepsWords
<1>2. CASE stdin' = stdin
    BY <1>1, <1>2 DEF AllowInv, Justified, KeepsWords
<1>3. CASE stdin' = <<>>
    BY <1>3
<1>4. CASE stdin # <<>> /\ stdin' = Tail(stdin)
    <2>1. stdin' \in Seq(Line)
        BY <1>4 DEF AllowInv
    <2>2. \A i \in DOMAIN stdin' : i + 1 \in DOMAIN stdin /\ stdin'[i] = stdin[i + 1]
        BY <1>4 DEF AllowInv
    <2> QED BY <2>1, <2>2 DEF AllowInv, Justified, KeepsWords
<1> QED BY <1>2, <1>3, <1>4

\* A line is written that is justified by what is known before the step.
LEMMA LineWritten ==
    ASSUME AllowInv, KeepsWords, NEW l \in Line, Justified(l), Write(l)
    PROVE  stdin' \in Seq(Line) /\ (\A i \in DOMAIN stdin : Justified(stdin[i]))'
<1>1. CASE stdin' = stdin
    BY <1>1, LinesKept
<1>2. CASE stdin' = Append(stdin, l)
    <2>1. stdin' \in Seq(Line) /\ Len(stdin') = Len(stdin) + 1
        BY <1>2 DEF AllowInv
    <2>2. \A i \in DOMAIN stdin' : (i \in DOMAIN stdin /\ stdin'[i] = stdin[i]) \/ stdin'[i] = l
        BY <1>2 DEF AllowInv
    <2> QED BY <2>1, <2>2 DEF AllowInv, Justified, KeepsWords
<1> QED BY <1>1, <1>2 DEF Write

\* What a step has to show of the invariant, by what it changes.
LEMMA AllowStep ==
    ASSUME AllowInv, KeepsWords, steering' \in Seq(Nat),
           stdin' \in Seq(Line), (\A i \in DOMAIN stdin : Justified(stdin[i]))',
           DOMAIN asks' = Requests, \A r \in Requests : asks'[r] = "yes" => r \in chat'.allowed
    PROVE  AllowInv'
BY DEF AllowInv, KeepsWords

\* A step between the loop, the CLI and the chat that neither writes to the CLI
\* nor has to do with requests.
LEMMA QuietStep ==
    ASSUME AllowInv, KeepsWords, steering' \in Seq(Nat), UNCHANGED asks,
           stdin' = stdin \/ stdin' = <<>> \/ (stdin # <<>> /\ stdin' = Tail(stdin))
    PROVE  AllowInv'
<1>1. \A r \in Requests : asks'[r] = "yes" => r \in chat'.allowed
    BY DEF AllowInv, KeepsWords
<1> QED BY <1>1, LinesKept, AllowStep DEF AllowInv

\* A step that changes nothing of the run but other locals.
LEMMA SameWords ==
    ASSUME AllowInv, UNCHANGED chat, DOMAIN run' = DOMAIN run, run'.skip = run.skip
    PROVE  KeepsWords
BY DEF AllowInv, KeepsWords

-----------------------------------------------------------------------------
(* The loop.                                                                *)

LEMMA LoopQuiet ==
    ASSUME AllowInv,
           \/ ReadOutput \/ ReadReplay \/ ReadResult \/ HoldExpires \/ ReadEnd \/ ReadError
           \/ SendEvent \/ ConsumerGone \/ AllReported
    PROVE  AllowInv'
<1>1. UNCHANGED <<steering, stdin, asks, chat>>
    BY DEF ReadOutput, ReadReplay, ReadResult, HoldExpires, ReadEnd, ReadError, SendEvent,
           ConsumerGone, AllReported
<1>2. DOMAIN run' = DOMAIN run /\ run'.skip = run.skip
    <2>1. CASE ReadOutput
        BY <2>1 DEF ReadOutput
    <2>2. CASE ReadReplay
        BY <2>2 DEF ReadReplay, AllowInv
    <2>3. CASE ReadResult
        BY <2>3 DEF ReadResult, AllowInv
    <2>4. CASE HoldExpires
        BY <2>4 DEF HoldExpires, AllowInv
    <2>5. CASE ReadEnd \/ ReadError
        BY <2>5 DEF ReadEnd, ReadError, LeaveLoop, AllowInv
    <2>6. CASE SendEvent
        BY <2>6 DEF SendEvent, AllowInv
    <2>7. CASE ConsumerGone \/ AllReported
        BY <2>7 DEF ConsumerGone, AllReported, AllowInv
    <2> QED BY <2>1, <2>2, <2>3, <2>4, <2>5, <2>6, <2>7
<1> QED BY <1>1, <1>2, SameWords, QuietStep DEF AllowInv

LEMMA ShutdownAllow == ASSUME AllowInv, Shutdown PROVE AllowInv'
<1>1. DOMAIN run' = DOMAIN run /\ run'.skip = run.skip
    BY DEF Shutdown, AllowInv
<1>2. stdin' = <<>> /\ steering' = <<>> /\ UNCHANGED <<asks, chat>>
    BY DEF Shutdown
<1>3. steering' \in Seq(Nat)
    BY <1>2
<1> QED BY <1>1, <1>2, <1>3, SameWords, QuietStep

\* A line that is not the answer to a request allows nothing.
LEMMA OtherLine ==
    ASSUME NEW kind \in {"steer", "close", "interrupt"}, NEW what \in Nat
    PROVE  StdinLine(kind, what, FALSE) \in Line /\ Justified(StdinLine(kind, what, FALSE))
<1> DEFINE l == StdinLine(kind, what, FALSE)
<1>1. l.kind = kind /\ l.what = what /\ l.allow = FALSE
    BY DEF StdinLine
<1>2. l \in Line
    BY DEF StdinLine, Line, LineKinds
<1>3. Justified(l)
    BY <1>1 DEF Justified
<1> QED BY <1>2, <1>3

LEMMA AcceptSteerAllow == ASSUME AllowInv, AcceptSteer PROVE AllowInv'
<1>1. Head(steering) \in Nat /\ steering' \in Seq(Nat)
    BY DEF AcceptSteer, AllowInv
<1>2. DOMAIN run' = DOMAIN run /\ run'.skip = run.skip
    BY DEF AcceptSteer, AllowInv
<1>3. KeepsWords /\ UNCHANGED <<asks, chat>>
    BY <1>2, SameWords DEF AcceptSteer
<1>4. CASE Write(StdinLine("steer", Head(steering), FALSE))
    <2>1. stdin' \in Seq(Line) /\ (\A i \in DOMAIN stdin : Justified(stdin[i]))'
        BY <1>1, <1>3, <1>4, OtherLine, LineWritten
    <2> QED BY <1>1, <1>3, <2>1, AllowStep DEF AllowInv
<1>5. CASE UNCHANGED stdin
    BY <1>1, <1>3, <1>5, QuietStep
<1> QED BY <1>4, <1>5 DEF AcceptSteer

LEMMA CloseSteeringAllow == ASSUME AllowInv, CloseSteering PROVE AllowInv'
<1>1. DOMAIN run' = DOMAIN run /\ run'.skip = run.skip
    BY DEF CloseSteering, AllowInv
<1>2. KeepsWords /\ UNCHANGED <<asks, chat, steering>>
    BY <1>1, SameWords DEF CloseSteering
<1>3. stdin' \in Seq(Line) /\ (\A i \in DOMAIN stdin : Justified(stdin[i]))'
    BY <1>2, OtherLine, LineWritten DEF CloseSteering
<1> QED BY <1>2, <1>3, AllowStep DEF AllowInv

LEMMA SeeInterruptAllow == ASSUME AllowInv, SeeInterrupt PROVE AllowInv'
<1>1. DOMAIN run' = DOMAIN run /\ run'.skip = run.skip
    BY DEF SeeInterrupt, AllowInv
<1>2. KeepsWords /\ UNCHANGED <<asks, chat, steering>>
    BY <1>1, SameWords DEF SeeInterrupt
<1>3. stdin' \in Seq(Line) /\ (\A i \in DOMAIN stdin : Justified(stdin[i]))'
    BY <1>2, OtherLine, LineWritten DEF SeeInterrupt
<1> QED BY <1>2, <1>3, AllowStep DEF AllowInv

-----------------------------------------------------------------------------
(* Requests.                                                                *)

\* Only the permission mode answers a request at once, and only a permission.
LEMMA ReadRequestAllow == ASSUME AllowInv, ReadRequest PROVE AllowInv'
<1> DEFINE r == Head(stdout).steer
           l == StdinLine("response", r, TRUE)
<1>1. KeepsWords /\ UNCHANGED <<chat, steering>>
    BY SameWords DEF ReadRequest
<1>2. DOMAIN asks' = Requests /\ \A q \in Requests : asks'[q] = "yes" => q \in chat'.allowed
    <2>1. \/ asks' = [asks EXCEPT ![r] = "answered"]
          \/ asks' = [asks EXCEPT ![r] = "dropped"]
          \/ asks' = [asks EXCEPT ![r] = "asked"]
        BY DEF ReadRequest
    <2> QED BY <1>1, <2>1 DEF AllowInv
<1>3. CASE run.skip /\ r \in Permissions /\ Write(l)
    <2>1. r \in Requests /\ run.skip
        BY <1>3, RequestsAssumption
    <2>2. l \in Line
        BY <2>1 DEF StdinLine, Line, LineKinds
    <2>3. Justified(l)
        BY <2>1 DEF Justified
    <2>4. stdin' \in Seq(Line) /\ (\A i \in DOMAIN stdin : Justified(stdin[i]))'
        BY <1>1, <1>3, <2>2, <2>3, LineWritten
    <2> QED BY <1>1, <1>2, <2>4, AllowStep DEF AllowInv
<1>4. CASE UNCHANGED stdin
    BY <1>1, <1>2, <1>4, LinesKept, AllowStep DEF AllowInv
<1> QED BY <1>3, <1>4 DEF ReadRequest

\* A request that was dropped or declined is denied.
LEMMA RespondAllow == ASSUME AllowInv, NEW r \in Requests, Respond(r) PROVE AllowInv'
<1> DEFINE l == StdinLine("response", r, Allows(r))
<1>1. KeepsWords /\ UNCHANGED <<chat, steering>>
    BY SameWords DEF Respond
<1>2. DOMAIN asks' = Requests /\ \A q \in Requests : asks'[q] = "yes" => q \in chat'.allowed
    BY <1>1 DEF Respond, AllowInv
<1>3. Allows(r) \in BOOLEAN
    BY Zenon DEF Allows
<1>4. l \in Line
    BY <1>3 DEF StdinLine, Line, LineKinds
<1>5. Allows(r) /\ r \in Permissions => r \in chat.allowed
    BY DEF Allows, AllowInv
<1>6. Justified(l)
    BY <1>5 DEF StdinLine, Justified
<1>7. Write(l)
    BY DEF Respond
<1> HIDE DEF l
<1>8. stdin' \in Seq(Line) /\ (\A i \in DOMAIN stdin : Justified(stdin[i]))'
    BY <1>1, <1>4, <1>6, <1>7, LineWritten
<1> QED BY <1>1, <1>2, <1>8, AllowStep DEF AllowInv

\* Consent is what the user answers, and the one thing that makes it.
LEMMA ChatAnswerAllow ==
    ASSUME AllowInv, NEW r \in Requests, NEW allow \in BOOLEAN, ChatAnswer(r, allow)
    PROVE  AllowInv'
<1>1. KeepsWords /\ UNCHANGED <<steering, stdin>>
    BY DEF ChatAnswer, AllowInv, KeepsWords
<1>2. \A q \in Requests : asks'[q] = "yes" => (asks[q] = "yes" \/ (q = r /\ allow))
    BY DEF ChatAnswer, AllowInv
<1>3. allow => r \in chat'.allowed
    BY DEF ChatAnswer, AllowInv
<1>4. DOMAIN asks' = Requests /\ \A q \in Requests : asks'[q] = "yes" => q \in chat'.allowed
    BY <1>1, <1>2, <1>3 DEF ChatAnswer, AllowInv, KeepsWords
<1> QED BY <1>1, <1>4, LinesKept, AllowStep DEF AllowInv

\* A step of the chat after which no request is answered that was not before.
LEMMA ChatKeeps ==
    ASSUME AllowInv, KeepsWords, UNCHANGED <<steering, stdin>>, DOMAIN asks' = Requests,
           \A q \in Requests : asks'[q] = "yes" => asks[q] = "yes"
    PROVE  AllowInv'
<1>1. \A q \in Requests : asks'[q] = "yes" => q \in chat'.allowed
    BY DEF AllowInv, KeepsWords
<1> QED BY <1>1, LinesKept, AllowStep DEF AllowInv

-----------------------------------------------------------------------------
(* The CLI and the chat.                                                    *)

LEMMA CliAllow == ASSUME AllowInv, CliNext \/ Escalate PROVE AllowInv'
<1>1. UNCHANGED <<run, chat, steering, asks>>
    BY DEF CliNext, Escalate, CliOutput, CliAbsorb, CliReadLine, CliExit, CliEndTurn,
           CliTakeSteers, CliAsk, CliOnly
<1>2. stdin' = stdin \/ (stdin # <<>> /\ stdin' = Tail(stdin))
    BY DEF CliNext, Escalate, CliOutput, CliAbsorb, CliReadLine, CliExit, CliEndTurn,
           CliTakeSteers, CliAsk, CliOnly
<1>3. KeepsWords
    BY <1>1, SameWords
<1> QED BY <1>1, <1>2, <1>3, QuietStep DEF AllowInv

LEMMA ChatAllow == ASSUME AllowInv, ChatNext PROVE AllowInv'
<1>1. CASE ChatSteer
    <2>1. KeepsWords /\ UNCHANGED <<stdin, asks>>
        BY <1>1 DEF ChatSteer, AllowInv, KeepsWords
    <2>2. steering' \in Seq(Nat)
        BY <1>1 DEF ChatSteer, AllowInv
    <2> QED BY <2>1, <2>2, QuietStep
<1>2. CASE ChatStop
    <2>1. KeepsWords /\ UNCHANGED <<stdin, asks, steering>>
        BY <1>2, SameWords DEF ChatStop
    <2> QED BY <2>1, QuietStep DEF AllowInv
<1>3. CASE ChatReceive
    <2>1. KeepsWords /\ UNCHANGED <<stdin, asks, steering>>
        BY <1>3 DEF ChatReceive, AllowInv, KeepsWords
    <2> QED BY <2>1, QuietStep DEF AllowInv
<1>4. CASE ChatRunEnded
    <2>1. KeepsWords
        BY <1>4 DEF ChatRunEnded, AllowInv, KeepsWords
    <2>2. DOMAIN asks' = Requests /\ \A q \in Requests : asks'[q] = "yes" => asks[q] = "yes"
        BY <1>4 DEF ChatRunEnded, DropQuestions
    <2> QED BY <1>4, <2>1, <2>2, ChatKeeps DEF ChatRunEnded
<1>5. ASSUME NEW r \in Requests, ChatReceiveQuestion(r) PROVE AllowInv'
    <2>1. KeepsWords
        BY <1>5, SameWords DEF ChatReceiveQuestion
    <2>2. DOMAIN asks' = Requests /\ \A q \in Requests : asks'[q] = "yes" => asks[q] = "yes"
        BY <1>5 DEF ChatReceiveQuestion, AllowInv
    <2> QED BY <1>5, <2>1, <2>2, ChatKeeps DEF ChatReceiveQuestion
<1>6. ASSUME NEW r \in Requests, NEW allow \in BOOLEAN, ChatAnswer(r, allow) PROVE AllowInv'
    BY <1>6, ChatAnswerAllow
<1>7. ASSUME NEW states \in {{"asked"}, {"asked", "open"}}, ChatLeave(states) PROVE AllowInv'
    <2>1. KeepsWords
        BY <1>7 DEF ChatLeave, AllowInv, KeepsWords
    <2>2. DOMAIN asks' = Requests /\ \A q \in Requests : asks'[q] = "yes" => asks[q] = "yes"
        BY <1>7 DEF ChatLeave, DropQuestions
    <2> QED BY <1>7, <2>1, <2>2, ChatKeeps DEF ChatLeave
<1> QED BY <1>1, <1>2, <1>3, <1>4, <1>5, <1>6, <1>7 DEF ChatNext

-----------------------------------------------------------------------------
LEMMA StutterAllow == AllowInv /\ UNCHANGED vars => AllowInv'
BY DEF AllowInv, Justified, vars

LEMMA NextAllow == AllowInv /\ [Next]_vars => AllowInv'
<1> SUFFICES ASSUME AllowInv, [Next]_vars PROVE AllowInv'
    OBVIOUS
<1>1. CASE HarnessNext
    BY <1>1, LoopQuiet, ShutdownAllow, AcceptSteerAllow, CloseSteeringAllow, SeeInterruptAllow,
       ReadRequestAllow DEF HarnessNext
<1>2. CASE \E r \in Requests : Respond(r)
    BY <1>2, RespondAllow
<1>3. CASE Escalate \/ CliNext
    BY <1>3, CliAllow
<1>4. CASE ChatNext
    BY <1>4, ChatAllow
<1>5. CASE UNCHANGED vars
    BY <1>5, StutterAllow
<1> QED BY <1>1, <1>2, <1>3, <1>4, <1>5 DEF Next

\* The CLI is never told to use a tool unless the user allowed that request or the
\* run skips prompts, for any interleaving of drops, answers, steers and crashes.
THEOREM NeverAllowed == Spec => []NeverAllowedUnasked
<1>1. AllowInv => NeverAllowedUnasked
    BY DEF AllowInv, NeverAllowedUnasked, Justified
<1> QED BY <1>1, InitAllow, NextAllow, PTL DEF Spec

-----------------------------------------------------------------------------
(* Where the chat puts the text.                                            *)

\* The steers the first i - 1 events of s report as read.
ReadBy(s, i) == {j \in 1 .. i - 1 : s[j].kind = "steered"}

Reads(s, i) == Cardinality(ReadBy(s, i))

LEMMA ReadsFinite == ASSUME NEW s, NEW i \in Nat PROVE IsFiniteSet(ReadBy(s, i)) /\ Reads(s, i) \in Nat
<1>1. IsFiniteSet(1 .. i - 1)
    BY FS_Interval
<1>2. ReadBy(s, i) \subseteq 1 .. i - 1
    BY DEF ReadBy
<1>3. IsFiniteSet(ReadBy(s, i))
    BY <1>1, <1>2, FS_Subset
<1> QED BY <1>3, FS_CardinalityType DEF Reads

\* Only the events before i count.
LEMMA ReadsAlike ==
    ASSUME NEW s, NEW t, NEW i \in Nat, \A j \in 1 .. i - 1 : s[j] = t[j]
    PROVE  Reads(s, i) = Reads(t, i)
<1>1. ReadBy(s, i) = ReadBy(t, i)
    BY DEF ReadBy
<1> QED BY <1>1 DEF Reads

LEMMA ReadsNext ==
    ASSUME NEW s, NEW i \in Nat \ {0}
    PROVE  /\ s[i].kind = "steered" => Reads(s, i + 1) = Reads(s, i) + 1
           /\ s[i].kind # "steered" => Reads(s, i + 1) = Reads(s, i)
<1>1. IsFiniteSet(ReadBy(s, i))
    BY ReadsFinite
<1>2. CASE s[i].kind = "steered"
    <2>1. ReadBy(s, i + 1) = ReadBy(s, i) \cup {i} /\ i \notin ReadBy(s, i)
        BY <1>2 DEF ReadBy
    <2> QED BY <1>1, <1>2, <2>1, FS_AddElement DEF Reads
<1>3. CASE s[i].kind # "steered"
    <2>1. ReadBy(s, i + 1) = ReadBy(s, i)
        BY <1>3 DEF ReadBy
    <2> QED BY <1>3, <2>1 DEF Reads
<1> QED BY <1>2, <1>3

\* Behind events none of which reports a steer, no more is read than before them.
LEMMA ReadsNoMore ==
    ASSUME NEW s, NEW i \in Nat, NEW k \in Nat, i <= k, \A j \in i .. k - 1 : s[j].kind # "steered"
    PROVE  Reads(s, k) = Reads(s, i)
<1>1. ReadBy(s, k) = ReadBy(s, i)
    BY DEF ReadBy
<1> QED BY <1>1 DEF Reads

\* Behind events all of which report a steer, so much more is read.
LEMMA ReadsAll ==
    ASSUME NEW s, NEW i \in Nat \ {0}, NEW n \in Nat, \A j \in i .. i + n - 1 : s[j].kind = "steered"
    PROVE  Reads(s, i + n) = Reads(s, i) + n
<1> DEFINE new == i .. i + n - 1
<1>1. IsFiniteSet(new) /\ Cardinality(new) = n
    <2>1. IsFiniteSet(new) /\ Cardinality(new) = IF i > i + n - 1 THEN 0 ELSE (i + n - 1) - i + 1
        BY FS_Interval
    <2> QED BY <2>1
<1>2. ReadBy(s, i + n) = ReadBy(s, i) \cup new
    BY DEF ReadBy
<1>3. ReadBy(s, i) \cap new = {}
    BY DEF ReadBy
<1> HIDE DEF new
<1>4. IsFiniteSet(ReadBy(s, i)) /\ Reads(s, i) \in Nat
    BY ReadsFinite
<1>5. Cardinality(ReadBy(s, i) \cup new) = Cardinality(ReadBy(s, i)) + Cardinality(new) - Cardinality({})
    BY <1>1, <1>3, <1>4, FS_Union
<1> QED BY <1>1, <1>2, <1>4, <1>5, FS_EmptySet DEF Reads

\* The chat takes the first event, and counts it if it reports a steer.
LEMMA ReadsTail ==
    ASSUME NEW s \in Seq(Ev), s # <<>>, NEW i \in 1 .. Len(s)
    PROVE  Reads(s, i + 1) = Reads(Tail(s), i) + (IF Head(s).kind = "steered" THEN 1 ELSE 0)
<1> DEFINE a == ReadBy(Tail(s), i)
           b == {j \in 2 .. i : s[j].kind = "steered"}
           f == [j \in a |-> j + 1]
<1>1. Head(s) = s[1] /\ Len(s) \in Nat /\ \A j \in 1 .. Len(s) - 1 : Tail(s)[j] = s[j + 1]
    BY HeadTail
<1>2. IsFiniteSet(a) /\ Reads(Tail(s), i) \in Nat
    BY ReadsFinite
<1>3. f \in Bijection(a, b)
    <2>1. \A j \in a : j \in 1 .. Len(s) - 1 /\ j + 1 \in b
        BY <1>1 DEF ReadBy
    <2>2. f \in [a -> b]
        BY <2>1
    <2>3. \A j, k \in a : f[j] = f[k] => j = k
        BY DEF ReadBy
    <2>4. ASSUME NEW k \in b PROVE \E j \in a : f[j] = k
        <3>1. k - 1 \in 1 .. i - 1 /\ k - 1 \in 1 .. Len(s) - 1 /\ (k - 1) + 1 = k
            BY <1>1
        <3>2. k - 1 \in a
            BY <1>1, <3>1 DEF ReadBy
        <3> QED BY <3>1, <3>2
    <2> HIDE DEF f, a, b
    <2> QED BY <2>2, <2>3, <2>4 DEF Bijection, Injection, Surjection, IsInjective
<1>4. IsFiniteSet(b) /\ Cardinality(b) = Reads(Tail(s), i)
    <2>1. ExistsBijection(a, b)
        BY <1>3 DEF ExistsBijection
    <2> HIDE DEF b
    <2> QED BY <1>2, <2>1, FS_Bijection DEF Reads
<1>5. CASE Head(s).kind = "steered"
    <2>1. ReadBy(s, i + 1) = b \cup {1} /\ 1 \notin b
        BY <1>1, <1>5 DEF ReadBy
    <2> HIDE DEF b
    <2>2. Cardinality(b \cup {1}) = Cardinality(b) + 1
        BY <1>4, <2>1, FS_AddElement
    <2> QED BY <1>4, <1>5, <2>1, <2>2 DEF Reads
<1>6. CASE Head(s).kind # "steered"
    <2>1. ReadBy(s, i + 1) = b
        BY <1>1, <1>6 DEF ReadBy
    <2> HIDE DEF b
    <2> QED BY <1>2, <1>4, <1>6, <2>1 DEF Reads
<1> QED BY <1>5, <1>6

\* How many steers the chat has been told of when it has taken all of s.
Count(s, read) == read + Reads(s, Len(s) + 1)

\* No text of s is shown above the steer it answers.
Below(s, read) ==
    \A i \in 1 .. Len(s) : s[i].kind = "work" => read + Reads(s, i) >= s[i].steer

LEMMA CountTyped == ASSUME NEW s \in Seq(Ev), NEW read \in Nat PROVE Count(s, read) \in Nat
BY ReadsFinite, LenProperties DEF Count

\* x is the stream s with the events e behind it.
Extends(x, s, e) ==
    /\ x \in Seq(Ev) /\ Len(x) = Len(s) + Len(e) /\ Len(s) \in Nat /\ Len(e) \in Nat
    /\ \A i \in 1 .. Len(s) + 1 : Reads(x, i) = Reads(s, i) /\ Reads(s, i) \in Nat
    /\ \A i \in 1 .. Len(s) : x[i] = s[i]
    /\ \A i \in 1 .. Len(e) : x[Len(s) + i] = e[i]

LEMMA JoinReads ==
    ASSUME NEW s \in Seq(Ev), NEW e \in Seq(Ev)
    PROVE  Extends(s \o e, s, e)
<1> PICK x : x = s \o e
    OBVIOUS
<1>1. /\ x \in Seq(Ev) /\ Len(x) = Len(s) + Len(e) /\ Len(s) \in Nat /\ Len(e) \in Nat
      /\ \A i \in 1 .. Len(s) + Len(e) : x[i] = IF i <= Len(s) THEN s[i] ELSE e[i - Len(s)]
    BY ConcatProperties, LenProperties
<1>2. \A i \in 1 .. Len(s) : x[i] = s[i]
    BY <1>1
<1>3. ASSUME NEW i \in 1 .. Len(e) PROVE x[Len(s) + i] = e[i]
    <2>1. Len(s) + i \in 1 .. Len(s) + Len(e) /\ ~(Len(s) + i <= Len(s)) /\ (Len(s) + i) - Len(s) = i
        BY <1>1
    <2> QED BY <1>1, <2>1
<1>4. ASSUME NEW i \in 1 .. Len(s) + 1 PROVE Reads(x, i) = Reads(s, i) /\ Reads(s, i) \in Nat
    <2>1. i \in Nat /\ \A j \in 1 .. i - 1 : x[j] = s[j]
        BY <1>1, <1>2
    <2> QED BY <2>1, ReadsAlike, ReadsFinite
<1>5. Extends(x, s, e)
    BY <1>1, <1>2, <1>3, <1>4 DEF Extends
<1> QED BY <1>5

\* Events that are no text leave the text where it is.
LEMMA BelowGrows ==
    ASSUME NEW s \in Seq(Ev), NEW e \in Seq(Ev), NEW read \in Nat, Below(s, read),
           \A i \in 1 .. Len(e) : e[i].kind = "work" => e[i].steer <= Count(s, read) /\ i = 1
    PROVE  Below(s \o e, read)
<1> PICK x : x = s \o e
    OBVIOUS
<1>1. /\ Len(x) = Len(s) + Len(e) /\ Len(s) \in Nat /\ Len(e) \in Nat
      /\ \A i \in 1 .. Len(s) + 1 : Reads(x, i) = Reads(s, i) /\ Reads(s, i) \in Nat
      /\ \A i \in 1 .. Len(s) : x[i] = s[i]
      /\ \A i \in 1 .. Len(e) : x[Len(s) + i] = e[i] /\ e[i].steer \in Int
    <2>1. \A i \in 1 .. Len(e) : e[i] \in Ev
        BY ElementOfSeq
    <2>2. \A ev \in Ev : ev.steer \in Int
        BY BoundsAssumption DEF Ev, Steer
    <2>3. Extends(x, s, e)
        BY JoinReads
    <2> QED BY <2>1, <2>2, <2>3 DEF Extends
<1>2. ASSUME NEW i \in 1 .. Len(x), x[i].kind = "work" PROVE read + Reads(x, i) >= x[i].steer
    <2>1. CASE i \in 1 .. Len(s)
        BY <1>1, <1>2, <2>1 DEF Below
    <2>2. CASE i \notin 1 .. Len(s)
        <3> PICK j \in 1 .. Len(e) : i = Len(s) + j
            <4>1. i - Len(s) \in 1 .. Len(e) /\ i = Len(s) + (i - Len(s))
                BY <1>1, <2>2
            <4> QED BY <4>1
        <3>1. x[i] = e[j]
            BY <1>1
        <3>2. j = 1 /\ e[j].steer <= read + Reads(s, Len(s) + 1)
            BY <1>2, <3>1 DEF Count
        <3>3. Reads(x, i) = Reads(s, Len(s) + 1) /\ Reads(x, i) \in Nat
            BY <1>1, <3>2
        <3> QED BY <1>1, <3>1, <3>2, <3>3
    <2> QED BY <2>1, <2>2
<1>3. Below(x, read)
    BY <1>2 DEF Below
<1> QED BY <1>3

LEMMA Offset ==
    ASSUME NEW u \in Nat, NEW v \in Nat, NEW l \in Nat, NEW j \in Nat,
           u + (v + 1) <= j, j <= u + (v + l)
    PROVE  /\ j - u - v \in 1 .. l /\ v + (j - u - v) \in 1 .. v + l
           /\ j = u + (v + (j - u - v))
OBVIOUS

\* An event behind s and q is one of e.
LEMMA Behind ==
    ASSUME NEW x, NEW y, NEW s, NEW q, NEW e, Extends(x, s, y), Extends(y, q, e),
           NEW j \in Nat, Len(s) + (Len(q) + 1) <= j, j <= Len(x)
    PROVE  \E m \in 1 .. Len(e) : x[j] = e[m]
<1>1. Len(x) = Len(s) + Len(y) /\ Len(s) \in Nat /\ \A i \in 1 .. Len(y) : x[Len(s) + i] = y[i]
    BY DEF Extends
<1>2. /\ Len(y) = Len(q) + Len(e) /\ Len(q) \in Nat /\ Len(e) \in Nat
      /\ \A i \in 1 .. Len(e) : y[Len(q) + i] = e[i]
    BY DEF Extends
<1>3. j <= Len(s) + (Len(q) + Len(e))
    BY <1>1, <1>2
<1> PICK m : m = j - Len(s) - Len(q)
    OBVIOUS
<1>4. m \in 1 .. Len(e) /\ Len(q) + m \in 1 .. Len(q) + Len(e) /\ j = Len(s) + (Len(q) + m)
    BY <1>1, <1>2, <1>3, Offset
<1>5. x[j] = y[Len(q) + m] /\ y[Len(q) + m] = e[m]
    BY <1>1, <1>2, <1>4
<1> QED BY <1>4, <1>5

\* A range split at b.
LEMMA Halves ==
    ASSUME NEW b \in Nat, NEW k \in Nat, b <= k, b >= 1, NEW j
    PROVE  j \in 1 .. k - 1 <=> j \in 1 .. b - 1 \/ j \in b .. k - 1
OBVIOUS

LEMMA CountGrows ==
    ASSUME NEW s \in Seq(Ev), NEW p \in Seq(Steer), NEW e \in Seq(Ev), NEW read \in Nat,
           \A i \in 1 .. Len(e) : e[i].kind # "steered"
    PROVE  Count(s \o (Steered(p) \o e), read) = Count(s, read) + Len(p)
<1> PICK q : q = Steered(p)
    OBVIOUS
<1>1. q \in Seq(Ev) /\ Len(q) = Len(p) /\ \A i \in 1 .. Len(p) : q[i].kind = "steered"
    BY SteeredEvents
<1> PICK y : y = q \o e
    OBVIOUS
<1> PICK x : x = s \o y
    OBVIOUS
<1>2. /\ y \in Seq(Ev) /\ Len(y) = Len(q) + Len(e) /\ Len(q) \in Nat /\ Len(e) \in Nat
      /\ \A i \in 1 .. Len(q) : y[i] = q[i]
      /\ \A i \in 1 .. Len(e) : y[Len(q) + i] = e[i]
    <2>1. Extends(y, q, e)
        BY <1>1, JoinReads
    <2> QED BY <2>1 DEF Extends
<1>3. /\ Len(x) = Len(s) + Len(y) /\ Len(s) \in Nat
      /\ Reads(x, Len(s) + 1) = Reads(s, Len(s) + 1) /\ Reads(s, Len(s) + 1) \in Nat
      /\ \A i \in 1 .. Len(y) : x[Len(s) + i] = y[i]
    <2>1. Extends(x, s, y)
        BY <1>2, JoinReads
    <2>2. Len(s) \in Nat
        BY LenProperties
    <2>3. Len(s) + 1 \in 1 .. Len(s) + 1
        BY <2>2
    <2> QED BY <2>1, <2>3 DEF Extends
<1> PICK a \in Nat \ {0} : a = Len(s) + 1
    BY <1>3
<1>4. \A j \in a .. a + Len(p) - 1 : x[j].kind = "steered"
    <2>1. ASSUME NEW j \in a .. a + Len(p) - 1 PROVE x[j].kind = "steered"
        <3>1. j - Len(s) \in 1 .. Len(q) /\ j - Len(s) \in 1 .. Len(y) /\ j = Len(s) + (j - Len(s))
            BY <1>1, <1>2, <1>3
        <3>2. x[j] = q[j - Len(s)]
            BY <1>2, <1>3, <3>1
        <3> QED BY <1>1, <3>1, <3>2
    <2> QED BY <2>1
<1>5. Reads(x, a + Len(p)) = Reads(x, a) + Len(p)
    <2>1. Len(p) \in Nat
        BY LenProperties
    <2> QED BY <1>4, <2>1, ReadsAll, Zenon
<1>6. Len(x) + 1 = a + Len(p) + Len(e)
    BY <1>1, <1>2, <1>3
<1> PICK b \in Nat : b = a + Len(p)
    BY <1>1, <1>2
<1> PICK k \in Nat : k = Len(x) + 1
    BY <1>1, <1>2, <1>6
<1>7. b <= k /\ k = b + Len(e) /\ b = Len(s) + (Len(q) + 1)
    BY <1>1, <1>2, <1>3, <1>6
<1>8. ASSUME NEW j \in b .. k - 1 PROVE x[j].kind # "steered"
    <2>1. j \in Nat /\ Len(s) + (Len(q) + 1) <= j /\ j <= Len(x)
        BY <1>1, <1>2, <1>7, <1>8
    <2>2. Extends(x, s, y) /\ Extends(y, q, e)
        BY <1>1, <1>2, JoinReads
    <2> PICK m \in 1 .. Len(e) : x[j] = e[m]
        BY <2>1, <2>2, Behind, SMTT(30)
    <2> QED OBVIOUS
<1>9. Reads(x, k) = Reads(x, b)
    <2>1. b <= k /\ \A j \in b .. k - 1 : x[j].kind # "steered"
        BY <1>7, <1>8
    <2>3. ASSUME NEW j PROVE j \in 1 .. k - 1 /\ x[j].kind = "steered" <=> j \in 1 .. b - 1 /\ x[j].kind = "steered"
        <3>3. b <= k /\ b >= 1
            BY <1>2, <1>3, <1>7
        <3>1. j \in 1 .. k - 1 <=> j \in 1 .. b - 1 \/ j \in b .. k - 1
            BY <3>3, Halves, Zenon
        <3>2. j \in b .. k - 1 => x[j].kind # "steered"
            BY <2>1
        <3> QED BY <3>1, <3>2, Zenon
    <2>2. ReadBy(x, k) = ReadBy(x, b)
        BY <2>3, Zenon DEF ReadBy
    <2> QED BY <2>2 DEF Reads
<1>10. Count(x, read) = Count(s, read) + Len(p)
    <2>1. Reads(x, b) = Reads(s, Len(s) + 1) + Len(p)
        BY <1>3, <1>5
    <2> QED BY <1>2, <1>3, <1>9, <2>1 DEF Count
<1> QED BY <1>10

LEMMA CountKept ==
    ASSUME NEW s \in Seq(Ev), NEW e \in Seq(Ev), NEW read \in Nat,
           \A i \in 1 .. Len(e) : e[i].kind # "steered"
    PROVE  Count(s \o e, read) = Count(s, read)
<1>1. Count(s \o (Steered(<<>>) \o e), read) = Count(s, read) + Len(<<>>)
    BY NoneYet, CountGrows
<1>2. Steered(<<>>) \o e = e
    BY SteeredNone
<1>3. Count(s \o e, read) = Count(s, read) + Len(<<>>)
    BY <1>1, <1>2, Zenon
<1> QED BY <1>3, CountTyped

LEMMA CountSteered ==
    ASSUME NEW s \in Seq(Ev), NEW p \in Seq(Steer), NEW read \in Nat
    PROVE  Count(s \o Steered(p), read) = Count(s, read) + Len(p)
<1>1. \A i \in 1 .. Len(<<>>) : <<>>[i].kind # "steered"
    OBVIOUS
<1>2. Count(s \o (Steered(p) \o <<>>), read) = Count(s, read) + Len(p)
    BY <1>1, NoneYet, CountGrows
<1>3. Steered(p) \o <<>> = Steered(p)
    BY SteeredEvents, ConcatEmptySeq
<1> QED BY <1>2, <1>3, Zenon

\* What the chat takes from the stream, it counts.
LEMMA StreamTaken ==
    ASSUME NEW s \in Seq(Ev), s # <<>>, NEW read \in Nat, NEW more \in Nat,
           more = IF Head(s).kind = "steered" THEN 1 ELSE 0
    PROVE  /\ Count(Tail(s), read + more) = Count(s, read)
           /\ Below(s, read) => Below(Tail(s), read + more)
<1> PICK t : t = Tail(s)
    OBVIOUS
<1>1. /\ t \in Seq(Ev) /\ Len(s) \in Nat \ {0} /\ Len(t) = Len(s) - 1
      /\ \A i \in 1 .. Len(s) - 1 : t[i] = s[i + 1]
    BY HeadTail
<1>2. \A i \in 1 .. Len(s) : Reads(s, i + 1) = Reads(t, i) + more /\ Reads(t, i) \in Nat
    BY <1>1, ReadsTail, ReadsFinite
<1>3. Count(t, read + more) = Count(s, read)
    <2>1. Len(t) + 1 = Len(s) /\ Len(s) \in 1 .. Len(s)
        BY <1>1
    <2>2. Reads(s, Len(s) + 1) = Reads(t, Len(t) + 1) + more /\ Reads(t, Len(t) + 1) \in Nat
        BY <1>2, <2>1
    <2> QED BY <2>2 DEF Count
<1>4. ASSUME Below(s, read) PROVE Below(t, read + more)
    <2>1. ASSUME NEW i \in 1 .. Len(t), t[i].kind = "work" PROVE (read + more) + Reads(t, i) >= t[i].steer
        <3>1. i \in 1 .. Len(s) /\ i + 1 \in 1 .. Len(s) /\ t[i] = s[i + 1]
            BY <1>1
        <3>2. read + Reads(s, i + 1) >= s[i + 1].steer
            BY <1>4, <2>1, <3>1 DEF Below
        <3>3. read + Reads(s, i + 1) = (read + more) + Reads(t, i)
            BY <1>2, <3>1
        <3> QED BY <3>1, <3>2, <3>3
    <2> QED BY <2>1 DEF Below
<1> QED BY <1>3, <1>4

-----------------------------------------------------------------------------
(* What the loop knows of the steers, of which the chat hears c by the      *)
(* events under way: pending are the next ones, and those the channel holds *)
(* come behind them.                                                        *)

InLine(c, p, t, pushed) ==
    /\ \A i \in 1 .. Len(p) : p[i] = c + i
    /\ \A i \in 1 .. Len(t) : t[i] = c + Len(p) + i
    /\ pushed = c + Len(p) + Len(t)

\* The steers on their way to the agent, with it, or replayed, are among the
\* first n: the loop has taken them from the channel.
LinesUpTo(n, lines) == \A i \in 1 .. Len(lines) : lines[i].kind = "steer" => lines[i].what <= n

QueueUpTo(n, q) == \A i \in 1 .. Len(q) : q[i] <= n

ReplaysUpTo(n, frames) == \A i \in 1 .. Len(frames) : frames[i].kind = "replay" => frames[i].steer <= n

\* Steer n is reported, or a replay among the first i - 1 frames will report it.
Answered(c, frames, n, i) ==
    n <= c \/ \E j \in 1 .. i - 1 : frames[j].kind = "replay" /\ frames[j].steer >= n

\* The steers that the frames answer, and the last one the agent has replayed.
Follows(c, frames, n) ==
    /\ \A i \in 1 .. Len(frames) : frames[i].kind = "work" => Answered(c, frames, frames[i].steer, i)
    /\ Answered(c, frames, n, Len(frames) + 1)

Known(c) ==
    /\ InLine(c, run.pending, steering, chat.pushed)
    /\ LinesUpTo(c + Len(run.pending), stdin) /\ QueueUpTo(c + Len(run.pending), cli.queue)
    /\ ReplaysUpTo(c + Len(run.pending), stdout)
    /\ Follows(c, stdout, cli.replayed)

Stream == out \o sending

TextInv ==
    ~chat.gone =>
        /\ Below(Stream, chat.steered)
        /\ run.phase = "loop" => Known(Count(Stream, chat.steered))

LEMMA StreamTyped == ASSUME Types PROVE Stream \in Seq(Ev) /\ chat.steered \in Nat
BY ConcatProperties DEF Stream, Types, Chat

LEMMA InitText == Init => TextInv
<1> SUFFICES ASSUME Init PROVE TextInv
    OBVIOUS
<1>1. /\ Stream = <<>> /\ chat.steered = 0 /\ run.pending = <<>> /\ steering = <<>> /\ stdin = <<>>
      /\ stdout = <<>> /\ cli.queue = <<>> /\ cli.replayed = 0 /\ chat.pushed = 0
    BY ConcatEmptySeq, NoneYet DEF Init, Stream
<1>2. Below(<<>>, 0)
    BY DEF Below
<1>3. Count(<<>>, 0) = 0
    <2>1. ReadBy(<<>>, 1) = {}
        BY DEF ReadBy
    <2>2. Reads(<<>>, 1) = 0
        BY <2>1, FS_EmptySet DEF Reads
    <2> QED BY <2>2 DEF Count
<1>4. Known(0)
    BY <1>1 DEF Known, InLine, LinesUpTo, QueueUpTo, ReplaysUpTo, Follows, Answered
<1> QED BY <1>1, <1>2, <1>3, <1>4 DEF TextInv

\* A step after which the same is on its way to the chat.
LEMMA StreamKept ==
    ASSUME Inv, TextInv, Stream' = Stream, chat'.steered = chat.steered, chat.gone => chat'.gone,
           run'.phase = "loop" => run.phase = "loop" /\ \A c \in Nat : Known(c) => Known(c)'
    PROVE  TextInv'
<1> SUFFICES ASSUME ~chat'.gone PROVE /\ Below(Stream', chat'.steered)
                                      /\ run'.phase = "loop" => Known(Count(Stream, chat.steered))'
    BY DEF TextInv
<1>1. ~chat.gone
    OBVIOUS
<1>2. Below(Stream', chat'.steered)
    BY <1>1 DEF TextInv
<1> PICK c \in Nat : c = Count(Stream, chat.steered)
    BY StreamTyped, CountTyped DEF Inv
<1>3. Count(Stream, chat.steered)' = c
    OBVIOUS
<1>4. ASSUME run'.phase = "loop" PROVE Known(c)'
    BY <1>1, <1>4 DEF TextInv
<1> QED BY <1>2, <1>3, <1>4

\* Events for the chat that the loop adds at its select.
LEMMA StreamGrows ==
    ASSUME Inv, TextInv, sending = <<>>, UNCHANGED <<out, chat>>, sending' \in Seq(Ev),
           NEW c \in Nat, c = Count(Stream, chat.steered), NEW d \in Nat, d = Count(out \o sending', chat.steered),
           run.phase = "loop",
           \A i \in 1 .. Len(sending') : sending'[i].kind = "work" => sending'[i].steer <= c /\ i = 1,
           ~chat.gone /\ run'.phase = "loop" /\ Known(c) => Known(d)'
    PROVE  TextInv'
<1>1. out \in Seq(Ev) /\ chat.steered \in Nat /\ Stream = out
    BY ConcatEmptySeq DEF Inv, Types, Chat, Stream
<1>2. Stream' = out \o sending'
    BY DEF Stream
<1>3. ASSUME ~chat.gone PROVE Below(out \o sending', chat.steered)
    <2>1. Below(out, chat.steered) /\ c = Count(out, chat.steered)
        BY <1>1, <1>3 DEF TextInv
    <2> QED BY <1>1, <2>1, BelowGrows
<1>4. ASSUME ~chat.gone, run'.phase = "loop" PROVE Known(d)'
    BY <1>4 DEF TextInv
<1>5. Count(Stream, chat.steered)' = d
    BY <1>2
<1> QED BY <1>2, <1>3, <1>4, <1>5 DEF TextInv

\* A frame is read.
LEMMA FollowsTail ==
    ASSUME NEW frames \in Seq(Frame), frames # <<>>, NEW c \in Nat, NEW d \in Nat, c <= d, NEW n \in Steer,
           Head(frames).kind = "replay" => Head(frames).steer <= d, Follows(c, frames, n)
    PROVE  Follows(d, Tail(frames), n)
<1> PICK t : t = Tail(frames)
    OBVIOUS
<1>1. /\ Len(frames) \in Nat \ {0} /\ Len(t) = Len(frames) - 1 /\ Head(frames) = frames[1]
      /\ \A i \in 1 .. Len(frames) - 1 : t[i] = frames[i + 1]
    BY HeadTail
<1>2. \A i \in 1 .. Len(frames) : frames[i] \in Frame
    BY ElementOfSeq
<1>3. \A f \in Frame : f.kind \in {"work", "replay"} => f.steer \in Nat
    BY BoundsAssumption DEF Frame, Steer, Ends
<1>4. ASSUME NEW m \in Nat, NEW i \in 1 .. Len(t) + 1, Answered(c, frames, m, i + 1) PROVE Answered(d, t, m, i)
    <2>1. CASE m <= c
        BY <2>1 DEF Answered
    <2>2. CASE \E j \in 1 .. i : frames[j].kind = "replay" /\ frames[j].steer >= m
        <3> PICK j \in 1 .. i : frames[j].kind = "replay" /\ frames[j].steer >= m
            BY <2>2
        <3>1. j \in 1 .. Len(frames) /\ frames[j].steer \in Nat
            BY <1>1, <1>2, <1>3
        <3>2. CASE j = 1
            BY <1>1, <3>1, <3>2 DEF Answered
        <3>3. CASE j # 1
            <4>1. j - 1 \in 1 .. i - 1 /\ j - 1 \in 1 .. Len(frames) - 1 /\ (j - 1) + 1 = j
                BY <1>1, <3>1, <3>3
            <4>2. t[j - 1] = frames[j]
                BY <1>1, <4>1
            <4> QED BY <4>1, <4>2 DEF Answered
        <3> QED BY <3>2, <3>3
    <2>3. (i + 1) - 1 = i
        OBVIOUS
    <2> QED BY <1>4, <2>1, <2>2, <2>3 DEF Answered
<1>5. ASSUME NEW i \in 1 .. Len(t), t[i].kind = "work" PROVE Answered(d, t, t[i].steer, i)
    <2>1. i \in 1 .. Len(t) + 1 /\ i + 1 \in 1 .. Len(frames) /\ t[i] = frames[i + 1]
        BY <1>1
    <2>2. t[i].steer \in Nat
        BY <1>2, <1>3, <1>5, <2>1
    <2>3. Answered(c, frames, t[i].steer, i + 1)
        BY <1>5, <2>1 DEF Follows
    <2> QED BY <1>4, <2>1, <2>2, <2>3
<1>6. Answered(d, t, n, Len(t) + 1)
    <2>1. n \in Nat /\ Len(t) + 1 \in 1 .. Len(t) + 1 /\ (Len(t) + 1) + 1 = Len(frames) + 1
        BY <1>1, BoundsAssumption DEF Steer
    <2> QED BY <1>4, <2>1 DEF Follows
<1>7. Follows(d, t, n)
    BY <1>5, <1>6 DEF Follows
<1> QED BY <1>7

\* A frame is written, and the agent has replayed m after it: it says so itself.
LEMMA FollowsAppend ==
    ASSUME NEW frames \in Seq(Frame), NEW c \in Nat, NEW n \in Steer, NEW m \in Steer, NEW f \in Frame,
           Follows(c, frames, n), f.kind = "work" => f.steer = n,
           m = n \/ (f.kind = "replay" /\ f.steer = m)
    PROVE  Follows(c, Append(frames, f), m)
<1> PICK t : t = Append(frames, f)
    OBVIOUS
<1>1. /\ Len(t) = Len(frames) + 1 /\ Len(frames) \in Nat /\ t[Len(frames) + 1] = f
      /\ \A i \in 1 .. Len(frames) : t[i] = frames[i]
    BY AppendProperties, LenProperties
<1>2. n \in Nat /\ m \in Nat
    BY BoundsAssumption DEF Steer
<1>3. ASSUME NEW k, NEW i \in 1 .. Len(frames) + 1, NEW l \in i .. Len(t) + 1, Answered(c, frames, k, i)
      PROVE  Answered(c, t, k, l)
    <2>1. \A j \in 1 .. i - 1 : j \in 1 .. l - 1 /\ t[j] = frames[j]
        BY <1>1
    <2> QED BY <1>3, <2>1 DEF Answered
<1>4. ASSUME NEW i \in 1 .. Len(t), t[i].kind = "work" PROVE Answered(c, t, t[i].steer, i)
    <2>1. i \in 1 .. Len(frames) + 1 /\ i \in i .. Len(t) + 1
        BY <1>1
    <2>2. CASE i \in 1 .. Len(frames)
        BY <1>1, <1>3, <1>4, <2>1, <2>2 DEF Follows
    <2>3. CASE i = Len(frames) + 1
        BY <1>1, <1>3, <1>4, <2>1, <2>3 DEF Follows
    <2> QED BY <2>1, <2>2, <2>3
<1>5. Answered(c, t, m, Len(t) + 1)
    <2>1. CASE m = n
        <3>1. Len(frames) + 1 \in 1 .. Len(frames) + 1 /\ Len(t) + 1 \in Len(frames) + 1 .. Len(t) + 1
            BY <1>1
        <3> QED BY <1>3, <2>1, <3>1 DEF Follows
    <2>2. CASE f.kind = "replay" /\ f.steer = m
        <3>1. Len(frames) + 1 \in 1 .. (Len(t) + 1) - 1
            BY <1>1
        <3>2. m >= m
            BY <1>2
        <3> QED BY <1>1, <2>2, <3>1, <3>2 DEF Answered
    <2> QED BY <2>1, <2>2
<1>6. Follows(c, t, m)
    BY <1>4, <1>5 DEF Follows
<1> QED BY <1>6

LEMMA FollowsMore ==
    ASSUME NEW frames \in Seq(Frame), NEW c \in Nat, NEW d \in Nat, c <= d, NEW n \in Steer, Follows(c, frames, n)
    PROVE  Follows(d, frames, n)
<1>1. \A k \in Nat : \A i : Answered(c, frames, k, i) => Answered(d, frames, k, i)
    BY DEF Answered
<1>2. \A i \in 1 .. Len(frames) : frames[i] \in Frame
    BY ElementOfSeq
<1>3. \A f \in Frame : f.kind = "work" => f.steer \in Nat
    BY BoundsAssumption DEF Frame, Steer, Ends
<1>4. n \in Nat
    BY BoundsAssumption DEF Steer
<1> QED BY <1>1, <1>2, <1>3, <1>4 DEF Follows

-----------------------------------------------------------------------------
(* What a step writes or reads stays among the steers taken.                *)

LEMMA TailAt ==
    ASSUME NEW S, NEW s \in Seq(S), s # <<>>
    PROVE  \A i \in 1 .. Len(Tail(s)) : i + 1 \in 1 .. Len(s) /\ Tail(s)[i] = s[i + 1]
BY HeadTail

LEMMA AppendAt ==
    ASSUME NEW S, NEW s \in Seq(S), NEW x \in S
    PROVE  \A i \in 1 .. Len(Append(s, x)) :
              (i \in 1 .. Len(s) /\ Append(s, x)[i] = s[i]) \/ (i = Len(s) + 1 /\ Append(s, x)[i] = x)
<1>1. /\ Len(Append(s, x)) = Len(s) + 1 /\ Len(s) \in Nat /\ Append(s, x)[Len(s) + 1] = x
      /\ \A i \in 1 .. Len(s) : Append(s, x)[i] = s[i]
    BY AppendProperties, LenProperties
<1>2. \A i \in 1 .. Len(s) + 1 : i \in 1 .. Len(s) \/ i = Len(s) + 1
    BY <1>1
<1> QED BY <1>1, <1>2

LEMMA LinesTail == ASSUME NEW n, NEW s \in Seq(Input), s # <<>>, LinesUpTo(n, s) PROVE LinesUpTo(n, Tail(s))
BY TailAt DEF LinesUpTo

LEMMA QueueTail == ASSUME NEW n, NEW s \in Seq(Steer), s # <<>>, QueueUpTo(n, s) PROVE QueueUpTo(n, Tail(s))
BY TailAt DEF QueueUpTo

LEMMA ReplaysTail == ASSUME NEW n, NEW s \in Seq(Frame), s # <<>>, ReplaysUpTo(n, s) PROVE ReplaysUpTo(n, Tail(s))
BY TailAt DEF ReplaysUpTo

LEMMA LinesAppend ==
    ASSUME NEW n, NEW s \in Seq(Input), NEW l \in Input, LinesUpTo(n, s), l.kind = "steer" => l.what <= n
    PROVE  LinesUpTo(n, Append(s, l))
BY AppendAt DEF LinesUpTo

LEMMA QueueAppend ==
    ASSUME NEW n, NEW s \in Seq(Steer), NEW k \in Steer, QueueUpTo(n, s), k <= n
    PROVE  QueueUpTo(n, Append(s, k))
BY AppendAt DEF QueueUpTo

LEMMA ReplaysAppend ==
    ASSUME NEW n, NEW s \in Seq(Frame), NEW f \in Frame, ReplaysUpTo(n, s), f.kind = "replay" => f.steer <= n
    PROVE  ReplaysUpTo(n, Append(s, f))
BY AppendAt DEF ReplaysUpTo

\* The next line of the CLI, and a line for it.
LEMMA StdoutRead ==
    ASSUME Types, stdout # <<>>, stdout' = Tail(stdout), NEW n, ReplaysUpTo(n, stdout)
    PROVE  ReplaysUpTo(n, stdout') /\ (Head(stdout).kind = "replay" => Head(stdout).steer <= n)
<1>1. stdout \in Seq(Frame) /\ Head(stdout) = stdout[1] /\ 1 \in 1 .. Len(stdout)
    BY HeadTail DEF Types
<1> QED BY <1>1, ReplaysTail DEF ReplaysUpTo

LEMMA WriteUpTo ==
    ASSUME Types, NEW l \in Input, Write(l), NEW n, LinesUpTo(n, stdin), l.kind = "steer" => l.what <= n
    PROVE  LinesUpTo(n, stdin')
BY LinesAppend DEF Types, Write

\* A step that moves no steer between the chat and the loop.
LEMMA KnownBy ==
    ASSUME NEW c \in Nat, Known(c), run'.pending = run.pending, chat'.pushed = chat.pushed, UNCHANGED steering,
           NEW n, n = c + Len(run.pending), LinesUpTo(n, stdin'), QueueUpTo(n, cli'.queue),
           ReplaysUpTo(n, stdout'), Follows(c, stdout', cli'.replayed)
    PROVE  Known(c)'
BY DEF Known

LEMMA UpToMore ==
    ASSUME Types, NEW n \in Nat, NEW m \in Nat, n <= m
    PROVE  /\ LinesUpTo(n, stdin) => LinesUpTo(m, stdin)
           /\ QueueUpTo(n, cli.queue) => QueueUpTo(m, cli.queue)
           /\ ReplaysUpTo(n, stdout) => ReplaysUpTo(m, stdout)
<1>1. /\ \A i \in 1 .. Len(stdin) : stdin[i] \in Input
      /\ \A i \in 1 .. Len(cli.queue) : cli.queue[i] \in Steer
      /\ \A i \in 1 .. Len(stdout) : stdout[i] \in Frame
    BY ElementOfSeq DEF Types, Cli
<1>2. /\ \A l \in Input : l.kind = "steer" => l.what \in Nat
      /\ \A k \in Steer : k \in Nat
      /\ \A f \in Frame : f.kind = "replay" => f.steer \in Nat
    BY BoundsAssumption DEF Input, Frame, Steer, Ends
<1>3. \A a \in Nat : a <= n => a <= m
    OBVIOUS
<1>4. LinesUpTo(n, stdin) => LinesUpTo(m, stdin)
    BY <1>1, <1>2, <1>3, Zenon DEF LinesUpTo
<1>5. QueueUpTo(n, cli.queue) => QueueUpTo(m, cli.queue)
    BY <1>1, <1>2, <1>3, Zenon DEF QueueUpTo
<1>6. ReplaysUpTo(n, stdout) => ReplaysUpTo(m, stdout)
    BY <1>1, <1>2, <1>3, Zenon DEF ReplaysUpTo
<1> QED BY <1>4, <1>5, <1>6

-----------------------------------------------------------------------------
(* The loop.                                                                *)

LEMMA SelectsText == ASSUME Inv, TextInv, CloseSteering \/ SeeInterrupt PROVE TextInv'
<1> PICK kind \in {"close", "interrupt"} : Write(StdinLine(kind, 0, FALSE))
    BY DEF CloseSteering, SeeInterrupt
<1> PICK l \in Input : l = StdinLine(kind, 0, FALSE) /\ l.kind # "steer" /\ Write(l)
    <2>1. StdinLine(kind, 0, FALSE) \in Input /\ StdinLine(kind, 0, FALSE).kind = kind
        BY DEF StdinLine, Input
    <2> QED BY <2>1
<1>1. /\ UNCHANGED <<sending, out, steering, stdout, cli, chat>> /\ run.phase = "loop"
      /\ run'.pending = run.pending
    BY DEF CloseSteering, SeeInterrupt, Selecting, Inv, Types, Run
<1>2. ASSUME NEW c \in Nat, Known(c) PROVE Known(c)'
    <2>1. LinesUpTo(c + Len(run.pending), stdin')
        BY <1>2, WriteUpTo DEF Known, Inv
    <2> QED BY <1>1, <1>2, <2>1, KnownBy DEF Known
<1> QED BY <1>1, <1>2, StreamKept DEF Stream

LEMMA ReadRequestText == ASSUME Inv, TextInv, ReadRequest PROVE TextInv'
<1> DEFINE r == Head(stdout).steer
           l == StdinLine("response", r, TRUE)
<1>1. /\ UNCHANGED <<run, sending, out, steering, cli, chat>> /\ run.phase = "loop"
      /\ stdout # <<>> /\ stdout' = Tail(stdout) /\ Head(stdout).kind # "replay" /\ r \in Requests
      /\ stdin' = stdin \/ Write(l)
    BY FrameEvent DEF ReadRequest, Selecting, Inv
<1>2. l \in Input /\ l.kind # "steer"
    BY <1>1 DEF StdinLine, Input
<1> HIDE DEF l, r
<1>3. ASSUME NEW c \in Nat, Known(c) PROVE Known(c)'
    <2>1. LinesUpTo(c + Len(run.pending), stdin')
        BY <1>1, <1>2, <1>3, WriteUpTo DEF Known, Inv
    <2>2. ReplaysUpTo(c + Len(run.pending), stdout')
        BY <1>1, <1>3, StdoutRead DEF Known, Inv
    <2>3. Follows(c, stdout', cli.replayed)
        BY <1>1, <1>3, FollowsTail DEF Known, Inv, Types, Cli
    <2> QED BY <1>1, <1>3, <2>1, <2>2, <2>3, KnownBy DEF Known
<1> QED BY <1>1, <1>3, StreamKept DEF Stream

LEMMA InLineTake ==
    ASSUME NEW c \in Nat, NEW p \in Seq(Steer), NEW t \in Seq(Steer), t # <<>>, NEW pushed, InLine(c, p, t, pushed)
    PROVE  /\ InLine(c, Append(p, Head(t)), Tail(t), pushed)
           /\ Head(t) = c + Len(p) + 1 /\ Len(Append(p, Head(t))) = Len(p) + 1
<1>1. /\ Head(t) = t[1] /\ Head(t) \in Steer /\ Len(t) \in Nat \ {0} /\ Len(Tail(t)) = Len(t) - 1
      /\ \A i \in 1 .. Len(t) - 1 : Tail(t)[i] = t[i + 1]
    BY HeadTail
<1> PICK q : q = Append(p, Head(t))
    OBVIOUS
<1>2. /\ Len(q) = Len(p) + 1 /\ Len(p) \in Nat /\ q[Len(p) + 1] = Head(t)
      /\ \A i \in 1 .. Len(p) : q[i] = p[i]
    BY <1>1, AppendProperties, LenProperties
<1>3. Head(t) = c + Len(p) + 1
    BY <1>1, <1>2 DEF InLine
<1>4. ASSUME NEW i \in 1 .. Len(q) PROVE q[i] = c + i
    <2>1. CASE i \in 1 .. Len(p)
        BY <1>2, <2>1 DEF InLine
    <2>2. CASE i = Len(p) + 1
        BY <1>2, <1>3, <2>2
    <2> QED BY <1>2, <2>1, <2>2
<1>5. ASSUME NEW i \in 1 .. Len(Tail(t)) PROVE Tail(t)[i] = c + Len(q) + i
    <2>1. Tail(t)[i] = t[i + 1] /\ i + 1 \in 1 .. Len(t)
        BY <1>1
    <2>2. t[i + 1] = c + Len(p) + (i + 1)
        BY <2>1 DEF InLine
    <2> QED BY <1>2, <2>1, <2>2
<1>6. pushed = c + Len(q) + Len(Tail(t))
    BY <1>1, <1>2 DEF InLine
<1>7. InLine(c, q, Tail(t), pushed)
    BY <1>4, <1>5, <1>6 DEF InLine
<1> QED BY <1>2, <1>3, <1>7

\* The loop says its last words: no text is among them.
LEMMA LeavesText ==
    ASSUME Inv, TextInv, run.phase = "loop", sending = <<>>, NEW r \in Run, r.held = run.held,
           r.ended = run.ended, UNCHANGED <<out, chat>>, run'.phase = "exit",
           NEW first \in Seq(Ev), first = <<>> \/ first = <<Event("error", 0)>>,
           sending' = first \o ExitEvents(r)
    PROVE  TextInv'
<1>1. \A i \in 1 .. Len(r.held) : r.held[i].kind \in Ends
    BY DEF Inv, Order, Locals
<1> PICK x \in Seq(Ev) : ExitEvents(r) = r.held \o x /\ \A i \in 1 .. Len(x) : x[i].kind \in Dones
    <2>1. /\ Event("interrupted", 0) \in Ev /\ Event("errored", 0) \in Ev
          /\ Event("interrupted", 0).kind = "interrupted" /\ Event("errored", 0).kind = "errored"
        BY EventTyped, SteerZero DEF Kinds, Dones, Ends, Event
    <2> PICK z : z = IF r.interrupted /\ ~r.ended THEN <<Event("interrupted", 0)>>
                     ELSE IF ~r.interrupted /\ ~r.anyDone /\ r.held = <<>> THEN <<Event("errored", 0)>>
                     ELSE <<>>
        OBVIOUS
    <2>2. z \in Seq(Ev) /\ \A i \in 1 .. Len(z) : z[i].kind \in Dones
        BY <2>1, OneEvent, NoneYet DEF Dones, Ends
    <2>3. ExitEvents(r) = r.held \o z
        BY DEF ExitEvents
    <2> QED BY <2>2, <2>3
<1> PICK y : y = r.held \o x
    OBVIOUS
<1>2. IsJoin(y, r.held, x)
    BY Joined DEF Run
<1>3. y \in Seq(Ev) /\ \A i \in 1 .. Len(y) : y[i].kind # "work"
    BY <1>1, <1>2 DEF IsJoin, Dones, Ends
<1> PICK e : e = first \o y
    OBVIOUS
<1>4. IsJoin(e, first, y)
    BY <1>3, Joined
<1>5. \A i \in 1 .. Len(first) : first[i].kind # "work"
    BY DEF Event
<1>6. e \in Seq(Ev) /\ \A i \in 1 .. Len(e) : e[i].kind # "work"
    BY <1>3, <1>4, <1>5, ZenonT(60) DEF IsJoin
<1>7. sending' = e
    OBVIOUS
<1>8. Count(Stream, chat.steered) \in Nat /\ Count(out \o sending', chat.steered) \in Nat
    BY <1>6, <1>7, StreamTyped, CountTyped, ConcatProperties DEF Inv, Types
<1> QED BY <1>6, <1>7, <1>8, StreamGrows

LEMMA ReadEndText == ASSUME Inv, TextInv, ReadEnd \/ ReadError PROVE TextInv'
<1>1. run \in Run /\ run.phase = "loop" /\ sending = <<>> /\ UNCHANGED <<out, chat>>
    BY DEF ReadEnd, ReadError, Selecting, Inv, Types
<1>2. <<>> \in Seq(Ev) /\ <<Event("error", 0)>> \in Seq(Ev)
    BY NoneYet, OneEvent, EventTyped, SteerZero DEF Kinds
<1>3. PICK first \in Seq(Ev) : (first = <<>> \/ first = <<Event("error", 0)>>) /\ LeaveLoop(first)
    BY <1>2 DEF ReadEnd, ReadError
<1>4. run'.phase = "exit" /\ sending' = first \o ExitEvents(run)
    BY <1>1, <1>3 DEF LeaveLoop, Run
<1> QED BY <1>1, <1>3, <1>4, LeavesText

LEMMA AcceptSteerText == ASSUME Inv, TextInv, AcceptSteer PROVE TextInv'
<1> DEFINE n == Head(steering)
           r == [run EXCEPT !.pending = Append(@, n)]
<1>1. /\ n \in Steer /\ run \in Run /\ run.pending \in Seq(Steer) /\ run.phase = "loop" /\ sending = <<>>
      /\ steering \in Seq(Steer) /\ steering # <<>> /\ steering' = Tail(steering)
      /\ UNCHANGED <<out, stdout, cli, chat>>
    BY HeadTail DEF AcceptSteer, Selecting, Inv, Types, Run
<1>2. r \in Run /\ r.held = run.held /\ r.ended = run.ended /\ r.phase = "loop" /\ r.pending = Append(run.pending, n)
    <2>1. r \in Run
        BY <1>1, RunSteps
    <2> QED BY <1>1, <2>1 DEF Run
<1> PICK l : l = StdinLine("steer", n, FALSE)
    OBVIOUS
<1>3. l \in Input /\ l.what = n
    BY <1>1 DEF StdinLine, Input
<1>4. CASE run' = r /\ Write(l) /\ UNCHANGED sending
    <2>1. ASSUME NEW c \in Nat, Known(c) PROVE Known(c)'
        <3>1. /\ InLine(c, r.pending, steering', chat.pushed)
              /\ n = c + Len(run.pending) + 1 /\ Len(r.pending) = Len(run.pending) + 1
            BY <1>1, <1>2, <2>1, InLineTake DEF Known
        <3> PICK a \in Nat : a = c + Len(run.pending)
            BY <1>1, LenProperties
        <3> PICK b \in Nat : b = a + 1
            OBVIOUS
        <3>2. b = c + Len(r.pending) /\ n = b /\ a <= b
            BY <1>1, <3>1, LenProperties
        <3>3. LinesUpTo(b, stdin) /\ QueueUpTo(b, cli.queue) /\ ReplaysUpTo(b, stdout)
            BY <2>1, <3>2, UpToMore DEF Known, Inv
        <3>4. LinesUpTo(b, stdin')
            <4>1. b <= b
                OBVIOUS
            <4> QED BY <1>3, <1>4, <3>2, <3>3, <4>1, WriteUpTo DEF Inv
        <3> HIDE DEF r, n
        <3> QED BY <1>1, <1>4, <2>1, <3>1, <3>2, <3>3, <3>4 DEF Known
    <2> QED BY <1>1, <1>4, <2>1, StreamKept DEF Stream
<1>5. CASE run' = [r EXCEPT !.phase = "exit", !.held = <<>>] /\ sending' = ExitEvents(r)
    <2> HIDE DEF r
    <2>1. run'.phase = "exit"
        BY <1>2, <1>5 DEF Run
    <2>2. sending' = <<>> \o ExitEvents(r)
        BY <1>2, <1>5, ExitEventsTyped, ConcatEmptySeq
    <2> QED BY <1>1, <1>2, <2>1, <2>2, NoneYet, LeavesText
<1> QED BY <1>4, <1>5 DEF AcceptSteer

LEMMA ReadOutputText == ASSUME Inv, TextInv, ReadOutput PROVE TextInv'
<1> PICK ev \in Ev : ev = Head(stdout) /\ ev.kind = "work"
    BY FrameEvent, EventTyped DEF ReadOutput, Kinds, Inv
<1>1. /\ UNCHANGED <<run, out, steering, stdin, cli, chat>> /\ run.phase = "loop" /\ sending = <<>>
      /\ stdout \in Seq(Frame) /\ stdout # <<>> /\ stdout' = Tail(stdout) /\ sending' = <<ev>>
    BY DEF ReadOutput, Selecting, Inv, Types
<1>2. sending' \in Seq(Ev) /\ Len(sending') = 1 /\ sending'[1] = ev
    BY <1>1, OneEvent
<1>3. out \in Seq(Ev) /\ chat.steered \in Nat /\ Stream = out
    BY <1>1, ConcatEmptySeq DEF Inv, Types, Chat, Stream
<1> PICK c \in Nat : c = Count(Stream, chat.steered)
    BY <1>3, CountTyped
<1>4. Count(out \o sending', chat.steered) = c
    BY <1>2, <1>3, CountKept
<1>5. Known(c) => ev.steer <= c
    <2>1. stdout[1] = ev /\ 1 \in 1 .. Len(stdout)
        BY <1>1, HeadTail
    <2> QED BY <2>1 DEF Known, Follows, Answered
<1>6. ASSUME Known(c) PROVE Known(c)'
    <2>1. ReplaysUpTo(c + Len(run.pending), stdout')
        BY <1>1, <1>6, StdoutRead DEF Known, Inv
    <2>2. Follows(c, stdout', cli.replayed)
        BY <1>1, <1>6, FollowsTail DEF Known, Inv, Types, Cli
    <2> QED BY <1>1, <1>6, <2>1, <2>2, KnownBy DEF Known
<1>7. CASE chat.gone
    BY <1>1, <1>7 DEF TextInv
<1>8. CASE ~chat.gone
    <2>1. Known(c)
        BY <1>1, <1>8 DEF TextInv
    <2>2. \A i \in 1 .. Len(sending') : sending'[i].kind = "work" => sending'[i].steer <= c /\ i = 1
        BY <1>2, <1>5, <2>1
    <2> QED BY <1>1, <1>2, <1>4, <1>6, <2>2, StreamGrows
<1> QED BY <1>7, <1>8

LEMMA Shifted ==
    ASSUME NEW c \in Nat, NEW k \in Nat, NEW l \in Nat
    PROVE  (c + k) + (l - k) = c + l
OBVIOUS

\* A replay confirms the first k of the steers p; q is what is left.
IsRest(q, p, k) == k \in 0 .. Len(p) /\ q = SubSeq(p, k + 1, Len(p))

LEMMA RestLength ==
    ASSUME NEW c \in Nat, NEW p \in Seq(Steer), NEW q, NEW k \in Nat, IsRest(q, p, k)
    PROVE  (c + k) + Len(q) = c + Len(p)
<1>1. Len(p) \in Nat /\ k <= Len(p) /\ q = SubSeq(p, k + 1, Len(p))
    BY LenProperties DEF IsRest
<1>2. Len(q) = Len(p) - k
    BY <1>1
<1>3. (c + k) + (Len(p) - k) = c + Len(p)
    BY <1>1, Shifted
<1> QED BY <1>2, <1>3, Zenon

LEMMA InLineRest ==
    ASSUME NEW c \in Nat, NEW p \in Seq(Steer), NEW t, NEW pushed, InLine(c, p, t, pushed),
           NEW q, NEW k \in Nat, IsRest(q, p, k)
    PROVE  InLine(c + k, q, t, pushed)
<1>1. Len(p) \in Nat /\ k \in Nat /\ k <= Len(p) /\ q = SubSeq(p, k + 1, Len(p))
    BY LenProperties DEF IsRest
<1>2. Len(q) = Len(p) - k /\ \A i \in 1 .. Len(p) - k : q[i] = p[k + i]
    BY <1>1
<1>3. ASSUME NEW i \in 1 .. Len(q) PROVE q[i] = (c + k) + i
    <2>1. k + i \in 1 .. Len(p)
        BY <1>1, <1>2
    <2>2. q[i] = p[k + i] /\ p[k + i] = c + (k + i)
        BY <1>2, <2>1 DEF InLine
    <2> QED BY <1>1, <2>2
<1>4. (c + k) + Len(q) = c + Len(p)
    BY RestLength, ZenonT(60)
<1>5. pushed = (c + k) + Len(q) + Len(t) /\ \A i \in 1 .. Len(t) : t[i] = (c + k) + Len(q) + i
    BY <1>4, Zenon DEF InLine
<1> QED BY <1>3, <1>5, Zenon DEF InLine

\* The replayed steer is reported then, at the latest.
LEMMA ReplayReports ==
    ASSUME NEW c \in Nat, NEW p \in Seq(Steer), \A i \in 1 .. Len(p) : p[i] = c + i,
           NEW n \in Nat, n <= c + Len(p)
    PROVE  n <= c + Position(p, n)
<1>1. Len(p) \in Nat
    BY LenProperties
<1>2. CASE n \in ToSet(p)
    <2>1. Position(p, n) \in 1 .. Len(p) /\ p[Position(p, n)] = n
        BY <1>2 DEF Position, ToSet
    <2> QED BY <1>1, <2>1
<1>3. CASE n \notin ToSet(p)
    <2>1. Position(p, n) = 0
        BY <1>3 DEF Position
    <2>2. ASSUME c < n PROVE FALSE
        <3>1. n - c \in 1 .. Len(p) /\ c + (n - c) = n
            BY <1>1, <2>2
        <3>2. p[n - c] = n
            BY <3>1
        <3> QED BY <1>3, <3>1, <3>2 DEF ToSet
    <2> QED BY <2>1, <2>2
<1> QED BY <1>2, <1>3

LEMMA ReplayKnown ==
    ASSUME Types, ReadReplay, NEW c \in Nat, Known(c), NEW d \in Nat,
           d = c + Position(run.pending, Head(stdout).steer)
    PROVE  Known(d)'
<1>1. PICK p \in Seq(Steer) : p = run.pending
    BY DEF Types, Run
<1>2. PICK n \in Nat : n = Head(stdout).steer
    <2>1. Head(stdout).steer \in Steer
        BY FrameEvent DEF ReadReplay, Frame
    <2> QED BY <2>1, BoundsAssumption DEF Steer
<1>3. PICK k \in Nat : k = Position(p, n) /\ k \in 0 .. Len(p)
    BY PositionOf, LenProperties
<1>4. /\ UNCHANGED <<steering, stdin, cli, chat>>
      /\ stdout \in Seq(Frame) /\ stdout # <<>> /\ stdout' = Tail(stdout) /\ Head(stdout).kind = "replay"
      /\ run'.pending = SubSeq(p, k + 1, Len(p))
    BY <1>1, <1>2, <1>3 DEF ReadReplay, Types, Run
<1>5. Len(p) \in Nat /\ d = c + k
    BY <1>1, <1>2, <1>3, LenProperties
<1>6. InLine(d, run'.pending, steering, chat.pushed) /\ d + Len(run'.pending) = c + Len(p)
    <2>1. InLine(c, p, steering, chat.pushed)
        BY <1>1 DEF Known
    <2>2. IsRest(run'.pending, p, k)
        BY <1>3, <1>4 DEF IsRest
    <2>3. InLine(c + k, run'.pending, steering, chat.pushed)
        BY <2>1, <2>2, InLineRest
    <2>4. (c + k) + Len(run'.pending) = c + Len(p)
        BY <2>2, RestLength, ZenonT(60)
    <2> QED BY <1>5, <2>3, <2>4
<1>7. n <= c + Len(p) /\ ReplaysUpTo(c + Len(p), stdout')
    BY <1>1, <1>2, <1>4, StdoutRead DEF Known
<1>8. n <= d
    <2>1. \A i \in 1 .. Len(p) : p[i] = c + i
        BY <1>1 DEF Known, InLine
    <2>2. n <= c + Position(p, n)
        BY <1>7, <2>1, ReplayReports
    <2> QED BY <1>3, <1>5, <2>2
<1>9. Follows(d, stdout', cli.replayed)
    <2>1. c <= d
        BY <1>5
    <2> QED BY <1>2, <1>4, <1>8, <2>1, FollowsTail DEF Known, Types, Cli
<1>10. LinesUpTo(c + Len(p), stdin) /\ QueueUpTo(c + Len(p), cli.queue)
    BY <1>1 DEF Known
<1> QED BY <1>4, <1>6, <1>7, <1>9, <1>10 DEF Known

LEMMA ReadReplayText == ASSUME Inv, TextInv, ReadReplay PROVE TextInv'
<1>1. PICK p \in Seq(Steer) : p = run.pending
    BY DEF Inv, Types, Run
<1>2. PICK n \in Steer : n = Head(stdout).steer
    <2>1. Head(stdout).steer \in Steer
        BY FrameEvent DEF ReadReplay, Inv, Frame
    <2> QED BY <2>1
<1>3. PICK k \in 0 .. Len(p) : k = Position(p, n)
    BY PositionOf
<1>4. /\ UNCHANGED <<out, steering, stdin, cli, chat>> /\ run.phase = "loop" /\ sending = <<>>
      /\ stdout \in Seq(Frame) /\ stdout # <<>> /\ stdout' = Tail(stdout) /\ Head(stdout).kind = "replay"
      /\ run'.phase = "loop" /\ run'.pending = SubSeq(p, k + 1, Len(p))
      /\ sending' = Steered(SubSeq(p, 1, k))
    BY <1>1, <1>2, <1>3 DEF ReadReplay, Confirmed, Selecting, Inv, Types, Run
<1>5. out \in Seq(Ev) /\ chat.steered \in Nat /\ Stream = out
    BY <1>4, ConcatEmptySeq DEF Inv, Types, Chat, Stream
<1>6. Len(p) \in Nat /\ n \in Nat /\ k \in Nat
    BY LenProperties, BoundsAssumption DEF Steer
<1>7. PICK q \in Seq(Steer) : q = SubSeq(p, 1, k) /\ Len(q) = k
    <2>1. SubSeq(p, 1, k) \in Seq(Steer)
        BY Split
    <2>2. Len(SubSeq(p, 1, k)) = k
        BY <1>6
    <2> QED BY <2>1, <2>2
<1>8. sending' = Steered(q) /\ sending' \in Seq(Ev) /\ \A i \in 1 .. Len(sending') : sending'[i].kind # "work"
    <2>1. sending' = Steered(q)
        BY <1>4, <1>7
    <2>2. /\ Steered(q) \in Seq(Ev) /\ Len(Steered(q)) = Len(q)
          /\ \A i \in 1 .. Len(q) : Steered(q)[i].kind = "steered"
        BY SteeredEvents
    <2> QED BY <2>1, <2>2
<1>9. PICK c \in Nat : c = Count(Stream, chat.steered)
    BY <1>5, CountTyped
<1>10. PICK d \in Nat : d = c + k
    BY <1>6
<1>11. Count(out \o sending', chat.steered) = d
    <2>1. PICK s \in Seq(Ev), read \in Nat : s = out /\ read = chat.steered
        BY <1>5
    <2>2. Count(s \o Steered(q), read) = Count(s, read) + Len(q)
        BY CountSteered
    <2>3. Count(out \o sending', chat.steered) = Count(s \o Steered(q), read) /\ c = Count(s, read)
        BY <1>5, <1>8, <1>9, <2>1
    <2> QED BY <1>7, <1>10, <2>2, <2>3
<1>12. Known(c) => Known(d)'
    BY <1>1, <1>2, <1>3, <1>10, ReplayKnown DEF Inv
<1> QED BY <1>4, <1>8, <1>9, <1>11, <1>12, StreamGrows

LEMMA ReadResultText == ASSUME Inv, TextInv, ReadResult PROVE TextInv'
<1> DEFINE line == Head(stdout)
           done == Event(IF run.interrupted THEN "interrupted" ELSE line.kind, line.steer)
<1>1. /\ UNCHANGED <<out, steering, stdin, cli, chat>> /\ run.phase = "loop" /\ sending = <<>>
      /\ stdout \in Seq(Frame) /\ stdout # <<>> /\ stdout' = Tail(stdout) /\ Head(stdout).kind # "replay"
      /\ line.kind \in Ends /\ line.steer \in Steer
      /\ run'.phase = "loop" /\ run'.pending = run.pending
    BY FrameEvent DEF ReadResult, Selecting, Inv, Types, Run, Ends
<1>2. ASSUME NEW c \in Nat, Known(c) PROVE Known(c)'
    <2>1. ReplaysUpTo(c + Len(run.pending), stdout')
        BY <1>1, <1>2, StdoutRead DEF Known, Inv
    <2>2. Follows(c, stdout', cli.replayed)
        BY <1>1, <1>2, FollowsTail DEF Known, Inv, Types, Cli
    <2> QED BY <1>1, <1>2, <2>1, <2>2, KnownBy DEF Known
<1>3. done \in Ev /\ done.kind \notin {"work", "steered"}
    BY <1>1, EventTyped DEF Kinds, Dones, Ends, Event
<1>4. CASE UNCHANGED sending
    BY <1>1, <1>2, <1>4, StreamKept DEF Stream
<1>5. CASE sending' = <<done>>
    <2> HIDE DEF done
    <2>1. sending' \in Seq(Ev) /\ Len(sending') = 1 /\ sending'[1] = done
        BY <1>3, <1>5, OneEvent
    <2>2. out \in Seq(Ev) /\ chat.steered \in Nat /\ Stream = out
        BY <1>1, ConcatEmptySeq DEF Inv, Types, Chat, Stream
    <2> PICK c \in Nat : c = Count(Stream, chat.steered)
        BY <2>2, CountTyped
    <2>3. Count(out \o sending', chat.steered) = c
        BY <1>3, <2>1, <2>2, CountKept
    <2> QED BY <1>1, <1>2, <1>3, <2>1, <2>3, StreamGrows
<1> QED BY <1>4, <1>5 DEF ReadResult

LEMMA HoldExpiresText == ASSUME Inv, TextInv, HoldExpires PROVE TextInv'
<1> PICK p \in Seq(Steer) : p = run.pending
    BY DEF Inv, Types, Run
<1> PICK e \in Seq(Ev) : e = run.held
    BY DEF Inv, Types, Run
<1>1. /\ UNCHANGED <<out, steering, stdin, stdout, cli, chat>> /\ run.phase = "loop" /\ sending = <<>>
      /\ run'.phase = "loop" /\ run'.pending = <<>> /\ sending' = Steered(p) \o e
    BY DEF HoldExpires, Expired, Selecting, Inv, Types, Run
<1>2. \A i \in 1 .. Len(e) : e[i].kind \in Ends
    BY DEF Inv, Order, Locals
<1>3. out \in Seq(Ev) /\ chat.steered \in Nat /\ Stream = out /\ Len(p) \in Nat
    BY <1>1, ConcatEmptySeq, LenProperties DEF Inv, Types, Chat, Stream
<1>4. sending' \in Seq(Ev) /\ \A i \in 1 .. Len(sending') : sending'[i].kind # "work"
    <2> PICK q : q = Steered(p)
        OBVIOUS
    <2>1. q \in Seq(Ev) /\ \A i \in 1 .. Len(q) : q[i].kind = "steered"
        BY SteeredEvents
    <2>2. IsJoin(sending', q, e)
        BY <1>1, <2>1, Joined
    <2> QED BY <1>2, <2>1, <2>2 DEF IsJoin, Ends
<1> PICK c \in Nat : c = Count(Stream, chat.steered)
    BY <1>3, CountTyped
<1> PICK d \in Nat : d = c + Len(p)
    BY <1>3
<1>5. Count(out \o sending', chat.steered) = d
    <2>1. \A i \in 1 .. Len(e) : e[i].kind # "steered"
        BY <1>2 DEF Ends
    <2> PICK s \in Seq(Ev), read \in Nat : s = out /\ read = chat.steered
        BY <1>3
    <2>2. Count(s \o (Steered(p) \o e), read) = Count(s, read) + Len(p)
        BY <2>1, CountGrows, SMTT(60)
    <2> QED BY <1>1, <1>3, <2>2
<1>6. ASSUME Known(c) PROVE Known(d)'
    <2>1. Len(run'.pending) = 0 /\ c <= d /\ d + Len(run'.pending) = c + Len(p) /\ d + 0 = d
        BY <1>1, <1>3
    <2>2. InLine(d, run'.pending, steering, chat.pushed)
        BY <1>1, <1>6, <2>1 DEF Known, InLine
    <2>3. Follows(d, stdout, cli.replayed)
        BY <1>6, <2>1, FollowsMore DEF Known, Inv, Types, Cli
    <2> QED BY <1>1, <1>6, <2>1, <2>2, <2>3 DEF Known
<1> QED BY <1>1, <1>4, <1>5, <1>6, StreamGrows

\* The event at the head is sent: the stream stays as it is.
LEMMA Moved ==
    ASSUME NEW a \in Seq(Ev), NEW b \in Seq(Ev), b # <<>>
    PROVE  Append(a, Head(b)) \o Tail(b) = a \o b
<1>1. Head(b) \in Ev /\ Tail(b) \in Seq(Ev)
    BY HeadTail
<1> PICK x : x = <<Head(b)>>
    OBVIOUS
<1>2. x \in Seq(Ev)
    BY <1>1, OneEvent
<1>3. Append(a, Head(b)) = a \o x
    BY <1>1, AppendIsConcat
<1>4. x \o Tail(b) = b
    <2>1. 1 \in 1 .. Len(b) /\ Len(b) \in 1 .. Len(b) /\ Head(b) = b[1] /\ 1 + 1 = 2
        BY HeadTail
    <2>2. SubSeq(b, 1, Len(b)) = <<b[1]>> \o SubSeq(b, 1 + 1, Len(b))
        BY <2>1, SubSeqRecursiveFirst
    <2>3. SubSeq(b, 1, Len(b)) = b /\ Tail(b) = SubSeq(b, 2, Len(b))
        BY SubSeqFull, TailIsSubSeq
    <2> QED BY <2>1, <2>2, <2>3
<1>5. (a \o x) \o Tail(b) = a \o (x \o Tail(b))
    BY <1>1, <1>2, ConcatAssociative
<1> QED BY <1>3, <1>4, <1>5

LEMMA SentStream == ASSUME Inv, SendEvent PROVE sending' = Tail(sending) /\ Stream' = Stream
<1>1. PICK p \in Seq(Steer), rest \in Seq(Ev) : Sent(p, rest)
    BY Sends
<1>2. /\ out' = Append(out, Head(sending))
      /\ sending # <<>> /\ sending \in Seq(Ev) /\ out \in Seq(Ev)
    BY DEF SendEvent, Inv, Types
<1>3. sending' = Tail(sending)
    <2>1. CASE p # <<>> /\ sending' = Steered(Tail(p)) \o rest
        <3>1. sending = Steered(p) \o rest
            BY <1>1 DEF Sent
        <3> QED BY <2>1, <3>1, NextSteered
    <2>2. CASE sending = rest /\ sending' = Tail(rest)
        BY <2>2
    <2>3. CASE sending = rest /\ rest = <<Head(rest)>> /\ sending' = <<>>
        <3>1. PICK x \in Ev : sending = <<x>>
            BY <1>2, <2>3, HeadTail
        <3>2. Len(sending) = 1
            BY <3>1, OneEvent
        <3>3. Tail(sending) \in Seq(Ev) /\ Len(Tail(sending)) = 0
            BY <1>2, <3>2, HeadTail
        <3> QED BY <2>3, <3>3, EmptySeq
    <2> QED BY <1>1, <2>1, <2>2, <2>3 DEF Sent
<1> QED BY <1>2, <1>3, Moved DEF Stream

LEMMA SendEventText == ASSUME Inv, TextInv, SendEvent PROVE TextInv'
<1>1. PICK p \in Seq(Steer), rest \in Seq(Ev) : Sent(p, rest)
    BY Sends
<1>2. UNCHANGED <<steering, stdin, stdout, cli, chat>>
    BY DEF SendEvent
<1>3. run'.pending = run.pending /\ (run'.phase = "loop" => run.phase = "loop")
    BY <1>1 DEF Sent
<1>4. ASSUME NEW c \in Nat, Known(c) PROVE Known(c)'
    BY <1>2, <1>3, <1>4 DEF Known
<1> QED BY <1>2, <1>3, <1>4, SentStream, StreamKept

LEMMA LoopOverText == ASSUME Inv, TextInv, ConsumerGone \/ AllReported \/ Shutdown PROVE TextInv'
<1>1. CASE ConsumerGone
    BY <1>1 DEF ConsumerGone, TextInv
<1>2. CASE AllReported \/ Shutdown
    <2>1. UNCHANGED <<sending, out, chat>> /\ run'.phase # "loop"
        BY <1>2 DEF AllReported, Shutdown, Inv, Types, Run
    <2> QED BY <2>1, StreamKept DEF Stream
<1> QED BY <1>1, <1>2

LEMMA RespondText == ASSUME Inv, TextInv, NEW r \in Requests, Respond(r) PROVE TextInv'
<1> PICK l : l = StdinLine("response", r, Allows(r))
    OBVIOUS
<1>1. l \in Input /\ l.kind # "steer"
    <2>1. Allows(r) \in BOOLEAN
        BY Zenon DEF Allows
    <2> QED BY <2>1 DEF StdinLine, Input
<1>2. UNCHANGED <<run, sending, out, steering, stdout, cli, chat>> /\ Write(l)
    BY DEF Respond
<1>3. ASSUME NEW c \in Nat, Known(c) PROVE Known(c)'
    <2>1. LinesUpTo(c + Len(run.pending), stdin')
        BY <1>1, <1>2, <1>3, WriteUpTo DEF Known, Inv
    <2> QED BY <1>2, <1>3, <2>1, KnownBy DEF Known
<1> QED BY <1>2, <1>3, StreamKept DEF Stream

\* The agent dies: what it had read is lost, what it wrote is not.
LEMMA DiesText ==
    ASSUME Inv, TextInv, UNCHANGED <<run, sending, out, steering, stdin, stdout, chat>>, cli' = Dead(cli)
    PROVE  TextInv'
<1>1. cli'.queue = <<>> /\ cli'.replayed = cli.replayed
    BY DEF Dead, Inv, Types, Cli
<1>2. ASSUME NEW c \in Nat, Known(c) PROVE Known(c)'
    <2>1. QueueUpTo(c + Len(run.pending), cli'.queue)
        BY <1>1 DEF QueueUpTo
    <2> QED BY <1>1, <1>2, <2>1, KnownBy DEF Known
<1> QED BY <1>2, StreamKept DEF Stream

-----------------------------------------------------------------------------
(* The CLI and the chat.                                                    *)

\* The steers with the agent are as many or fewer, and among those before.
FewerSteers == \A n : QueueUpTo(n, cli.queue) => QueueUpTo(n, cli'.queue)

\* The agent writes a line: text of the steer it replayed last, or a replay of a
\* steer it had, and then it has replayed that one.
LEMMA WritesText ==
    ASSUME Inv, TextInv, UNCHANGED <<run, sending, out, steering, chat>>,
           stdin' = stdin \/ (stdin # <<>> /\ stdin' = Tail(stdin)),
           NEW f \in Frame, Writes(f), cli'.replayed \in Steer, FewerSteers,
           f.kind = "work" => f.steer = cli.replayed,
           \/ f.kind # "replay" /\ cli'.replayed = cli.replayed
           \/ f.kind = "replay" /\ cli'.replayed = f.steer /\ \E k \in 1 .. Len(cli.queue) : f.steer = cli.queue[k]
    PROVE  TextInv'
<1>1. /\ stdout \in Seq(Frame) /\ stdin \in Seq(Input) /\ cli.replayed \in Steer
      /\ stdout' = Append(stdout, f)
    BY DEF Inv, Types, Cli, Writes
<1>2. ASSUME NEW c \in Nat, Known(c) PROVE Known(c)'
    <2> PICK n : n = c + Len(run.pending)
        OBVIOUS
    <2>1. LinesUpTo(n, stdin) /\ QueueUpTo(n, cli.queue) /\ ReplaysUpTo(n, stdout) /\ Follows(c, stdout, cli.replayed)
        BY <1>2 DEF Known
    <2>2. LinesUpTo(n, stdin')
        BY <1>1, <2>1, LinesTail
    <2>3. QueueUpTo(n, cli'.queue)
        BY <2>1 DEF FewerSteers
    <2>4. f.kind = "replay" => f.steer <= n
        BY <2>1 DEF QueueUpTo
    <2>5. ReplaysUpTo(n, stdout')
        BY <1>1, <2>1, <2>4, ReplaysAppend
    <2>6. Follows(c, stdout', cli'.replayed)
        BY <1>1, <2>1, FollowsAppend
    <2> QED BY <1>2, <2>2, <2>3, <2>5, <2>6, KnownBy
<1> QED BY <1>2, StreamKept DEF Stream

LEMMA CliOutputText == ASSUME Inv, TextInv, CliOutput PROVE TextInv'
<1>1. cli.replayed \in Steer /\ cli'.replayed = cli.replayed /\ cli'.queue = cli.queue
    BY DEF CliOutput, Inv, Types, Cli
<1> PICK f : f = Event("work", cli.replayed)
    OBVIOUS
<1>2. f \in Frame /\ f.kind = "work" /\ f.steer = cli.replayed
    BY <1>1 DEF Event, Frame
<1>3. UNCHANGED <<run, sending, out, steering, stdin, chat>> /\ Writes(f)
    BY DEF CliOutput, CliOnly
<1> QED BY <1>1, <1>2, <1>3, WritesText DEF FewerSteers

LEMMA CliEndTurnText == ASSUME Inv, TextInv, NEW status \in Ends, CliEndTurn(status) PROVE TextInv'
<1>1. cli.replayed \in Steer /\ cli'.replayed = cli.replayed /\ cli'.queue = cli.queue
    BY DEF CliEndTurn, Inv, Types, Cli
<1> PICK f : f = Event(status, cli.replayed)
    OBVIOUS
<1>2. f \in Frame /\ f.kind \notin {"work", "replay"}
    BY <1>1 DEF Event, Frame, Ends
<1>3. UNCHANGED <<run, sending, out, steering, stdin, chat>> /\ Writes(f)
    BY DEF CliEndTurn, CliOnly
<1> QED BY <1>1, <1>2, <1>3, WritesText DEF FewerSteers

LEMMA CliAskText == ASSUME Inv, TextInv, NEW r \in Requests, CliAsk(r) PROVE TextInv'
<1>1. cli.replayed \in Steer /\ cli'.replayed = cli.replayed /\ cli'.queue = cli.queue
    BY DEF CliAsk, Inv, Types, Cli
<1> PICK f : f = Event("ask", r)
    OBVIOUS
<1>2. f \in Frame /\ f.kind \notin {"work", "replay"}
    BY DEF Event, Frame, Ends
<1>3. UNCHANGED <<run, sending, out, steering, stdin, chat>> /\ Writes(f)
    BY DEF CliAsk, CliOnly
<1> QED BY <1>1, <1>2, <1>3, WritesText DEF FewerSteers

LEMMA CliTakeSteersText == ASSUME Inv, TextInv, NEW k \in DOMAIN cli.queue, CliTakeSteers(k) PROVE TextInv'
<1>1. PICK q \in Seq(Steer) : q = cli.queue
    BY DEF Inv, Types, Cli
<1>2. k \in 1 .. Len(q) /\ q[k] \in Steer /\ Len(q) \in Nat
    BY <1>1, ElementOfSeq, LenProperties
<1>3. cli'.replayed = q[k] /\ cli'.queue = SubSeq(q, k + 1, Len(q))
    BY <1>1 DEF CliTakeSteers, Inv, Types, Cli
<1> PICK f : f = Event("replay", q[k])
    OBVIOUS
<1>4. f \in Frame /\ f.kind = "replay" /\ f.steer = q[k]
    BY <1>2 DEF Event, Frame
<1>5. UNCHANGED <<run, sending, out, steering, stdin, chat>> /\ Writes(f)
    BY <1>1 DEF CliTakeSteers, CliOnly
<1>6. FewerSteers
    <2>1. PICK t : t = cli'.queue
        OBVIOUS
    <2>2. Len(t) = Len(q) - k /\ \A i \in 1 .. Len(q) - k : t[i] = q[k + i]
        BY <1>2, <1>3, <2>1
    <2>3. \A i \in 1 .. Len(t) : k + i \in 1 .. Len(q) /\ t[i] = q[k + i]
        BY <1>2, <2>2
    <2> QED BY <1>1, <2>1, <2>3 DEF FewerSteers, QueueUpTo
<1> QED BY <1>1, <1>2, <1>3, <1>4, <1>5, <1>6, WritesText

\* A line is read, and nothing is written.
LEMMA ReadsText ==
    ASSUME Inv, TextInv, UNCHANGED <<run, sending, out, steering, stdout, chat>>,
           stdin' = stdin \/ (stdin # <<>> /\ stdin' = Tail(stdin)),
           cli'.replayed = cli.replayed,
           FewerSteers \/ (stdin # <<>> /\ Head(stdin).kind = "steer"
                           /\ cli'.queue = Append(cli.queue, Head(stdin).what))
    PROVE  TextInv'
<1>1. stdin \in Seq(Input) /\ cli.queue \in Seq(Steer)
    BY DEF Inv, Types, Cli
<1>2. ASSUME NEW c \in Nat, Known(c) PROVE Known(c)'
    <2> PICK n : n = c + Len(run.pending)
        OBVIOUS
    <2>1. LinesUpTo(n, stdin) /\ QueueUpTo(n, cli.queue) /\ ReplaysUpTo(n, stdout) /\ Follows(c, stdout, cli.replayed)
        BY <1>2 DEF Known
    <2>2. LinesUpTo(n, stdin')
        BY <1>1, <2>1, LinesTail
    <2>3. QueueUpTo(n, cli'.queue)
        <3>1. CASE FewerSteers
            BY <2>1, <3>1 DEF FewerSteers
        <3>2. CASE stdin # <<>> /\ Head(stdin).kind = "steer" /\ cli'.queue = Append(cli.queue, Head(stdin).what)
            <4>1. Head(stdin) \in Input /\ Head(stdin) = stdin[1] /\ 1 \in 1 .. Len(stdin)
                BY <1>1, <3>2, HeadTail
            <4>2. Head(stdin).what \in Steer
                BY <3>2, <4>1 DEF Input
            <4>3. Head(stdin).what <= n
                BY <2>1, <3>2, <4>1 DEF LinesUpTo
            <4> QED BY <1>1, <2>1, <3>2, <4>2, <4>3, QueueAppend
        <3> QED BY <3>1, <3>2
    <2> QED BY <1>2, <2>1, <2>2, <2>3, KnownBy
<1> QED BY <1>2, StreamKept DEF Stream

LEMMA CliAbsorbText == ASSUME Inv, TextInv, CliAbsorb PROVE TextInv'
<1>1. cli.queue \in Seq(Steer) /\ cli.queue # <<>> /\ cli'.replayed = cli.replayed /\ cli'.queue = Tail(cli.queue)
    BY DEF CliAbsorb, Inv, Types, Cli
<1>2. FewerSteers
    BY <1>1, QueueTail DEF FewerSteers
<1> QED BY <1>1, <1>2, ReadsText DEF CliAbsorb, CliOnly

LEMMA CliReadLineText == ASSUME Inv, TextInv, CliReadLine PROVE TextInv'
<1>1. cli \in Cli /\ cli.replayed \in Steer
    BY DEF Inv, Types, Cli
<1>2. /\ UNCHANGED <<run, sending, out, steering, chat>>
      /\ stdin # <<>> /\ stdin' = Tail(stdin)
    BY DEF CliReadLine, CliOnly
<1>3. CASE Head(stdin).kind = "steer" /\ cli' = [cli EXCEPT !.queue = Append(@, Head(stdin).what)] /\ UNCHANGED stdout
    <2>1. cli'.replayed = cli.replayed /\ cli'.queue = Append(cli.queue, Head(stdin).what)
        BY <1>1, <1>3 DEF Cli
    <2> QED BY <1>2, <1>3, <2>1, ReadsText
<1>4. CASE cli'.queue = cli.queue /\ cli'.replayed = cli.replayed /\ UNCHANGED stdout
    <2>1. FewerSteers
        BY <1>4 DEF FewerSteers
    <2> QED BY <1>2, <1>4, <2>1, ReadsText
<1>5. CASE cli'.queue = cli.queue /\ cli'.replayed = cli.replayed
           /\ \E status \in Ends : Writes(Event(status, cli.replayed))
    <2> PICK f \in Frame : Writes(f) /\ f.kind \notin {"work", "replay"}
        BY <1>1, <1>5 DEF Event, Frame, Ends
    <2>1. FewerSteers
        BY <1>5 DEF FewerSteers
    <2> QED BY <1>1, <1>2, <1>5, <2>1, WritesText
<1>6. \/ Head(stdin).kind = "steer" /\ cli' = [cli EXCEPT !.queue = Append(@, Head(stdin).what)] /\ UNCHANGED stdout
      \/ cli'.queue = cli.queue /\ cli'.replayed = cli.replayed
         /\ (UNCHANGED stdout \/ \E status \in Ends : Writes(Event(status, cli.replayed)))
    BY <1>1 DEF CliReadLine, Cli
<1> QED BY <1>3, <1>4, <1>5, <1>6

LEMMA CliText == ASSUME Inv, TextInv, CliNext \/ Escalate PROVE TextInv'
<1>1. CASE CliExit \/ Escalate
    BY <1>1, DiesText DEF CliExit, Escalate, CliOnly
<1>2. CASE \E k \in DOMAIN cli.queue : CliTakeSteers(k)
    BY <1>2, CliTakeSteersText
<1> QED BY <1>1, <1>2, CliOutputText, CliEndTurnText, CliAskText, CliAbsorbText, CliReadLineText DEF CliNext

\* A steer takes its place behind those in the channel.
LEMMA ChatSteerText == ASSUME Inv, TextInv, ChatSteer PROVE TextInv'
<1>1. /\ UNCHANGED <<run, sending, out, stdin, stdout, cli>>
      /\ chat'.gone = chat.gone /\ chat'.steered = chat.steered
      /\ chat'.pushed = chat.pushed + 1 /\ chat.pushed \in Nat /\ steering' = Append(steering, chat.pushed + 1)
    BY BoundsAssumption DEF ChatSteer, Inv, Types, Chat, Steer
<1>2. ASSUME NEW c \in Nat, Known(c) PROVE Known(c)'
    <2> PICK p \in Seq(Steer) : p = run.pending
        BY DEF Inv, Types, Run
    <2> PICK t \in Seq(Steer) : t = steering
        BY DEF Inv, Types
    <2> PICK x \in Steer : x = chat.pushed + 1
        BY <1>1, BoundsAssumption DEF ChatSteer, Steer
    <2>1. InLine(c, p, t, chat.pushed) /\ Len(p) \in Nat /\ Len(t) \in Nat
        BY <1>2, LenProperties DEF Known
    <2>2. Len(Append(t, x)) = Len(t) + 1 /\ x = c + Len(p) + (Len(t) + 1)
        BY <1>1, <2>1 DEF InLine
    <2>3. ASSUME NEW i \in 1 .. Len(Append(t, x)) PROVE Append(t, x)[i] = c + Len(p) + i
        <3>1. \/ i \in 1 .. Len(t) /\ Append(t, x)[i] = t[i]
              \/ i = Len(t) + 1 /\ Append(t, x)[i] = x
            BY AppendAt
        <3>2. \A j \in 1 .. Len(t) : t[j] = c + Len(p) + j
            BY <2>1 DEF InLine
        <3> QED BY <2>2, <3>1, <3>2
    <2>4. InLine(c, p, Append(t, x), x)
        BY <2>1, <2>2, <2>3 DEF InLine
    <2> QED BY <1>1, <1>2, <2>4 DEF Known
<1> QED BY <1>1, <1>2, StreamKept DEF Stream

LEMMA ChatReceiveText == ASSUME Inv, TextInv, ChatReceive PROVE TextInv'
<1>1. /\ UNCHANGED <<run, sending, steering, stdin, stdout, cli>>
      /\ chat'.gone = chat.gone /\ chat'.pushed = chat.pushed /\ ~chat.gone
      /\ chat'.steered = chat.steered + (IF Head(out).kind = "steered" THEN 1 ELSE 0)
      /\ out # <<>> /\ out' = Tail(out) /\ out \in Seq(Ev) /\ sending \in Seq(Ev)
    BY DEF ChatReceive, Inv, Types, Chat
<1>2. Stream \in Seq(Ev) /\ chat.steered \in Nat
    BY StreamTyped DEF Inv
<1>3. Stream # <<>> /\ Head(Stream) = Head(out) /\ Stream' = Tail(Stream)
    <2>1. Head(out \o sending) = Head(out) /\ Tail(out \o sending) = Tail(out) \o sending
        BY <1>1, HeadTailJoined
    <2>2. out \o sending # <<>>
        BY <1>1, ConcatEqualIffEmpty
    <2> QED BY <1>1, <2>1, <2>2 DEF Stream
<1> PICK more \in Nat : more = IF Head(Stream).kind = "steered" THEN 1 ELSE 0
    OBVIOUS
<1>4. chat'.steered = chat.steered + more
    BY <1>1, <1>3
<1> PICK c \in Nat : c = Count(Stream, chat.steered)
    BY <1>2, CountTyped
<1>5. Count(Tail(Stream), chat.steered + more) = c
    BY <1>2, <1>3, StreamTaken
<1>6. Below(Stream, chat.steered) /\ (run.phase = "loop" => Known(c))
    BY <1>1 DEF TextInv
<1>7. Below(Tail(Stream), chat.steered + more)
    BY <1>2, <1>3, <1>6, StreamTaken
<1>8. Below(Stream', chat'.steered)
    BY <1>3, <1>4, <1>7
<1>9. Count(Stream, chat.steered)' = c
    BY <1>3, <1>4, <1>5
<1>10. Known(c) => Known(c)'
    BY <1>1 DEF Known
<1> QED BY <1>1, <1>6, <1>8, <1>9, <1>10 DEF TextInv

LEMMA ChatText == ASSUME Inv, TextInv, ChatNext PROVE TextInv'
<1>1. CASE ChatRunEnded \/ \E states \in {{"asked"}, {"asked", "open"}} : ChatLeave(states)
    <2>1. chat'.gone = TRUE
        BY <1>1 DEF ChatRunEnded, ChatLeave, Inv, Types, Chat
    <2> QED BY <2>1 DEF TextInv
<1>2. CASE \/ ChatStop \/ \E r \in Requests : ChatReceiveQuestion(r)
           \/ \E r \in Requests, allow \in BOOLEAN : ChatAnswer(r, allow)
    <2>1. /\ UNCHANGED <<run, sending, out, steering, stdin, stdout, cli>>
          /\ chat'.gone = chat.gone /\ chat'.steered = chat.steered /\ chat'.pushed = chat.pushed
        BY <1>2 DEF ChatStop, ChatReceiveQuestion, ChatAnswer, Inv, Types, Chat
    <2>2. \A c \in Nat : Known(c) => Known(c)'
        BY <2>1 DEF Known
    <2> QED BY <2>1, <2>2, StreamKept DEF Stream
<1> QED BY <1>1, <1>2, ChatSteerText, ChatReceiveText DEF ChatNext

LEMMA NextText == Inv /\ TextInv /\ [Next]_vars => TextInv'
<1> SUFFICES ASSUME Inv, TextInv, [Next]_vars PROVE TextInv'
    OBVIOUS
<1>1. CASE HarnessNext
    BY <1>1, ReadOutputText, ReadReplayText, ReadResultText, ReadRequestText, ReadEndText, HoldExpiresText,
       AcceptSteerText, SelectsText, SendEventText, LoopOverText DEF HarnessNext
<1>2. CASE \E r \in Requests : Respond(r)
    BY <1>2, RespondText
<1>3. CASE CliNext \/ Escalate
    BY <1>3, CliText
<1>4. CASE ChatNext
    BY <1>4, ChatText
<1>5. CASE UNCHANGED vars
    BY <1>5 DEF vars, TextInv, Stream, Known
<1> QED BY <1>1, <1>2, <1>3, <1>4, <1>5 DEF Next

\* Everything the agent wrote after it replayed a steer reaches the chat after the
\* report that this steer was read, and after those of all earlier ones: the
\* prompt stands above its answer (rotate_for_steer), however replays, absorbed
\* steers, held turn ends and interrupts interleave.
THEOREM TextBelowSteer == Spec => []Attributed
<1>1. Inv /\ TextInv => Attributed
    <2> SUFFICES ASSUME Inv, TextInv, ~chat.gone, NEW i \in DOMAIN Stream, Stream[i].kind = "work"
                 PROVE  chat.steered + Reads(Stream, i) >= Stream[i].steer
        BY DEF Attributed, Stream, Reads, ReadBy
    <2>1. i \in 1 .. Len(Stream)
        BY StreamTyped DEF Inv
    <2> QED BY <2>1 DEF TextInv, Below
<1>2. Init => Inv /\ TextInv
    BY InitInv, InitText
<1>3. Inv /\ TextInv /\ [Next]_vars => (Inv /\ TextInv)'
    BY NextInv, NextText
<1> QED BY <1>1, <1>2, <1>3, PTL DEF Spec

-----------------------------------------------------------------------------
(* The chat works iff the agent does.  First the steers: those the chat was *)
(* not told of, c being the last it was told of, are replayed, with the     *)
(* agent or on their way to it in the order in which they were sent.        *)

\* The loop goes on between an agent and a chat.
On == run.phase = "loop" /\ cli.alive /\ ~chat.gone

ReplaysAfter(c, m, frames) ==
    /\ \A i \in 1 .. Len(frames) :
          frames[i].kind = "replay" => c < frames[i].steer /\ frames[i].steer <= m
    /\ \A i, j \in 1 .. Len(frames) :
          i < j /\ frames[i].kind = "replay" /\ frames[j].kind = "replay" => frames[i].steer < frames[j].steer

QueueAfter(c, m, q) ==
    /\ \A i \in 1 .. Len(q) : c < q[i] /\ m < q[i]
    /\ \A i, j \in 1 .. Len(q) : i < j => q[i] < q[j]

LinesAfter(c, m, q, lines) ==
    /\ \A i \in 1 .. Len(lines) :
          lines[i].kind = "steer" =>
              c < lines[i].what /\ m < lines[i].what /\ \A j \in 1 .. Len(q) : q[j] < lines[i].what
    /\ \A i, j \in 1 .. Len(lines) :
          i < j /\ lines[i].kind = "steer" /\ lines[j].kind = "steer" => lines[i].what < lines[j].what

Unread(c) ==
    /\ ReplaysAfter(c, cli.replayed, stdout) /\ QueueAfter(c, cli.replayed, cli.queue)
    /\ LinesAfter(c, cli.replayed, cli.queue, stdin)

UnreadInv == "silence" \notin Faults /\ On => Unread(Count(Stream, chat.steered))

LEMMA InitUnread == Init => UnreadInv
<1> SUFFICES ASSUME Init PROVE UnreadInv
    OBVIOUS
<1>1. stdin = <<>> /\ stdout = <<>> /\ cli.queue = <<>>
    BY DEF Init
<1>2. \A c : Unread(c)
    BY <1>1 DEF Unread, ReplaysAfter, QueueAfter, LinesAfter
<1> QED BY <1>2 DEF UnreadInv

\* A step after which the chat has been told of as many steers, or will be.
LEMMA UnreadKept ==
    ASSUME Inv, UnreadInv, Count(Stream, chat.steered)' = Count(Stream, chat.steered), On' => On,
           \A c \in Nat : On' /\ c = Count(Stream, chat.steered) /\ Unread(c) => Unread(c)'
    PROVE  UnreadInv'
<1>1. Count(Stream, chat.steered) \in Nat
    BY StreamTyped, CountTyped DEF Inv
<1> PICK c \in Nat : c = Count(Stream, chat.steered)
    BY <1>1
<1>2. ASSUME "silence" \notin Faults, On' PROVE Unread(c)'
    BY <1>2 DEF UnreadInv
<1>3. Count(Stream, chat.steered)' = c
    OBVIOUS
<1> QED BY <1>2, <1>3 DEF UnreadInv

\* Lines that are read, and lines behind them.
LEMMA LinesAfterTail ==
    ASSUME NEW c, NEW m, NEW q, NEW s \in Seq(Input), s # <<>>, LinesAfter(c, m, q, s)
    PROVE  LinesAfter(c, m, q, Tail(s))
<1>1. /\ Len(s) \in Nat \ {0} /\ Len(Tail(s)) = Len(s) - 1
      /\ \A i \in 1 .. Len(Tail(s)) : i + 1 \in 1 .. Len(s) /\ Tail(s)[i] = s[i + 1]
    BY HeadTail, TailAt
<1>2. \A i, j \in 1 .. Len(Tail(s)) : i < j => i + 1 < j + 1
    BY <1>1
<1> QED BY <1>1, <1>2 DEF LinesAfter

LEMMA ReplaysAfterTail ==
    ASSUME NEW c \in Nat, NEW m, NEW s \in Seq(Frame), s # <<>>, ReplaysAfter(c, m, s),
           NEW d \in Nat, d = IF Head(s).kind = "replay" THEN Head(s).steer ELSE c
    PROVE  ReplaysAfter(d, m, Tail(s))
<1>1. /\ Len(s) \in Nat \ {0} /\ Len(Tail(s)) = Len(s) - 1 /\ Head(s) = s[1] /\ 1 \in 1 .. Len(s)
      /\ \A i \in 1 .. Len(Tail(s)) : i + 1 \in 1 .. Len(s) /\ 1 < i + 1 /\ Tail(s)[i] = s[i + 1]
    BY HeadTail, TailAt
<1>2. \A i, j \in 1 .. Len(Tail(s)) : i < j => i + 1 < j + 1
    BY <1>1
<1>3. ASSUME NEW i \in 1 .. Len(Tail(s)), Tail(s)[i].kind = "replay"
      PROVE  d < Tail(s)[i].steer /\ Tail(s)[i].steer <= m
    BY <1>1, <1>3 DEF ReplaysAfter
<1> QED BY <1>1, <1>2, <1>3 DEF ReplaysAfter

LEMMA QueueAfterTail ==
    ASSUME NEW c, NEW m, NEW q \in Seq(Steer), q # <<>>, QueueAfter(c, m, q)
    PROVE  QueueAfter(c, m, Tail(q))
<1>1. /\ Len(q) \in Nat \ {0} /\ Len(Tail(q)) = Len(q) - 1
      /\ \A i \in 1 .. Len(Tail(q)) : i + 1 \in 1 .. Len(q) /\ Tail(q)[i] = q[i + 1]
    BY HeadTail, TailAt
<1>2. \A i, j \in 1 .. Len(Tail(q)) : i < j => i + 1 < j + 1
    BY <1>1
<1> QED BY <1>1, <1>2 DEF QueueAfter

LEMMA LinesAfterAppend ==
    ASSUME NEW c, NEW m, NEW q, NEW s \in Seq(Input), NEW l \in Input, LinesAfter(c, m, q, s),
           l.kind = "steer" =>
              /\ c < l.what /\ m < l.what /\ \A j \in 1 .. Len(q) : q[j] < l.what
              /\ \A i \in 1 .. Len(s) : s[i].kind = "steer" => s[i].what < l.what
    PROVE  LinesAfter(c, m, q, Append(s, l))
<1> PICK t : t = Append(s, l)
    OBVIOUS
<1>1. /\ Len(s) \in Nat /\ Len(t) = Len(s) + 1
      /\ \A i \in 1 .. Len(t) : (i \in 1 .. Len(s) /\ t[i] = s[i]) \/ (i = Len(s) + 1 /\ t[i] = l)
    BY AppendAt, AppendProperties, LenProperties
<1>2. \A i \in 1 .. Len(t) : t[i].kind = "steer" =>
          c < t[i].what /\ m < t[i].what /\ \A j \in 1 .. Len(q) : q[j] < t[i].what
    BY <1>1 DEF LinesAfter
<1>3. ASSUME NEW i \in 1 .. Len(t), NEW j \in 1 .. Len(t), i < j, t[i].kind = "steer", t[j].kind = "steer"
      PROVE  t[i].what < t[j].what
    <2>1. i \in 1 .. Len(s) /\ t[i] = s[i]
        BY <1>1, <1>3
    <2>2. CASE j \in 1 .. Len(s) /\ t[j] = s[j]
        BY <1>3, <2>1, <2>2 DEF LinesAfter
    <2>3. CASE t[j] = l
        BY <1>3, <2>1, <2>3
    <2> QED BY <1>1, <2>2, <2>3
<1>4. LinesAfter(c, m, q, t)
    BY <1>2, <1>3 DEF LinesAfter
<1> QED BY <1>4

\* A steer is read from stdin, and one that is taken leaves the queue.
LEMMA SteerRead ==
    ASSUME NEW c, NEW m, NEW q \in Seq(Steer), NEW s \in Seq(Input), s # <<>>, Head(s).kind = "steer",
           QueueAfter(c, m, q), LinesAfter(c, m, q, s), NEW k \in Steer, k = Head(s).what
    PROVE  QueueAfter(c, m, Append(q, k)) /\ LinesAfter(c, m, Append(q, k), Tail(s))
<1> PICK u : u = Append(q, k)
    OBVIOUS
<1>1. /\ Len(q) \in Nat /\ Len(u) = Len(q) + 1
      /\ \A i \in 1 .. Len(u) : (i \in 1 .. Len(q) /\ u[i] = q[i]) \/ (i = Len(q) + 1 /\ u[i] = k)
    BY AppendAt, AppendProperties, LenProperties
<1>2. /\ Len(s) \in Nat \ {0} /\ Len(Tail(s)) = Len(s) - 1 /\ Head(s) = s[1] /\ 1 \in 1 .. Len(s)
      /\ \A i \in 1 .. Len(Tail(s)) : i + 1 \in 1 .. Len(s) /\ 1 < i + 1 /\ Tail(s)[i] = s[i + 1]
    BY HeadTail, TailAt
<1>3. c < k /\ m < k /\ \A j \in 1 .. Len(q) : q[j] < k
    BY <1>2 DEF LinesAfter
<1>4. ASSUME NEW i \in 1 .. Len(u), NEW j \in 1 .. Len(u), i < j PROVE u[i] < u[j]
    <2>1. i \in 1 .. Len(q) /\ u[i] = q[i]
        BY <1>1, <1>4
    <2>2. CASE j \in 1 .. Len(q) /\ u[j] = q[j]
        BY <1>4, <2>1, <2>2 DEF QueueAfter
    <2>3. CASE u[j] = k
        BY <1>3, <2>1, <2>3
    <2> QED BY <1>1, <2>2, <2>3
<1>5. QueueAfter(c, m, u)
    BY <1>1, <1>3, <1>4 DEF QueueAfter
<1>6. ASSUME NEW i \in 1 .. Len(Tail(s)), Tail(s)[i].kind = "steer", NEW j \in 1 .. Len(u)
      PROVE  u[j] < Tail(s)[i].what
    <2>1. i + 1 \in 1 .. Len(s) /\ 1 < i + 1 /\ Tail(s)[i] = s[i + 1] /\ s[1].kind = "steer" /\ s[1].what = k
        BY <1>2
    <2>2. k < s[i + 1].what /\ \A l \in 1 .. Len(q) : q[l] < s[i + 1].what
        BY <1>2, <1>6, <2>1 DEF LinesAfter
    <2> QED BY <1>1, <2>1, <2>2
<1>7. LinesAfter(c, m, u, Tail(s))
    <2>1. LinesAfter(c, m, q, Tail(s))
        BY LinesAfterTail
    <2> QED BY <1>6, <2>1 DEF LinesAfter
<1> QED BY <1>5, <1>7

\* The first k steers are taken, and the last of them is replayed.
LEMMA SteersTaken ==
    ASSUME NEW c \in Nat, NEW m \in Nat, NEW q \in Seq(Steer), NEW k \in 1 .. Len(q),
           NEW s \in Seq(Frame), NEW lines, NEW f \in Frame, f.kind = "replay", f.steer = q[k],
           ReplaysAfter(c, m, s), QueueAfter(c, m, q), LinesAfter(c, m, q, lines)
    PROVE  /\ ReplaysAfter(c, q[k], Append(s, f))
           /\ QueueAfter(c, q[k], SubSeq(q, k + 1, Len(q)))
           /\ LinesAfter(c, q[k], SubSeq(q, k + 1, Len(q)), lines)
<1> PICK t : t = Append(s, f)
    OBVIOUS
<1> PICK n : n = q[k]
    OBVIOUS
<1>1. /\ Len(s) \in Nat /\ Len(t) = Len(s) + 1 /\ \A i \in 1 .. Len(s) : s[i] \in Frame
      /\ \A i \in 1 .. Len(t) : (i \in 1 .. Len(s) /\ t[i] = s[i]) \/ (i = Len(s) + 1 /\ t[i] = f)
    BY AppendAt, AppendProperties, LenProperties, ElementOfSeq
<1>2. c < n /\ m < n /\ n \in Nat
    <2>1. q[k] \in Steer
        BY ElementOfSeq
    <2> QED BY <2>1, BoundsAssumption DEF QueueAfter, Steer
<1>3. \A x \in Frame : x.kind = "replay" => x.steer \in Nat
    BY BoundsAssumption DEF Frame, Steer, Ends
<1>4. ASSUME NEW i \in 1 .. Len(t), t[i].kind = "replay" PROVE c < t[i].steer /\ t[i].steer <= n
    <2>1. CASE i \in 1 .. Len(s) /\ t[i] = s[i]
        BY <1>1, <1>2, <1>3, <1>4, <2>1 DEF ReplaysAfter
    <2>2. CASE t[i] = f
        BY <1>2, <2>2
    <2> QED BY <1>1, <2>1, <2>2
<1>5. ASSUME NEW i \in 1 .. Len(t), NEW j \in 1 .. Len(t), i < j, t[i].kind = "replay", t[j].kind = "replay"
      PROVE  t[i].steer < t[j].steer
    <2>1. i \in 1 .. Len(s) /\ t[i] = s[i]
        BY <1>1, <1>5
    <2>2. CASE j \in 1 .. Len(s) /\ t[j] = s[j]
        BY <1>5, <2>1, <2>2 DEF ReplaysAfter
    <2>3. CASE t[j] = f
        <3>1. s[i].steer <= m /\ s[i].steer \in Nat
            BY <1>1, <1>3, <1>5, <2>1 DEF ReplaysAfter
        <3> QED BY <1>2, <2>1, <2>3, <3>1
    <2> QED BY <1>1, <2>2, <2>3
<1>6. ReplaysAfter(c, n, t)
    BY <1>4, <1>5 DEF ReplaysAfter
<1> PICK u : u = SubSeq(q, k + 1, Len(q))
    OBVIOUS
<1>7. Len(u) = Len(q) - k /\ \A i \in 1 .. Len(q) - k : u[i] = q[k + i]
    <2>1. Len(q) \in Nat /\ k \in 1 .. Len(q)
        BY LenProperties
    <2>2. /\ Len(u) = IF k + 1 <= Len(q) THEN Len(q) - (k + 1) + 1 ELSE 0
          /\ \A i \in 1 .. Len(q) - (k + 1) + 1 : u[i] = q[k + 1 + i - 1]
        BY <2>1
    <2>3. \A i \in 1 .. Len(q) - k : i \in 1 .. Len(q) - (k + 1) + 1 /\ k + 1 + i - 1 = k + i
        BY <2>1
    <2> QED BY <2>1, <2>2, <2>3
<1>8. \A i \in 1 .. Len(u) : k + i \in 1 .. Len(q) /\ k < k + i /\ u[i] = q[k + i]
    BY <1>7, LenProperties
<1>9. \A i, j \in 1 .. Len(u) : i < j => k + i < k + j
    BY <1>7, LenProperties
<1>10. QueueAfter(c, n, u)
    BY <1>8, <1>9 DEF QueueAfter
<1>11. LinesAfter(c, n, u, lines)
    BY <1>8 DEF LinesAfter
<1> QED BY <1>6, <1>10, <1>11

\* Frames that replay nothing.
LEMMA FrameAfter ==
    ASSUME NEW c, NEW m, NEW s \in Seq(Frame), NEW f \in Frame, f.kind # "replay", ReplaysAfter(c, m, s)
    PROVE  ReplaysAfter(c, m, Append(s, f))
<1> PICK t : t = Append(s, f)
    OBVIOUS
<1>1. /\ Len(s) \in Nat /\ Len(t) = Len(s) + 1
      /\ \A i \in 1 .. Len(t) : (i \in 1 .. Len(s) /\ t[i] = s[i]) \/ (i = Len(s) + 1 /\ t[i] = f)
    BY AppendAt, AppendProperties, LenProperties
<1>2. \A i \in 1 .. Len(t) : t[i].kind = "replay" => i \in 1 .. Len(s) /\ t[i] = s[i]
    BY <1>1
<1>3. ReplaysAfter(c, m, t)
    BY <1>2 DEF ReplaysAfter
<1> QED BY <1>3

\* A line that is no steer is written for the CLI.
LEMMA UnreadWrite ==
    ASSUME Types, NEW l \in Input, Write(l), l.kind # "steer", run.phase = "loop", NEW c \in Nat,
           LinesAfter(c, cli.replayed, cli.queue, stdin)
    PROVE  LinesAfter(c, cli.replayed, cli.queue, stdin')
BY LinesAfterAppend DEF Types, Write

LEMMA SelectsUnread == ASSUME Inv, UnreadInv, CloseSteering \/ SeeInterrupt PROVE UnreadInv'
<1> PICK kind \in {"close", "interrupt"} : Write(StdinLine(kind, 0, FALSE))
    BY DEF CloseSteering, SeeInterrupt
<1> PICK l \in Input : l = StdinLine(kind, 0, FALSE) /\ l.kind # "steer" /\ Write(l)
    <2>1. StdinLine(kind, 0, FALSE) \in Input /\ StdinLine(kind, 0, FALSE).kind = kind
        BY DEF StdinLine, Input
    <2> QED BY <2>1
<1>1. /\ UNCHANGED <<sending, out, steering, stdout, cli, chat>> /\ run.phase = "loop"
    BY DEF CloseSteering, SeeInterrupt, Selecting
<1>2. ASSUME NEW c \in Nat, Unread(c) PROVE Unread(c)'
    BY <1>1, <1>2, UnreadWrite DEF Unread, Inv
<1> QED BY <1>1, <1>2, UnreadKept DEF Stream, On

LEMMA ReadRequestUnread == ASSUME Inv, UnreadInv, ReadRequest PROVE UnreadInv'
<1> DEFINE r == Head(stdout).steer
           l == StdinLine("response", r, TRUE)
<1>1. /\ UNCHANGED <<run, sending, out, steering, cli, chat>> /\ run.phase = "loop"
      /\ stdout # <<>> /\ stdout' = Tail(stdout) /\ Head(stdout).kind # "replay" /\ r \in Requests
      /\ (stdin' = stdin \/ Write(l)) /\ stdout \in Seq(Frame)
    BY FrameEvent DEF ReadRequest, Selecting, Inv, Types
<1>2. l \in Input /\ l.kind # "steer"
    BY <1>1 DEF StdinLine, Input
<1> HIDE DEF l, r
<1>3. ASSUME NEW c \in Nat, Unread(c) PROVE Unread(c)'
    <2>1. LinesAfter(c, cli.replayed, cli.queue, stdin')
        BY <1>1, <1>2, <1>3, UnreadWrite DEF Unread, Inv
    <2>2. ReplaysAfter(c, cli.replayed, stdout')
        BY <1>1, <1>3, ReplaysAfterTail DEF Unread
    <2> QED BY <1>1, <1>3, <2>1, <2>2 DEF Unread
<1> QED BY <1>1, <1>3, UnreadKept DEF Stream, On

\* What is sent at the select reports no steer.
LEMMA CountSame ==
    ASSUME Inv, sending = <<>>, UNCHANGED <<out, chat>>, sending' \in Seq(Ev),
           \A i \in 1 .. Len(sending') : sending'[i].kind # "steered"
    PROVE  Count(Stream, chat.steered)' = Count(Stream, chat.steered)
<1>1. out \in Seq(Ev) /\ chat.steered \in Nat /\ Stream = out
    BY ConcatEmptySeq DEF Inv, Types, Chat, Stream
<1>2. Count(out \o sending', chat.steered) = Count(out, chat.steered)
    BY <1>1, CountKept
<1>3. Stream' = out \o sending' /\ chat' = chat
    BY DEF Stream
<1> QED BY <1>1, <1>2, <1>3

LEMMA ReadsUnread == ASSUME Inv, UnreadInv, ReadOutput \/ ReadResult PROVE UnreadInv'
<1>1. /\ UNCHANGED <<out, steering, stdin, cli, chat>> /\ run.phase = "loop" /\ sending = <<>>
      /\ stdout \in Seq(Frame) /\ stdout # <<>> /\ stdout' = Tail(stdout) /\ Head(stdout).kind # "replay"
      /\ Head(stdout).kind \in Ends \cup {"work"}
    BY DEF ReadOutput, ReadResult, Selecting, Inv, Types, Ends
<1>2. /\ Head(stdout).steer \in Steer
      /\ Event(Head(stdout).kind, Head(stdout).steer) = Head(stdout)
    BY <1>1, FrameEvent DEF Inv
<1>3. sending' = sending \/ \E ev \in Ev : sending' = <<ev>> /\ ev.kind # "steered"
    <2>1. CASE ReadOutput
        <3>1. Head(stdout) \in Ev
            BY <1>2, <2>1, EventTyped DEF ReadOutput, Kinds
        <3> QED BY <2>1, <3>1 DEF ReadOutput
    <2>2. CASE ReadResult
        <3> DEFINE done == Event(IF run.interrupted THEN "interrupted" ELSE Head(stdout).kind, Head(stdout).steer)
        <3>1. done \in Ev /\ done.kind # "steered"
            BY <1>2, <2>2, EventTyped DEF ReadResult, Kinds, Dones, Ends, Event
        <3>2. sending' = sending \/ sending' = <<done>>
            BY <2>2 DEF ReadResult
        <3> QED BY <3>1, <3>2
    <2> QED BY <2>1, <2>2
<1>4. sending' \in Seq(Ev) /\ \A i \in 1 .. Len(sending') : sending'[i].kind # "steered"
    <2>1. CASE sending' = sending
        BY <1>1, <2>1, NoneYet
    <2>2. ASSUME NEW ev \in Ev, sending' = <<ev>>, ev.kind # "steered"
          PROVE  sending' \in Seq(Ev) /\ \A i \in 1 .. Len(sending') : sending'[i].kind # "steered"
        BY <2>2, OneEvent
    <2> QED BY <1>3, <2>1, <2>2
<1>5. Count(Stream, chat.steered)' = Count(Stream, chat.steered)
    BY <1>1, <1>4, CountSame
<1>6. ASSUME NEW c \in Nat, Unread(c) PROVE Unread(c)'
    <2>1. ReplaysAfter(c, cli.replayed, stdout')
        BY <1>1, <1>6, ReplaysAfterTail DEF Unread
    <2> QED BY <1>1, <1>6, <2>1 DEF Unread
<1> QED BY <1>1, <1>5, <1>6, UnreadKept DEF On

\* Until it has read the replay, the loop knows the steer as pending.
LEMMA ReplayPending ==
    ASSUME Inv, TextInv, UnreadInv, "silence" \notin Faults, On, stdout # <<>>, Head(stdout).kind = "replay",
           NEW c \in Nat, c = Count(Stream, chat.steered), NEW n \in Nat, n = Head(stdout).steer
    PROVE  c < n /\ n = c + Position(run.pending, n) /\ Unread(c)
<1>1. PICK p \in Seq(Steer) : p = run.pending
    BY DEF Inv, Types, Run
<1>2. Known(c) /\ Unread(c) /\ Len(p) \in Nat
    BY LenProperties DEF TextInv, UnreadInv, On
<1>3. stdout[1] = Head(stdout) /\ 1 \in 1 .. Len(stdout)
    BY HeadTail DEF Inv, Types
<1>4. c < n
    BY <1>2, <1>3 DEF Unread, ReplaysAfter
<1>5. n <= c + Len(p) /\ \A i \in 1 .. Len(p) : p[i] = c + i
    BY <1>1, <1>2, <1>3 DEF Known, InLine, ReplaysUpTo
<1>6. n - c \in 1 .. Len(p) /\ p[n - c] = n
    <2>1. n - c \in 1 .. Len(p) /\ c + (n - c) = n
        BY <1>2, <1>4, <1>5
    <2> QED BY <1>5, <2>1
<1>7. n \in ToSet(p)
    BY <1>6 DEF ToSet
<1>8. Position(p, n) \in 1 .. Len(p) /\ p[Position(p, n)] = n
    BY <1>7 DEF Position, ToSet
<1>9. n = c + Position(p, n)
    BY <1>5, <1>8
<1> QED BY <1>1, <1>2, <1>4, <1>9

LEMMA ReadReplayUnread == ASSUME Inv, TextInv, UnreadInv, ReadReplay PROVE UnreadInv'
<1> SUFFICES ASSUME "silence" \notin Faults, On' PROVE Unread(Count(Stream, chat.steered))'
    BY DEF UnreadInv
<1>1. PICK n \in Nat : n = Head(stdout).steer
    <2>1. Head(stdout).steer \in Steer
        BY FrameEvent DEF ReadReplay, Inv, Frame
    <2> QED BY <2>1, BoundsAssumption DEF Steer
<1>2. PICK p \in Seq(Steer) : p = run.pending
    BY DEF Inv, Types, Run
<1>3. PICK k \in 0 .. Len(p) : k = Position(p, n)
    BY PositionOf
<1>4. /\ UNCHANGED <<out, steering, stdin, cli, chat>> /\ run.phase = "loop" /\ sending = <<>>
      /\ stdout \in Seq(Frame) /\ stdout # <<>> /\ stdout' = Tail(stdout) /\ Head(stdout).kind = "replay"
      /\ sending' = Steered(SubSeq(p, 1, k))
    BY <1>1, <1>2, <1>3 DEF ReadReplay, Confirmed, Selecting, Inv, Types, Run
<1>5. out \in Seq(Ev) /\ chat.steered \in Nat /\ Stream = out
    BY <1>4, ConcatEmptySeq DEF Inv, Types, Chat, Stream
<1>6. PICK c \in Nat : c = Count(Stream, chat.steered)
    BY <1>5, CountTyped
<1>7. On
    BY <1>4 DEF On
<1>8. c < n /\ n = c + k /\ Unread(c)
    BY <1>1, <1>2, <1>3, <1>4, <1>6, <1>7, ReplayPending
<1>9. PICK q \in Seq(Steer) : q = SubSeq(p, 1, k) /\ Len(q) = k
    <2>1. SubSeq(p, 1, k) \in Seq(Steer)
        BY Split
    <2>2. Len(SubSeq(p, 1, k)) = k
        BY LenProperties
    <2> QED BY <2>1, <2>2
<1>10. Count(out \o Steered(q), chat.steered) = n
    <2>1. PICK s \in Seq(Ev), read \in Nat : s = out /\ read = chat.steered
        BY <1>5
    <2>2. Count(s \o Steered(q), read) = Count(s, read) + Len(q)
        BY CountSteered
    <2> QED BY <1>5, <1>6, <1>8, <1>9, <2>1, <2>2
<1>11. Count(Stream, chat.steered)' = n
    BY <1>4, <1>9, <1>10 DEF Stream
<1>12. ReplaysAfter(n, cli.replayed, stdout')
    BY <1>1, <1>4, <1>8, ReplaysAfterTail DEF Unread
<1>13. n <= cli.replayed
    <2>1. stdout[1] = Head(stdout) /\ 1 \in 1 .. Len(stdout)
        BY <1>4, HeadTail
    <2> QED BY <1>1, <1>4, <1>8, <2>1 DEF Unread, ReplaysAfter
<1>14. /\ \A x \in Steer : cli.replayed < x => n < x
       /\ \A i \in 1 .. Len(cli.queue) : cli.queue[i] \in Steer
       /\ \A i \in 1 .. Len(stdin) : stdin[i].kind = "steer" => stdin[i].what \in Steer
    <2>1. cli.replayed \in Steer /\ cli.queue \in Seq(Steer) /\ stdin \in Seq(Input)
        BY DEF Inv, Types, Cli
    <2>2. \A x \in Input : x.kind = "steer" => x.what \in Steer
        BY DEF Input
    <2>3. \A x \in Steer : x \in Nat
        BY BoundsAssumption DEF Steer
    <2>4. \A x \in Steer : cli.replayed < x => n < x
        BY <1>13, <2>1, <2>3
    <2> QED BY <2>1, <2>2, <2>4, ElementOfSeq
<1>15. QueueAfter(n, cli.replayed, cli.queue) /\ LinesAfter(n, cli.replayed, cli.queue, stdin)
    BY <1>8, <1>14 DEF Unread, QueueAfter, LinesAfter
<1>16. Unread(n)'
    BY <1>4, <1>12, <1>15 DEF Unread
<1> QED BY <1>11, <1>16

\* The settle timeout finds nothing on its way while the agent lives.
LEMMA HoldExpiresUnread == ASSUME Inv, UnreadInv, HoldExpires PROVE UnreadInv'
<1> SUFFICES ASSUME On' PROVE Unread(Count(Stream, chat.steered))'
    BY DEF UnreadInv
<1>1. UNCHANGED <<stdin, stdout, cli>> /\ stdin = <<>> /\ stdout = <<>> /\ cli.queue = <<>>
    BY DEF HoldExpires, On
<1>2. \A c : Unread(c)'
    BY <1>1 DEF Unread, ReplaysAfter, QueueAfter, LinesAfter
<1> QED BY <1>2

LEMMA LeavesUnread == ASSUME Inv, ReadEnd \/ ReadError PROVE UnreadInv'
<1>1. run'.phase = "exit"
    BY DEF ReadEnd, ReadError, LeaveLoop, Inv, Types, Run
<1> QED BY <1>1 DEF UnreadInv, On

LEMMA AcceptSteerUnread == ASSUME Inv, TextInv, UnreadInv, AcceptSteer PROVE UnreadInv'
<1> DEFINE n == Head(steering)
           r == [run EXCEPT !.pending = Append(@, n)]
<1>1. /\ n \in Steer /\ run \in Run /\ run.pending \in Seq(Steer) /\ run.phase = "loop"
      /\ steering \in Seq(Steer) /\ steering # <<>>
      /\ UNCHANGED <<out, stdout, cli, chat>>
    BY HeadTail DEF AcceptSteer, Selecting, Inv, Types, Run
<1>2. CASE run' = [r EXCEPT !.phase = "exit", !.held = <<>>]
    <2>1. run'.phase = "exit"
        BY <1>1, <1>2, RunSteps DEF Run
    <2> QED BY <2>1 DEF UnreadInv, On
<1> PICK l : l = StdinLine("steer", n, FALSE)
    OBVIOUS
<1>3. l \in Input /\ l.what = n
    BY <1>1 DEF StdinLine, Input
<1>4. CASE Write(l) /\ UNCHANGED sending
    <2>1. ASSUME NEW c \in Nat, On, c = Count(Stream, chat.steered), Unread(c) PROVE Unread(c)'
        <3>1. Known(c)
            BY <2>1 DEF TextInv, On
        <3>2. PICK a \in Nat : a = c + Len(run.pending)
            BY <1>1, LenProperties
        <3>3. n = a + 1
            BY <1>1, <3>1, <3>2, InLineTake DEF Known
        <3> HIDE DEF n
        <3>4. cli.replayed <= a /\ cli.replayed \in Nat
            <4>1. cli.replayed \in Nat /\ Len(stdout) \in Nat /\ \A i \in 1 .. Len(stdout) : stdout[i] \in Frame
                BY BoundsAssumption, LenProperties, ElementOfSeq DEF Inv, Types, Cli, Steer
            <4>2. Answered(c, stdout, cli.replayed, Len(stdout) + 1)
                BY <3>1 DEF Known, Follows
            <4>3. CASE cli.replayed <= c
                <5>1. Len(run.pending) \in Nat
                    BY <1>1, LenProperties
                <5> QED BY <3>2, <4>1, <4>3, <5>1
            <4>4. ASSUME NEW j \in 1 .. Len(stdout), stdout[j].kind = "replay", stdout[j].steer >= cli.replayed
                  PROVE  cli.replayed <= a
                <5>1. stdout[j].steer <= a
                    BY <3>1, <3>2, <4>4 DEF Known, ReplaysUpTo
                <5>2. stdout[j].steer \in Nat
                    BY <4>1, <4>4, BoundsAssumption DEF Frame, Steer, Ends
                <5> QED BY <4>1, <4>4, <5>1, <5>2
            <4>5. (Len(stdout) + 1) - 1 = Len(stdout)
                BY <4>1
            <4> QED BY <4>1, <4>2, <4>3, <4>4, <4>5 DEF Answered
        <3>5. c < n /\ cli.replayed < n
            <4>1. Len(run.pending) \in Nat
                BY <1>1, LenProperties
            <4> QED BY <3>2, <3>3, <3>4, <4>1
        <3>6. \A x \in Steer : x <= a => x < n
            BY <3>3, BoundsAssumption DEF Steer
        <3>7. \A j \in 1 .. Len(cli.queue) : cli.queue[j] < n
            <4>1. \A j \in 1 .. Len(cli.queue) : cli.queue[j] \in Steer /\ cli.queue[j] <= a
                BY <3>1, <3>2, ElementOfSeq DEF Known, QueueUpTo, Inv, Types, Cli
            <4> QED BY <3>6, <4>1
        <3>8. \A i \in 1 .. Len(stdin) : stdin[i].kind = "steer" => stdin[i].what < n
            <4>1. \A i \in 1 .. Len(stdin) : stdin[i] \in Input /\ (stdin[i].kind = "steer" => stdin[i].what <= a)
                BY <3>1, <3>2, ElementOfSeq DEF Known, LinesUpTo, Inv, Types
            <4>2. \A x \in Input : x.kind = "steer" => x.what \in Steer
                BY DEF Input
            <4> QED BY <3>6, <4>1, <4>2
        <3>9. LinesAfter(c, cli.replayed, cli.queue, Append(stdin, l))
            BY <1>3, <2>1, <3>5, <3>7, <3>8, LinesAfterAppend DEF Unread, Inv, Types
        <3>10. stdin' = Append(stdin, l)
            BY <1>1, <1>4 DEF Write
        <3> QED BY <1>1, <2>1, <3>9, <3>10 DEF Unread
    <2>2. On' => On
        BY <1>1 DEF On
    <2> QED BY <1>1, <1>4, <2>1, <2>2, UnreadKept DEF Stream
<1> QED BY <1>2, <1>4 DEF AcceptSteer

LEMMA SendEventUnread == ASSUME Inv, UnreadInv, SendEvent PROVE UnreadInv'
<1>1. UNCHANGED <<steering, stdin, stdout, cli, chat>> /\ (run'.phase = "loop" => run.phase = "loop")
    BY DEF SendEvent, Inv, Types, Run
<1> QED BY <1>1, SentStream, UnreadKept DEF On, Unread

LEMMA LoopOverUnread == ASSUME Inv, ConsumerGone \/ AllReported \/ Shutdown PROVE UnreadInv'
<1>1. run'.phase # "loop"
    BY DEF ConsumerGone, AllReported, Shutdown, Inv, Types, Run
<1> QED BY <1>1 DEF UnreadInv, On

LEMMA RespondUnread == ASSUME Inv, UnreadInv, NEW r \in Requests, Respond(r) PROVE UnreadInv'
<1> PICK l : l = StdinLine("response", r, Allows(r))
    OBVIOUS
<1>1. l \in Input /\ l.kind # "steer"
    <2>1. Allows(r) \in BOOLEAN
        BY Zenon DEF Allows
    <2> QED BY <2>1 DEF StdinLine, Input
<1>2. UNCHANGED <<run, sending, out, steering, stdout, cli, chat>> /\ Write(l)
    BY DEF Respond
<1>3. ASSUME NEW c \in Nat, run.phase = "loop", Unread(c) PROVE Unread(c)'
    BY <1>1, <1>2, <1>3, UnreadWrite DEF Unread, Inv
<1> QED BY <1>2, <1>3, UnreadKept DEF Stream, On

LEMMA CliUnread == ASSUME Inv, UnreadInv, CliNext \/ Escalate PROVE UnreadInv'
<1>1. CASE CliExit \/ Escalate
    <2>1. cli'.alive = FALSE
        BY <1>1 DEF CliExit, Escalate, Dead, Inv, Types, Cli
    <2> QED BY <2>1 DEF UnreadInv, On
<1>2. /\ cli \in Cli /\ cli.replayed \in Steer /\ cli.replayed \in Nat /\ cli.queue \in Seq(Steer)
      /\ stdout \in Seq(Frame) /\ stdin \in Seq(Input)
    BY BoundsAssumption DEF Inv, Types, Cli, Steer
<1> SUFFICES ASSUME UNCHANGED <<run, sending, out, steering, chat>>, cli.alive,
                    NEW c \in Nat, Unread(c), ~(CliExit \/ Escalate)
             PROVE  Unread(c)'
    <2>1. CASE ~(CliExit \/ Escalate)
        <3>1. UNCHANGED <<run, sending, out, steering, chat>> /\ cli.alive
            BY <2>1 DEF CliNext, CliOutput, CliAbsorb, CliReadLine, CliEndTurn, CliTakeSteers, CliAsk, CliOnly, CanWrite
        <3>2. \A c \in Nat : Unread(c) => Unread(c)'
            BY <2>1, <3>1
        <3> QED BY <3>1, <3>2, UnreadKept DEF Stream, On
    <2> QED BY <1>1, <2>1
<1>3. CASE /\ stdin' = stdin \/ (stdin # <<>> /\ stdin' = Tail(stdin))
           /\ cli'.queue = cli.queue /\ cli'.replayed = cli.replayed
           /\ stdout' = stdout \/ \E f \in Frame : Writes(f) /\ f.kind # "replay"
    <2>1. LinesAfter(c, cli.replayed, cli.queue, stdin')
        BY <1>2, <1>3, LinesAfterTail DEF Unread
    <2>2. ReplaysAfter(c, cli.replayed, stdout')
        BY <1>2, <1>3, FrameAfter DEF Unread, Writes
    <2> QED BY <1>3, <2>1, <2>2 DEF Unread
<1>4. CASE CliOutput \/ (\E status \in Ends : CliEndTurn(status)) \/ \E r \in Requests : CliAsk(r)
    <2>1. stdin' = stdin /\ cli'.queue = cli.queue /\ cli'.replayed = cli.replayed
        BY <1>2, <1>4 DEF CliOutput, CliEndTurn, CliAsk, Cli
    <2>2. \E f \in Frame : Writes(f) /\ f.kind # "replay"
        <3>1. /\ Event("work", cli.replayed) \in Frame /\ Event("work", cli.replayed).kind # "replay"
              /\ \A s \in Ends : Event(s, cli.replayed) \in Frame /\ Event(s, cli.replayed).kind # "replay"
              /\ \A r \in Requests : Event("ask", r) \in Frame /\ Event("ask", r).kind # "replay"
            BY <1>2 DEF Event, Frame, Ends
        <3> QED BY <1>4, <3>1 DEF CliOutput, CliEndTurn, CliAsk
    <2> QED BY <1>3, <2>1, <2>2
<1>5. CASE CliAbsorb
    <2>1. /\ cli.queue # <<>> /\ cli'.queue = Tail(cli.queue) /\ cli'.replayed = cli.replayed
          /\ UNCHANGED <<stdin, stdout>>
        BY <1>2, <1>5 DEF CliAbsorb, Cli
    <2>2. QueueAfter(c, cli.replayed, Tail(cli.queue))
        BY <1>2, <2>1, QueueAfterTail DEF Unread
    <2>3. LinesAfter(c, cli.replayed, Tail(cli.queue), stdin)
        BY <1>2, <2>1, TailAt DEF Unread, LinesAfter
    <2> QED BY <2>1, <2>2, <2>3 DEF Unread
<1>6. CASE CliReadLine
    <2>1. stdin # <<>> /\ stdin' = Tail(stdin)
        BY <1>6 DEF CliReadLine
    <2>2. CASE Head(stdin).kind = "steer" /\ cli' = [cli EXCEPT !.queue = Append(@, Head(stdin).what)] /\ UNCHANGED stdout
        <3>1. cli'.replayed = cli.replayed /\ cli'.queue = Append(cli.queue, Head(stdin).what)
            BY <1>2, <2>2 DEF Cli
        <3>2. Head(stdin).what \in Steer
            <4>1. Head(stdin) \in Input
                BY <1>2, <2>1, HeadTail
            <4> QED BY <2>2, <4>1 DEF Input
        <3>3. QueueAfter(c, cli.replayed, cli'.queue) /\ LinesAfter(c, cli.replayed, cli'.queue, stdin')
            BY <1>2, <2>1, <2>2, <3>1, <3>2, SteerRead DEF Unread
        <3> QED BY <2>2, <3>1, <3>3 DEF Unread
    <2>3. CASE /\ cli'.queue = cli.queue /\ cli'.replayed = cli.replayed
               /\ UNCHANGED stdout \/ \E status \in Ends : Writes(Event(status, cli.replayed))
        <3>1. \A s \in Ends : Event(s, cli.replayed) \in Frame /\ Event(s, cli.replayed).kind # "replay"
            BY <1>2 DEF Event, Frame, Ends
        <3> QED BY <1>3, <2>1, <2>3, <3>1
    <2>4. \/ Head(stdin).kind = "steer" /\ cli' = [cli EXCEPT !.queue = Append(@, Head(stdin).what)] /\ UNCHANGED stdout
          \/ cli'.queue = cli.queue /\ cli'.replayed = cli.replayed
             /\ (UNCHANGED stdout \/ \E status \in Ends : Writes(Event(status, cli.replayed)))
        BY <1>2, <1>6 DEF CliReadLine, Cli
    <2> QED BY <2>2, <2>3, <2>4
<1>7. ASSUME NEW k \in DOMAIN cli.queue, CliTakeSteers(k) PROVE Unread(c)'
    <2>1. PICK q \in Seq(Steer) : q = cli.queue
        BY <1>2
    <2>2. k \in 1 .. Len(q) /\ q[k] \in Steer
        BY <1>7, <2>1, ElementOfSeq
    <2>3. cli'.replayed = q[k] /\ cli'.queue = SubSeq(q, k + 1, Len(q)) /\ stdin' = stdin
        BY <1>2, <1>7, <2>1 DEF CliTakeSteers, Cli
    <2> PICK f : f = Event("replay", q[k])
        OBVIOUS
    <2>4. f \in Frame /\ f.kind = "replay" /\ f.steer = q[k] /\ stdout' = Append(stdout, f)
        BY <1>7, <2>1, <2>2 DEF Event, Frame, CliTakeSteers, Writes
    <2>5. /\ ReplaysAfter(c, q[k], Append(stdout, f))
          /\ QueueAfter(c, q[k], SubSeq(q, k + 1, Len(q)))
          /\ LinesAfter(c, q[k], SubSeq(q, k + 1, Len(q)), stdin)
        BY <1>2, <2>1, <2>2, <2>4, SteersTaken DEF Unread
    <2> QED BY <2>3, <2>4, <2>5 DEF Unread
<1> QED BY <1>4, <1>5, <1>6, <1>7 DEF CliNext

\* What the chat receives next it counts itself.
LEMMA ReceivedCount ==
    ASSUME Inv, ChatReceive
    PROVE  /\ Stream # <<>> /\ Head(Stream) = Head(out) /\ Stream' = Tail(Stream)
           /\ Count(Stream, chat.steered)' = Count(Stream, chat.steered)
<1>1. /\ sending' = sending /\ chat'.steered = chat.steered + (IF Head(out).kind = "steered" THEN 1 ELSE 0)
      /\ out # <<>> /\ out' = Tail(out) /\ out \in Seq(Ev) /\ sending \in Seq(Ev)
    BY DEF ChatReceive, Inv, Types, Chat
<1>2. Stream \in Seq(Ev) /\ chat.steered \in Nat
    BY StreamTyped DEF Inv
<1>3. Stream # <<>> /\ Head(Stream) = Head(out) /\ Stream' = Tail(Stream)
    <2>1. Head(out \o sending) = Head(out) /\ Tail(out \o sending) = Tail(out) \o sending
        BY <1>1, HeadTailJoined
    <2>2. out \o sending # <<>>
        BY <1>1, ConcatEqualIffEmpty
    <2> QED BY <1>1, <2>1, <2>2 DEF Stream
<1> PICK more \in Nat : more = IF Head(Stream).kind = "steered" THEN 1 ELSE 0
    OBVIOUS
<1>4. chat'.steered = chat.steered + more
    BY <1>1, <1>3
<1>5. Count(Tail(Stream), chat.steered + more) = Count(Stream, chat.steered)
    BY <1>2, <1>3, StreamTaken
<1> QED BY <1>3, <1>4, <1>5

LEMMA ChatUnread == ASSUME Inv, UnreadInv, ChatNext PROVE UnreadInv'
<1>1. CASE ChatRunEnded \/ \E states \in {{"asked"}, {"asked", "open"}} : ChatLeave(states)
    <2>1. chat'.gone = TRUE
        BY <1>1 DEF ChatRunEnded, ChatLeave, Inv, Types, Chat
    <2> QED BY <2>1 DEF UnreadInv, On
<1>2. CASE \/ ChatSteer \/ ChatStop \/ \E r \in Requests : ChatReceiveQuestion(r)
           \/ \E r \in Requests, allow \in BOOLEAN : ChatAnswer(r, allow)
    <2>1. /\ UNCHANGED <<run, sending, out, stdin, stdout, cli>>
          /\ chat'.gone = chat.gone /\ chat'.steered = chat.steered
        BY <1>2 DEF ChatSteer, ChatStop, ChatReceiveQuestion, ChatAnswer, Inv, Types, Chat
    <2> QED BY <2>1, UnreadKept DEF Stream, On, Unread
<1>3. CASE ChatReceive
    <2>1. UNCHANGED <<run, stdin, stdout, cli>> /\ chat'.gone = chat.gone
        BY <1>3 DEF ChatReceive, Inv, Types, Chat
    <2>2. Count(Stream, chat.steered)' = Count(Stream, chat.steered)
        BY <1>3, ReceivedCount
    <2> QED BY <2>1, <2>2, UnreadKept DEF On, Unread
<1> QED BY <1>1, <1>2, <1>3 DEF ChatNext

LEMMA NextUnread == Inv /\ TextInv /\ UnreadInv /\ [Next]_vars => UnreadInv'
<1> SUFFICES ASSUME Inv, TextInv, UnreadInv, [Next]_vars PROVE UnreadInv'
    OBVIOUS
<1>1. CASE HarnessNext
    BY <1>1, ReadsUnread, ReadReplayUnread, ReadRequestUnread, LeavesUnread, HoldExpiresUnread,
       AcceptSteerUnread, SelectsUnread, SendEventUnread, LoopOverUnread DEF HarnessNext
<1>2. CASE \E r \in Requests : Respond(r)
    BY <1>2, RespondUnread
<1>3. CASE CliNext \/ Escalate
    BY <1>3, CliUnread
<1>4. CASE ChatNext
    BY <1>4, ChatUnread
<1>5. CASE UNCHANGED vars
    BY <1>5 DEF vars, UnreadInv, On, Stream, Unread
<1> QED BY <1>1, <1>2, <1>3, <1>4, <1>5 DEF Next

-----------------------------------------------------------------------------
(* Then the turns: whether the agent is in one shows in its last line, or,  *)
(* when the loop has read them all, in the last event for the chat.         *)

Plain(frames) == \A i \in 1 .. Len(frames) : frames[i].kind = "ask"

\* The last line that says so says whether the turn is over.
TellsTurn(frames, turn) ==
    \A i \in 1 .. Len(frames) :
        (frames[i].kind # "ask" /\ \A j \in 1 .. Len(frames) : i < j => frames[j].kind = "ask")
            => (frames[i].kind \in Ends <=> ~turn)

\* Whether the chat works when it has taken all of s.
Busy(s, working) ==
    \/ s = <<>> /\ working
    \/ s # <<>> /\ s[Len(s)].kind \notin Dones

\* A steer is on its way to the agent.
Coming == steering # <<>> \/ cli.queue # <<>> \/ \E i \in 1 .. Len(stdin) : stdin[i].kind = "steer"

Shown ==
    /\ \A i \in 1 .. Len(Stream) : Stream[i].kind # "error"
    /\ TellsTurn(stdout, cli.turn)
    /\ Plain(stdout) /\ cli.turn /\ "silence" \notin Faults => Busy(Stream, chat.working)
    /\ Plain(stdout) /\ ~cli.turn => run.held # <<>> \/ ~Busy(Stream, chat.working) \/ Coming

ShowInv == On => Shown

LEMMA InitShow == Init => ShowInv
<1> SUFFICES ASSUME Init PROVE ShowInv
    OBVIOUS
<1>1. Stream = <<>> /\ stdout = <<>> /\ cli.turn /\ chat.working
    BY ConcatEmptySeq, NoneYet DEF Init, Stream
<1>2. Len(Stream) = 0 /\ Len(stdout) = 0
    BY <1>1
<1> QED BY <1>1, <1>2 DEF ShowInv, Shown, TellsTurn, Busy

LEMMA PlainTail ==
    ASSUME NEW s \in Seq(Frame), s # <<>>
    PROVE  Plain(s) <=> Head(s).kind = "ask" /\ Plain(Tail(s))
<1>1. /\ Len(s) \in Nat \ {0} /\ Len(Tail(s)) = Len(s) - 1 /\ Head(s) = s[1] /\ 1 \in 1 .. Len(s)
      /\ \A i \in 1 .. Len(Tail(s)) : i + 1 \in 1 .. Len(s) /\ Tail(s)[i] = s[i + 1]
    BY HeadTail, TailAt
<1>2. ASSUME Head(s).kind = "ask", Plain(Tail(s)), NEW i \in 1 .. Len(s) PROVE s[i].kind = "ask"
    <2>1. CASE i = 1
        BY <1>1, <1>2, <2>1
    <2>2. CASE i # 1
        <3>1. i - 1 \in 1 .. Len(Tail(s)) /\ (i - 1) + 1 = i
            BY <1>1, <2>2
        <3>2. Tail(s)[i - 1] = s[i]
            BY <1>1, <3>1
        <3> QED BY <1>2, <3>1, <3>2 DEF Plain
    <2> QED BY <2>1, <2>2
<1> QED BY <1>1, <1>2 DEF Plain

LEMMA SaysTail ==
    ASSUME NEW s \in Seq(Frame), s # <<>>, NEW turn, TellsTurn(s, turn)
    PROVE  /\ TellsTurn(Tail(s), turn)
           /\ Plain(Tail(s)) /\ Head(s).kind # "ask" => (Head(s).kind \in Ends <=> ~turn)
<1>1. /\ Len(s) \in Nat \ {0} /\ Len(Tail(s)) = Len(s) - 1 /\ Head(s) = s[1] /\ 1 \in 1 .. Len(s)
      /\ \A i \in 1 .. Len(Tail(s)) : i + 1 \in 1 .. Len(s) /\ Tail(s)[i] = s[i + 1]
    BY HeadTail, TailAt
<1>2. \A j \in 1 .. Len(s) : 1 < j => j - 1 \in 1 .. Len(Tail(s)) /\ s[j] = Tail(s)[j - 1]
    <2>1. ASSUME NEW j \in 1 .. Len(s), 1 < j PROVE j - 1 \in 1 .. Len(Tail(s)) /\ s[j] = Tail(s)[j - 1]
        <3>1. j - 1 \in 1 .. Len(Tail(s)) /\ (j - 1) + 1 = j
            BY <1>1, <2>1
        <3> QED BY <1>1, <3>1
    <2> QED BY <2>1
<1>3. ASSUME NEW i \in 1 .. Len(Tail(s)), Tail(s)[i].kind # "ask",
             \A j \in 1 .. Len(Tail(s)) : i < j => Tail(s)[j].kind = "ask"
      PROVE  Tail(s)[i].kind \in Ends <=> ~turn
    <2>1. i + 1 \in 1 .. Len(s) /\ Tail(s)[i] = s[i + 1]
        BY <1>1
    <2>2. ASSUME NEW j \in 1 .. Len(s), i + 1 < j PROVE s[j].kind = "ask"
        <3>1. 1 < j /\ i < j - 1
            BY <2>2
        <3> QED BY <1>2, <1>3, <3>1
    <2>3. s[i + 1].kind \in Ends <=> ~turn
        BY <1>3, <2>1, <2>2 DEF TellsTurn
    <2> QED BY <2>1, <2>3
<1>4. ASSUME Plain(Tail(s)), Head(s).kind # "ask" PROVE Head(s).kind \in Ends <=> ~turn
    <2>1. \A j \in 1 .. Len(s) : 1 < j => s[j].kind = "ask"
        BY <1>2, <1>4 DEF Plain
    <2>2. s[1].kind \in Ends <=> ~turn
        BY <1>1, <1>4, <2>1 DEF TellsTurn
    <2> QED BY <1>1, <2>2
<1>5. TellsTurn(Tail(s), turn)
    BY <1>3 DEF TellsTurn
<1> QED BY <1>4, <1>5

LEMMA SaysAppend ==
    ASSUME NEW s \in Seq(Frame), NEW f \in Frame, NEW turn, NEW later, TellsTurn(s, turn),
           \/ f.kind = "ask" /\ later = turn
           \/ f.kind # "ask" /\ (f.kind \in Ends <=> ~later)
    PROVE  TellsTurn(Append(s, f), later) /\ (Plain(Append(s, f)) => Plain(s) /\ f.kind = "ask")
<1> PICK t : t = Append(s, f)
    OBVIOUS
<1>1. /\ Len(s) \in Nat /\ Len(t) = Len(s) + 1 /\ t[Len(s) + 1] = f /\ Len(s) + 1 \in 1 .. Len(t)
      /\ \A i \in 1 .. Len(s) : i \in 1 .. Len(t) /\ t[i] = s[i] /\ i < Len(s) + 1
      /\ \A i \in 1 .. Len(t) : i \in 1 .. Len(s) \/ i = Len(s) + 1
    BY AppendProperties, LenProperties
<1>2. Plain(t) => Plain(s) /\ f.kind = "ask"
    BY <1>1 DEF Plain
<1>3. ASSUME NEW i \in 1 .. Len(t), t[i].kind # "ask", \A j \in 1 .. Len(t) : i < j => t[j].kind = "ask"
      PROVE  t[i].kind \in Ends <=> ~later
    <2>1. CASE i = Len(s) + 1
        BY <1>1, <1>3, <2>1
    <2>2. CASE i \in 1 .. Len(s)
        <3>1. f.kind = "ask"
            BY <1>1, <1>3, <2>2
        <3>2. \A j \in 1 .. Len(s) : i < j => s[j].kind = "ask"
            BY <1>1, <1>3
        <3> QED BY <1>1, <1>3, <2>2, <3>1, <3>2 DEF TellsTurn
    <2> QED BY <1>1, <2>1, <2>2
<1>4. TellsTurn(t, later)
    BY <1>3 DEF TellsTurn
<1> QED BY <1>2, <1>4

\* The stream grows at its end, and the chat takes its head.
LEMMA BusyGrows ==
    ASSUME NEW s \in Seq(Ev), NEW e \in Seq(Ev), NEW working
    PROVE  /\ e = <<>> => s \o e = s
           /\ e # <<>> => (Busy(s \o e, working) <=> e[Len(e)].kind \notin Dones)
           /\ \A i \in 1 .. Len(s \o e) : (\E j \in 1 .. Len(s) : (s \o e)[i] = s[j]) \/ \E j \in 1 .. Len(e) : (s \o e)[i] = e[j]
<1> PICK x : x = s \o e
    OBVIOUS
<1>1. IsJoin(x, s, e)
    BY Joined
<1>2. ASSUME e # <<>> PROVE Busy(x, working) <=> e[Len(e)].kind \notin Dones
    BY <1>1, <1>2 DEF Busy, IsJoin
<1>3. \A i \in 1 .. Len(x) : (\E j \in 1 .. Len(s) : x[i] = s[j]) \/ \E j \in 1 .. Len(e) : x[i] = e[j]
    BY <1>1 DEF IsJoin
<1> QED BY <1>2, <1>3, ConcatEmptySeq

LEMMA BusyTail ==
    ASSUME NEW s \in Seq(Ev), s # <<>>, NEW working \in BOOLEAN, NEW later \in BOOLEAN,
           later <=> Head(s).kind \notin Dones
    PROVE  Busy(Tail(s), later) <=> Busy(s, working)
<1>1. /\ Len(s) \in Nat \ {0} /\ Len(Tail(s)) = Len(s) - 1 /\ Head(s) = s[1] /\ Tail(s) \in Seq(Ev)
      /\ \A i \in 1 .. Len(s) - 1 : Tail(s)[i] = s[i + 1]
    BY HeadTail
<1> PICK t : t = Tail(s)
    OBVIOUS
<1>2. /\ Busy(s, working) <=> s[Len(s)].kind \notin Dones
      /\ t # <<>> => (Busy(t, later) <=> t[Len(t)].kind \notin Dones)
      /\ t = <<>> => (Busy(t, later) <=> later)
    BY Zenon DEF Busy
<1>3. CASE t = <<>>
    <2>1. Len(s) = 1
        <3>1. Len(t) = 0 /\ Len(t) = Len(s) - 1
            BY <1>1, <1>3
        <3> QED BY <1>1, <3>1
    <2>2. s[Len(s)] = Head(s)
        BY <1>1, <2>1
    <2>3. Busy(s, working) <=> later
        BY <1>2, <2>2, Zenon
    <2> QED BY <1>2, <1>3, <2>3, Zenon
<1>4. CASE t # <<>>
    <2>1. Len(t) \in 1 .. Len(s) - 1 /\ Len(t) + 1 = Len(s)
        BY <1>1, <1>4, EmptySeq
    <2>2. t[Len(t)] = s[Len(s)]
        BY <1>1, <2>1
    <2>3. Busy(s, working) <=> t[Len(t)].kind \notin Dones
        BY <1>2, <2>2
    <2>4. Busy(t, later) <=> t[Len(t)].kind \notin Dones
        BY <1>2, <1>4
    <2> QED BY <2>3, <2>4, Zenon
<1> QED BY <1>3, <1>4

\* A step that moves steers at most, and none of them out of the way of an
\* agent between two turns.
LEMMA ShowKept ==
    ASSUME ShowInv, On' => On, stdout' = stdout, cli'.turn = cli.turn, Stream' = Stream,
           chat'.working = chat.working, run'.held = run.held, On /\ ~cli.turn /\ Coming => Coming'
    PROVE  ShowInv'
<1> SUFFICES ASSUME On' PROVE Shown'
    BY DEF ShowInv
<1>1. On /\ Shown
    BY DEF ShowInv
<1>2. /\ \A i \in 1 .. Len(Stream') : Stream'[i].kind # "error"
      /\ TellsTurn(stdout', cli'.turn)
      /\ Plain(stdout') /\ cli'.turn /\ "silence" \notin Faults => Busy(Stream', chat'.working)
    BY <1>1 DEF Shown
<1>3. Plain(stdout') /\ ~cli'.turn => run'.held # <<>> \/ ~Busy(Stream', chat'.working) \/ Coming'
    BY <1>1 DEF Shown
<1> QED BY <1>2, <1>3 DEF Shown

\* What is written for the agent keeps the steers before it on their way.
LEMMA ComingWrite ==
    ASSUME Types, run.phase = "loop", NEW l \in Input, Write(l), cli' = cli, steering' = steering, Coming
    PROVE  Coming'
<1>1. stdin \in Seq(Input) /\ stdin' = Append(stdin, l)
    BY DEF Types, Write
<1>2. \A i \in 1 .. Len(stdin) : i \in 1 .. Len(stdin') /\ stdin'[i] = stdin[i]
    BY <1>1, AppendProperties, LenProperties
<1> QED BY <1>2 DEF Coming

LEMMA LastLine ==
    ASSUME NEW s \in Seq(Input), NEW l \in Input
    PROVE  Len(s) + 1 \in 1 .. Len(Append(s, l)) /\ Append(s, l)[Len(s) + 1] = l
<1>1. Len(s) \in Nat /\ Len(Append(s, l)) = Len(s) + 1 /\ Append(s, l)[Len(s) + 1] = l
    BY AppendProperties, LenProperties
<1> QED BY <1>1

LEMMA SelectsShow == ASSUME Inv, ShowInv, CloseSteering \/ SeeInterrupt PROVE ShowInv'
<1> PICK kind \in {"close", "interrupt"} : Write(StdinLine(kind, 0, FALSE))
    BY DEF CloseSteering, SeeInterrupt
<1> PICK l \in Input : l = StdinLine(kind, 0, FALSE) /\ Write(l)
    <2>1. StdinLine(kind, 0, FALSE) \in Input
        BY DEF StdinLine, Input
    <2> QED BY <2>1
<1>1. /\ UNCHANGED <<sending, out, steering, stdout, cli, chat>> /\ run.phase = "loop"
      /\ run'.held = run.held
    BY DEF CloseSteering, SeeInterrupt, Selecting, Inv, Types, Run
<1>2. Coming => Coming'
    BY <1>1, ComingWrite DEF Inv
<1> QED BY <1>1, <1>2, ShowKept DEF Stream, On

LEMMA AcceptSteerShow == ASSUME Inv, ShowInv, AcceptSteer PROVE ShowInv'
<1> DEFINE n == Head(steering)
           r == [run EXCEPT !.pending = Append(@, n)]
<1>1. /\ n \in Steer /\ run \in Run /\ run.pending \in Seq(Steer) /\ run.phase = "loop"
      /\ UNCHANGED <<out, stdout, cli, chat>>
    BY HeadTail DEF AcceptSteer, Selecting, Inv, Types, Run
<1>2. CASE run' = [r EXCEPT !.phase = "exit", !.held = <<>>]
    <2>1. run'.phase = "exit"
        BY <1>1, <1>2, RunSteps DEF Run
    <2> QED BY <2>1 DEF ShowInv, On
<1> PICK l : l = StdinLine("steer", n, FALSE)
    OBVIOUS
<1>3. l \in Input /\ l.kind = "steer"
    BY <1>1 DEF StdinLine, Input
<1>4. CASE run' = r /\ Write(l) /\ UNCHANGED sending
    <2>1. run'.held = run.held
        BY <1>1, <1>4, RunSteps DEF Run
    <2>2. stdin \in Seq(Input) /\ stdin' = Append(stdin, l)
        BY <1>1, <1>4 DEF Inv, Types, Write
    <2>3. Len(stdin) + 1 \in 1 .. Len(stdin') /\ stdin'[Len(stdin) + 1] = l
        BY <1>3, <2>2, LastLine
    <2>4. Coming'
        BY <1>3, <2>3 DEF Coming
    <2>5. On' => On
        BY <1>1 DEF On
    <2> HIDE DEF n, r
    <2> QED BY <1>1, <1>4, <2>1, <2>4, <2>5, ShowKept DEF Stream
<1> QED BY <1>2, <1>4 DEF AcceptSteer

LEMMA SendEventShow == ASSUME Inv, ShowInv, SendEvent PROVE ShowInv'
<1>1. /\ UNCHANGED <<steering, stdin, stdout, cli, chat>> /\ (run'.phase = "loop" => run.phase = "loop")
      /\ run'.held = run.held
    BY DEF SendEvent, Inv, Types, Run
<1> QED BY <1>1, SentStream, ShowKept DEF On, Coming

LEMMA RespondShow == ASSUME Inv, ShowInv, NEW r \in Requests, Respond(r) PROVE ShowInv'
<1> PICK l : l = StdinLine("response", r, Allows(r))
    OBVIOUS
<1>1. l \in Input
    <2>1. Allows(r) \in BOOLEAN
        BY Zenon DEF Allows
    <2> QED BY <2>1 DEF StdinLine, Input
<1>2. UNCHANGED <<run, sending, out, steering, stdout, cli, chat>> /\ Write(l)
    BY DEF Respond
<1>3. On /\ Coming => Coming'
    BY <1>1, <1>2, ComingWrite DEF Inv, On
<1> QED BY <1>2, <1>3, ShowKept DEF Stream, On

LEMMA LoopOverShow ==
    ASSUME Inv, ReadEnd \/ ReadError \/ ConsumerGone \/ AllReported \/ Shutdown PROVE ShowInv'
<1>1. run'.phase # "loop"
    BY DEF ReadEnd, ReadError, LeaveLoop, ConsumerGone, AllReported, Shutdown, Inv, Types, Run
<1> QED BY <1>1 DEF ShowInv, On

\* What the select sends follows what is already on its way to the chat.
LEMMA StreamSent ==
    ASSUME Inv, sending = <<>>, out' = out, NEW e \in Seq(Ev), sending' = e,
           \A i \in 1 .. Len(e) : e[i].kind # "error",
           \A i \in 1 .. Len(Stream) : Stream[i].kind # "error", NEW working
    PROVE  /\ \A i \in 1 .. Len(Stream') : Stream'[i].kind # "error"
           /\ e = <<>> => Stream' = Stream
           /\ e # <<>> => (Busy(Stream', working) <=> e[Len(e)].kind \notin Dones)
<1> PICK s \in Seq(Ev) : s = Stream /\ Stream' = s \o e
    <2>1. out \in Seq(Ev) /\ Stream = out
        BY ConcatEmptySeq DEF Inv, Types, Stream
    <2>2. Stream' = out \o e
        BY DEF Stream
    <2> QED BY <2>1, <2>2
<1> QED BY BusyGrows

\* A line is read, and e is sent to the chat for it.
LEMMA LineRead ==
    ASSUME Inv, ShowInv, On, stdout # <<>>, stdout' = Tail(stdout), UNCHANGED <<out, chat, cli>>,
           sending = <<>>, NEW e \in Seq(Ev), sending' = e, \A i \in 1 .. Len(e) : e[i].kind # "error",
           Plain(Tail(stdout)) /\ cli.turn /\ "silence" \notin Faults => Busy(Stream', chat.working),
           Plain(Tail(stdout)) /\ ~cli.turn => run'.held # <<>> \/ ~Busy(Stream', chat.working) \/ Coming'
    PROVE  ShowInv'
<1>1. Shown /\ stdout \in Seq(Frame)
    BY DEF ShowInv, Inv, Types
<1>2. \A i \in 1 .. Len(Stream') : Stream'[i].kind # "error"
    BY <1>1, StreamSent DEF Shown
<1>3. TellsTurn(stdout', cli.turn)
    BY <1>1, SaysTail DEF Shown
<1> QED BY <1>2, <1>3 DEF ShowInv, Shown

\* Text shows that the turn goes on.
LEMMA ReadOutputShow == ASSUME Inv, ShowInv, ReadOutput PROVE ShowInv'
<1> SUFFICES ASSUME On' PROVE ShowInv'
    BY DEF ShowInv
<1>1. /\ UNCHANGED <<run, out, steering, stdin, cli, chat>> /\ run.phase = "loop" /\ sending = <<>>
      /\ stdout \in Seq(Frame) /\ stdout # <<>> /\ stdout' = Tail(stdout) /\ Head(stdout).kind = "work"
    BY DEF ReadOutput, Selecting, Inv, Types
<1>2. On /\ Shown
    BY <1>1 DEF On, ShowInv
<1> PICK ev \in Ev : ev = Head(stdout) /\ sending' = <<ev>> /\ ev.kind = "work"
    <2>1. /\ Head(stdout).steer \in Steer
          /\ Event(Head(stdout).kind, Head(stdout).steer) = Head(stdout)
        BY <1>1, FrameEvent DEF Inv
    <2>2. Head(stdout) \in Ev
        BY <1>1, <2>1, EventTyped DEF Kinds
    <2> QED BY <1>1, <2>2 DEF ReadOutput
<1>3. <<ev>> \in Seq(Ev) /\ <<ev>> # <<>> /\ Len(<<ev>>) = 1 /\ <<ev>>[1] = ev
    BY OneEvent
<1> PICK e \in Seq(Ev) : sending' = e /\ e # <<>> /\ Len(e) = 1 /\ e[1] = ev
    BY <1>3
<1>4. \A i \in 1 .. Len(e) : e[i].kind # "error"
    OBVIOUS
<1>5. Busy(Stream', chat.working)
    BY <1>1, <1>2, <1>4, StreamSent DEF Shown, Dones, Ends
<1>6. Plain(Tail(stdout)) => cli.turn
    BY <1>1, <1>2, SaysTail DEF Shown, Ends
<1> QED BY <1>1, <1>2, <1>4, <1>5, <1>6, LineRead

\* The end of a turn is sent, or held back.
LEMMA ReadResultShow == ASSUME Inv, ShowInv, ReadResult PROVE ShowInv'
<1> SUFFICES ASSUME On' PROVE ShowInv'
    BY DEF ShowInv
<1> DEFINE line == Head(stdout)
<1> PICK done : done = Event(IF run.interrupted THEN "interrupted" ELSE line.kind, line.steer)
    OBVIOUS
<1>1. /\ UNCHANGED <<out, steering, stdin, cli, chat>> /\ run.phase = "loop" /\ sending = <<>>
      /\ stdout \in Seq(Frame) /\ stdout # <<>> /\ stdout' = Tail(stdout) /\ line.kind \in Ends
      /\ run \in Run
    BY DEF ReadResult, Selecting, Inv, Types
<1>2. On /\ Shown
    BY <1>1 DEF On, ShowInv
<1>3. done \in Ev /\ done.kind \in Dones
    <2>1. line.steer \in Steer
        BY <1>1, FrameEvent DEF Inv
    <2> QED BY <1>1, <2>1, EventTyped DEF Kinds, Dones, Ends, Event
<1>4. Plain(Tail(stdout)) => ~cli.turn
    BY <1>1, <1>2, SaysTail DEF Shown, Ends
<1>5. CASE HoldsBack
    <2>1. sending' = <<>> /\ run' = [run EXCEPT !.held = <<done>>]
        BY <1>1, <1>5 DEF ReadResult, Hold
    <2>2. run'.held = <<done>> /\ <<done>> # <<>>
        BY <1>1, <2>1 DEF Run
    <2> PICK e \in Seq(Ev) : sending' = e /\ Len(e) = 0
        BY <2>1, NoneYet
    <2>3. (\A i \in 1 .. Len(e) : e[i].kind # "error") /\ run'.held # <<>>
        BY <2>2
    <2> HIDE DEF line
    <2> QED BY <1>1, <1>2, <1>4, <2>3, LineRead
<1>6. CASE ~HoldsBack
    <2>1. sending' = <<done>>
        BY <1>6 DEF ReadResult
    <2>2. <<done>> \in Seq(Ev) /\ <<done>> # <<>> /\ Len(<<done>>) = 1 /\ <<done>>[1] = done
        BY <1>3, OneEvent
    <2> HIDE DEF line
    <2> PICK e \in Seq(Ev) : e = <<done>> /\ e # <<>> /\ Len(e) = 1 /\ e[1] = done /\ sending' = e
        BY <2>1, <2>2
    <2>3. \A i \in 1 .. Len(e) : e[i].kind # "error"
        BY <1>3 DEF Dones, Ends
    <2>4. ~Busy(Stream', chat.working)
        BY <1>1, <1>2, <1>3, <2>3, StreamSent DEF Shown
    <2> QED BY <1>1, <1>2, <1>4, <2>3, <2>4, LineRead
<1> QED BY <1>5, <1>6

LEMMA ReadRequestShow == ASSUME Inv, ShowInv, ReadRequest PROVE ShowInv'
<1> SUFFICES ASSUME On' PROVE ShowInv'
    BY DEF ShowInv
<1> PICK r, l : r = Head(stdout).steer /\ l = StdinLine("response", r, TRUE)
    OBVIOUS
<1>1. /\ UNCHANGED <<run, sending, out, steering, cli, chat>> /\ run.phase = "loop" /\ sending = <<>>
      /\ stdout # <<>> /\ stdout' = Tail(stdout) /\ Head(stdout).kind = "ask" /\ r \in Requests
      /\ (stdin' = stdin \/ Write(l)) /\ stdout \in Seq(Frame)
    BY FrameEvent DEF ReadRequest, Selecting, Inv, Types
<1>2. On /\ Shown
    BY <1>1 DEF On, ShowInv
<1>3. Plain(Tail(stdout)) => Plain(stdout)
    BY <1>1, PlainTail
<1>4. Coming => Coming'
    <2>1. l \in Input
        BY <1>1 DEF StdinLine, Input
    <2>2. stdin' = stdin /\ Coming => Coming'
        BY <1>1 DEF Coming
    <2> QED BY <1>1, <2>1, <2>2, ComingWrite DEF Inv
<1> PICK e \in Seq(Ev) : sending' = e /\ Len(e) = 0
    BY <1>1, NoneYet
<1>5. \A i \in 1 .. Len(e) : e[i].kind # "error"
    OBVIOUS
<1>6. Stream' = Stream /\ run'.held = run.held /\ chat' = chat
    BY <1>1 DEF Stream
<1> QED BY <1>1, <1>2, <1>3, <1>4, <1>5, <1>6, LineRead DEF Shown

\* A replay shows that a turn goes on, and reports a steer unless the timeout
\* already did.
LEMMA ReadReplayShow == ASSUME Inv, TextInv, UnreadInv, ShowInv, ReadReplay PROVE ShowInv'
<1> SUFFICES ASSUME On' PROVE ShowInv'
    BY DEF ShowInv
<1>1. PICK n \in Nat : n = Head(stdout).steer
    <2>1. Head(stdout).steer \in Steer
        BY FrameEvent DEF ReadReplay, Inv, Frame
    <2> QED BY <2>1, BoundsAssumption DEF Steer
<1>2. PICK p \in Seq(Steer) : p = run.pending
    BY DEF Inv, Types, Run
<1>3. PICK k \in 0 .. Len(p) : k = Position(p, n)
    BY PositionOf
<1>4. /\ UNCHANGED <<out, steering, stdin, cli, chat>> /\ run.phase = "loop" /\ sending = <<>>
      /\ stdout \in Seq(Frame) /\ stdout # <<>> /\ stdout' = Tail(stdout) /\ Head(stdout).kind = "replay"
      /\ sending' = Steered(SubSeq(p, 1, k))
    BY <1>1, <1>2, <1>3 DEF ReadReplay, Confirmed, Selecting, Inv, Types, Run
<1>5. On /\ Shown
    BY <1>4 DEF On, ShowInv
<1>6. PICK q \in Seq(Steer) : q = SubSeq(p, 1, k) /\ Len(q) = k
    <2>1. SubSeq(p, 1, k) \in Seq(Steer)
        BY Split
    <2>2. Len(SubSeq(p, 1, k)) = k
        BY LenProperties
    <2> QED BY <2>1, <2>2
<1>7. PICK e \in Seq(Ev) : sending' = e /\ Len(e) = k /\ \A i \in 1 .. Len(e) : e[i].kind = "steered"
    <2>1. /\ Steered(q) \in Seq(Ev) /\ Len(Steered(q)) = Len(q)
          /\ \A i \in 1 .. Len(q) : Steered(q)[i].kind = "steered" /\ Steered(q)[i].steer = q[i]
        BY SteeredEvents, Zenon
    <2>2. sending' = Steered(q) /\ Len(q) = k
        BY <1>4, <1>6
    <2>3. PICK e \in Seq(Ev) : e = Steered(q)
        BY <2>1
    <2>4. Len(e) = k /\ \A i \in 1 .. Len(e) : e[i].kind = "steered"
        BY <2>1, <2>2, <2>3
    <2> QED BY <2>2, <2>3, <2>4
<1>8. \A i \in 1 .. Len(e) : e[i].kind # "error"
    BY <1>7
<1>9. Plain(Tail(stdout)) => cli.turn
    <2>1. TellsTurn(stdout, cli.turn) /\ Head(stdout).kind # "ask" /\ Head(stdout).kind \notin Ends
        BY <1>4, <1>5 DEF Shown, Ends
    <2> QED BY <1>4, <2>1, SaysTail
<1>10. ASSUME "silence" \notin Faults PROVE Busy(Stream', chat.working)
    <2>1. PICK c \in Nat : c = Count(Stream, chat.steered)
        BY StreamTyped, CountTyped DEF Inv
    <2>2. c < n /\ n = c + k
        BY <1>1, <1>2, <1>3, <1>4, <1>5, <1>10, <2>1, ReplayPending
    <2>3. Len(e) \in Nat \ {0} /\ Len(e) \in 1 .. Len(e)
        BY <1>7, <2>2
    <2>4. e # <<>> /\ e[Len(e)].kind \notin Dones
        BY <1>7, <2>3 DEF Dones, Ends
    <2> QED BY <1>4, <1>5, <1>7, <1>8, <2>4, StreamSent DEF Shown
<1> QED BY <1>4, <1>5, <1>7, <1>8, <1>9, <1>10, LineRead

\* The settle timeout reports the steers and then that the turn is over.
LEMMA HoldExpiresShow == ASSUME Inv, ShowInv, HoldExpires PROVE ShowInv'
<1> SUFFICES ASSUME On' PROVE ShowInv'
    BY DEF ShowInv
<1>1. PICK p \in Seq(Steer), h \in Seq(Ev) : p = run.pending /\ h = run.held
    BY DEF Inv, Types, Run
<1>2. /\ UNCHANGED <<out, steering, stdin, stdout, cli, chat>> /\ run.phase = "loop" /\ sending = <<>>
      /\ cli.turn => "silence" \in Faults
      /\ h # <<>> /\ sending' = Steered(p) \o h /\ \A i \in 1 .. Len(h) : h[i].kind \in Ends
    BY <1>1 DEF HoldExpires, Selecting, Holds, Expired, On, Inv, Order, Locals
<1>3. On /\ Shown
    BY <1>2 DEF On, ShowInv
<1>4. PICK s \in Seq(Ev) : s = Steered(p) /\ \A i \in 1 .. Len(s) : s[i].kind = "steered"
    BY SteeredEvents
<1>5. PICK e : e = s \o h
    OBVIOUS
<1>6. IsJoin(e, s, h)
    BY <1>5, Joined
<1>7. e \in Seq(Ev) /\ sending' = e /\ e # <<>> /\ \A i \in 1 .. Len(e) : e[i].kind # "error"
    <2>1. e \in Seq(Ev) /\ sending' = e /\ e # <<>>
        BY <1>2, <1>4, <1>5, <1>6 DEF IsJoin
    <2>2. ASSUME NEW i \in 1 .. Len(e) PROVE e[i].kind # "error"
        <3>1. e[i].kind = "steered" \/ e[i].kind \in Ends
            BY <1>2, <1>4, <1>6, <2>2 DEF IsJoin
        <3> QED BY <3>1 DEF Ends
    <2> QED BY <2>1, <2>2
<1>8. e[Len(e)].kind \in Dones
    <2>1. Len(h) \in 1 .. Len(h) /\ e[Len(e)] = h[Len(h)]
        BY <1>2, <1>6, EmptySeq, LenProperties DEF IsJoin
    <2> QED BY <1>2, <2>1 DEF Dones
<1>9. ~Busy(Stream', chat.working) /\ \A i \in 1 .. Len(Stream') : Stream'[i].kind # "error"
    BY <1>2, <1>3, <1>7, <1>8, StreamSent DEF Shown
<1>10. UNCHANGED <<stdout, cli, chat>>
    BY <1>2
<1> QED BY <1>2, <1>3, <1>9, <1>10 DEF ShowInv, Shown

\* The agent writes a line: a turn goes on, ends, or asks the user.
LEMMA LineWritesShow ==
    ASSUME Inv, ShowInv, UNCHANGED <<run, sending, out, chat>>, cli.alive, cli' \in Cli,
           NEW f \in Frame, Writes(f),
           \/ f.kind = "ask" /\ cli.turn /\ cli'.turn
           \/ f.kind # "ask" /\ (f.kind \in Ends <=> ~cli'.turn)
    PROVE  ShowInv'
<1> SUFFICES ASSUME On' PROVE Shown'
    BY DEF ShowInv
<1>1. On /\ Shown /\ stdout \in Seq(Frame) /\ stdout' = Append(stdout, f) /\ cli \in Cli /\ Stream' = Stream
    BY DEF On, ShowInv, Inv, Types, Writes, Stream
<1> PICK turn \in BOOLEAN, later \in BOOLEAN : turn = cli.turn /\ later = cli'.turn
    BY <1>1 DEF Cli
<1>2. \/ f.kind = "ask" /\ later = turn
      \/ f.kind # "ask" /\ (f.kind \in Ends <=> ~later)
    OBVIOUS
<1>3. TellsTurn(stdout, turn)
    BY <1>1 DEF Shown
<1>4. TellsTurn(stdout', later) /\ (Plain(stdout') => Plain(stdout) /\ f.kind = "ask")
    BY <1>1, <1>2, <1>3, SaysAppend
<1>5. Plain(stdout') => cli.turn /\ cli'.turn
    BY <1>4
<1> QED BY <1>1, <1>4, <1>5 DEF Shown

\* It reads a line, or takes steers without a word in a turn.
LEMMA CliReadLineShow == ASSUME Inv, ShowInv, CliReadLine PROVE ShowInv'
<1>1. /\ UNCHANGED <<run, sending, out, steering, chat>> /\ cli.alive /\ stdin # <<>> /\ stdin' = Tail(stdin)
      /\ cli \in Cli /\ cli.queue \in Seq(Steer) /\ stdin \in Seq(Input) /\ cli.replayed \in Steer
    BY DEF CliReadLine, CliOnly, Inv, Types, Cli
<1>2. CASE Head(stdin).kind = "steer" /\ cli' = [cli EXCEPT !.queue = Append(@, Head(stdin).what)] /\ UNCHANGED stdout
    <2>1. cli'.turn = cli.turn /\ cli'.alive = cli.alive /\ cli'.queue = Append(cli.queue, Head(stdin).what)
        BY <1>1, <1>2 DEF Cli
    <2>2. Head(stdin).what \in Steer
        <3>1. Head(stdin) \in Input
            BY <1>1, HeadTail
        <3> QED BY <1>2, <3>1 DEF Input
    <2>3. cli'.queue # <<>>
        BY <1>1, <2>1, <2>2, AppendProperties
    <2>4. Coming'
        BY <2>3 DEF Coming
    <2> QED BY <1>1, <1>2, <2>1, <2>4, ShowKept DEF Stream, On
<1>3. CASE /\ Head(stdin).kind # "steer" /\ UNCHANGED stdout
           /\ cli'.turn = cli.turn /\ cli'.alive = cli.alive /\ cli'.queue = cli.queue
    <2>1. ASSUME NEW i \in 1 .. Len(stdin), stdin[i].kind = "steer"
          PROVE  \E j \in 1 .. Len(stdin') : stdin'[j].kind = "steer"
        <3>1. /\ Len(stdin) \in Nat \ {0} /\ Len(stdin') = Len(stdin) - 1 /\ Head(stdin) = stdin[1]
              /\ \A j \in 1 .. Len(stdin) - 1 : stdin'[j] = stdin[j + 1]
            BY <1>1, HeadTail
        <3>2. i # 1
            BY <1>3, <2>1, <3>1
        <3>3. i - 1 \in 1 .. Len(stdin') /\ (i - 1) + 1 = i
            BY <3>1, <3>2
        <3>4. stdin'[i - 1] = stdin[i]
            BY <3>1, <3>3
        <3> QED BY <2>1, <3>3, <3>4
    <2>2. Coming => Coming'
        BY <1>1, <1>3, <2>1 DEF Coming
    <2> QED BY <1>1, <1>3, <2>2, ShowKept DEF Stream, On
<1>4. CASE /\ cli' = [cli EXCEPT !.turn = FALSE, !.waits = NoRequest]
           /\ \E status \in Ends : Writes(Event(status, cli.replayed))
    <2>1. PICK status \in Ends : Writes(Event(status, cli.replayed))
        BY <1>4
    <2>2. Event(status, cli.replayed) \in Frame /\ Event(status, cli.replayed).kind = status /\ status # "ask"
        BY <1>1 DEF Event, Frame, Ends
    <2>3. cli' \in Cli /\ cli'.turn = FALSE
        BY <1>1, <1>4 DEF Cli
    <2> QED BY <1>1, <2>1, <2>2, <2>3, LineWritesShow
<1>5. CASE /\ Head(stdin).kind = "response" /\ UNCHANGED stdout
           /\ cli' = [cli EXCEPT !.waits = IF @ = Head(stdin).what THEN NoRequest ELSE @]
    <2>1. cli'.turn = cli.turn /\ cli'.alive = cli.alive /\ cli'.queue = cli.queue
        BY <1>1, <1>5 DEF Cli
    <2> QED BY <1>3, <1>5, <2>1
<1>6. CASE Head(stdin).kind = "close" /\ UNCHANGED stdout /\ cli' = [cli EXCEPT !.reading = FALSE]
    <2>1. cli'.turn = cli.turn /\ cli'.alive = cli.alive /\ cli'.queue = cli.queue
        BY <1>1, <1>6 DEF Cli
    <2> QED BY <1>3, <1>6, <2>1
<1>7. CASE Head(stdin).kind = "interrupt" /\ UNCHANGED <<cli, stdout>>
    BY <1>3, <1>7
<1> QED BY <1>2, <1>4, <1>5, <1>6, <1>7 DEF CliReadLine

LEMMA CliShow == ASSUME Inv, ShowInv, CliNext \/ Escalate PROVE ShowInv'
<1>1. CASE CliExit \/ Escalate
    <2>1. cli'.alive = FALSE
        BY <1>1 DEF CliExit, Escalate, Dead, Inv, Types, Cli
    <2> QED BY <2>1 DEF ShowInv, On
<1>2. cli \in Cli /\ cli.replayed \in Steer /\ cli.queue \in Seq(Steer)
    BY DEF Inv, Types, Cli
<1>3. CASE CliOutput
    <2>1. Event("work", cli.replayed) \in Frame /\ Event("work", cli.replayed).kind = "work"
        BY <1>2 DEF Event, Frame
    <2>2. /\ UNCHANGED <<run, sending, out, chat>> /\ cli.alive /\ cli' \in Cli /\ cli'.turn = TRUE
          /\ Writes(Event("work", cli.replayed))
        BY <1>2, <1>3 DEF CliOutput, CliOnly, CanWrite, Cli
    <2> QED BY <2>1, <2>2, LineWritesShow DEF Ends
<1>4. ASSUME NEW status \in Ends, CliEndTurn(status) PROVE ShowInv'
    <2>1. Event(status, cli.replayed) \in Frame /\ Event(status, cli.replayed).kind = status /\ status # "ask"
        BY <1>2 DEF Event, Frame, Ends
    <2>2. /\ UNCHANGED <<run, sending, out, chat>> /\ cli.alive /\ cli' \in Cli /\ cli'.turn = FALSE
          /\ Writes(Event(status, cli.replayed))
        BY <1>2, <1>4 DEF CliEndTurn, CliOnly, CanWrite, Cli
    <2> QED BY <2>1, <2>2, LineWritesShow
<1>5. ASSUME NEW r \in Requests, CliAsk(r) PROVE ShowInv'
    <2>1. Event("ask", r) \in Frame /\ Event("ask", r).kind = "ask"
        BY DEF Event, Frame
    <2>2. /\ UNCHANGED <<run, sending, out, chat>> /\ cli.alive /\ cli' \in Cli
          /\ cli.turn /\ cli'.turn = cli.turn /\ Writes(Event("ask", r))
        BY <1>2, <1>5 DEF CliAsk, CliOnly, CanWrite, Running, Cli
    <2> QED BY <2>1, <2>2, LineWritesShow
<1>6. ASSUME NEW k \in DOMAIN cli.queue, CliTakeSteers(k) PROVE ShowInv'
    <2> PICK q \in Seq(Steer) : q = cli.queue
        BY <1>2
    <2>1. k \in 1 .. Len(q) /\ q[k] \in Steer /\ SubSeq(q, k + 1, Len(q)) \in Seq(Steer)
        BY <1>6, Split, ElementOfSeq
    <2>2. Event("replay", q[k]) \in Frame /\ Event("replay", q[k]).kind = "replay"
        BY <2>1 DEF Event, Frame
    <2>3. /\ UNCHANGED <<run, sending, out, chat>> /\ cli.alive /\ Writes(Event("replay", q[k]))
          /\ cli' = [cli EXCEPT !.turn = TRUE, !.replayed = q[k], !.queue = SubSeq(q, k + 1, Len(q))]
        BY <1>6 DEF CliTakeSteers, CliOnly, CanWrite
    <2>4. cli' \in Cli /\ cli'.turn = TRUE
        BY <1>2, <2>1, <2>3 DEF Cli
    <2> QED BY <2>2, <2>3, <2>4, LineWritesShow DEF Ends
<1>7. CASE CliAbsorb
    <2>1. /\ UNCHANGED <<run, sending, out, steering, chat, stdout>>
          /\ cli.turn /\ cli'.turn = cli.turn /\ cli'.alive = cli.alive
        BY <1>2, <1>7 DEF CliAbsorb, CliOnly, Running, Cli
    <2> QED BY <2>1, ShowKept DEF Stream, On
<1> QED BY <1>1, <1>3, <1>4, <1>5, <1>6, <1>7, CliReadLineShow DEF CliNext

\* The chat takes the head of the stream, and works as that says.
LEMMA ChatReceiveShow == ASSUME Inv, ShowInv, ChatReceive PROVE ShowInv'
<1> SUFFICES ASSUME On' PROVE Shown'
    BY DEF ShowInv
<1>1. /\ UNCHANGED <<run, steering, stdin, stdout, cli>> /\ chat \in Chat /\ chat'.gone = chat.gone
      /\ chat'.working = IF Head(out).kind = "error" THEN chat.working ELSE Head(out).kind \notin Dones
    BY DEF ChatReceive, Inv, Types, Chat
<1>2. On /\ Shown
    BY <1>1 DEF On, ShowInv
<1> PICK s \in Seq(Ev) : s = Stream
    BY StreamTyped DEF Inv
<1>3. s # <<>> /\ Head(s) = Head(out) /\ Stream' = Tail(s)
    BY ReceivedCount
<1>4. /\ 1 \in 1 .. Len(s) /\ Head(s) = s[1]
      /\ \A i \in 1 .. Len(Tail(s)) : i + 1 \in 1 .. Len(s) /\ Tail(s)[i] = s[i + 1]
    BY <1>3, HeadTail, TailAt
<1>5. Head(s).kind # "error" /\ \A i \in 1 .. Len(Stream') : Stream'[i].kind # "error"
    BY <1>2, <1>3, <1>4 DEF Shown
<1> PICK working \in BOOLEAN, later \in BOOLEAN :
        working = chat.working /\ later = chat'.working /\ (later <=> Head(s).kind \notin Dones)
    <2>1. chat.working \in BOOLEAN /\ chat'.working = (Head(s).kind \notin Dones)
        BY <1>1, <1>3, <1>5 DEF Chat
    <2> QED BY <2>1
<1>6. Busy(Stream', later) <=> Busy(s, working)
    BY <1>3, BusyTail
<1>7. Busy(Stream', chat'.working) <=> Busy(Stream, chat.working)
    BY <1>6
<1>8. Coming => Coming'
    BY <1>1 DEF Coming
<1> QED BY <1>1, <1>2, <1>5, <1>7, <1>8 DEF Shown

\* A steer sends the chat to work until the steer has arrived.
LEMMA ChatSteerShow == ASSUME Inv, ShowInv, ChatSteer PROVE ShowInv'
<1> SUFFICES ASSUME On' PROVE Shown'
    BY DEF ShowInv
<1>1. /\ UNCHANGED <<run, sending, out, stdin, stdout, cli>> /\ chat'.gone = chat.gone /\ chat'.working = TRUE
      /\ steering \in Seq(Steer) /\ steering' = Append(steering, chat.pushed + 1)
    BY DEF ChatSteer, Inv, Types, Chat
<1>2. On /\ Shown /\ Stream' = Stream
    BY <1>1 DEF On, ShowInv, Stream
<1>3. Coming'
    <2>1. steering' # <<>>
        BY <1>1, AppendProperties
    <2> QED BY <2>1 DEF Coming
<1>4. Busy(Stream, chat.working) => Busy(Stream, TRUE)
    BY Zenon DEF Busy
<1> QED BY <1>1, <1>2, <1>3, <1>4 DEF Shown

LEMMA ChatShow == ASSUME Inv, ShowInv, ChatNext PROVE ShowInv'
<1>1. CASE ChatRunEnded \/ \E states \in {{"asked"}, {"asked", "open"}} : ChatLeave(states)
    <2>1. chat'.gone = TRUE
        BY <1>1 DEF ChatRunEnded, ChatLeave, Inv, Types, Chat
    <2> QED BY <2>1 DEF ShowInv, On
<1>2. CASE \/ ChatStop \/ (\E r \in Requests : ChatReceiveQuestion(r))
           \/ \E r \in Requests, allow \in BOOLEAN : ChatAnswer(r, allow)
    <2>1. /\ UNCHANGED <<run, sending, out, steering, stdin, stdout, cli>>
          /\ chat'.gone = chat.gone /\ chat'.working = chat.working
        BY <1>2 DEF ChatStop, ChatReceiveQuestion, ChatAnswer, Inv, Types, Chat
    <2>2. Coming => Coming'
        BY <2>1 DEF Coming
    <2> QED BY <2>1, <2>2, ShowKept DEF Stream, On
<1> QED BY <1>1, <1>2, ChatSteerShow, ChatReceiveShow DEF ChatNext

LEMMA NextShow == Inv /\ TextInv /\ UnreadInv /\ ShowInv /\ [Next]_vars => ShowInv'
<1> SUFFICES ASSUME Inv, TextInv, UnreadInv, ShowInv, [Next]_vars PROVE ShowInv'
    OBVIOUS
<1>1. CASE HarnessNext
    BY <1>1, ReadOutputShow, ReadReplayShow, ReadResultShow, ReadRequestShow, HoldExpiresShow,
       AcceptSteerShow, SelectsShow, SendEventShow, LoopOverShow DEF HarnessNext
<1>2. CASE \E r \in Requests : Respond(r)
    BY <1>2, RespondShow
<1>3. CASE CliNext \/ Escalate
    BY <1>3, CliShow
<1>4. CASE ChatNext
    BY <1>4, ChatShow
<1>5. CASE UNCHANGED vars
    BY <1>5, ShowKept DEF vars, On, Stream, Coming
<1> QED BY <1>1, <1>2, <1>3, <1>4, <1>5 DEF Next

\* With everything read, the last word on the turn is what the chat took last.
LEMMA DrainedAgrees ==
    ASSUME Inv, ShowInv, Drained
    PROVE  /\ chat.working => cli.turn
           /\ "silence" \notin Faults => Agreement
<1>1. /\ sending = <<>> /\ out = <<>> /\ steering = <<>> /\ cli.queue = <<>>
      /\ stdout = <<>> /\ stdin = <<>> /\ run.held = <<>> /\ On
    <2>1. /\ sending \in Seq(Ev) /\ out \in Seq(Ev) /\ steering \in Seq(Steer) /\ cli.queue \in Seq(Steer)
          /\ sending \o out \o steering \o cli.queue = <<>>
        BY DEF Inv, Types, Cli, Drained
    <2> QED BY <2>1, ConcatEqualIffEmpty DEF Drained, On
<1>2. Stream = <<>> /\ ~Coming /\ Shown
    <2>1. Stream = <<>>
        BY <1>1, ConcatEmptySeq, NoneYet DEF Stream
    <2>2. Len(stdin) = 0
        BY <1>1
    <2> QED BY <1>1, <2>1, <2>2 DEF Coming, ShowInv
<1>3. Plain(stdout)
    <2>1. Len(stdout) = 0
        BY <1>1
    <2> QED BY <2>1 DEF Plain
<1>4. Busy(Stream, chat.working) <=> chat.working
    BY <1>2, Zenon DEF Busy
<1> QED BY <1>1, <1>2, <1>3, <1>4 DEF Shown, Agreement

LEMMA Followed == Spec => [](Inv /\ TextInv /\ UnreadInv /\ ShowInv)
<1>1. Init => Inv /\ TextInv /\ UnreadInv /\ ShowInv
    BY InitInv, InitText, InitUnread, InitShow
<1>2. Inv /\ TextInv /\ UnreadInv /\ ShowInv /\ [Next]_vars => (Inv /\ TextInv /\ UnreadInv /\ ShowInv)'
    BY NextInv, NextText, NextUnread, NextShow
<1> QED BY <1>1, <1>2, PTL DEF Spec

\* No turn end is lost, neither with the steers it is held back for nor to the
\* timeout that takes their confirmation for granted.
EndShows == Drained => (chat.working => cli.turn)

\* Once nothing is under way, a chat that works has an agent in a turn: the Done
\* that run_session holds back while steers are unconfirmed always comes, at the
\* latest with HELD_DONE_SETTLE, whatever the CLI absorbs and however long it is
\* silent.
THEOREM EndNeverSwallowed == Spec => []EndShows
<1>1. Inv /\ ShowInv => EndShows
    BY DrainedAgrees DEF EndShows
<1> QED BY <1>1, Followed, PTL

\* When no turn is silent for as long as HELD_DONE_SETTLE, the chat works iff the
\* agent does: a Done is not released into the turn of a steer either, since the
\* replay that confirms the steer is reported after it.
THEOREM ChatAgrees == "silence" \notin Faults => (Spec => []Agreement)
<1> SUFFICES ASSUME "silence" \notin Faults PROVE Spec => []Agreement
    OBVIOUS
<1>1. Inv /\ ShowInv => Agreement
    BY DrainedAgrees DEF Agreement
<1> QED BY <1>1, Followed, PTL
=============================================================================
