------------------------- MODULE SessionQueue_proofs -------------------------
(***************************************************************************)
(* What happens to the messages of a session: proofs of EditedStaysQueued, *)
(* ReadAtMostOnce, ReadInOrder, IdleMeansIdle and NothingLost of module    *)
(* AgentSession for all values of the constants.                           *)
(*                                                                         *)
(* EditedStaysQueued is not inductive: a message that is queued anew must  *)
(* get an id that no queued message has.  Numbered adds that no id in the  *)
(* queue is above nextId, from which ids are allocated.  It is a predicate *)
(* of a queue, a counter and an edited id, so that it can be shown of each *)
(* operation on sequences alone before it is shown of the methods.         *)
(*                                                                         *)
(* ReadAtMostOnce is about what agents have read, so the invariant behind  *)
(* it, OnceInv, counts the copies of a message wherever one can be: not    *)
(* typed, queued, waiting for a stop, in the prompt or the steering        *)
(* channel of the run, kept for a fork's fallback, or read.  A method that *)
(* takes a message keeps the sum of what it takes and of what there is.    *)
(*                                                                         *)
(* ReadInOrder needs OrderInv: what was read, the prompt, the steering     *)
(* channel and what waits for a stop, in this order, stand in the order of *)
(* the transcript, and no queued message has entered it yet.               *)
(*                                                                         *)
(* IdleMeansIdle and NothingLost hold as long as no run is replaced while  *)
(* its events are still applied (Undisturbed).  CalmInv says that a turn   *)
(* which goes on is shown by `working` or by an event on its way, and of   *)
(* each phase of a run what the session knows of it then.                  *)
(***************************************************************************)
EXTENDS AgentSession_proofs, FiniteSetTheorems, FunctionTheorems

Numbered(q, n, e) ==
    /\ \A i \in DOMAIN q : q[i].id <= n
    /\ \A i, j \in DOMAIN q : q[i].id = q[j].id => i = j
    /\ e # NoId => \E i \in DOMAIN q : q[i].id = e

\* Numbered of a session.
QueueNumbered(s) == Numbered(s.queue, s.nextId, s.editing)

\* The inductive invariant behind EditedStaysQueued.
QueueInv == SessionInv /\ QueueNumbered(session)

-----------------------------------------------------------------------------
(* Sequences of queued messages.                                            *)

\* Where the elements of a queue are after one was removed.
LEMMA RemoveAtElements ==
    ASSUME NEW q \in Seq(QueuedType), NEW i \in DOMAIN q
    PROVE  /\ RemoveAt(q, i) \in Seq(QueuedType)
           /\ Len(RemoveAt(q, i)) = Len(q) - 1
           /\ \A k \in 1 .. Len(q) - 1 : RemoveAt(q, i)[k] = IF k < i THEN q[k] ELSE q[k + 1]
<1> DEFINE a == SubSeq(q, 1, i - 1)
           b == SubSeq(q, i + 1, Len(q))
<1>1. Len(q) \in Nat /\ DOMAIN q = 1 .. Len(q) /\ \A j \in 1 .. Len(q) : q[j] \in QueuedType
    BY LenProperties, ElementOfSeq
<1>2. i \in Nat /\ 1 <= i /\ i <= Len(q)
    BY <1>1
<1>3. a \in Seq(QueuedType) /\ Len(a) = i - 1 /\ \A k \in 1 .. i - 1 : a[k] = q[k]
    BY <1>1, <1>2, SubSeqProperties
<1>4. b \in Seq(QueuedType) /\ Len(b) = Len(q) - i
      /\ \A k \in 1 .. Len(q) - i : b[k] = q[i + k]
    BY <1>1, <1>2, SubSeqProperties
<1>5. RemoveAt(q, i) = a \o b
    BY DEF RemoveAt
<1> HIDE DEF a, b
<1>6. /\ a \o b \in Seq(QueuedType) /\ Len(a \o b) = Len(a) + Len(b)
      /\ \A k \in 1 .. Len(a) + Len(b) :
            (a \o b)[k] = IF k <= Len(a) THEN a[k] ELSE b[k - Len(a)]
    BY <1>3, <1>4, ConcatProperties
<1>7. ASSUME NEW k \in 1 .. Len(q) - 1
      PROVE  (a \o b)[k] = IF k < i THEN q[k] ELSE q[k + 1]
    <2>1. (a \o b)[k] = IF k <= i - 1 THEN a[k] ELSE b[k - (i - 1)]
        BY <1>1, <1>2, <1>3, <1>4, <1>6, SMTT(30)
    <2>2. CASE k < i
        BY <1>2, <1>3, <2>1, <2>2
    <2>3. CASE ~(k < i)
        <3>1. k - (i - 1) \in 1 .. Len(q) - i /\ i + (k - (i - 1)) = k + 1
            BY <1>1, <1>2, <2>3
        <3>2. b[k - (i - 1)] = q[k + 1]
            BY <1>4, <3>1
        <3> QED BY <1>2, <2>1, <2>3, <3>2
    <2> QED BY <2>2, <2>3
<1> QED BY <1>1, <1>2, <1>3, <1>4, <1>5, <1>6, <1>7

\* Where the elements of a queue are after one was inserted.
LEMMA InsertAtElements ==
    ASSUME NEW q \in Seq(QueuedType), NEW i \in 1 .. Len(q) + 1, NEW x \in QueuedType
    PROVE  /\ InsertAt(q, i, x) \in Seq(QueuedType)
           /\ Len(InsertAt(q, i, x)) = Len(q) + 1
           /\ \A k \in 1 .. Len(q) + 1 :
                 InsertAt(q, i, x)[k] = IF k < i THEN q[k] ELSE IF k = i THEN x ELSE q[k - 1]
<1> DEFINE a == SubSeq(q, 1, i - 1)
           b == SubSeq(q, i, Len(q))
           y == <<x>>
           c == a \o y
           r == c \o b
<1>1. Len(q) \in Nat /\ \A j \in 1 .. Len(q) : q[j] \in QueuedType
    BY LenProperties, ElementOfSeq
<1>2. i \in Nat /\ 1 <= i /\ i <= Len(q) + 1
    BY <1>1
<1>3. a \in Seq(QueuedType) /\ Len(a) = i - 1 /\ \A k \in 1 .. i - 1 : a[k] = q[k]
    BY <1>1, <1>2, SubSeqProperties
<1>4. b \in Seq(QueuedType) /\ Len(b) = Len(q) - i + 1
      /\ \A k \in 1 .. Len(q) - i + 1 : b[k] = q[i + k - 1]
    BY <1>1, <1>2, SubSeqProperties
<1>5. y \in Seq(QueuedType) /\ Len(y) = 1 /\ y[1] = x
    OBVIOUS
<1>6. InsertAt(q, i, x) = r
    BY DEF InsertAt
<1> HIDE DEF a, b, y
<1>7. /\ c \in Seq(QueuedType) /\ Len(c) = i
      /\ \A k \in 1 .. i : c[k] = IF k <= i - 1 THEN a[k] ELSE y[k - (i - 1)]
    <2>1. /\ c \in Seq(QueuedType) /\ Len(c) = Len(a) + Len(y)
          /\ \A k \in 1 .. Len(a) + Len(y) : c[k] = IF k <= Len(a) THEN a[k] ELSE y[k - Len(a)]
        BY <1>3, <1>5, ConcatProperties
    <2>2. Len(a) + Len(y) = i
        BY <1>2, <1>3, <1>5
    <2> HIDE DEF c
    <2> QED BY <1>3, <2>1, <2>2
<1> HIDE DEF c
<1>8. /\ r \in Seq(QueuedType) /\ Len(r) = Len(q) + 1
      /\ \A k \in 1 .. Len(q) + 1 : r[k] = IF k <= i THEN c[k] ELSE b[k - i]
    <2>1. /\ r \in Seq(QueuedType) /\ Len(r) = Len(c) + Len(b)
          /\ \A k \in 1 .. Len(c) + Len(b) : r[k] = IF k <= Len(c) THEN c[k] ELSE b[k - Len(c)]
        BY <1>4, <1>7, ConcatProperties
    <2>2. Len(c) + Len(b) = Len(q) + 1
        BY <1>1, <1>2, <1>4, <1>7
    <2> HIDE DEF r
    <2> QED BY <1>7, <2>1, <2>2
<1> HIDE DEF r
<1>9. ASSUME NEW k \in 1 .. Len(q) + 1
      PROVE  r[k] = IF k < i THEN q[k] ELSE IF k = i THEN x ELSE q[k - 1]
    <2>1. CASE k < i
        BY <1>2, <1>3, <1>7, <1>8, <2>1
    <2>2. CASE k = i
        <3>1. i - (i - 1) = 1 /\ ~(i <= i - 1) /\ i \in 1 .. i
            BY <1>2
        <3>2. c[i] = y[1]
            BY <1>7, <3>1
        <3> QED BY <1>2, <1>5, <1>8, <2>2, <3>2
    <2>3. CASE k > i
        <3>1. k - i \in 1 .. Len(q) - i + 1 /\ i + (k - i) - 1 = k - 1
            BY <1>1, <1>2, <2>3
        <3>2. b[k - i] = q[k - 1]
            BY <1>4, <3>1
        <3> QED BY <1>2, <1>8, <2>3, <3>2
    <2> QED BY <1>2, <2>1, <2>2, <2>3
<1> QED BY <1>6, <1>8, <1>9

-----------------------------------------------------------------------------
(* Numbered, one lemma per operation on the queue.                          *)

\* No message is being edited, and ids may only grow.
LEMMA NumberedWeaker ==
    ASSUME NEW q, NEW n, NEW e, Numbered(q, n, e)
    PROVE  Numbered(q, n, NoId)
BY DEF Numbered

\* A message that is not being edited leaves the queue.
LEMMA RemoveNumbered ==
    ASSUME NEW q \in Seq(QueuedType), NEW n \in Nat, NEW e, NEW i \in DOMAIN q,
           Numbered(q, n, e), e # q[i].id
    PROVE  Numbered(RemoveAt(q, i), n, e)
<1> DEFINE r == RemoveAt(q, i)
<1>1. Len(q) \in Nat /\ DOMAIN q = 1 .. Len(q)
    BY LenProperties
<1>2. /\ r \in Seq(QueuedType) /\ Len(r) = Len(q) - 1
      /\ \A k \in 1 .. Len(q) - 1 : r[k] = IF k < i THEN q[k] ELSE q[k + 1]
    BY RemoveAtElements
<1> HIDE DEF r
<1>3. DOMAIN r = 1 .. Len(q) - 1
    BY <1>2, LenProperties
<1>4. \A k \in DOMAIN r : /\ (IF k < i THEN k ELSE k + 1) \in DOMAIN q
                          /\ r[k] = q[IF k < i THEN k ELSE k + 1]
    BY <1>1, <1>2, <1>3
<1>5. \A k \in DOMAIN r : r[k].id <= n
    BY <1>4 DEF Numbered
<1>6. ASSUME NEW k \in DOMAIN r, NEW l \in DOMAIN r, r[k].id = r[l].id PROVE k = l
    <2>1. (IF k < i THEN k ELSE k + 1) = (IF l < i THEN l ELSE l + 1)
        BY <1>4, <1>6 DEF Numbered
    <2> QED BY <1>1, <1>3, <2>1
<1>7. ASSUME e # NoId PROVE \E k \in DOMAIN r : r[k].id = e
    <2>1. PICK j \in DOMAIN q : q[j].id = e
        BY <1>7 DEF Numbered
    <2>2. j # i
        BY <2>1
    <2>3. CASE j < i
        BY <1>1, <1>2, <1>3, <2>1, <2>3
    <2>4. CASE j > i
        <3>1. j - 1 \in DOMAIN r /\ ~(j - 1 < i) /\ (j - 1) + 1 = j
            BY <1>1, <1>3, <2>4
        <3>2. r[j - 1] = q[j]
            BY <1>2, <1>3, <3>1
        <3> QED BY <2>1, <3>1, <3>2
    <2> QED BY <1>1, <2>2, <2>3, <2>4
<1> QED BY <1>5, <1>6, <1>7 DEF Numbered, r

\* A message whose id no queued message has enters the queue, at any place.
LEMMA InsertNumbered ==
    ASSUME NEW q \in Seq(QueuedType), NEW n \in Nat, NEW e, NEW i \in 1 .. Len(q) + 1,
           NEW x \in QueuedType, x.id <= n, \A j \in DOMAIN q : q[j].id # x.id,
           Numbered(q, n, NoId), e # NoId => e = x.id \/ \E j \in DOMAIN q : q[j].id = e
    PROVE  Numbered(InsertAt(q, i, x), n, e)
<1> DEFINE r == InsertAt(q, i, x)
<1>1. Len(q) \in Nat /\ DOMAIN q = 1 .. Len(q)
    BY LenProperties
<1>2. /\ r \in Seq(QueuedType) /\ Len(r) = Len(q) + 1
      /\ \A k \in 1 .. Len(q) + 1 : r[k] = IF k < i THEN q[k] ELSE IF k = i THEN x ELSE q[k - 1]
    BY InsertAtElements, ZenonT(40)
<1> HIDE DEF r
<1>3. DOMAIN r = 1 .. Len(q) + 1
    BY <1>2, LenProperties
<1>4. r[i] = x /\ i \in DOMAIN r
    BY <1>1, <1>2, <1>3
<1>5. \A k \in DOMAIN r \ {i} : /\ (IF k < i THEN k ELSE k - 1) \in DOMAIN q
                                /\ r[k] = q[IF k < i THEN k ELSE k - 1]
    BY <1>1, <1>2, <1>3
<1>6. \A k \in DOMAIN r : r[k].id <= n
    BY <1>4, <1>5 DEF Numbered
<1>7. ASSUME NEW k \in DOMAIN r, NEW l \in DOMAIN r, r[k].id = r[l].id PROVE k = l
    <2>1. CASE k = i \/ l = i
        BY <1>4, <1>5, <1>7, <2>1
    <2>2. CASE k # i /\ l # i
        <3>1. (IF k < i THEN k ELSE k - 1) = (IF l < i THEN l ELSE l - 1)
            BY <1>5, <1>7, <2>2 DEF Numbered
        <3> QED BY <1>1, <1>3, <2>2, <3>1
    <2> QED BY <2>1, <2>2
<1>8. ASSUME e # NoId PROVE \E k \in DOMAIN r : r[k].id = e
    <2>1. CASE e = x.id
        BY <1>4, <2>1
    <2>2. CASE \E j \in DOMAIN q : q[j].id = e
        <3>1. PICK j \in DOMAIN q : q[j].id = e
            BY <2>2
        <3>2. CASE j < i
            BY <1>1, <1>2, <1>3, <3>1, <3>2
        <3>3. CASE ~(j < i)
            <4>1. j + 1 \in DOMAIN r /\ ~(j + 1 < i) /\ j + 1 # i /\ (j + 1) - 1 = j
                BY <1>1, <1>3, <3>3
            <4>2. r[j + 1] = q[j]
                BY <1>2, <1>3, <4>1
            <4> QED BY <3>1, <4>1, <4>2
        <3> QED BY <3>2, <3>3
    <2> QED BY <1>8, <2>1, <2>2
<1> QED BY <1>6, <1>7, <1>8 DEF Numbered, r

\* Messages that have an id up to n have one up to n + 1.
LEMMA NumberedMore ==
    ASSUME NEW q \in Seq(QueuedType), NEW n \in Nat, NEW e, Numbered(q, n, e)
    PROVE  Numbered(q, n + 1, e) /\ \A i \in DOMAIN q : q[i].id \in Nat /\ q[i].id # n + 1
<1>1. \A i \in DOMAIN q : q[i].id \in Nat
    <2>1. DOMAIN q = 1 .. Len(q) /\ \A i \in 1 .. Len(q) : q[i] \in QueuedType
        BY LenProperties, ElementOfSeq
    <2>2. \A x \in QueuedType : x.id \in Nat
        BY DEF QueuedType
    <2> QED BY <2>1, <2>2
<1>2. \A i \in DOMAIN q : q[i].id <= n + 1 /\ q[i].id # n + 1
    BY <1>1 DEF Numbered
<1> QED BY <1>1, <1>2 DEF Numbered

\* To append to a queue, or to prepend, is to insert at one of its ends.
LEMMA InsertEnds ==
    ASSUME NEW q \in Seq(QueuedType), NEW x \in QueuedType
    PROVE  Append(q, x) = InsertAt(q, Len(q) + 1, x) /\ <<x>> \o q = InsertAt(q, 1, x)
<1>1. Len(q) \in Nat /\ \A i \in 1 .. Len(q) : q[i] \in QueuedType
    BY LenProperties, ElementOfSeq
<1>3. Append(q, x) = InsertAt(q, Len(q) + 1, x)
    <2> DEFINE r == InsertAt(q, Len(q) + 1, x)
    <2>1. /\ r \in Seq(QueuedType) /\ Len(r) = Len(q) + 1
          /\ \A k \in 1 .. Len(q) + 1 :
                r[k] = IF k < Len(q) + 1 THEN q[k] ELSE IF k = Len(q) + 1 THEN x ELSE q[k - 1]
        <3>1. Len(q) + 1 \in 1 .. Len(q) + 1
            BY <1>1
        <3> QED BY <3>1, InsertAtElements, ZenonT(40)
    <2> HIDE DEF r
    <2>2. \A k \in 1 .. Len(q) + 1 : r[k] = IF k <= Len(q) THEN q[k] ELSE x
        BY <1>1, <2>1
    <2>3. r = Append(q, x)
        BY <1>1, <2>1, <2>2
    <2> QED BY <2>3 DEF r
<1>4. <<x>> \o q = InsertAt(q, 1, x)
    <2> DEFINE r == InsertAt(q, 1, x)
               y == <<x>>
    <2>1. /\ r \in Seq(QueuedType) /\ Len(r) = Len(q) + 1
          /\ \A k \in 1 .. Len(q) + 1 :
                r[k] = IF k < 1 THEN q[k] ELSE IF k = 1 THEN x ELSE q[k - 1]
        BY <1>1, InsertAtElements
    <2>2. y \in Seq(QueuedType) /\ Len(y) = 1 /\ y[1] = x
        OBVIOUS
    <2> HIDE DEF r, y
    <2>3. /\ y \o q \in Seq(QueuedType) /\ Len(y \o q) = 1 + Len(q)
          /\ \A k \in 1 .. 1 + Len(q) : (y \o q)[k] = IF k <= 1 THEN y[k] ELSE q[k - 1]
        BY <2>2, ConcatProperties, SMTT(30)
    <2>4. \A k \in 1 .. Len(q) + 1 : r[k] = (y \o q)[k]
        BY <1>1, <2>1, <2>2, <2>3
    <2>5. DOMAIN r = 1 .. Len(q) + 1 /\ DOMAIN (y \o q) = 1 .. Len(q) + 1
        BY <1>1, <2>1, <2>3, LenProperties
    <2>6. Len(r) = Len(y \o q)
        BY <1>1, <2>1, <2>3
    <2>7. r = y \o q
        BY <2>1, <2>3, <2>4, <2>6, SeqEqual
    <2> QED BY <2>7 DEF r, y
<1> QED BY <1>3, <1>4

\* A message with the next id goes to the end or to the front of the queue.
LEMMA NewNumbered ==
    ASSUME NEW q \in Seq(QueuedType), NEW n \in Nat, NEW e, NEW x \in QueuedType,
           x.id = n + 1, Numbered(q, n, e)
    PROVE  Numbered(Append(q, x), n + 1, e) /\ Numbered(<<x>> \o q, n + 1, e)
<1>1. Len(q) \in Nat /\ \A i \in 1 .. Len(q) : q[i] \in QueuedType
    BY LenProperties, ElementOfSeq
<1>2. \A i \in 1 .. Len(q) + 1 : Numbered(InsertAt(q, i, x), n + 1, e)
    <2>1. /\ Numbered(q, n + 1, NoId) /\ \A j \in DOMAIN q : q[j].id # x.id
          /\ e # NoId => \E j \in DOMAIN q : q[j].id = e
        BY NumberedMore, NumberedWeaker DEF Numbered
    <2>2. n + 1 \in Nat /\ x.id <= n + 1
        OBVIOUS
    <2> QED BY <2>1, <2>2, InsertNumbered
<1>5. 1 \in 1 .. Len(q) + 1 /\ Len(q) + 1 \in 1 .. Len(q) + 1
    BY <1>1
<1> QED BY <1>2, <1>5, InsertEnds

-----------------------------------------------------------------------------
(* QueueNumbered, one lemma per method of the session.                      *)

\* The three fields QueueNumbered reads.
SameQueue(s, t) == t.queue = s.queue /\ t.nextId = s.nextId /\ t.editing = s.editing

\* QueueNumbered depends on nothing but the fields SameQueue lists.
LEMMA SameQueueNumbered ==
    ASSUME NEW s, NEW t, SameQueue(s, t), QueueNumbered(s)
    PROVE  QueueNumbered(t)
BY DEF SameQueue, QueueNumbered

\* The types of those fields.
LEMMA QueueTypes ==
    ASSUME NEW s \in SessionType
    PROVE  s.queue \in Seq(QueuedType) /\ s.nextId \in Nat /\ s.editing \in Nat \cup {NoId}
BY DEF SessionType

\* enqueue, and putting a message back, give it an id that no queued message has.
LEMMA EnqueueNumbered ==
    ASSUME NEW s \in SessionType, NEW m \in Messages, QueueNumbered(s)
    PROVE  QueueNumbered(Enqueue(s, m)) /\ QueueNumbered(Requeue(s, m))
<1> DEFINE x == [id |-> s.nextId + 1, msg |-> m]
<1>1. x \in QueuedType /\ x.id = s.nextId + 1
    BY QueuedTypeNew
<1>2. /\ Enqueue(s, m).queue = Append(s.queue, x) /\ Requeue(s, m).queue = <<x>> \o s.queue
      /\ Enqueue(s, m).nextId = s.nextId + 1 /\ Requeue(s, m).nextId = s.nextId + 1
      /\ Enqueue(s, m).editing = s.editing /\ Requeue(s, m).editing = s.editing
    BY DEF Enqueue, Requeue, SessionType
<1> HIDE DEF x
<1>3. Numbered(Append(s.queue, x), s.nextId + 1, s.editing)
      /\ Numbered(<<x>> \o s.queue, s.nextId + 1, s.editing)
    BY <1>1, QueueTypes, NewNumbered DEF QueueNumbered
<1> QED BY <1>2, <1>3 DEF QueueNumbered

\* take_queued ends the edit of the message it takes, and of no other.
LEMMA TakeNumbered ==
    ASSUME NEW s \in SessionType, NEW i \in DOMAIN s.queue, QueueNumbered(s)
    PROVE  QueueNumbered(TakeQueued(s, i))
<1> DEFINE e == IF s.editing = s.queue[i].id THEN NoId ELSE s.editing
           r == RemoveAt(s.queue, i)
<1>1. /\ TakeQueued(s, i).queue = r /\ TakeQueued(s, i).nextId = s.nextId
      /\ TakeQueued(s, i).editing = e
    BY DEF TakeQueued, SessionType
<1>2. s.queue[i].id # NoId
    BY QueueItem DEF NoId
<1>3. Numbered(s.queue, s.nextId, e) /\ e # s.queue[i].id
    BY <1>2, NumberedWeaker DEF QueueNumbered
<1> HIDE DEF e
<1>4. Numbered(r, s.nextId, e)
    BY <1>3, QueueTypes, RemoveNumbered
<1> QED BY <1>1, <1>4 DEF QueueNumbered

\* A sendable message is not the one in the composer, and may go.
LEMMA DropNumbered ==
    ASSUME NEW s \in SessionType, NEW i \in Sendable(s), QueueNumbered(s)
    PROVE  QueueNumbered([s EXCEPT !.queue = RemoveAt(@, i)])
<1> DEFINE r == RemoveAt(s.queue, i)
           t == [s EXCEPT !.queue = r]
<1>1. i \in DOMAIN s.queue /\ s.queue[i].id # s.editing
    BY DEF Sendable
<1>2. t.queue = r /\ t.nextId = s.nextId /\ t.editing = s.editing
    BY DEF SessionType
<1>3. Numbered(r, s.nextId, s.editing)
    BY <1>1, QueueTypes, RemoveNumbered DEF QueueNumbered
<1> HIDE DEF r
<1> QED BY <1>2, <1>3 DEF QueueNumbered, r

\* move_queued puts back the message it took, at most after the last.
LEMMA MoveNumbered ==
    ASSUME NEW s \in SessionType, NEW i \in DOMAIN s.queue, NEW to \in Nat, QueueNumbered(s)
    PROVE  QueueNumbered(MoveTo(s, i, to))
<1> DEFINE q == s.queue
           r == RemoveAt(q, i)
           x == q[i]
           at == IF to <= Len(r) THEN to ELSE Len(r)
           u == InsertAt(r, at + 1, x)
<1>1. q \in Seq(QueuedType) /\ s.nextId \in Nat /\ x \in QueuedType
    BY QueueTypes, QueueItem
<1>2. /\ MoveTo(s, i, to).queue = u /\ MoveTo(s, i, to).nextId = s.nextId
      /\ MoveTo(s, i, to).editing = s.editing
    BY DEF MoveTo, SessionType
<1>3. Numbered(q, s.nextId, s.editing) /\ Numbered(q, s.nextId, NoId)
    BY NumberedWeaker DEF QueueNumbered
<1>4. Len(q) \in Nat /\ DOMAIN q = 1 .. Len(q) /\ i \in 1 .. Len(q)
    BY <1>1, LenProperties
<1>5. /\ r \in Seq(QueuedType) /\ Len(r) = Len(q) - 1
      /\ \A k \in 1 .. Len(q) - 1 : r[k] = IF k < i THEN q[k] ELSE q[k + 1]
    BY <1>1, RemoveAtElements
<1>6. x.id \in Nat /\ x.id # NoId /\ x.id <= s.nextId
    BY <1>1, <1>3 DEF Numbered, QueuedType, NoId
<1>7. Numbered(r, s.nextId, NoId)
    <2>1. NoId # x.id
        BY <1>6
    <2> QED BY <1>1, <1>3, <2>1, RemoveNumbered
<1> HIDE DEF r
<1>8. DOMAIN r = 1 .. Len(q) - 1
    BY <1>5, LenProperties
<1>9. \A k \in DOMAIN r : r[k].id # x.id
    <2> SUFFICES ASSUME NEW k \in DOMAIN r, r[k].id = x.id PROVE FALSE
        OBVIOUS
    <2>1. PICK j \in DOMAIN q : j # i /\ r[k] = q[j]
        <3>1. CASE k < i
            <4>1. k \in DOMAIN q /\ k # i /\ r[k] = q[k]
                BY <1>4, <1>5, <1>8, <3>1
            <4> QED BY <4>1
        <3>2. CASE ~(k < i)
            <4>1. k + 1 \in DOMAIN q /\ k + 1 # i /\ r[k] = q[k + 1]
                BY <1>4, <1>5, <1>8, <3>2
            <4> QED BY <4>1
        <3> QED BY <3>1, <3>2
    <2> QED BY <1>3, <2>1 DEF Numbered
<1>10. ASSUME s.editing # NoId
       PROVE  s.editing = x.id \/ \E k \in DOMAIN r : r[k].id = s.editing
    <2>1. PICK j \in DOMAIN q : q[j].id = s.editing
        BY <1>3, <1>10 DEF Numbered
    <2>2. CASE j = i
        BY <2>1, <2>2
    <2>3. CASE j < i
        BY <1>4, <1>5, <1>8, <2>1, <2>3
    <2>4. CASE j > i
        <3>1. j - 1 \in DOMAIN r /\ ~(j - 1 < i) /\ (j - 1) + 1 = j
            BY <1>4, <1>8, <2>4
        <3>2. r[j - 1] = q[j]
            BY <1>5, <1>8, <3>1
        <3> QED BY <2>1, <3>1, <3>2
    <2> QED BY <1>4, <2>2, <2>3, <2>4
<1>11. at + 1 \in 1 .. Len(r) + 1
    BY <1>4, <1>5
<1> HIDE DEF q, x, at
<1>12. Numbered(u, s.nextId, s.editing)
    BY <1>1, <1>5, <1>6, <1>7, <1>9, <1>10, <1>11, InsertNumbered
<1> QED BY <1>2, <1>12 DEF QueueNumbered

\* What deliver does after its early return does not touch the queue.
LEMMA DispatchKeepsQueue ==
    ASSUME NEW s \in SessionType, NEW m
    PROVE  SameQueue(s, Dispatch(s, m))
<1> DEFINE t == [PushUser(s, m) EXCEPT !.userStopped = FALSE,
                                       !.working = TRUE,
                                       !.restart = @ /\ s.working,
                                       !.run = IF s.restart /\ ~s.working THEN NoRun ELSE @]
<1>1. SameQueue(s, t)
    BY DEF SameQueue, PushUser, SessionType
<1>2. Dispatch(s, m) = IF t.run.stopping THEN [t EXCEPT !.pending = Merge(@, m)]
                       ELSE IF CanPush(t.run) THEN [t EXCEPT !.run.inbox = Append(@, m)]
                       ELSE StartRun(t, <<m>>)
    BY DEF Dispatch
<1>3. \A p : StartRun(t, p).queue = t.queue /\ StartRun(t, p).nextId = t.nextId
              /\ StartRun(t, p).editing = t.editing
    BY DEF StartRun, PushUser, SessionType
<1>4. SameQueue(t, [t EXCEPT !.pending = Merge(@, m)])
      /\ SameQueue(t, [t EXCEPT !.run.inbox = Append(@, m)])
    BY DEF SameQueue, PushUser, SessionType
<1> HIDE DEF t
<1> QED BY <1>1, <1>2, <1>3, <1>4 DEF SameQueue

\* deliver.
LEMMA DeliverNumbered ==
    ASSUME NEW s \in SessionType, NEW m \in Messages, QueueNumbered(s)
    PROVE  QueueNumbered(Deliver(s, m))
BY EnqueueNumbered, DispatchKeepsQueue, SameQueueNumbered DEF Deliver

\* take_next_queued skips the message in the composer.
LEMMA DeliverNextNumbered ==
    ASSUME NEW s \in SessionType, Sendable(s) # {}, QueueNumbered(s)
    PROVE  QueueNumbered(DeliverNext(s))
<1> DEFINE i == FirstSendable(s)
           t == [s EXCEPT !.queue = RemoveAt(@, i)]
<1>1. i \in Sendable(s) /\ i \in DOMAIN s.queue
    BY FirstSendableExists DEF Sendable
<1>2. s.queue[i].msg \in Messages /\ t \in SessionType /\ QueueNumbered(t)
    BY <1>1, QueueItem, DropQueuedType, DropNumbered
<1>3. DeliverNext(s) = Deliver(t, s.queue[i].msg)
    BY DEF DeliverNext
<1> HIDE DEF i, t
<1> QED BY <1>2, <1>3, DeliverNumbered

\* send_next_queued.
LEMMA SendNextQueuedNumbered ==
    ASSUME NEW s \in SessionType, QueueNumbered(s)
    PROVE  QueueNumbered(SendNextQueued(s))
BY DeliverNextNumbered DEF SendNextQueued

\* A queue that has a sendable message still has one when another is queued.
LEMMA EnqueueSendable ==
    ASSUME NEW s \in SessionType, NEW m \in Messages, Sendable(s) # {}
    PROVE  Sendable(Enqueue(s, m)) # {}
<1>1. /\ Enqueue(s, m).queue = Append(s.queue, [id |-> s.nextId + 1, msg |-> m])
      /\ Enqueue(s, m).editing = s.editing /\ s.queue \in Seq(QueuedType)
    BY DEF Enqueue, SessionType
<1>2. \A i \in DOMAIN s.queue : /\ i \in DOMAIN Enqueue(s, m).queue
                                /\ Enqueue(s, m).queue[i] = s.queue[i]
    BY <1>1, QueuedTypeNew, AppendProperties, LenProperties
<1> QED BY <1>1, <1>2 DEF Sendable

\* send_message.
LEMMA SendMessageNumbered ==
    ASSUME NEW s \in SessionType, NEW m \in Messages, NEW steer, QueueNumbered(s)
    PROVE  QueueNumbered(SendMessage(s, m, steer))
<1>1. Enqueue(s, m) \in SessionType /\ QueueNumbered(Enqueue(s, m))
    BY EnqueueType, EnqueueNumbered
<1> QED BY <1>1, EnqueueSendable, DeliverNumbered, DeliverNextNumbered DEF SendMessage

\* run_ended: only its last branch takes a message from the queue.
LEMMA RunEndedNumbered ==
    ASSUME NEW s \in SessionType, QueueNumbered(s)
    PROVE  QueueNumbered(RunEnded(s))
<1> DEFINE e == [s EXCEPT !.run = NoRun, !.forkFailed = FALSE]
<1>1. e \in SessionType /\ SameQueue(s, e)
    BY NoRunType DEF SessionType, SameQueue
<1>2. RunEnded(s) = IF s.forkFailed /\ s.forkPrompt # <<>> /\ ~s.deleted THEN ForkFallback(e)
                    ELSE IF s.pending # <<>> /\ ~s.deleted THEN StartPending(e)
                    ELSE IF s.userStopped THEN Idle(e)
                    ELSE SendNextQueued(Idle(e))
    BY DEF RunEnded
<1> HIDE DEF e
<1>3. SameQueue(e, ForkFallback(e)) /\ SameQueue(e, StartPending(e)) /\ SameQueue(e, Idle(e))
    BY <1>1 DEF ForkFallback, StartPending, StartRun, Idle, SameQueue, SessionType
<1>4. Idle(e) \in SessionType
    <2>1. <<>> \in Prompts
        BY DEF Prompts
    <2> QED BY <1>1, <2>1 DEF Idle, SessionType
<1>5. QueueNumbered(e)
    BY <1>1, SameQueueNumbered
<1>6. QueueNumbered(ForkFallback(e)) /\ QueueNumbered(StartPending(e)) /\ QueueNumbered(Idle(e))
    BY <1>3, <1>5, SameQueueNumbered
<1> QED BY <1>2, <1>4, <1>6, SendNextQueuedNumbered

\* What the events of a run write to the transcript leaves the queue alone.
LEMMA TranscriptKeepsQueue ==
    ASSUME NEW s \in SessionType, NEW isError
    PROVE  SameQueue(s, PushEntry(s, isError)) /\ SameQueue(s, MarkUndelivered(s))
BY DEF PushEntry, MarkUndelivered, SameQueue, SessionType

\* fail_run.
LEMMA FailRunNumbered ==
    ASSUME NEW s \in SessionType, QueueNumbered(s)
    PROVE  QueueNumbered(FailRun(s))
<1> DEFINE f == [s EXCEPT !.forkFailed = TRUE]
           u == MarkUndelivered(s)
           v == PushEntry(u, TRUE)
<1>1. f \in SessionType /\ SameQueue(s, f)
    BY DEF SessionType, SameQueue
<1>2. u \in SessionType /\ SameQueue(s, u)
    BY MarkUndeliveredType, TranscriptKeepsQueue
<1>3. FailRun(s) = IF ForkPending(s) THEN RunEnded(f) ELSE RunEnded(v)
    BY DEF FailRun
<1> HIDE DEF f, u
<1>4. v \in SessionType /\ SameQueue(u, v)
    BY <1>2, PushEntryType, TranscriptKeepsQueue
<1> HIDE DEF v
<1>5. QueueNumbered(f) /\ QueueNumbered(u)
    BY <1>1, <1>2, SameQueueNumbered
<1>6. QueueNumbered(v)
    BY <1>4, <1>5, SameQueueNumbered
<1> QED BY <1>1, <1>3, <1>4, <1>5, <1>6, RunEndedNumbered

\* A Done event.
LEMMA TurnDoneNumbered ==
    ASSUME NEW s \in SessionType, NEW status \in DoneEvents, QueueNumbered(s)
    PROVE  QueueNumbered(TurnDone(s, status))
<1> DEFINE e == EndReport(s, status)
           w == (s.pending # <<>>)
           d == [e EXCEPT !.working = w]
<1>1. e \in SessionType /\ SameQueue(s, e)
    BY EndReportFields DEF SameQueue
<1>2. TurnDone(s, status) = IF status = "interrupted" THEN d ELSE SendNextQueued(d)
    BY DEF TurnDone
<1>3. w \in BOOLEAN
    OBVIOUS
<1> HIDE DEF e, w
<1>4. d \in SessionType /\ SameQueue(e, d)
    BY <1>1, <1>3 DEF SessionType, SameQueue
<1> HIDE DEF d
<1>5. QueueNumbered(e)
    BY <1>1, SameQueueNumbered
<1>6. QueueNumbered(d)
    BY <1>4, <1>5, SameQueueNumbered
<1> QED BY <1>2, <1>4, <1>6, SendNextQueuedNumbered

\* apply_event.
LEMMA ApplyEventNumbered ==
    ASSUME NEW s \in SessionType, NEW ev \in Events, QueueNumbered(s)
    PROVE  QueueNumbered(ApplyEvent(s, ev))
<1>1. CASE ev \in DoneEvents /\ ~(ev = "errored" /\ ForkPending(s))
    <2>1. ApplyEvent(s, ev) = TurnDone(s, ev)
        BY <1>1 DEF ApplyEvent, DoneEvents
    <2> QED BY <1>1, <2>1, TurnDoneNumbered
<1>2. CASE ~(ev \in DoneEvents /\ ~(ev = "errored" /\ ForkPending(s)))
    <2>1. SameQueue(s, ApplyEvent(s, ev))
        BY <1>2 DEF ApplyEvent, SetNativeId, Resume, PushEntry, SameQueue, SessionType, DoneEvents,
                    Events, ResumeEvents
    <2> QED BY <2>1, SameQueueNumbered
<1> QED BY <1>1, <1>2

-----------------------------------------------------------------------------
(* QueueInv, one lemma per group of actions.                                *)

\* The ids of a queue read back from disk are its indices.
LEMMA InitNumbered == Init => QueueNumbered(session)
<1> SUFFICES ASSUME Init PROVE QueueNumbered(session)
    OBVIOUS
<1> DEFINE q == [i \in DOMAIN Loaded |-> [id |-> i - 1, msg |-> Loaded[i]]]
<1>1. Len(Loaded) \in Nat /\ DOMAIN Loaded = 1 .. Len(Loaded)
    BY MessagesAssumption, LenProperties
<1>2. session.queue = q /\ session.nextId = Len(Loaded) /\ session.editing = NoId
    BY DEF Init
<1>3. DOMAIN q = 1 .. Len(Loaded) /\ \A i \in 1 .. Len(Loaded) : q[i].id = i - 1
    BY <1>1
<1> HIDE DEF q
<1>4. Numbered(q, Len(Loaded), NoId)
    BY <1>1, <1>3 DEF Numbered
<1> QED BY <1>2, <1>4 DEF QueueNumbered

\* Cancelling the interrupt token of a run leaves the queue alone.
LEMMA InterruptKeepsQueue ==
    ASSUME NEW s \in SessionType
    PROVE  SameQueue(s, [s EXCEPT !.run.stopping = TRUE])
BY DEF SameQueue, SessionType

\* retry_undelivered's edit of the transcript leaves the queue alone.
LEMMA RetryKeepsQueue ==
    ASSUME NEW s \in SessionType, NEW i
    PROVE  /\ SameQueue(s, [s EXCEPT !.entries = RemoveAt(@, i)])
           /\ SameQueue(s, [[s EXCEPT !.entries = RemoveAt(@, i)] EXCEPT !.entries[i - 1].tail = "mixed"])
BY DEF SameQueue, SessionType

\* Sending and retrying.
LEMMA SendStep ==
    ASSUME QueueInv, NEW steer \in SteerModes,
           \/ \E m \in fresh : Send(m, steer)
           \/ \E i \in DOMAIN session.entries : Retry(i, steer)
    PROVE  QueueNumbered(session')
<1>1. session \in SessionType /\ QueueNumbered(session) /\ fresh \subseteq Messages
    BY DEF QueueInv, SessionInv, TypeOK
<1>2. ASSUME NEW m \in fresh, Send(m, steer) PROVE QueueNumbered(session')
    BY <1>1, <1>2, SendMessageNumbered DEF Send
<1>3. ASSUME NEW i \in DOMAIN session.entries, Retry(i, steer) PROVE QueueNumbered(session')
    <2> DEFINE e == session.entries[i]
               rest == [session EXCEPT !.entries = RemoveAt(@, i)]
               kept == IF e.tail = "mixed" /\ i > 1
                       THEN [rest EXCEPT !.entries[i - 1].tail = "mixed"] ELSE rest
    <2>1. session' = SendMessage(kept, e.msg, steer)
        BY <1>3 DEF Retry
    <2>2. e.msg \in Messages
        BY <1>1, EntryDropType DEF EntryType
    <2>3. kept \in SessionType /\ SameQueue(session, kept)
        BY <1>1, EntryDropType, RetryKeepsQueue
    <2> HIDE DEF kept, e
    <2>4. QueueNumbered(kept)
        BY <1>1, <2>3, SameQueueNumbered
    <2> QED BY <2>1, <2>2, <2>3, <2>4, SendMessageNumbered
<1> QED BY <1>2, <1>3

\* The queue panel: steer, send now, remove, edit, move.
LEMMA QueuePanelStep ==
    ASSUME QueueInv, NEW i \in DOMAIN session.queue,
           \/ SteerQueued(i) \/ SendQueuedNow(i) \/ RemoveQueued(i) \/ BeginEdit(i)
           \/ \E to \in 0 .. Len(session.queue) : MoveQueued(i, to)
    PROVE  QueueNumbered(session')
<1> DEFINE t == TakeQueued(session, i)
           m == session.queue[i].msg
<1>1. session \in SessionType /\ QueueNumbered(session)
    BY DEF QueueInv, SessionInv, TypeOK
<1>2. m \in Messages /\ session.queue[i].id \in Nat
    BY <1>1, QueueItem
<1>3. t \in SessionType /\ QueueNumbered(t)
    BY <1>1, TakeQueuedType, TakeNumbered
<1>4. CASE SteerQueued(i)
    <2>1. session' = Deliver(t, m)
        BY <1>4 DEF SteerQueued
    <2> HIDE DEF t, m
    <2> QED BY <1>2, <1>3, <2>1, DeliverNumbered
<1>5. CASE SendQueuedNow(i)
    <2> DEFINE c == IF t.working /\ HasRun(t) THEN [t EXCEPT !.run.stopping = TRUE] ELSE t
    <2>1. session' = Deliver(c, m)
        BY <1>5 DEF SendQueuedNow
    <2> HIDE DEF t, m
    <2>2. [t.run EXCEPT !.stopping = TRUE] \in RunType
        BY <1>3 DEF SessionType, RunType
    <2>3. [t EXCEPT !.run.stopping = TRUE] \in SessionType
        <3>1. [t EXCEPT !.run.stopping = TRUE] = [t EXCEPT !.run = [t.run EXCEPT !.stopping = TRUE]]
            BY <1>3 DEF SessionType
        <3> QED BY <1>3, <2>2, <3>1 DEF SessionType
    <2>4. QueueNumbered([t EXCEPT !.run.stopping = TRUE])
        BY <1>3, InterruptKeepsQueue, SameQueueNumbered
    <2>5. c \in SessionType /\ QueueNumbered(c)
        BY <1>3, <2>3, <2>4
    <2> HIDE DEF c
    <2> QED BY <1>2, <2>1, <2>5, DeliverNumbered
<1>6. CASE RemoveQueued(i)
    BY <1>3, <1>6 DEF RemoveQueued
<1>7. CASE BeginEdit(i)
    <2> DEFINE u == [session EXCEPT !.editing = session.queue[i].id]
    <2>1. session' = u
        BY <1>7 DEF BeginEdit
    <2>2. u.queue = session.queue /\ u.nextId = session.nextId /\ u.editing = session.queue[i].id
        BY <1>1 DEF SessionType
    <2> HIDE DEF u
    <2>3. QueueNumbered(u)
        BY <1>1, <2>2 DEF QueueNumbered, Numbered
    <2> QED BY <2>1, <2>3
<1>8. ASSUME NEW to \in 0 .. Len(session.queue), MoveQueued(i, to) PROVE QueueNumbered(session')
    <2>1. to \in Nat /\ session' = MoveTo(session, i, to)
        BY <1>8 DEF MoveQueued
    <2> QED BY <1>1, <2>1, MoveNumbered
<1> QED BY <1>4, <1>5, <1>6, <1>7, <1>8

\* Ending an edit: the edited message keeps its id, or a new message gets the next one.
LEMMA EditStep ==
    ASSUME QueueInv, CancelEdit \/ \E m \in fresh : SaveEdit(m)
    PROVE  QueueNumbered(session')
<1> DEFINE e == IF session.editing = view THEN NoId ELSE session.editing
           s == [session EXCEPT !.editing = e]
<1>1. session \in SessionType /\ QueueNumbered(session) /\ fresh \subseteq Messages
    BY DEF QueueInv, SessionInv, TypeOK
<1>2. e \in Nat \cup {NoId} /\ Numbered(session.queue, session.nextId, e)
    BY <1>1, NumberedWeaker DEF QueueNumbered, SessionType
<1>3. s = [session EXCEPT !.editing = IF @ = view THEN NoId ELSE @]
    BY <1>1 DEF SessionType
<1> HIDE DEF e
<1>4. /\ s \in SessionType /\ s.queue = session.queue /\ s.nextId = session.nextId
      /\ s.editing = e
    BY <1>1, <1>2 DEF SessionType
<1> HIDE DEF s
<1>5. QueueNumbered(s)
    BY <1>2, <1>4 DEF QueueNumbered
<1>6. CASE CancelEdit
    BY <1>3, <1>5, <1>6 DEF CancelEdit
<1>7. ASSUME NEW m \in fresh, SaveEdit(m) PROVE QueueNumbered(session')
    <2>1. session' = Enqueue(s, m) \/ \E i \in DOMAIN s.queue : session' = [s EXCEPT !.queue[i].msg = m]
        BY <1>3, <1>7 DEF SaveEdit
    <2>2. CASE session' = Enqueue(s, m)
        BY <1>1, <1>4, <1>5, <2>2, EnqueueNumbered
    <2>3. ASSUME NEW i \in DOMAIN s.queue, session' = [s EXCEPT !.queue[i].msg = m]
          PROVE  QueueNumbered(session')
        <3> DEFINE x == [s.queue[i] EXCEPT !.msg = m]
                   q == [s.queue EXCEPT ![i] = x]
                   u == [s EXCEPT !.queue = q]
        <3>1. x.id = s.queue[i].id
            BY <1>4, QueueItem DEF QueuedType
        <3>2. session' = u
            BY <1>4, <2>3 DEF SessionType
        <3>3. u.queue = q /\ u.nextId = s.nextId /\ u.editing = s.editing
            BY <1>4 DEF SessionType
        <3> HIDE DEF x
        <3>4. DOMAIN q = DOMAIN s.queue /\ \A j \in DOMAIN s.queue : q[j].id = s.queue[j].id
            BY <3>1
        <3> HIDE DEF q
        <3>5. Numbered(q, s.nextId, s.editing)
            BY <1>5, <3>4 DEF QueueNumbered, Numbered
        <3> QED BY <3>2, <3>3, <3>5 DEF QueueNumbered
    <2> QED BY <2>1, <2>2, <2>3
<1> QED BY <1>6, <1>7

\* Stop, a change of settings and a deletion: at most an edit ends.
LEMMA OtherUserStep ==
    ASSUME QueueInv, Stop \/ ChangeSettings \/ Delete
    PROVE  QueueNumbered(session')
<1>1. session \in SessionType /\ QueueNumbered(session)
    BY DEF QueueInv, SessionInv, TypeOK
<1>2. CASE Stop \/ ChangeSettings
    <2>1. SameQueue(session, session')
        BY <1>1, <1>2 DEF Stop, ChangeSettings, SameQueue, SessionType
    <2> QED BY <1>1, <2>1, SameQueueNumbered
<1>3. CASE Delete
    <2>1. /\ session'.queue = session.queue /\ session'.nextId = session.nextId
          /\ session'.editing = session.editing \/ session'.editing = NoId
        BY <1>1, <1>3 DEF Delete, SessionType
    <2> QED BY <1>1, <2>1, NumberedWeaker DEF QueueNumbered
<1> QED BY <1>2, <1>3

\* The events task.
LEMMA TaskStep ==
    ASSUME QueueInv, TaskNext
    PROVE  QueueNumbered(session')
<1>1. session \in SessionType /\ QueueNumbered(session) /\ stale \in Seq(Events \cup {"ended"})
    BY DEF QueueInv, SessionInv, TypeOK
<1>2. CASE ReceiveEvent
    <2> DEFINE r == session.run
               q == [r EXCEPT !.out = Tail(r.out)]
               c == [session EXCEPT !.run = q]
    <2>1. r.out # <<>> /\ session' = ApplyEvent([session EXCEPT !.run.out = Tail(@)], Head(r.out))
        BY <1>2 DEF ReceiveEvent
    <2>2. c = [session EXCEPT !.run.out = Tail(@)]
        BY <1>1 DEF SessionType
    <2>3. r \in RunType /\ r.out \in Seq(Events)
        BY <1>1 DEF SessionType, RunType
    <2>4. Head(r.out) \in Events /\ Tail(r.out) \in Seq(Events)
        BY <2>1, <2>3, HeadTailProperties
    <2>5. q \in RunType
        BY <2>3, <2>4 DEF RunType
    <2> HIDE DEF q
    <2>6. c \in SessionType /\ SameQueue(session, c)
        BY <1>1, <2>5 DEF SessionType, SameQueue
    <2> HIDE DEF c, r
    <2>7. QueueNumbered(c)
        BY <1>1, <2>6, SameQueueNumbered
    <2> QED BY <2>1, <2>2, <2>4, <2>6, <2>7, ApplyEventNumbered
<1>3. CASE ReceiveStale
    <2>1. stale # <<>> /\ Head(stale) \in Events \cup {"ended"}
        BY <1>1, <1>3, HeadTailProperties DEF ReceiveStale
    <2>2. \/ session' = RunEnded(session)
          \/ Head(stale) \in Events /\ session' = ApplyEvent(session, Head(stale))
        BY <1>3, <2>1 DEF ReceiveStale
    <2> QED BY <1>1, <2>2, RunEndedNumbered, ApplyEventNumbered
<1>4. CASE ReceiveEnd \/ ReceiveFailure
    <2>1. session' = RunEnded(session) \/ session' = FailRun(session)
        BY <1>4 DEF ReceiveEnd, ReceiveFailure
    <2> QED BY <1>1, <2>1, RunEndedNumbered, FailRunNumbered
<1> QED BY <1>2, <1>3, <1>4 DEF TaskNext

\* The harness does not reach the queue.
LEMMA HarnessStep ==
    ASSUME QueueInv, HarnessNext
    PROVE  QueueNumbered(session')
<1>1. session \in SessionType /\ QueueNumbered(session)
    BY DEF QueueInv, SessionInv, TypeOK
<1>2. \E r : session' = [session EXCEPT !.run = r]
    BY DEF HarnessNext, HarnessStart, HarnessFail, HarnessEmit, HarnessTakeSteer, HarnessTurnEnd,
           HarnessInterrupt, HarnessCrash, HarnessClose, Harness
<1>3. SameQueue(session, session')
    BY <1>1, <1>2 DEF SameQueue, SessionType
<1> QED BY <1>1, <1>3, SameQueueNumbered

\* Every step keeps the numbering.
LEMMA NextNumbered == QueueInv /\ [Next]_vars => QueueInv'
<1> SUFFICES ASSUME QueueInv, [Next]_vars PROVE QueueNumbered(session')
    BY NextInv DEF QueueInv
<1>1. CASE UNCHANGED vars
    BY <1>1 DEF vars, QueueInv
<1>2. CASE UserNext
    BY <1>2, SendStep, QueuePanelStep, EditStep, OtherUserStep DEF UserNext
<1>3. CASE TaskNext
    BY <1>3, TaskStep
<1>4. CASE HarnessNext
    BY <1>4, HarnessStep
<1> QED BY <1>1, <1>2, <1>3, <1>4 DEF Next

\* The message in the composer stays queued until the user ends the edit, sends it or
\* removes it, and no two queued messages share an id (take_next_queued,
\* take_queued, queue_message and the requeue of deliver together), for any
\* messages, loaded queue, faults and operations of the user.
THEOREM EditIsSafe == Spec => []EditedStaysQueued
<1>1. Init => QueueInv
    BY InitInv, InitNumbered DEF QueueInv
<1>2. QueueInv => EditedStaysQueued
    BY DEF QueueInv, QueueNumbered, Numbered, EditedStaysQueued, QueueIds
<1> QED BY <1>1, <1>2, NextNumbered, PTL DEF Spec

-----------------------------------------------------------------------------
(* Counting the copies of a message.                                        *)

\* How often v occurs in a sequence.
Occ(f, v) == Cardinality({i \in DOMAIN f : f[i] = v})

\* The number of occurrences of v that one message m is.
One(m, v) == IF m = v THEN 1 ELSE 0

\* The messages of a queue.
Msgs(q) == [i \in DOMAIN q |-> q[i].msg]

\* Sequences are counted by natural numbers, the empty one by zero.
LEMMA OccNat ==
    ASSUME NEW n \in Nat, NEW f, DOMAIN f = 1 .. n, NEW v
    PROVE  IsFiniteSet({i \in DOMAIN f : f[i] = v}) /\ Occ(f, v) \in Nat
<1>1. IsFiniteSet(1 .. n)
    BY FS_Interval
<1>2. IsFiniteSet({i \in DOMAIN f : f[i] = v})
    BY <1>1, FS_Subset
<1> QED BY <1>2, FS_CardinalityType DEF Occ

\* The empty sequence has no occurrence of anything.
LEMMA OccEmpty == \A v : Occ(<<>>, v) = 0
BY FS_EmptySet DEF Occ

\* g, of length n, is f without the element at i.
OneLess(f, g, i, n) ==
    /\ n \in Nat /\ i \in 1 .. n + 1
    /\ DOMAIN f = 1 .. n + 1 /\ DOMAIN g = 1 .. n
    /\ \A k \in 1 .. n : g[k] = IF k < i THEN f[k] ELSE f[k + 1]

\* One element more or less, at any place, counts one more or less of it.
LEMMA OccOneLess ==
    ASSUME NEW n, NEW f, NEW g, NEW i, OneLess(f, g, i, n), NEW v
    PROVE  /\ Occ(f, v) \in Nat /\ Occ(g, v) \in Nat
           /\ Occ(f, v) = Occ(g, v) + One(f[i], v)
<1> DEFINE S == {k \in DOMAIN f : f[k] = v}
           T == {k \in DOMAIN g : g[k] = v}
           h == [k \in T |-> IF k < i THEN k ELSE k + 1]
<1> USE DEF OneLess
<1>1. IsFiniteSet(S) /\ IsFiniteSet(T) /\ Occ(f, v) \in Nat /\ Occ(g, v) \in Nat
    BY OccNat, n + 1 \in Nat
<1>2. T \subseteq 1 .. n /\ \A k \in T : g[k] = v
    OBVIOUS
<1>3. \A k \in T : h[k] \in S \ {i}
    OBVIOUS
<1>4. \A k, l \in T : h[k] = h[l] => k = l
    BY <1>2
<1>5. ASSUME NEW j \in S \ {i} PROVE \E k \in T : h[k] = j
    <2>1. j \in 1 .. n + 1 /\ j # i /\ f[j] = v
        OBVIOUS
    <2>2. CASE j < i
        <3>1. j \in T
            BY <2>1, <2>2
        <3> QED BY <2>2, <3>1
    <2>3. CASE ~(j < i)
        <3>1. j - 1 \in 1 .. n /\ ~(j - 1 < i) /\ (j - 1) + 1 = j
            BY <2>1, <2>3
        <3>2. j - 1 \in T
            BY <2>1, <3>1
        <3> QED BY <3>1, <3>2
    <2> QED BY <2>2, <2>3
<1>6. h \in Bijection(T, S \ {i})
    <2>1. h \in [T -> S \ {i}]
        BY <1>3
    <2> HIDE DEF h, S, T
    <2>2. h \in Injection(T, S \ {i})
        BY <1>4, <2>1, Fun_IsInj
    <2>3. h \in Surjection(T, S \ {i})
        BY <1>5, <2>1, Fun_IsSurj
    <2> QED BY <2>2, <2>3 DEF Bijection
<1> HIDE DEF h
<1>7. Cardinality(S \ {i}) = Cardinality(T)
    BY <1>1, <1>6, FS_Bijection DEF ExistsBijection
<1>8. i \in S <=> f[i] = v
    OBVIOUS
<1>9. Cardinality(S \ {i}) = IF f[i] = v THEN Cardinality(S) - 1 ELSE Cardinality(S)
    BY <1>1, <1>8, FS_RemoveElement
<1>10. Cardinality(S) = Occ(f, v) /\ Cardinality(T) = Occ(g, v)
    BY DEF Occ
<1> HIDE DEF S, T
<1> QED BY <1>1, <1>7, <1>9, <1>10 DEF One

\* A prompt is counted by a natural number.
LEMMA PromptNat ==
    ASSUME NEW f \in Prompts, NEW v
    PROVE  Occ(f, v) \in Nat
<1>1. f \in Seq(Messages) /\ Len(f) \in Nat /\ DOMAIN f = 1 .. Len(f)
    BY LenProperties DEF Prompts
<1> QED BY <1>1, OccNat

\* A prompt or the log gets one message more at its end.
LEMMA OccAppend ==
    ASSUME NEW f \in Prompts, NEW m \in Messages, NEW v
    PROVE  Append(f, m) \in Prompts /\ Occ(Append(f, m), v) = Occ(f, v) + One(m, v)
<1>1. f \in Seq(Messages) /\ Len(f) \in Nat /\ DOMAIN f = 1 .. Len(f)
    BY LenProperties DEF Prompts
<1>3. /\ Append(f, m) \in Prompts /\ DOMAIN Append(f, m) = 1 .. Len(f) + 1
      /\ Append(f, m)[Len(f) + 1] = m
      /\ \A k \in 1 .. Len(f) : f[k] = Append(f, m)[k]
    BY <1>1, AppendProperties, LenProperties DEF Prompts
<1>4. Occ(Append(f, m), v) = Occ(f, v) + One(m, v)
    <2> DEFINE g == Append(f, m)
    <2>1. \A k \in 1 .. Len(f) : f[k] = IF k < Len(f) + 1 THEN g[k] ELSE g[k + 1]
        BY <1>1, <1>3
    <2>2. Len(f) + 1 \in 1 .. Len(f) + 1 /\ DOMAIN g = 1 .. Len(f) + 1 /\ g[Len(f) + 1] = m
        BY <1>1, <1>3
    <2> HIDE DEF g
    <2>3. OneLess(g, f, Len(f) + 1, Len(f))
        BY <1>1, <2>1, <2>2 DEF OneLess
    <2>4. Occ(g, v) = Occ(f, v) + One(g[Len(f) + 1], v)
        BY <2>3, OccOneLess
    <2> QED BY <2>2, <2>4 DEF g
<1> QED BY <1>3, <1>4

\* A channel loses its first message.
LEMMA OccTail ==
    ASSUME NEW f \in Prompts, f # <<>>, NEW v
    PROVE  /\ Tail(f) \in Prompts /\ Head(f) \in Messages /\ Occ(Tail(f), v) \in Nat
           /\ Occ(f, v) = Occ(Tail(f), v) + One(Head(f), v)
<1>9. f \in Seq(Messages) /\ Len(f) \in Nat /\ DOMAIN f = 1 .. Len(f)
    BY LenProperties DEF Prompts
<1> DEFINE g == Tail(f)
           n == Len(f) - 1
<1>1. /\ g \in Seq(Messages) /\ Head(f) \in Messages /\ Head(f) = f[1]
      /\ Len(g) = n /\ n \in Nat /\ Len(f) = n + 1
      /\ \A k \in 1 .. n : g[k] = f[k + 1]
    BY <1>9, HeadTailProperties, EmptySeq
<1>2. DOMAIN g = 1 .. n /\ DOMAIN f = 1 .. n + 1 /\ 1 \in 1 .. n + 1
    BY <1>9, <1>1, LenProperties
<1> HIDE DEF g, n
<1>3. \A k \in 1 .. n : g[k] = IF k < 1 THEN f[k] ELSE f[k + 1]
    BY <1>1
<1>4. OneLess(f, g, 1, n)
    BY <1>1, <1>2, <1>3 DEF OneLess
<1>5. Occ(g, v) \in Nat /\ Occ(f, v) = Occ(g, v) + One(f[1], v)
    BY <1>4, OccOneLess
<1> QED BY <1>1, <1>5 DEF g, Prompts

\* A prompt of one message.
LEMMA OccSingle ==
    ASSUME NEW m \in Messages, NEW v
    PROVE  Occ(<<m>>, v) = One(m, v)
<1> DEFINE e == <<>>
<1>1. e \in Prompts /\ Append(e, m) = <<m>> /\ Occ(e, v) = 0
    BY OccEmpty DEF Prompts
<1> HIDE DEF e
<1>2. Occ(Append(e, m), v) = Occ(e, v) + One(m, v)
    BY <1>1, OccAppend
<1> QED BY <1>1, <1>2 DEF One

\* One sequence after the other.
LEMMA OccConcat ==
    ASSUME NEW f \in Prompts, NEW g \in Prompts, NEW v
    PROVE  Occ(f \o g, v) = Occ(f, v) + Occ(g, v)
<1> DEFINE c == f \o g
           m == Len(f)
           n == Len(g)
           C == {k \in DOMAIN c : c[k] = v}
           F == {k \in DOMAIN f : f[k] = v}
           G == {k \in DOMAIN g : g[k] = v}
           H == C \ F
           h == [k \in G |-> k + m]
<1>1. /\ m \in Nat /\ n \in Nat /\ DOMAIN f = 1 .. m /\ DOMAIN g = 1 .. n
      /\ f \in Seq(Messages) /\ g \in Seq(Messages)
    BY LenProperties DEF Prompts
<1>2. /\ c \in Seq(Messages) /\ Len(c) = m + n
      /\ \A k \in 1 .. m + n : c[k] = IF k <= m THEN f[k] ELSE g[k - m]
    BY <1>1, ConcatProperties
<1>3. DOMAIN c = 1 .. m + n /\ m + n \in Nat
    BY <1>1, <1>2, LenProperties
<1> HIDE DEF c, m, n
<1>4. IsFiniteSet(C) /\ IsFiniteSet(F) /\ IsFiniteSet(G)
    BY <1>1, <1>3, OccNat
<1>5. F \subseteq C /\ \A k \in F : k <= m
    BY <1>1, <1>2, <1>3
<1>6. \A k \in H : k \in 1 .. m + n /\ c[k] = v /\ k > m
    BY <1>1, <1>2, <1>3
<1>7. h \in Bijection(G, H)
    <2>1. \A k \in G : h[k] \in H
        <3> SUFFICES ASSUME NEW k \in G PROVE k + m \in C /\ k + m \notin F
            OBVIOUS
        <3>1. k \in 1 .. n /\ g[k] = v
            BY <1>1
        <3>2. k + m \in 1 .. m + n /\ ~(k + m <= m) /\ (k + m) - m = k
            BY <1>1, <3>1
        <3> QED BY <1>2, <1>3, <1>5, <3>1, <3>2
    <2>2. \A k, l \in G : h[k] = h[l] => k = l
        BY <1>1
    <2>3. ASSUME NEW j \in H PROVE \E k \in G : h[k] = j
        <3>1. j - m \in 1 .. n /\ (j - m) + m = j /\ ~(j <= m) /\ j \in 1 .. m + n /\ c[j] = v
            BY <1>1, <1>6
        <3>2. j - m \in G
            BY <1>1, <1>2, <3>1
        <3> QED BY <3>1, <3>2
    <2>4. h \in [G -> H]
        BY <2>1
    <2> HIDE DEF h, G, H
    <2> QED BY <2>2, <2>3, <2>4, Fun_IsInj, Fun_IsSurj DEF Bijection
<1>8. IsFiniteSet(H) /\ Cardinality(H) = Cardinality(G)
    <2> HIDE DEF h, G, H
    <2> QED BY <1>4, <1>7, FS_Bijection DEF ExistsBijection
<1>9. F \cap H = {} /\ F \cup H = C
    BY <1>5
<1> HIDE DEF C, F, G, H
<1>10. Cardinality(C) = Cardinality(F) + Cardinality(H)
    <2> DEFINE U == F \cup H
               I == F \cap H
    <2>3. Cardinality(U) = Cardinality(F) + Cardinality(H) - Cardinality(I)
        BY <1>4, <1>8, FS_Union
    <2>4. U = C /\ I = {}
        BY <1>9
    <2> HIDE DEF U, I
    <2>1. Cardinality(C) = Cardinality(F) + Cardinality(H) - Cardinality({})
        BY <2>3, <2>4
    <2>2. Cardinality(F) \in Nat /\ Cardinality(H) \in Nat /\ Cardinality({}) = 0
        BY <1>4, <1>8, FS_CardinalityType, FS_EmptySet
    <2> QED BY <2>1, <2>2
<1> QED BY <1>8, <1>10 DEF Occ, C, F, G, c

\* How often v waits in a queue.
Waits(q, v) == Occ(Msgs(q), v)

\* A queue is counted by a natural number.
LEMMA WaitsNat ==
    ASSUME NEW q \in Seq(QueuedType), NEW v
    PROVE  Waits(q, v) \in Nat
<1>1. Len(q) \in Nat /\ DOMAIN Msgs(q) = 1 .. Len(q)
    BY LenProperties DEF Msgs
<1> QED BY <1>1, OccNat DEF Waits

\* A message that leaves the queue is counted there once less.
LEMMA WaitsRemove ==
    ASSUME NEW q \in Seq(QueuedType), NEW i \in DOMAIN q, NEW v
    PROVE  /\ Waits(RemoveAt(q, i), v) \in Nat
           /\ Waits(q, v) = Waits(RemoveAt(q, i), v) + One(q[i].msg, v)
<1> DEFINE r == RemoveAt(q, i)
           n == Len(q) - 1
           f == Msgs(q)
           g == Msgs(r)
<1>1. Len(q) \in Nat /\ DOMAIN q = 1 .. Len(q)
    BY LenProperties
<1>2. n \in Nat /\ Len(q) = n + 1 /\ i \in 1 .. n + 1 /\ i \in Nat
    BY <1>1
<1>3. r \in Seq(QueuedType) /\ Len(r) = n /\ \A k \in 1 .. n : r[k] = IF k < i THEN q[k] ELSE q[k + 1]
    BY RemoveAtElements
<1> HIDE DEF r, n
<1>4. DOMAIN f = 1 .. n + 1 /\ DOMAIN g = 1 .. n /\ f[i] = q[i].msg
    BY <1>1, <1>2, <1>3, LenProperties DEF Msgs
<1>5. \A k \in 1 .. n + 1 : f[k] = q[k].msg
    BY <1>1, <1>2 DEF Msgs
<1>6. \A k \in 1 .. n : g[k] = r[k].msg
    BY <1>3, LenProperties DEF Msgs
<1>7. \A k \in 1 .. n : g[k] = IF k < i THEN f[k] ELSE f[k + 1]
    BY <1>2, <1>3, <1>5, <1>6
<1> HIDE DEF f, g
<1>8. n \in Nat /\ i \in Nat /\ i \in 1 .. n + 1
    BY <1>2
<1>9. OneLess(f, g, i, n)
    BY <1>4, <1>7, <1>8 DEF OneLess
<1>10. Occ(g, v) \in Nat /\ Occ(f, v) = Occ(g, v) + One(f[i], v)
    BY <1>9, OccOneLess
<1> QED BY <1>4, <1>10 DEF Waits, f, g, r

\* A message that enters the queue is counted there once more.
LEMMA WaitsInsert ==
    ASSUME NEW q \in Seq(QueuedType), NEW i \in 1 .. Len(q) + 1, NEW x \in QueuedType, NEW v
    PROVE  Waits(InsertAt(q, i, x), v) = Waits(q, v) + One(x.msg, v)
<1> DEFINE r == InsertAt(q, i, x)
           n == Len(q)
           f == Msgs(r)
           g == Msgs(q)
<1>1. n \in Nat /\ DOMAIN q = 1 .. n /\ i \in Nat
    BY LenProperties
<1>2. r \in Seq(QueuedType) /\ Len(r) = n + 1
      /\ \A k \in 1 .. n + 1 : r[k] = IF k < i THEN q[k] ELSE IF k = i THEN x ELSE q[k - 1]
    BY InsertAtElements, ZenonT(40)
<1> HIDE DEF r, n
<1>3. DOMAIN f = 1 .. n + 1 /\ DOMAIN g = 1 .. n
    BY <1>1, <1>2, LenProperties DEF Msgs
<1>4. \A k \in 1 .. n + 1 : f[k] = r[k].msg
    BY <1>2, LenProperties DEF Msgs
<1>5. \A k \in 1 .. n : g[k] = q[k].msg
    BY <1>1 DEF Msgs
<1>6. i \in 1 .. n + 1
    BY DEF n
<1>7. f[i] = x.msg
    BY <1>1, <1>2, <1>4, <1>6
<1>8. ASSUME NEW k \in 1 .. n PROVE g[k] = IF k < i THEN f[k] ELSE f[k + 1]
    <2>1. CASE k < i
        BY <1>1, <1>2, <1>4, <1>5, <2>1
    <2>2. CASE ~(k < i)
        <3>1. k + 1 \in 1 .. n + 1 /\ ~(k + 1 < i) /\ k + 1 # i /\ (k + 1) - 1 = k
            BY <1>1, <2>2
        <3>2. r[k + 1] = q[k]
            BY <1>2, <3>1
        <3> QED BY <1>4, <1>5, <2>2, <3>1, <3>2
    <2> QED BY <2>1, <2>2
<1> HIDE DEF f, g
<1>10. OneLess(f, g, i, n)
    BY <1>1, <1>3, <1>6, <1>8 DEF OneLess
<1>9. Occ(f, v) = Occ(g, v) + One(f[i], v)
    BY <1>10, OccOneLess
<1> QED BY <1>7, <1>9 DEF Waits, f, g, r

\* A new text for a queued message is one more of the new one, at most.
LEMMA WaitsReplace ==
    ASSUME NEW q \in Seq(QueuedType), NEW i \in DOMAIN q, NEW m \in Messages, NEW v
    PROVE  Waits([q EXCEPT ![i].msg = m], v) <= Waits(q, v) + One(m, v)
<1> DEFINE r == RemoveAt(q, i)
           n == Len(q) - 1
           u == [q EXCEPT ![i].msg = m]
           f == Msgs(u)
           g == Msgs(r)
<1>1. Len(q) \in Nat /\ DOMAIN q = 1 .. Len(q) /\ \A k \in 1 .. Len(q) : q[k] \in QueuedType
    BY LenProperties, ElementOfSeq
<1>2. n \in Nat /\ Len(q) = n + 1 /\ i \in 1 .. n + 1 /\ i \in Nat
    BY <1>1
<1>3. r \in Seq(QueuedType) /\ Len(r) = n /\ \A k \in 1 .. n : r[k] = IF k < i THEN q[k] ELSE q[k + 1]
    BY RemoveAtElements
<1>4. /\ DOMAIN u = 1 .. n + 1 /\ u[i].msg = m
      /\ \A k \in 1 .. n + 1 : k # i => u[k] = q[k]
    BY <1>1, <1>2 DEF QueuedType
<1> HIDE DEF r, n, u
<1>5. DOMAIN f = 1 .. n + 1 /\ DOMAIN g = 1 .. n /\ f[i] = m
    BY <1>2, <1>3, <1>4, LenProperties DEF Msgs
<1>6. \A k \in 1 .. n + 1 : k # i => f[k] = q[k].msg
    BY <1>4 DEF Msgs
<1>7. \A k \in 1 .. n : g[k] = r[k].msg
    BY <1>3, LenProperties DEF Msgs
<1>8. \A k \in 1 .. n : g[k] = IF k < i THEN f[k] ELSE f[k + 1]
    BY <1>2, <1>3, <1>6, <1>7
<1> HIDE DEF f, g
<1>13. n \in Nat /\ i \in Nat /\ i \in 1 .. n + 1
    BY <1>2
<1>14. OneLess(f, g, i, n)
    BY <1>5, <1>8, <1>13 DEF OneLess
<1>9. Occ(g, v) \in Nat /\ Occ(f, v) = Occ(g, v) + One(f[i], v)
    BY <1>14, OccOneLess
<1>10. Waits(q, v) = Occ(g, v) + One(q[i].msg, v)
    BY WaitsRemove DEF Waits, g, r
<1>11. Occ(f, v) = Occ(g, v) + One(m, v)
    BY <1>5, <1>9
<1>12. One(m, v) \in Nat /\ One(q[i].msg, v) \in Nat
    BY DEF One
<1> QED BY <1>9, <1>10, <1>11, <1>12 DEF Waits, f, u

\* A message enters the queue at its end or at its front.
LEMMA WaitsEnds ==
    ASSUME NEW q \in Seq(QueuedType), NEW x \in QueuedType, NEW v
    PROVE  /\ Waits(Append(q, x), v) = Waits(q, v) + One(x.msg, v)
           /\ Waits(<<x>> \o q, v) = Waits(q, v) + One(x.msg, v)
<1>1. 1 \in 1 .. Len(q) + 1 /\ Len(q) + 1 \in 1 .. Len(q) + 1
    BY LenProperties
<1>2. /\ Waits(InsertAt(q, Len(q) + 1, x), v) = Waits(q, v) + One(x.msg, v)
      /\ Waits(InsertAt(q, 1, x), v) = Waits(q, v) + One(x.msg, v)
    BY <1>1, WaitsInsert
<1> QED BY <1>2, InsertEnds

\* move_queued takes a message out and puts it back.
LEMMA WaitsMove ==
    ASSUME NEW q \in Seq(QueuedType), NEW i \in DOMAIN q, NEW to \in Nat, NEW v
    PROVE  LET rest == RemoveAt(q, i)
               at   == IF to <= Len(rest) THEN to ELSE Len(rest)
           IN  Waits(InsertAt(rest, at + 1, q[i]), v) = Waits(q, v)
<1> DEFINE rest == RemoveAt(q, i)
           at   == IF to <= Len(rest) THEN to ELSE Len(rest)
<1>1. rest \in Seq(QueuedType) /\ q[i] \in QueuedType
    BY RemoveAtType, LenProperties, ElementOfSeq
<1>2. Waits(q, v) = Waits(rest, v) + One(q[i].msg, v)
    BY WaitsRemove
<1>3. at + 1 \in 1 .. Len(rest) + 1
    <2> HIDE DEF rest
    <2> QED BY <1>1, LenProperties
<1> HIDE DEF rest, at
<1>4. Waits(InsertAt(rest, at + 1, q[i]), v) = Waits(rest, v) + One(q[i].msg, v)
    BY <1>1, <1>3, WaitsInsert
<1> QED BY <1>2, <1>4 DEF rest, at

-----------------------------------------------------------------------------
(* No method of the session makes a second copy of a message.               *)

\* How often v waits in the queue or is on its way to an agent.
Copies(s, v) ==
    Waits(s.queue, v) + Occ(s.pending, v) + Occ(s.run.prompt, v) + Occ(s.run.inbox, v)

\* A fork may hand out a second copy once its native session is not to be had.
Limit(s) == IF Forked /\ ~s.forkSource THEN 2 ELSE 1

\* The session and n copies of v elsewhere stay within the limit, and the prompt kept
\* for a fork's fallback, which will be handed out again, has each message once.
Once(s, v, n) ==
    /\ Copies(s, v) + n <= Limit(s)
    /\ s.forkSource => Occ(s.forkPrompt, v) <= 1
    /\ ~s.forkSource => s.forkPrompt = <<>>

\* The parts Once reads.
LEMMA PartTypes ==
    ASSUME NEW s \in SessionType
    PROVE  /\ s.queue \in Seq(QueuedType) /\ s.pending \in Prompts /\ s.forkPrompt \in Prompts
           /\ s.run.prompt \in Prompts /\ s.run.inbox \in Prompts /\ s.run \in RunType
           /\ s.forkSource \in BOOLEAN
BY DEF SessionType, RunType

\* The parts are counted by natural numbers.
LEMMA PartCounts ==
    ASSUME NEW s \in SessionType, NEW v
    PROVE  /\ Waits(s.queue, v) \in Nat /\ Occ(s.pending, v) \in Nat /\ Occ(s.forkPrompt, v) \in Nat
           /\ Occ(s.run.prompt, v) \in Nat /\ Occ(s.run.inbox, v) \in Nat
           /\ Copies(s, v) \in Nat /\ Limit(s) \in {1, 2}
<1>1. \A f \in Prompts : Occ(f, v) \in Nat
    <2> TAKE f \in Prompts
    <2>1. f \in Seq(Messages) /\ Len(f) \in Nat /\ DOMAIN f = 1 .. Len(f)
        BY LenProperties DEF Prompts
    <2> QED BY <2>1, OccNat
<1>2. Waits(s.queue, v) \in Nat
    BY PartTypes, WaitsNat
<1> QED BY <1>1, <1>2, PartTypes DEF Copies, Limit

\* One is a number a decision procedure knows.
LEMMA OneNat == \A m, v : One(m, v) \in {0, 1}
BY DEF One

\* Once of a session with fewer copies.
LEMMA OnceFewer ==
    ASSUME NEW s \in SessionType, NEW t \in SessionType, NEW v, NEW n \in Nat, NEW k \in Nat,
           t.forkSource = s.forkSource, t.forkPrompt = s.forkPrompt,
           Copies(t, v) + k <= Copies(s, v) + n, Once(s, v, n)
    PROVE  Once(t, v, k)
<1>1. Copies(t, v) \in Nat /\ Copies(s, v) \in Nat /\ Limit(s) \in Nat /\ Limit(t) = Limit(s)
    BY PartCounts DEF Limit
<1> QED BY <1>1 DEF Once

\* Once depends on nothing but these fields.
SameParts(s, t) ==
    /\ t.queue = s.queue /\ t.pending = s.pending
    /\ t.run.prompt = s.run.prompt /\ t.run.inbox = s.run.inbox
    /\ t.forkSource = s.forkSource /\ t.forkPrompt = s.forkPrompt

\* SameParts is enough for Once.
LEMMA SamePartsOnce ==
    ASSUME NEW s, NEW t, SameParts(s, t), NEW v, NEW n, Once(s, v, n)
    PROVE  Once(t, v, n)
BY DEF SameParts, Once, Copies, Limit

\* queue_message and the requeue of deliver: the message in hand enters the queue.
LEMMA EnqueueOnce ==
    ASSUME NEW s \in SessionType, NEW m \in Messages, NEW v, NEW n \in Nat,
           Once(s, v, n + One(m, v))
    PROVE  Once(Enqueue(s, m), v, n) /\ Once(Requeue(s, m), v, n)
<1> DEFINE x == [id |-> s.nextId + 1, msg |-> m]
<1>1. x \in QueuedType /\ x.msg = m
    BY QueuedTypeNew
<1>2. /\ Enqueue(s, m).queue = Append(s.queue, x) /\ Requeue(s, m).queue = <<x>> \o s.queue
    BY DEF Enqueue, Requeue, SessionType
<1>3. ASSUME NEW t \in {Enqueue(s, m), Requeue(s, m)}
      PROVE  /\ t \in SessionType /\ t.pending = s.pending /\ t.run = s.run
             /\ t.forkSource = s.forkSource /\ t.forkPrompt = s.forkPrompt
    <2>1. Enqueue(s, m) \in SessionType /\ Requeue(s, m) \in SessionType
        BY EnqueueType, RequeueType
    <2>2. /\ Enqueue(s, m).pending = s.pending /\ Enqueue(s, m).run = s.run
          /\ Enqueue(s, m).forkSource = s.forkSource /\ Enqueue(s, m).forkPrompt = s.forkPrompt
        BY DEF Enqueue, SessionType
    <2>3. /\ Requeue(s, m).pending = s.pending /\ Requeue(s, m).run = s.run
          /\ Requeue(s, m).forkSource = s.forkSource /\ Requeue(s, m).forkPrompt = s.forkPrompt
        BY DEF Requeue, SessionType
    <2> QED BY <2>1, <2>2, <2>3
<1> HIDE DEF x
<1>4. ASSUME NEW t \in {Enqueue(s, m), Requeue(s, m)} PROVE Once(t, v, n)
    <2>1. Waits(t.queue, v) = Waits(s.queue, v) + One(m, v)
        BY <1>1, <1>2, PartTypes, WaitsEnds
    <2>2. Copies(t, v) + n = Copies(s, v) + (n + One(m, v))
        BY <1>3, <2>1, PartCounts, OneNat DEF Copies
    <2>3. n + One(m, v) \in Nat
        BY OneNat
    <2>4. Copies(t, v) + n <= Copies(s, v) + (n + One(m, v))
        BY <1>3, <2>2, <2>3, PartCounts
    <2> QED BY <1>3, <2>3, <2>4, OnceFewer
<1> QED BY <1>4

\* StartRun hands out the prompt, and keeps it for a fork's fallback.
LEMMA StartRunOnce ==
    ASSUME NEW s \in SessionType, NEW p \in Prompts, NEW v, NEW n \in Nat,
           Once(s, v, n + Occ(p, v))
    PROVE  Once(StartRun(s, p), v, n)
<1> DEFINE t == StartRun(s, p)
<1>1. /\ t.queue = s.queue /\ t.pending = s.pending /\ t.forkSource = s.forkSource
      /\ t.forkPrompt = IF ~s.nativeId /\ s.forkSource THEN p ELSE <<>>
      /\ t.run.prompt = p /\ t.run.inbox = <<>>
    BY DEF StartRun, NewRun, RunIn, SessionType
<1> HIDE DEF t
<1>2. Occ(p, v) \in Nat /\ Occ(<<>>, v) = 0
    BY OccEmpty, PromptNat
<1>3. Copies(t, v) = Waits(s.queue, v) + Occ(s.pending, v) + Occ(p, v)
    BY <1>1, <1>2, PartCounts DEF Copies
<1>4. Copies(t, v) + n <= Copies(s, v) + (n + Occ(p, v))
    <2>1. /\ Waits(s.queue, v) \in Nat /\ Occ(s.pending, v) \in Nat
          /\ Occ(s.run.prompt, v) \in Nat /\ Occ(s.run.inbox, v) \in Nat
        BY PartCounts
    <2>2. Copies(s, v) = Waits(s.queue, v) + Occ(s.pending, v) + Occ(s.run.prompt, v) + Occ(s.run.inbox, v)
        BY DEF Copies
    <2> QED BY <1>2, <1>3, <2>1, <2>2
<1>5. Limit(t) = Limit(s)
    BY <1>1 DEF Limit
<1>6. Copies(t, v) + n <= Limit(t)
    <2>2. Waits(s.queue, v) \in Nat /\ Occ(s.pending, v) \in Nat
        BY PartCounts
    <2>1. Copies(t, v) \in Nat
        BY <1>2, <1>3, <2>2
    <2> QED BY <1>2, <1>4, <1>5, <2>1, PartCounts DEF Once
<1>7. s.forkSource => Occ(p, v) <= 1
    <2>1. s.forkSource => Limit(s) = 1
        BY DEF Limit
    <2> QED BY <1>2, <2>1, PartCounts DEF Once
<1>8. t.forkSource => Occ(t.forkPrompt, v) <= 1
    BY <1>1, <1>2, <1>7
<1> QED BY <1>1, <1>6, <1>8 DEF Once, t

\* deliver, after its early return: the message goes behind the stop, into the
\* steering channel or to a new run.
LEMMA DispatchOnce ==
    ASSUME NEW s \in SessionType, NEW m \in Messages, NEW v, NEW n \in Nat,
           Once(s, v, n + One(m, v))
    PROVE  Once(Dispatch(s, m), v, n)
<1> DEFINE u == PushUser(s, m)
           h == (u.restart /\ s.working)
           r == IF s.restart /\ ~s.working THEN NoRun ELSE s.run
           t == [PushUser(s, m) EXCEPT !.userStopped = FALSE,
                                       !.working = TRUE,
                                       !.restart = @ /\ s.working,
                                       !.run = IF s.restart /\ ~s.working THEN NoRun ELSE @]
           a == [t EXCEPT !.pending = Merge(@, m)]
           b == [t EXCEPT !.run.inbox = Append(@, m)]
<1>2. /\ u \in SessionType /\ u.queue = s.queue /\ u.pending = s.pending /\ u.run = s.run
      /\ u.forkSource = s.forkSource /\ u.forkPrompt = s.forkPrompt
    BY PushUserType DEF PushUser, SessionType
<1>1. Dispatch(s, m) = IF t.run.stopping THEN a ELSE IF CanPush(t.run) THEN b ELSE StartRun(t, <<m>>)
    BY DEF Dispatch
<1>9. t = [u EXCEPT !.userStopped = FALSE, !.working = TRUE, !.restart = h, !.run = r]
    BY <1>2 DEF SessionType
<1>10. h \in BOOLEAN /\ r \in RunType /\ (r = NoRun \/ r = s.run)
    BY PartTypes, NoRunType
<1> HIDE DEF u, h, r, t
<1>3. /\ t \in SessionType /\ t.queue = s.queue /\ t.pending = s.pending
      /\ t.forkSource = s.forkSource /\ t.forkPrompt = s.forkPrompt
      /\ t.run = NoRun \/ t.run = s.run
    BY <1>2, <1>9, <1>10 DEF SessionType
<1>4. n + One(m, v) \in Nat
    BY OneNat
<1>5. Once(t, v, n + One(m, v))
    <2>1. Occ(t.run.prompt, v) <= Occ(s.run.prompt, v) /\ Occ(t.run.inbox, v) <= Occ(s.run.inbox, v)
        <3>1. NoRun.prompt = <<>> /\ NoRun.inbox = <<>>
            BY DEF NoRun, RunIn
        <3>2. Occ(s.run.prompt, v) \in Nat /\ Occ(s.run.inbox, v) \in Nat
            BY PartCounts
        <3> QED BY <1>3, <3>1, <3>2, OccEmpty
    <2>2. Copies(t, v) <= Copies(s, v)
        BY <1>3, <2>1, PartCounts DEF Copies
    <2>3. Copies(t, v) + (n + One(m, v)) <= Copies(s, v) + (n + One(m, v))
        BY <1>3, <1>4, <2>2, PartCounts
    <2> QED BY <1>3, <1>4, <2>3, OnceFewer
<1>6. ASSUME t.run.stopping PROVE Once(a, v, n)
    <2>1. Append(t.pending, m) \in Prompts /\ Occ(Append(t.pending, m), v) = Occ(t.pending, v) + One(m, v)
        BY <1>3, PartTypes, OccAppend
    <2>2. /\ a \in SessionType /\ a.queue = t.queue /\ a.run = t.run /\ a.pending = Append(t.pending, m)
          /\ a.forkSource = t.forkSource /\ a.forkPrompt = t.forkPrompt
        BY <1>3, <2>1 DEF Merge, SessionType
    <2> HIDE DEF a
    <2>3. Copies(a, v) + n = Copies(t, v) + (n + One(m, v))
        <3>1. Copies(a, v) = Waits(t.queue, v) + (Occ(t.pending, v) + One(m, v))
                               + Occ(t.run.prompt, v) + Occ(t.run.inbox, v)
            BY <2>1, <2>2 DEF Copies
        <3> QED BY <1>3, <3>1, PartCounts, OneNat DEF Copies
    <2>4. Copies(a, v) + n <= Copies(t, v) + (n + One(m, v))
        BY <1>3, <1>4, <2>3, PartCounts
    <2> QED BY <1>3, <1>4, <1>5, <2>2, <2>4, OnceFewer
<1>7. ASSUME CanPush(t.run) PROVE Once(b, v, n)
    <2>1. Append(t.run.inbox, m) \in Prompts /\ Occ(Append(t.run.inbox, m), v) = Occ(t.run.inbox, v) + One(m, v)
        BY <1>3, PartTypes, OccAppend
    <2>2. [t.run EXCEPT !.inbox = Append(@, m)] \in RunType
        BY <1>3, <2>1, PartTypes DEF RunType
    <2>3. b = [t EXCEPT !.run = [t.run EXCEPT !.inbox = Append(@, m)]]
        BY <1>3 DEF SessionType
    <2>4. /\ b.queue = t.queue /\ b.pending = t.pending
          /\ b.run.prompt = t.run.prompt /\ b.run.inbox = Append(t.run.inbox, m)
          /\ b.forkSource = t.forkSource /\ b.forkPrompt = t.forkPrompt
        BY <1>3, <2>3, PartTypes DEF SessionType, RunType
    <2>5. b \in SessionType
        BY <1>3, <2>2, <2>3 DEF SessionType
    <2> HIDE DEF b
    <2>6. Copies(b, v) + n = Copies(t, v) + (n + One(m, v))
        <3>1. Copies(b, v) = Waits(t.queue, v) + Occ(t.pending, v)
                               + Occ(t.run.prompt, v) + (Occ(t.run.inbox, v) + One(m, v))
            BY <2>1, <2>4 DEF Copies
        <3> QED BY <1>3, <3>1, PartCounts, OneNat DEF Copies
    <2>7. Copies(b, v) + n <= Copies(t, v) + (n + One(m, v))
        BY <1>3, <1>4, <2>6, PartCounts
    <2> QED BY <1>3, <1>4, <1>5, <2>4, <2>5, <2>7, OnceFewer
<1>8. Once(StartRun(t, <<m>>), v, n)
    <2>1. <<m>> \in Prompts /\ Occ(<<m>>, v) = One(m, v)
        BY OccSingle DEF Prompts
    <2> QED BY <1>3, <1>5, <2>1, StartRunOnce
<1> HIDE DEF a, b
<1> QED BY <1>1, <1>6, <1>7, <1>8

\* deliver.
LEMMA DeliverOnce ==
    ASSUME NEW s \in SessionType, NEW m \in Messages, NEW v, NEW n \in Nat,
           Once(s, v, n + One(m, v))
    PROVE  Once(Deliver(s, m), v, n)
BY EnqueueOnce, DispatchOnce DEF Deliver

\* A message taken from the queue is in hand.
LEMMA TakenOnce ==
    ASSUME NEW s \in SessionType, NEW i \in DOMAIN s.queue, NEW t \in SessionType,
           t.queue = RemoveAt(s.queue, i), t.pending = s.pending, t.run = s.run,
           t.forkSource = s.forkSource, t.forkPrompt = s.forkPrompt,
           NEW v, NEW n \in Nat, Once(s, v, n)
    PROVE  Once(t, v, n + One(s.queue[i].msg, v))
<1>1. Waits(s.queue, v) = Waits(t.queue, v) + One(s.queue[i].msg, v)
    BY PartTypes, WaitsRemove
<1>2. Copies(t, v) + (n + One(s.queue[i].msg, v)) = Copies(s, v) + n
    <2>1. Copies(s, v) = (Waits(t.queue, v) + One(s.queue[i].msg, v)) + Occ(t.pending, v)
                           + Occ(t.run.prompt, v) + Occ(t.run.inbox, v)
        BY <1>1 DEF Copies
    <2> QED BY <2>1, PartCounts, OneNat DEF Copies
<1>3. n + One(s.queue[i].msg, v) \in Nat /\ Copies(s, v) + n \in Nat
    BY OneNat, PartCounts
<1>4. Copies(t, v) + (n + One(s.queue[i].msg, v)) <= Copies(s, v) + n
    BY <1>2, <1>3
<1> QED BY <1>3, <1>4, OnceFewer

\* take_next_queued and deliver.
LEMMA DeliverNextOnce ==
    ASSUME NEW s \in SessionType, Sendable(s) # {}, NEW v, NEW n \in Nat, Once(s, v, n)
    PROVE  Once(DeliverNext(s), v, n)
<1> DEFINE i == FirstSendable(s)
           t == [s EXCEPT !.queue = RemoveAt(@, i)]
<1>1. i \in DOMAIN s.queue
    BY FirstSendableExists DEF Sendable
<1>2. s.queue[i].msg \in Messages /\ t \in SessionType
    BY <1>1, QueueItem, DropQueuedType
<1>3. /\ t.queue = RemoveAt(s.queue, i) /\ t.pending = s.pending /\ t.run = s.run
      /\ t.forkSource = s.forkSource /\ t.forkPrompt = s.forkPrompt
    BY DEF SessionType
<1>4. DeliverNext(s) = Deliver(t, s.queue[i].msg)
    BY DEF DeliverNext
<1> HIDE DEF i, t
<1>5. Once(t, v, n + One(s.queue[i].msg, v))
    BY <1>1, <1>2, <1>3, TakenOnce
<1> QED BY <1>2, <1>4, <1>5, DeliverOnce

\* send_next_queued.
LEMMA SendNextQueuedOnce ==
    ASSUME NEW s \in SessionType, NEW v, NEW n \in Nat, Once(s, v, n)
    PROVE  Once(SendNextQueued(s), v, n)
BY DeliverNextOnce DEF SendNextQueued

\* send_message.
LEMMA SendMessageOnce ==
    ASSUME NEW s \in SessionType, NEW m \in Messages, NEW steer, NEW v, NEW n \in Nat,
           Once(s, v, n + One(m, v))
    PROVE  Once(SendMessage(s, m, steer), v, n)
<1>1. Enqueue(s, m) \in SessionType /\ Once(Enqueue(s, m), v, n)
    BY EnqueueType, EnqueueOnce
<1> QED BY <1>1, EnqueueSendable, DeliverOnce, DeliverNextOnce DEF SendMessage

\* The native fork failed: what it was given goes out a second time, and never a third.
LEMMA ForkFallbackOnce ==
    ASSUME NEW s \in SessionType, s.forkPrompt # <<>>, ~Forked => ~s.forkSource,
           NEW v, NEW n \in Nat, Once(s, v, n)
    PROVE  Once(ForkFallback(s), v, n)
<1> DEFINE t == [s EXCEPT !.forkSource = FALSE, !.working = TRUE]
           u == StartRun(t, s.forkPrompt)
<1>1. s.forkSource /\ Forked /\ Occ(s.forkPrompt, v) <= 1 /\ Copies(s, v) + n <= 1
    BY DEF Once, Limit
<1>2. u.queue = s.queue /\ u.pending = s.pending /\ u.run = NewRun(s.forkPrompt)
      /\ u.forkSource = FALSE /\ u.forkPrompt = <<>>
    BY DEF StartRun, SessionType
<1>3. ForkFallback(s) = u
    BY DEF ForkFallback
<1> HIDE DEF t, u
<1>4. u.run.prompt = s.forkPrompt /\ u.run.inbox = <<>>
    BY <1>2 DEF NewRun, RunIn
<1>5. Copies(u, v) = Waits(s.queue, v) + Occ(s.pending, v) + Occ(s.forkPrompt, v) + 0
    BY <1>2, <1>4, OccEmpty DEF Copies
<1>6. Waits(s.queue, v) + Occ(s.pending, v) <= Copies(s, v)
    <2>1. /\ Waits(s.queue, v) \in Nat /\ Occ(s.pending, v) \in Nat
          /\ Occ(s.run.prompt, v) \in Nat /\ Occ(s.run.inbox, v) \in Nat
        BY PartCounts
    <2> QED BY <2>1 DEF Copies
<1>7. Copies(u, v) + n <= 2
    BY <1>1, <1>5, <1>6, PartCounts
<1>8. Limit(u) = 2
    BY <1>1, <1>2 DEF Limit
<1> QED BY <1>2, <1>3, <1>7, <1>8 DEF Once

\* run_ended.
LEMMA RunEndedOnce ==
    ASSUME NEW s \in SessionType, ~Forked => ~s.forkSource, NEW v, NEW n \in Nat, Once(s, v, n)
    PROVE  Once(RunEnded(s), v, n)
<1> DEFINE e == [s EXCEPT !.run = NoRun, !.forkFailed = FALSE]
           d == [e EXCEPT !.pending = <<>>, !.working = TRUE]
           i == Idle(e)
<1>1. <<>> \in Prompts
    BY DEF Prompts
<1>2. /\ e \in SessionType /\ e.queue = s.queue /\ e.pending = s.pending /\ e.run = NoRun
      /\ e.forkSource = s.forkSource /\ e.forkPrompt = s.forkPrompt
    BY NoRunType DEF SessionType
<1>3. RunEnded(s) = IF s.forkFailed /\ s.forkPrompt # <<>> /\ ~s.deleted THEN ForkFallback(e)
                    ELSE IF s.pending # <<>> /\ ~s.deleted THEN StartPending(e)
                    ELSE IF s.userStopped THEN i
                    ELSE SendNextQueued(i)
    BY DEF RunEnded
<1>4. StartPending(e) = StartRun(d, e.pending)
    BY DEF StartPending
<1> HIDE DEF e
<1>5. /\ d \in SessionType /\ d.queue = e.queue /\ d.pending = <<>> /\ d.run = e.run
      /\ d.forkSource = e.forkSource /\ d.forkPrompt = e.forkPrompt
    BY <1>1, <1>2 DEF SessionType
<1>6. /\ i \in SessionType /\ i.queue = e.queue /\ i.pending = <<>> /\ i.run = e.run
      /\ i.forkSource = e.forkSource /\ i.forkPrompt = e.forkPrompt
    BY <1>1, <1>2 DEF Idle, SessionType
<1> HIDE DEF d, i
<1>7. Copies(e, v) = Waits(s.queue, v) + Occ(s.pending, v)
    <2>1. e.run.prompt = <<>> /\ e.run.inbox = <<>>
        BY <1>2 DEF NoRun, RunIn
    <2>2. Copies(e, v) = Waits(s.queue, v) + Occ(s.pending, v) + 0 + 0
        BY <1>2, <2>1, OccEmpty DEF Copies
    <2> QED BY <2>2, PartCounts
<1>8. Once(e, v, n)
    <2>1. Copies(e, v) + n <= Copies(s, v) + n
        BY <1>7, PartCounts DEF Copies
    <2> QED BY <1>2, <2>1, OnceFewer
<1>9. /\ Copies(d, v) = Waits(s.queue, v) /\ Copies(i, v) = Waits(s.queue, v)
    <2>1. d.run.prompt = <<>> /\ d.run.inbox = <<>> /\ i.run.prompt = <<>> /\ i.run.inbox = <<>>
        BY <1>2, <1>5, <1>6 DEF NoRun, RunIn
    <2>2. /\ Copies(d, v) = Waits(s.queue, v) + 0 + 0 + 0
          /\ Copies(i, v) = Waits(s.queue, v) + 0 + 0 + 0
        BY <1>2, <1>5, <1>6, <2>1, OccEmpty DEF Copies
    <2> QED BY <2>2, PartCounts
<1>10. Occ(s.pending, v) \in Nat /\ n + Occ(s.pending, v) \in Nat /\ Waits(s.queue, v) \in Nat
    BY PartCounts
<1>11. Once(i, v, n)
    <2>1. Copies(i, v) + n <= Copies(e, v) + n
        BY <1>7, <1>9, <1>10
    <2> QED BY <1>2, <1>6, <1>8, <2>1, OnceFewer
<1>12. Once(StartPending(e), v, n)
    <2>1. Copies(d, v) + (n + Occ(s.pending, v)) <= Copies(e, v) + n
        BY <1>7, <1>9, <1>10
    <2>2. Once(d, v, n + Occ(s.pending, v))
        BY <1>2, <1>5, <1>8, <1>10, <2>1, OnceFewer
    <2> QED BY <1>2, <1>4, <1>5, <2>2, PartTypes, StartRunOnce
<1>13. s.forkPrompt # <<>> => Once(ForkFallback(e), v, n)
    BY <1>2, <1>8, ForkFallbackOnce
<1> QED BY <1>3, <1>6, <1>11, <1>12, <1>13, SendNextQueuedOnce

\* What the events of a run write to the transcript.
LEMMA TranscriptOnce ==
    ASSUME NEW s \in SessionType, NEW isError
    PROVE  SameParts(s, PushEntry(s, isError)) /\ SameParts(s, MarkUndelivered(s))
BY DEF PushEntry, MarkUndelivered, SameParts, SessionType

\* fail_run.
LEMMA FailRunOnce ==
    ASSUME NEW s \in SessionType, ~Forked => ~s.forkSource, NEW v, NEW n \in Nat, Once(s, v, n)
    PROVE  Once(FailRun(s), v, n)
<1> DEFINE f == [s EXCEPT !.forkFailed = TRUE]
           u == MarkUndelivered(s)
           w == PushEntry(u, TRUE)
<1>1. f \in SessionType /\ SameParts(s, f)
    BY DEF SessionType, SameParts
<1>2. u \in SessionType /\ SameParts(s, u)
    BY MarkUndeliveredType, TranscriptOnce
<1>3. FailRun(s) = IF ForkPending(s) THEN RunEnded(f) ELSE RunEnded(w)
    BY DEF FailRun
<1> HIDE DEF f, u
<1>4. w \in SessionType /\ SameParts(u, w)
    BY <1>2, PushEntryType, TranscriptOnce
<1> HIDE DEF w
<1>5. Once(f, v, n) /\ Once(u, v, n)
    BY <1>1, <1>2, SamePartsOnce
<1>6. Once(w, v, n)
    BY <1>4, <1>5, SamePartsOnce
<1>7. f.forkSource = s.forkSource /\ w.forkSource = s.forkSource
    BY <1>1, <1>2, <1>4 DEF SameParts
<1> QED BY <1>1, <1>3, <1>4, <1>5, <1>6, <1>7, RunEndedOnce

\* set_native_session_id: the prompt a failed fork would have sent again is dropped.
LEMMA SetNativeIdOnce ==
    ASSUME NEW s \in SessionType, NEW v, NEW n \in Nat, Once(s, v, n)
    PROVE  Once(SetNativeId(s), v, n)
<1> DEFINE t == SetNativeId(s)
<1>1. /\ t \in SessionType /\ t.queue = s.queue /\ t.pending = s.pending /\ t.run = s.run
      /\ t.forkPrompt = <<>> /\ t.forkSource = (s.forkSource /\ s.forkPrompt = <<>>)
    BY SetNativeIdFields
<1> HIDE DEF t
<1>2. Copies(t, v) = Copies(s, v)
    BY <1>1 DEF Copies
<1>3. t.forkSource => s.forkSource
    BY <1>1
<1>4. Limit(s) <= Limit(t) /\ Limit(s) \in Nat /\ Limit(t) \in Nat
    BY <1>3 DEF Limit
<1>5. Copies(s, v) \in Nat
    BY PartCounts
<1>6. Occ(t.forkPrompt, v) <= 1
    BY <1>1, OccEmpty
<1>7. Copies(t, v) + n <= Limit(t)
    BY <1>2, <1>4, <1>5 DEF Once
<1>8. Once(t, v, n)
    BY <1>1, <1>6, <1>7 DEF Once
<1> QED BY <1>8 DEF t

\* A Done event.
LEMMA TurnDoneOnce ==
    ASSUME NEW s \in SessionType, NEW status \in DoneEvents, NEW v, NEW n \in Nat, Once(s, v, n)
    PROVE  Once(TurnDone(s, status), v, n)
<1> DEFINE e == EndReport(s, status)
           w == (s.pending # <<>>)
           d == [e EXCEPT !.working = w]
<1>1. e \in SessionType /\ Once(e, v, n)
    <2>1. e \in {SetNativeId(s), PushEntry(s, TRUE), s} /\ e \in SessionType
        BY EndReportFields
    <2>2. Once(SetNativeId(s), v, n)
        BY SetNativeIdOnce
    <2>3. SameParts(s, PushEntry(s, TRUE))
        BY TranscriptOnce
    <2> HIDE DEF e
    <2> QED BY <2>1, <2>2, <2>3, SamePartsOnce
<1>2. TurnDone(s, status) = IF status = "interrupted" THEN d ELSE SendNextQueued(d)
    BY DEF TurnDone
<1>3. w \in BOOLEAN
    OBVIOUS
<1> HIDE DEF e, w
<1>4. d \in SessionType /\ SameParts(e, d)
    BY <1>1, <1>3 DEF SessionType, SameParts
<1> HIDE DEF d
<1>6. Once(d, v, n)
    BY <1>1, <1>4, SamePartsOnce
<1> QED BY <1>2, <1>4, <1>6, SendNextQueuedOnce

\* apply_event.
LEMMA ApplyEventOnce ==
    ASSUME NEW s \in SessionType, NEW ev \in Events, NEW v, NEW n \in Nat, Once(s, v, n)
    PROVE  Once(ApplyEvent(s, ev), v, n)
<1>1. CASE ev \in DoneEvents /\ ~(ev = "errored" /\ ForkPending(s))
    <2>1. ApplyEvent(s, ev) = TurnDone(s, ev)
        BY <1>1 DEF ApplyEvent, DoneEvents
    <2> QED BY <1>1, <2>1, TurnDoneOnce
<1>3. CASE ev = "started"
    <2>1. ApplyEvent(s, ev) = SetNativeId(s)
        BY <1>3 DEF ApplyEvent
    <2> QED BY <2>1, SetNativeIdOnce
<1>2. CASE ev # "started" /\ ~(ev \in DoneEvents /\ ~(ev = "errored" /\ ForkPending(s)))
    <2>1. SameParts(s, ApplyEvent(s, ev))
        BY <1>2 DEF ApplyEvent, Resume, PushEntry, SameParts, SessionType, DoneEvents,
                    Events, ResumeEvents
    <2> QED BY <2>1, SamePartsOnce
<1> QED BY <1>1, <1>2, <1>3 DEF DoneEvents

-----------------------------------------------------------------------------
(* Only a run that could not start leaves a message "Not delivered".        *)

Marked(s) == \E i \in DOMAIN s.entries : s.entries[i].undelivered

\* t has no failed run and no undelivered message unless s had one.
NoFailure(s, t) ==
    /\ t.run.phase = "failed" => s.run.phase = "failed"
    /\ Marked(t) => Marked(s)

\* A step that leaves the transcript alone and fails no run.
LEMMA NoFailureSame ==
    ASSUME NEW s, NEW t, t.entries = s.entries,
           t.run.phase = s.run.phase \/ t.run.phase \in {"none", "starting"}
    PROVE  NoFailure(s, t)
BY DEF NoFailure, Marked

\* One step after the other.
LEMMA NoFailureTrans ==
    ASSUME NEW s, NEW t, NEW u, NoFailure(s, t), NoFailure(t, u)
    PROVE  NoFailure(s, u)
BY DEF NoFailure

\* A new entry is not undelivered.
LEMMA PushUserNoFailure ==
    ASSUME NEW s \in SessionType, NEW m \in Messages
    PROVE  NoFailure(s, PushUser(s, m))
<1> DEFINE x == [msg |-> m, undelivered |-> FALSE, tail |-> "none"]
           n == Len(s.entries)
<1>1. s.entries \in Seq(EntryType) /\ n \in Nat /\ DOMAIN s.entries = 1 .. n
    BY LenProperties DEF SessionType
<1>2. x \in EntryType /\ x.undelivered = FALSE
    BY DEF EntryType
<1>3. PushUser(s, m).entries = Append(s.entries, x) /\ PushUser(s, m).run = s.run
    BY DEF PushUser, SessionType
<1> HIDE DEF x
<1>4. /\ DOMAIN Append(s.entries, x) = 1 .. n + 1 /\ Append(s.entries, x)[n + 1] = x
      /\ \A k \in 1 .. n : Append(s.entries, x)[k] = s.entries[k]
    BY <1>1, <1>2, AppendProperties, LenProperties
<1>5. \A k \in 1 .. n + 1 : k = n + 1 \/ k \in 1 .. n
    BY <1>1
<1> QED BY <1>1, <1>2, <1>3, <1>4, <1>5 DEF NoFailure, Marked

\* What an event writes to the transcript marks no entry.
LEMMA PushEntryNoFailure ==
    ASSUME NEW s \in SessionType, NEW isError \in BOOLEAN
    PROVE  NoFailure(s, PushEntry(s, isError))
<1>1. CASE s.entries = <<>>
    BY <1>1, NoFailureSame DEF PushEntry
<1>2. CASE s.entries # <<>>
    <2> DEFINE n == Len(s.entries)
               l == IF isError /\ s.entries[n].tail # "mixed" THEN "errors" ELSE "mixed"
    <2>1. s.entries \in Seq(EntryType) /\ n \in Nat /\ DOMAIN s.entries = 1 .. n
        BY LenProperties DEF SessionType
    <2>2. n \in DOMAIN s.entries /\ PushEntry(s, isError).run = s.run
        BY <1>2, <2>1, EmptySeq DEF PushEntry, SessionType
    <2>3. PushEntry(s, isError).entries = [s.entries EXCEPT ![n] = [s.entries[n] EXCEPT !.tail = l]]
        BY <1>2, <2>1, <2>2 DEF PushEntry, SessionType
    <2>4. [s.entries[n] EXCEPT !.tail = l].undelivered = s.entries[n].undelivered
        BY <2>1, <2>2, ElementOfSeq DEF EntryType
    <2> HIDE DEF l, n
    <2>5. \A k \in DOMAIN PushEntry(s, isError).entries :
             /\ k \in DOMAIN s.entries
             /\ PushEntry(s, isError).entries[k].undelivered = s.entries[k].undelivered
        BY <2>2, <2>3, <2>4
    <2> QED BY <2>2, <2>5 DEF NoFailure, Marked
<1> QED BY <1>1, <1>2

\* No step at all.
LEMMA NoFailureRefl == \A s : NoFailure(s, s)
BY DEF NoFailure

\* start_run has a run that is not failed yet.
LEMMA StartRunNoFailure ==
    ASSUME NEW s \in SessionType, NEW p
    PROVE  NoFailure(s, StartRun(s, p))
<1>1. StartRun(s, p).entries = s.entries /\ StartRun(s, p).run.phase = "starting"
    BY DEF StartRun, NewRun, RunIn, SessionType
<1> QED BY <1>1, NoFailureSame

\* The methods of the queue do not touch the run or the transcript.
LEMMA QueueNoFailure ==
    ASSUME NEW s \in SessionType, NEW m, NEW i, NEW to
    PROVE  /\ NoFailure(s, Enqueue(s, m)) /\ NoFailure(s, Requeue(s, m))
           /\ NoFailure(s, TakeQueued(s, i)) /\ NoFailure(s, MoveTo(s, i, to))
           /\ NoFailure(s, [s EXCEPT !.queue = RemoveAt(@, i)])
BY DEF NoFailure, Marked, Enqueue, Requeue, TakeQueued, MoveTo, SessionType

\* deliver.
LEMMA DeliverNoFailure ==
    ASSUME NEW s \in SessionType, NEW m \in Messages
    PROVE  NoFailure(s, Deliver(s, m))
<1> DEFINE u == PushUser(s, m)
           h == (u.restart /\ s.working)
           r == IF s.restart /\ ~s.working THEN NoRun ELSE s.run
           t == [PushUser(s, m) EXCEPT !.userStopped = FALSE,
                                       !.working = TRUE,
                                       !.restart = @ /\ s.working,
                                       !.run = IF s.restart /\ ~s.working THEN NoRun ELSE @]
           a == [t EXCEPT !.pending = Merge(@, m)]
           b == [t EXCEPT !.run.inbox = Append(@, m)]
<1>1. Dispatch(s, m) = IF t.run.stopping THEN a ELSE IF CanPush(t.run) THEN b ELSE StartRun(t, <<m>>)
    BY DEF Dispatch
<1>2. u \in SessionType /\ NoFailure(s, u) /\ u.run = s.run
    BY PushUserType, PushUserNoFailure DEF PushUser, SessionType
<1>3. h \in BOOLEAN /\ r \in RunType /\ (r = s.run \/ r.phase = "none")
    BY PartTypes, NoRunType
<1>4. t = [u EXCEPT !.userStopped = FALSE, !.working = TRUE, !.restart = h, !.run = r]
    BY <1>2 DEF SessionType
<1> HIDE DEF u, h, r, t
<1>5. /\ t \in SessionType /\ t.entries = u.entries
      /\ t.run.phase = u.run.phase \/ t.run.phase = "none"
    BY <1>2, <1>3, <1>4 DEF SessionType
<1>6. NoFailure(u, t)
    BY <1>5, NoFailureSame
<1>7. a.entries = t.entries /\ b.entries = t.entries /\ a.run.phase = t.run.phase /\ b.run.phase = t.run.phase
    BY <1>5, PartTypes DEF SessionType, RunType
<1> HIDE DEF a, b
<1>8. NoFailure(t, a) /\ NoFailure(t, b) /\ NoFailure(t, StartRun(t, <<m>>))
    BY <1>5, <1>7, NoFailureSame, StartRunNoFailure
<1>9. NoFailure(t, Dispatch(s, m))
    BY <1>1, <1>8
<1>10. NoFailure(s, Dispatch(s, m))
    BY <1>2, <1>6, <1>9, NoFailureTrans
<1> QED BY <1>10, QueueNoFailure DEF Deliver

\* take_next_queued and deliver.
LEMMA DeliverNextNoFailure ==
    ASSUME NEW s \in SessionType, Sendable(s) # {}
    PROVE  NoFailure(s, DeliverNext(s))
<1> DEFINE i == FirstSendable(s)
           t == [s EXCEPT !.queue = RemoveAt(@, i)]
<1>1. i \in DOMAIN s.queue
    BY FirstSendableExists DEF Sendable
<1>2. s.queue[i].msg \in Messages /\ t \in SessionType /\ NoFailure(s, t)
    BY <1>1, QueueItem, DropQueuedType, QueueNoFailure
<1>3. DeliverNext(s) = Deliver(t, s.queue[i].msg)
    BY DEF DeliverNext
<1> HIDE DEF i, t
<1>4. NoFailure(t, Deliver(t, s.queue[i].msg))
    BY <1>2, DeliverNoFailure
<1> QED BY <1>2, <1>3, <1>4, NoFailureTrans

\* send_next_queued.
LEMMA SendNextQueuedNoFailure ==
    ASSUME NEW s \in SessionType
    PROVE  NoFailure(s, SendNextQueued(s))
BY DeliverNextNoFailure, NoFailureRefl DEF SendNextQueued

\* send_message.
LEMMA SendMessageNoFailure ==
    ASSUME NEW s \in SessionType, NEW m \in Messages, NEW steer
    PROVE  NoFailure(s, SendMessage(s, m, steer))
<1> DEFINE e == Enqueue(s, m)
<1>1. e \in SessionType /\ NoFailure(s, e)
    BY EnqueueType, QueueNoFailure
<1>2. \/ SendMessage(s, m, steer) = Deliver(s, m)
      \/ SendMessage(s, m, steer) = e
      \/ Sendable(s) # {} /\ SendMessage(s, m, steer) = DeliverNext(e)
    BY DEF SendMessage
<1>3. Sendable(s) # {} => Sendable(e) # {}
    BY EnqueueSendable
<1> HIDE DEF e
<1>4. Sendable(s) # {} => NoFailure(s, DeliverNext(e))
    BY <1>1, <1>3, DeliverNextNoFailure, NoFailureTrans
<1> QED BY <1>1, <1>2, <1>4, DeliverNoFailure

\* run_ended.
LEMMA RunEndedNoFailure ==
    ASSUME NEW s \in SessionType
    PROVE  NoFailure(s, RunEnded(s))
<1> DEFINE e == [s EXCEPT !.run = NoRun, !.forkFailed = FALSE]
           f == [e EXCEPT !.forkSource = FALSE, !.working = TRUE]
           d == [e EXCEPT !.pending = <<>>, !.working = TRUE]
           i == Idle(e)
<1>1. <<>> \in Prompts
    BY DEF Prompts
<1>2. e \in SessionType /\ NoFailure(s, e)
    <2>1. e \in SessionType /\ e.entries = s.entries /\ e.run.phase = "none"
        BY NoRunType DEF SessionType
    <2> QED BY <2>1, NoFailureSame
<1>3. RunEnded(s) = IF s.forkFailed /\ s.forkPrompt # <<>> /\ ~s.deleted THEN ForkFallback(e)
                    ELSE IF s.pending # <<>> /\ ~s.deleted THEN StartPending(e)
                    ELSE IF s.userStopped THEN i
                    ELSE SendNextQueued(i)
    BY DEF RunEnded
<1>4. StartPending(e) = StartRun(d, e.pending) /\ ForkFallback(e) = StartRun(f, e.forkPrompt)
    BY DEF StartPending, ForkFallback
<1> HIDE DEF e
<1>5. /\ d \in SessionType /\ d.entries = e.entries /\ d.run.phase = e.run.phase
      /\ f \in SessionType /\ f.entries = e.entries /\ f.run.phase = e.run.phase
    BY <1>1, <1>2 DEF SessionType
<1>6. i \in SessionType /\ i.entries = e.entries /\ i.run.phase = e.run.phase
    BY <1>1, <1>2 DEF Idle, SessionType
<1> HIDE DEF d, f, i
<1>7. NoFailure(s, d) /\ NoFailure(s, f) /\ NoFailure(s, i)
    BY <1>2, <1>5, <1>6, NoFailureSame, NoFailureTrans
<1>8. NoFailure(s, ForkFallback(e)) /\ NoFailure(s, StartPending(e))
    BY <1>4, <1>5, <1>7, StartRunNoFailure, NoFailureTrans
<1>9. NoFailure(s, SendNextQueued(i))
    BY <1>6, <1>7, SendNextQueuedNoFailure, NoFailureTrans
<1> QED BY <1>3, <1>7, <1>8, <1>9

\* A Done event.
LEMMA TurnDoneNoFailure ==
    ASSUME NEW s \in SessionType, NEW status \in DoneEvents
    PROVE  NoFailure(s, TurnDone(s, status))
<1> DEFINE e == EndReport(s, status)
           w == (s.pending # <<>>)
           d == [e EXCEPT !.working = w]
<1>1. e \in SessionType /\ e \in {SetNativeId(s), PushEntry(s, TRUE), s}
    BY EndReportFields
<1>2. NoFailure(s, e)
    <2>1. NoFailure(s, SetNativeId(s))
        BY SetNativeIdFields, NoFailureSame
    <2> HIDE DEF e
    <2> QED BY <1>1, <2>1, PushEntryNoFailure, NoFailureRefl
<1>3. TurnDone(s, status) = IF status = "interrupted" THEN d ELSE SendNextQueued(d)
    BY DEF TurnDone
<1>4. w \in BOOLEAN
    OBVIOUS
<1> HIDE DEF e, w
<1>5. d \in SessionType /\ d.entries = e.entries /\ d.run = e.run
    BY <1>1, <1>4 DEF SessionType
<1> HIDE DEF d
<1>6. NoFailure(s, d)
    BY <1>2, <1>5, NoFailureSame, NoFailureTrans
<1>7. NoFailure(s, SendNextQueued(d))
    BY <1>5, <1>6, SendNextQueuedNoFailure, NoFailureTrans
<1> QED BY <1>3, <1>6, <1>7

\* apply_event.
LEMMA ApplyEventNoFailure ==
    ASSUME NEW s \in SessionType, NEW ev \in Events
    PROVE  NoFailure(s, ApplyEvent(s, ev))
<1>1. CASE ev \in DoneEvents /\ ~(ev = "errored" /\ ForkPending(s))
    <2>1. ApplyEvent(s, ev) = TurnDone(s, ev)
        BY <1>1 DEF ApplyEvent, DoneEvents
    <2> QED BY <1>1, <2>1, TurnDoneNoFailure
<1>2. CASE ev = "work"
    <2>1. Resume(s) \in SessionType /\ Resume(s).entries = s.entries /\ Resume(s).run = s.run
        BY DEF Resume, SessionType
    <2>2. NoFailure(s, Resume(s)) /\ NoFailure(Resume(s), PushEntry(Resume(s), FALSE))
        BY <2>1, NoFailureSame, PushEntryNoFailure
    <2>3. ApplyEvent(s, ev) = PushEntry(Resume(s), FALSE)
        BY <1>2 DEF ApplyEvent
    <2> QED BY <2>2, <2>3, NoFailureTrans
<1>3. CASE ev = "compacted"
    <2> DEFINE c == [s EXCEPT !.restart = @ \/ Claude]
    <2>1. (s.restart \/ Claude) \in BOOLEAN
        OBVIOUS
    <2>2. c \in SessionType /\ c.entries = s.entries /\ c.run = s.run
        BY <2>1 DEF SessionType
    <2>3. ApplyEvent(s, ev) = PushEntry(c, FALSE)
        BY <1>3 DEF ApplyEvent
    <2> HIDE DEF c
    <2>4. NoFailure(s, c) /\ NoFailure(c, PushEntry(c, FALSE))
        BY <2>2, NoFailureSame, PushEntryNoFailure
    <2> QED BY <2>3, <2>4, NoFailureTrans
<1>4. CASE ev = "error"
    BY <1>4, PushEntryNoFailure, NoFailureRefl DEF ApplyEvent
<1>5. CASE ev \in {"started", "steered"} \/ (ev = "errored" /\ ForkPending(s))
    <2>1. ApplyEvent(s, ev).entries = s.entries /\ ApplyEvent(s, ev).run = s.run
        BY <1>5 DEF ApplyEvent, SetNativeId, Resume, SessionType
    <2> QED BY <2>1, NoFailureSame
<1> QED BY <1>1, <1>2, <1>3, <1>4, <1>5 DEF Events, DoneEvents, ResumeEvents

-----------------------------------------------------------------------------
(* ReadAtMostOnce.                                                          *)

\* The messages read back from disk are different messages.
LoadedOnce == \A i, j \in DOMAIN Loaded : Loaded[i] = Loaded[j] => i = j

\* No message is sent again by hand: fail_run may mark a message that an agent has
\* read or will read, and Retry then hands it out once more.
NothingResent == "retry" \notin UserOps \/ "fail" \notin Faults

\* The copies of v outside the session: read by an agent, or not yet typed.
NotTyped(f, v) == IF v \in f THEN 1 ELSE 0

Elsewhere(v) == Occ(log, v) + NotTyped(fresh, v)

\* The inductive invariant behind ReadAtMostOnce.
OnceInv ==
    /\ SessionInv
    /\ "fail" \notin Faults => session.run.phase # "failed" /\ ~Marked(session)
    /\ \A v \in Messages : Once(session, v, Elsewhere(v))

\* What OnceInv says of one message, with the types.
LEMMA OnceInvTypes ==
    ASSUME OnceInv, NEW v \in Messages
    PROVE  /\ session \in SessionType /\ fresh \subseteq Messages /\ log \in Prompts
           /\ stale \in Seq(Events \cup {"ended"})
           /\ Coherent(session) /\ (~Forked => ~session.forkSource)
           /\ Occ(log, v) \in Nat /\ NotTyped(fresh, v) \in {0, 1} /\ Elsewhere(v) \in Nat
           /\ Once(session, v, Elsewhere(v))
<1>1. /\ session \in SessionType /\ fresh \subseteq Messages /\ log \in Prompts
      /\ stale \in Seq(Events \cup {"ended"})
      /\ Coherent(session) /\ (~Forked => ~session.forkSource)
    BY DEF OnceInv, SessionInv, TypeOK, Coherent, GaveUpSource
<1>2. Occ(log, v) \in Nat
    BY <1>1, PromptNat
<1>3. NotTyped(fresh, v) \in {0, 1}
    BY DEF NotTyped
<1> QED BY <1>1, <1>2, <1>3 DEF OnceInv, Elsewhere

\* The user types m: what was not typed is in hand.
LEMMA TypedOnce ==
    ASSUME OnceInv, NEW v \in Messages, NEW m \in fresh, fresh' = fresh \ {m}, log' = log
    PROVE  Elsewhere(v)' \in Nat /\ Once(session, v, Elsewhere(v)' + One(m, v))
<1>1. /\ Occ(log, v) \in Nat /\ Elsewhere(v) = Occ(log, v) + NotTyped(fresh, v)
      /\ Once(session, v, Elsewhere(v))
    BY OnceInvTypes DEF Elsewhere
<1>2. Elsewhere(v)' = Occ(log, v) + NotTyped(fresh', v)
    BY DEF Elsewhere
<1>3. NotTyped(fresh, v) = NotTyped(fresh', v) + One(m, v) /\ NotTyped(fresh', v) \in {0, 1}
    BY DEF NotTyped, One
<1>4. Elsewhere(v)' + One(m, v) = Elsewhere(v) /\ Elsewhere(v)' \in Nat
    BY <1>1, <1>2, <1>3, OneNat
<1> QED BY <1>1, <1>4

\* Sending.  Nothing is retried.
LEMMA SendOnce ==
    ASSUME NothingResent, OnceInv, NEW v \in Messages, NEW steer \in SteerModes,
           \/ \E m \in fresh : Send(m, steer)
           \/ \E i \in DOMAIN session.entries : Retry(i, steer)
    PROVE  Once(session', v, Elsewhere(v)')
<1>1. session \in SessionType /\ fresh \subseteq Messages
    BY OnceInvTypes
<1>2. ASSUME NEW m \in fresh, Send(m, steer) PROVE Once(session', v, Elsewhere(v)')
    <2>1. session' = SendMessage(session, m, steer) /\ fresh' = fresh \ {m} /\ log' = log
        BY <1>2 DEF Send
    <2>2. Elsewhere(v)' \in Nat /\ Once(session, v, Elsewhere(v)' + One(m, v))
        BY <2>1, TypedOnce
    <2> QED BY <1>1, <2>1, <2>2, SendMessageOnce
<1>3. ASSUME NEW i \in DOMAIN session.entries, Retry(i, steer) PROVE FALSE
    <2>1. "retry" \in UserOps /\ session.entries[i].undelivered
        BY <1>3 DEF Retry, Allowed
    <2> QED BY <2>1 DEF NothingResent, OnceInv, Marked
<1> QED BY <1>2, <1>3

\* An action that leaves the log and the untyped messages alone.
LEMMA SameElsewhere ==
    ASSUME NEW v \in Messages, log' = log, fresh' = fresh
    PROVE  Elsewhere(v)' = Elsewhere(v)
BY DEF Elsewhere

\* The queue panel.
LEMMA QueuePanelOnce ==
    ASSUME OnceInv, NEW v \in Messages, NEW i \in DOMAIN session.queue,
           \/ SteerQueued(i) \/ SendQueuedNow(i) \/ RemoveQueued(i) \/ BeginEdit(i)
           \/ \E to \in 0 .. Len(session.queue) : MoveQueued(i, to)
    PROVE  Once(session', v, Elsewhere(v)')
<1> DEFINE t == TakeQueued(session, i)
           m == session.queue[i].msg
           n == Elsewhere(v)
<1>1. session \in SessionType /\ n \in Nat /\ Once(session, v, n)
    BY OnceInvTypes
<1>2. Elsewhere(v)' = n
    BY SameElsewhere DEF SteerQueued, SendQueuedNow, RemoveQueued, BeginEdit, MoveQueued
<1> HIDE DEF n
<1>3. m \in Messages /\ session.queue[i].id \in Nat
    BY <1>1, QueueItem
<1>4. t \in SessionType
    BY <1>1, TakeQueuedType
<1>5. /\ t.queue = RemoveAt(session.queue, i) /\ t.pending = session.pending /\ t.run = session.run
      /\ t.forkSource = session.forkSource /\ t.forkPrompt = session.forkPrompt
    BY <1>1 DEF TakeQueued, SessionType
<1> HIDE DEF t
<1>6. Once(t, v, n + One(m, v))
    BY <1>1, <1>4, <1>5, TakenOnce
<1>7. n + One(m, v) \in Nat
    BY <1>1, OneNat
<1>8. CASE SteerQueued(i)
    <2>1. session' = Deliver(t, m)
        BY <1>8 DEF SteerQueued, t
    <2> HIDE DEF m
    <2>2. Once(session', v, n)
        BY <1>1, <1>3, <1>4, <1>6, <2>1, DeliverOnce
    <2> QED BY <1>2, <2>2
<1>9. CASE SendQueuedNow(i)
    <2> DEFINE r == [t.run EXCEPT !.stopping = TRUE]
               d == [t EXCEPT !.run = r]
               c == IF t.working /\ HasRun(t) THEN d ELSE t
    <2>1. d = [t EXCEPT !.run.stopping = TRUE]
        BY <1>4 DEF SessionType
    <2>2. session' = Deliver(c, m)
        BY <1>9, <2>1 DEF SendQueuedNow, t
    <2> HIDE DEF m
    <2>3. r \in RunType /\ r.prompt = t.run.prompt /\ r.inbox = t.run.inbox
        BY <1>4, PartTypes DEF RunType
    <2> HIDE DEF r
    <2>4. d \in SessionType /\ SameParts(t, d)
        BY <1>4, <2>3 DEF SessionType, SameParts
    <2> HIDE DEF d
    <2>5. Once(d, v, n + One(m, v))
        BY <1>6, <2>4, SamePartsOnce
    <2>6. c \in SessionType /\ Once(c, v, n + One(m, v))
        BY <1>4, <1>6, <2>4, <2>5
    <2> HIDE DEF c
    <2>7. Once(session', v, n)
        BY <1>1, <1>3, <2>2, <2>6, DeliverOnce
    <2> QED BY <1>2, <2>7
<1>10. CASE RemoveQueued(i)
    <2>1. session' = t
        BY <1>10 DEF RemoveQueued, t
    <2>2. Copies(t, v) + n <= Copies(t, v) + (n + One(m, v))
        BY <1>1, <1>4, PartCounts, OneNat
    <2> HIDE DEF m
    <2>3. Once(t, v, n)
        BY <1>1, <1>4, <1>6, <1>7, <2>2, OnceFewer
    <2> QED BY <1>2, <2>1, <2>3
<1>11. CASE BeginEdit(i)
    <2>1. session' = [session EXCEPT !.editing = session.queue[i].id]
        BY <1>11 DEF BeginEdit
    <2>2. SameParts(session, session')
        BY <1>1, <2>1 DEF SameParts, SessionType
    <2> QED BY <1>1, <1>2, <2>2, SamePartsOnce
<1>12. ASSUME NEW to \in 0 .. Len(session.queue), MoveQueued(i, to)
       PROVE  Once(session', v, Elsewhere(v)')
    <2> DEFINE u == MoveTo(session, i, to)
    <2>1. to \in Nat /\ session' = u /\ session.queue \in Seq(QueuedType)
        BY <1>1, <1>12, PartTypes DEF MoveQueued
    <2>2. /\ u.pending = session.pending /\ u.run = session.run
          /\ u.forkSource = session.forkSource /\ u.forkPrompt = session.forkPrompt
        BY <1>1 DEF MoveTo, SessionType
    <2>3. Waits(u.queue, v) = Waits(session.queue, v)
        BY <1>1, <2>1, WaitsMove DEF MoveTo, SessionType
    <2>4. u \in SessionType
        BY <1>1, <2>1, MoveToType
    <2> HIDE DEF u
    <2>5. Copies(u, v) = Copies(session, v)
        BY <2>2, <2>3 DEF Copies
    <2>6. Copies(u, v) + n <= Copies(session, v) + n
        BY <1>1, <2>5, PartCounts
    <2>7. Once(u, v, n)
        BY <1>1, <2>2, <2>4, <2>6, OnceFewer
    <2> QED BY <1>2, <2>1, <2>7
<1> QED BY <1>8, <1>9, <1>10, <1>11, <1>12

\* Ending an edit: the new text enters the queue, as a new message or for an old one.
LEMMA EditOnce ==
    ASSUME OnceInv, NEW v \in Messages, CancelEdit \/ \E m \in fresh : SaveEdit(m)
    PROVE  Once(session', v, Elsewhere(v)')
<1> DEFINE e == IF session.editing = view THEN NoId ELSE session.editing
           s == [session EXCEPT !.editing = e]
           n == Elsewhere(v)
<1>1. /\ session \in SessionType /\ fresh \subseteq Messages /\ n \in Nat /\ Once(session, v, n)
      /\ view \in Nat \cup {NoId}
    BY OnceInvTypes DEF OnceInv, SessionInv, TypeOK
<1>2. e \in Nat \cup {NoId}
    BY <1>1 DEF SessionType
<1>3. s = [session EXCEPT !.editing = IF @ = view THEN NoId ELSE @]
    BY <1>1 DEF SessionType
<1> HIDE DEF e, n
<1>4. s \in SessionType /\ SameParts(session, s)
    BY <1>1, <1>2 DEF SessionType, SameParts
<1> HIDE DEF s
<1>5. CASE CancelEdit
    <2>1. session' = s /\ Elsewhere(v)' = n
        BY <1>3, <1>5, SameElsewhere DEF CancelEdit, n
    <2> QED BY <1>1, <1>4, <2>1, SamePartsOnce
<1>6. ASSUME NEW m \in fresh, SaveEdit(m) PROVE Once(session', v, Elsewhere(v)')
    <2> DEFINE k == Elsewhere(v)'
    <2>1. /\ session' = Enqueue(s, m) \/ \E i \in DOMAIN s.queue : session' = [s EXCEPT !.queue[i].msg = m]
          /\ fresh' = fresh \ {m} /\ log' = log
        BY <1>3, <1>6 DEF SaveEdit
    <2>2. k \in Nat /\ Once(session, v, k + One(m, v))
        BY <2>1, TypedOnce
    <2> HIDE DEF k
    <2>3. Once(s, v, k + One(m, v)) /\ m \in Messages
        BY <1>1, <1>4, <2>2, SamePartsOnce
    <2>4. CASE session' = Enqueue(s, m)
        BY <1>4, <2>2, <2>3, <2>4, EnqueueOnce DEF k
    <2>5. ASSUME NEW i \in DOMAIN s.queue, session' = [s EXCEPT !.queue[i].msg = m]
          PROVE  Once(session', v, k)
        <3> DEFINE q == [s.queue EXCEPT ![i].msg = m]
                   u == [s EXCEPT !.queue = q]
        <3>1. session' = u /\ s.queue \in Seq(QueuedType)
            BY <1>4, <2>5 DEF SessionType
        <3>2. Waits(q, v) <= Waits(s.queue, v) + One(m, v)
            BY <2>3, <3>1, WaitsReplace
        <3>3. q \in Seq(QueuedType)
            <4>1. [s.queue[i] EXCEPT !.msg = m] \in QueuedType
                BY <1>4, <2>3, QueueItem DEF QueuedType
            <4>2. q = [s.queue EXCEPT ![i] = [s.queue[i] EXCEPT !.msg = m]]
                OBVIOUS
            <4> QED BY <3>1, <4>1, <4>2
        <3> HIDE DEF q
        <3>4. /\ u \in SessionType /\ u.queue = q /\ u.pending = s.pending /\ u.run = s.run
              /\ u.forkSource = s.forkSource /\ u.forkPrompt = s.forkPrompt
            BY <1>4, <3>3 DEF SessionType
        <3> HIDE DEF u
        <3>5. Copies(u, v) = Waits(q, v) + Occ(s.pending, v) + Occ(s.run.prompt, v) + Occ(s.run.inbox, v)
            BY <3>4 DEF Copies
        <3>6. Waits(q, v) \in Nat
            BY <3>3, WaitsNat
        <3>7. k + One(m, v) \in Nat
            BY <2>2, OneNat
        <3>8. Copies(u, v) + k <= Copies(s, v) + (k + One(m, v))
            BY <1>4, <2>2, <3>2, <3>5, <3>6, PartCounts, OneNat DEF Copies
        <3>9. Once(u, v, k)
            BY <1>4, <2>2, <2>3, <3>4, <3>7, <3>8, OnceFewer
        <3> QED BY <3>1, <3>9
    <2> QED BY <2>1, <2>4, <2>5 DEF k
<1> QED BY <1>5, <1>6

\* Stop, a change of settings and a deletion drop what waits, if anything.
LEMMA OtherUserOnce ==
    ASSUME OnceInv, NEW v \in Messages, Stop \/ ChangeSettings \/ Delete
    PROVE  Once(session', v, Elsewhere(v)')
<1> DEFINE n == Elsewhere(v)
<1>1. session \in SessionType /\ n \in Nat /\ Once(session, v, n)
    BY OnceInvTypes
<1>2. Elsewhere(v)' = n
    BY SameElsewhere DEF Stop, ChangeSettings, Delete
<1> HIDE DEF n
<1>3. /\ session'.queue = session.queue
      /\ session'.pending = session.pending \/ session'.pending = <<>>
      /\ \/ session'.run.prompt = session.run.prompt /\ session'.run.inbox = session.run.inbox
         \/ session'.run = NoRun
      /\ session'.forkSource = session.forkSource /\ session'.forkPrompt = session.forkPrompt
    <2>1. session.run \in RunType
        BY <1>1, PartTypes
    <2>2. CASE Stop
        BY <1>1, <2>1, <2>2 DEF Stop, SessionType, RunType
    <2>3. CASE ChangeSettings
        BY <1>1, <2>3 DEF ChangeSettings, SessionType
    <2>4. CASE Delete
        BY <1>1, <2>4 DEF Delete, SessionType
    <2> QED BY <2>2, <2>3, <2>4
<1>4. session' \in SessionType
    BY NextInv DEF OnceInv, SessionInv, TypeOK, Next, UserNext
<1>5. /\ Occ(session'.pending, v) <= Occ(session.pending, v)
      /\ Occ(session'.run.prompt, v) <= Occ(session.run.prompt, v)
      /\ Occ(session'.run.inbox, v) <= Occ(session.run.inbox, v)
    BY <1>1, <1>3, PartCounts, OccEmpty DEF NoRun, RunIn
<1>6. Copies(session', v) <= Copies(session, v)
    <2>1. /\ Waits(session.queue, v) \in Nat /\ Occ(session.pending, v) \in Nat
          /\ Occ(session.run.prompt, v) \in Nat /\ Occ(session.run.inbox, v) \in Nat
        BY <1>1, PartCounts
    <2>2. /\ Occ(session'.pending, v) \in Nat
          /\ Occ(session'.run.prompt, v) \in Nat /\ Occ(session'.run.inbox, v) \in Nat
        BY <1>4, PartCounts
    <2>3. Copies(session', v) = Waits(session.queue, v) + Occ(session'.pending, v)
                                  + Occ(session'.run.prompt, v) + Occ(session'.run.inbox, v)
        BY <1>3 DEF Copies
    <2> QED BY <1>5, <2>1, <2>2, <2>3 DEF Copies
<1>7. Copies(session', v) + n <= Copies(session, v) + n
    BY <1>1, <1>4, <1>6, PartCounts
<1>8. Once(session', v, n)
    BY <1>1, <1>3, <1>4, <1>7, OnceFewer
<1> QED BY <1>2, <1>8

\* The events task.
LEMMA TaskOnce ==
    ASSUME OnceInv, NEW v \in Messages, TaskNext
    PROVE  Once(session', v, Elsewhere(v)')
<1> DEFINE n == Elsewhere(v)
<1>1. /\ session \in SessionType /\ n \in Nat /\ Once(session, v, n)
      /\ stale \in Seq(Events \cup {"ended"}) /\ (~Forked => ~session.forkSource)
    BY OnceInvTypes
<1>2. Elsewhere(v)' = n
    BY SameElsewhere DEF TaskNext, ReceiveEvent, ReceiveStale, ReceiveEnd, ReceiveFailure
<1> HIDE DEF n
<1>3. CASE ReceiveEvent
    <2> DEFINE r == session.run
               q == [r EXCEPT !.out = Tail(r.out)]
               c == [session EXCEPT !.run = q]
    <2>1. r.out # <<>> /\ session' = ApplyEvent([session EXCEPT !.run.out = Tail(@)], Head(r.out))
        BY <1>3 DEF ReceiveEvent
    <2>2. c = [session EXCEPT !.run.out = Tail(@)]
        BY <1>1 DEF SessionType
    <2>3. r \in RunType /\ r.out \in Seq(Events)
        BY <1>1 DEF SessionType, RunType
    <2>4. Head(r.out) \in Events /\ Tail(r.out) \in Seq(Events)
        BY <2>1, <2>3, HeadTailProperties
    <2>5. q \in RunType /\ q.prompt = r.prompt /\ q.inbox = r.inbox
        BY <2>3, <2>4 DEF RunType
    <2> HIDE DEF q
    <2>6. c \in SessionType /\ SameParts(session, c)
        BY <1>1, <2>5 DEF SessionType, SameParts
    <2> HIDE DEF c, r
    <2>7. Once(c, v, n)
        BY <1>1, <2>6, SamePartsOnce
    <2> QED BY <1>1, <1>2, <2>1, <2>2, <2>4, <2>6, <2>7, ApplyEventOnce
<1>4. CASE ReceiveStale
    <2>1. stale # <<>> /\ Head(stale) \in Events \cup {"ended"}
        BY <1>1, <1>4, HeadTailProperties DEF ReceiveStale
    <2>2. \/ session' = RunEnded(session)
          \/ Head(stale) \in Events /\ session' = ApplyEvent(session, Head(stale))
        BY <1>4, <2>1 DEF ReceiveStale
    <2> QED BY <1>1, <1>2, <2>2, RunEndedOnce, ApplyEventOnce
<1>5. CASE ReceiveEnd \/ ReceiveFailure
    <2>1. session' = RunEnded(session) \/ session' = FailRun(session)
        BY <1>5 DEF ReceiveEnd, ReceiveFailure
    <2> QED BY <1>1, <1>2, <2>1, RunEndedOnce, FailRunOnce
<1> QED BY <1>3, <1>4, <1>5 DEF TaskNext

\* The harness hands what it reads to the agent, or drops it.
LEMMA HarnessOnce ==
    ASSUME OnceInv, NEW v \in Messages, HarnessNext
    PROVE  Once(session', v, Elsewhere(v)')
<1> DEFINE n == Elsewhere(v)
           k == Elsewhere(v)'
           r == session.run
           z == session'.run
<1>1. /\ session \in SessionType /\ n \in Nat /\ Once(session, v, n) /\ log \in Prompts
      /\ Occ(log, v) \in Nat /\ NotTyped(fresh, v) \in {0, 1}
    BY OnceInvTypes
<1>2. r \in RunType /\ r.prompt \in Prompts /\ r.inbox \in Prompts
    BY <1>1, PartTypes
<1>3. session' \in SessionType
    BY NextInv DEF OnceInv, SessionInv, TypeOK, Next
<1>4. \E x : session' = [session EXCEPT !.run = x] /\ fresh' = fresh
    BY DEF HarnessNext, HarnessStart, HarnessFail, HarnessEmit, HarnessTakeSteer, HarnessTurnEnd,
           HarnessInterrupt, HarnessCrash, HarnessClose, Harness
<1>5. /\ session'.queue = session.queue /\ session'.pending = session.pending /\ fresh' = fresh
      /\ session'.forkSource = session.forkSource /\ session'.forkPrompt = session.forkPrompt
    BY <1>1, <1>4 DEF SessionType
<1>6. \A x : Harness(x) => z = x
    BY <1>1 DEF Harness, SessionType
<1>7. \/ z.prompt = <<>> /\ z.inbox = r.inbox /\ log' = log \o r.prompt
      \/ r.inbox # <<>> /\ z.prompt = r.prompt /\ z.inbox = Tail(r.inbox) /\ log' = Append(log, Head(r.inbox))
      \/ z.prompt = r.prompt /\ z.inbox \in {r.inbox, <<>>} /\ log' = log
    <2> HIDE DEF z
    <2>1. ASSUME NEW named \in BOOLEAN, HarnessStart(named)
          PROVE  z.prompt = <<>> /\ z.inbox = r.inbox /\ log' = log \o r.prompt
        BY <1>2, <1>6, <2>1 DEF HarnessStart, RunType
    <2>2. CASE HarnessTakeSteer
        BY <1>2, <1>6, <2>2 DEF HarnessTakeSteer, RunType
    <2>3. ASSUME \/ HarnessFail \/ \E ev \in Chatter : HarnessEmit(ev)
                 \/ \E status \in {"completed", "errored"} : HarnessTurnEnd(status)
                 \/ HarnessInterrupt \/ HarnessCrash \/ HarnessClose
          PROVE  z.prompt = r.prompt /\ z.inbox \in {r.inbox, <<>>} /\ log' = log
        BY <1>2, <1>6, <2>3 DEF HarnessFail, HarnessEmit, HarnessTurnEnd, HarnessInterrupt,
                                HarnessCrash, HarnessClose, RunType
    <2> QED BY <2>1, <2>2, <2>3 DEF HarnessNext
<1>8. /\ Occ(r.prompt, v) \in Nat /\ Occ(r.inbox, v) \in Nat /\ Occ(<<>>, v) = 0
      /\ n = Occ(log, v) + NotTyped(fresh, v)
      /\ k = Occ(log', v) + NotTyped(fresh, v)
    BY <1>1, <1>5, PartCounts, OccEmpty DEF Elsewhere
<1> HIDE DEF n, k
<1>9. /\ Occ(log', v) + Occ(z.prompt, v) + Occ(z.inbox, v)
           <= Occ(log, v) + Occ(r.prompt, v) + Occ(r.inbox, v)
      /\ Occ(log', v) \in Nat
    <2> HIDE DEF r, z
    <2>1. CASE z.prompt = <<>> /\ z.inbox = r.inbox /\ log' = log \o r.prompt
        <3>1. Occ(log', v) = Occ(log, v) + Occ(r.prompt, v)
            BY <1>1, <1>2, <2>1, OccConcat
        <3> QED BY <1>1, <1>8, <2>1, <3>1
    <2>2. CASE r.inbox # <<>> /\ z.prompt = r.prompt /\ z.inbox = Tail(r.inbox)
               /\ log' = Append(log, Head(r.inbox))
        <3>1. /\ Head(r.inbox) \in Messages /\ Occ(Tail(r.inbox), v) \in Nat
              /\ Occ(r.inbox, v) = Occ(Tail(r.inbox), v) + One(Head(r.inbox), v)
            BY <1>2, <2>2, OccTail
        <3>2. Occ(log', v) = Occ(log, v) + One(Head(r.inbox), v)
            BY <1>1, <2>2, <3>1, OccAppend
        <3> QED BY <1>1, <1>8, <2>2, <3>1, <3>2, OneNat
    <2>3. CASE z.prompt = r.prompt /\ z.inbox \in {r.inbox, <<>>} /\ log' = log
        BY <1>1, <1>8, <2>3
    <2> QED BY <1>7, <2>1, <2>2, <2>3
<1>10. Copies(session', v) + k <= Copies(session, v) + n
    <2>1. /\ Waits(session.queue, v) \in Nat /\ Occ(session.pending, v) \in Nat
        BY <1>1, PartCounts
    <2>2. Occ(z.prompt, v) \in Nat /\ Occ(z.inbox, v) \in Nat
        BY <1>3, PartCounts
    <2>3. Copies(session', v) = Waits(session.queue, v) + Occ(session.pending, v)
                                  + Occ(z.prompt, v) + Occ(z.inbox, v)
        BY <1>5 DEF Copies
    <2>4. Copies(session, v) = Waits(session.queue, v) + Occ(session.pending, v)
                                 + Occ(r.prompt, v) + Occ(r.inbox, v)
        BY DEF Copies
    <2> HIDE DEF r, z
    <2>5. ASSUME NEW w \in Nat, NEW p \in Nat, NEW f \in Nat, NEW l \in Nat, NEW a \in Nat, NEW b \in Nat,
                 NEW x \in Nat, NEW c \in Nat, NEW d \in Nat, x + c + d <= l + a + b
          PROVE  (w + p + c + d) + (x + f) <= (w + p + a + b) + (l + f)
        BY <2>5
    <2>6. NotTyped(fresh, v) \in Nat
        BY <1>1
    <2>7. (Waits(session.queue, v) + Occ(session.pending, v) + Occ(z.prompt, v) + Occ(z.inbox, v))
             + (Occ(log', v) + NotTyped(fresh, v))
          <= (Waits(session.queue, v) + Occ(session.pending, v) + Occ(r.prompt, v) + Occ(r.inbox, v))
             + (Occ(log, v) + NotTyped(fresh, v))
        BY <1>1, <1>8, <1>9, <2>1, <2>2, <2>5, <2>6
    <2> QED BY <1>8, <2>3, <2>4, <2>7
<1>11. k \in Nat
    BY <1>1, <1>8, <1>9
<1>12. Once(session', v, k)
    BY <1>1, <1>3, <1>5, <1>10, <1>11, OnceFewer
<1> QED BY <1>12 DEF k

\* What no failure can have happened to stays so.
LEMMA FailureStep ==
    ASSUME SessionInv, "fail" \notin Faults, session.run.phase # "failed", ~Marked(session), Next
    PROVE  session'.run.phase # "failed" /\ ~Marked(session')
<1>1. /\ session \in SessionType /\ fresh \subseteq Messages /\ stale \in Seq(Events \cup {"ended"})
      /\ session.run.phase # "failed" /\ ~Marked(session)
    BY DEF SessionInv, TypeOK
<1>2. SUFFICES NoFailure(session, session')
    BY <1>1 DEF NoFailure
<1>3. session.run \in RunType
    BY <1>1, PartTypes
<1>4. ASSUME NEW m \in fresh, NEW steer \in SteerModes, Send(m, steer)
      PROVE  NoFailure(session, session')
    BY <1>1, <1>4, SendMessageNoFailure DEF Send
<1>5. ASSUME NEW i \in DOMAIN session.entries, NEW steer \in SteerModes, Retry(i, steer) PROVE FALSE
    BY <1>1, <1>5 DEF Retry, Marked
<1>6. ASSUME NEW i \in DOMAIN session.queue,
             \/ SteerQueued(i) \/ SendQueuedNow(i) \/ RemoveQueued(i) \/ BeginEdit(i)
             \/ \E to \in 0 .. Len(session.queue) : MoveQueued(i, to)
      PROVE  NoFailure(session, session')
    <2> DEFINE t == TakeQueued(session, i)
               m == session.queue[i].msg
               c == IF t.working /\ HasRun(t) THEN [t EXCEPT !.run.stopping = TRUE] ELSE t
    <2>1. m \in Messages /\ t \in SessionType /\ NoFailure(session, t)
        BY <1>1, QueueItem, TakeQueuedType, QueueNoFailure
    <2>2. CASE SteerQueued(i)
        <3>1. session' = Deliver(t, m)
            BY <2>2 DEF SteerQueued
        <3> HIDE DEF t, m
        <3>2. NoFailure(t, Deliver(t, m))
            BY <2>1, DeliverNoFailure
        <3> QED BY <2>1, <3>1, <3>2, NoFailureTrans
    <2>3. CASE SendQueuedNow(i)
        <3>1. session' = Deliver(c, m)
            BY <2>3 DEF SendQueuedNow
        <3> HIDE DEF t, m
        <3>2. [t.run EXCEPT !.stopping = TRUE] \in RunType
            BY <2>1 DEF SessionType, RunType
        <3>3. [t EXCEPT !.run.stopping = TRUE] = [t EXCEPT !.run = [t.run EXCEPT !.stopping = TRUE]]
            BY <2>1 DEF SessionType
        <3> DEFINE r == [t.run EXCEPT !.stopping = TRUE]
                   d == [t EXCEPT !.run = r]
        <3>6. r.phase = t.run.phase
            BY <2>1 DEF SessionType, RunType
        <3> HIDE DEF r
        <3>7. d \in SessionType /\ d.entries = t.entries /\ d.run.phase = t.run.phase
            BY <2>1, <3>2, <3>6 DEF r, SessionType
        <3> HIDE DEF d
        <3>4. c \in SessionType /\ c.entries = t.entries /\ c.run.phase = t.run.phase
            BY <2>1, <3>3, <3>7 DEF d, r
        <3> HIDE DEF c
        <3>5. NoFailure(session, c) /\ NoFailure(c, Deliver(c, m))
            BY <2>1, <3>4, NoFailureSame, NoFailureTrans, DeliverNoFailure
        <3> QED BY <3>1, <3>5, NoFailureTrans
    <2>4. CASE RemoveQueued(i)
        BY <2>1, <2>4 DEF RemoveQueued
    <2>5. CASE BeginEdit(i)
        <3>1. session'.entries = session.entries /\ session'.run = session.run
            BY <1>1, <2>5 DEF BeginEdit, SessionType
        <3> QED BY <3>1, NoFailureSame
    <2>6. ASSUME NEW to \in 0 .. Len(session.queue), MoveQueued(i, to)
          PROVE  NoFailure(session, session')
        BY <1>1, <2>6, QueueNoFailure DEF MoveQueued
    <2> QED BY <1>6, <2>2, <2>3, <2>4, <2>5, <2>6
<1>7. CASE CancelEdit \/ (\E m \in fresh : SaveEdit(m)) \/ Stop \/ ChangeSettings \/ Delete
    <2>1. /\ session'.entries = session.entries
          /\ session'.run.phase = session.run.phase \/ session'.run.phase = "none"
        <3>1. CASE CancelEdit
            BY <1>1, <3>1 DEF CancelEdit, SessionType
        <3>2. CASE \E m \in fresh : SaveEdit(m)
            BY <1>1, <3>2 DEF SaveEdit, Enqueue, SessionType
        <3>3. CASE Stop
            BY <1>1, <1>3, <3>3 DEF Stop, SessionType, RunType
        <3>4. CASE ChangeSettings
            BY <1>1, <3>4 DEF ChangeSettings, SessionType
        <3>5. CASE Delete
            BY <1>1, <3>5, NoRunType DEF Delete, SessionType
        <3> QED BY <1>7, <3>1, <3>2, <3>3, <3>4, <3>5
    <2> QED BY <2>1, NoFailureSame
<1>8. CASE TaskNext
    <2>1. CASE ReceiveEvent
        <3> DEFINE r == session.run
                   q == [r EXCEPT !.out = Tail(r.out)]
                   c == [session EXCEPT !.run = q]
        <3>1. r.out # <<>> /\ session' = ApplyEvent([session EXCEPT !.run.out = Tail(@)], Head(r.out))
            BY <2>1 DEF ReceiveEvent
        <3>2. c = [session EXCEPT !.run.out = Tail(@)]
            BY <1>1 DEF SessionType
        <3>3. r.out \in Seq(Events)
            BY <1>3 DEF RunType
        <3>4. Head(r.out) \in Events /\ Tail(r.out) \in Seq(Events)
            BY <3>1, <3>3, HeadTailProperties
        <3>5. q \in RunType /\ q.phase = r.phase
            BY <1>3, <3>4 DEF RunType
        <3> HIDE DEF q
        <3>6. c \in SessionType /\ c.entries = session.entries /\ c.run.phase = r.phase
            BY <1>1, <3>5 DEF SessionType
        <3> HIDE DEF c
        <3>7. NoFailure(session, c)
            BY <3>6, NoFailureSame
        <3> HIDE DEF r
        <3>8. NoFailure(c, ApplyEvent(c, Head(r.out)))
            BY <3>4, <3>6, ApplyEventNoFailure
        <3> QED BY <3>1, <3>2, <3>7, <3>8, NoFailureTrans
    <2>2. CASE ReceiveStale
        <3>1. stale # <<>> /\ Head(stale) \in Events \cup {"ended"}
            BY <1>1, <2>2, HeadTailProperties DEF ReceiveStale
        <3>2. \/ session' = RunEnded(session)
              \/ Head(stale) \in Events /\ session' = ApplyEvent(session, Head(stale))
            BY <2>2, <3>1 DEF ReceiveStale
        <3> QED BY <1>1, <3>2, RunEndedNoFailure, ApplyEventNoFailure
    <2>3. CASE ReceiveEnd
        BY <1>1, <2>3, RunEndedNoFailure DEF ReceiveEnd
    <2>4. CASE ReceiveFailure
        BY <1>1, <2>4 DEF ReceiveFailure
    <2> QED BY <1>8, <2>1, <2>2, <2>3, <2>4 DEF TaskNext
<1>9. CASE HarnessNext
    <2> DEFINE P == {session.run.phase, "live", "closing", "closed"}
    <2>1. ASSUME NEW x, Harness(x), x.phase \in P PROVE NoFailure(session, session')
        <3>1. session'.entries = session.entries /\ session'.run.phase \in P
            BY <1>1, <2>1 DEF Harness, SessionType
        <3> QED BY <3>1 DEF NoFailure, Marked
    <2>2. ASSUME NEW named \in BOOLEAN, HarnessStart(named) PROVE NoFailure(session, session')
        BY <1>3, <2>1, <2>2 DEF HarnessStart, RunType
    <2>3. ASSUME NEW ev \in Chatter, HarnessEmit(ev) PROVE NoFailure(session, session')
        BY <1>3, <2>1, <2>3 DEF HarnessEmit, RunType
    <2>4. CASE HarnessTakeSteer
        BY <1>3, <2>1, <2>4 DEF HarnessTakeSteer, RunType
    <2>5. ASSUME NEW status \in {"completed", "errored"}, HarnessTurnEnd(status)
          PROVE  NoFailure(session, session')
        BY <1>3, <2>1, <2>5 DEF HarnessTurnEnd, RunType
    <2>6. CASE HarnessInterrupt
        BY <1>3, <2>1, <2>6 DEF HarnessInterrupt, RunType
    <2>7. CASE HarnessCrash
        BY <1>3, <2>1, <2>7 DEF HarnessCrash, RunType
    <2>8. CASE HarnessClose
        BY <1>3, <2>1, <2>8 DEF HarnessClose, RunType
    <2> QED BY <1>9, <2>2, <2>3, <2>4, <2>5, <2>6, <2>7, <2>8 DEF HarnessNext, HarnessFail
<1> QED BY <1>4, <1>5, <1>6, <1>7, <1>8, <1>9 DEF Next, UserNext

\* A queue read back from disk holds each of its messages once, and the user has
\* typed no other.
LEMMA InitOnce == LoadedOnce /\ Init => OnceInv
<1> SUFFICES ASSUME LoadedOnce, Init PROVE OnceInv
    OBVIOUS
<1> DEFINE q == [i \in DOMAIN Loaded |-> [id |-> i - 1, msg |-> Loaded[i]]]
<1>1. Loaded \in Seq(Messages) /\ Len(Loaded) \in Nat /\ DOMAIN Loaded = 1 .. Len(Loaded)
    BY MessagesAssumption, LenProperties
<1>2. /\ session.queue = q /\ session.pending = <<>> /\ session.run = NoRun /\ session.entries = <<>>
      /\ session.forkPrompt = <<>> /\ session.forkSource = Forked
      /\ fresh = Messages \ ToSet(Loaded) /\ log = <<>>
    BY DEF Init
<1>3. Msgs(q) = Loaded
    BY <1>1 DEF Msgs
<1> HIDE DEF q
<1>4. session.run.prompt = <<>> /\ session.run.inbox = <<>> /\ session.run.phase = "none"
    BY <1>2 DEF NoRun, RunIn
<1>5. ~Marked(session)
    BY <1>2 DEF Marked
<1>6. ASSUME NEW v \in Messages PROVE Once(session, v, Elsewhere(v))
    <2> DEFINE D == {i \in DOMAIN Loaded : Loaded[i] = v}
    <2>1. IsFiniteSet(D) /\ Cardinality(D) = Occ(Loaded, v) /\ Occ(Loaded, v) \in Nat
        BY <1>1, OccNat DEF Occ
    <2>2. Occ(Loaded, v) + NotTyped(fresh, v) <= 1
        <3>1. CASE D = {}
            <4>1. Occ(Loaded, v) = 0
                BY <2>1, <3>1, FS_EmptySet
            <4> QED BY <4>1 DEF NotTyped
        <3>2. CASE D # {}
            <4>1. PICK i \in DOMAIN Loaded : Loaded[i] = v
                BY <3>2
            <4>2. D = {i}
                BY <4>1 DEF LoadedOnce
            <4>3. Cardinality({i}) = 1
                BY FS_Singleton
            <4>4. Occ(Loaded, v) = 1
                BY <2>1, <4>2, <4>3
            <4>5. v \in ToSet(Loaded)
                BY <4>1 DEF ToSet
            <4>6. NotTyped(fresh, v) = 0
                BY <1>2, <4>5 DEF NotTyped
            <4> QED BY <4>4, <4>6
        <3> QED BY <3>1, <3>2
    <2> HIDE DEF D
    <2>3. NotTyped(fresh, v) \in Nat
        BY DEF NotTyped
    <2>4. Copies(session, v) = Occ(Loaded, v) /\ Elsewhere(v) = NotTyped(fresh, v)
        <3>1. Copies(session, v) = Occ(Loaded, v) + 0 + 0 + 0 /\ Elsewhere(v) = 0 + NotTyped(fresh, v)
            BY <1>2, <1>3, <1>4, OccEmpty DEF Copies, Waits, Elsewhere
        <3> QED BY <2>1, <2>3, <3>1
    <2>5. Copies(session, v) + Elsewhere(v) <= Limit(session)
        BY <2>1, <2>2, <2>3, <2>4 DEF Limit
    <2> QED BY <1>2, <2>5, OccEmpty DEF Once
<1> QED BY <1>4, <1>5, <1>6, InitInv DEF OnceInv

\* Every step keeps the count.
LEMMA NextOnce == NothingResent /\ OnceInv /\ [Next]_vars => OnceInv'
<1> SUFFICES ASSUME NothingResent, OnceInv, [Next]_vars PROVE OnceInv'
    OBVIOUS
<1>1. CASE UNCHANGED vars
    BY <1>1, NextInv DEF vars, OnceInv, Elsewhere
<1>2. CASE Next
    <2>1. ASSUME NEW v \in Messages PROVE Once(session', v, Elsewhere(v)')
        BY <1>2, SendOnce, QueuePanelOnce, EditOnce, OtherUserOnce, TaskOnce, HarnessOnce DEF Next, UserNext
    <2>2. "fail" \notin Faults => session'.run.phase # "failed" /\ ~Marked(session')
        BY <1>2, FailureStep DEF OnceInv
    <2>3. Marked(session)' <=> Marked(session')
        BY DEF Marked
    <2> QED BY <1>2, <2>1, <2>2, <2>3, NextInv DEF OnceInv
<1> QED BY <1>1, <1>2

\* No agent is handed a message twice, whatever is queued, steered, requeued, edited,
\* stopped, crashed or replaced; a fork whose native session cannot be copied may hand
\* over its first prompt once more (deliver, StartRun, run_ended together).  The messages
\* read back from disk must be different ones, and none may be sent again by hand.
THEOREM NothingReadTwice ==
    ASSUME LoadedOnce, NothingResent
    PROVE  Spec => []ReadAtMostOnce
<1>1. Init => OnceInv
    BY InitOnce
<1>2. OnceInv /\ [Next]_vars => OnceInv'
    BY NextOnce
<1>3. OnceInv => ReadAtMostOnce
    <2> SUFFICES ASSUME OnceInv, NEW v \in Messages
                 PROVE  Cardinality({i \in DOMAIN log : log[i] = v}) <= IF Forked THEN 2 ELSE 1
        BY DEF ReadAtMostOnce
    <2>1. /\ session \in SessionType /\ Once(session, v, Elsewhere(v))
          /\ Occ(log, v) \in Nat /\ NotTyped(fresh, v) \in {0, 1}
        BY OnceInvTypes
    <2>2. Copies(session, v) + (Occ(log, v) + NotTyped(fresh, v)) <= IF Forked THEN 2 ELSE 1
        <3>1. Copies(session, v) + (Occ(log, v) + NotTyped(fresh, v)) <= Limit(session)
            BY <2>1 DEF Once, Elsewhere
        <3>2. Limit(session) <= (IF Forked THEN 2 ELSE 1)
            BY DEF Limit
        <3> QED BY <2>1, <3>1, <3>2, PartCounts
    <2>3. Occ(log, v) <= IF Forked THEN 2 ELSE 1
        BY <2>1, <2>2, PartCounts
    <2> QED BY <2>3 DEF Occ
<1> QED BY <1>1, <1>2, <1>3, PTL DEF Spec

-----------------------------------------------------------------------------
(* ReadInOrder: what is on its way to an agent stands in the order of the   *)
(* transcript, from what was read to what waits for a stop.                 *)

\* In transcript e, every entry of x is above every entry of y.
Before(e, x, y) == \A a, b \in DOMAIN e : e[a].msg = x /\ e[b].msg = y => a < b

\* The messages in transcript e.
Entered(e) == {e[a].msg : a \in DOMAIN e}

Known(e, f)       == \A i \in DOMAIN f : f[i] \in Entered(e)
Sorted(e, f)      == \A i, j \in DOMAIN f : i < j => Before(e, f[i], f[j])
Precedes(e, f, g) == \A i \in DOMAIN f : \A j \in DOMAIN g : Before(e, f[i], g[j])
Behind(e, f, m)   == \A i \in DOMAIN f : Before(e, f[i], m)

\* The log, the prompt, the steering channel and the prompt after a stop, in this order.
Lined(e, l, p, c, q) ==
    /\ Known(e, l) /\ Known(e, p) /\ Known(e, c) /\ Known(e, q)
    /\ Sorted(e, l) /\ Sorted(e, p) /\ Sorted(e, c) /\ Sorted(e, q)
    /\ Precedes(e, l, p) /\ Precedes(e, l, c) /\ Precedes(e, l, q)
    /\ Precedes(e, p, c) /\ Precedes(e, p, q) /\ Precedes(e, c, q)

\* Nothing is out of order in the empty sequence.
LEMMA EmptyLined ==
    ASSUME NEW e, NEW f
    PROVE  /\ Known(e, <<>>) /\ Sorted(e, <<>>)
           /\ Precedes(e, f, <<>>) /\ Precedes(e, <<>>, f)
BY DEF Known, Sorted, Precedes

\* A message that enters the transcript comes after all that was there.
LEMMA PushLined ==
    ASSUME NEW e \in Seq(EntryType), NEW x \in EntryType, x.msg \notin Entered(e)
    PROVE  LET u == Append(e, x)
           IN  /\ Entered(u) = Entered(e) \cup {x.msg}
               /\ \A f : Known(e, f) => Known(u, f) /\ Behind(u, f, x.msg)
               /\ \A f : Known(e, f) /\ Sorted(e, f) => Sorted(u, f)
               /\ \A f, g : Known(e, f) /\ Known(e, g) /\ Precedes(e, f, g) => Precedes(u, f, g)
<1> DEFINE u == Append(e, x)
           n == Len(e)
<1>1. n \in Nat /\ DOMAIN e = 1 .. n
    BY LenProperties
<1>2. DOMAIN u = 1 .. n + 1 /\ u[n + 1] = x /\ \A k \in 1 .. n : u[k] = e[k]
    BY <1>1, AppendProperties, LenProperties
<1> HIDE DEF u, n
<1>3. \A k \in DOMAIN u : k = n + 1 \/ (k \in DOMAIN e /\ u[k] = e[k])
    BY <1>1, <1>2
<1>4. \A k \in DOMAIN e : k \in DOMAIN u /\ u[k] = e[k] /\ k < n + 1
    BY <1>1, <1>2
<1>5. n + 1 \in DOMAIN u
    BY <1>1, <1>2
<1>6. Entered(u) = Entered(e) \cup {x.msg}
    BY <1>2, <1>3, <1>4, <1>5 DEF Entered
<1>7. \A y, z \in Entered(e) : Before(e, y, z) => Before(u, y, z)
    BY <1>2, <1>3 DEF Before, Entered
<1>8. \A y \in Entered(e) : Before(u, y, x.msg)
    <2> SUFFICES ASSUME NEW y \in Entered(e), NEW a \in DOMAIN u, NEW b \in DOMAIN u,
                        u[a].msg = y, u[b].msg = x.msg
                 PROVE  a < b
        BY DEF Before
    <2>1. b = n + 1
        BY <1>3 DEF Entered
    <2>2. a \in DOMAIN e
        BY <1>2, <1>3
    <2> QED BY <1>4, <2>1, <2>2
<1>9. ASSUME NEW f, Known(e, f) PROVE Known(u, f) /\ Behind(u, f, x.msg)
    BY <1>6, <1>8, <1>9 DEF Known, Behind
<1>10. ASSUME NEW f, Known(e, f), Sorted(e, f) PROVE Sorted(u, f)
    BY <1>7, <1>10 DEF Known, Sorted
<1>11. ASSUME NEW f, NEW g, Known(e, f), Known(e, g), Precedes(e, f, g) PROVE Precedes(u, f, g)
    BY <1>7, <1>11 DEF Known, Precedes
<1> QED BY <1>6, <1>9, <1>10, <1>11 DEF u

\* Where the elements of a prompt with one message more are.
LEMMA AppendElements ==
    ASSUME NEW f \in Prompts, NEW m \in Messages
    PROVE  LET g == Append(f, m)
           IN  /\ \A k \in DOMAIN g : (k \in DOMAIN f /\ g[k] = f[k]) \/ (k = Len(f) + 1 /\ g[k] = m)
               /\ \A k \in DOMAIN f : k < Len(f) + 1
<1>1. f \in Seq(Messages) /\ Len(f) \in Nat /\ DOMAIN f = 1 .. Len(f)
    BY LenProperties DEF Prompts
<1>2. /\ DOMAIN Append(f, m) = 1 .. Len(f) + 1 /\ Append(f, m)[Len(f) + 1] = m
      /\ \A k \in 1 .. Len(f) : f[k] = Append(f, m)[k]
    BY <1>1, AppendProperties, LenProperties
<1> QED BY <1>1, <1>2

\* A message behind a prompt is added to it.
LEMMA AppendLined ==
    ASSUME NEW e, NEW f \in Prompts, NEW m \in Messages
    PROVE  LET g == Append(f, m)
           IN  /\ Known(e, f) /\ m \in Entered(e) => Known(e, g)
               /\ Sorted(e, f) /\ Behind(e, f, m) => Sorted(e, g)
               /\ \A h : Precedes(e, h, f) /\ Behind(e, h, m) => Precedes(e, h, g)
               /\ \A h : Precedes(e, f, h) /\ Precedes(e, <<m>>, h) => Precedes(e, g, h)
<1> DEFINE g == Append(f, m)
           n == Len(f) + 1
<1>1. /\ \A k \in DOMAIN g : (k \in DOMAIN f /\ g[k] = f[k]) \/ (k = n /\ g[k] = m)
      /\ \A k \in DOMAIN f : k < n
    BY AppendElements
<1>2. n \in Nat /\ \A k \in DOMAIN f : k \in Nat
    <2>1. f \in Seq(Messages) /\ Len(f) \in Nat /\ DOMAIN f = 1 .. Len(f)
        BY LenProperties DEF Prompts
    <2> QED BY <2>1
<1> HIDE DEF g, n
<1>3. Known(e, f) /\ m \in Entered(e) => Known(e, g)
    BY <1>1 DEF Known
<1>4. Sorted(e, f) /\ Behind(e, f, m) => Sorted(e, g)
    <2> SUFFICES ASSUME Sorted(e, f), Behind(e, f, m), NEW i \in DOMAIN g, NEW j \in DOMAIN g, i < j
                 PROVE  Before(e, g[i], g[j])
        BY DEF Sorted
    <2>1. i \in DOMAIN f /\ g[i] = f[i]
        BY <1>1, <1>2
    <2> QED BY <1>1, <2>1 DEF Sorted, Behind
<1>5. \A h : Precedes(e, h, f) /\ Behind(e, h, m) => Precedes(e, h, g)
    BY <1>1 DEF Precedes, Behind
<1>6. ASSUME NEW h, Precedes(e, f, h), Precedes(e, <<m>>, h) PROVE Precedes(e, g, h)
    <2>1. \A j \in DOMAIN h : Before(e, m, h[j])
        <3>1. 1 \in DOMAIN <<m>> /\ <<m>>[1] = m
            OBVIOUS
        <3> QED BY <1>6, <3>1 DEF Precedes
    <2> QED BY <1>1, <1>6, <2>1 DEF Precedes
<1> QED BY <1>3, <1>4, <1>5, <1>6 DEF g

\* The first message of a channel is read before the others.
LEMMA TailLined ==
    ASSUME NEW e, NEW f \in Prompts, f # <<>>
    PROVE  /\ Head(f) \in Messages /\ Tail(f) \in Prompts
           /\ Known(e, f) => Known(e, Tail(f)) /\ Head(f) \in Entered(e)
           /\ Sorted(e, f) => Sorted(e, Tail(f)) /\ Precedes(e, <<Head(f)>>, Tail(f))
           /\ \A h : Precedes(e, h, f) => Precedes(e, h, Tail(f)) /\ Behind(e, h, Head(f))
           /\ \A h : Precedes(e, f, h) => Precedes(e, Tail(f), h) /\ Precedes(e, <<Head(f)>>, h)
<1> DEFINE g == Tail(f)
           m == Head(f)
           o == <<m>>
<1>1. f \in Seq(Messages) /\ Len(f) \in Nat /\ DOMAIN f = 1 .. Len(f)
    BY LenProperties DEF Prompts
<1>2. /\ g \in Seq(Messages) /\ m \in Messages /\ m = f[1] /\ Len(g) = Len(f) - 1
      /\ \A k \in 1 .. Len(f) - 1 : g[k] = f[k + 1]
    BY <1>1, HeadTailProperties
<1>3. DOMAIN g = 1 .. Len(f) - 1
    BY <1>2, LenProperties
<1>4. 1 \in DOMAIN f
    BY <1>1, EmptySeq
<1>5. \A k \in DOMAIN g : k + 1 \in DOMAIN f /\ g[k] = f[k + 1] /\ 1 < k + 1
    BY <1>1, <1>2, <1>3
<1>6. \A k, l \in DOMAIN g : k < l => k + 1 < l + 1
    BY <1>3
<1>7. \A k \in DOMAIN o : o[k] = f[1]
    BY <1>2
<1> HIDE DEF g, m, o
<1>8. Known(e, f) => Known(e, g) /\ m \in Entered(e)
    BY <1>2, <1>4, <1>5 DEF Known
<1>9. Sorted(e, f) => Sorted(e, g) /\ Precedes(e, o, g)
    BY <1>4, <1>5, <1>6, <1>7 DEF Sorted, Precedes
<1>10. ASSUME NEW h, Precedes(e, h, f) PROVE Precedes(e, h, g) /\ Behind(e, h, m)
    BY <1>2, <1>4, <1>5, <1>10 DEF Precedes, Behind
<1>11. ASSUME NEW h, Precedes(e, f, h) PROVE Precedes(e, g, h) /\ Precedes(e, o, h)
    BY <1>4, <1>5, <1>7, <1>11 DEF Precedes
<1> QED BY <1>2, <1>8, <1>9, <1>10, <1>11 DEF g, m, o, Prompts

\* One sequence after the other.
LEMMA ConcatLined ==
    ASSUME NEW e, NEW f \in Prompts, NEW g \in Prompts
    PROVE  /\ Known(e, f) /\ Known(e, g) => Known(e, f \o g)
           /\ Sorted(e, f) /\ Sorted(e, g) /\ Precedes(e, f, g) => Sorted(e, f \o g)
           /\ \A h : Precedes(e, f, h) /\ Precedes(e, g, h) => Precedes(e, f \o g, h)
<1> DEFINE c == f \o g
           m == Len(f)
           n == Len(g)
<1>1. /\ f \in Seq(Messages) /\ m \in Nat /\ DOMAIN f = 1 .. m
      /\ g \in Seq(Messages) /\ n \in Nat /\ DOMAIN g = 1 .. n
    BY LenProperties DEF Prompts
<1>2. /\ c \in Seq(Messages) /\ Len(c) = m + n
      /\ \A k \in 1 .. m + n : c[k] = IF k <= m THEN f[k] ELSE g[k - m]
    BY <1>1, ConcatProperties
<1>3. DOMAIN c = 1 .. m + n
    BY <1>2, LenProperties
<1> HIDE DEF c, m, n
<1>4. \A k \in DOMAIN c : \/ k <= m /\ k \in DOMAIN f /\ c[k] = f[k]
                          \/ k > m /\ k - m \in DOMAIN g /\ c[k] = g[k - m]
    BY <1>1, <1>2, <1>3
<1>5. \A k, l \in DOMAIN c : k < l => k - m < l - m /\ ~(k > m /\ l <= m)
    BY <1>1, <1>3
<1>6. Known(e, f) /\ Known(e, g) => Known(e, c)
    BY <1>4 DEF Known
<1>7. Sorted(e, f) /\ Sorted(e, g) /\ Precedes(e, f, g) => Sorted(e, c)
    BY <1>4, <1>5 DEF Sorted, Precedes
<1>8. ASSUME NEW h, Precedes(e, f, h), Precedes(e, g, h) PROVE Precedes(e, c, h)
    BY <1>4, <1>8 DEF Precedes
<1> QED BY <1>6, <1>7, <1>8 DEF c

-----------------------------------------------------------------------------
(* No method of the session sends messages in another order.                *)

\* The messages of a session: each is queued once at most, in the transcript only when
\* it is not queued any more, and not among the messages f not typed yet.
Apart(s, f) ==
    /\ \A x \in Messages : Waits(s.queue, x) <= 1
    /\ \A x \in f : Waits(s.queue, x) = 0
    /\ \A x \in Entered(s.entries) : x \notin f /\ Waits(s.queue, x) = 0

\* A message in hand.
Free(s, f, m) == m \notin f /\ m \notin Entered(s.entries) /\ Waits(s.queue, m) = 0

\* What is kept, l being what agents have read: a run that reads its steering channel
\* has sent its prompt.
Ord(s, l, f) ==
    /\ Lined(s.entries, l, s.run.prompt, s.run.inbox, s.pending)
    /\ s.run.phase \in {"live", "closing", "closed"} => s.run.prompt = <<>>
    /\ Apart(s, f)

\* Ord depends on nothing but these fields.
LEMMA SameOrd ==
    ASSUME NEW s, NEW t, NEW l, NEW f, Ord(s, l, f),
           t.entries = s.entries, t.queue = s.queue, t.pending = s.pending,
           t.run.prompt = s.run.prompt, t.run.inbox = s.run.inbox, t.run.phase = s.run.phase
    PROVE  Ord(t, l, f)
BY DEF Ord, Apart

\* Less is on its way: the run is gone, a channel is dropped or Stop takes back what waits.
LEMMA LessOrd ==
    ASSUME NEW s, NEW t, NEW l, NEW f, Ord(s, l, f),
           t.entries = s.entries, t.queue = s.queue,
           t.pending \in {s.pending, <<>>}, t.run.prompt \in {s.run.prompt, <<>>},
           t.run.inbox \in {s.run.inbox, <<>>},
           t.run.phase \in {"live", "closing", "closed"} =>
               t.run.phase = s.run.phase \/ s.run.phase \in {"live", "closing", "closed"} \/ t.run.prompt = <<>>
    PROVE  Ord(t, l, f)
<1>1. Lined(t.entries, l, t.run.prompt, t.run.inbox, t.pending)
    BY EmptyLined DEF Ord, Lined
<1> QED BY <1>1 DEF Ord, Apart

\* The transcript may change where its messages do not.
LEMMA SameMsgsOrd ==
    ASSUME NEW s, NEW t, NEW l, NEW f, Ord(s, l, f),
           DOMAIN t.entries = DOMAIN s.entries,
           \A k \in DOMAIN s.entries : t.entries[k].msg = s.entries[k].msg,
           t.queue = s.queue, t.pending = s.pending, t.run = s.run
    PROVE  Ord(t, l, f)
<1>1. Entered(t.entries) = Entered(s.entries)
    BY DEF Entered
<1>2. \A x, y : Before(s.entries, x, y) => Before(t.entries, x, y)
    BY DEF Before
<1>3. /\ \A g : Known(s.entries, g) => Known(t.entries, g)
      /\ \A g : Sorted(s.entries, g) => Sorted(t.entries, g)
      /\ \A g, h : Precedes(s.entries, g, h) => Precedes(t.entries, g, h)
    BY <1>1, <1>2 DEF Known, Sorted, Precedes
<1>4. Lined(t.entries, l, t.run.prompt, t.run.inbox, t.pending)
    BY <1>3 DEF Ord, Lined
<1> QED BY <1>1, <1>4 DEF Ord, Apart

\* push_notice and the mark of fail_run leave the messages of the transcript alone.
LEMMA TranscriptOrd ==
    ASSUME NEW s \in SessionType, NEW isError \in BOOLEAN, NEW l, NEW f, Ord(s, l, f)
    PROVE  Ord(PushEntry(s, isError), l, f) /\ Ord(MarkUndelivered(s), l, f)
<1> DEFINE n == Len(s.entries)
<1>1. s.entries \in Seq(EntryType) /\ n \in Nat /\ DOMAIN s.entries = 1 .. n
    BY LenProperties DEF SessionType
<1>2. Ord(PushEntry(s, isError), l, f)
    <2>1. CASE s.entries = <<>>
        BY <2>1 DEF PushEntry
    <2>2. CASE s.entries # <<>>
        <3> DEFINE z == IF isError /\ s.entries[n].tail # "mixed" THEN "errors" ELSE "mixed"
                   x == [s.entries[n] EXCEPT !.tail = z]
                   t == PushEntry(s, isError)
        <3>1. n \in DOMAIN s.entries
            BY <1>1, <2>2, EmptySeq
        <3>2. t.entries = [s.entries EXCEPT ![n] = x]
            BY <1>1, <2>2, <3>1 DEF PushEntry, SessionType
        <3>3. t.queue = s.queue /\ t.pending = s.pending /\ t.run = s.run
            BY DEF PushEntry, SessionType
        <3>4. x.msg = s.entries[n].msg
            BY <1>1, <3>1, ElementOfSeq DEF EntryType
        <3> HIDE DEF x, n, t
        <3>5. DOMAIN t.entries = DOMAIN s.entries /\ \A k \in DOMAIN s.entries : t.entries[k].msg = s.entries[k].msg
            BY <3>1, <3>2, <3>4
        <3>6. Ord(t, l, f)
            BY <3>3, <3>5, SameMsgsOrd
        <3> QED BY <3>6 DEF t
    <2> QED BY <2>1, <2>2
<1>3. Ord(MarkUndelivered(s), l, f)
    <2>1. CASE s.entries = <<>> \/ Last(s.entries).tail # "none"
        BY <2>1 DEF MarkUndelivered
    <2>2. CASE ~(s.entries = <<>> \/ Last(s.entries).tail # "none")
        <3> DEFINE x == [s.entries[n] EXCEPT !.undelivered = TRUE]
                   t == MarkUndelivered(s)
        <3>1. n \in DOMAIN s.entries
            BY <1>1, <2>2, EmptySeq
        <3>2. t.entries = [s.entries EXCEPT ![n] = x]
            BY <1>1, <2>2, <3>1 DEF MarkUndelivered, SessionType
        <3>3. t.queue = s.queue /\ t.pending = s.pending /\ t.run = s.run
            BY DEF MarkUndelivered, SessionType
        <3>4. x.msg = s.entries[n].msg
            BY <1>1, <3>1, ElementOfSeq DEF EntryType
        <3> HIDE DEF x, n, t
        <3>5. DOMAIN t.entries = DOMAIN s.entries /\ \A k \in DOMAIN s.entries : t.entries[k].msg = s.entries[k].msg
            BY <3>1, <3>2, <3>4
        <3>6. Ord(t, l, f)
            BY <3>3, <3>5, SameMsgsOrd
        <3> QED BY <3>6 DEF t
    <2> QED BY <2>1, <2>2
<1> QED BY <1>2, <1>3

\* Without a fork, a prompt waits for a stop only behind a run that is being stopped.
Held(s) == s.pending # <<>> => s.working /\ s.run.stopping

\* A message in hand enters the queue.
LEMMA EnqueueOrd ==
    ASSUME NEW s \in SessionType, NEW m \in Messages, NEW l, NEW f, Ord(s, l, f), Free(s, f, m)
    PROVE  Ord(Enqueue(s, m), l, f) /\ Ord(Requeue(s, m), l, f)
<1> DEFINE x == [id |-> s.nextId + 1, msg |-> m]
<1>1. x \in QueuedType /\ x.msg = m
    BY QueuedTypeNew
<1>2. /\ Enqueue(s, m).queue = Append(s.queue, x) /\ Requeue(s, m).queue = <<x>> \o s.queue
    BY DEF Enqueue, Requeue, SessionType
<1>3. ASSUME NEW t \in {Enqueue(s, m), Requeue(s, m)}
      PROVE  t.pending = s.pending /\ t.run = s.run /\ t.entries = s.entries
    <2>1. /\ Enqueue(s, m).pending = s.pending /\ Enqueue(s, m).run = s.run
          /\ Enqueue(s, m).entries = s.entries
        BY DEF Enqueue, SessionType
    <2>2. /\ Requeue(s, m).pending = s.pending /\ Requeue(s, m).run = s.run
          /\ Requeue(s, m).entries = s.entries
        BY DEF Requeue, SessionType
    <2> QED BY <2>1, <2>2
<1> HIDE DEF x
<1>4. ASSUME NEW t \in {Enqueue(s, m), Requeue(s, m)} PROVE Ord(t, l, f)
    <2>1. \A v : Waits(t.queue, v) = Waits(s.queue, v) + One(m, v)
        BY <1>1, <1>2, PartTypes, WaitsEnds
    <2>2. \A v : Waits(s.queue, v) \in Nat
        BY PartTypes, WaitsNat
    <2>3. Waits(t.queue, m) = 1 /\ \A v : v # m => Waits(t.queue, v) = Waits(s.queue, v)
        BY <2>1, <2>2 DEF Free, One
    <2>4. Apart(t, f)
        BY <1>3, <2>3 DEF Ord, Apart, Free
    <2> QED BY <1>3, <2>4 DEF Ord
<1> QED BY <1>4

\* A message taken from the queue is in hand.
LEMMA TakenOrd ==
    ASSUME NEW s \in SessionType, NEW i \in DOMAIN s.queue, NEW t,
           t.queue = RemoveAt(s.queue, i), t.pending = s.pending, t.run = s.run,
           t.entries = s.entries, NEW l, NEW f, Ord(s, l, f)
    PROVE  Ord(t, l, f) /\ Free(t, f, s.queue[i].msg)
<1> DEFINE m == s.queue[i].msg
<1>1. \A v : Waits(s.queue, v) = Waits(t.queue, v) + One(m, v)
    BY PartTypes, WaitsRemove
<1>2. t.queue \in Seq(QueuedType) /\ m \in Messages
    BY PartTypes, RemoveAtType, QueueItem
<1>3. \A v : Waits(t.queue, v) \in Nat
    BY <1>2, WaitsNat
<1> HIDE DEF m
<1>4. \A v : Waits(t.queue, v) <= Waits(s.queue, v) /\ (Waits(s.queue, v) = 0 => Waits(t.queue, v) = 0)
    BY <1>1, <1>3 DEF One
<1>5. Waits(s.queue, m) = Waits(t.queue, m) + 1
    BY <1>1 DEF One
<1>6. Waits(s.queue, m) <= 1 /\ Waits(s.queue, m) # 0
    BY <1>2, <1>3, <1>5 DEF Ord, Apart
<1>7. Free(t, f, m)
    BY <1>3, <1>5, <1>6 DEF Free, Ord, Apart
<1>8. \A v \in Messages : Waits(t.queue, v) <= 1
    <2> TAKE v \in Messages
    <2>1. Waits(s.queue, v) <= 1 /\ Waits(t.queue, v) \in Nat /\ One(m, v) \in {0, 1}
        BY <1>3, OneNat DEF Ord, Apart
    <2> QED BY <1>1, <2>1
<1>9. Apart(t, f)
    BY <1>4, <1>8 DEF Ord, Apart
<1> QED BY <1>7, <1>9 DEF Ord, m

\* move_queued.
LEMMA MoveOrd ==
    ASSUME NEW s \in SessionType, NEW i \in DOMAIN s.queue, NEW to \in Nat,
           NEW l, NEW f, Ord(s, l, f)
    PROVE  Ord(MoveTo(s, i, to), l, f)
<1> DEFINE u == MoveTo(s, i, to)
<1>1. u.pending = s.pending /\ u.run = s.run /\ u.entries = s.entries
    BY DEF MoveTo, SessionType
<1>2. \A v : Waits(u.queue, v) = Waits(s.queue, v)
    BY PartTypes, WaitsMove DEF MoveTo, SessionType
<1> HIDE DEF u
<1>3. Ord(u, l, f)
    BY <1>1, <1>2 DEF Ord, Apart
<1> QED BY <1>3 DEF u

\* StartRun hands a prompt to a new run, after what was read and before what waits.
LEMMA StartRunOrd ==
    ASSUME NEW s \in SessionType, NEW p, NEW l, NEW f, Ord(s, l, f),
           Known(s.entries, p), Sorted(s.entries, p),
           Precedes(s.entries, l, p), Precedes(s.entries, p, s.pending)
    PROVE  Ord(StartRun(s, p), l, f)
<1> DEFINE t == StartRun(s, p)
<1>1. /\ t.queue = s.queue /\ t.pending = s.pending /\ t.entries = s.entries
      /\ t.run.prompt = p /\ t.run.inbox = <<>> /\ t.run.phase = "starting"
    BY DEF StartRun, NewRun, RunIn, SessionType
<1> HIDE DEF t
<1>2. Lined(t.entries, l, t.run.prompt, t.run.inbox, t.pending)
    BY <1>1, EmptyLined DEF Ord, Lined
<1>3. Ord(t, l, f)
    BY <1>1, <1>2 DEF Ord, Apart
<1> QED BY <1>3 DEF t

\* A message in hand enters the transcript, behind everything on its way.
LEMMA PushOrd ==
    ASSUME NEW s \in SessionType, NEW m \in Messages, NEW l, NEW f, Ord(s, l, f), Free(s, f, m)
    PROVE  LET u == PushUser(s, m)
           IN  /\ Ord(u, l, f) /\ m \in Entered(u.entries)
               /\ Behind(u.entries, l, m) /\ Behind(u.entries, s.run.prompt, m)
               /\ Behind(u.entries, s.run.inbox, m) /\ Behind(u.entries, s.pending, m)
<1> DEFINE u == PushUser(s, m)
           x == [msg |-> m, undelivered |-> FALSE, tail |-> "none"]
           e == s.entries
           d == u.entries
<1>1. /\ d = Append(e, x) /\ u.queue = s.queue /\ u.pending = s.pending /\ u.run = s.run
    BY DEF PushUser, SessionType
<1>2. x \in EntryType /\ x.msg = m /\ e \in Seq(EntryType) /\ m \notin Entered(e)
    BY DEF EntryType, SessionType, Free
<1> HIDE DEF u, x, e, d
<1>3. /\ Entered(d) = Entered(e) \cup {m}
      /\ \A g : Known(e, g) => Known(d, g) /\ Behind(d, g, m)
      /\ \A g : Known(e, g) /\ Sorted(e, g) => Sorted(d, g)
      /\ \A g, h : Known(e, g) /\ Known(e, h) /\ Precedes(e, g, h) => Precedes(d, g, h)
    BY <1>1, <1>2, PushLined
<1>4. /\ Lined(d, l, s.run.prompt, s.run.inbox, s.pending)
      /\ Behind(d, l, m) /\ Behind(d, s.run.prompt, m)
      /\ Behind(d, s.run.inbox, m) /\ Behind(d, s.pending, m)
    BY <1>3 DEF Ord, Lined, e
<1>5. Apart(u, f)
    BY <1>1, <1>3 DEF Ord, Apart, Free, e, d
<1>6. Ord(u, l, f)
    BY <1>1, <1>4, <1>5 DEF Ord, d
<1> QED BY <1>3, <1>4, <1>6 DEF u, d

\* deliver, after its early return: the message goes behind the stop, into the
\* steering channel or to a new run.
LEMMA DispatchOrd ==
    ASSUME NEW s \in SessionType, Held(s), NEW m \in Messages,
           NEW l, NEW f, Ord(s, l, f), Free(s, f, m)
    PROVE  Ord(Dispatch(s, m), l, f)
<1> DEFINE u == PushUser(s, m)
           h == (u.restart /\ s.working)
           r == IF s.restart /\ ~s.working THEN NoRun ELSE s.run
           t == [PushUser(s, m) EXCEPT !.userStopped = FALSE,
                                       !.working = TRUE,
                                       !.restart = @ /\ s.working,
                                       !.run = IF s.restart /\ ~s.working THEN NoRun ELSE @]
           a == [t EXCEPT !.pending = Merge(@, m)]
           b == [t EXCEPT !.run.inbox = Append(@, m)]
           e == u.entries
<1>1. Dispatch(s, m) = IF t.run.stopping THEN a ELSE IF CanPush(t.run) THEN b ELSE StartRun(t, <<m>>)
    BY DEF Dispatch
<1>2. /\ u \in SessionType /\ u.queue = s.queue /\ u.pending = s.pending /\ u.run = s.run
    BY PushUserType DEF PushUser, SessionType
<1>3. /\ Ord(u, l, f) /\ m \in Entered(e)
      /\ Behind(e, l, m) /\ Behind(e, s.run.prompt, m)
      /\ Behind(e, s.run.inbox, m) /\ Behind(e, s.pending, m)
    BY PushOrd
<1>4. t = [u EXCEPT !.userStopped = FALSE, !.working = TRUE, !.restart = h, !.run = r]
    BY <1>2 DEF SessionType
<1>5. h \in BOOLEAN /\ r \in RunType /\ (r = NoRun \/ r = s.run) /\ (s.pending # <<>> => r = s.run)
    BY PartTypes, NoRunType DEF Held
<1> HIDE DEF u, h, r, t
<1>6. /\ t \in SessionType /\ t.queue = s.queue /\ t.pending = s.pending /\ t.run = r /\ t.entries = e
    BY <1>2, <1>4, <1>5 DEF SessionType
<1>7. NoRun.prompt = <<>> /\ NoRun.inbox = <<>> /\ NoRun.phase = "none"
    BY DEF NoRun, RunIn
<1> HIDE DEF e
<1>8. /\ Ord(t, l, f)
      /\ Behind(e, t.run.prompt, m) /\ Behind(e, t.run.inbox, m) /\ Behind(e, t.pending, m)
    <2>1. Behind(e, <<>>, m)
        BY DEF Behind
    <2>2. CASE r = s.run
        BY <1>2, <1>3, <1>6, <2>2, SameOrd DEF e
    <2>3. CASE r = NoRun
        BY <1>2, <1>3, <1>6, <1>7, <2>1, <2>3, LessOrd DEF e
    <2> QED BY <1>5, <2>2, <2>3
<1>9. Lined(e, l, t.run.prompt, t.run.inbox, t.pending)
    BY <1>6, <1>8 DEF Ord
<1>10. t.pending \in Prompts /\ t.run.inbox \in Prompts /\ t.run \in RunType
    BY <1>6, PartTypes
<1>11. ASSUME t.run.stopping PROVE Ord(a, l, f)
    <2> DEFINE g == Append(t.pending, m)
    <2>1. a.entries = e /\ a.queue = t.queue /\ a.run = t.run /\ a.pending = g
        BY <1>6 DEF Merge, SessionType
    <2>2. Known(e, g) /\ Sorted(e, g) /\ Precedes(e, l, g) /\ Precedes(e, t.run.prompt, g)
          /\ Precedes(e, t.run.inbox, g)
        BY <1>3, <1>8, <1>9, <1>10, AppendLined DEF Lined
    <2> HIDE DEF a, g
    <2>3. Lined(e, l, t.run.prompt, t.run.inbox, g)
        BY <1>9, <2>2 DEF Lined
    <2>4. Ord(a, l, f)
        BY <1>6, <1>8, <2>1, <2>3 DEF Ord, Apart
    <2> QED BY <2>4
<1>12. ASSUME ~t.run.stopping PROVE t.pending = <<>>
    BY <1>5, <1>6, <1>12 DEF Held
<1>13. ASSUME ~t.run.stopping PROVE Ord(b, l, f)
    <2> DEFINE g == Append(t.run.inbox, m)
               z == [t.run EXCEPT !.inbox = Append(@, m)]
    <2>1. b = [t EXCEPT !.run = z] /\ z.prompt = t.run.prompt /\ z.inbox = g /\ z.phase = t.run.phase
        BY <1>6, <1>10 DEF SessionType, RunType
    <2> HIDE DEF z
    <2>2. b.entries = e /\ b.queue = t.queue /\ b.pending = t.pending /\ b.run = z
        BY <1>6, <2>1 DEF SessionType
    <2>3. Known(e, g) /\ Sorted(e, g) /\ Precedes(e, l, g) /\ Precedes(e, t.run.prompt, g)
        BY <1>3, <1>8, <1>9, <1>10, AppendLined DEF Lined
    <2> HIDE DEF b, g
    <2>4. Lined(e, l, t.run.prompt, g, <<>>)
        BY <1>9, <2>3, EmptyLined DEF Lined
    <2>5. Ord(b, l, f)
        BY <1>6, <1>8, <1>12, <1>13, <2>1, <2>2, <2>4 DEF Ord, Apart
    <2> QED BY <2>5
<1>14. ASSUME ~t.run.stopping PROVE Ord(StartRun(t, <<m>>), l, f)
    <2> DEFINE g == <<m>>
    <2>1. \A k \in DOMAIN g : k = 1 /\ g[k] = m
        OBVIOUS
    <2> HIDE DEF g
    <2>2. Known(e, g) /\ Sorted(e, g) /\ Precedes(e, l, g)
        BY <1>3, <2>1 DEF Known, Sorted, Precedes, Behind
    <2>3. Precedes(e, g, t.pending)
        BY <1>12, <1>14, EmptyLined
    <2>4. Ord(StartRun(t, g), l, f)
        BY <1>6, <1>8, <2>2, <2>3, StartRunOrd
    <2> QED BY <2>4 DEF g
<1> HIDE DEF a, b
<1> QED BY <1>1, <1>11, <1>13, <1>14

\* deliver.
LEMMA DeliverOrd ==
    ASSUME NEW s \in SessionType, Held(s), NEW m \in Messages,
           NEW l, NEW f, Ord(s, l, f), Free(s, f, m)
    PROVE  Ord(Deliver(s, m), l, f)
BY EnqueueOrd, DispatchOrd DEF Deliver

\* take_next_queued and deliver.
LEMMA DeliverNextOrd ==
    ASSUME NEW s \in SessionType, Held(s), Sendable(s) # {}, NEW l, NEW f, Ord(s, l, f)
    PROVE  Ord(DeliverNext(s), l, f)
<1> DEFINE i == FirstSendable(s)
           t == [s EXCEPT !.queue = RemoveAt(@, i)]
<1>1. i \in DOMAIN s.queue
    BY FirstSendableExists DEF Sendable
<1>2. s.queue[i].msg \in Messages /\ t \in SessionType
    BY <1>1, QueueItem, DropQueuedType
<1>3. /\ t.queue = RemoveAt(s.queue, i) /\ t.pending = s.pending /\ t.run = s.run
      /\ t.entries = s.entries /\ t.working = s.working
    BY DEF SessionType
<1>4. DeliverNext(s) = Deliver(t, s.queue[i].msg)
    BY DEF DeliverNext
<1> HIDE DEF i, t
<1>5. Ord(t, l, f) /\ Free(t, f, s.queue[i].msg)
    BY <1>1, <1>3, TakenOrd
<1>6. Held(t)
    BY <1>3 DEF Held
<1> QED BY <1>2, <1>4, <1>5, <1>6, DeliverOrd

\* send_next_queued.
LEMMA SendNextQueuedOrd ==
    ASSUME NEW s \in SessionType, Held(s), NEW l, NEW f, Ord(s, l, f)
    PROVE  Ord(SendNextQueued(s), l, f)
BY DeliverNextOrd DEF SendNextQueued

\* send_message.
LEMMA SendMessageOrd ==
    ASSUME NEW s \in SessionType, Held(s), NEW m \in Messages, NEW steer,
           NEW l, NEW f, Ord(s, l, f), Free(s, f, m)
    PROVE  Ord(SendMessage(s, m, steer), l, f)
<1> DEFINE t == Enqueue(s, m)
<1>1. t \in SessionType /\ Ord(t, l, f)
    BY EnqueueType, EnqueueOrd
<1>2. t.pending = s.pending /\ t.run = s.run /\ t.working = s.working
    BY DEF Enqueue, SessionType
<1>3. Sendable(s) # {} => Sendable(t) # {}
    BY EnqueueSendable
<1> HIDE DEF t
<1>4. Held(t)
    BY <1>2 DEF Held
<1>5. SendMessage(s, m, steer) =
        IF s.working /\ HasRun(s) /\ ~s.run.stopping
        THEN IF steer THEN Deliver(s, m) ELSE t
        ELSE IF ~s.run.stopping /\ Sendable(s) # {} THEN DeliverNext(t)
        ELSE Deliver(s, m)
    BY DEF SendMessage, t
<1> QED BY <1>1, <1>3, <1>4, <1>5, DeliverOrd, DeliverNextOrd

\* run_ended.  Without a fork there is no prompt to fall back to.
LEMMA RunEndedOrd ==
    ASSUME NEW s \in SessionType, s.forkPrompt = <<>>, NEW l, NEW f, Ord(s, l, f)
    PROVE  Ord(RunEnded(s), l, f)
<1> DEFINE e == [s EXCEPT !.run = NoRun, !.forkFailed = FALSE]
           d == [e EXCEPT !.pending = <<>>, !.working = TRUE]
           i == Idle(e)
<1>1. <<>> \in Prompts
    BY DEF Prompts
<1>2. /\ e \in SessionType /\ e.queue = s.queue /\ e.pending = s.pending /\ e.run = NoRun
      /\ e.entries = s.entries
    BY NoRunType DEF SessionType
<1>3. RunEnded(s) = IF s.pending # <<>> /\ ~s.deleted THEN StartPending(e)
                    ELSE IF s.userStopped THEN i
                    ELSE SendNextQueued(i)
    BY DEF RunEnded
<1>4. StartPending(e) = StartRun(d, e.pending)
    BY DEF StartPending
<1> HIDE DEF e
<1>5. /\ d \in SessionType /\ d.queue = s.queue /\ d.pending = <<>> /\ d.run = NoRun /\ d.entries = s.entries
    BY <1>1, <1>2 DEF SessionType
<1>6. /\ i \in SessionType /\ i.queue = s.queue /\ i.pending = <<>> /\ i.run = NoRun /\ i.entries = s.entries
    BY <1>1, <1>2 DEF Idle, SessionType
<1> HIDE DEF d, i
<1>7. NoRun.prompt = <<>> /\ NoRun.inbox = <<>> /\ NoRun.phase = "none"
    BY DEF NoRun, RunIn
<1>8. Ord(d, l, f) /\ Ord(i, l, f)
    BY <1>5, <1>6, <1>7, LessOrd
<1>9. Ord(StartPending(e), l, f)
    <2>1. /\ Known(d.entries, s.pending) /\ Sorted(d.entries, s.pending)
          /\ Precedes(d.entries, l, s.pending) /\ Precedes(d.entries, s.pending, d.pending)
        BY <1>5, EmptyLined DEF Ord, Lined
    <2> QED BY <1>2, <1>4, <1>5, <1>8, <2>1, StartRunOrd
<1>10. Held(i)
    BY <1>6 DEF Held
<1> QED BY <1>3, <1>6, <1>8, <1>9, <1>10, SendNextQueuedOrd

\* fail_run.
LEMMA FailRunOrd ==
    ASSUME NEW s \in SessionType, s.forkPrompt = <<>>, NEW l, NEW f, Ord(s, l, f)
    PROVE  Ord(FailRun(s), l, f)
<1> DEFINE u == MarkUndelivered(s)
           w == PushEntry(u, TRUE)
<1>1. u \in SessionType /\ Ord(u, l, f)
    BY MarkUndeliveredType, TranscriptOrd
<1>2. u.forkPrompt = <<>>
    BY TranscriptOnce DEF SameParts
<1>3. FailRun(s) = RunEnded(w)
    BY DEF FailRun, ForkPending
<1> HIDE DEF u
<1>4. w \in SessionType /\ Ord(w, l, f) /\ w.forkPrompt = <<>>
    <2>1. SameParts(u, w)
        BY <1>1, TranscriptOnce
    <2> QED BY <1>1, <1>2, <2>1, PushEntryType, TranscriptOrd DEF SameParts
<1> HIDE DEF w
<1> QED BY <1>3, <1>4, RunEndedOrd

\* A Done event.
LEMMA TurnDoneOrd ==
    ASSUME NEW s \in SessionType, Held(s), NEW status \in DoneEvents, NEW l, NEW f, Ord(s, l, f)
    PROVE  Ord(TurnDone(s, status), l, f)
<1> DEFINE e == EndReport(s, status)
           w == (s.pending # <<>>)
           d == [e EXCEPT !.working = w]
<1>1. e \in SessionType /\ Ord(e, l, f) /\ e.pending = s.pending /\ e.run = s.run
    <2>1. /\ e \in SessionType /\ e.pending = s.pending /\ e.run = s.run
          /\ e \in {SetNativeId(s), PushEntry(s, TRUE), s}
        BY EndReportFields
    <2>2. Ord(SetNativeId(s), l, f)
        BY SetNativeIdFields, SameOrd
    <2>3. Ord(PushEntry(s, TRUE), l, f)
        BY TranscriptOrd
    <2> HIDE DEF e
    <2> QED BY <2>1, <2>2, <2>3
<1>2. TurnDone(s, status) = IF status = "interrupted" THEN d ELSE SendNextQueued(d)
    BY DEF TurnDone
<1>3. w \in BOOLEAN
    OBVIOUS
<1> HIDE DEF e
<1>4. /\ d \in SessionType /\ d.entries = e.entries /\ d.queue = e.queue /\ d.pending = e.pending
      /\ d.run = e.run /\ (d.working <=> s.pending # <<>>)
    BY <1>1, <1>3 DEF SessionType
<1> HIDE DEF d, w
<1>5. Ord(d, l, f)
    BY <1>1, <1>4, SameOrd
<1>6. Held(d)
    BY <1>1, <1>4 DEF Held
<1> QED BY <1>2, <1>4, <1>5, <1>6, SendNextQueuedOrd

\* apply_event.
LEMMA ApplyEventOrd ==
    ASSUME NEW s \in SessionType, Held(s), NEW ev \in Events, NEW l, NEW f, Ord(s, l, f)
    PROVE  Ord(ApplyEvent(s, ev), l, f)
<1> DEFINE a == SetNativeId(s)
           b == Resume(s)
           k == (s.restart \/ Claude)
           c == [s EXCEPT !.restart = k]
           d == [s EXCEPT !.forkFailed = TRUE]
<1>1. k \in BOOLEAN
    OBVIOUS
<1>2. c = [s EXCEPT !.restart = @ \/ Claude]
    BY DEF SessionType
<1> HIDE DEF k
<1>3. /\ a.entries = s.entries /\ a.queue = s.queue /\ a.pending = s.pending /\ a.run = s.run
      /\ d.entries = s.entries /\ d.queue = s.queue /\ d.pending = s.pending /\ d.run = s.run
    BY SetNativeIdFields DEF SessionType
<1>4. b \in SessionType /\ b.entries = s.entries /\ b.queue = s.queue /\ b.pending = s.pending /\ b.run = s.run
    BY DEF Resume, SessionType
<1>5. c \in SessionType /\ c.entries = s.entries /\ c.queue = s.queue /\ c.pending = s.pending /\ c.run = s.run
    BY <1>1 DEF SessionType
<1>6. ApplyEvent(s, ev) \in {a, PushEntry(b, FALSE), b, s, PushEntry(s, TRUE), PushEntry(c, FALSE), d}
        \/ (ev \in DoneEvents /\ ApplyEvent(s, ev) = TurnDone(s, ev))
    BY <1>2 DEF ApplyEvent, Events, DoneEvents, ResumeEvents
<1> HIDE DEF a, b, c, d
<1>7. Ord(a, l, f) /\ Ord(b, l, f) /\ Ord(c, l, f) /\ Ord(d, l, f)
    BY <1>3, <1>4, <1>5, SameOrd
<1>8. Ord(PushEntry(b, FALSE), l, f) /\ Ord(PushEntry(c, FALSE), l, f) /\ Ord(PushEntry(s, TRUE), l, f)
    BY <1>4, <1>5, <1>7, TranscriptOrd
<1>9. ev \in DoneEvents => Ord(TurnDone(s, ev), l, f)
    BY TurnDoneOrd
<1> QED BY <1>6, <1>7, <1>8, <1>9

-----------------------------------------------------------------------------
(* ReadInOrder.                                                             *)

\* The inductive invariant behind ReadInOrder, for a chat that is no fork.
OrderInv == OnceInv /\ Ord(session, log, fresh)

\* What OrderInv says, with the types.
LEMMA OrderInvTypes ==
    ASSUME ~Forked, OrderInv
    PROVE  /\ session \in SessionType /\ fresh \subseteq Messages /\ log \in Prompts
           /\ stale \in Seq(Events \cup {"ended"}) /\ view \in Nat \cup {NoId}
           /\ Held(session) /\ session.forkPrompt = <<>> /\ Ord(session, log, fresh)
BY DEF OrderInv, OnceInv, SessionInv, TypeOK, Coherent, GaveUpSource, Held

\* What the user types is a message in hand.
LEMMA TypedFree ==
    ASSUME NEW s, NEW l, NEW f, NEW m \in f, f \subseteq Messages, Ord(s, l, f)
    PROVE  m \in Messages /\ Ord(s, l, f \ {m}) /\ Free(s, f \ {m}, m)
BY DEF Ord, Apart, Free

\* Sending.  Nothing is retried.
LEMMA SendOrder ==
    ASSUME ~Forked, NothingResent, OrderInv, NEW steer \in SteerModes,
           \/ \E m \in fresh : Send(m, steer)
           \/ \E i \in DOMAIN session.entries : Retry(i, steer)
    PROVE  Ord(session', log', fresh')
<1>1. ASSUME NEW m \in fresh, Send(m, steer) PROVE Ord(session', log', fresh')
    <2>1. session' = SendMessage(session, m, steer) /\ fresh' = fresh \ {m} /\ log' = log
        BY <1>1 DEF Send
    <2>2. m \in Messages /\ Ord(session, log, fresh') /\ Free(session, fresh', m)
        BY <2>1, OrderInvTypes, TypedFree
    <2> QED BY <2>1, <2>2, OrderInvTypes, SendMessageOrd
<1>2. ASSUME NEW i \in DOMAIN session.entries, Retry(i, steer) PROVE FALSE
    <2>1. "retry" \in UserOps /\ session.entries[i].undelivered
        BY <1>2 DEF Retry, Allowed
    <2> QED BY <2>1 DEF NothingResent, OrderInv, OnceInv, Marked
<1> QED BY <1>1, <1>2

\* The queue panel.
LEMMA QueuePanelOrder ==
    ASSUME ~Forked, OrderInv, NEW i \in DOMAIN session.queue,
           \/ SteerQueued(i) \/ SendQueuedNow(i) \/ RemoveQueued(i) \/ BeginEdit(i)
           \/ \E to \in 0 .. Len(session.queue) : MoveQueued(i, to)
    PROVE  Ord(session', log', fresh')
<1> DEFINE t == TakeQueued(session, i)
           m == session.queue[i].msg
<1>1. session \in SessionType /\ Held(session) /\ Ord(session, log, fresh)
    BY OrderInvTypes
<1>2. log' = log /\ fresh' = fresh
    BY DEF SteerQueued, SendQueuedNow, RemoveQueued, BeginEdit, MoveQueued
<1>3. m \in Messages /\ t \in SessionType
    BY <1>1, QueueItem, TakeQueuedType
<1>4. /\ t.queue = RemoveAt(session.queue, i) /\ t.pending = session.pending /\ t.run = session.run
      /\ t.entries = session.entries /\ t.working = session.working
    BY <1>1 DEF TakeQueued, SessionType
<1> HIDE DEF t
<1>5. Ord(t, log, fresh) /\ Free(t, fresh, m)
    BY <1>1, <1>4, TakenOrd
<1>6. Held(t)
    BY <1>1, <1>4 DEF Held
<1>7. CASE SteerQueued(i)
    <2>1. session' = Deliver(t, m)
        BY <1>7 DEF SteerQueued, t
    <2> HIDE DEF m
    <2> QED BY <1>2, <1>3, <1>5, <1>6, <2>1, DeliverOrd
<1>8. CASE SendQueuedNow(i)
    <2> DEFINE r == [t.run EXCEPT !.stopping = TRUE]
               d == [t EXCEPT !.run = r]
               c == IF t.working /\ HasRun(t) THEN d ELSE t
    <2>1. d = [t EXCEPT !.run.stopping = TRUE]
        BY <1>3 DEF SessionType
    <2>2. session' = Deliver(c, m)
        BY <1>8, <2>1 DEF SendQueuedNow, t
    <2> HIDE DEF m
    <2>3. /\ r \in RunType /\ r.prompt = t.run.prompt /\ r.inbox = t.run.inbox
          /\ r.phase = t.run.phase /\ r.stopping
        BY <1>3, PartTypes DEF RunType
    <2> HIDE DEF r
    <2>4. /\ d \in SessionType /\ d.entries = t.entries /\ d.queue = t.queue /\ d.pending = t.pending
          /\ d.run = r /\ d.working = t.working
        BY <1>3, <2>3 DEF SessionType
    <2> HIDE DEF d
    <2>5. Ord(d, log, fresh) /\ Free(d, fresh, m) /\ Held(d)
        BY <1>5, <1>6, <2>3, <2>4, SameOrd DEF Free, Held
    <2>6. c \in SessionType /\ Ord(c, log, fresh) /\ Free(c, fresh, m) /\ Held(c)
        BY <1>3, <1>5, <1>6, <2>4, <2>5
    <2> HIDE DEF c
    <2> QED BY <1>2, <1>3, <2>2, <2>6, DeliverOrd
<1>9. CASE RemoveQueued(i)
    BY <1>2, <1>5, <1>9 DEF RemoveQueued, t
<1>10. CASE BeginEdit(i)
    <2>1. /\ session'.entries = session.entries /\ session'.queue = session.queue
          /\ session'.pending = session.pending /\ session'.run = session.run
        BY <1>1, <1>10 DEF BeginEdit, SessionType
    <2> QED BY <1>1, <1>2, <2>1, SameOrd
<1>11. ASSUME NEW to \in 0 .. Len(session.queue), MoveQueued(i, to)
       PROVE  Ord(session', log', fresh')
    <2>1. to \in Nat /\ session' = MoveTo(session, i, to)
        BY <1>1, <1>11, PartTypes DEF MoveQueued
    <2> QED BY <1>1, <1>2, <2>1, MoveOrd
<1> QED BY <1>7, <1>8, <1>9, <1>10, <1>11

\* Ending an edit: the new text enters the queue, as a new message or for an old one.
LEMMA EditOrder ==
    ASSUME ~Forked, OrderInv, CancelEdit \/ \E m \in fresh : SaveEdit(m)
    PROVE  Ord(session', log', fresh')
<1> DEFINE e == IF session.editing = view THEN NoId ELSE session.editing
           s == [session EXCEPT !.editing = e]
<1>1. /\ session \in SessionType /\ fresh \subseteq Messages /\ view \in Nat \cup {NoId}
      /\ Ord(session, log, fresh)
    BY OrderInvTypes
<1>2. e \in Nat \cup {NoId}
    BY <1>1 DEF SessionType
<1>3. s = [session EXCEPT !.editing = IF @ = view THEN NoId ELSE @]
    BY <1>1 DEF SessionType
<1> HIDE DEF e
<1>4. /\ s \in SessionType /\ s.entries = session.entries /\ s.queue = session.queue
      /\ s.pending = session.pending /\ s.run = session.run
    BY <1>1, <1>2 DEF SessionType
<1> HIDE DEF s
<1>5. Ord(s, log, fresh)
    BY <1>1, <1>4, SameOrd
<1>6. CASE CancelEdit
    <2>1. session' = s /\ log' = log /\ fresh' = fresh
        BY <1>3, <1>6 DEF CancelEdit
    <2> QED BY <1>5, <2>1
<1>7. ASSUME NEW m \in fresh, SaveEdit(m) PROVE Ord(session', log', fresh')
    <2>1. /\ session' = Enqueue(s, m) \/ \E i \in DOMAIN s.queue : session' = [s EXCEPT !.queue[i].msg = m]
          /\ fresh' = fresh \ {m} /\ log' = log
        BY <1>3, <1>7 DEF SaveEdit
    <2>2. m \in Messages /\ Ord(s, log, fresh') /\ Free(s, fresh', m)
        BY <1>1, <1>5, <2>1, TypedFree
    <2>3. CASE session' = Enqueue(s, m)
        BY <1>4, <2>1, <2>2, <2>3, EnqueueOrd
    <2>4. ASSUME NEW i \in DOMAIN s.queue, session' = [s EXCEPT !.queue[i].msg = m]
          PROVE  Ord(session', log', fresh')
        <3> DEFINE q == [s.queue EXCEPT ![i].msg = m]
        <3>1. session' = [s EXCEPT !.queue = q] /\ s.queue \in Seq(QueuedType)
            BY <1>4, <2>4 DEF SessionType
        <3>2. \A v : Waits(q, v) <= Waits(s.queue, v) + One(m, v)
            BY <2>2, <3>1, WaitsReplace
        <3>3. q \in Seq(QueuedType)
            <4>1. [s.queue[i] EXCEPT !.msg = m] \in QueuedType
                BY <1>4, <2>2, QueueItem DEF QueuedType
            <4>2. q = [s.queue EXCEPT ![i] = [s.queue[i] EXCEPT !.msg = m]]
                OBVIOUS
            <4> QED BY <3>1, <4>1, <4>2
        <3> HIDE DEF q
        <3>4. /\ session'.entries = s.entries /\ session'.queue = q /\ session'.pending = s.pending
              /\ session'.run = s.run
            BY <1>4, <3>1 DEF SessionType
        <3>5. \A v : Waits(q, v) \in Nat /\ Waits(s.queue, v) \in Nat
            BY <3>1, <3>3, WaitsNat
        <3>6. \A v : v # m => Waits(q, v) <= Waits(s.queue, v)
            BY <3>2, <3>5 DEF One
        <3>7. Waits(q, m) <= 1
            BY <2>2, <3>2, <3>5 DEF One, Free
        <3>8. \A v \in Messages : Waits(q, v) <= 1
            <4> TAKE v \in Messages
            <4>1. Waits(s.queue, v) <= 1
                BY <2>2 DEF Ord, Apart
            <4> QED BY <3>5, <3>6, <3>7, <4>1
        <3>9. \A v : v # m /\ Waits(s.queue, v) = 0 => Waits(q, v) = 0
            BY <3>5, <3>6
        <3>10. Apart(session', fresh')
            BY <2>2, <3>4, <3>8, <3>9 DEF Ord, Apart, Free
        <3> QED BY <2>1, <2>2, <3>4, <3>10 DEF Ord
    <2> QED BY <2>1, <2>3, <2>4
<1> QED BY <1>6, <1>7

\* Stop, a change of settings and a deletion drop what waits, if anything.
LEMMA OtherUserOrder ==
    ASSUME ~Forked, OrderInv, Stop \/ ChangeSettings \/ Delete
    PROVE  Ord(session', log', fresh')
<1>1. session \in SessionType /\ Ord(session, log, fresh)
    BY OrderInvTypes
<1>2. log' = log /\ fresh' = fresh
    BY DEF Stop, ChangeSettings, Delete
<1>3. session.run \in RunType /\ NoRun.prompt = <<>> /\ NoRun.inbox = <<>> /\ NoRun.phase = "none"
    BY <1>1, PartTypes DEF NoRun, RunIn
<1>4. /\ session'.entries = session.entries /\ session'.queue = session.queue
      /\ session'.pending \in {session.pending, <<>>}
      /\ \/ session'.run = NoRun
         \/ /\ session'.run.prompt = session.run.prompt /\ session'.run.inbox = session.run.inbox
            /\ session'.run.phase = session.run.phase
    <2>1. CASE Stop
        BY <1>1, <1>3, <2>1 DEF Stop, SessionType, RunType
    <2>2. CASE ChangeSettings
        BY <1>1, <2>2 DEF ChangeSettings, SessionType
    <2>3. CASE Delete
        BY <1>1, <2>3 DEF Delete, SessionType
    <2> QED BY <2>1, <2>2, <2>3
<1>5. Ord(session', log, fresh)
    BY <1>1, <1>3, <1>4, LessOrd
<1> QED BY <1>2, <1>5

\* The events task.
LEMMA TaskOrder ==
    ASSUME ~Forked, OrderInv, TaskNext
    PROVE  Ord(session', log', fresh')
<1>1. /\ session \in SessionType /\ Held(session) /\ session.forkPrompt = <<>>
      /\ Ord(session, log, fresh) /\ stale \in Seq(Events \cup {"ended"})
    BY OrderInvTypes
<1>2. log' = log /\ fresh' = fresh
    BY DEF TaskNext, ReceiveEvent, ReceiveStale, ReceiveEnd, ReceiveFailure
<1>3. CASE ReceiveEvent
    <2> DEFINE r == session.run
               q == [r EXCEPT !.out = Tail(r.out)]
               c == [session EXCEPT !.run = q]
    <2>1. r.out # <<>> /\ session' = ApplyEvent([session EXCEPT !.run.out = Tail(@)], Head(r.out))
        BY <1>3 DEF ReceiveEvent
    <2>2. c = [session EXCEPT !.run.out = Tail(@)]
        BY <1>1 DEF SessionType
    <2>3. r \in RunType /\ r.out \in Seq(Events)
        BY <1>1 DEF SessionType, RunType
    <2>4. Head(r.out) \in Events /\ Tail(r.out) \in Seq(Events)
        BY <2>1, <2>3, HeadTailProperties
    <2>5. /\ q \in RunType /\ q.prompt = r.prompt /\ q.inbox = r.inbox /\ q.phase = r.phase
          /\ q.stopping = r.stopping
        BY <2>3, <2>4 DEF RunType
    <2> HIDE DEF q
    <2>6. /\ c \in SessionType /\ c.entries = session.entries /\ c.queue = session.queue
          /\ c.pending = session.pending /\ c.run = q /\ c.working = session.working
        BY <1>1, <2>5 DEF SessionType
    <2> HIDE DEF c
    <2>7. Ord(c, log, fresh)
        BY <1>1, <2>5, <2>6, SameOrd
    <2>8. Held(c)
        BY <1>1, <2>5, <2>6 DEF Held
    <2> HIDE DEF r
    <2> QED BY <1>2, <2>1, <2>2, <2>4, <2>6, <2>7, <2>8, ApplyEventOrd
<1>4. CASE ReceiveStale
    <2>1. stale # <<>> /\ Head(stale) \in Events \cup {"ended"}
        BY <1>1, <1>4, HeadTailProperties DEF ReceiveStale
    <2>2. \/ session' = RunEnded(session)
          \/ Head(stale) \in Events /\ session' = ApplyEvent(session, Head(stale))
        BY <1>4, <2>1 DEF ReceiveStale
    <2> QED BY <1>1, <1>2, <2>2, RunEndedOrd, ApplyEventOrd
<1>5. CASE ReceiveEnd \/ ReceiveFailure
    <2>1. session' = RunEnded(session) \/ session' = FailRun(session)
        BY <1>5 DEF ReceiveEnd, ReceiveFailure
    <2> QED BY <1>1, <1>2, <2>1, RunEndedOrd, FailRunOrd
<1> QED BY <1>3, <1>4, <1>5 DEF TaskNext

\* The harness reads its prompt, then its steering channel, or drops what it has.
LEMMA HarnessOrder ==
    ASSUME ~Forked, OrderInv, HarnessNext
    PROVE  Ord(session', log', fresh')
<1> DEFINE e == session.entries
           q == session.pending
           r == session.run
           z == session'.run
           P == {"live", "closing", "closed"}
<1>1. session \in SessionType /\ Ord(session, log, fresh) /\ log \in Prompts
    BY OrderInvTypes
<1>2. r \in RunType /\ r.prompt \in Prompts /\ r.inbox \in Prompts
    BY <1>1, PartTypes
<1>3. \E x : session' = [session EXCEPT !.run = x] /\ fresh' = fresh
    BY DEF HarnessNext, HarnessStart, HarnessFail, HarnessEmit, HarnessTakeSteer, HarnessTurnEnd,
           HarnessInterrupt, HarnessCrash, HarnessClose, Harness
<1>4. session'.entries = e /\ session'.queue = session.queue /\ session'.pending = q /\ fresh' = fresh
    BY <1>1, <1>3 DEF SessionType
<1>5. \A x : Harness(x) => z = x
    BY <1>1 DEF Harness, SessionType
<1>6. \/ z.prompt = <<>> /\ z.inbox = r.inbox /\ log' = log \o r.prompt
      \/ /\ r.phase = "live" /\ r.inbox # <<>> /\ z.phase = "live"
         /\ z.prompt = r.prompt /\ z.inbox = Tail(r.inbox) /\ log' = Append(log, Head(r.inbox))
      \/ /\ z.prompt = r.prompt /\ z.inbox \in {r.inbox, <<>>} /\ log' = log
         /\ z.phase \in P => r.phase \in P
    <2> HIDE DEF z
    <2>1. ASSUME NEW named \in BOOLEAN, HarnessStart(named)
          PROVE  z.prompt = <<>> /\ z.inbox = r.inbox /\ log' = log \o r.prompt
        BY <1>2, <1>5, <2>1 DEF HarnessStart, RunType
    <2>2. CASE HarnessTakeSteer
        BY <1>2, <1>5, <2>2 DEF HarnessTakeSteer, RunType
    <2>3. ASSUME \/ HarnessFail \/ \E ev \in Chatter : HarnessEmit(ev)
                 \/ \E status \in {"completed", "errored"} : HarnessTurnEnd(status)
                 \/ HarnessInterrupt \/ HarnessCrash \/ HarnessClose
          PROVE  /\ z.prompt = r.prompt /\ z.inbox \in {r.inbox, <<>>} /\ log' = log
                 /\ z.phase \in P => r.phase \in P
        BY <1>2, <1>5, <2>3 DEF HarnessFail, HarnessEmit, HarnessTurnEnd, HarnessInterrupt,
                                HarnessCrash, HarnessClose, RunType
    <2> QED BY <2>1, <2>2, <2>3 DEF HarnessNext
<1>7. Lined(e, log, r.prompt, r.inbox, q) /\ (r.phase \in P => r.prompt = <<>>)
    BY <1>1 DEF Ord
<1> HIDE DEF e, q, r, z, P
<1>8. CASE z.prompt = <<>> /\ z.inbox = r.inbox /\ log' = log \o r.prompt
    <2>1. /\ Known(e, log \o r.prompt) /\ Sorted(e, log \o r.prompt)
          /\ Precedes(e, log \o r.prompt, r.inbox) /\ Precedes(e, log \o r.prompt, q)
        BY <1>1, <1>2, <1>7, ConcatLined DEF Lined
    <2>2. Lined(e, log', z.prompt, z.inbox, q)
        BY <1>7, <1>8, <2>1, EmptyLined DEF Lined
    <2> QED BY <1>1, <1>4, <1>8, <2>2 DEF Ord, Apart, e, q, z
<1>9. CASE /\ r.phase = "live" /\ r.inbox # <<>> /\ z.phase = "live"
           /\ z.prompt = r.prompt /\ z.inbox = Tail(r.inbox) /\ log' = Append(log, Head(r.inbox))
    <2> DEFINE m == Head(r.inbox)
               c == Tail(r.inbox)
    <2>1. /\ m \in Messages /\ m \in Entered(e) /\ Known(e, c) /\ Sorted(e, c)
          /\ Behind(e, log, m) /\ Precedes(e, log, c) /\ Precedes(e, <<m>>, c)
          /\ Precedes(e, c, q) /\ Precedes(e, <<m>>, q)
        BY <1>2, <1>7, <1>9, TailLined DEF Lined
    <2>2. r.prompt = <<>>
        BY <1>7, <1>9 DEF P
    <2> HIDE DEF m, c
    <2>3. /\ Known(e, Append(log, m)) /\ Sorted(e, Append(log, m))
          /\ Precedes(e, Append(log, m), c) /\ Precedes(e, Append(log, m), q)
        BY <1>1, <1>7, <2>1, AppendLined DEF Lined
    <2>4. Lined(e, Append(log, m), <<>>, c, q)
        BY <1>7, <2>1, <2>3, EmptyLined DEF Lined
    <2>5. Lined(e, log', z.prompt, z.inbox, q)
        BY <1>9, <2>2, <2>4 DEF m, c
    <2> QED BY <1>1, <1>4, <1>9, <2>2, <2>5 DEF Ord, Apart, e, q, z
<1>10. CASE /\ z.prompt = r.prompt /\ z.inbox \in {r.inbox, <<>>} /\ log' = log
            /\ z.phase \in P => r.phase \in P
    <2>1. Lined(e, log', z.prompt, z.inbox, q)
        BY <1>7, <1>10, EmptyLined DEF Lined
    <2>2. z.phase \in P => z.prompt = <<>>
        BY <1>7, <1>10
    <2> QED BY <1>1, <1>4, <2>1, <2>2 DEF Ord, Apart, e, q, z, P
<1> QED BY <1>6, <1>8, <1>9, <1>10

\* Nothing is on its way at first.
LEMMA InitOrder == ~Forked /\ LoadedOnce /\ Init => OrderInv
<1> SUFFICES ASSUME ~Forked, LoadedOnce, Init PROVE OrderInv
    OBVIOUS
<1>1. OnceInv
    BY InitOnce
<1>2. /\ session.entries = <<>> /\ session.pending = <<>> /\ session.run = NoRun /\ log = <<>>
      /\ fresh = Messages \ ToSet(Loaded)
    BY DEF Init
<1>3. session.run.prompt = <<>> /\ session.run.inbox = <<>> /\ session.run.phase = "none"
    BY <1>2 DEF NoRun, RunIn
<1>4. Lined(session.entries, log, session.run.prompt, session.run.inbox, session.pending)
    BY <1>2, <1>3, EmptyLined DEF Lined
<1>5. Entered(session.entries) = {}
    BY <1>2 DEF Entered
<1>6. ASSUME NEW v \in Messages
      PROVE  Waits(session.queue, v) <= 1 /\ (v \in fresh => Waits(session.queue, v) = 0)
    <2>1. /\ session \in SessionType /\ Once(session, v, Elsewhere(v))
          /\ Occ(log, v) \in Nat /\ NotTyped(fresh, v) \in {0, 1}
        BY <1>1, OnceInvTypes
    <2>2. Copies(session, v) + (Occ(log, v) + NotTyped(fresh, v)) <= 1
        BY <2>1 DEF Once, Elsewhere, Limit
    <2>3. Waits(session.queue, v) \in Nat /\ Copies(session, v) = Waits(session.queue, v)
        <3>1. Copies(session, v) = Waits(session.queue, v) + 0 + 0 + 0
            BY <1>2, <1>3, OccEmpty DEF Copies
        <3> QED BY <2>1, <3>1, PartCounts
    <2>4. v \in fresh => NotTyped(fresh, v) = 1
        BY DEF NotTyped
    <2> QED BY <2>1, <2>2, <2>3, <2>4
<1>7. Apart(session, fresh)
    BY <1>2, <1>5, <1>6 DEF Apart
<1> QED BY <1>1, <1>3, <1>4, <1>7 DEF OrderInv, Ord

\* Every step keeps the order.
LEMMA NextOrder == ~Forked /\ NothingResent /\ OrderInv /\ [Next]_vars => OrderInv'
<1> SUFFICES ASSUME ~Forked, NothingResent, OrderInv, [Next]_vars PROVE OrderInv'
    OBVIOUS
<1>1. OnceInv'
    BY NextOnce DEF OrderInv
<1>2. Ord(session', log', fresh')
    <2>1. CASE UNCHANGED vars
        BY <2>1 DEF vars, OrderInv
    <2>2. CASE Next
        BY <2>2, SendOrder, QueuePanelOrder, EditOrder, OtherUserOrder, TaskOrder, HarnessOrder
           DEF Next, UserNext
    <2> QED BY <2>1, <2>2
<1>3. Ord(session, log, fresh)' <=> Ord(session', log', fresh')
    BY DEF Ord, Apart, Lined
<1> QED BY <1>1, <1>2, <1>3 DEF OrderInv

\* Agents read messages in the order of the transcript, whatever waited for a stop, was
\* steered, merged or handed to a new run (deliver, start_run, run_ended together).  A
\* fork's fallback reads its first prompt again, and Retry may hand out again what
\* fail_run marked by mistake: neither is covered.
THEOREM ReadAsWritten ==
    ASSUME ~Forked, LoadedOnce, NothingResent
    PROVE  Spec => []ReadInOrder
<1>1. Init => OrderInv
    BY InitOrder
<1>2. OrderInv /\ [Next]_vars => OrderInv'
    BY NextOrder
<1>3. OrderInv => ReadInOrder
    <2> SUFFICES ASSUME OrderInv, NEW i \in DOMAIN log, NEW j \in DOMAIN log, i < j,
                        NEW a \in EntryAt(log[i]), NEW b \in EntryAt(log[j])
                 PROVE  a < b
        BY DEF ReadInOrder
    <2>1. Before(session.entries, log[i], log[j])
        BY DEF OrderInv, Ord, Lined, Sorted
    <2> QED BY <2>1 DEF Before, EntryAt
<1> QED BY <1>1, <1>2, <1>3, PTL DEF Spec

-----------------------------------------------------------------------------
(* IdleMeansIdle and NothingLost, as long as no run is replaced while its   *)
(* events are still applied.                                                *)

\* What makes the session start a run beside one that goes on: a full steering channel,
\* new settings or a compaction, which ask for a new process, and an agent that quits.
\* Where any one of them happens, IdleMeansIdle can fail.
Undisturbed ==
    /\ Len(session.run.inbox) < SteerCap
    /\ ~session.restart
    /\ session.run.phase \in {"closing", "closed"} => session.run.stopping

\* No turn end comes after event i of o.
Quiet(o, i) == \A j \in DOMAIN o : j > i => o[j] \notin DoneEvents

\* An event is coming that will make the chat work.
Coming(o) == \E i \in DOMAIN o : o[i] \in ResumeEvents /\ Quiet(o, i)

Shown(s) == (s.working /\ Quiet(s.run.out, 0)) \/ Coming(s.run.out)

\* A run is left, or its prompt waits, only while the chat knows of it, and a run that
\* has begun has sent its prompt.
Steady(s) ==
    /\ ~s.restart
    /\ s.run.phase \in {"closing", "closed"} => s.run.stopping
    /\ s.run.phase = "closed" => s.run.inbox = <<>>
    /\ s.run.phase \in {"live", "closing", "closed"} => s.run.prompt = <<>>
    /\ s.run.phase = "starting" => s.working

Smooth(s) == Steady(s) /\ (s.run.phase = "live" /\ s.run.turn => Shown(s))

Fits(s) == Len(s.run.inbox) < SteerCap

\* No method replaces a run whose events are being applied.
Begun == {"live", "closing", "closed"}

SamePhase(s, t) == s.run.phase \in Begun => t.run.phase = s.run.phase

\* Smooth depends on nothing but these fields, and working does no harm.
LEMMA SameSmooth ==
    ASSUME NEW s, NEW t, Smooth(s), t.restart => s.restart, t.run = s.run, s.working => t.working
    PROVE  Smooth(t) /\ SamePhase(s, t)
BY DEF Smooth, Steady, Shown, SamePhase

\* A new run.
LEMMA StartRunSmooth ==
    ASSUME NEW s \in SessionType, NEW p, s.working
    PROVE  Smooth(StartRun(s, p))
<1> DEFINE t == StartRun(s, p)
<1>1. /\ t.restart = FALSE /\ t.working = s.working
      /\ t.run.phase = "starting" /\ t.run.out = <<>>
    BY DEF StartRun, NewRun, RunIn, SessionType
<1> HIDE DEF t
<1>2. Smooth(t)
    BY <1>1 DEF Smooth, Steady
<1> QED BY <1>2 DEF t

\* deliver, after its early return: a run that goes on takes the message.
LEMMA DispatchSmooth ==
    ASSUME NEW s \in SessionType, Smooth(s), NEW m \in Messages, Fits(s)
    PROVE  Smooth(Dispatch(s, m)) /\ SamePhase(s, Dispatch(s, m))
<1> DEFINE u == PushUser(s, m)
           t == [PushUser(s, m) EXCEPT !.userStopped = FALSE,
                                       !.working = TRUE,
                                       !.restart = @ /\ s.working,
                                       !.run = IF s.restart /\ ~s.working THEN NoRun ELSE @]
           a == [t EXCEPT !.pending = Merge(@, m)]
           b == [t EXCEPT !.run.inbox = Append(@, m)]
<1>1. Dispatch(s, m) = IF t.run.stopping THEN a ELSE IF CanPush(t.run) THEN b ELSE StartRun(t, <<m>>)
    BY DEF Dispatch
<1>2. u \in SessionType /\ u.run = s.run /\ u.restart = s.restart /\ ~s.restart
    BY PushUserType DEF PushUser, SessionType, Smooth, Steady
<1>3. t = [u EXCEPT !.userStopped = FALSE, !.working = TRUE, !.restart = FALSE, !.run = s.run]
    BY <1>2 DEF SessionType
<1> HIDE DEF u, t
<1>4. t \in SessionType /\ t.run = s.run /\ t.working = TRUE /\ t.restart = FALSE
    <2>1. s.run \in RunType
        BY PartTypes
    <2> QED BY <1>2, <1>3, <2>1 DEF SessionType
<1>5. Smooth(a) /\ SamePhase(s, a)
    <2>1. a.run = s.run /\ a.working /\ a.restart = s.restart
        BY <1>2, <1>4 DEF SessionType
    <2> HIDE DEF a
    <2> QED BY <2>1, SameSmooth
<1>6. ASSUME CanPush(t.run) PROVE Smooth(b) /\ SamePhase(s, b)
    <2> DEFINE z == [t.run EXCEPT !.inbox = Append(@, m)]
    <2>1. s.run \in RunType
        BY PartTypes
    <2>2. /\ b = [t EXCEPT !.run = z] /\ z.phase = s.run.phase /\ z.stopping = s.run.stopping
          /\ z.turn = s.run.turn /\ z.out = s.run.out /\ z.prompt = s.run.prompt
        BY <1>4, <2>1 DEF SessionType, RunType
    <2> HIDE DEF z
    <2>3. b.run = z /\ b.working /\ ~b.restart
        BY <1>4, <2>2 DEF SessionType
    <2> HIDE DEF b
    <2>4. s.run.phase # "closed"
        BY <1>4, <1>6 DEF CanPush
    <2> QED BY <2>2, <2>3, <2>4 DEF Smooth, Steady, Shown, SamePhase
<1>7. ASSUME ~t.run.stopping, ~CanPush(t.run) PROVE s.run.phase \notin Begun
    BY <1>4, <1>7 DEF Smooth, Steady, Begun, CanPush, Fits
<1>8. ASSUME ~t.run.stopping, ~CanPush(t.run)
      PROVE  Smooth(StartRun(t, <<m>>)) /\ SamePhase(s, StartRun(t, <<m>>))
    BY <1>4, <1>7, <1>8, StartRunSmooth DEF SamePhase
<1> HIDE DEF a, b
<1> QED BY <1>1, <1>5, <1>6, <1>8

\* deliver.
LEMMA DeliverSmooth ==
    ASSUME NEW s \in SessionType, Smooth(s), NEW m \in Messages, Fits(s)
    PROVE  Smooth(Deliver(s, m)) /\ SamePhase(s, Deliver(s, m))
<1>1. Requeue(s, m).run = s.run /\ Requeue(s, m).restart = s.restart /\ Requeue(s, m).working = s.working
    BY DEF Requeue, SessionType
<1>2. Smooth(Requeue(s, m)) /\ SamePhase(s, Requeue(s, m))
    BY <1>1, SameSmooth
<1> QED BY <1>2, DispatchSmooth DEF Deliver

\* take_next_queued and deliver.
LEMMA DeliverNextSmooth ==
    ASSUME NEW s \in SessionType, Smooth(s), Sendable(s) # {}, Fits(s)
    PROVE  Smooth(DeliverNext(s)) /\ SamePhase(s, DeliverNext(s))
<1> DEFINE i == FirstSendable(s)
           t == [s EXCEPT !.queue = RemoveAt(@, i)]
<1>1. i \in DOMAIN s.queue
    BY FirstSendableExists DEF Sendable
<1>2. s.queue[i].msg \in Messages /\ t \in SessionType
    BY <1>1, QueueItem, DropQueuedType
<1>3. t.run = s.run /\ t.restart = s.restart /\ t.working = s.working
    BY DEF SessionType
<1>4. DeliverNext(s) = Deliver(t, s.queue[i].msg)
    BY DEF DeliverNext
<1> HIDE DEF i, t
<1>5. Smooth(t) /\ Fits(t)
    BY <1>3, SameSmooth DEF Fits
<1>6. Smooth(Deliver(t, s.queue[i].msg)) /\ SamePhase(t, Deliver(t, s.queue[i].msg))
    BY <1>2, <1>5, DeliverSmooth
<1> QED BY <1>3, <1>4, <1>6 DEF SamePhase

\* send_next_queued.
LEMMA SendNextQueuedSmooth ==
    ASSUME NEW s \in SessionType, Smooth(s), s.queue # <<>> => Fits(s)
    PROVE  Smooth(SendNextQueued(s)) /\ SamePhase(s, SendNextQueued(s))
<1>1. Sendable(s) # {} => s.queue # <<>>
    BY DEF Sendable
<1> QED BY <1>1, DeliverNextSmooth DEF SendNextQueued, SamePhase

\* send_message.
LEMMA SendMessageSmooth ==
    ASSUME NEW s \in SessionType, Smooth(s), NEW m \in Messages, Fits(s), NEW steer
    PROVE  Smooth(SendMessage(s, m, steer))
<1> DEFINE t == Enqueue(s, m)
<1>1. t \in SessionType /\ (Sendable(s) # {} => Sendable(t) # {})
    BY EnqueueType, EnqueueSendable
<1>2. t.run = s.run /\ t.restart = s.restart /\ t.working = s.working
    BY DEF Enqueue, SessionType
<1> HIDE DEF t
<1>3. Smooth(t) /\ Fits(t)
    BY <1>2, SameSmooth DEF Fits
<1>4. SendMessage(s, m, steer) =
        IF s.working /\ HasRun(s) /\ ~s.run.stopping
        THEN IF steer THEN Deliver(s, m) ELSE t
        ELSE IF ~s.run.stopping /\ Sendable(s) # {} THEN DeliverNext(t)
        ELSE Deliver(s, m)
    BY DEF SendMessage, t
<1> QED BY <1>1, <1>3, <1>4, DeliverSmooth, DeliverNextSmooth

\* run_ended: the run is over, and a new one begins or none.
LEMMA RunEndedSmooth ==
    ASSUME NEW s \in SessionType, ~s.restart
    PROVE  Smooth(RunEnded(s))
<1> DEFINE e == [s EXCEPT !.run = NoRun, !.forkFailed = FALSE]
           d == [e EXCEPT !.pending = <<>>, !.working = TRUE]
           c == [e EXCEPT !.forkSource = FALSE, !.working = TRUE]
           i == Idle(e)
<1>1. <<>> \in Prompts
    BY DEF Prompts
<1>2. e \in SessionType /\ e.run = NoRun /\ ~e.restart
    BY NoRunType DEF SessionType
<1>3. RunEnded(s) = IF s.forkFailed /\ s.forkPrompt # <<>> /\ ~s.deleted THEN StartRun(c, e.forkPrompt)
                    ELSE IF s.pending # <<>> /\ ~s.deleted THEN StartRun(d, e.pending)
                    ELSE IF s.userStopped THEN i
                    ELSE SendNextQueued(i)
    BY DEF RunEnded, ForkFallback, StartPending
<1> HIDE DEF e
<1>4. c \in SessionType /\ c.working /\ d \in SessionType /\ d.working
    BY <1>1, <1>2 DEF SessionType
<1>5. i \in SessionType /\ i.run = NoRun /\ ~i.restart
    BY <1>1, <1>2 DEF Idle, SessionType
<1> HIDE DEF c, d, i
<1>6. NoRun.phase = "none" /\ NoRun.inbox = <<>> /\ NoRun.out = <<>>
    BY DEF NoRun, RunIn
<1>7. Smooth(i) /\ Fits(i)
    BY <1>5, <1>6, BoundsAssumption DEF Smooth, Steady, Fits
<1>8. Smooth(StartRun(c, e.forkPrompt)) /\ Smooth(StartRun(d, e.pending))
    BY <1>4, StartRunSmooth
<1> QED BY <1>3, <1>5, <1>7, <1>8, SendNextQueuedSmooth

\* fail_run.
LEMMA FailRunSmooth ==
    ASSUME NEW s \in SessionType, ~s.restart
    PROVE  Smooth(FailRun(s))
<1> DEFINE f == [s EXCEPT !.forkFailed = TRUE]
           u == MarkUndelivered(s)
           w == PushEntry(u, TRUE)
<1>1. f \in SessionType /\ ~f.restart
    BY DEF SessionType
<1>2. u \in SessionType /\ u.restart = s.restart
    BY MarkUndeliveredType DEF MarkUndelivered, SessionType
<1>3. FailRun(s) = IF ForkPending(s) THEN RunEnded(f) ELSE RunEnded(w)
    BY DEF FailRun
<1> HIDE DEF f, u
<1>4. w \in SessionType /\ w.restart = u.restart
    BY <1>2, PushEntryType DEF PushEntry, SessionType
<1> HIDE DEF w
<1> QED BY <1>1, <1>2, <1>3, <1>4, RunEndedSmooth

-----------------------------------------------------------------------------
(* The events of a run, applied by the task of that run.                    *)

\* Applying the first event leaves what it said of itself, or what the others say.
LEMMA TailQuiet ==
    ASSUME NEW o \in Seq(Events), o # <<>>
    PROVE  /\ Head(o) \in Events /\ Tail(o) \in Seq(Events)
           /\ Quiet(o, 0) => Head(o) \notin DoneEvents /\ Quiet(Tail(o), 0)
           /\ Coming(o) => Coming(Tail(o)) \/ (Head(o) \in ResumeEvents /\ Quiet(Tail(o), 0))
<1> DEFINE n == Len(o)
           t == Tail(o)
<1>1. /\ n \in Nat /\ n # 0 /\ DOMAIN o = 1 .. n /\ DOMAIN t = 1 .. n - 1
      /\ \A i \in 1 .. n - 1 : t[i] = o[i + 1]
      /\ Head(o) = o[1] /\ Head(o) \in Events /\ t \in Seq(Events)
    BY HeadTailProperties, EmptySeq, LenProperties
<1> HIDE DEF n, t
<1>2. \A j \in DOMAIN t : j + 1 \in DOMAIN o /\ j > 0 /\ j + 1 > 1 /\ j + 1 > 0 /\ t[j] = o[j + 1]
    BY <1>1
<1>3. 1 \in DOMAIN o /\ 1 > 0
    BY <1>1
<1>4. Quiet(o, 0) => Head(o) \notin DoneEvents
    BY <1>1, <1>3 DEF Quiet
<1>5. Quiet(o, 0) \/ Quiet(o, 1) => Quiet(t, 0)
    BY <1>2 DEF Quiet
<1>6. ASSUME NEW i \in DOMAIN o, i # 1, o[i] \in ResumeEvents, Quiet(o, i) PROVE Coming(t)
    <2>1. i - 1 \in DOMAIN t /\ t[i - 1] = o[i]
        BY <1>1, <1>6
    <2>2. \A j \in DOMAIN t : j > i - 1 => j + 1 > i
        BY <1>1, <1>6
    <2>3. Quiet(t, i - 1)
        BY <1>2, <1>6, <2>2 DEF Quiet
    <2> QED BY <1>6, <2>1, <2>3 DEF Coming
<1>7. Coming(o) => Coming(t) \/ (Head(o) \in ResumeEvents /\ Quiet(t, 0))
    BY <1>1, <1>5, <1>6 DEF Coming
<1> QED BY <1>1, <1>4, <1>5, <1>7 DEF t

\* An event that ends no turn joins the others.
LEMMA AppendQuiet ==
    ASSUME NEW o \in Seq(Events), NEW ev \in Events \ DoneEvents
    PROVE  /\ Quiet(o, 0) => Quiet(Append(o, ev), 0)
           /\ Coming(o) \/ ev \in ResumeEvents => Coming(Append(o, ev))
<1> DEFINE n == Len(o)
           a == Append(o, ev)
<1>1. /\ n \in Nat /\ DOMAIN o = 1 .. n /\ DOMAIN a = 1 .. n + 1
      /\ \A i \in 1 .. n : a[i] = o[i]
      /\ a[n + 1] = ev
    BY AppendProperties, LenProperties
<1> HIDE DEF n, a
<1>2. \A j \in DOMAIN a : (j \in DOMAIN o /\ a[j] = o[j]) \/ (j = n + 1 /\ a[j] = ev)
    BY <1>1
<1>3. \A i : Quiet(o, i) => Quiet(a, i)
    BY <1>2 DEF Quiet
<1>4. \A i \in DOMAIN o : i \in DOMAIN a /\ a[i] = o[i]
    BY <1>1
<1>5. Coming(o) => Coming(a)
    BY <1>3, <1>4 DEF Coming
<1>6. n + 1 \in DOMAIN a /\ Quiet(a, n + 1)
    BY <1>1 DEF Quiet
<1>7. ev \in ResumeEvents => Coming(a)
    BY <1>1, <1>6 DEF Coming
<1> QED BY <1>3, <1>5, <1>7 DEF a

\* Enough for ev, just taken from the events of a run, to leave the chat working.
After(s, ev) ==
    \/ Coming(s.run.out)
    \/ Quiet(s.run.out, 0) /\ ev \notin DoneEvents /\ (s.working \/ ev \in ResumeEvents)

\* A Done event: the turn it ends is over, and a later one shows itself.
LEMMA TurnDoneSmooth ==
    ASSUME NEW s \in SessionType, Steady(s), Fits(s), s.run.phase \in Begun, NEW status \in DoneEvents,
           s.run.phase = "live" /\ s.run.turn => After(s, status)
    PROVE  Smooth(TurnDone(s, status)) /\ SamePhase(s, TurnDone(s, status))
<1> DEFINE e == EndReport(s, status)
           w == (s.pending # <<>>)
           d == [e EXCEPT !.working = w]
<1>1. e \in SessionType /\ e.pending = s.pending /\ e.run = s.run /\ e.restart = s.restart
    BY EndReportFields
<1>2. TurnDone(s, status) = IF status = "interrupted" THEN d ELSE SendNextQueued(d)
    BY DEF TurnDone
<1>3. w \in BOOLEAN
    OBVIOUS
<1> HIDE DEF e, w
<1>4. d \in SessionType /\ d.run = s.run /\ d.restart = s.restart
    BY <1>1, <1>3 DEF SessionType
<1> HIDE DEF d
<1>5. Smooth(d) /\ Fits(d)
    BY <1>4 DEF Smooth, Steady, Fits, Begun, After, Shown
<1>6. Smooth(SendNextQueued(d)) /\ SamePhase(d, SendNextQueued(d))
    BY <1>4, <1>5, SendNextQueuedSmooth
<1> QED BY <1>2, <1>4, <1>5, <1>6 DEF SamePhase

\* apply_event, unless it asks for a new process.
LEMMA ApplyEventSmooth ==
    ASSUME NEW s \in SessionType, Steady(s), Fits(s), s.run.phase \in Begun, NEW ev \in Events,
           s.run.phase = "live" /\ s.run.turn => After(s, ev),
           ~ApplyEvent(s, ev).restart
    PROVE  Smooth(ApplyEvent(s, ev)) /\ SamePhase(s, ApplyEvent(s, ev))
<1> DEFINE a == SetNativeId(s)
           b == Resume(s)
           k == (s.restart \/ Claude)
           c == [s EXCEPT !.restart = k]
           d == [s EXCEPT !.forkFailed = TRUE]
           r == ApplyEvent(s, ev)
<1>1. k \in BOOLEAN
    OBVIOUS
<1>2. c = [s EXCEPT !.restart = @ \/ Claude]
    BY DEF SessionType
<1> HIDE DEF k
<1>3. a.run = s.run /\ a.working = s.working /\ d.run = s.run /\ d.working = s.working
    BY SetNativeIdFields DEF SessionType
<1>4. b \in SessionType /\ b.run = s.run /\ b.working
    BY DEF Resume, SessionType
<1>5. c \in SessionType /\ c.run = s.run /\ c.working = s.working
    BY <1>1 DEF SessionType
<1>6. \/ ev \in DoneEvents /\ r = TurnDone(s, ev)
      \/ ev \in ResumeEvents /\ r \in {b, PushEntry(b, FALSE)}
      \/ ev \notin DoneEvents \cup ResumeEvents /\ r \in {a, s, PushEntry(s, TRUE), PushEntry(c, FALSE)}
      \/ ev \in DoneEvents /\ r = d
    BY <1>2 DEF ApplyEvent, Events, DoneEvents, ResumeEvents
<1> HIDE DEF a, b, c, d
<1>7. \A x \in SessionType, y \in BOOLEAN : PushEntry(x, y).run = x.run /\ PushEntry(x, y).working = x.working
    BY DEF PushEntry, SessionType
<1>8. \/ ev \in DoneEvents /\ r = TurnDone(s, ev)
      \/ ev \in ResumeEvents /\ r.run = s.run /\ r.working
      \/ ev \notin DoneEvents \cup ResumeEvents /\ r.run = s.run /\ r.working = s.working
      \/ ev \in DoneEvents /\ r.run = s.run
    BY <1>3, <1>4, <1>5, <1>6, <1>7
<1>9. ~r.restart
    OBVIOUS
<1> HIDE DEF r
<1>10. CASE ev \in DoneEvents /\ r = TurnDone(s, ev)
    BY <1>10, TurnDoneSmooth DEF r
<1>11. CASE ~(ev \in DoneEvents /\ r = TurnDone(s, ev))
    <2>1. /\ r.run = s.run
          /\ s.run.phase = "live" /\ s.run.turn => Shown(r)
        BY <1>8, <1>11 DEF After, Shown
    <2>2. Smooth(r) /\ SamePhase(s, r)
        BY <1>9, <2>1 DEF Smooth, Steady, Begun, SamePhase
    <2> QED BY <2>2 DEF r
<1> QED BY <1>10, <1>11

-----------------------------------------------------------------------------
(* IdleMeansIdle.                                                           *)

\* The inductive invariant behind IdleMeansIdle, as long as nothing disturbs the runs.
CalmInv == SessionInv /\ stale = <<>> /\ Smooth(session)

\* What CalmInv and Undisturbed say, with the types.
LEMMA CalmTypes ==
    ASSUME CalmInv, Undisturbed
    PROVE  /\ session \in SessionType /\ fresh \subseteq Messages /\ session.run \in RunType
           /\ Coherent(session) /\ Steady(session) /\ Fits(session) /\ ~session.restart
BY PartTypes DEF CalmInv, Undisturbed, SessionInv, TypeOK, Smooth, Steady, Fits

\* send and retry_undelivered.
LEMMA SendCalm ==
    ASSUME CalmInv, Undisturbed, NEW steer \in SteerModes,
           \/ \E m \in fresh : Send(m, steer)
           \/ \E i \in DOMAIN session.entries : Retry(i, steer)
    PROVE  Smooth(session')
<1>1. session \in SessionType /\ fresh \subseteq Messages /\ Fits(session) /\ Smooth(session)
    BY CalmTypes DEF CalmInv
<1>2. ASSUME NEW m \in fresh, Send(m, steer) PROVE Smooth(session')
    BY <1>1, <1>2, SendMessageSmooth DEF Send
<1>3. ASSUME NEW i \in DOMAIN session.entries, Retry(i, steer) PROVE Smooth(session')
    <2> DEFINE e == session.entries[i]
               rest == [session EXCEPT !.entries = RemoveAt(@, i)]
               mixed == [rest EXCEPT !.entries[i - 1].tail = "mixed"]
               kept == IF e.tail = "mixed" /\ i > 1
                       THEN [rest EXCEPT !.entries[i - 1].tail = "mixed"] ELSE rest
    <2>1. session' = SendMessage(kept, e.msg, steer)
        BY <1>3 DEF Retry
    <2>2. e.msg \in Messages
        <3>1. e \in EntryType
            BY <1>1, EntryDropType
        <3> QED BY <3>1 DEF EntryType
    <2>3. rest \in SessionType /\ (i > 1 => mixed \in SessionType)
        BY <1>1, EntryDropType
    <2>4. /\ rest.run = session.run /\ rest.restart = session.restart /\ rest.working = session.working
          /\ mixed.run = session.run /\ mixed.restart = session.restart
          /\ mixed.working = session.working
        BY <1>1 DEF SessionType
    <2>5. kept = IF e.tail = "mixed" /\ i > 1 THEN mixed ELSE rest
        OBVIOUS
    <2> HIDE DEF e, rest, mixed, kept
    <2>6. /\ kept \in SessionType /\ kept.run = session.run /\ kept.restart = session.restart
          /\ kept.working = session.working
        BY <2>3, <2>4, <2>5
    <2>7. Smooth(kept) /\ Fits(kept)
        BY <1>1, <2>6, SameSmooth DEF Fits
    <2> QED BY <2>1, <2>2, <2>6, <2>7, SendMessageSmooth
<1> QED BY <1>2, <1>3

\* The interrupt token of a run is cancelled.
LEMMA InterruptSmooth ==
    ASSUME NEW s \in SessionType, Smooth(s)
    PROVE  /\ [s EXCEPT !.run.stopping = TRUE] \in SessionType
           /\ Smooth([s EXCEPT !.run.stopping = TRUE])
           /\ Fits(s) => Fits([s EXCEPT !.run.stopping = TRUE])
<1> DEFINE r == [s.run EXCEPT !.stopping = TRUE]
           t == [s EXCEPT !.run = r]
<1>1. t = [s EXCEPT !.run.stopping = TRUE]
    BY DEF SessionType
<1>2. /\ r \in RunType /\ r.stopping /\ r.phase = s.run.phase /\ r.turn = s.run.turn
      /\ r.out = s.run.out /\ r.inbox = s.run.inbox /\ r.prompt = s.run.prompt
    BY PartTypes DEF RunType
<1> HIDE DEF r
<1>3. t \in SessionType /\ t.run = r /\ t.working = s.working /\ t.restart = s.restart
    BY <1>2 DEF SessionType
<1> HIDE DEF t
<1>4. Smooth(t) /\ (Fits(s) => Fits(t))
    BY <1>2, <1>3 DEF Smooth, Steady, Shown, Fits
<1> QED BY <1>1, <1>3, <1>4

\* The queue panel.
LEMMA QueuePanelCalm ==
    ASSUME CalmInv, Undisturbed, NEW i \in DOMAIN session.queue,
           \/ SteerQueued(i) \/ SendQueuedNow(i) \/ RemoveQueued(i) \/ BeginEdit(i)
           \/ \E to \in 0 .. Len(session.queue) : MoveQueued(i, to)
    PROVE  Smooth(session')
<1> DEFINE t == TakeQueued(session, i)
           m == session.queue[i].msg
<1>1. session \in SessionType /\ Fits(session) /\ Smooth(session)
    BY CalmTypes DEF CalmInv
<1>2. m \in Messages /\ t \in SessionType
    BY <1>1, QueueItem, TakeQueuedType
<1>3. t.run = session.run /\ t.restart = session.restart /\ t.working = session.working
    BY <1>1 DEF TakeQueued, SessionType
<1> HIDE DEF t, m
<1>4. Smooth(t) /\ Fits(t)
    BY <1>1, <1>3, SameSmooth DEF Fits
<1>5. CASE SteerQueued(i)
    <2>1. session' = Deliver(t, m)
        BY <1>5 DEF SteerQueued, t, m
    <2> QED BY <1>2, <1>4, <2>1, DeliverSmooth
<1>6. CASE SendQueuedNow(i)
    <2> DEFINE d == [t EXCEPT !.run.stopping = TRUE]
               c == IF t.working /\ HasRun(t) THEN d ELSE t
    <2>1. session' = Deliver(c, m)
        BY <1>6 DEF SendQueuedNow, t, m
    <2>2. c \in SessionType /\ Smooth(c) /\ Fits(c)
        BY <1>2, <1>4, InterruptSmooth
    <2> HIDE DEF c
    <2> QED BY <1>2, <2>1, <2>2, DeliverSmooth
<1>7. CASE RemoveQueued(i)
    BY <1>4, <1>7 DEF RemoveQueued, t
<1>8. ASSUME BeginEdit(i) \/ \E to \in 0 .. Len(session.queue) : MoveQueued(i, to)
      PROVE  Smooth(session')
    <2>1. /\ session'.run = session.run /\ session'.restart = session.restart
          /\ session'.working = session.working
        BY <1>1, <1>8 DEF BeginEdit, MoveQueued, MoveTo, SessionType
    <2> QED BY <1>1, <2>1, SameSmooth
<1> QED BY <1>5, <1>6, <1>7, <1>8

\* Ending an edit, Stop, a change of settings that needs no new process, deletion.
LEMMA OtherUserCalm ==
    ASSUME CalmInv, Undisturbed, Undisturbed',
           \/ CancelEdit \/ \E m \in fresh : SaveEdit(m)
           \/ Stop \/ ChangeSettings \/ Delete
    PROVE  Smooth(session')
<1>1. session \in SessionType /\ Smooth(session) /\ Coherent(session) /\ ~session.restart
    BY CalmTypes DEF CalmInv
<1>2. ~session'.restart
    BY DEF Undisturbed
<1>3. ASSUME CancelEdit \/ (\E m \in fresh : SaveEdit(m)) \/ ChangeSettings
      PROVE  session'.run = session.run /\ session'.working = session.working
    <2>1. CASE CancelEdit \/ ChangeSettings
        BY <1>1, <2>1 DEF CancelEdit, ChangeSettings, SessionType
    <2>2. ASSUME NEW m \in fresh, SaveEdit(m)
          PROVE  session'.run = session.run /\ session'.working = session.working
        <3> DEFINE s == [session EXCEPT !.editing = IF @ = view THEN NoId ELSE @]
        <3>1. session' = Enqueue(s, m) \/ \E i \in DOMAIN s.queue : session' = [s EXCEPT !.queue[i].msg = m]
            BY <2>2 DEF SaveEdit
        <3>2. /\ s.run = session.run /\ s.working = session.working
              /\ DOMAIN s = DOMAIN session
            BY <1>1 DEF SessionType
        <3> HIDE DEF s
        <3>3. /\ "queue" \in DOMAIN s /\ "run" \in DOMAIN s /\ "working" \in DOMAIN s
              /\ "nextId" \in DOMAIN s
            BY <1>1, <3>2 DEF SessionType
        <3> QED BY <3>1, <3>2, <3>3 DEF Enqueue
    <2> QED BY <1>3, <2>1, <2>2
<1>4. ASSUME CancelEdit \/ (\E m \in fresh : SaveEdit(m)) \/ ChangeSettings
      PROVE  Smooth(session')
    BY <1>1, <1>2, <1>3, <1>4, SameSmooth
<1>5. CASE Stop
    <2> DEFINE s == [session EXCEPT !.pending = <<>>, !.userStopped = TRUE]
    <2>1. <<>> \in Prompts
        BY DEF Prompts
    <2>2. s \in SessionType /\ s.run = session.run /\ s.restart = session.restart /\ s.working = session.working
        BY <1>1, <2>1 DEF SessionType
    <2>3. session' = IF HasRun(s) THEN [s EXCEPT !.run.stopping = TRUE] ELSE [s EXCEPT !.working = FALSE]
        BY <1>5 DEF Stop
    <2> HIDE DEF s
    <2>4. Smooth(s)
        BY <1>1, <2>2, SameSmooth
    <2>5. ASSUME ~HasRun(s) PROVE Smooth([s EXCEPT !.working = FALSE])
        <3> DEFINE u == [s EXCEPT !.working = FALSE]
        <3>1. u.run = s.run /\ u.restart = s.restart
            BY <2>2 DEF SessionType
        <3> HIDE DEF u
        <3>2. Smooth(u)
            BY <2>4, <2>5, <3>1 DEF Smooth, Steady, HasRun
        <3> QED BY <3>2 DEF u
    <2> QED BY <2>2, <2>3, <2>4, <2>5, InterruptSmooth
<1>6. CASE Delete
    <2>1. session'.run = NoRun /\ NoRun.phase = "none"
        BY <1>1, <1>6, NoRunType DEF Delete, SessionType
    <2> QED BY <1>2, <2>1 DEF Smooth, Steady
<1> QED BY <1>4, <1>5, <1>6

\* The events task.  No run is replaced while its events are applied.
LEMMA TaskCalm ==
    ASSUME CalmInv, Undisturbed, Undisturbed', TaskNext
    PROVE  Smooth(session') /\ stale' = <<>>
<1>1. /\ session \in SessionType /\ session.run \in RunType /\ stale = <<>>
      /\ Smooth(session) /\ Steady(session) /\ Fits(session) /\ ~session.restart
    BY CalmTypes DEF CalmInv
<1>2. CASE ReceiveEvent
    <2> DEFINE r == session.run
               o == Tail(r.out)
               q == [r EXCEPT !.out = o]
               c == [session EXCEPT !.run = q]
               ev == Head(r.out)
    <2>1. /\ r.phase \in Begun /\ r.out # <<>>
          /\ session' = ApplyEvent([session EXCEPT !.run.out = Tail(@)], Head(r.out))
        BY <1>2 DEF ReceiveEvent, Begun
    <2>2. c = [session EXCEPT !.run.out = Tail(@)]
        BY <1>1 DEF SessionType
    <2>3. r.out \in Seq(Events)
        BY <1>1 DEF RunType
    <2>4. /\ ev \in Events /\ o \in Seq(Events)
          /\ Quiet(r.out, 0) => ev \notin DoneEvents /\ Quiet(o, 0)
          /\ Coming(r.out) => Coming(o) \/ (ev \in ResumeEvents /\ Quiet(o, 0))
        BY <2>1, <2>3, TailQuiet
    <2> HIDE DEF o, ev
    <2>5. /\ q \in RunType /\ q.prompt = r.prompt /\ q.inbox = r.inbox /\ q.phase = r.phase
          /\ q.stopping = r.stopping /\ q.turn = r.turn /\ q.out = o
        BY <1>1, <2>4 DEF RunType
    <2> HIDE DEF q
    <2>6. /\ c \in SessionType /\ c.run = q /\ c.working = session.working
          /\ c.restart = session.restart
        BY <1>1, <2>5 DEF SessionType
    <2>7. session' = ApplyEvent(c, ev)
        BY <2>1, <2>2 DEF ev
    <2> HIDE DEF c
    <2>8. Steady(c) /\ Fits(c) /\ c.run.phase \in Begun
        BY <1>1, <2>1, <2>5, <2>6 DEF Steady, Fits
    <2>9. ev \in ResumeEvents => ev \notin DoneEvents
        BY DEF ResumeEvents, DoneEvents
    <2>10. c.run.phase = "live" /\ c.run.turn => After(c, ev)
        BY <1>1, <2>4, <2>5, <2>6, <2>9 DEF Smooth, Shown, After
    <2>11. ~ApplyEvent(c, ev).restart
        BY <2>7 DEF Undisturbed
    <2>12. Smooth(session') /\ SamePhase(c, session')
        BY <2>4, <2>6, <2>7, <2>8, <2>10, <2>11, ApplyEventSmooth
    <2>13. session'.run.phase # "starting"
        BY <2>8, <2>12 DEF SamePhase, Begun
    <2>14. stale' = <<>>
        BY <1>2, <2>13 DEF ReceiveEvent
    <2> QED BY <2>12, <2>14
<1>3. CASE ReceiveStale
    BY <1>1, <1>3 DEF ReceiveStale
<1>4. CASE ReceiveEnd
    BY <1>1, <1>4, RunEndedSmooth DEF ReceiveEnd
<1>5. CASE ReceiveFailure
    BY <1>1, <1>5, FailRunSmooth DEF ReceiveFailure
<1> QED BY <1>2, <1>3, <1>4, <1>5 DEF TaskNext

\* The harness announces every turn it starts after the prompt's.
LEMMA HarnessCalm ==
    ASSUME CalmInv, Undisturbed, Undisturbed', HarnessNext
    PROVE  Smooth(session')
<1> DEFINE r == session.run
           z == session'.run
<1>1. /\ session \in SessionType /\ r \in RunType /\ Smooth(session) /\ Steady(session)
      /\ ~session.restart
    BY CalmTypes DEF CalmInv
<1>2. \E x : session' = [session EXCEPT !.run = x] /\ fresh' = fresh
    BY DEF HarnessNext, HarnessStart, HarnessFail, HarnessEmit, HarnessTakeSteer, HarnessTurnEnd,
           HarnessInterrupt, HarnessCrash, HarnessClose, Harness
<1>3. session'.working = session.working /\ session'.restart = session.restart
    BY <1>1, <1>2 DEF SessionType
<1>4. \A x : Harness(x) => z = x
    BY <1>1 DEF Harness, SessionType
<1>5. z.phase \in {"closing", "closed"} => z.stopping
    BY DEF Undisturbed
<1>6. r.out \in Seq(Events)
    BY <1>1 DEF RunType
<1> HIDE DEF z
<1>7. ASSUME NEW named \in BOOLEAN, HarnessStart(named) PROVE Smooth(session')
    <2> DEFINE o == IF named THEN <<"started">> ELSE <<>>
    <2>1. /\ r.phase = "starting"
          /\ z = [r EXCEPT !.phase = "live", !.turn = TRUE, !.prompt = <<>>, !.out = o]
        BY <1>4, <1>7 DEF HarnessStart
    <2>2. Quiet(o, 0)
        BY DEF Quiet, DoneEvents
    <2> HIDE DEF o
    <2>3. z.phase = "live" /\ z.prompt = <<>> /\ z.out = o
        BY <1>1, <2>1 DEF RunType
    <2>4. session.working
        BY <1>1, <2>1 DEF Steady
    <2> QED BY <1>1, <1>3, <2>2, <2>3, <2>4 DEF Smooth, Steady, Shown, z
<1>8. ASSUME NEW ev \in Events \ DoneEvents, NEW x \in Prompts,
             r.phase = "live", ev \in ResumeEvents \/ r.turn,
             z = [r EXCEPT !.turn = TRUE, !.inbox = x, !.out = Append(r.out, ev)]
      PROVE  Smooth(session')
    <2> DEFINE o == Append(r.out, ev)
    <2>1. /\ Quiet(r.out, 0) => Quiet(o, 0)
          /\ Coming(r.out) \/ ev \in ResumeEvents => Coming(o)
        BY <1>6, AppendQuiet
    <2> HIDE DEF o
    <2>2. z.phase = "live" /\ z.prompt = r.prompt /\ z.out = o
        BY <1>1, <1>8 DEF RunType, o
    <2>3. r.turn => Shown(session)
        BY <1>1, <1>8 DEF Smooth
    <2>4. Shown(session')
        BY <1>3, <1>8, <2>1, <2>2, <2>3 DEF Shown, z
    <2> QED BY <1>1, <1>3, <1>8, <2>2, <2>4 DEF Smooth, Steady, z
<1>9. ASSUME NEW ev \in Chatter, HarnessEmit(ev) PROVE Smooth(session')
    <2>1. /\ ev \in Events \ DoneEvents /\ (ev = "work" => ev \in ResumeEvents)
        BY InputAssumption DEF Events, DoneEvents, ResumeEvents
    <2>2. /\ r.phase = "live" /\ (ev = "work" \/ r.turn)
          /\ z = [r EXCEPT !.turn = TRUE, !.out = Append(@, ev)]
        BY <1>4, <1>9 DEF HarnessEmit
    <2>3. z = [r EXCEPT !.turn = TRUE, !.inbox = r.inbox, !.out = Append(r.out, ev)] /\ r.inbox \in Prompts
        BY <1>1, <2>2 DEF RunType
    <2> QED BY <1>8, <2>1, <2>2, <2>3
<1>10. CASE HarnessTakeSteer
    <2>1. "steered" \in Events \ DoneEvents /\ "steered" \in ResumeEvents
        BY DEF Events, DoneEvents, ResumeEvents
    <2>2. /\ r.phase = "live" /\ r.inbox # <<>>
          /\ z = [r EXCEPT !.turn = TRUE, !.inbox = Tail(r.inbox), !.out = Append(r.out, "steered")]
        BY <1>1, <1>4, <1>10 DEF HarnessTakeSteer, RunType
    <2>3. r.inbox \in Seq(Messages)
        BY <1>1 DEF RunType, Prompts
    <2>4. Tail(r.inbox) \in Prompts
        BY <2>2, <2>3, HeadTailProperties DEF Prompts
    <2> QED BY <1>8, <2>1, <2>2, <2>4
<1>11. ASSUME NEW status \in {"completed", "errored"}, HarnessTurnEnd(status) PROVE Smooth(session')
    <2>1. r.phase = "live" /\ z.phase = "live" /\ z.prompt = r.prompt /\ ~z.turn
        BY <1>1, <1>4, <1>11 DEF HarnessTurnEnd, RunType
    <2> QED BY <1>1, <1>3, <2>1 DEF Smooth, Steady, z
<1>12. CASE HarnessFail
    <2>1. z.phase = "failed"
        BY <1>1, <1>4, <1>12 DEF HarnessFail, RunType
    <2> QED BY <1>1, <1>3, <2>1 DEF Smooth, Steady, z
<1>13. CASE HarnessInterrupt \/ HarnessCrash
    <2>1. r.phase = "live" /\ z.phase = "closing" /\ z.prompt = r.prompt
        <3>1. CASE HarnessInterrupt
            BY <1>1, <1>4, <3>1 DEF HarnessInterrupt, RunType
        <3>2. CASE HarnessCrash
            BY <1>1, <1>4, <3>2 DEF HarnessCrash, RunType
        <3> QED BY <1>13, <3>1, <3>2
    <2> QED BY <1>1, <1>3, <1>5, <2>1 DEF Smooth, Steady, z
<1>14. CASE HarnessClose
    <2>1. r.phase = "closing" /\ z.phase = "closed" /\ z.prompt = r.prompt /\ z.inbox = <<>>
        BY <1>1, <1>4, <1>14 DEF HarnessClose, RunType
    <2> QED BY <1>1, <1>3, <1>5, <2>1 DEF Smooth, Steady, z
<1> QED BY <1>7, <1>9, <1>10, <1>11, <1>12, <1>13, <1>14 DEF HarnessNext

\* The user applies no event.
LEMMA UserStale == UserNext => stale' = stale
<1> SUFFICES ASSUME UserNext PROVE stale' = stale
    OBVIOUS
<1>1. \A m, steer : Send(m, steer) => stale' = stale
    BY DEF Send
<1>2. \A i, steer : Retry(i, steer) => stale' = stale
    BY DEF Retry
<1>3. \A i, to : SteerQueued(i) \/ SendQueuedNow(i) \/ RemoveQueued(i) \/ BeginEdit(i) \/ MoveQueued(i, to)
                    => stale' = stale
    BY DEF SteerQueued, SendQueuedNow, RemoveQueued, BeginEdit, MoveQueued
<1>4. \A m : SaveEdit(m) => stale' = stale
    BY DEF SaveEdit
<1>5. CancelEdit \/ Stop \/ ChangeSettings \/ Delete => stale' = stale
    BY DEF CancelEdit, Stop, ChangeSettings, Delete
<1> QED BY <1>1, <1>2, <1>3, <1>4, <1>5 DEF UserNext

\* Neither does the harness.
LEMMA HarnessStale == HarnessNext => stale' = stale
<1>1. \A r : Harness(r) => stale' = stale
    BY DEF Harness
<1>2. HarnessNext => \E r : Harness(r)
    BY DEF HarnessNext, HarnessStart, HarnessFail, HarnessEmit, HarnessTakeSteer, HarnessTurnEnd,
           HarnessInterrupt, HarnessCrash, HarnessClose
<1> QED BY <1>1, <1>2

\* Every step that disturbs no run keeps CalmInv.
LEMMA NextCalm == CalmInv /\ Undisturbed /\ Undisturbed' /\ [Next]_vars => CalmInv'
<1> SUFFICES ASSUME CalmInv, Undisturbed, Undisturbed', [Next]_vars PROVE CalmInv'
    OBVIOUS
<1>1. SessionInv'
    BY NextInv DEF CalmInv
<1>2. Smooth(session') /\ stale' = <<>>
    <2>1. CASE UNCHANGED vars
        BY <2>1 DEF vars, CalmInv
    <2>2. CASE UserNext
        <3>1. Smooth(session')
            BY <2>2, SendCalm, QueuePanelCalm, OtherUserCalm DEF UserNext
        <3>2. stale' = stale
            BY <2>2, UserStale
        <3> QED BY <3>1, <3>2 DEF CalmInv
    <2>3. CASE HarnessNext
        <3>1. stale' = stale
            BY <2>3, HarnessStale
        <3> QED BY <2>3, <3>1, HarnessCalm DEF CalmInv
    <2> QED BY <2>1, <2>2, <2>3, TaskCalm DEF Next
<1>3. Smooth(session)' <=> Smooth(session')
    BY DEF Smooth, Steady, Shown
<1> QED BY <1>1, <1>2, <1>3 DEF CalmInv

\* At first there is no run.
LEMMA InitCalm == Init => CalmInv
<1> SUFFICES ASSUME Init PROVE CalmInv
    OBVIOUS
<1>1. SessionInv /\ stale = <<>>
    BY InitInv DEF Init
<1>2. session.run = NoRun /\ ~session.restart /\ NoRun.phase = "none"
    BY NoRunType DEF Init
<1> QED BY <1>1, <1>2 DEF CalmInv, Smooth, Steady

\* A chat whose agent is at work says so, or is about to, as long as the steering channel
\* has room, nobody asks for a new process and the agent does not quit by itself: the
\* lag of `working` behind the harness never makes it look idle (apply_event,
\* send_next_queued, deliver and the harness's loop together).
THEOREM WorkIsShown == Spec /\ []Undisturbed => []IdleMeansIdle
<1>1. Init => CalmInv
    BY InitCalm
<1>2. CalmInv /\ Undisturbed /\ Undisturbed' /\ [Next]_vars => CalmInv'
    BY NextCalm
<1>3. CalmInv => IdleMeansIdle
    BY DEF CalmInv, Smooth, Shown, Coming, Quiet, IdleMeansIdle
<1> QED BY <1>1, <1>2, <1>3, PTL DEF Spec

-----------------------------------------------------------------------------
(* NothingLost: no method of the session loses a message.                   *)

\* A copy of v is queued or on its way to an agent.
Has(s, v) ==
    \/ Waits(s.queue, v) # 0 \/ Occ(s.pending, v) # 0
    \/ Occ(s.run.prompt, v) # 0 \/ Occ(s.run.inbox, v) # 0

\* t has what s has.
NoLess(s, t) == \A v : Has(s, v) => Has(t, v)

\* A session that may hand a message to its run or to a new one.
Ready(s) == Smooth(s) /\ Fits(s) /\ s.run.phase # "failed" /\ (s.run.phase = "none" => s.run = NoRun)

\* NoLess depends on nothing but these fields.
LEMMA SameNoLess ==
    ASSUME NEW s, NEW t, t.queue = s.queue, t.pending = s.pending, t.run = s.run
    PROVE  NoLess(s, t)
BY DEF NoLess, Has

\* One step after the other.
LEMMA NoLessTrans ==
    ASSUME NEW s, NEW t, NEW u, NoLess(s, t), NoLess(t, u)
    PROVE  NoLess(s, u)
BY DEF NoLess

\* Ready depends on nothing but these fields.
LEMMA SameReady ==
    ASSUME NEW s, NEW t, Ready(s), t.restart => s.restart, t.run = s.run, s.working => t.working
    PROVE  Ready(t)
BY SameSmooth DEF Ready, Fits

\* A message in hand enters the queue.
LEMMA EnqueueHas ==
    ASSUME NEW s \in SessionType, NEW m \in Messages
    PROVE  /\ NoLess(s, Enqueue(s, m)) /\ Has(Enqueue(s, m), m)
           /\ NoLess(s, Requeue(s, m)) /\ Has(Requeue(s, m), m)
<1> DEFINE x == [id |-> s.nextId + 1, msg |-> m]
           t == Enqueue(s, m)
           u == Requeue(s, m)
<1>1. x \in QueuedType /\ x.msg = m /\ s.queue \in Seq(QueuedType)
    BY QueuedTypeNew DEF SessionType
<1>2. /\ t.queue = Append(s.queue, x) /\ t.pending = s.pending /\ t.run = s.run
      /\ u.queue = <<x>> \o s.queue /\ u.pending = s.pending /\ u.run = s.run
    BY DEF Enqueue, Requeue, SessionType
<1> HIDE DEF x, t, u
<1>3. \A v : /\ Waits(t.queue, v) = Waits(s.queue, v) + One(m, v)
             /\ Waits(u.queue, v) = Waits(s.queue, v) + One(m, v)
    BY <1>1, <1>2, WaitsEnds
<1>4. \A v : Waits(s.queue, v) \in Nat
    BY <1>1, WaitsNat
<1>5. \A v : Waits(s.queue, v) # 0 \/ v = m => Waits(t.queue, v) # 0 /\ Waits(u.queue, v) # 0
    BY <1>3, <1>4 DEF One
<1>6. NoLess(s, t) /\ Has(t, m) /\ NoLess(s, u) /\ Has(u, m)
    BY <1>2, <1>5 DEF NoLess, Has
<1> QED BY <1>6 DEF t, u

\* A queued message is taken in hand.
LEMMA TakenHas ==
    ASSUME NEW s \in SessionType, NEW i \in DOMAIN s.queue, NEW t,
           t.queue = RemoveAt(s.queue, i), t.pending = s.pending, t.run = s.run
    PROVE  \A v : Has(s, v) => Has(t, v) \/ v = s.queue[i].msg
<1> DEFINE m == s.queue[i].msg
<1>1. s.queue \in Seq(QueuedType)
    BY DEF SessionType
<1>2. \A v : Waits(t.queue, v) \in Nat /\ Waits(s.queue, v) = Waits(t.queue, v) + One(m, v)
    BY <1>1, WaitsRemove
<1> HIDE DEF m
<1>3. \A v : Waits(s.queue, v) # 0 => Waits(t.queue, v) # 0 \/ v = m
    BY <1>2 DEF One
<1> QED BY <1>3 DEF Has, m

\* move_queued.
LEMMA MoveHas ==
    ASSUME NEW s \in SessionType, NEW i \in DOMAIN s.queue, NEW to \in Nat
    PROVE  NoLess(s, MoveTo(s, i, to))
<1> DEFINE u == MoveTo(s, i, to)
<1>1. u.pending = s.pending /\ u.run = s.run
    BY DEF MoveTo, SessionType
<1>2. \A v : Waits(u.queue, v) = Waits(s.queue, v)
    BY PartTypes, WaitsMove DEF MoveTo, SessionType
<1> HIDE DEF u
<1>3. NoLess(s, u)
    BY <1>1, <1>2 DEF NoLess, Has
<1> QED BY <1>3 DEF u

\* A new run, where no run is left that has something to read.
LEMMA StartRunHas ==
    ASSUME NEW s \in SessionType, NEW p, s.run.prompt = <<>>, s.run.inbox = <<>>
    PROVE  NoLess(s, StartRun(s, p)) /\ \A v : Occ(p, v) # 0 => Has(StartRun(s, p), v)
<1> DEFINE t == StartRun(s, p)
<1>1. t.queue = s.queue /\ t.pending = s.pending /\ t.run.prompt = p
    BY DEF StartRun, NewRun, RunIn, SessionType
<1> HIDE DEF t
<1>2. NoLess(s, t) /\ \A v : Occ(p, v) # 0 => Has(t, v)
    BY <1>1, OccEmpty DEF NoLess, Has
<1> QED BY <1>2 DEF t

\* deliver, after its early return.
LEMMA DispatchHas ==
    ASSUME NEW s \in SessionType, Ready(s), NEW m \in Messages
    PROVE  NoLess(s, Dispatch(s, m)) /\ Has(Dispatch(s, m), m)
<1> DEFINE u == PushUser(s, m)
           t == [PushUser(s, m) EXCEPT !.userStopped = FALSE,
                                       !.working = TRUE,
                                       !.restart = @ /\ s.working,
                                       !.run = IF s.restart /\ ~s.working THEN NoRun ELSE @]
           a == [t EXCEPT !.pending = Merge(@, m)]
           b == [t EXCEPT !.run.inbox = Append(@, m)]
           r == StartRun(t, <<m>>)
<1>1. Dispatch(s, m) = IF t.run.stopping THEN a ELSE IF CanPush(t.run) THEN b ELSE r
    BY DEF Dispatch
<1>2. /\ u \in SessionType /\ u.run = s.run /\ u.restart = s.restart /\ ~s.restart
      /\ u.queue = s.queue /\ u.pending = s.pending
    BY PushUserType DEF PushUser, SessionType, Ready, Smooth, Steady
<1>3. t = [u EXCEPT !.userStopped = FALSE, !.working = TRUE, !.restart = FALSE, !.run = s.run]
    BY <1>2 DEF SessionType
<1> HIDE DEF u, t
<1>4. t \in SessionType /\ t.run = s.run /\ t.queue = s.queue /\ t.pending = s.pending
    <2>1. s.run \in RunType
        BY PartTypes
    <2> QED BY <1>2, <1>3, <2>1 DEF SessionType
<1>5. \A f \in Prompts : \A v : Occ(f, v) # 0 \/ v = m => Occ(Append(f, m), v) # 0
    <2> TAKE f \in Prompts
    <2> TAKE v
    <2>1. Occ(Append(f, m), v) = Occ(f, v) + One(m, v) /\ Occ(f, v) \in Nat
        BY OccAppend, PromptNat
    <2> QED BY <2>1 DEF One
<1>6. NoLess(s, a) /\ Has(a, m)
    <2>1. a.queue = s.queue /\ a.run = s.run /\ a.pending = Append(s.pending, m) /\ s.pending \in Prompts
        BY <1>4, PartTypes DEF SessionType, Merge
    <2> HIDE DEF a
    <2> QED BY <1>5, <2>1 DEF NoLess, Has
<1>7. NoLess(s, b) /\ Has(b, m)
    <2> DEFINE z == [t.run EXCEPT !.inbox = Append(@, m)]
    <2>1. s.run \in RunType /\ s.run.inbox \in Prompts
        BY PartTypes
    <2>2. b = [t EXCEPT !.run = z] /\ z.prompt = s.run.prompt /\ z.inbox = Append(s.run.inbox, m)
        BY <1>4, <2>1 DEF SessionType, RunType
    <2> HIDE DEF z
    <2>3. b.queue = s.queue /\ b.run = z /\ b.pending = s.pending
        BY <1>4, <2>2 DEF SessionType
    <2> HIDE DEF b
    <2> QED BY <1>5, <2>1, <2>2, <2>3 DEF NoLess, Has
<1>8. ASSUME ~t.run.stopping, ~CanPush(t.run) PROVE NoLess(s, r) /\ Has(r, m)
    <2>1. s.run.phase \notin {"starting", "live", "closing", "closed", "failed"}
        BY <1>4, <1>8 DEF Ready, Smooth, Steady, CanPush, Fits
    <2>2. s.run.phase = "none"
        BY <2>1, PartTypes DEF RunType, Phases
    <2>3. t.run.prompt = <<>> /\ t.run.inbox = <<>>
        BY <1>4, <2>2 DEF Ready, NoRun, RunIn
    <2>4. Occ(<<m>>, m) # 0
        BY OccSingle DEF One
    <2>5. NoLess(t, r) /\ Has(r, m)
        BY <1>4, <2>3, <2>4, StartRunHas
    <2> HIDE DEF r
    <2> QED BY <1>4, <2>5 DEF NoLess, Has
<1> HIDE DEF a, b, r
<1> QED BY <1>1, <1>6, <1>7, <1>8

\* deliver.
LEMMA DeliverHas ==
    ASSUME NEW s \in SessionType, Ready(s), NEW m \in Messages
    PROVE  NoLess(s, Deliver(s, m)) /\ Has(Deliver(s, m), m)
BY DispatchHas, EnqueueHas DEF Deliver

\* take_next_queued and deliver.
LEMMA DeliverNextHas ==
    ASSUME NEW s \in SessionType, Ready(s), Sendable(s) # {}
    PROVE  NoLess(s, DeliverNext(s))
<1> DEFINE i == FirstSendable(s)
           t == [s EXCEPT !.queue = RemoveAt(@, i)]
           m == s.queue[i].msg
<1>1. i \in DOMAIN s.queue
    BY FirstSendableExists DEF Sendable
<1>2. m \in Messages /\ t \in SessionType
    BY <1>1, QueueItem, DropQueuedType
<1>3. /\ t.run = s.run /\ t.restart = s.restart /\ t.working = s.working
      /\ t.pending = s.pending /\ t.queue = RemoveAt(s.queue, i)
    BY DEF SessionType
<1>4. DeliverNext(s) = Deliver(t, m)
    BY DEF DeliverNext
<1> HIDE DEF i, t
<1>5. Ready(t)
    BY <1>3, SameReady
<1>6. \A v : Has(s, v) => Has(t, v) \/ v = m
    BY <1>1, <1>3, TakenHas
<1> HIDE DEF m
<1>7. NoLess(t, Deliver(t, m)) /\ Has(Deliver(t, m), m)
    BY <1>2, <1>5, DeliverHas
<1> QED BY <1>4, <1>6, <1>7 DEF NoLess

\* send_next_queued.
LEMMA SendNextQueuedHas ==
    ASSUME NEW s \in SessionType, Ready(s)
    PROVE  NoLess(s, SendNextQueued(s))
BY DeliverNextHas DEF SendNextQueued, NoLess

\* send_message.
LEMMA SendMessageHas ==
    ASSUME NEW s \in SessionType, Ready(s), NEW m \in Messages, NEW steer
    PROVE  NoLess(s, SendMessage(s, m, steer)) /\ Has(SendMessage(s, m, steer), m)
<1> DEFINE t == Enqueue(s, m)
<1>1. t \in SessionType /\ (Sendable(s) # {} => Sendable(t) # {}) /\ NoLess(s, t) /\ Has(t, m)
    BY EnqueueType, EnqueueSendable, EnqueueHas
<1>2. t.run = s.run /\ t.restart = s.restart /\ t.working = s.working
    BY DEF Enqueue, SessionType
<1>3. SendMessage(s, m, steer) =
        IF s.working /\ HasRun(s) /\ ~s.run.stopping
        THEN IF steer THEN Deliver(s, m) ELSE t
        ELSE IF ~s.run.stopping /\ Sendable(s) # {} THEN DeliverNext(t)
        ELSE Deliver(s, m)
    BY DEF SendMessage
<1> HIDE DEF t
<1>4. Ready(t)
    BY <1>2, SameReady
<1>5. Sendable(s) # {} => NoLess(s, DeliverNext(t)) /\ Has(DeliverNext(t), m)
    BY <1>1, <1>4, DeliverNextHas DEF NoLess
<1> QED BY <1>1, <1>3, <1>5, DeliverHas

\* run_ended: of a run that has read or dropped what it had.
LEMMA RunEndedHas ==
    ASSUME NEW s \in SessionType, ~s.restart, ~s.deleted, s.run.prompt = <<>>, s.run.inbox = <<>>
    PROVE  NoLess(s, RunEnded(s))
<1> DEFINE e == [s EXCEPT !.run = NoRun, !.forkFailed = FALSE]
           d == [e EXCEPT !.pending = <<>>, !.working = TRUE]
           c == [e EXCEPT !.forkSource = FALSE, !.working = TRUE]
           i == Idle(e)
<1>1. <<>> \in Prompts
    BY DEF Prompts
<1>2. /\ e \in SessionType /\ e.run = NoRun /\ e.queue = s.queue /\ e.pending = s.pending /\ ~e.restart
    BY NoRunType DEF SessionType
<1>3. RunEnded(s) = IF s.forkFailed /\ s.forkPrompt # <<>> /\ ~s.deleted THEN StartRun(c, e.forkPrompt)
                    ELSE IF s.pending # <<>> /\ ~s.deleted THEN StartRun(d, e.pending)
                    ELSE IF s.userStopped THEN i
                    ELSE SendNextQueued(i)
    BY DEF RunEnded, ForkFallback, StartPending
<1> HIDE DEF e
<1>4. /\ c \in SessionType /\ c.run = NoRun /\ c.queue = s.queue /\ c.pending = s.pending
      /\ d \in SessionType /\ d.run = NoRun /\ d.queue = s.queue
    BY <1>1, <1>2 DEF SessionType
<1>5. i \in SessionType /\ i.run = NoRun /\ ~i.restart /\ i.queue = s.queue /\ i.pending = <<>>
    BY <1>1, <1>2 DEF Idle, SessionType
<1> HIDE DEF c, d, i
<1>6. NoRun.phase = "none" /\ NoRun.inbox = <<>> /\ NoRun.prompt = <<>>
    BY DEF NoRun, RunIn
<1>7. \A v : Has(s, v) <=> Waits(s.queue, v) # 0 \/ Occ(s.pending, v) # 0
    BY OccEmpty DEF Has
<1>8. NoLess(s, StartRun(c, e.forkPrompt))
    <2>1. NoLess(c, StartRun(c, e.forkPrompt))
        BY <1>4, <1>6, StartRunHas
    <2>2. NoLess(s, c)
        BY <1>4, <1>7 DEF NoLess, Has
    <2> QED BY <2>1, <2>2, NoLessTrans
<1>9. NoLess(s, StartRun(d, e.pending))
    <2>1. NoLess(d, StartRun(d, e.pending)) /\ \A v : Occ(e.pending, v) # 0 => Has(StartRun(d, e.pending), v)
        BY <1>4, <1>6, StartRunHas
    <2>2. \A v : Has(s, v) => Has(d, v) \/ Occ(e.pending, v) # 0
        BY <1>2, <1>4, <1>7 DEF Has
    <2> QED BY <2>1, <2>2 DEF NoLess
<1>10. s.pending = <<>> => NoLess(s, i)
    BY <1>5, <1>7, OccEmpty DEF NoLess, Has
<1>11. Ready(i)
    BY <1>5, <1>6, BoundsAssumption DEF Ready, Smooth, Steady, Fits
<1>12. s.pending = <<>> => NoLess(s, SendNextQueued(i))
    BY <1>5, <1>10, <1>11, SendNextQueuedHas, NoLessTrans
<1> QED BY <1>3, <1>8, <1>9, <1>10, <1>12

\* A Done event.
LEMMA TurnDoneHas ==
    ASSUME NEW s \in SessionType, Steady(s), Fits(s), s.run.phase \in Begun, NEW status \in DoneEvents,
           s.run.phase = "live" /\ s.run.turn => After(s, status)
    PROVE  NoLess(s, TurnDone(s, status))
<1> DEFINE e == EndReport(s, status)
           w == (s.pending # <<>>)
           d == [e EXCEPT !.working = w]
<1>1. /\ e \in SessionType /\ e.pending = s.pending /\ e.run = s.run /\ e.restart = s.restart
      /\ e.queue = s.queue
    BY EndReportFields
<1>2. TurnDone(s, status) = IF status = "interrupted" THEN d ELSE SendNextQueued(d)
    BY DEF TurnDone
<1>3. w \in BOOLEAN
    OBVIOUS
<1> HIDE DEF e, w
<1>4. d \in SessionType /\ d.run = s.run /\ d.restart = s.restart /\ d.queue = s.queue /\ d.pending = s.pending
    BY <1>1, <1>3 DEF SessionType
<1> HIDE DEF d
<1>5. Ready(d)
    BY <1>4 DEF Ready, Smooth, Steady, Fits, Begun, After, Shown
<1>6. NoLess(s, d)
    BY <1>4, SameNoLess
<1> QED BY <1>2, <1>4, <1>5, <1>6, SendNextQueuedHas, NoLessTrans

\* apply_event.
LEMMA ApplyEventHas ==
    ASSUME NEW s \in SessionType, Steady(s), Fits(s), s.run.phase \in Begun, NEW ev \in Events,
           s.run.phase = "live" /\ s.run.turn => After(s, ev)
    PROVE  NoLess(s, ApplyEvent(s, ev))
<1> DEFINE a == SetNativeId(s)
           b == Resume(s)
           k == (s.restart \/ Claude)
           c == [s EXCEPT !.restart = k]
           d == [s EXCEPT !.forkFailed = TRUE]
           r == ApplyEvent(s, ev)
<1>1. k \in BOOLEAN
    OBVIOUS
<1>2. c = [s EXCEPT !.restart = @ \/ Claude]
    BY DEF SessionType
<1> HIDE DEF k
<1>3. \A x \in {a, b, c, d, s} : /\ x \in SessionType /\ x.run = s.run /\ x.queue = s.queue
                                 /\ x.pending = s.pending
    <2>1. a \in SessionType /\ a.run = s.run /\ a.queue = s.queue /\ a.pending = s.pending
        BY SetNativeIdFields
    <2>2. b \in SessionType /\ b.run = s.run /\ b.queue = s.queue /\ b.pending = s.pending
        BY DEF Resume, SessionType
    <2>3. c \in SessionType /\ c.run = s.run /\ c.queue = s.queue /\ c.pending = s.pending
        BY <1>1 DEF SessionType
    <2>4. d \in SessionType /\ d.run = s.run /\ d.queue = s.queue /\ d.pending = s.pending
        BY DEF SessionType
    <2> HIDE DEF a, b, c, d
    <2> QED BY <2>1, <2>2, <2>3, <2>4
<1>4. \/ ev \in DoneEvents /\ r = TurnDone(s, ev)
      \/ r \in {a, b, c, d, s}
      \/ \E x \in {a, b, c, d, s}, y \in BOOLEAN : r = PushEntry(x, y)
    BY <1>2 DEF ApplyEvent, Events, DoneEvents, ResumeEvents
<1> HIDE DEF a, b, c, d
<1>5. \A x \in SessionType, y \in BOOLEAN :
          /\ PushEntry(x, y).run = x.run /\ PushEntry(x, y).queue = x.queue
          /\ PushEntry(x, y).pending = x.pending
    BY DEF PushEntry, SessionType
<1>6. \/ ev \in DoneEvents /\ r = TurnDone(s, ev)
      \/ r.run = s.run /\ r.queue = s.queue /\ r.pending = s.pending
    BY <1>3, <1>4, <1>5
<1> HIDE DEF r
<1>7. NoLess(s, r)
    BY <1>6, TurnDoneHas, SameNoLess
<1> QED BY <1>7 DEF r

-----------------------------------------------------------------------------
(* NothingLost: no step loses a message.                                    *)

\* The user takes nothing back.
NothingTakenBack == UserOps \cap {"remove", "edit", "delete"} = {}

\* The invariant behind NothingLost, where every process starts.
KeptInv == CalmInv /\ session.run.phase # "failed" /\ ~Marked(session)

\* v is still there after a step, or its run is being stopped, or its prompt taken back.
Passed(v) ==
    \/ Has(session', v) \/ Occ(log', v) # 0
    \/ Occ(session.pending, v) # 0 /\ session'.userStopped
    \/ Occ(session.run.inbox, v) # 0 /\ session.run.stopping

\* What KeptInv and Undisturbed say.
LEMMA KeptTypes ==
    ASSUME KeptInv, Undisturbed
    PROVE  /\ session \in SessionType /\ fresh \subseteq Messages /\ session.run \in RunType
           /\ Coherent(session) /\ Steady(session) /\ Fits(session) /\ ~session.restart
           /\ Smooth(session) /\ Ready(session) /\ stale = <<>>
BY CalmTypes DEF KeptInv, CalmInv, Ready, Coherent, GaveUpSource, HasRun

\* The user.
LEMMA UserKeeps ==
    ASSUME NothingTakenBack, KeptInv, Undisturbed, UserNext, NEW v, Has(session, v)
    PROVE  Passed(v)
<1>1. session \in SessionType /\ fresh \subseteq Messages /\ Ready(session)
    BY KeptTypes
<1>2. ASSUME NEW m \in fresh, NEW steer \in SteerModes, Send(m, steer) PROVE Has(session', v)
    <2>1. NoLess(session, session')
        BY <1>1, <1>2, SendMessageHas DEF Send
    <2> QED BY <2>1 DEF NoLess
<1>3. ASSUME NEW i \in DOMAIN session.entries, NEW steer \in SteerModes, Retry(i, steer) PROVE FALSE
    BY <1>3 DEF Retry, KeptInv, Marked
<1>4. ASSUME NEW i \in DOMAIN session.queue, SteerQueued(i) \/ SendQueuedNow(i) PROVE Has(session', v)
    <2> DEFINE t == TakeQueued(session, i)
               d == [t EXCEPT !.run.stopping = TRUE]
               c == IF t.working /\ HasRun(t) THEN d ELSE t
               m == session.queue[i].msg
    <2>1. m \in Messages /\ t \in SessionType
        BY <1>1, QueueItem, TakeQueuedType
    <2>2. /\ t.run = session.run /\ t.restart = session.restart /\ t.working = session.working
          /\ t.pending = session.pending /\ t.queue = RemoveAt(session.queue, i)
        BY <1>1 DEF TakeQueued, SessionType
    <2>3. session' = Deliver(t, m) \/ session' = Deliver(c, m)
        BY <1>4 DEF SteerQueued, SendQueuedNow
    <2> HIDE DEF t
    <2>4. Ready(t)
        BY <1>1, <2>2, SameReady
    <2>5. Has(t, v) \/ v = m
        BY <1>1, <2>2, TakenHas
    <2>6. d \in SessionType /\ Smooth(d) /\ Fits(d)
        BY <2>1, <2>4, InterruptSmooth DEF Ready
    <2> DEFINE z == [t.run EXCEPT !.stopping = TRUE]
    <2>7. t.run \in RunType /\ d = [t EXCEPT !.run = z]
        BY <2>1, PartTypes DEF SessionType
    <2>8. /\ d.run = z /\ d.queue = t.queue /\ d.pending = t.pending
        BY <2>1, <2>7 DEF SessionType
    <2>9. z.phase = t.run.phase /\ z.prompt = t.run.prompt /\ z.inbox = t.run.inbox
        BY <2>7 DEF RunType
    <2> HIDE DEF m, z, d
    <2>10. NoLess(t, d)
        BY <2>8, <2>9 DEF NoLess, Has
    <2>11. HasRun(t) => Ready(d)
        BY <2>4, <2>6, <2>8, <2>9 DEF Ready, HasRun
    <2>12. c \in SessionType /\ Ready(c) /\ (Has(c, v) \/ v = m)
        BY <2>1, <2>4, <2>5, <2>6, <2>10, <2>11 DEF NoLess
    <2> HIDE DEF c
    <2> QED BY <2>1, <2>3, <2>4, <2>5, <2>12, DeliverHas DEF NoLess
<1>5. ASSUME NEW i \in DOMAIN session.queue, NEW to \in 0 .. Len(session.queue), MoveQueued(i, to)
      PROVE  Has(session', v)
    <2>1. to \in Nat /\ session' = MoveTo(session, i, to)
        BY <1>1, <1>5, PartTypes DEF MoveQueued
    <2> QED BY <1>1, <2>1, MoveHas DEF NoLess
<1>6. ASSUME NEW i, NEW m, RemoveQueued(i) \/ BeginEdit(i) \/ CancelEdit \/ SaveEdit(m) \/ Delete
      PROVE  FALSE
    BY <1>6 DEF NothingTakenBack, RemoveQueued, BeginEdit, CancelEdit, SaveEdit, Delete, Allowed
<1>7. CASE Stop
    <2> DEFINE s == [session EXCEPT !.pending = <<>>, !.userStopped = TRUE]
               z == [session.run EXCEPT !.stopping = TRUE]
    <2>1. <<>> \in Prompts /\ session.run \in RunType
        BY <1>1, PartTypes DEF Prompts
    <2>2. /\ s \in SessionType /\ s.run = session.run /\ s.queue = session.queue /\ s.userStopped
        BY <1>1, <2>1 DEF SessionType
    <2>3. session' = IF HasRun(s) THEN [s EXCEPT !.run.stopping = TRUE] ELSE [s EXCEPT !.working = FALSE]
        BY <1>7 DEF Stop
    <2> HIDE DEF s
    <2>4. [s EXCEPT !.run.stopping = TRUE] = [s EXCEPT !.run = z]
        BY <2>2 DEF SessionType
    <2>5. z.prompt = session.run.prompt /\ z.inbox = session.run.inbox
        BY <2>1 DEF RunType
    <2> HIDE DEF z
    <2>6. session'.queue = session.queue /\ session'.userStopped /\ session'.run \in {session.run, z}
        BY <2>2, <2>3, <2>4 DEF SessionType
    <2> QED BY <2>5, <2>6 DEF Has, Passed
<1>8. CASE ChangeSettings
    <2>1. /\ session'.run = session.run /\ session'.queue = session.queue
          /\ session'.pending = session.pending
        BY <1>1, <1>8 DEF ChangeSettings, SessionType
    <2> QED BY <2>1 DEF Has, Passed
<1> QED BY <1>2, <1>3, <1>4, <1>5, <1>6, <1>7, <1>8 DEF UserNext, Passed

\* The events task.
LEMMA TaskKeeps ==
    ASSUME KeptInv, Undisturbed, TaskNext, NEW v, Has(session, v)
    PROVE  Passed(v)
<1>1. /\ session \in SessionType /\ session.run \in RunType /\ stale = <<>> /\ Coherent(session)
      /\ Smooth(session) /\ Steady(session) /\ Fits(session) /\ ~session.restart
    BY KeptTypes
<1>2. CASE ReceiveEvent
    <2> DEFINE r == session.run
               o == Tail(r.out)
               q == [r EXCEPT !.out = o]
               c == [session EXCEPT !.run = q]
               ev == Head(r.out)
    <2>1. /\ r.phase \in Begun /\ r.out # <<>>
          /\ session' = ApplyEvent([session EXCEPT !.run.out = Tail(@)], Head(r.out))
        BY <1>2 DEF ReceiveEvent, Begun
    <2>2. c = [session EXCEPT !.run.out = Tail(@)]
        BY <1>1 DEF SessionType
    <2>3. r.out \in Seq(Events)
        BY <1>1 DEF RunType
    <2>4. /\ ev \in Events /\ o \in Seq(Events)
          /\ Quiet(r.out, 0) => ev \notin DoneEvents /\ Quiet(o, 0)
          /\ Coming(r.out) => Coming(o) \/ (ev \in ResumeEvents /\ Quiet(o, 0))
        BY <2>1, <2>3, TailQuiet
    <2> HIDE DEF o, ev
    <2>5. /\ q \in RunType /\ q.prompt = r.prompt /\ q.inbox = r.inbox /\ q.phase = r.phase
          /\ q.stopping = r.stopping /\ q.turn = r.turn /\ q.out = o
        BY <1>1, <2>4 DEF RunType
    <2> HIDE DEF q
    <2>6. /\ c \in SessionType /\ c.run = q /\ c.working = session.working
          /\ c.restart = session.restart /\ c.queue = session.queue /\ c.pending = session.pending
        BY <1>1, <2>5 DEF SessionType
    <2>7. session' = ApplyEvent(c, ev)
        BY <2>1, <2>2 DEF ev
    <2> HIDE DEF c
    <2>8. Steady(c) /\ Fits(c) /\ c.run.phase \in Begun
        BY <1>1, <2>1, <2>5, <2>6 DEF Steady, Fits
    <2>9. ev \in ResumeEvents => ev \notin DoneEvents
        BY DEF ResumeEvents, DoneEvents
    <2>10. c.run.phase = "live" /\ c.run.turn => After(c, ev)
        BY <1>1, <2>4, <2>5, <2>6, <2>9 DEF Smooth, Shown, After
    <2>11. NoLess(c, session')
        BY <2>4, <2>6, <2>7, <2>8, <2>10, ApplyEventHas
    <2>12. Has(c, v)
        BY <2>5, <2>6 DEF Has
    <2> QED BY <2>11, <2>12 DEF NoLess, Passed
<1>3. CASE ReceiveStale \/ ReceiveFailure
    BY <1>1, <1>3 DEF ReceiveStale, ReceiveFailure, KeptInv
<1>4. CASE ReceiveEnd
    <2>1. session' = RunEnded(session) /\ session.run.phase = "closed"
        BY <1>4 DEF ReceiveEnd
    <2>2. session.run.prompt = <<>> /\ session.run.inbox = <<>> /\ ~session.deleted
        BY <1>1, <2>1 DEF Steady, Coherent, GaveUpSource, HasRun
    <2>3. NoLess(session, session')
        BY <1>1, <2>1, <2>2, RunEndedHas
    <2> QED BY <2>3 DEF NoLess, Passed
<1> QED BY <1>2, <1>3, <1>4 DEF TaskNext

\* The harness.
LEMMA HarnessKeeps ==
    ASSUME "fail" \notin Faults, KeptInv, Undisturbed, HarnessNext, log \in Prompts,
           NEW v, Has(session, v)
    PROVE  Passed(v)
<1> DEFINE r == session.run
           z == session'.run
<1>1. /\ session \in SessionType /\ r \in RunType /\ Steady(session)
      /\ r.prompt \in Prompts /\ r.inbox \in Prompts
    BY KeptTypes, PartTypes
<1>2. \E x : session' = [session EXCEPT !.run = x] /\ fresh' = fresh
    BY DEF HarnessNext, HarnessStart, HarnessFail, HarnessEmit, HarnessTakeSteer, HarnessTurnEnd,
           HarnessInterrupt, HarnessCrash, HarnessClose, Harness
<1>3. session'.queue = session.queue /\ session'.pending = session.pending
    BY <1>1, <1>2 DEF SessionType
<1>4. \A x : Harness(x) => z = x
    BY <1>1 DEF Harness, SessionType
<1> HIDE DEF z
<1>5. ASSUME NEW named \in BOOLEAN, HarnessStart(named)
      PROVE  z.inbox = r.inbox /\ log' = log \o r.prompt
    BY <1>1, <1>4, <1>5 DEF HarnessStart, RunType
<1>6. ASSUME HarnessTakeSteer
      PROVE  /\ z.prompt = r.prompt /\ r.inbox # <<>> /\ z.inbox = Tail(r.inbox)
             /\ log' = Append(log, Head(r.inbox))
    BY <1>1, <1>4, <1>6 DEF HarnessTakeSteer, RunType
<1>7. ASSUME \/ \E ev \in Chatter : HarnessEmit(ev)
             \/ \E status \in {"completed", "errored"} : HarnessTurnEnd(status)
             \/ HarnessInterrupt \/ HarnessCrash
      PROVE  z.prompt = r.prompt /\ z.inbox = r.inbox
    BY <1>1, <1>4, <1>7 DEF HarnessEmit, HarnessTurnEnd, HarnessInterrupt, HarnessCrash, RunType
<1>8. ASSUME HarnessClose PROVE z.prompt = r.prompt /\ r.stopping
    BY <1>1, <1>4, <1>8 DEF HarnessClose, Steady, RunType
<1>9. CASE z.prompt = r.prompt /\ (z.inbox = r.inbox \/ r.stopping)
    BY <1>3, <1>9 DEF Has, Passed, z
<1>10. CASE z.inbox = r.inbox /\ log' = log \o r.prompt
    <2>1. Occ(log', v) = Occ(log, v) + Occ(r.prompt, v) /\ Occ(log, v) \in Nat /\ Occ(r.prompt, v) \in Nat
        BY <1>1, <1>10, OccConcat, PromptNat
    <2>2. Occ(r.prompt, v) # 0 => Occ(log', v) # 0
        BY <2>1
    <2> QED BY <1>3, <1>10, <2>2 DEF Has, Passed, z
<1>11. CASE /\ z.prompt = r.prompt /\ r.inbox # <<>> /\ z.inbox = Tail(r.inbox)
            /\ log' = Append(log, Head(r.inbox))
    <2> DEFINE m == Head(r.inbox)
    <2>1. /\ m \in Messages /\ Occ(z.inbox, v) \in Nat
          /\ Occ(r.inbox, v) = Occ(z.inbox, v) + One(m, v)
        BY <1>1, <1>11, OccTail
    <2>2. Occ(log', v) = Occ(log, v) + One(m, v) /\ Occ(log, v) \in Nat
        BY <1>11, <2>1, OccAppend, PromptNat
    <2> HIDE DEF m
    <2>3. Occ(r.inbox, v) # 0 => Occ(z.inbox, v) # 0 \/ Occ(log', v) # 0
        BY <2>1, <2>2, OneNat
    <2> QED BY <1>3, <1>11, <2>3 DEF Has, Passed, z
<1> QED BY <1>5, <1>6, <1>7, <1>8, <1>9, <1>10, <1>11 DEF HarnessNext, HarnessFail

\* What is in a prompt is counted.
LEMMA OccElement ==
    ASSUME NEW f \in Prompts, NEW v
    PROVE  Occ(f, v) # 0 <=> v \in ToSet(f)
<1> DEFINE S == {i \in DOMAIN f : f[i] = v}
<1>1. IsFiniteSet(S)
    <2>1. f \in Seq(Messages) /\ Len(f) \in Nat /\ DOMAIN f = 1 .. Len(f)
        BY LenProperties DEF Prompts
    <2> QED BY <2>1, OccNat
<1>2. Cardinality(S) = 0 <=> S = {}
    BY <1>1, FS_EmptySet
<1>3. S # {} <=> v \in ToSet(f)
    BY DEF ToSet
<1> HIDE DEF S
<1> QED BY <1>2, <1>3 DEF Occ, S

\* What is in a queue is counted.
LEMMA WaitsElement ==
    ASSUME NEW q \in Seq(QueuedType), NEW v
    PROVE  Waits(q, v) # 0 <=> \E i \in DOMAIN q : q[i].msg = v
<1> DEFINE S == {i \in DOMAIN Msgs(q) : Msgs(q)[i] = v}
<1>1. Len(q) \in Nat /\ DOMAIN Msgs(q) = 1 .. Len(q) /\ DOMAIN q = 1 .. Len(q)
    BY LenProperties DEF Msgs
<1>2. IsFiniteSet(S)
    BY <1>1, OccNat
<1>3. Cardinality(S) = 0 <=> S = {}
    BY <1>2, FS_EmptySet
<1>4. S # {} <=> \E i \in DOMAIN q : q[i].msg = v
    BY DEF Msgs
<1> HIDE DEF S
<1> QED BY <1>3, <1>4 DEF Waits, Occ, S

\* Kept, in terms of Has.
LEMMA KeptHas ==
    ASSUME session \in SessionType, log \in Prompts, ~Marked(session)
    PROVE  \A v : v \in Kept <=> Has(session, v) \/ Occ(log, v) # 0
<1> TAKE v
<1>1. /\ session.pending \in Prompts /\ session.run.prompt \in Prompts /\ session.run.inbox \in Prompts
      /\ session.queue \in Seq(QueuedType)
    BY PartTypes
<1>2. v \in Queued <=> Waits(session.queue, v) # 0
    BY <1>1, WaitsElement DEF Queued
<1>3. v \in InFlight <=> \/ Occ(session.pending, v) # 0 \/ Occ(session.run.prompt, v) # 0
                         \/ Occ(session.run.inbox, v) # 0
    BY <1>1, OccElement DEF InFlight
<1>4. {e.msg : e \in Undelivered} = {}
    BY DEF Undelivered, Marked, ToSet
<1>5. v \in ToSet(log) <=> Occ(log, v) # 0
    BY OccElement
<1> QED BY <1>2, <1>3, <1>4, <1>5 DEF Kept, Has

\* What was read stays read.
LEMMA LogGrows ==
    ASSUME SessionInv, [Next]_vars, NEW v, Occ(log, v) # 0
    PROVE  Occ(log', v) # 0
<1>1. /\ session \in SessionType /\ log \in Prompts /\ session.run.prompt \in Prompts
      /\ session.run.inbox \in Seq(Messages)
    BY PartTypes DEF SessionInv, TypeOK, Prompts
<1>2. \/ log' = log \/ log' = log \o session.run.prompt
      \/ session.run.inbox # <<>> /\ log' = Append(log, Head(session.run.inbox))
    <2>1. CASE UNCHANGED vars
        BY <2>1 DEF vars
    <2>2. CASE UserNext
        <3>1. \A m, steer : Send(m, steer) => log' = log
            BY DEF Send
        <3>2. \A i, steer : Retry(i, steer) => log' = log
            BY DEF Retry
        <3>3. \A i, to : SteerQueued(i) \/ SendQueuedNow(i) \/ RemoveQueued(i) \/ BeginEdit(i) \/ MoveQueued(i, to)
                            => log' = log
            BY DEF SteerQueued, SendQueuedNow, RemoveQueued, BeginEdit, MoveQueued
        <3>4. \A m : SaveEdit(m) => log' = log
            BY DEF SaveEdit
        <3>5. CancelEdit \/ Stop \/ ChangeSettings \/ Delete => log' = log
            BY DEF CancelEdit, Stop, ChangeSettings, Delete
        <3> QED BY <2>2, <3>1, <3>2, <3>3, <3>4, <3>5 DEF UserNext
    <2>3. CASE TaskNext
        BY <2>3 DEF TaskNext, ReceiveEvent, ReceiveStale, ReceiveEnd, ReceiveFailure
    <2>4. CASE HarnessNext
        BY <2>4 DEF HarnessNext, HarnessStart, HarnessFail, HarnessEmit, HarnessTakeSteer, HarnessTurnEnd,
                    HarnessInterrupt, HarnessCrash, HarnessClose
    <2> QED BY <2>1, <2>2, <2>3, <2>4 DEF Next
<1>3. Occ(log, v) \in Nat /\ Occ(session.run.prompt, v) \in Nat
    BY <1>1, PromptNat
<1>4. CASE log' = log \o session.run.prompt
    <2>1. Occ(log', v) = Occ(log, v) + Occ(session.run.prompt, v)
        BY <1>1, <1>4, OccConcat
    <2> QED BY <1>3, <2>1
<1>5. CASE session.run.inbox # <<>> /\ log' = Append(log, Head(session.run.inbox))
    <2>1. Head(session.run.inbox) \in Messages
        BY <1>1, <1>5, HeadTailProperties
    <2>2. Occ(log', v) = Occ(log, v) + One(Head(session.run.inbox), v)
        BY <1>1, <1>5, <2>1, OccAppend
    <2> QED BY <1>3, <2>2, OneNat
<1> QED BY <1>2, <1>4, <1>5

\* No step loses a message, and no failure happens.
LEMMA NextKept ==
    ASSUME "fail" \notin Faults, NothingTakenBack, KeptInv, Undisturbed, Undisturbed', [Next]_vars
    PROVE  /\ KeptInv'
           /\ \A v \in Kept : \/ v \in Kept'
                              \/ v \in ToSet(session.pending) /\ session'.userStopped
                              \/ v \in ToSet(session.run.inbox) /\ session.run.stopping
<1>1. /\ SessionInv /\ session \in SessionType /\ log \in Prompts /\ ~Marked(session)
      /\ session.pending \in Prompts /\ session.run.inbox \in Prompts
    BY PartTypes DEF KeptInv, CalmInv, SessionInv, TypeOK
<1>2. CalmInv'
    BY NextCalm DEF KeptInv
<1>3. session'.run.phase # "failed" /\ ~Marked(session')
    <2>1. CASE UNCHANGED vars
        BY <2>1 DEF vars, KeptInv
    <2>2. CASE Next
        BY <2>2, <1>1, FailureStep DEF KeptInv
    <2> QED BY <2>1, <2>2
<1>4. Marked(session)' <=> Marked(session')
    BY DEF Marked
<1>5. KeptInv'
    BY <1>2, <1>3, <1>4 DEF KeptInv
<1>6. \A v : v \in Kept <=> Has(session, v) \/ Occ(log, v) # 0
    BY <1>1, KeptHas
<1>7. \A v : v \in Kept' <=> Has(session', v) \/ Occ(log', v) # 0
    <2>1. session' \in SessionType /\ log' \in Prompts
        BY <1>2 DEF CalmInv, SessionInv, TypeOK
    <2>2. \A v : Has(session, v)' <=> Has(session', v)
        BY DEF Has
    <2>3. \A v : (Occ(log, v) # 0)' <=> Occ(log', v) # 0
        OBVIOUS
    <2>4. (session \in SessionType)' /\ (log \in Prompts)' /\ (~Marked(session))'
        BY <1>3, <1>4, <2>1
    <2>5. (\A v : v \in Kept <=> Has(session, v) \/ Occ(log, v) # 0)'
        BY <2>4, KeptHas, PTL
    <2> QED BY <2>2, <2>3, <2>5
<1>8. ASSUME NEW v, Has(session, v) PROVE Passed(v)
    <2>1. CASE UNCHANGED vars
        BY <1>8, <2>1 DEF vars, Passed
    <2>2. CASE Next
        BY <1>1, <1>8, <2>2, UserKeeps, TaskKeeps, HarnessKeeps DEF Next
    <2> QED BY <2>1, <2>2
<1>9. ASSUME NEW v \in Kept
      PROVE  \/ v \in Kept'
             \/ v \in ToSet(session.pending) /\ session'.userStopped
             \/ v \in ToSet(session.run.inbox) /\ session.run.stopping
    <2>1. CASE Occ(log, v) # 0
        BY <1>1, <1>7, <2>1, LogGrows
    <2>2. CASE Has(session, v)
        BY <1>1, <1>7, <1>8, <2>2, OccElement DEF Passed
    <2> QED BY <1>6, <1>9, <2>1, <2>2
<1> QED BY <1>5, <1>9

\* What the user sent is queued, on its way to an agent or read, whatever is sent at
\* once, steered, merged behind a stop or handed to the next run, as long as no run is
\* disturbed, every process starts and the user takes nothing back (deliver,
\* take_queued, run_ended, start_run and the harness's loop together).
THEOREM NothingGetsLost ==
    ASSUME "fail" \notin Faults, NothingTakenBack
    PROVE  Spec /\ []Undisturbed => NothingLost
<1>1. Init => KeptInv
    <2> SUFFICES ASSUME Init PROVE KeptInv
        OBVIOUS
    <2>1. session.entries = <<>> /\ session.run.phase = "none"
        BY NoRunType DEF Init
    <2> QED BY <2>1, InitCalm DEF KeptInv, Marked
<1>2. KeptInv /\ Undisturbed /\ Undisturbed' /\ [Next]_vars => KeptInv'
    BY NextKept
<1>3. KeptInv /\ Undisturbed /\ Undisturbed' /\ [Next]_vars =>
        [ \A m \in Kept :
            \/ m \in Kept'
            \/ m \in ToSet(session.pending) /\ session'.userStopped
            \/ m \in ToSet(session.run.inbox) /\ session.run.stopping ]_vars
    BY NextKept
<1> QED BY <1>1, <1>2, <1>3, PTL DEF Spec, NothingLost
=============================================================================
