------------------------ MODULE EventPublisherProofs ------------------------
(* For every number of threads, attempts, sessions and failures: an         *)
(* acknowledgement whose flush did not time out means that the event is     *)
(* stored; the events of a session reach the topic in the order in which    *)
(* they were drawn; every further copy of an event has a failed report of   *)
(* its own; every variable keeps its type.                                  *)
EXTENDS EventPublisher, SequenceTheorems, FiniteSetTheorems, TLAPS

\* The events there can be; each has a partition.
Bodies == UNION {s.bodies : s \in Scenarios}
Kinds == Watching \union {"none", "LIKED", "SEARCHED"} \union {b.type : b \in Bodies}
EventRecord ==
  [user : {b.user : b \in Bodies} \union {"user-1"},
   movie : {b.movie : b \in Bodies} \union {"movie-1"},
   type : Kinds, progress : Int, query : BOOLEAN, time : Int, session : Int]
Known == {e \in EventRecord : PartitionKey(e) \in Keys}

Messages == [event : Known, attempt : Int, stored : BOOLEAN]
Publishes == [at : {"idle", "produce", "flush", "published", "raised"}, event : Known,
              attempt : Int, failed : BOOLEAN, timedOut : BOOLEAN]

Shape ==
  /\ scenario \in Scenarios
  /\ queue \in Seq(Messages)
  /\ topic \in [Keys -> Seq(Known)]
  /\ call \in [Caller -> Publishes]
  /\ batch \in Seq(Known)
  /\ posts \in Int /\ sessions \in Int

\* The event is somewhere in its partition.
InTopic(e) ==
  \E i \in 1 .. Len(topic[PartitionKey(e)]) : topic[PartitionKey(e)][i] = e

\* The message of this attempt has not been reported.
InQueue(p) ==
  \E i \in 1 .. Len(queue) : queue[i].event = p.event /\ queue[i].attempt = p.attempt

StoredIsInTopic ==
  \A i \in 1 .. Len(queue) : queue[i].stored => InTopic(queue[i].event)

\* A publish that flushes, and has been told of no error, has its message in the
\* queue or in the topic.
FlushIsTracked ==
  \A c \in Caller : call[c].at = "flush" /\ ~call[c].failed =>
    InQueue(call[c]) \/ InTopic(call[c].event)

PublishedIsInTopic ==
  \A c \in Caller : call[c].at = "published" /\ ~call[c].timedOut => InTopic(call[c].event)

AnsweredIsInTopic ==
  \A a \in answers : a.event \in Known /\ (a.published /\ ~a.timedOut => InTopic(a.event))

IInv == Shape /\ StoredIsInTopic /\ FlushIsTracked /\ PublishedIsInTopic /\ AnsweredIsInTopic

-----------------------------------------------------------------------------
(* The events of the system *)

LEMMA EventIsKnown ==
  ASSUME NEW n \in Int, NEW type \in Kinds, NEW progress \in Int, NEW time \in Int
  PROVE  Event(n, type, progress, time) \in Known
<1> DEFINE e == Event(n, type, progress, time)
<1>1. (type = "SEARCHED") \in BOOLEAN
  OBVIOUS
<1>3. e \in EventRecord
  BY <1>1 DEF EventRecord, Event
<1>2. PartitionKey(e) \in Keys
  BY DEF Event, PartitionKey, Keys
<1> QED BY <1>2, <1>3 DEF Known

LEMMA PostedIsKnown ==
  ASSUME NEW s \in Scenarios, NEW b \in s.bodies, NEW n \in Int
  PROVE  [b EXCEPT !.session = n] \in Known
<1> DEFINE e == [b EXCEPT !.session = n]
<1>1. b \in Body
  BY PublisherAssumption
<1>2. e \in EventRecord /\ e.user = b.user /\ e.movie = b.movie
  <2>1. b \in Bodies
    BY DEF Bodies
  <2> QED BY <1>1, <2>1 DEF Body, EventRecord, Kinds
<1>3. PartitionKey(e) = PartitionKey(b)
  BY <1>2 DEF PartitionKey
<1>4. PartitionKey(b) \in Keys
  BY DEF Keys
<1> QED BY <1>2, <1>3, <1>4 DEF Known

LEMMA NoEventIsKnown == NoEvent \in Known
<1>1. None \in Int /\ "none" \in Kinds
  BY DEF None, Kinds
<1> QED BY <1>1, EventIsKnown DEF NoEvent

LEMMA DrawnRanges ==
  ASSUME NEW d \in Draw
  PROVE  /\ d.finish \in Int /\ 0 < d.finish
         /\ d.pause \in Int /\ 0 < d.pause
         /\ d.resume \in Int /\ 0 < d.resume
         /\ d.pauseAgain \in Int /\ 0 < d.pauseAgain
         /\ d.resumeAgain \in Int /\ 0 < d.resumeAgain
         /\ d.gap \in Int /\ 0 < d.gap
         /\ d.like \in Int /\ 0 < d.like
         /\ d.pause <= d.finish - 60
<1> DEFINE a1 == 3600
           a2 == 8000
           b1 == 120
           b2 == 1800
           c1 == 60
           c2 == 900
           e1 == 90
           e2 == 1200
           f1 == 30
           f2 == 600
           g1 == 20
           g2 == 180
           h1 == 15
           h2 == 180
<1>1. d \in [finish : a1 .. a2, pause : b1 .. b2, resume : c1 .. c2, pauseAgain : e1 .. e2,
             resumeAgain : f1 .. f2, gap : g1 .. g2, like : h1 .. h2,
             paused : BOOLEAN, pausedAgain : BOOLEAN, finished : BOOLEAN,
             liked : BOOLEAN, searched : BOOLEAN]
  BY DEF Draw
<1>2. /\ a1 \in Nat /\ 0 < a1 /\ a2 \in Nat
      /\ b1 \in Nat /\ 0 < b1 /\ b2 \in Nat
      /\ c1 \in Nat /\ 0 < c1 /\ c2 \in Nat
      /\ e1 \in Nat /\ 0 < e1 /\ e2 \in Nat
      /\ f1 \in Nat /\ 0 < f1 /\ f2 \in Nat
      /\ g1 \in Nat /\ 0 < g1 /\ g2 \in Nat
      /\ h1 \in Nat /\ 0 < h1 /\ h2 \in Nat
  OBVIOUS
<1>17. b2 <= a1 - 60
  OBVIOUS
<1> HIDE DEF a1, a2, b1, b2, c1, c2, e1, e2, f1, f2, g1, g2, h1, h2
<1>3. d.finish \in a1 .. a2
  BY <1>1
<1>4. d.pause \in b1 .. b2
  BY <1>1
<1>5. d.resume \in c1 .. c2
  BY <1>1
<1>6. d.pauseAgain \in e1 .. e2
  BY <1>1
<1>7. d.resumeAgain \in f1 .. f2
  BY <1>1
<1>8. d.gap \in g1 .. g2
  BY <1>1
<1>9. d.like \in h1 .. h2
  BY <1>1
<1>10. d.finish \in Int /\ 0 < d.finish
  BY <1>2, <1>3
<1>11. d.pause \in Int /\ 0 < d.pause
  BY <1>2, <1>4
<1>12. d.resume \in Int /\ 0 < d.resume
  BY <1>2, <1>5
<1>13. d.pauseAgain \in Int /\ 0 < d.pauseAgain
  BY <1>2, <1>6
<1>14. d.resumeAgain \in Int /\ 0 < d.resumeAgain
  BY <1>2, <1>7
<1>15. d.gap \in Int /\ 0 < d.gap
  BY <1>2, <1>8
<1>16. d.like \in Int /\ 0 < d.like
  BY <1>2, <1>9
<1>18. d.pause <= d.finish - 60
  <2>1. d.pause <= b2 /\ a1 <= d.finish
    BY <1>2, <1>3, <1>4
  <2> QED BY <1>2, <1>10, <1>11, <1>17, <2>1
<1> QED BY <1>10, <1>11, <1>12, <1>13, <1>14, <1>15, <1>16, <1>18

LEMMA DrawnNumbers ==
  ASSUME NEW d \in Draw
  PROVE  /\ d.finish \in Int /\ d.pause \in Int /\ d.resume \in Int
         /\ d.pauseAgain \in Int /\ d.resumeAgain \in Int
         /\ d.gap \in Int /\ d.like \in Int
BY DrawnRanges

LEMMA ViewsOfSession ==
  ASSUME NEW d \in Draw
  PROVE  /\ Views(d) \in Seq(Kinds \X Int)
         /\ Len(Views(d)) >= 1
<1> DEFINE S == Kinds \X Int
           start == <<<<"VIEW_STARTED", 0>>>>
           first == <<<<"VIEW_PAUSED", d.pause>>, <<"VIEW_RESUMED", ResumeAt(d)>>>>
           second == <<<<"VIEW_PAUSED", PauseAgainAt(d)>>, <<"VIEW_RESUMED", ResumeAgainAt(d)>>>>
           finish == <<<<"VIEW_FINISHED", d.finish>>>>
           a == IF d.paused THEN first ELSE <<>>
           b == IF d.pausedAgain THEN second ELSE <<>>
           c == IF d.finished THEN finish ELSE <<>>
<1>2. /\ d.pause \in Int /\ d.finish \in Int /\ d.resume \in Int
      /\ d.pauseAgain \in Int /\ d.resumeAgain \in Int
  BY DrawnNumbers
<1>1. ResumeAt(d) \in Int /\ PauseAgainAt(d) \in Int /\ ResumeAgainAt(d) \in Int
  <2>1. ASSUME NEW m \in Int, NEW n \in Int PROVE Lesser(m, n) \in Int
    BY DEF Lesser
  <2>2. ResumeAt(d) \in Int
    <3>1. d.finish - 60 \in Int /\ d.pause + d.resume \in Int
      BY <1>2
    <3> QED BY <2>1, <3>1, Zenon DEF ResumeAt
  <2>3. PauseAgainAt(d) \in Int
    <3>1. d.finish - 30 \in Int /\ ResumeAt(d) + d.pauseAgain \in Int
      BY <1>2, <2>2
    <3> QED BY <2>1, <3>1, Zenon DEF PauseAgainAt
  <2>4. ResumeAgainAt(d) \in Int
    <3>1. d.finish - 10 \in Int /\ PauseAgainAt(d) + d.resumeAgain \in Int
      BY <1>2, <2>3
    <3> QED BY <2>1, <3>1, Zenon DEF ResumeAgainAt
  <2> QED BY <2>2, <2>3, <2>4
<1>3. start \in Seq(S) /\ Len(start) = 1
  <2>1. <<"VIEW_STARTED", 0>> \in S
    BY DEF Kinds, Watching
  <2> QED BY <2>1
<1>4. a \in Seq(S)
  <2>1. <<"VIEW_PAUSED", d.pause>> \in S
    BY <1>2 DEF Kinds, Watching
  <2>2. <<"VIEW_RESUMED", ResumeAt(d)>> \in S
    BY <1>1 DEF Kinds, Watching
  <2> HIDE DEF S
  <2> QED BY <2>1, <2>2
<1>5. b \in Seq(S)
  <2>1. <<"VIEW_PAUSED", PauseAgainAt(d)>> \in S
    BY <1>1 DEF Kinds, Watching
  <2>2. <<"VIEW_RESUMED", ResumeAgainAt(d)>> \in S
    BY <1>1 DEF Kinds, Watching
  <2> HIDE DEF S
  <2> QED BY <2>1, <2>2
<1>6. c \in Seq(S)
  <2>1. <<"VIEW_FINISHED", d.finish>> \in S
    BY <1>2 DEF Kinds, Watching
  <2> HIDE DEF S
  <2> QED BY <2>1
<1>7. Views(d) = start \o a \o b \o c
  BY DEF Views
<1> HIDE DEF a, b, c, start
<1> QED BY <1>3, <1>4, <1>5, <1>6, <1>7
  , ConcatProperties

LEMMA SessionIsKnown ==
  ASSUME NEW d \in Draw, NEW n \in Int
  PROVE  SyntheticSequence(d, n) \in Seq(Known) /\ SyntheticSequence(d, n) # <<>>
<1> DEFINE len == Len(Views(d))
           views == Viewed(d, n)
           liked == Liked(d, n)
           searched == Searched(d, n)
<1>1. len \in Nat /\ len >= 1 /\ \A i \in 1 .. len : Views(d)[i][1] \in Kinds /\ Views(d)[i][2] \in Int
  BY ViewsOfSession
<1>2. d.gap \in Int /\ d.like \in Int
  BY DrawnNumbers
<1>3. \A i \in 1 .. len : Event(n, Views(d)[i][1], Views(d)[i][2], (i - 1) * d.gap) \in Known
  <2> TAKE i \in 1 .. len
  <2>1. (i - 1) * d.gap \in Int
    BY <1>1, <1>2
  <2> QED BY <1>1, <2>1, EventIsKnown
<1>4. views \in Seq(Known) /\ Len(views) = len
  BY <1>1, <1>3, IsASeq DEF Viewed
<1>5. Last(views).progress \in Int /\ Last(views).time \in Int
  BY <1>1, <1>2, <1>4 DEF Viewed, Last, Event
<1>6. liked \in Seq(Known)
  <2>1. Last(views).time + d.gap + d.like \in Int
    BY <1>2, <1>5
  <2>2. Event(n, "LIKED", Last(views).progress, Last(views).time + d.gap + d.like) \in Known
    BY <1>5, <2>1, EventIsKnown DEF Kinds
  <2> QED BY <2>2 DEF Liked
<1>7. searched \in Seq(Known)
  <2>1. -30 \in Int /\ "SEARCHED" \in Kinds
    BY DEF Kinds
  <2>2. Event(n, "SEARCHED", 0, -30) \in Known
    BY <2>1, EventIsKnown
  <2> QED BY <2>2 DEF Searched
<1>8. SyntheticSequence(d, n) = searched \o views \o liked
  BY DEF SyntheticSequence
<1> HIDE DEF views, liked, searched, len
<1> QED BY <1>1, <1>4, <1>6, <1>7, <1>8, ConcatProperties

-----------------------------------------------------------------------------
(* Publishes, messages and partitions *)

LEMMA PublishesStart ==
  /\ Idle \in Publishes /\ Idle.at = "idle"
  /\ \A e \in Known : Publish(e) \in Publishes /\ Publish(e).at = "produce"
<1>1. Idle \in Publishes /\ Idle.at = "idle"
  BY NoEventIsKnown DEF Idle, Publishes
<1>2. ASSUME NEW e \in Known PROVE Publish(e) \in Publishes /\ Publish(e).at = "produce"
  BY DEF Publish, Publishes
<1> QED BY <1>1, <1>2

LEMMA RetriesOrRaises ==
  ASSUME NEW p \in Publishes
  PROVE  /\ Retried(p) \in Publishes
         /\ Retried(p).at \in {"produce", "raised"}
<1>1. CASE p.attempt < MaxAttempts
  <2>1. p.attempt + 1 \in Int
    BY DEF Publishes
  <2>2. Retried(p) = [p EXCEPT !.at = "produce", !.attempt = p.attempt + 1,
                               !.failed = FALSE, !.timedOut = FALSE]
    BY <1>1 DEF Retried
  <2> QED BY <2>1, <2>2 DEF Publishes
<1>2. CASE ~(p.attempt < MaxAttempts)
  BY <1>2 DEF Retried, Publishes
<1> QED BY <1>1, <1>2

LEMMA FlushDecides ==
  ASSUME NEW p \in Publishes
  PROVE  /\ Flushed(p) \in Publishes
         /\ Flushed(p).at # "flush"
         /\ Flushed(p).at = "published" =>
              ~p.failed /\ Flushed(p).event = p.event /\ (~Flushed(p).timedOut => queue = <<>>)
<1>1. CASE p.failed
  BY <1>1, RetriesOrRaises DEF Flushed
<1>2. CASE ~p.failed
  <2>1. (queue # <<>>) \in BOOLEAN
    OBVIOUS
  <2> QED BY <1>2, <2>1 DEF Flushed, Publishes
<1> QED BY <1>1, <1>2

\* Where the elements of the shorter sequence were.
LEMMA RemoveAtShifts ==
  ASSUME NEW S, NEW s \in Seq(S), NEW i \in 1 .. Len(s)
  PROVE  /\ RemoveAt(s, i) \in Seq(S) /\ Len(RemoveAt(s, i)) = Len(s) - 1
         /\ \A k \in 1 .. i - 1 : RemoveAt(s, i)[k] = s[k]
         /\ \A k \in i .. Len(s) - 1 : RemoveAt(s, i)[k] = s[k + 1]
<1> DEFINE r == RemoveAt(s, i)
<1>1. Len(s) \in Nat
  OBVIOUS
<1> DEFINE front == SubSeq(s, 1, i - 1)
           back == SubSeq(s, i + 1, Len(s))
<1>2. /\ front \in Seq(S) /\ Len(front) = i - 1
      /\ \A k \in 1 .. i - 1 : front[k] = s[k]
  <2>1. \A k \in 1 .. i - 1 : s[k] \in S
    BY <1>1
  <2> QED BY <1>1, <2>1, SubSeqProperties
<1>3. /\ back \in Seq(S) /\ Len(back) = Len(s) - i
      /\ \A k \in 1 .. Len(s) - i : back[k] = s[k + i]
  <2>1. \A k \in i + 1 .. Len(s) : s[k] \in S
    BY <1>1
  <2> QED BY <1>1, <2>1, SubSeqProperties
<1>4. r = front \o back
  BY DEF RemoveAt
<1> HIDE DEF front, back, r
<1>5. r \in Seq(S) /\ Len(r) = Len(s) - 1
  BY <1>1, <1>2, <1>3, <1>4, ConcatProperties
<1>6. \A k \in 1 .. i - 1 : r[k] = front[k]
  BY <1>1, <1>2, <1>3, <1>4, ConcatProperties
<1>7. \A k \in i .. Len(s) - 1 : r[k] = back[k - (i - 1)] /\ k - (i - 1) \in 1 .. Len(s) - i
  BY <1>1, <1>2, <1>3, <1>4, ConcatProperties
<1>8. \A k \in i .. Len(s) - 1 : k - (i - 1) + i = k + 1
  BY <1>1
<1> QED BY <1>2, <1>3, <1>5, <1>6, <1>7, <1>8 DEF r

LEMMA RemoveAtKeeps ==
  ASSUME NEW S, NEW s \in Seq(S), NEW i \in 1 .. Len(s)
  PROVE  /\ RemoveAt(s, i) \in Seq(S)
         /\ \A k \in 1 .. Len(RemoveAt(s, i)) : \E j \in 1 .. Len(s) : RemoveAt(s, i)[k] = s[j]
         /\ \A j \in 1 .. Len(s) : j # i => \E k \in 1 .. Len(RemoveAt(s, i)) : RemoveAt(s, i)[k] = s[j]
<1> DEFINE r == RemoveAt(s, i)
<1>1. Len(s) \in Nat
  OBVIOUS
<1>2. /\ r \in Seq(S) /\ Len(r) = Len(s) - 1
      /\ \A k \in 1 .. i - 1 : r[k] = s[k]
      /\ \A k \in i .. Len(s) - 1 : r[k] = s[k + 1]
  BY RemoveAtShifts
<1> HIDE DEF r
<1>3. \A k \in 1 .. Len(r) : \E j \in 1 .. Len(s) : r[k] = s[j]
  BY <1>1, <1>2
<1>4. ASSUME NEW j \in 1 .. Len(s), j # i PROVE \E k \in 1 .. Len(r) : r[k] = s[j]
  <2>1. CASE j < i
    BY <1>1, <1>2, <2>1
  <2>2. CASE j > i
    <3>1. j - 1 \in 1 .. Len(r) /\ j - 1 \in i .. Len(s) - 1
      BY <1>1, <1>2, <2>2
    <3>2. r[j - 1] = s[j]
      BY <1>1, <1>2, <3>1
    <3> QED BY <3>1, <3>2
  <2> QED BY <1>1, <1>4, <2>1, <2>2
<1> QED BY <1>3, <1>4, <1>2 DEF r

\* Nothing leaves a partition.
LEMMA StoreKeepsTopic ==
  ASSUME Shape, NEW i \in DOMAIN queue, Store(i)
  PROVE  /\ topic' \in [Keys -> Seq(Known)]
         /\ \A e \in Known : InTopic(e) \/ e = queue[i].event => InTopic(e)'
<1> DEFINE m == queue[i].event
           k == PartitionKey(m)
<1>1. m \in Known /\ k \in Keys
  <2>1. queue[i] \in Messages
    BY DEF Shape
  <2>2. m \in Known
    BY <2>1 DEF Messages
  <2> QED BY <2>2 DEF Known
<1>2. topic' = [topic EXCEPT ![k] = Append(@, m)]
  BY DEF Store
<1>3. topic \in [Keys -> Seq(Known)]
  BY DEF Shape
<1>4. /\ topic'[k] = Append(topic[k], m) /\ Len(topic'[k]) = Len(topic[k]) + 1
      /\ topic'[k][Len(topic[k]) + 1] = m /\ Len(topic[k]) \in Nat
      /\ \A j \in 1 .. Len(topic[k]) : topic'[k][j] = topic[k][j]
      /\ topic'[k] \in Seq(Known)
  BY <1>1, <1>2, <1>3
<1>5. \A l \in Keys : l # k => topic'[l] = topic[l]
  BY <1>2, <1>3
<1>6. \A e \in Known : PartitionKey(e) \in Keys
  BY DEF Known
<1>7. topic' \in [Keys -> Seq(Known)]
  BY <1>1, <1>2, <1>3
<1> HIDE DEF k, m
<1>8. ASSUME NEW e \in Known, InTopic(e) PROVE InTopic(e)'
  <2>1. CASE PartitionKey(e) = k
    BY <1>4, <1>8, <2>1 DEF InTopic
  <2>2. CASE PartitionKey(e) # k
    BY <1>5, <1>6, <1>8, <2>2 DEF InTopic
  <2> QED BY <2>1, <2>2
<1>9. ASSUME NEW e \in Known, e = m PROVE InTopic(e)'
  BY <1>4, <1>9 DEF InTopic, k
<1> QED BY <1>7, <1>8, <1>9 DEF m

\* A caller moves while no message does.
LEMMA CallerMoves ==
  ASSUME IInv, NEW c \in Caller, NEW p \in Publishes,
         call' = [call EXCEPT ![c] = p], UNCHANGED <<topic, queue>>,
         p.at # "flush",
         p.at = "published" /\ ~p.timedOut => InTopic(p.event)
  PROVE  /\ call' \in [Caller -> Publishes]
         /\ StoredIsInTopic' /\ FlushIsTracked' /\ PublishedIsInTopic'
<1>1. /\ call \in [Caller -> Publishes] /\ call' \in [Caller -> Publishes]
      /\ \A b \in Caller : call'[b] = IF b = c THEN p ELSE call[b]
  BY DEF IInv, Shape
<1>2. StoredIsInTopic'
  BY DEF IInv, StoredIsInTopic, InTopic
<1>3. FlushIsTracked'
  BY <1>1 DEF IInv, FlushIsTracked, InTopic, InQueue
<1>4. PublishedIsInTopic'
  BY <1>1 DEF IInv, PublishedIsInTopic, InTopic
<1> QED BY <1>1, <1>2, <1>3, <1>4

LEMMA AnswersStay ==
  ASSUME IInv, UNCHANGED <<topic, answers>>
  PROVE  AnsweredIsInTopic'
BY DEF IInv, AnsweredIsInTopic, InTopic

LEMMA AnswersGrow ==
  ASSUME IInv, NEW c \in Caller, answers' = Told(c), UNCHANGED topic
  PROVE  AnsweredIsInTopic'
<1> DEFINE a == [event |-> call[c].event, published |-> call[c].at = "published",
                 timedOut |-> call[c].timedOut]
<1>1. answers' = answers \union {a}
  BY DEF Told
<1>2. a.event = call[c].event /\ (a.published <=> call[c].at = "published")
      /\ a.timedOut = call[c].timedOut
  OBVIOUS
<1>3. call[c].event \in Known
  BY DEF IInv, Shape, Publishes
<1>4. a.published /\ ~a.timedOut => InTopic(a.event)
  BY <1>2 DEF IInv, PublishedIsInTopic
<1> HIDE DEF a
<1> QED BY <1>1, <1>2, <1>3, <1>4 DEF IInv, AnsweredIsInTopic, InTopic

-----------------------------------------------------------------------------
(* The actions *)

LEMMA InitEstablishes == Init => IInv
<1> SUFFICES ASSUME Init PROVE IInv
  OBVIOUS
<1>1. call \in [Caller -> Publishes] /\ \A c \in Caller : call[c].at = "idle"
  BY PublishesStart DEF Init
<1>2. Shape
  BY <1>1 DEF Init, Shape
<1>3. StoredIsInTopic /\ AnsweredIsInTopic
  BY DEF Init, StoredIsInTopic, AnsweredIsInTopic
<1>4. FlushIsTracked /\ PublishedIsInTopic
  BY <1>1 DEF FlushIsTracked, PublishedIsInTopic
<1> QED BY <1>2, <1>3, <1>4 DEF IInv

LEMMA ProducePreserves ==
  ASSUME IInv, NEW c \in Caller, Produce(c)
  PROVE  IInv'
<1>1. call[c] \in Publishes /\ call \in [Caller -> Publishes] /\ queue \in Seq(Messages)
  BY DEF IInv, Shape
<1>2. UNCHANGED <<scenario, topic, batch, posts, sessions, answers>>
  BY DEF Produce
<1>3. AnsweredIsInTopic'
  BY <1>2, AnswersStay
<1>4. CASE call' = [call EXCEPT ![c] = Retried(@)] /\ UNCHANGED queue
  <2>1. call' = [call EXCEPT ![c] = Retried(call[c])]
    BY <1>4
  <2>2. Retried(call[c]) \in Publishes /\ Retried(call[c]).at \in {"produce", "raised"}
    BY <1>1, RetriesOrRaises
  <2>3. call' \in [Caller -> Publishes] /\ StoredIsInTopic' /\ FlushIsTracked' /\ PublishedIsInTopic'
    BY <1>2, <1>4, <2>1, <2>2, CallerMoves
  <2> QED BY <1>2, <1>3, <1>4, <2>3 DEF IInv, Shape
<1>5. CASE /\ queue' = Append(queue, [event |-> call[c].event, attempt |-> call[c].attempt,
                                      stored |-> FALSE])
           /\ call' = [call EXCEPT ![c].at = "flush"]
  <2> DEFINE m == [event |-> call[c].event, attempt |-> call[c].attempt, stored |-> FALSE]
             n == Len(queue)
  <2>1. m \in Messages
    BY <1>1 DEF Messages, Publishes
  <2>2. m.event = call[c].event /\ m.attempt = call[c].attempt /\ ~m.stored
    OBVIOUS
  <2>3. queue' = Append(queue, m)
    BY <1>5
  <2> HIDE DEF m
  <2>4. /\ n \in Nat /\ queue' \in Seq(Messages) /\ Len(queue') = n + 1
        /\ queue'[n + 1] = m
        /\ \A i \in 1 .. n : queue'[i] = queue[i]
    BY <1>1, <2>1, <2>3
  <2>5. /\ call' \in [Caller -> Publishes]
        /\ \A b \in Caller : b # c => call'[b] = call[b]
        /\ call'[c].at = "flush" /\ call'[c].event = call[c].event
        /\ call'[c].attempt = call[c].attempt
    BY <1>1, <1>5 DEF Publishes
  <2> HIDE DEF n
  <2>6. StoredIsInTopic'
    <3> SUFFICES ASSUME NEW i \in 1 .. Len(queue'), queue'[i].stored
                 PROVE  InTopic(queue[i].event)'
      BY DEF StoredIsInTopic
    <3>1. i \in 1 .. n
      BY <2>2, <2>4
    <3>2. queue[i].stored /\ queue'[i].event = queue[i].event
      BY <2>4, <3>1
    <3>3. InTopic(queue[i].event)
      BY <3>1, <3>2 DEF IInv, StoredIsInTopic, n
    <3>4. topic' = topic
      BY <1>2
    <3> QED BY <3>2, <3>3, <3>4 DEF InTopic
  <2>7. FlushIsTracked'
    <3> SUFFICES ASSUME NEW b \in Caller, call'[b].at = "flush", ~call'[b].failed
                 PROVE  InQueue(call[b])' \/ InTopic(call[b].event)'
      BY DEF FlushIsTracked
    <3>1. CASE b = c
      BY <2>2, <2>4, <2>5, <3>1 DEF InQueue
    <3>2. CASE b # c
      <4>1. InQueue(call[b]) \/ InTopic(call[b].event)
        BY <2>5, <3>2 DEF IInv, FlushIsTracked
      <4>2. InQueue(call[b]) => InQueue(call[b])'
        BY <2>4, <2>5, <3>2 DEF InQueue, n
      <4> QED BY <1>2, <2>5, <3>2, <4>1, <4>2 DEF InTopic
    <3> QED BY <3>1, <3>2
  <2>8. PublishedIsInTopic'
    BY <1>2, <2>5 DEF IInv, PublishedIsInTopic, InTopic
  <2> QED BY <1>2, <1>3, <2>4, <2>5, <2>6, <2>7, <2>8 DEF IInv, Shape
<1> QED BY <1>4, <1>5 DEF Produce

LEMMA EndFlushPreserves ==
  ASSUME IInv, NEW c \in Caller, EndFlush(c)
  PROVE  IInv'
<1> DEFINE p == Flushed(call[c])
<1>1. call[c] \in Publishes
  BY DEF IInv, Shape
<1>2. /\ UNCHANGED <<scenario, queue, topic, batch, posts, sessions, answers>>
      /\ call' = [call EXCEPT ![c] = p] /\ call[c].at = "flush"
  BY DEF EndFlush
<1>3. /\ p \in Publishes /\ p.at # "flush"
      /\ p.at = "published" => ~call[c].failed /\ p.event = call[c].event /\ (~p.timedOut => queue = <<>>)
  BY <1>1, FlushDecides
<1> HIDE DEF p
<1>4. p.at = "published" /\ ~p.timedOut => InTopic(p.event)
  <2> SUFFICES ASSUME p.at = "published", ~p.timedOut PROVE InTopic(p.event)
    OBVIOUS
  <2>1. InQueue(call[c]) \/ InTopic(call[c].event)
    BY <1>2, <1>3 DEF IInv, FlushIsTracked
  <2>2. ~InQueue(call[c])
    BY <1>3 DEF InQueue
  <2> QED BY <1>3, <2>1, <2>2
<1>5. call' \in [Caller -> Publishes] /\ StoredIsInTopic' /\ FlushIsTracked' /\ PublishedIsInTopic'
  BY <1>2, <1>3, <1>4, CallerMoves
<1>6. AnsweredIsInTopic'
  BY <1>2, AnswersStay
<1> QED BY <1>2, <1>5, <1>6 DEF IInv, Shape

LEMMA StorePreserves ==
  ASSUME IInv, NEW i \in DOMAIN queue, Store(i)
  PROVE  IInv'
<1>1. /\ topic' \in [Keys -> Seq(Known)]
      /\ \A e \in Known : InTopic(e) \/ e = queue[i].event => InTopic(e)'
  BY StoreKeepsTopic DEF IInv
<1>2. /\ queue' = [queue EXCEPT ![i].stored = TRUE]
      /\ UNCHANGED <<scenario, call, batch, posts, sessions, answers>>
  BY DEF Store
<1>3. queue \in Seq(Messages) /\ i \in 1 .. Len(queue) /\ call \in [Caller -> Publishes]
  BY DEF IInv, Shape
<1>4. /\ queue' \in Seq(Messages) /\ Len(queue') = Len(queue)
      /\ \A j \in 1 .. Len(queue) :
           /\ queue'[j].event = queue[j].event /\ queue'[j].attempt = queue[j].attempt
           /\ queue[j].event \in Known
           /\ queue'[j].stored => queue[j].stored \/ j = i
  <2> DEFINE m == [queue[i] EXCEPT !.stored = TRUE]
  <2>1. queue[i] \in Messages /\ \A j \in 1 .. Len(queue) : queue[j] \in Messages
    BY <1>3
  <2>2. m \in Messages /\ m.event = queue[i].event /\ m.attempt = queue[i].attempt
    BY <2>1 DEF Messages
  <2>3. queue' = [queue EXCEPT ![i] = m]
    BY <1>2
  <2> HIDE DEF m
  <2>4. /\ queue' \in Seq(Messages) /\ Len(queue') = Len(queue)
        /\ queue'[i] = m /\ \A j \in 1 .. Len(queue) : j # i => queue'[j] = queue[j]
    BY <1>3, <2>2, <2>3
  <2>5. \A j \in 1 .. Len(queue) : queue[j].event \in Known
    BY <2>1 DEF Messages
  <2> QED BY <2>2, <2>4, <2>5
<1>5. \A c \in Caller : call[c].event \in Known
  BY <1>3 DEF Publishes
<1>6. StoredIsInTopic'
  <2> SUFFICES ASSUME NEW j \in 1 .. Len(queue'), queue'[j].stored
               PROVE  InTopic(queue[j].event)'
    BY DEF StoredIsInTopic
  <2> DEFINE e == queue[j].event
  <2>1. InTopic(e) \/ e = queue[i].event
    BY <1>4 DEF IInv, StoredIsInTopic
  <2>2. queue'[j].event = e /\ e \in Known
    BY <1>4
  <2> HIDE DEF e
  <2>3. PICK d \in Known : d = e /\ d = queue'[j].event
    BY <2>2
  <2>4. InTopic(d)'
    BY <1>1, <2>1, <2>3
  <2> QED BY <2>3, <2>4 DEF InTopic
<1>7. FlushIsTracked'
  <2> SUFFICES ASSUME NEW c \in Caller, call[c].at = "flush", ~call[c].failed
               PROVE  InQueue(call[c])' \/ InTopic(call[c].event)'
    BY <1>2 DEF FlushIsTracked
  <2>1. CASE InQueue(call[c])
    BY <1>2, <1>4, <2>1 DEF InQueue
  <2>2. CASE InTopic(call[c].event)
    BY <1>1, <1>2, <1>5, <2>2 DEF InTopic
  <2> QED BY <2>1, <2>2 DEF IInv, FlushIsTracked
<1>8. PublishedIsInTopic'
  BY <1>1, <1>2, <1>5 DEF IInv, PublishedIsInTopic, InTopic
<1>9. AnsweredIsInTopic'
  BY <1>1, <1>2 DEF IInv, AnsweredIsInTopic, InTopic
<1> QED BY <1>1, <1>2, <1>3, <1>4, <1>6, <1>7, <1>8, <1>9 DEF IInv, Shape

LEMMA ReportPreserves ==
  ASSUME IInv, NEW i \in DOMAIN queue, Report(i)
  PROVE  IInv'
<1> DEFINE sent == queue[i]
           Owner(c) == call[c].at = "flush" /\ call[c].event = sent.event /\ call[c].attempt = sent.attempt
<1>1. /\ queue' = RemoveAt(queue, i)
      /\ UNCHANGED <<scenario, topic, batch, posts, sessions, answers>>
  BY DEF Report
<1>2. queue \in Seq(Messages) /\ i \in 1 .. Len(queue) /\ call \in [Caller -> Publishes]
  BY DEF IInv, Shape
<1>3. /\ queue' \in Seq(Messages)
      /\ \A k \in 1 .. Len(queue') : \E j \in 1 .. Len(queue) : queue'[k] = queue[j]
      /\ \A j \in 1 .. Len(queue) : j # i => \E k \in 1 .. Len(queue') : queue'[k] = queue[j]
  BY <1>1, <1>2, RemoveAtKeeps
<1>4. /\ call' \in [Caller -> Publishes]
      /\ \A c \in Caller :
           /\ call'[c].at = call[c].at /\ call'[c].event = call[c].event
           /\ call'[c].attempt = call[c].attempt /\ call'[c].timedOut = call[c].timedOut
           /\ ~call'[c].failed => ~call[c].failed /\ (sent.stored \/ ~Owner(c))
  <2>1. CASE sent.stored /\ UNCHANGED call
    BY <1>2, <2>1
  <2>2. CASE call' = [c \in Caller |-> IF Owner(c) THEN [call[c] EXCEPT !.failed = TRUE] ELSE call[c]]
    <3> HIDE DEF Owner
    <3>1. \A c \in Caller : call'[c] = IF Owner(c) THEN [call[c] EXCEPT !.failed = TRUE] ELSE call[c]
      BY <2>2
    <3>2. ASSUME NEW p \in Publishes
          PROVE  LET q == [p EXCEPT !.failed = TRUE]
                 IN  /\ q \in Publishes /\ q.at = p.at /\ q.event = p.event
                     /\ q.attempt = p.attempt /\ q.timedOut = p.timedOut /\ q.failed
      BY DEF Publishes
    <3>3. \A c \in Caller : call[c] \in Publishes
      BY <1>2
    <3> QED BY <2>2, <3>1, <3>2, <3>3
  <2> QED BY <2>1, <2>2 DEF Report
<1>5. StoredIsInTopic'
  <2> SUFFICES ASSUME NEW k \in 1 .. Len(queue'), queue'[k].stored
               PROVE  InTopic(queue[k].event)'
    BY DEF StoredIsInTopic
  <2>1. PICK j \in 1 .. Len(queue) : queue'[k] = queue[j]
    BY <1>3
  <2>2. InTopic(queue[j].event)
    BY <2>1 DEF IInv, StoredIsInTopic
  <2> QED BY <1>1, <2>1, <2>2 DEF InTopic
<1>6. FlushIsTracked'
  <2> SUFFICES ASSUME NEW c \in Caller, call'[c].at = "flush", ~call'[c].failed
               PROVE  InQueue(call[c])' \/ InTopic(call[c].event)'
    BY DEF FlushIsTracked
  <2>1. call[c].at = "flush" /\ ~call[c].failed /\ (sent.stored \/ ~Owner(c))
    BY <1>4
  <2>2. CASE InTopic(call[c].event)
    BY <1>1, <1>4, <2>2 DEF InTopic
  <2>3. CASE InQueue(call[c])
    <3>1. PICK j \in 1 .. Len(queue) : queue[j].event = call[c].event /\ queue[j].attempt = call[c].attempt
      BY <2>3 DEF InQueue
    <3>2. CASE j = i
      <4>1. sent.stored /\ sent.event = call[c].event
        BY <2>1, <3>1, <3>2
      <4>2. InTopic(call[c].event)
        BY <1>2, <4>1 DEF IInv, StoredIsInTopic
      <4> QED BY <1>1, <1>4, <4>2 DEF InTopic
    <3>3. CASE j # i
      <4>1. PICK k \in 1 .. Len(queue') : queue'[k] = queue[j]
        BY <1>3, <3>3
      <4>2. queue'[k].event = call'[c].event /\ queue'[k].attempt = call'[c].attempt
        BY <1>4, <3>1, <4>1
      <4> QED BY <4>2 DEF InQueue
    <3> QED BY <3>2, <3>3
  <2> QED BY <2>1, <2>2, <2>3 DEF IInv, FlushIsTracked
<1>7. PublishedIsInTopic'
  BY <1>1, <1>4 DEF IInv, PublishedIsInTopic, InTopic
<1>8. AnsweredIsInTopic'
  BY <1>1, AnswersStay
<1> QED BY <1>1, <1>3, <1>4, <1>5, <1>6, <1>7, <1>8 DEF IInv, Shape

LEMMA ReceivePreserves ==
  ASSUME IInv, NEW h \in Handler, NEW body \in scenario.bodies, Receive(h, body)
  PROVE  IInv'
<1> DEFINE e == [body EXCEPT !.session = -posts']
<1>1. /\ UNCHANGED <<scenario, queue, topic, batch, sessions, answers>>
      /\ posts' = posts + 1
  BY DEF Receive
<1>2. posts \in Int /\ scenario \in Scenarios
  BY DEF IInv, Shape
<1>3. posts' \in Int /\ -posts' \in Int
  BY <1>1, <1>2
<1>4. e \in Known
  BY <1>2, <1>3, PostedIsKnown
<1>5. AnsweredIsInTopic'
  BY <1>1, AnswersStay
<1>6. CASE call' = [call EXCEPT ![h] = Publish(e)]
  <2> HIDE DEF e
  <2>1. Publish(e) \in Publishes /\ Publish(e).at = "produce" /\ h \in Caller
    BY <1>4, PublishesStart DEF Caller
  <2>2. call' \in [Caller -> Publishes] /\ StoredIsInTopic' /\ FlushIsTracked' /\ PublishedIsInTopic'
    BY <1>1, <1>6, <2>1, CallerMoves
  <2> QED BY <1>1, <1>3, <1>5, <2>2 DEF IInv, Shape
<1>7. CASE UNCHANGED call
  <2>1. StoredIsInTopic' /\ FlushIsTracked' /\ PublishedIsInTopic'
    BY <1>1, <1>7 DEF IInv, StoredIsInTopic, FlushIsTracked, PublishedIsInTopic, InQueue, InTopic
  <2> QED BY <1>1, <1>3, <1>5, <1>7, <2>1 DEF IInv, Shape
<1> QED BY <1>6, <1>7 DEF Receive

LEMMA RespondPreserves ==
  ASSUME IInv, NEW h \in Handler, Respond(h)
  PROVE  IInv'
<1>1. /\ UNCHANGED <<scenario, queue, topic, batch, posts, sessions>>
      /\ answers' = Told(h) /\ call' = [call EXCEPT ![h] = Idle] /\ h \in Caller
  BY DEF Respond, Caller
<1>2. call' \in [Caller -> Publishes] /\ StoredIsInTopic' /\ FlushIsTracked' /\ PublishedIsInTopic'
  BY <1>1, PublishesStart, CallerMoves
<1>3. AnsweredIsInTopic'
  BY <1>1, AnswersGrow
<1> QED BY <1>1, <1>2, <1>3 DEF IInv, Shape

LEMMA WakeUpPreserves ==
  ASSUME IInv, NEW d \in scenario.draws, WakeUp(d)
  PROVE  IInv'
<1> DEFINE events == SyntheticSequence(d, sessions')
<1>1. /\ UNCHANGED <<scenario, queue, topic, posts, answers>>
      /\ sessions' = sessions + 1
      /\ call' = [call EXCEPT !["generator"] = Publish(Head(events))]
      /\ batch' = Tail(events)
  BY DEF WakeUp
<1>2. d \in Draw /\ sessions' \in Int
  BY <1>1, PublisherAssumption DEF IInv, Shape
<1>3. events \in Seq(Known) /\ events # <<>>
  BY <1>2, SessionIsKnown
<1> HIDE DEF events
<1>4. Head(events) \in Known /\ batch' \in Seq(Known) /\ "generator" \in Caller
  BY <1>1, <1>3, HeadTailProperties DEF Caller
<1>5. Publish(Head(events)) \in Publishes /\ Publish(Head(events)).at = "produce"
  BY <1>4, PublishesStart
<1>6. call' \in [Caller -> Publishes] /\ StoredIsInTopic' /\ FlushIsTracked' /\ PublishedIsInTopic'
  BY <1>1, <1>4, <1>5, CallerMoves
<1>7. AnsweredIsInTopic'
  BY <1>1, AnswersStay
<1> QED BY <1>1, <1>2, <1>4, <1>6, <1>7 DEF IInv, Shape

LEMMA GoOnPreserves ==
  ASSUME IInv, GoOn
  PROVE  IInv'
<1>1. /\ UNCHANGED <<scenario, queue, topic, posts, sessions>>
      /\ answers' = Told("generator") /\ "generator" \in Caller
  BY DEF GoOn, Caller
<1>2. batch \in Seq(Known)
  BY DEF IInv, Shape
<1>3. PICK p \in Publishes : /\ call' = [call EXCEPT !["generator"] = p]
                             /\ p.at \in {"idle", "produce"} /\ batch' \in Seq(Known)
  <2>1. CASE /\ batch # <<>> /\ batch' = Tail(batch)
             /\ call' = [call EXCEPT !["generator"] = Publish(Head(batch))]
    <3>1. Head(batch) \in Known /\ Tail(batch) \in Seq(Known)
      BY <1>2, <2>1, HeadTailProperties
    <3> QED BY <2>1, <3>1, PublishesStart
  <2>2. CASE call' = [call EXCEPT !["generator"] = Idle] /\ (UNCHANGED batch \/ batch' = <<>>)
    <3>1. CASE UNCHANGED batch
      BY <1>2, <2>2, <3>1, PublishesStart
    <3>2. CASE batch' = <<>>
      <4>1. <<>> \in Seq(Known)
        OBVIOUS
      <4> QED BY <2>2, <3>2, <4>1, PublishesStart, Zenon
    <3> QED BY <2>2, <3>1, <3>2
  <2> QED BY <2>1, <2>2 DEF GoOn
<1>4. call' \in [Caller -> Publishes] /\ StoredIsInTopic' /\ FlushIsTracked' /\ PublishedIsInTopic'
  BY <1>1, <1>3, CallerMoves
<1>5. AnsweredIsInTopic'
  BY <1>1, AnswersGrow
<1> QED BY <1>1, <1>3, <1>4, <1>5 DEF IInv, Shape

LEMMA RestartPreserves ==
  ASSUME IInv, Restart
  PROVE  IInv'
<1>1. /\ UNCHANGED <<scenario, topic, posts, sessions, answers>>
      /\ queue' = <<>> /\ batch' = <<>> /\ call' = [c \in Caller |-> Idle]
  BY DEF Restart
<1>2. call' \in [Caller -> Publishes] /\ \A c \in Caller : call'[c].at = "idle"
  BY <1>1, PublishesStart
<1>3. StoredIsInTopic'
  BY <1>1 DEF StoredIsInTopic
<1>4. FlushIsTracked' /\ PublishedIsInTopic'
  BY <1>2 DEF FlushIsTracked, PublishedIsInTopic
<1>5. AnsweredIsInTopic'
  BY <1>1, AnswersStay
<1> QED BY <1>1, <1>2, <1>3, <1>4, <1>5 DEF IInv, Shape

-----------------------------------------------------------------------------
\* The invariant under every step.
LEMMA StepPreserves == IInv /\ [Next]_vars => IInv'
<1> SUFFICES ASSUME IInv, [Next]_vars PROVE IInv'
  OBVIOUS
<1>1. ASSUME NEW c \in Caller, Run(c) PROVE IInv'
  BY <1>1, ProducePreserves, EndFlushPreserves DEF Run
<1>2. ASSUME NEW i \in DOMAIN queue, Store(i) \/ Report(i) PROVE IInv'
  BY <1>2, StorePreserves, ReportPreserves
<1>3. ASSUME NEW h \in Handler, NEW body \in scenario.bodies, Receive(h, body) PROVE IInv'
  BY <1>3, ReceivePreserves
<1>4. ASSUME NEW h \in Handler, Respond(h) PROVE IInv'
  BY <1>4, RespondPreserves
<1>5. ASSUME NEW d \in scenario.draws, WakeUp(d) PROVE IInv'
  BY <1>5, WakeUpPreserves
<1>6. CASE GoOn \/ Restart
  BY <1>6, GoOnPreserves, RestartPreserves
<1>7. CASE UNCHANGED vars
  BY <1>7 DEF vars, IInv, Shape, StoredIsInTopic, FlushIsTracked, PublishedIsInTopic,
              AnsweredIsInTopic, InQueue, InTopic
<1> QED BY <1>1, <1>2, <1>3, <1>4, <1>5, <1>6, <1>7 DEF Next

LEMMA InvariantImplies == IInv => AcknowledgedIsStored
<1> SUFFICES ASSUME IInv, NEW a \in answers, a.published, ~a.timedOut
             PROVE  Places(a.event) # {}
  BY DEF AcknowledgedIsStored
<1> DEFINE e == a.event
           k == PartitionKey(e)
<1>1. k \in Keys /\ InTopic(e)
  BY DEF IInv, AnsweredIsInTopic, Known
<1>2. PICK i \in 1 .. Len(topic[k]) : topic[k][i] = e
  BY <1>1 DEF InTopic
<1>3. <<k, i>> \in Places(e)
  BY <1>1, <1>2 DEF Places
<1> QED BY <1>3

\* An event that was acknowledged without its flush having timed out is in the
\* topic: publish reports success only when the callback of its own attempt has
\* run without an error (kafka_client.py), whoever ran it, and whatever other
\* threads, retries and restarts do meanwhile.
THEOREM AcknowledgedStored == Spec => []AcknowledgedIsStored
BY InitEstablishes, StepPreserves, InvariantImplies, PTL DEF Spec

-----------------------------------------------------------------------------
(* Types, the order of a session, and the number of its copies *)

\* What is published is valid, and a generated session has one user and one movie.
Good(e) == Valid(e) /\ (e.session > 0 => e.user = "user-1" /\ e.movie = "movie-1")

Busy(c) == call[c].at # "idle"
HasMessage(e) == \E i \in 1 .. Len(queue) : queue[i].event = e
Failed(e) == {f \in failures : f.event = e}

\* The event has been handed to the producer, by this process or by an earlier one.
Seen(e) == InTopic(e) \/ HasMessage(e) \/ Failed(e) # {}

Numbers ==
  /\ schemaKnown \in BOOLEAN /\ posts \in Nat /\ sessions \in Nat
  /\ generator \in {"off", "asleep", "publishing", "dead"}
  /\ generator = "publishing" <=> Busy("generator")
  /\ failures \subseteq [event : Known, attempt : 1 .. MaxAttempts] /\ IsFiniteSet(failures)

\* The session of an event is the number of its post, negated, or of its session.
CallFits(c) ==
  /\ call[c].attempt \in 0 .. MaxAttempts
  /\ call[c].at = "produce" => ~call[c].failed
  /\ Busy(c) => /\ call[c].attempt >= 1 /\ Good(call[c].event)
                /\ call[c].event.session \in IF c = "generator" THEN 1 .. sessions ELSE -posts .. -1

CallersDiffer ==
  \A b, c \in Caller : b # c /\ Busy(b) /\ Busy(c) => call[b].event # call[c].event

MessageFits(m) == m.attempt \in 1 .. MaxAttempts /\ Good(m.event) /\ Encodable(m.event)
QueueFits == \A i \in 1 .. Len(queue) : MessageFits(queue[i])
PartitionFits(k) ==
  \A i \in 1 .. Len(topic[k]) :
    LET e == topic[k][i] IN Good(e) /\ Encodable(e) /\ PartitionKey(e) = k
BatchFits == \A i \in 1 .. Len(batch) : Good(batch[i]) /\ batch[i].session \in 1 .. sessions
SeenFits == \A e \in Known : Seen(e) => e.session \in -posts .. sessions /\ e.session # 0

Fits ==
  /\ Numbers /\ (\A c \in Caller : CallFits(c)) /\ CallersDiffer
  /\ QueueFits /\ (\A k \in Keys : PartitionFits(k)) /\ BatchFits /\ SeenFits

\* Of one generated session, e does not come after f; e comes before f.
Upto(e, f) ==
  e.session = f.session /\ e.session > 0 => e.time <= f.time /\ e.progress <= f.progress
Before(e, f) ==
  e.session = f.session /\ e.session > 0 => e.time < f.time /\ e.progress <= f.progress

PartitionOrdered(k) ==
  \A i, j \in 1 .. Len(topic[k]) : i < j => Upto(topic[k][i], topic[k][j])
QueueOrdered == \A i, j \in 1 .. Len(queue) : i < j => Upto(queue[i].event, queue[j].event)
TopicBeforeQueue ==
  \A i \in 1 .. Len(queue) : \A e \in Known :
    ~queue[i].stored /\ InTopic(e) => Upto(e, queue[i].event)
SeenBeforeGenerator ==
  Busy("generator") => \A e \in Known : Seen(e) => Upto(e, call["generator"].event)
BeforeBatch ==
  \A i \in 1 .. Len(batch) :
    /\ \A e \in Known : Seen(e) => Before(e, batch[i])
    /\ Busy("generator") => Before(call["generator"].event, batch[i])
    /\ \A j \in 1 .. Len(batch) : i < j => Before(batch[i], batch[j])

Ordered ==
  /\ \A k \in Keys : PartitionOrdered(k)
  /\ QueueOrdered /\ TopicBeforeQueue /\ SeenBeforeGenerator /\ BeforeBatch

\* The attempts of an event whose message may still be stored.
Pending(e) ==
  {a \in 1 .. MaxAttempts :
     \E i \in 1 .. Len(queue) : ~queue[i].stored /\ queue[i].event = e /\ queue[i].attempt = a}
Stored(e) ==
  {i \in 1 .. Len(topic[PartitionKey(e)]) : topic[PartitionKey(e)][i] = e}
Copies(e) == Cardinality(Stored(e)) + Cardinality(Pending(e))

\* A publish that will produce its event, unless it gives up.
Owes(p) == p.at = "produce" \/ (p.at = "flush" /\ p.failed)

CopiesNeedFailures ==
  /\ \A e \in Known : Copies(e) <= 1 + Cardinality(Failed(e))
  /\ \A c \in Caller : \A e \in Known :
       Owes(call[c]) /\ call[c].event = e => Copies(e) <= Cardinality(Failed(e))

\* No attempt has two messages, or one after its failure.
MessagesDiffer ==
  \A i \in 1 .. Len(queue) :
    /\ [event |-> queue[i].event, attempt |-> queue[i].attempt] \notin failures
    /\ \A j \in 1 .. Len(queue) :
         queue[i].event = queue[j].event /\ queue[i].attempt = queue[j].attempt => i = j

\* What has been made of a publish is older than its next attempt.
Older(a, p) == a <= p.attempt /\ (p.at = "produce" => a < p.attempt)
AttemptsGrow ==
  \A c \in Caller : Busy(c) =>
    /\ \A i \in 1 .. Len(queue) :
         queue[i].event = call[c].event => Older(queue[i].attempt, call[c])
    /\ \A f \in failures : f.event = call[c].event => Older(f.attempt, call[c])

Counted == CopiesNeedFailures /\ MessagesDiffer /\ AttemptsGrow

TopicInv == Fits /\ Ordered /\ Counted

-----------------------------------------------------------------------------
(* A generated session *)

\* The positions of a sequence of views lie between two others and do not go back.
Between(v, lo, hi) ==
  /\ v \in Seq(Kinds \X Int)
  /\ \A i \in 1 .. Len(v) : lo <= v[i][2] /\ v[i][2] <= hi
  /\ \A i, j \in 1 .. Len(v) : i < j => v[i][2] <= v[j][2]

LEMMA BetweenJoins ==
  ASSUME NEW lo \in Int, NEW m \in Int, NEW hi \in Int, lo <= m, m <= hi,
         NEW v, NEW w, Between(v, lo, m), Between(w, m, hi)
  PROVE  Between(v \o w, lo, hi)
<1> DEFINE S == Kinds \X Int
           u == v \o w
<1>1. v \in Seq(S) /\ w \in Seq(S) /\ Len(v) \in Nat /\ Len(w) \in Nat
  BY DEF Between
<1>2. /\ u \in Seq(S) /\ Len(u) = Len(v) + Len(w)
      /\ \A i \in 1 .. Len(u) : u[i] = IF i <= Len(v) THEN v[i] ELSE w[i - Len(v)]
  BY <1>1, ConcatProperties
<1>3. \A i \in 1 .. Len(v) : v[i][2] \in Int /\ lo <= v[i][2] /\ v[i][2] <= m
  <2>1. \A i \in 1 .. Len(v) : v[i][2] \in Int
    BY <1>1
  <2> QED BY <2>1 DEF Between
<1>4. \A i \in 1 .. Len(w) : w[i][2] \in Int /\ m <= w[i][2] /\ w[i][2] <= hi
  <2>1. \A i \in 1 .. Len(w) : w[i][2] \in Int
    BY <1>1
  <2> QED BY <2>1 DEF Between
<1>8. Len(u) = Len(v) + Len(w) /\ Len(v) \in Nat /\ Len(w) \in Nat
  BY <1>1, <1>2
<1> HIDE DEF u
<1>5. ASSUME NEW i \in 1 .. Len(u)
      PROVE  /\ i <= Len(v) => u[i][2] = v[i][2] /\ lo <= u[i][2] /\ u[i][2] <= m
             /\ i > Len(v) => /\ u[i][2] = w[i - Len(v)][2] /\ m <= u[i][2] /\ u[i][2] <= hi
                              /\ i - Len(v) \in 1 .. Len(w)
             /\ u[i][2] \in Int
  <2>1. CASE i <= Len(v)
    <3>1. i \in 1 .. Len(v) /\ u[i] = v[i]
      BY <1>1, <1>2, <2>1
    <3>2. u[i][2] = v[i][2] /\ ~(i > Len(v))
      BY <1>1, <2>1, <3>1
    <3> QED BY <1>3, <2>1, <3>1, <3>2
  <2>2. CASE i > Len(v)
    <3>1. i - Len(v) \in 1 .. Len(w) /\ u[i] = w[i - Len(v)] /\ ~(i <= Len(v))
      BY <1>1, <1>2, <2>2
    <3>2. u[i][2] = w[i - Len(v)][2]
      BY <3>1
    <3> QED BY <1>4, <2>2, <3>1, <3>2
  <2> QED BY <1>1, <2>1, <2>2
<1>6. ASSUME NEW i \in 1 .. Len(u), NEW j \in 1 .. Len(u), i < j
      PROVE  u[i][2] <= u[j][2]
  <2>1. CASE j <= Len(v)
    <3>1. i \in 1 .. Len(v) /\ j \in 1 .. Len(v)
      BY <1>6, <1>8, <2>1
    <3>2. v[i][2] <= v[j][2]
      BY <1>6, <3>1 DEF Between
    <3> QED BY <1>1, <1>5, <3>1, <3>2
  <2>2. CASE i <= Len(v) /\ j > Len(v)
    <3>1. u[i][2] <= m /\ m <= u[j][2] /\ u[i][2] \in Int /\ u[j][2] \in Int
      BY <1>5, <2>2
    <3> QED BY <3>1
  <2>3. CASE i > Len(v)
    <3>1. j > Len(v) /\ i - Len(v) \in 1 .. Len(w) /\ j - Len(v) \in 1 .. Len(w) /\ i - Len(v) < j - Len(v)
      BY <1>6, <1>8, <2>3
    <3>2. w[i - Len(v)][2] <= w[j - Len(v)][2]
      BY <3>1 DEF Between
    <3> QED BY <1>5, <2>3, <3>1, <3>2
  <2> QED BY <1>8, <2>1, <2>2, <2>3
<1>7. \A i \in 1 .. Len(u) : lo <= u[i][2] /\ u[i][2] <= hi
  BY <1>5, <1>8
<1> QED BY <1>2, <1>6, <1>7 DEF Between, u

LEMMA BetweenSmall ==
  ASSUME NEW lo \in Int, NEW hi \in Int
  PROVE  /\ Between(<<>>, lo, hi)
         /\ \A k \in Kinds, n \in lo .. hi : Between(<<<<k, n>>>>, lo, hi)
         /\ \A k, l \in Kinds, m, n \in lo .. hi :
              m <= n => Between(<<<<k, m>>, <<l, n>>>>, lo, hi)
<1> DEFINE S == Kinds \X Int
<1>1. Between(<<>>, lo, hi)
  BY DEF Between
<1>2. ASSUME NEW k \in Kinds, NEW n \in lo .. hi
      PROVE  Between(<<<<k, n>>>>, lo, hi)
  <2> DEFINE x == <<k, n>>
  <2>1. x \in S /\ x[2] = n
    OBVIOUS
  <2> HIDE DEF x, S
  <2>2. <<x>> \in Seq(S) /\ Len(<<x>>) = 1 /\ <<x>>[1] = x
    BY <2>1
  <2> QED BY <2>1, <2>2 DEF Between, S, x
<1>3. ASSUME NEW k \in Kinds, NEW l \in Kinds, NEW m \in lo .. hi, NEW n \in lo .. hi, m <= n
      PROVE  Between(<<<<k, m>>, <<l, n>>>>, lo, hi)
  <2> DEFINE x == <<k, m>>
             y == <<l, n>>
             v == <<x, y>>
  <2>1. x \in S /\ x[2] = m /\ y \in S /\ y[2] = n
    OBVIOUS
  <2> HIDE DEF x, y, S
  <2>2. v \in Seq(S) /\ Len(v) = 2 /\ v[1] = x /\ v[2] = y
    BY <2>1
  <2> HIDE DEF v
  <2>3. \A i \in 1 .. Len(v) : v[i][2] = m \/ v[i][2] = n
    BY <2>1, <2>2
  <2>4. \A i, j \in 1 .. Len(v) : i < j => i = 1 /\ j = 2
    BY <2>2
  <2>5. Between(v, lo, hi)
    BY <1>3, <2>1, <2>2, <2>3, <2>4 DEF Between, S
  <2> QED BY <2>5 DEF v, x, y
<1> QED BY <1>1, <1>2, <1>3

\* The viewer of a generated session is never back where they have been.
LEMMA ViewsGoOn ==
  ASSUME NEW d \in Draw
  PROVE  Between(Views(d), 0, d.finish) /\ Len(Views(d)) >= 1
<1> DEFINE start == <<<<"VIEW_STARTED", 0>>>>
           first == <<<<"VIEW_PAUSED", d.pause>>, <<"VIEW_RESUMED", ResumeAt(d)>>>>
           second == <<<<"VIEW_PAUSED", PauseAgainAt(d)>>, <<"VIEW_RESUMED", ResumeAgainAt(d)>>>>
           finish == <<<<"VIEW_FINISHED", d.finish>>>>
           a == IF d.paused THEN first ELSE <<>>
           b == IF d.pausedAgain THEN second ELSE <<>>
           c == IF d.finished THEN finish ELSE <<>>
           r == ResumeAt(d)
           q == PauseAgainAt(d)
           t == ResumeAgainAt(d)
<1> DEFINE f == d.finish
           p == d.pause
           x == d.resume
           y == d.pauseAgain
           z == d.resumeAgain
<1>15. r = Lesser(f - 60, p + x) /\ q = Lesser(f - 30, r + y) /\ t = Lesser(f - 10, q + z)
  BY Zenon DEF ResumeAt, PauseAgainAt, ResumeAgainAt
<1>16. /\ f \in Int /\ p \in Int /\ 0 < p /\ p <= f - 60
       /\ x \in Int /\ 0 < x /\ y \in Int /\ 0 < y /\ z \in Int /\ 0 < z
  BY DrawnRanges
<1> HIDE DEF f, p, x, y, z, r, q, t
<1>2. r \in Int /\ p <= r /\ r <= f - 60
  BY <1>15, <1>16 DEF Lesser
<1>3. q \in Int /\ r <= q /\ q <= f - 30
  BY <1>2, <1>15, <1>16 DEF Lesser
<1>4. t \in Int /\ q <= t /\ t <= f
  BY <1>3, <1>15, <1>16 DEF Lesser
<1>5. {"VIEW_STARTED", "VIEW_PAUSED", "VIEW_RESUMED", "VIEW_FINISHED"} \subseteq Kinds
  BY DEF Kinds, Watching
<1>6. Between(start, 0, 0) /\ Len(start) = 1
  BY <1>5, BetweenSmall
<1>7. Between(a, 0, r)
  <2>1. 0 \in Int /\ p \in 0 .. r /\ r \in 0 .. r
    BY <1>2, <1>16
  <2>2. Between(<<<<"VIEW_PAUSED", p>>, <<"VIEW_RESUMED", r>>>>, 0, r)
    BY <1>2, <1>5, <2>1, BetweenSmall
  <2>3. Between(first, 0, r)
    BY <2>2, Zenon DEF p, r
  <2> HIDE DEF first
  <2> QED BY <1>2, <2>1, <2>3, BetweenSmall
<1>8. Between(b, r, t)
  <2>1. q \in r .. t /\ t \in r .. t
    BY <1>2, <1>3, <1>4
  <2>2. Between(second, r, t)
    <3>1. Between(<<<<"VIEW_PAUSED", q>>, <<"VIEW_RESUMED", t>>>>, r, t)
      BY <1>2, <1>3, <1>4, <1>5, <2>1, BetweenSmall
    <3> QED BY <3>1, Zenon DEF q, t
  <2> HIDE DEF second
  <2> QED BY <1>2, <1>4, <2>2, BetweenSmall
<1>9. Between(c, t, f)
  <2>1. f \in Int /\ f \in t .. f
    BY <1>4, <1>16
  <2>2. Between(finish, t, f)
    <3>1. Between(<<<<"VIEW_FINISHED", f>>>>, t, f)
      <4>1. "VIEW_FINISHED" \in Kinds
        BY <1>5
      <4> QED BY <1>4, <2>1, <4>1, BetweenSmall
    <3> QED BY <3>1 DEF f
  <2> HIDE DEF finish
  <2> QED BY <1>4, <2>1, <2>2, BetweenSmall
<1>10. Views(d) = ((start \o a) \o b) \o c
  BY DEF Views
<1> HIDE DEF start, a, b, c
<1>11. Between(start \o a, 0, r)
  BY <1>2, <1>6, <1>7, <1>16, BetweenJoins
<1>12. Between((start \o a) \o b, 0, t)
  BY <1>2, <1>3, <1>4, <1>8, <1>11, <1>16, BetweenJoins
<1>13. Between(Views(d), 0, f)
  BY <1>2, <1>3, <1>4, <1>9, <1>10, <1>12, <1>16, BetweenJoins
<1>14. Len(Views(d)) >= 1
  BY ViewsOfSession
<1> QED BY <1>13, <1>14 DEF f

\* A part of the session n: its events are valid, and each comes before the next.
Earlier(e, f) == e.time < f.time /\ e.progress <= f.progress
SessionPart(s, n) ==
  /\ s \in Seq(Known)
  /\ \A i \in 1 .. Len(s) : Good(s[i]) /\ s[i].session = n
  /\ \A i, j \in 1 .. Len(s) : i < j => Earlier(s[i], s[j])

LEMMA EarlierJoins ==
  ASSUME NEW e \in Known, NEW f \in Known, NEW g \in Known, Earlier(e, f), Earlier(f, g)
  PROVE  Earlier(e, g)
<1>1. /\ e.time \in Int /\ f.time \in Int /\ g.time \in Int
      /\ e.progress \in Int /\ f.progress \in Int /\ g.progress \in Int
  BY DEF Known, EventRecord
<1> QED BY <1>1 DEF Earlier

LEMMA JoinedElements ==
  ASSUME NEW S, NEW s \in Seq(S), NEW t \in Seq(S), NEW i \in 1 .. Len(s \o t)
  PROVE  \/ \E a \in 1 .. Len(s) : (s \o t)[i] = s[a]
         \/ \E b \in 1 .. Len(t) : (s \o t)[i] = t[b]
<1>1. /\ Len(s \o t) = Len(s) + Len(t) /\ Len(s) \in Nat /\ Len(t) \in Nat
      /\ (s \o t)[i] = IF i <= Len(s) THEN s[i] ELSE t[i - Len(s)]
  BY ConcatProperties
<1>2. CASE i <= Len(s)
  BY <1>1, <1>2
<1>3. CASE ~(i <= Len(s))
  <2>1. i - Len(s) \in 1 .. Len(t)
    BY <1>1, <1>3
  <2> QED BY <1>1, <1>3, <2>1
<1> QED BY <1>2, <1>3

LEMMA PartsJoin ==
  ASSUME NEW n, NEW s, NEW t, SessionPart(s, n), SessionPart(t, n),
         \A i \in 1 .. Len(s), j \in 1 .. Len(t) : Earlier(s[i], t[j])
  PROVE  SessionPart(s \o t, n)
<1> DEFINE u == s \o t
<1>1. s \in Seq(Known) /\ t \in Seq(Known)
  BY DEF SessionPart
<1>2. /\ u \in Seq(Known) /\ Len(u) = Len(s) + Len(t) /\ Len(s) \in Nat /\ Len(t) \in Nat
      /\ \A i \in 1 .. Len(u) : u[i] = IF i <= Len(s) THEN s[i] ELSE t[i - Len(s)]
  BY <1>1, ConcatProperties
<1>3. Len(u) = Len(s) + Len(t) /\ Len(s) \in Nat /\ Len(t) \in Nat
  BY <1>2
<1> HIDE DEF u
<1>4. ASSUME NEW i \in 1 .. Len(u)
      PROVE  \/ i \in 1 .. Len(s) /\ u[i] = s[i]
             \/ i > Len(s) /\ i - Len(s) \in 1 .. Len(t) /\ u[i] = t[i - Len(s)]
  <2>1. CASE i <= Len(s)
    BY <1>2, <1>3, <2>1
  <2>2. CASE i > Len(s)
    <3>1. i - Len(s) \in 1 .. Len(t) /\ ~(i <= Len(s))
      BY <1>3, <2>2
    <3> QED BY <1>2, <2>2, <3>1
  <2> QED BY <1>3, <2>1, <2>2
<1>5. \A i \in 1 .. Len(u) : Good(u[i]) /\ u[i].session = n
  BY <1>4 DEF SessionPart
<1>6. ASSUME NEW i \in 1 .. Len(u), NEW j \in 1 .. Len(u), i < j
      PROVE  Earlier(u[i], u[j])
  <2>1. CASE i \in 1 .. Len(s) /\ j \in 1 .. Len(s) /\ u[i] = s[i] /\ u[j] = s[j]
    BY <1>6, <2>1 DEF SessionPart
  <2>2. CASE i \in 1 .. Len(s) /\ j - Len(s) \in 1 .. Len(t) /\ u[i] = s[i] /\ u[j] = t[j - Len(s)]
    BY <2>2
  <2>3. CASE /\ i - Len(s) \in 1 .. Len(t) /\ j - Len(s) \in 1 .. Len(t)
             /\ u[i] = t[i - Len(s)] /\ u[j] = t[j - Len(s)]
    <3>1. i - Len(s) < j - Len(s)
      BY <1>3, <1>6
    <3> QED BY <2>3, <3>1 DEF SessionPart
  <2>4. i > Len(s) => ~(j \in 1 .. Len(s))
    BY <1>3, <1>6
  <2> QED BY <1>4, <2>1, <2>2, <2>3, <2>4
<1> QED BY <1>2, <1>5, <1>6 DEF SessionPart, u

LEMMA PartsStart ==
  ASSUME NEW n
  PROVE  /\ SessionPart(<<>>, n)
         /\ \A e \in Known : Good(e) /\ e.session = n => SessionPart(<<e>>, n)
<1>1. SessionPart(<<>>, n)
  BY DEF SessionPart
<1>2. ASSUME NEW e \in Known, Good(e), e.session = n
      PROVE  SessionPart(<<e>>, n)
  <2>1. <<e>> \in Seq(Known) /\ Len(<<e>>) = 1 /\ <<e>>[1] = e
    OBVIOUS
  <2>2. \A i, j \in 1 .. 1 : ~(i < j)
    OBVIOUS
  <2> QED BY <1>2, <2>1, <2>2 DEF SessionPart
<1> QED BY <1>1, <1>2

LEMMA EventIsGood ==
  ASSUME NEW n \in Int, NEW type \in Kinds, NEW progress \in Nat, NEW time \in Int,
         NEW e, e = Event(n, type, progress, time)
  PROVE  /\ e \in Known /\ Good(e) /\ e.session = n
         /\ e.time = time /\ e.progress = progress
<1>1. e \in Known
  BY EventIsKnown
<1>2. /\ e.user = "user-1" /\ e.movie = "movie-1" /\ e.type = type /\ e.progress = progress
      /\ e.query = (type = "SEARCHED") /\ e.time = time /\ e.session = n
  BY DEF Event
<1>3. e.progress >= 0 /\ e.progress # None /\ e.user # "" /\ e.movie # ""
  BY <1>2 DEF None
<1>4. e.type = "SEARCHED" => e.query
  BY <1>2, Zenon
<1>5. Good(e)
  BY <1>2, <1>3, <1>4, Zenon DEF Good, Valid
<1> QED BY <1>1, <1>2, <1>5

LEMMA LaterTick ==
  ASSUME NEW i \in Nat, NEW j \in Nat, NEW g \in Nat, i < j, 0 < g
  PROVE  i * g \in Nat /\ i * g < j * g
<1>1. j = i + (j - i) /\ j - i \in Nat /\ 1 <= j - i
  OBVIOUS
<1>2. j * g = i * g + (j - i) * g
  BY <1>1
<1>3. (j - i) * g >= g
  BY <1>1
<1>4. i * g \in Nat /\ (j - i) * g \in Nat
  BY <1>1
<1> QED BY <1>2, <1>3, <1>4

\* build_synthetic_sequence: the events of a session come one after the other, in
\* time and in the film.
LEMMA SessionGoesOn ==
  ASSUME NEW d \in Draw, NEW n \in Int
  PROVE  SessionPart(SyntheticSequence(d, n), n) /\ SyntheticSequence(d, n) # <<>>
<1> DEFINE v == Views(d)
           len == Len(v)
           views == Viewed(d, n)
           liked == Liked(d, n)
           searched == Searched(d, n)
           last == Last(views)
<1>1. /\ v \in Seq(Kinds \X Int) /\ len \in Nat /\ len >= 1
      /\ \A i \in 1 .. len : v[i][1] \in Kinds /\ v[i][2] \in Nat
      /\ \A i, j \in 1 .. len : i < j => v[i][2] <= v[j][2]
  <2>1. v \in Seq(Kinds \X Int) /\ len >= 1 /\ Between(v, 0, d.finish)
    BY ViewsGoOn DEF Between
  <2>2. \A i \in 1 .. len : v[i][1] \in Kinds /\ v[i][2] \in Int
    BY <2>1
  <2> QED BY <2>1, <2>2 DEF Between
<1> HIDE DEF v
<1> DEFINE g == d.gap
           like == d.like
<1>2. g \in Nat /\ 0 < g /\ like \in Nat
  BY DrawnRanges
<1>19. views = [i \in 1 .. len |-> Event(n, v[i][1], v[i][2], (i - 1) * g)]
  BY Zenon DEF Viewed, v
<1> HIDE DEF g, like, views, len
<1>3. \A i \in 1 .. len : (i - 1) * g \in Nat
  <2> TAKE i \in 1 .. len
  <2>1. i - 1 \in Nat /\ g \in Nat
    BY <1>1, <1>2
  <2> QED BY <2>1
<1>4. ASSUME NEW i \in 1 .. len, NEW e, e = Event(n, v[i][1], v[i][2], (i - 1) * g)
      PROVE  /\ e \in Known /\ Good(e) /\ e.session = n
             /\ e.time = (i - 1) * g /\ e.progress = v[i][2]
  <2> DEFINE time == (i - 1) * g
             type == v[i][1]
             progress == v[i][2]
  <2>1. time \in Int /\ type \in Kinds /\ progress \in Nat
    BY <1>1, <1>3
  <2>2. e = Event(n, type, progress, time)
    BY <1>4
  <2> HIDE DEF time, type, progress
  <2>3. /\ e \in Known /\ Good(e) /\ e.session = n
        /\ e.time = time /\ e.progress = progress
    BY <2>1, <2>2, EventIsGood
  <2> QED BY <2>3 DEF time, progress
<1>5. views = [i \in 1 .. len |-> views[i]] /\ DOMAIN views = 1 .. len
      /\ \A i \in 1 .. len : views[i] = Event(n, v[i][1], v[i][2], (i - 1) * g)
  BY <1>19
<1>6. /\ views \in Seq(Known) /\ Len(views) = len
      /\ \A i \in 1 .. len : /\ Good(views[i]) /\ views[i].session = n
                             /\ views[i].time = (i - 1) * g /\ views[i].progress = v[i][2]
  <2>1. \A i \in 1 .. len : /\ views[i] \in Known /\ Good(views[i]) /\ views[i].session = n
                             /\ views[i].time = (i - 1) * g /\ views[i].progress = v[i][2]
    BY <1>4, <1>5
  <2>2. \A i \in 1 .. len : views[i] \in Known
    BY <2>1
  <2>3. len \in Nat /\ views = [i \in 1 .. len |-> views[i]]
    BY <1>1, <1>5
  <2>4. views \in Seq(Known) /\ Len(views) = len
    BY <2>2, <2>3, IsASeq
  <2> QED BY <2>1, <2>4
<1>7. \A i, j \in 1 .. len : i < j => Earlier(views[i], views[j])
  <2> SUFFICES ASSUME NEW i \in 1 .. len, NEW j \in 1 .. len, i < j
               PROVE  Earlier(views[i], views[j])
    OBVIOUS
  <2>1. i - 1 \in Nat /\ j - 1 \in Nat /\ i - 1 < j - 1 /\ g \in Nat /\ 0 < g
    BY <1>1, <1>2
  <2>2. (i - 1) * g < (j - 1) * g
    BY <2>1, LaterTick
  <2> QED BY <1>1, <1>6, <2>2 DEF Earlier
<1>8. SessionPart(views, n)
  BY <1>6, <1>7 DEF SessionPart
<1>9. last = views[len]
  BY <1>6 DEF Last
<1>10. len \in 1 .. len
  BY <1>1
<1>11. last.progress = v[len][2] /\ last.time = (len - 1) * g /\ last.progress \in Nat /\ last.time \in Nat
  BY <1>1, <1>3, <1>6, <1>9, <1>10
<1> HIDE DEF last
<1>12. ASSUME NEW i \in 1 .. len
       PROVE  views[i].time <= last.time /\ views[i].progress <= last.progress
              /\ views[i].time \in Nat /\ views[i].progress \in Nat
  <2>1. views[i].time \in Nat /\ views[i].progress \in Nat
    BY <1>1, <1>3, <1>6
  <2>2. CASE i = len
    BY <1>11, <1>9, <2>1, <2>2
  <2>3. CASE i # len
    <3>1. i < len
      BY <1>1, <2>3
    <3>2. Earlier(views[i], last)
      BY <1>7, <1>9, <1>10, <3>1
    <3> QED BY <1>11, <2>1, <3>2 DEF Earlier
  <2> QED BY <2>2, <2>3
<1>13. /\ SessionPart(liked, n)
       /\ \A i \in 1 .. len, j \in 1 .. Len(liked) : Earlier(views[i], liked[j])
  <2> DEFINE time == last.time + g + like
             e == Event(n, "LIKED", last.progress, time)
  <2>6. last.time \in Nat
    BY <1>11
  <2>1. time \in Nat /\ last.time < time
    BY <1>2, <2>6
  <2>2. /\ e \in Known /\ Good(e) /\ e.session = n /\ e.time = time /\ e.progress = last.progress
    <3>1. "LIKED" \in Kinds /\ time \in Int /\ last.progress \in Nat
      BY <1>11, <2>1 DEF Kinds
    <3> HIDE DEF time, e
    <3>2. e = Event(n, "LIKED", last.progress, time)
      BY DEF e
    <3> QED BY <3>1, <3>2, EventIsGood
  <2>3. liked = IF d.liked THEN <<e>> ELSE <<>>
    BY Zenon DEF Liked, last, views, g, like
  <2> HIDE DEF liked, e, time
  <2>4. CASE liked = <<e>>
    <3>1. Len(liked) = 1 /\ liked[1] = e
      BY <2>4
    <3>2. \A i \in 1 .. len : Earlier(views[i], e)
      <4> TAKE i \in 1 .. len
      <4>1. /\ views[i].time <= last.time /\ views[i].progress <= last.progress
            /\ views[i].time \in Nat /\ views[i].progress \in Nat
        BY <1>12
      <4>2. \A t \in Nat : t <= last.time => t < time
        BY <2>1, <2>6
      <4>3. views[i].time < time
        BY <4>1, <4>2
      <4> QED BY <2>2, <4>1, <4>3 DEF Earlier
    <3>3. SessionPart(<<e>>, n)
      BY <2>2, PartsStart
    <3>4. \A j \in 1 .. Len(liked) : liked[j] = e
      BY <3>1
    <3> QED BY <2>4, <3>2, <3>3, <3>4
  <2>5. CASE liked = <<>>
    BY <2>5, PartsStart
  <2> QED BY <2>3, <2>4, <2>5
<1>14. /\ SessionPart(searched, n)
       /\ \A i \in 1 .. Len(searched), j \in 1 .. len : Earlier(searched[i], views[j])
  <2> DEFINE e == Event(n, "SEARCHED", 0, -30)
  <2>1. e \in Known /\ Good(e) /\ e.session = n /\ e.time = -30 /\ e.progress = 0
    <3>1. "SEARCHED" \in Kinds /\ -30 \in Int /\ 0 \in Nat
      BY DEF Kinds
    <3> HIDE DEF e
    <3>2. e = Event(n, "SEARCHED", 0, -30)
      BY DEF e
    <3> QED BY <3>1, <3>2, EventIsGood
  <2>2. searched = IF d.searched THEN <<e>> ELSE <<>>
    BY DEF Searched
  <2> HIDE DEF searched, e
  <2>3. CASE searched = <<e>>
    <3>1. Len(searched) = 1 /\ searched[1] = e
      BY <2>3
    <3>2. \A i \in 1 .. len : Earlier(e, views[i])
      <4> TAKE i \in 1 .. len
      <4> QED BY <1>12, <2>1 DEF Earlier
    <3> QED BY <2>1, <2>3, <3>1, <3>2, PartsStart
  <2>4. CASE searched = <<>>
    BY <2>4, PartsStart
  <2> QED BY <2>2, <2>3, <2>4
<1>15. SyntheticSequence(d, n) = (searched \o views) \o liked
  BY DEF SyntheticSequence, views
<1>16. SyntheticSequence(d, n) # <<>>
  BY SessionIsKnown
<1> HIDE DEF searched, liked
<1>17. SessionPart(searched \o views, n)
  BY <1>6, <1>8, <1>14, PartsJoin
<1>18. ASSUME NEW i \in 1 .. Len(searched \o views), NEW j \in 1 .. Len(liked)
       PROVE  Earlier((searched \o views)[i], liked[j])
  <2> DEFINE x == (searched \o views)[i]
  <2>1. /\ searched \in Seq(Known) /\ views \in Seq(Known) /\ liked \in Seq(Known)
        /\ Len(views) = len
    BY <1>6, <1>13, <1>14 DEF SessionPart
  <2>2. \/ \E a \in 1 .. Len(searched) : x = searched[a]
        \/ \E b \in 1 .. len : x = views[b]
    <3>1. searched \in Seq(Known) /\ views \in Seq(Known)
      BY <2>1
    <3>2. \/ \E a \in 1 .. Len(searched) : x = searched[a]
          \/ \E b \in 1 .. Len(views) : x = views[b]
      <4>1. \A s, t \in Seq(Known) : \A k \in 1 .. Len(s \o t) :
              \/ \E a \in 1 .. Len(s) : (s \o t)[k] = s[a]
              \/ \E b \in 1 .. Len(t) : (s \o t)[k] = t[b]
        BY JoinedElements
      <4> QED BY <3>1, <4>1, Zenon
    <3> QED BY <2>1, <3>2, Zenon
  <2> HIDE DEF x
  <2>3. Earlier(views[len], liked[j]) /\ views[len] \in Known /\ liked[j] \in Known
    <3>1. views[len] \in Known /\ liked[j] \in Known
      BY <1>10, <2>1
    <3> QED BY <1>10, <1>13, <3>1
  <2>4. ASSUME NEW a \in 1 .. Len(searched), x = searched[a] PROVE Earlier(x, liked[j])
    <3>1. Earlier(searched[a], views[len]) /\ searched[a] \in Known
      BY <1>10, <1>14, <2>1
    <3> QED BY <2>3, <2>4, <3>1, EarlierJoins
  <2>5. ASSUME NEW b \in 1 .. len, x = views[b] PROVE Earlier(x, liked[j])
    BY <1>13, <2>5
  <2>6. Earlier(x, liked[j])
    BY <2>2, <2>4, <2>5
  <2> QED BY <2>6 DEF x
<1> DEFINE u == searched \o views
<1>20. \A i \in 1 .. Len(u), j \in 1 .. Len(liked) : Earlier(u[i], liked[j])
  BY <1>18
<1>21. SessionPart(u, n) /\ SyntheticSequence(d, n) = u \o liked
  BY <1>15, <1>17
<1> HIDE DEF u
<1> QED BY <1>13, <1>16, <1>20, <1>21, PartsJoin

-----------------------------------------------------------------------------
(* Messages, copies and callers *)

LEMMA KnownEvents ==
  ASSUME Shape
  PROVE  /\ \A e \in Known : /\ PartitionKey(e) \in Keys /\ e.session \in Int
                             /\ e.time \in Int /\ e.progress \in Int
         /\ \A c \in Caller : call[c].event \in Known /\ call[c].attempt \in Int
                              /\ call[c] \in Publishes
         /\ Len(queue) \in Nat
         /\ \A i \in 1 .. Len(queue) :
              queue[i] \in Messages /\ queue[i].event \in Known /\ queue[i].attempt \in Int
         /\ \A k \in Keys : topic[k] \in Seq(Known) /\ Len(topic[k]) \in Nat
                            /\ \A i \in 1 .. Len(topic[k]) : topic[k][i] \in Known
         /\ Len(batch) \in Nat /\ \A i \in 1 .. Len(batch) : batch[i] \in Known
<1>1. \A e \in Known : /\ PartitionKey(e) \in Keys /\ e.session \in Int
                       /\ e.time \in Int /\ e.progress \in Int
  BY DEF Known, EventRecord
<1>2. \A c \in Caller : call[c] \in Publishes
  BY DEF Shape
<1>3. \A p \in Publishes : p.event \in Known /\ p.attempt \in Int
  BY DEF Publishes
<1>4. Len(queue) \in Nat /\ \A i \in 1 .. Len(queue) : queue[i] \in Messages
  BY DEF Shape
<1>5. \A m \in Messages : m.event \in Known /\ m.attempt \in Int
  BY DEF Messages
<1>6. \A k \in Keys : topic[k] \in Seq(Known)
  BY DEF Shape
<1>7. \A s \in Seq(Known) : Len(s) \in Nat /\ \A i \in 1 .. Len(s) : s[i] \in Known
  OBVIOUS
<1>8. batch \in Seq(Known)
  BY DEF Shape
<1> QED BY <1>1, <1>2, <1>3, <1>4, <1>5, <1>6, <1>7, <1>8

LEMMA SetsAreFinite ==
  ASSUME Shape, Numbers, NEW e \in Known
  PROVE  /\ IsFiniteSet(Stored(e)) /\ Cardinality(Stored(e)) \in Nat
         /\ IsFiniteSet(Pending(e)) /\ Cardinality(Pending(e)) \in Nat
         /\ IsFiniteSet(Failed(e)) /\ Cardinality(Failed(e)) \in Nat
         /\ Copies(e) \in Nat
<1> DEFINE n == Len(topic[PartitionKey(e)])
<1>1. n \in Nat
  BY KnownEvents
<1> HIDE DEF n
<1>2. IsFiniteSet(1 .. n) /\ IsFiniteSet(1 .. MaxAttempts)
  BY <1>1, FS_Interval, PublisherAssumption
<1>3. Stored(e) \subseteq 1 .. n /\ Pending(e) \subseteq 1 .. MaxAttempts /\ Failed(e) \subseteq failures
  BY DEF Stored, Pending, Failed, n
<1>4. IsFiniteSet(failures)
  BY DEF Numbers
<1>5. IsFiniteSet(Stored(e)) /\ IsFiniteSet(Pending(e)) /\ IsFiniteSet(Failed(e))
  BY <1>2, <1>3, <1>4, FS_Subset
<1>6. /\ Cardinality(Stored(e)) \in Nat /\ Cardinality(Pending(e)) \in Nat
      /\ Cardinality(Failed(e)) \in Nat
  BY <1>5, FS_CardinalityType
<1>7. Copies(e) \in Nat
  BY <1>6 DEF Copies
<1> QED BY <1>5, <1>6, <1>7

\* An event that has not been handed to the producer has no copy.
LEMMA UnseenHasNone ==
  ASSUME Shape, Numbers, NEW e \in Known, ~Seen(e)
  PROVE  /\ Copies(e) = 0
         /\ \A i \in 1 .. Len(queue) : queue[i].event # e
         /\ \A f \in failures : f.event # e
<1>1. Stored(e) = {}
  BY DEF Seen, InTopic, Stored
<1>2. \A i \in 1 .. Len(queue) : queue[i].event # e
  BY DEF Seen, HasMessage
<1>3. Pending(e) = {}
  BY <1>2 DEF Pending
<1>4. \A f \in failures : f.event # e
  BY DEF Seen, Failed
<1> QED BY <1>1, <1>2, <1>3, <1>4, FS_EmptySet DEF Copies

LEMMA LogsStay ==
  ASSUME UNCHANGED <<topic, queue, failures>>
  PROVE  \A e : /\ InTopic(e)' <=> InTopic(e)
                /\ Seen(e)' <=> Seen(e)
                /\ Copies(e)' = Copies(e) /\ Failed(e)' = Failed(e)
<1> TAKE e
<1>1. topic' = topic /\ queue' = queue /\ failures' = failures
  OBVIOUS
<1>2. InTopic(e)' <=> InTopic(e)
  BY <1>1 DEF InTopic
<1>3. HasMessage(e)' <=> HasMessage(e)
  BY <1>1 DEF HasMessage
<1>4. Failed(e)' = Failed(e)
  BY <1>1 DEF Failed
<1>5. Stored(e)' = Stored(e)
  BY <1>1 DEF Stored
<1>6. Pending(e)' = Pending(e)
  BY <1>1 DEF Pending
<1>7. Seen(e)' <=> Seen(e)
  BY <1>2, <1>3, <1>4 DEF Seen
<1>8. Copies(e)' = Copies(e)
  BY <1>5, <1>6 DEF Copies
<1> QED BY <1>2, <1>4, <1>7, <1>8

\* The session of an event that the caller publishes.
SessionsOf(c) == IF c = "generator" THEN 1 .. sessions ELSE -posts .. -1

LEMMA SessionsGrow ==
  ASSUME Shape, Numbers, Numbers', posts <= posts', sessions <= sessions'
  PROVE  /\ \A c \in Caller : SessionsOf(c) \subseteq SessionsOf(c)'
         /\ -posts .. sessions \subseteq -posts' .. sessions'
<1>1. posts \in Nat /\ posts' \in Nat /\ sessions \in Nat /\ sessions' \in Nat
  BY DEF Numbers
<1>2. /\ 1 .. sessions \subseteq 1 .. sessions' /\ -posts .. -1 \subseteq -posts' .. -1
      /\ -posts .. sessions \subseteq -posts' .. sessions'
  <2>1. ASSUME NEW a \in Nat, NEW b \in Nat, NEW s \in Nat, NEW t \in Nat, a <= b, s <= t
        PROVE  1 .. s \subseteq 1 .. t /\ -a .. -1 \subseteq -b .. -1 /\ -a .. s \subseteq -b .. t
    BY <2>1
  <2> QED BY <1>1, <2>1
<1> QED BY <1>2 DEF SessionsOf

\* A caller's publish becomes p; nothing is produced, stored or reported.
LEMMA CallerStep ==
  ASSUME Shape, TopicInv, Numbers', BatchFits', BeforeBatch',
         UNCHANGED <<topic, queue, failures>>, posts <= posts', sessions <= sessions',
         NEW c \in Caller, NEW p \in Publishes, call' = [call EXCEPT ![c] = p],
         p.attempt \in 0 .. MaxAttempts, p.at = "produce" => ~p.failed,
         p.at # "idle" =>
           /\ p.attempt >= 1 /\ Good(p.event) /\ p.event.session \in SessionsOf(c)'
           /\ \A b \in Caller : b # c /\ Busy(b) => call[b].event # p.event
           /\ \A i \in 1 .. Len(queue) : queue[i].event = p.event => Older(queue[i].attempt, p)
           /\ \A f \in failures : f.event = p.event => Older(f.attempt, p)
           /\ c = "generator" => \A e \in Known : Seen(e) => Upto(e, p.event),
         Owes(p) => Copies(p.event) <= Cardinality(Failed(p.event))
  PROVE  TopicInv'
<1>1. /\ topic' = topic /\ queue' = queue /\ failures' = failures
      /\ \A b \in Caller : call'[b] = IF b = c THEN p ELSE call[b]
  BY DEF Shape
<1>2. /\ \A b \in Caller : SessionsOf(b) \subseteq SessionsOf(b)'
      /\ -posts .. sessions \subseteq -posts' .. sessions'
  BY SessionsGrow DEF TopicInv, Fits
<1>3. \A e : /\ InTopic(e)' <=> InTopic(e)
             /\ Seen(e)' <=> Seen(e)
             /\ Copies(e)' = Copies(e) /\ Failed(e)' = Failed(e)
  BY LogsStay
<1>4. ASSUME NEW b \in Caller PROVE CallFits(b)'
  <2>1. CASE b = c
    BY <1>1, <2>1 DEF CallFits, Busy, SessionsOf
  <2>2. CASE b # c
    <3>1. CallFits(b) /\ call'[b] = call[b]
      BY <1>1, <2>2 DEF TopicInv, Fits
    <3> QED BY <1>2, <3>1 DEF CallFits, Busy, SessionsOf
  <2> QED BY <2>1, <2>2
<1>5. CallersDiffer'
  BY <1>1 DEF TopicInv, Fits, CallersDiffer, Busy
<1>6. QueueFits' /\ \A k \in Keys : PartitionFits(k)'
  BY <1>1 DEF TopicInv, Fits, QueueFits, PartitionFits
<1>7. SeenFits'
  BY <1>2, <1>3 DEF TopicInv, Fits, SeenFits
<1>8. (\A k \in Keys : PartitionOrdered(k)') /\ QueueOrdered' /\ TopicBeforeQueue'
  BY <1>1, <1>3 DEF TopicInv, Ordered, PartitionOrdered, QueueOrdered, TopicBeforeQueue
<1>9. SeenBeforeGenerator'
  BY <1>1, <1>3 DEF TopicInv, Ordered, SeenBeforeGenerator, Busy, Caller
<1>10. CopiesNeedFailures'
  <2>1. \A e \in Known : Copies(e)' <= 1 + Cardinality(Failed(e)')
    BY <1>3 DEF TopicInv, Counted, CopiesNeedFailures
  <2>2. ASSUME NEW b \in Caller, NEW e \in Known, Owes(call'[b]), call'[b].event = e
        PROVE  Copies(e)' <= Cardinality(Failed(e)')
    <3>1. CASE b = c
      BY <1>1, <1>3, <2>2, <3>1
    <3>2. CASE b # c
      BY <1>1, <1>3, <2>2, <3>2 DEF TopicInv, Counted, CopiesNeedFailures
    <3> QED BY <3>1, <3>2
  <2> QED BY <2>1, <2>2 DEF CopiesNeedFailures
<1>11. MessagesDiffer'
  BY <1>1 DEF TopicInv, Counted, MessagesDiffer
<1>12. AttemptsGrow'
  <2> SUFFICES ASSUME NEW b \in Caller, call'[b].at # "idle"
               PROVE  /\ \A i \in 1 .. Len(queue) :
                           queue[i].event = call'[b].event => Older(queue[i].attempt, call'[b])
                      /\ \A f \in failures : f.event = call'[b].event => Older(f.attempt, call'[b])
    BY <1>1 DEF AttemptsGrow, Busy
  <2>1. CASE b = c
    BY <1>1, <2>1
  <2>2. CASE b # c
    BY <1>1, <2>2 DEF TopicInv, Counted, AttemptsGrow, Busy
  <2> QED BY <2>1, <2>2
<1> QED BY <1>4, <1>5, <1>6, <1>7, <1>8, <1>9, <1>10, <1>11, <1>12
        DEF TopicInv, Fits, Ordered, Counted

\* The batch stays what it was, and the generator does not take up another event.
LEMMA BatchStays ==
  ASSUME Shape, TopicInv, Numbers', UNCHANGED <<topic, queue, failures, batch>>,
         sessions <= sessions',
         Busy("generator")' => Busy("generator") /\ call'["generator"].event = call["generator"].event
  PROVE  BatchFits' /\ BeforeBatch'
<1>1. batch' = batch
  OBVIOUS
<1>2. \A e : Seen(e)' <=> Seen(e)
  BY LogsStay
<1>3. 1 .. sessions \subseteq 1 .. sessions'
  BY DEF TopicInv, Fits, Numbers
<1>4. BatchFits'
  BY <1>1, <1>3 DEF TopicInv, Fits, BatchFits
<1>5. BeforeBatch'
  BY <1>1, <1>2 DEF TopicInv, Ordered, BeforeBatch
<1> QED BY <1>4, <1>5

LEMMA RetriesLater ==
  ASSUME NEW p \in Publishes, p.attempt \in 1 .. MaxAttempts
  PROVE  /\ Retried(p).event = p.event /\ Retried(p).attempt \in 1 .. MaxAttempts
         /\ Retried(p).at = "produce" => Retried(p).attempt = p.attempt + 1 /\ ~Retried(p).failed
         /\ Retried(p).at # "produce" => Retried(p).attempt = p.attempt
<1>1. MaxAttempts \in Nat /\ p.attempt \in Int
  BY PublisherAssumption DEF Publishes
<1>2. CASE p.attempt < MaxAttempts
  <2>1. Retried(p) = [p EXCEPT !.at = "produce", !.attempt = p.attempt + 1,
                               !.failed = FALSE, !.timedOut = FALSE]
    BY <1>2 DEF Retried
  <2> DEFINE r == [p EXCEPT !.at = "produce", !.attempt = p.attempt + 1,
                            !.failed = FALSE, !.timedOut = FALSE]
  <2>2. /\ r.event = p.event /\ r.at = "produce" /\ r.attempt = p.attempt + 1 /\ ~r.failed
    BY DEF Publishes
  <2> HIDE DEF r
  <2>3. p.attempt + 1 \in 1 .. MaxAttempts
    BY <1>1, <1>2
  <2>4. Retried(p) = r
    BY <2>1 DEF r
  <2> QED BY <2>2, <2>3, <2>4
<1>3. CASE ~(p.attempt < MaxAttempts)
  BY <1>3 DEF Retried, Publishes
<1> QED BY <1>2, <1>3

\* A publish ends an attempt: it starts the next one, or it is over.
LEMMA CallContinues ==
  ASSUME Shape, TopicInv,
         UNCHANGED <<topic, queue, failures, batch, posts, sessions, generator>>,
         schemaKnown' \in BOOLEAN,
         NEW c \in Caller, Busy(c), NEW p \in Publishes, call' = [call EXCEPT ![c] = p],
         p.at # "idle", p.at # "flush", p.event = call[c].event, p.attempt \in 1 .. MaxAttempts,
         p.at = "produce" =>
           p.attempt = call[c].attempt + 1 /\ ~p.failed /\ Owes(call[c]),
         p.at # "produce" => p.attempt = call[c].attempt
  PROVE  TopicInv'
<1>1. \A b \in Caller : call'[b] = IF b = c THEN p ELSE call[b]
  BY DEF Shape
<1>2. "generator" \in Caller
  BY DEF Caller
<1>3. posts' = posts /\ sessions' = sessions /\ generator' = generator /\ failures' = failures
  OBVIOUS
<1>4. posts \in Nat /\ sessions \in Nat /\ posts <= posts' /\ sessions <= sessions'
  BY <1>3 DEF TopicInv, Fits, Numbers
<1>5. \A b \in Caller : Busy(b)' <=> Busy(b)
  BY <1>1 DEF Busy
<1>6. Numbers'
  BY <1>2, <1>3, <1>5 DEF TopicInv, Fits, Numbers
<1>7. Busy("generator")' => Busy("generator") /\ call'["generator"].event = call["generator"].event
  BY <1>1, <1>2, <1>5
<1>8. BatchFits' /\ BeforeBatch'
  BY <1>4, <1>6, <1>7, BatchStays
<1>9. p.event \in Known /\ call[c].attempt \in Int
  BY KnownEvents
<1>10. Good(p.event) /\ p.event.session \in SessionsOf(c)
  BY DEF TopicInv, Fits, CallFits, SessionsOf
<1>11. p.event.session \in SessionsOf(c)'
  BY <1>3, <1>10 DEF SessionsOf
<1>12. \A b \in Caller : b # c /\ Busy(b) => call[b].event # p.event
  BY DEF TopicInv, Fits, CallersDiffer
<1>13. ASSUME NEW a \in Int, Older(a, call[c]) PROVE Older(a, p)
  BY <1>9, <1>13 DEF Older
<1>14. \A i \in 1 .. Len(queue) : queue[i].event = p.event => Older(queue[i].attempt, p)
  BY <1>13, KnownEvents DEF TopicInv, Counted, AttemptsGrow
<1>15. \A f \in failures : f.event = p.event => Older(f.attempt, p)
  <2>1. \A f \in failures : f.attempt \in Int
    BY PublisherAssumption DEF TopicInv, Fits, Numbers
  <2> QED BY <1>13, <2>1 DEF TopicInv, Counted, AttemptsGrow
<1>16. c = "generator" => \A e \in Known : Seen(e) => Upto(e, p.event)
  BY DEF TopicInv, Ordered, SeenBeforeGenerator
<1>17. Owes(p) => Copies(p.event) <= Cardinality(Failed(p.event))
  BY <1>9 DEF TopicInv, Counted, CopiesNeedFailures, Owes
<1>18. p.attempt \in 0 .. MaxAttempts /\ p.attempt >= 1
  BY PublisherAssumption
<1> QED BY <1>4, <1>6, <1>8, <1>10, <1>11, <1>12, <1>14, <1>15, <1>16, <1>17, <1>18, CallerStep

\* A caller is done with its publish.
LEMMA CallEnds ==
  ASSUME Shape, TopicInv, Numbers', BatchFits', BeforeBatch',
         UNCHANGED <<topic, queue, failures, posts, sessions>>,
         NEW c \in Caller, call' = [call EXCEPT ![c] = Idle]
  PROVE  TopicInv'
<1>1. Idle \in Publishes /\ Idle.at = "idle" /\ Idle.attempt = 0
  BY PublishesStart DEF Idle
<1>2. Idle.attempt \in 0 .. MaxAttempts
  BY <1>1, PublisherAssumption
<1>3. ~Owes(Idle)
  BY <1>1 DEF Owes
<1>4. posts <= posts' /\ sessions <= sessions'
  BY DEF TopicInv, Fits, Numbers
<1> QED BY <1>1, <1>2, <1>3, <1>4, CallerStep

\* A caller takes up an event that nobody has seen.
LEMMA CallStarts ==
  ASSUME Shape, TopicInv, Numbers', BatchFits', BeforeBatch',
         UNCHANGED <<topic, queue, failures>>, posts <= posts', sessions <= sessions',
         NEW c \in Caller, NEW e \in Known, call' = [call EXCEPT ![c] = Publish(e)],
         ~Seen(e), Good(e), e.session \in SessionsOf(c)',
         \A b \in Caller : b # c /\ Busy(b) => call[b].event # e,
         c = "generator" => \A f \in Known : Seen(f) => Upto(f, e)
  PROVE  TopicInv'
<1> DEFINE p == Publish(e)
<1>1. p \in Publishes /\ p.event = e /\ p.attempt = 1 /\ ~p.failed
  BY PublishesStart DEF Publish
<1> HIDE DEF p
<1>2. p.attempt \in 0 .. MaxAttempts /\ p.attempt >= 1
  BY <1>1, PublisherAssumption
<1>3. Numbers
  BY DEF TopicInv, Fits
<1>4. /\ Copies(e) = 0
      /\ \A i \in 1 .. Len(queue) : queue[i].event # e
      /\ \A f \in failures : f.event # e
  BY <1>3, UnseenHasNone
<1>5. Copies(e) <= Cardinality(Failed(e))
  <2>1. Cardinality(Failed(e)) \in Nat
    BY <1>3, SetsAreFinite
  <2> QED BY <1>4, <2>1
<1>6. call' = [call EXCEPT ![c] = p]
  BY DEF p
<1>7. Owes(p) => Copies(p.event) <= Cardinality(Failed(p.event))
  BY <1>1, <1>5
<1>8. /\ Good(p.event) /\ p.event.session \in SessionsOf(c)'
      /\ \A b \in Caller : b # c /\ Busy(b) => call[b].event # p.event
      /\ \A i \in 1 .. Len(queue) : queue[i].event = p.event => Older(queue[i].attempt, p)
      /\ \A f \in failures : f.event = p.event => Older(f.attempt, p)
      /\ c = "generator" => \A f \in Known : Seen(f) => Upto(f, p.event)
  BY <1>1, <1>4
<1> QED BY <1>1, <1>2, <1>6, <1>7, <1>8, CallerStep

-----------------------------------------------------------------------------
(* Types, order and copies under every action *)

LEMMA EndFlushKeepsCopies ==
  ASSUME Shape, TopicInv, NEW c \in Caller, EndFlush(c)
  PROVE  TopicInv'
<1> DEFINE p == Flushed(call[c])
<1>1. call[c] \in Publishes /\ Busy(c) /\ call[c].attempt \in 1 .. MaxAttempts
  <2>1. Busy(c)
    BY DEF EndFlush, Busy
  <2>2. call[c].attempt \in 0 .. MaxAttempts /\ call[c].attempt >= 1
    BY <2>1 DEF TopicInv, Fits, CallFits
  <2> QED BY <2>1, <2>2, PublisherAssumption DEF Shape
<1>2. /\ UNCHANGED <<schemaKnown, topic, queue, failures, batch, posts, sessions, generator>>
      /\ call' = [call EXCEPT ![c] = p] /\ call[c].at = "flush"
  BY DEF EndFlush
<1>3. p \in Publishes /\ p.at # "flush"
  BY <1>1, FlushDecides
<1>4. /\ p.at # "idle" /\ p.event = call[c].event /\ p.attempt \in 1 .. MaxAttempts
      /\ p.at = "produce" => p.attempt = call[c].attempt + 1 /\ ~p.failed /\ call[c].failed
      /\ p.at # "produce" => p.attempt = call[c].attempt
  <2>1. CASE call[c].failed
    BY <1>1, <2>1, RetriesLater, RetriesOrRaises DEF Flushed
  <2>2. CASE ~call[c].failed
    <3>1. p = [call[c] EXCEPT !.at = "published", !.timedOut = queue # <<>>]
      BY <2>2 DEF Flushed
    <3>2. p.at = "published" /\ p.event = call[c].event /\ p.attempt = call[c].attempt
      BY <1>1, <3>1 DEF Publishes
    <3> QED BY <1>1, <3>2
  <2> QED BY <2>1, <2>2
<1> HIDE DEF p
<1>5. p.at = "produce" => Owes(call[c])
  BY <1>2, <1>4 DEF Owes
<1>6. schemaKnown' \in BOOLEAN
  BY <1>2 DEF TopicInv, Fits, Numbers
<1> QED BY <1>1, <1>2, <1>3, <1>4, <1>5, <1>6, CallContinues

LEMMA ProduceFailsKeepsCopies ==
  ASSUME Shape, TopicInv, NEW c \in Caller, Produce(c),
         call' = [call EXCEPT ![c] = Retried(@)], UNCHANGED queue
  PROVE  TopicInv'
<1> DEFINE p == Retried(call[c])
<1>1. call[c] \in Publishes /\ Busy(c) /\ call[c].attempt \in 1 .. MaxAttempts
  <2>1. Busy(c)
    BY DEF Produce, Busy
  <2>2. call[c].attempt \in 0 .. MaxAttempts /\ call[c].attempt >= 1
    BY <2>1 DEF TopicInv, Fits, CallFits
  <2> QED BY <2>1, <2>2, PublisherAssumption DEF Shape
<1>2. /\ UNCHANGED <<topic, queue, failures, batch, posts, sessions, generator>>
      /\ call' = [call EXCEPT ![c] = p] /\ call[c].at = "produce"
  BY DEF Produce
<1>3. /\ p \in Publishes /\ p.at # "flush"
      /\ p.at # "idle" /\ p.event = call[c].event /\ p.attempt \in 1 .. MaxAttempts
      /\ p.at = "produce" => p.attempt = call[c].attempt + 1 /\ ~p.failed
      /\ p.at # "produce" => p.attempt = call[c].attempt
  BY <1>1, RetriesLater, RetriesOrRaises
<1> HIDE DEF p
<1>4. Owes(call[c])
  BY <1>2 DEF Owes
<1>5. schemaKnown' \in BOOLEAN
  BY DEF TopicInv, Fits, Numbers, Produce
<1> QED BY <1>1, <1>2, <1>3, <1>4, <1>5, CallContinues

LEMMA RespondKeepsCopies ==
  ASSUME Shape, TopicInv, NEW h \in Handler, Respond(h)
  PROVE  TopicInv'
<1>1. /\ UNCHANGED <<schemaKnown, topic, queue, failures, posts, sessions, generator, batch>>
      /\ call' = [call EXCEPT ![h] = Idle] /\ h \in Caller /\ h # "generator"
      /\ "generator" \in Caller
  BY PublisherAssumption DEF Respond, Caller
<1>2. call'["generator"] = call["generator"]
  BY <1>1 DEF Shape
<1>3. Numbers'
  BY <1>1, <1>2 DEF TopicInv, Fits, Numbers, Busy
<1>4. sessions <= sessions'
  BY <1>1 DEF TopicInv, Fits, Numbers
<1>5. Busy("generator")' => Busy("generator") /\ call'["generator"].event = call["generator"].event
  BY <1>2 DEF Busy
<1>6. BatchFits' /\ BeforeBatch'
  BY <1>1, <1>3, <1>4, <1>5, BatchStays
<1> QED BY <1>1, <1>3, <1>6, CallEnds

LEMMA ReceiveKeepsCopies ==
  ASSUME Shape, TopicInv, NEW h \in Handler, NEW body \in scenario.bodies, Receive(h, body)
  PROVE  TopicInv'
<1> DEFINE e == [body EXCEPT !.session = -posts']
<1>1. /\ UNCHANGED <<scenario, schemaKnown, topic, queue, failures, sessions, generator, batch>>
      /\ h \in Caller /\ h # "generator" /\ "generator" \in Caller
      /\ posts' = posts + 1 /\ call[h].at = "idle"
  BY PublisherAssumption DEF Receive, Caller
<1>2. posts \in Nat /\ posts' \in Nat /\ sessions \in Nat /\ -posts' \in Int
  BY <1>1 DEF TopicInv, Fits, Numbers
<1>3. posts <= posts' /\ sessions <= sessions'
  BY <1>1, <1>2
<1>4. call'["generator"] = call["generator"]
  BY <1>1 DEF Shape, Receive
<1>5. Numbers'
  BY <1>1, <1>2, <1>4 DEF TopicInv, Fits, Numbers, Busy
<1>6. Busy("generator")' => Busy("generator") /\ call'["generator"].event = call["generator"].event
  BY <1>4 DEF Busy
<1>7. BatchFits' /\ BeforeBatch'
  BY <1>1, <1>3, <1>5, <1>6, BatchStays
<1>8. CASE Valid(body) /\ call' = [call EXCEPT ![h] = Publish(e)]
  <2>1. body \in Body /\ scenario \in Scenarios
    BY PublisherAssumption DEF Shape
  <2>2. e \in Known
    BY <1>2, <2>1, PostedIsKnown
  <2>3. /\ e.session = -posts' /\ e.user = body.user /\ e.movie = body.movie /\ e.type = body.type
        /\ e.progress = body.progress /\ e.query = body.query
    BY <2>1 DEF Body
  <2> HIDE DEF e
  <2>4. Good(e)
    <3>1. Valid(e)
      BY <1>8, <2>3 DEF Valid
    <3>2. ~(e.session > 0)
      BY <1>2, <2>3
    <3> QED BY <3>1, <3>2 DEF Good
  <2>5. ~Seen(e)
    <3>1. -posts' \notin -posts .. sessions
      BY <1>1, <1>2
    <3> QED BY <2>2, <2>3, <3>1 DEF TopicInv, Fits, SeenFits
  <2>6. e.session \in SessionsOf(h)'
    <3>1. -posts' \in -posts' .. -1
      BY <1>1, <1>2
    <3> QED BY <1>1, <2>3, <3>1 DEF SessionsOf
  <2>7. \A b \in Caller : b # h /\ Busy(b) => call[b].event # e
    <3>1. \A b \in Caller : Busy(b) =>
            call[b].event.session \in 1 .. sessions \/ call[b].event.session \in -posts .. -1
      BY DEF TopicInv, Fits, CallFits
    <3>2. -posts' \notin 1 .. sessions /\ -posts' \notin -posts .. -1
      BY <1>1, <1>2
    <3> QED BY <2>3, <3>1, <3>2
  <2> QED BY <1>1, <1>3, <1>5, <1>7, <1>8, <2>2, <2>4, <2>5, <2>6, <2>7, CallStarts
<1>9. CASE UNCHANGED call
  <2>1. call[h] \in Publishes /\ call' = [call EXCEPT ![h] = call[h]]
    BY <1>1, <1>9 DEF Shape
  <2>2. call[h].attempt \in 0 .. MaxAttempts /\ (call[h].at = "produce" => ~call[h].failed)
    BY <1>1 DEF TopicInv, Fits, CallFits
  <2>3. ~Owes(call[h])
    BY <1>1 DEF Owes
  <2> QED BY <1>1, <1>3, <1>5, <1>7, <2>1, <2>2, <2>3, CallerStep
<1> QED BY <1>8, <1>9 DEF Receive

LEMMA HeadAndTail ==
  ASSUME NEW s \in Seq(Known), s # <<>>
  PROVE  /\ Len(s) \in Nat /\ Len(s) >= 1 /\ Head(s) = s[1] /\ s[1] \in Known
         /\ Tail(s) \in Seq(Known) /\ Len(Tail(s)) = Len(s) - 1
         /\ \A i \in 1 .. Len(Tail(s)) : i + 1 \in 2 .. Len(s) /\ Tail(s)[i] = s[i + 1]
<1>1. Len(s) \in Nat /\ Len(s) >= 1
  OBVIOUS
<1>2. Head(s) = s[1] /\ s[1] \in Known
  BY <1>1
<1>3. Tail(s) \in Seq(Known) /\ Len(Tail(s)) = Len(s) - 1
  BY HeadTailProperties
<1>4. \A i \in 1 .. Len(Tail(s)) : Tail(s)[i] = s[i + 1]
  BY HeadTailProperties
<1>5. \A i \in 1 .. Len(Tail(s)) : i + 1 \in 2 .. Len(s)
  BY <1>1, <1>3
<1> QED BY <1>1, <1>2, <1>3, <1>4, <1>5

LEMMA WakeUpKeepsCopies ==
  ASSUME Shape, TopicInv, NEW d \in scenario.draws, WakeUp(d)
  PROVE  TopicInv'
<1> DEFINE n == sessions'
           events == SyntheticSequence(d, n)
           e == Head(events)
<1>1. /\ UNCHANGED <<schemaKnown, topic, queue, failures, posts>>
      /\ sessions' = sessions + 1 /\ generator' = "publishing"
      /\ call' = [call EXCEPT !["generator"] = Publish(e)]
      /\ batch' = Tail(events) /\ generator = "asleep"
  BY DEF WakeUp
<1>2. d \in Draw /\ "generator" \in Caller
  BY PublisherAssumption DEF Shape, Caller
<1>3. n \in Nat /\ n = sessions + 1 /\ sessions \in Nat /\ posts \in Nat /\ posts' = posts
  BY <1>1 DEF TopicInv, Fits, Numbers
<1>4. SessionPart(events, n) /\ events # <<>>
  BY <1>2, <1>3, SessionGoesOn
<1> HIDE DEF n, events
<1>5. /\ events \in Seq(Known)
      /\ \A i \in 1 .. Len(events) : Good(events[i]) /\ events[i].session = n
      /\ \A i, j \in 1 .. Len(events) : i < j => Earlier(events[i], events[j])
  BY <1>4 DEF SessionPart
<1>6. /\ Len(events) \in Nat /\ Len(events) >= 1 /\ e = events[1] /\ e \in Known
      /\ batch' \in Seq(Known) /\ Len(batch') = Len(events) - 1
      /\ \A i \in 1 .. Len(batch') : i + 1 \in 2 .. Len(events) /\ batch'[i] = events[i + 1]
  BY <1>1, <1>4, <1>5, HeadAndTail
<1>7. Good(e) /\ e.session = n
  <2>1. 1 \in 1 .. Len(events)
    BY <1>6
  <2> QED BY <1>5, <1>6, <2>1
<1>8. \A i \in 1 .. Len(batch') : /\ Good(batch'[i]) /\ batch'[i].session = n
                                  /\ Before(e, batch'[i])
                                  /\ \A j \in 1 .. Len(batch') : i < j => Before(batch'[i], batch'[j])
  <2> TAKE i \in 1 .. Len(batch')
  <2>1. 1 \in 1 .. Len(events) /\ i + 1 \in 1 .. Len(events) /\ 1 < i + 1 /\ batch'[i] = events[i + 1]
    BY <1>6
  <2>2. Good(batch'[i]) /\ batch'[i].session = n
    BY <1>5, <2>1
  <2>3. Before(e, batch'[i])
    <3>1. Earlier(events[1], events[i + 1])
      BY <1>5, <2>1
    <3> QED BY <1>6, <2>1, <3>1 DEF Before, Earlier
  <2>4. ASSUME NEW j \in 1 .. Len(batch'), i < j PROVE Before(batch'[i], batch'[j])
    <3>1. j + 1 \in 1 .. Len(events) /\ i + 1 < j + 1 /\ batch'[j] = events[j + 1]
      BY <1>6, <2>4
    <3>2. Earlier(events[i + 1], events[j + 1])
      BY <1>5, <2>1, <3>1
    <3> QED BY <2>1, <3>1, <3>2 DEF Before, Earlier
  <2> QED BY <2>2, <2>3, <2>4
<1> HIDE DEF e
<1>9. \A f \in Known : Seen(f) => f.session # n
  BY <1>3, KnownEvents DEF TopicInv, Fits, SeenFits
<1>10. \A f \in Known : Seen(f)' <=> Seen(f)
  BY <1>1, LogsStay
<1>11. call'["generator"] = Publish(e)
  BY <1>1, <1>2 DEF Shape
<1>12. Publish(e).event = e /\ Publish(e).at = "produce"
  BY DEF Publish
<1>13. BatchFits'
  <2>1. n \in 1 .. sessions'
    BY <1>3 DEF n
  <2> QED BY <1>8, <2>1 DEF BatchFits
<1>14. BeforeBatch'
  <2>1. ASSUME NEW i \in 1 .. Len(batch'), NEW f \in Known, Seen(f)' PROVE Before(f, batch'[i])
    BY <1>8, <1>9, <1>10, <2>1 DEF Before
  <2>2. \A i \in 1 .. Len(batch') : Before(call'["generator"].event, batch'[i])
    BY <1>8, <1>11, <1>12
  <2> QED BY <1>8, <2>1, <2>2 DEF BeforeBatch
<1>15. Numbers'
  BY <1>1, <1>3, <1>11, <1>12 DEF TopicInv, Fits, Numbers, Busy, n
<1>16. posts <= posts' /\ sessions <= sessions'
  BY <1>1, <1>3
<1>17. ~Seen(e) /\ \A f \in Known : Seen(f) => Upto(f, e)
  BY <1>6, <1>7, <1>9 DEF Upto
<1>18. e.session \in SessionsOf("generator")'
  <2>1. n \in 1 .. sessions'
    BY <1>3 DEF n
  <2> QED BY <1>7, <2>1 DEF SessionsOf
<1>19. \A b \in Caller : b # "generator" /\ Busy(b) => call[b].event # e
  <2>1. \A b \in Caller : b # "generator" /\ Busy(b) => call[b].event.session \in -posts .. -1
    BY DEF TopicInv, Fits, CallFits
  <2>2. n \notin -posts .. -1
    BY <1>3
  <2> QED BY <1>7, <2>1, <2>2
<1> QED BY <1>1, <1>2, <1>6, <1>7, <1>13, <1>14, <1>15, <1>16, <1>17, <1>18, <1>19, CallStarts

LEMMA GoOnKeepsCopies ==
  ASSUME Shape, TopicInv, GoOn
  PROVE  TopicInv'
<1> DEFINE g == "generator"
<1>1. /\ UNCHANGED <<schemaKnown, topic, queue, failures, posts, sessions>> /\ g \in Caller
      /\ call[g].at \in {"published", "raised"} /\ Busy(g)
  BY DEF GoOn, Caller, Busy
<1>2. posts \in Nat /\ sessions \in Nat /\ posts <= posts' /\ sessions <= sessions'
      /\ sessions' = sessions /\ posts' = posts
  BY <1>1 DEF TopicInv, Fits, Numbers
<1>3. \A f \in Known : Seen(f)' <=> Seen(f)
  BY <1>1, LogsStay
<1>4. generator = "publishing"
  BY <1>1 DEF TopicInv, Fits, Numbers
<1>5. CASE /\ batch # <<>> /\ batch' = Tail(batch) /\ UNCHANGED generator
           /\ call' = [call EXCEPT ![g] = Publish(Head(batch))]
  <2> DEFINE e == Head(batch)
  <2>1. batch \in Seq(Known)
    BY DEF Shape
  <2>2. /\ Len(batch) \in Nat /\ Len(batch) >= 1 /\ e = batch[1] /\ e \in Known
        /\ batch' \in Seq(Known) /\ Len(batch') = Len(batch) - 1
        /\ \A i \in 1 .. Len(batch') : i + 1 \in 2 .. Len(batch) /\ batch'[i] = batch[i + 1]
    BY <1>5, <2>1, HeadAndTail
  <2> HIDE DEF e
  <2>3. 1 \in 1 .. Len(batch)
    BY <2>2
  <2>4. Good(e) /\ e.session \in 1 .. sessions
    BY <2>2, <2>3 DEF TopicInv, Fits, BatchFits
  <2>5. \A f \in Known : Seen(f) => Before(f, e)
    BY <2>2, <2>3 DEF TopicInv, Ordered, BeforeBatch
  <2>6. e.session > 0 /\ e.time \in Int /\ ~(e.time < e.time)
    BY <1>2, <2>2, <2>4, KnownEvents
  <2>7. ~Seen(e)
    BY <2>2, <2>5, <2>6 DEF Before
  <2>8. ASSUME NEW f \in Known, Seen(f) PROVE Upto(f, e)
    <3>1. f.time \in Int /\ e.time \in Int /\ Before(f, e)
      BY <2>2, <2>5, <2>8, KnownEvents
    <3> QED BY <3>1 DEF Before, Upto
  <2>9. call'[g] = Publish(e) /\ Publish(e).event = e /\ Publish(e).at = "produce"
    BY <1>1, <1>5 DEF Shape, Publish, e
  <2>10. Numbers'
    BY <1>1, <1>2, <1>5, <1>4, <2>9 DEF TopicInv, Fits, Numbers, Busy
  <2>11. \A i \in 1 .. Len(batch') : /\ i + 1 \in 1 .. Len(batch) /\ 1 < i + 1
                                     /\ batch'[i] = batch[i + 1]
    BY <2>2
  <2>12. BatchFits'
    BY <1>2, <2>11 DEF TopicInv, Fits, BatchFits
  <2>13. BeforeBatch'
    <3> SUFFICES ASSUME NEW i \in 1 .. Len(batch')
                 PROVE  /\ \A f \in Known : Seen(f)' => Before(f, batch'[i])
                        /\ Before(call'[g].event, batch'[i])
                        /\ \A j \in 1 .. Len(batch') : i < j => Before(batch'[i], batch'[j])
      BY DEF BeforeBatch
    <3>1. \A f \in Known : Seen(f)' => Before(f, batch'[i])
      BY <1>3, <2>11 DEF TopicInv, Ordered, BeforeBatch
    <3>2. Before(call'[g].event, batch'[i])
      BY <2>2, <2>3, <2>9, <2>11 DEF TopicInv, Ordered, BeforeBatch
    <3>3. ASSUME NEW j \in 1 .. Len(batch'), i < j PROVE Before(batch'[i], batch'[j])
      <4>1. i + 1 < j + 1
        BY <3>3
      <4> QED BY <2>11, <4>1 DEF TopicInv, Ordered, BeforeBatch
    <3> QED BY <3>1, <3>2, <3>3
  <2>14. e.session \in SessionsOf(g)'
    BY <1>2, <2>4 DEF SessionsOf
  <2>15. \A b \in Caller : b # g /\ Busy(b) => call[b].event # e
    <3>1. \A b \in Caller : b # g /\ Busy(b) => call[b].event.session \in -posts .. -1
      BY DEF TopicInv, Fits, CallFits
    <3>2. e.session \notin -posts .. -1
      BY <1>2, <2>4
    <3> QED BY <3>1, <3>2
  <2>16. call' = [call EXCEPT ![g] = Publish(e)]
    BY <1>5 DEF e
  <2>17. UNCHANGED <<topic, queue, failures>> /\ posts <= posts' /\ sessions <= sessions' /\ g \in Caller
    BY <1>1, <1>2
  <2>18. e \in Known /\ Good(e) /\ ~Seen(e) /\ \A f \in Known : Seen(f) => Upto(f, e)
    BY <2>2, <2>4, <2>7, <2>8
  <2> HIDE DEF g
  <2> QED BY <2>10, <2>12, <2>13, <2>14, <2>15, <2>16, <2>17, <2>18, CallStarts
<1>6. CASE /\ call' = [call EXCEPT ![g] = Idle] /\ generator' \in {"asleep", "dead"}
           /\ UNCHANGED batch \/ batch' = <<>>
  <2>1. call'[g].at = "idle"
    BY <1>1, <1>6, PublishesStart DEF Shape
  <2>2. Numbers'
    BY <1>1, <1>2, <1>6, <2>1 DEF TopicInv, Fits, Numbers, Busy
  <2>3. BatchFits' /\ BeforeBatch'
    <3>1. CASE UNCHANGED batch
      BY <1>1, <1>2, <2>1, <2>2, <3>1, BatchStays DEF Busy
    <3>2. CASE batch' = <<>>
      BY <3>2 DEF BatchFits, BeforeBatch
    <3> QED BY <1>6, <3>1, <3>2
  <2> QED BY <1>1, <1>6, <2>2, <2>3, CallEnds
<1> QED BY <1>5, <1>6 DEF GoOn

LEMMA ProduceKeepsCopies ==
  ASSUME Shape, TopicInv, NEW c \in Caller, Produce(c),
         queue' = Append(queue, [event |-> call[c].event, attempt |-> call[c].attempt,
                                 stored |-> FALSE]),
         call' = [call EXCEPT ![c].at = "flush"],
         Encodable(call[c].event), schemaKnown' = TRUE
  PROVE  TopicInv'
<1> DEFINE e == call[c].event
           a == call[c].attempt
           m == [event |-> e, attempt |-> a, stored |-> FALSE]
           n == Len(queue)
<1>1. /\ UNCHANGED <<topic, failures, batch, posts, sessions, generator>>
      /\ call[c].at = "produce" /\ Busy(c)
  BY DEF Produce, Busy
<1>2. topic' = topic /\ failures' = failures /\ batch' = batch /\ posts' = posts
      /\ sessions' = sessions /\ generator' = generator
  BY <1>1
<1>3. /\ n \in Nat /\ e \in Known /\ queue \in Seq(Messages) /\ call[c] \in Publishes
      /\ posts \in Nat /\ sessions \in Nat /\ "generator" \in Caller
  BY KnownEvents DEF Shape, TopicInv, Fits, Numbers, Caller
<1>4. a \in 1 .. MaxAttempts
  <2>1. a \in 0 .. MaxAttempts /\ a >= 1
    BY <1>1 DEF TopicInv, Fits, CallFits
  <2> QED BY <2>1, PublisherAssumption
<1>5. m.event = e /\ m.attempt = a /\ m.stored = FALSE /\ m \in Messages
  <2>1. a \in Int
    BY <1>4
  <2> HIDE DEF e, a
  <2> QED BY <1>3, <2>1 DEF Messages
<1>6. /\ Len(queue') = n + 1 /\ queue'[n + 1] = m
      /\ \A i \in 1 .. n : queue'[i] = queue[i]
  <2>1. queue' = Append(queue, m)
    OBVIOUS
  <2> HIDE DEF m
  <2> QED BY <1>3, <1>5, <2>1
<1>7. \A i \in 1 .. Len(queue') : (i \in 1 .. n /\ queue'[i] = queue[i]) \/ (i = n + 1 /\ queue'[i] = m)
  BY <1>3, <1>6
<1>8. /\ \A b \in Caller : /\ call'[b].event = call[b].event /\ call'[b].attempt = call[b].attempt
                           /\ Busy(b)' <=> Busy(b)
                           /\ b # c => call'[b] = call[b]
      /\ call'[c].at = "flush" /\ ~call'[c].failed
  <2>1. \A b \in Caller : b # c => call'[b] = call[b]
    BY DEF Shape
  <2>2. /\ call'[c].at = "flush" /\ call'[c].event = call[c].event
        /\ call'[c].attempt = call[c].attempt /\ call'[c].failed = call[c].failed
    BY <1>3 DEF Shape, Publishes
  <2>3. ~call[c].failed
    BY <1>1 DEF TopicInv, Fits, CallFits
  <2> QED BY <1>1, <2>1, <2>2, <2>3 DEF Busy
<1> HIDE DEF n, m, e, a
<1>9. Good(e) /\ Encodable(e) /\ e.session \in SessionsOf(c)
  BY <1>1 DEF TopicInv, Fits, CallFits, SessionsOf, e
<1>10. \A f \in Known : /\ InTopic(f)' <=> InTopic(f)
                        /\ Seen(f)' => Seen(f) \/ f = e
                        /\ Stored(f)' = Stored(f) /\ Failed(f)' = Failed(f)
  <2> TAKE f \in Known
  <2>1. InTopic(f)' <=> InTopic(f)
    BY <1>2 DEF InTopic
  <2>2. HasMessage(f)' => HasMessage(f) \/ f = e
    BY <1>5, <1>7 DEF HasMessage, n
  <2>3. Stored(f)' = Stored(f) /\ Failed(f)' = Failed(f)
    BY <1>2 DEF Stored, Failed
  <2> QED BY <2>1, <2>2, <2>3 DEF Seen
<1>11. \A f \in Known : Pending(f)' \subseteq IF f = e THEN Pending(f) \union {a} ELSE Pending(f)
  BY <1>5, <1>7 DEF Pending, n
<1>12. \A f \in Known : Seen(f) => Upto(f, e)
  <2>1. CASE c = "generator"
    BY <1>1, <2>1 DEF TopicInv, Ordered, SeenBeforeGenerator, e
  <2>2. CASE c # "generator"
    <3>1. e.session \in -posts .. -1
      BY <1>9, <2>2 DEF SessionsOf
    <3>2. ~(e.session > 0)
      BY <1>3, <3>1
    <3> QED BY <3>2 DEF Upto
  <2> QED BY <2>1, <2>2
<1>13. \A i \in 1 .. Len(batch) : Before(e, batch[i])
  <2>1. CASE c = "generator"
    BY <1>1, <2>1 DEF TopicInv, Ordered, BeforeBatch, e
  <2>2. CASE c # "generator"
    <3>1. e.session \in -posts .. -1
      BY <1>9, <2>2 DEF SessionsOf
    <3>2. ~(e.session > 0)
      BY <1>3, <3>1
    <3> QED BY <3>2 DEF Before
  <2> QED BY <2>1, <2>2
<1>14. e.session \in -posts .. sessions /\ e.session # 0
  <2>1. e.session \in 1 .. sessions \/ e.session \in -posts .. -1
    BY <1>9 DEF SessionsOf
  <2> QED BY <1>3, <2>1
<1>15. Upto(e, e)
  BY <1>3, KnownEvents DEF Upto
\* The parts of the invariant, one after the other.
<1>16. Numbers' /\ \A b \in Caller : CallFits(b)'
  <2>1. Numbers'
    BY <1>2, <1>3, <1>8 DEF TopicInv, Fits, Numbers
  <2>2. ASSUME NEW b \in Caller PROVE CallFits(b)'
    <3>1. CallFits(b)
      BY DEF TopicInv, Fits
    <3> QED BY <1>2, <1>8, <3>1 DEF CallFits
  <2> QED BY <2>1, <2>2
<1>17. CallersDiffer'
  BY <1>8 DEF TopicInv, Fits, CallersDiffer
<1>18. QueueFits'
  <2>1. MessageFits(m)
    BY <1>4, <1>5, <1>9 DEF MessageFits
  <2> QED BY <1>7, <2>1 DEF TopicInv, Fits, QueueFits, n
<1>19. (\A k \in Keys : PartitionFits(k)') /\ BatchFits'
  BY <1>2 DEF TopicInv, Fits, PartitionFits, BatchFits
<1>20. SeenFits'
  BY <1>2, <1>10, <1>14 DEF TopicInv, Fits, SeenFits
<1>21. \A k \in Keys : PartitionOrdered(k)'
  BY <1>2 DEF TopicInv, Ordered, PartitionOrdered
<1>22. QueueOrdered'
  <2> SUFFICES ASSUME NEW i \in 1 .. Len(queue'), NEW j \in 1 .. Len(queue'), i < j
               PROVE  Upto(queue'[i].event, queue'[j].event)
    BY DEF QueueOrdered
  <2>1. i \in 1 .. n /\ queue'[i] = queue[i]
    BY <1>3, <1>6, <1>7 DEF n
  <2>2. CASE j \in 1 .. n
    BY <1>7, <2>1, <2>2, <1>6 DEF TopicInv, Ordered, QueueOrdered, n
  <2>3. CASE queue'[j] = m
    <3>1. Seen(queue[i].event)
      BY <2>1 DEF Seen, HasMessage, n
    <3>2. queue[i].event \in Known
      BY <2>1, KnownEvents DEF n
    <3> QED BY <1>5, <1>12, <2>1, <2>3, <3>1, <3>2
  <2> QED BY <1>7, <2>2, <2>3
<1>23. TopicBeforeQueue'
  <2> SUFFICES ASSUME NEW i \in 1 .. Len(queue'), NEW f \in Known, ~queue'[i].stored, InTopic(f)'
               PROVE  Upto(f, queue'[i].event)
    BY DEF TopicBeforeQueue
  <2>1. InTopic(f) /\ Seen(f)
    BY <1>10 DEF Seen
  <2>2. CASE i \in 1 .. n /\ queue'[i] = queue[i]
    BY <2>1, <2>2 DEF TopicInv, Ordered, TopicBeforeQueue, n
  <2>3. CASE queue'[i] = m
    BY <1>5, <1>12, <2>1, <2>3
  <2> QED BY <1>7, <2>2, <2>3
<1>24. SeenBeforeGenerator'
  <2> SUFFICES ASSUME Busy("generator"), NEW f \in Known, Seen(f)'
               PROVE  Upto(f, call["generator"].event)
    BY <1>3, <1>8 DEF SeenBeforeGenerator
  <2>1. CASE Seen(f)
    BY <2>1 DEF TopicInv, Ordered, SeenBeforeGenerator
  <2>2. CASE f = e
    <3>1. CASE c = "generator"
      BY <1>15, <2>2, <3>1 DEF e
    <3>2. CASE c # "generator"
      <4>1. e.session \in -posts .. -1
        BY <1>9, <3>2 DEF SessionsOf
      <4>2. ~(e.session > 0)
        BY <1>3, <4>1
      <4> QED BY <2>2, <4>2 DEF Upto
    <3> QED BY <3>1, <3>2
  <2> QED BY <1>10, <2>1, <2>2
<1>25. BeforeBatch'
  <2>1. \A i \in 1 .. Len(batch) : \A f \in Known : Seen(f)' => Before(f, batch[i])
    BY <1>10, <1>13 DEF TopicInv, Ordered, BeforeBatch
  <2> QED BY <1>2, <1>3, <1>8, <2>1 DEF TopicInv, Ordered, BeforeBatch
<1>26. \A f \in Known : /\ f # e => Copies(f)' <= Copies(f)
                        /\ Copies(f)' <= Copies(f) + 1
                        /\ Copies(f)' \in Nat /\ Copies(f) \in Nat /\ Cardinality(Failed(f)) \in Nat
                        /\ Failed(f)' = Failed(f)
  <2> TAKE f \in Known
  <2>1. Numbers
    BY DEF TopicInv, Fits
  <2>2. /\ Cardinality(Stored(f)) \in Nat /\ IsFiniteSet(Pending(f))
        /\ Cardinality(Pending(f)) \in Nat /\ Cardinality(Failed(f)) \in Nat
    BY <2>1, SetsAreFinite
  <2> DEFINE more == IF f = e THEN Pending(f) \union {a} ELSE Pending(f)
  <2>3. /\ IsFiniteSet(more) /\ Cardinality(more) \in Nat
        /\ Cardinality(more) <= Cardinality(Pending(f)) + 1
        /\ f # e => Cardinality(more) <= Cardinality(Pending(f))
    <3>1. CASE f = e
      <4>1. /\ IsFiniteSet(Pending(f) \union {a})
            /\ Cardinality(Pending(f) \union {a}) =
                 IF a \in Pending(f) THEN Cardinality(Pending(f)) ELSE Cardinality(Pending(f)) + 1
        BY <2>2, FS_AddElement
      <4> QED BY <2>2, <3>1, <4>1
    <3>2. CASE f # e
      BY <2>2, <3>2
    <3> QED BY <3>1, <3>2
  <2>4. Pending(f)' \subseteq more
    BY <1>11
  <2> HIDE DEF more
  <2>5. IsFiniteSet(Pending(f)') /\ Cardinality(Pending(f)') <= Cardinality(more)
    BY <2>3, <2>4, FS_Subset
  <2>6. Cardinality(Pending(f)') \in Nat
    BY <2>5, FS_CardinalityType
  <2>7. Copies(f)' = Cardinality(Stored(f)) + Cardinality(Pending(f)')
    BY <1>10 DEF Copies
  <2>8. Copies(f) = Cardinality(Stored(f)) + Cardinality(Pending(f))
    BY DEF Copies
  <2>9. /\ f # e => Copies(f)' <= Copies(f)
        /\ Copies(f)' <= Copies(f) + 1 /\ Copies(f)' \in Nat /\ Copies(f) \in Nat
    BY <2>2, <2>3, <2>5, <2>6, <2>7, <2>8
  <2> QED BY <1>10, <2>2, <2>9
<1>27. CopiesNeedFailures'
  <2>1. ASSUME NEW f \in Known PROVE Copies(f)' <= 1 + Cardinality(Failed(f)')
    <3>1. CASE f = e
      <4>1. Copies(f) <= Cardinality(Failed(f))
        BY <1>1, <3>1 DEF TopicInv, Counted, CopiesNeedFailures, Owes, e
      <4> QED BY <1>26, <4>1
    <3>2. CASE f # e
      <4>1. Copies(f) <= 1 + Cardinality(Failed(f))
        BY DEF TopicInv, Counted, CopiesNeedFailures
      <4> QED BY <1>26, <3>2, <4>1
    <3> QED BY <3>1, <3>2
  <2>2. ASSUME NEW b \in Caller, NEW f \in Known, Owes(call'[b]), call'[b].event = f
        PROVE  Copies(f)' <= Cardinality(Failed(f)')
    <3>1. b # c
      BY <1>8, <2>2 DEF Owes
    <3>2. call'[b] = call[b]
      BY <1>8, <3>1
    <3>3. Copies(f) <= Cardinality(Failed(f))
      BY <2>2, <3>2 DEF TopicInv, Counted, CopiesNeedFailures
    <3>4. f # e
      <4>1. Busy(b)
        BY <2>2, <3>2 DEF Owes, Busy
      <4> QED BY <1>1, <2>2, <3>1, <3>2, <4>1 DEF TopicInv, Fits, CallersDiffer, e
    <3> QED BY <1>26, <3>3, <3>4
  <2> QED BY <2>1, <2>2 DEF CopiesNeedFailures
<1>28. /\ \A i \in 1 .. n : queue[i].event = e => queue[i].attempt < a /\ queue[i].attempt \in Int
       /\ \A f \in failures : f.event = e => f.attempt < a /\ f.attempt \in Int
  <2>1. \A f \in failures : f.attempt \in Int
    BY PublisherAssumption DEF TopicInv, Fits, Numbers
  <2>2. \A i \in 1 .. n : queue[i].attempt \in Int
    BY KnownEvents DEF n
  <2> QED BY <1>1, <2>1, <2>2 DEF TopicInv, Counted, AttemptsGrow, Older, e, a, n
<1>29. a \in Int /\ ~(a < a)
  BY <1>4
<1>30. MessagesDiffer'
  <2>1. [event |-> m.event, attempt |-> m.attempt] \notin failures
    <3> DEFINE f == [event |-> m.event, attempt |-> m.attempt]
    <3>1. f.event = e /\ f.attempt = a
      BY <1>5
    <3> HIDE DEF f
    <3>2. f \notin failures
      BY <1>28, <1>29, <3>1
    <3> QED BY <3>2 DEF f
  <2>2. \A i \in 1 .. n : ~(queue[i].event = e /\ queue[i].attempt = a)
    BY <1>28, <1>29
  <2> SUFFICES ASSUME NEW i \in 1 .. Len(queue')
               PROVE  /\ [event |-> queue'[i].event, attempt |-> queue'[i].attempt] \notin failures
                      /\ \A j \in 1 .. Len(queue') :
                           queue'[i].event = queue'[j].event /\ queue'[i].attempt = queue'[j].attempt => i = j
    BY <1>2 DEF MessagesDiffer
  <2>3. [event |-> queue'[i].event, attempt |-> queue'[i].attempt] \notin failures
    <3>1. CASE queue'[i] = m
      BY <2>1, <3>1
    <3>2. CASE i \in 1 .. n /\ queue'[i] = queue[i]
      BY <3>2 DEF TopicInv, Counted, MessagesDiffer, n
    <3> QED BY <1>7, <3>1, <3>2
  <2>4. ASSUME NEW j \in 1 .. Len(queue'),
               queue'[i].event = queue'[j].event, queue'[i].attempt = queue'[j].attempt
        PROVE  i = j
    <3>1. CASE i \in 1 .. n /\ queue'[i] = queue[i] /\ j \in 1 .. n /\ queue'[j] = queue[j]
      BY <2>4, <3>1 DEF TopicInv, Counted, MessagesDiffer, n
    <3>2. CASE i \in 1 .. n /\ queue'[i] = queue[i] /\ queue'[j] = m
      BY <1>5, <2>2, <2>4, <3>2
    <3>3. CASE queue'[i] = m /\ j \in 1 .. n /\ queue'[j] = queue[j]
      BY <1>5, <2>2, <2>4, <3>3
    <3>4. CASE i = n + 1 /\ j = n + 1
      BY <3>4
    <3> QED BY <1>7, <3>1, <3>2, <3>3, <3>4
  <2> QED BY <2>3, <2>4
<1>31. AttemptsGrow'
  <2> SUFFICES ASSUME NEW b \in Caller, Busy(b)
               PROVE  /\ \A i \in 1 .. Len(queue') :
                           queue'[i].event = call[b].event => Older(queue'[i].attempt, call'[b])
                      /\ \A f \in failures : f.event = call[b].event => Older(f.attempt, call'[b])
    BY <1>2, <1>8 DEF AttemptsGrow
  <2>1. CASE b = c
    <3>1. \A x \in Int : x <= a => Older(x, call'[c])
      BY <1>8 DEF Older, a
    <3>2. \A i \in 1 .. Len(queue') :
            queue'[i].event = e => queue'[i].attempt \in Int /\ queue'[i].attempt <= a
      BY <1>5, <1>7, <1>28, <1>29
    <3>3. \A f \in failures : f.event = e => f.attempt \in Int /\ f.attempt <= a
      BY <1>28, <1>29
    <3> QED BY <2>1, <3>1, <3>2, <3>3 DEF e
  <2>2. CASE b # c
    <3>1. call'[b] = call[b] /\ call[b].event # e
      BY <1>1, <1>8, <2>2 DEF TopicInv, Fits, CallersDiffer, e
    <3> QED BY <1>5, <1>7, <3>1 DEF TopicInv, Counted, AttemptsGrow, n
  <2> QED BY <2>1, <2>2
<1> QED BY <1>16, <1>17, <1>18, <1>19, <1>20, <1>21, <1>22, <1>23, <1>24, <1>25, <1>27, <1>30, <1>31
        DEF TopicInv, Fits, Ordered, Counted

LEMMA RestartKeepsCopies ==
  ASSUME Shape, TopicInv, Restart
  PROVE  TopicInv'
<1>1. /\ queue' = <<>> /\ batch' = <<>> /\ call' = [c \in Caller |-> Idle]
      /\ topic' = topic /\ failures' = failures /\ posts' = posts /\ sessions' = sessions
      /\ schemaKnown' = FALSE /\ generator' \in {"asleep", "off"}
  BY DEF Restart
<1>2. /\ \A c \in Caller : ~Busy(c)' /\ call'[c] = Idle
      /\ Idle.at = "idle" /\ Idle.attempt = 0 /\ "generator" \in Caller /\ Len(queue') = 0
      /\ Len(batch') = 0
  <2>1. Idle.at = "idle" /\ Idle.attempt = 0
    BY DEF Idle
  <2> QED BY <1>1, <2>1 DEF Busy, Caller
<1>3. 0 \in 0 .. MaxAttempts
  BY PublisherAssumption
<1>4. \A f \in Known : /\ InTopic(f)' <=> InTopic(f)
                       /\ Seen(f)' => Seen(f)
                       /\ Stored(f)' = Stored(f) /\ Failed(f)' = Failed(f)
  <2> TAKE f \in Known
  <2>1. InTopic(f)' <=> InTopic(f)
    BY <1>1 DEF InTopic
  <2>2. ~HasMessage(f)'
    BY <1>2 DEF HasMessage
  <2>3. Stored(f)' = Stored(f) /\ Failed(f)' = Failed(f)
    BY <1>1 DEF Stored, Failed
  <2> QED BY <2>1, <2>2, <2>3 DEF Seen
<1>5. Numbers'
  BY <1>1, <1>2 DEF TopicInv, Fits, Numbers
<1>6. (\A c \in Caller : CallFits(c)') /\ CallersDiffer'
  BY <1>2, <1>3 DEF CallFits, CallersDiffer
<1>7. QueueFits' /\ (\A k \in Keys : PartitionFits(k)') /\ BatchFits'
  BY <1>1, <1>2 DEF TopicInv, Fits, QueueFits, PartitionFits, BatchFits
<1>8. SeenFits'
  BY <1>1, <1>4 DEF TopicInv, Fits, SeenFits
<1>9. /\ \A k \in Keys : PartitionOrdered(k)'
      /\ QueueOrdered' /\ TopicBeforeQueue' /\ SeenBeforeGenerator' /\ BeforeBatch'
  BY <1>1, <1>2 DEF TopicInv, Ordered, PartitionOrdered, QueueOrdered, TopicBeforeQueue,
                    SeenBeforeGenerator, BeforeBatch
<1>10. CopiesNeedFailures'
  <2>1. ASSUME NEW f \in Known PROVE Copies(f)' <= 1 + Cardinality(Failed(f)')
    <3>1. /\ Cardinality(Stored(f)) \in Nat /\ Cardinality(Pending(f)) \in Nat
          /\ Cardinality(Failed(f)) \in Nat
      BY SetsAreFinite DEF TopicInv, Fits
    <3>2. Pending(f)' = {}
      BY <1>2 DEF Pending
    <3>3. Copies(f)' = Cardinality(Stored(f)) + 0
      BY <1>4, <3>2, FS_EmptySet DEF Copies
    <3>4. Cardinality(Stored(f)) + Cardinality(Pending(f)) <= 1 + Cardinality(Failed(f))
      BY DEF TopicInv, Counted, CopiesNeedFailures, Copies
    <3> QED BY <1>4, <3>1, <3>3, <3>4
  <2>2. \A c \in Caller : ~Owes(call'[c])
    BY <1>2 DEF Owes
  <2> QED BY <2>1, <2>2 DEF CopiesNeedFailures
<1>11. MessagesDiffer' /\ AttemptsGrow'
  BY <1>2 DEF MessagesDiffer, AttemptsGrow
<1> QED BY <1>5, <1>6, <1>7, <1>8, <1>9, <1>10, <1>11 DEF TopicInv, Fits, Ordered, Counted

LEMMA InitHasNone == Init => TopicInv
<1> SUFFICES ASSUME Init PROVE TopicInv
  OBVIOUS
<1>1. /\ queue = <<>> /\ batch = <<>> /\ call = [c \in Caller |-> Idle]
      /\ topic = [k \in Keys |-> <<>>] /\ failures = {} /\ posts = 0 /\ sessions = 0
      /\ schemaKnown = FALSE /\ generator \in {"asleep", "off"}
  BY DEF Init
<1>2. /\ \A c \in Caller : ~Busy(c) /\ call[c] = Idle
      /\ Idle.at = "idle" /\ Idle.attempt = 0 /\ "generator" \in Caller /\ Len(queue) = 0
      /\ Len(batch) = 0 /\ \A k \in Keys : Len(topic[k]) = 0
  <2>1. Idle.at = "idle" /\ Idle.attempt = 0
    BY DEF Idle
  <2> QED BY <1>1, <2>1 DEF Busy, Caller
<1>3. 0 \in 0 .. MaxAttempts
  BY PublisherAssumption
<1>4. \A f \in Known : ~InTopic(f) /\ ~Seen(f)
  <2> TAKE f \in Known
  <2>1. PartitionKey(f) \in Keys
    BY DEF Known
  <2> QED BY <1>1, <1>2, <2>1 DEF InTopic, HasMessage, Failed, Seen
<1>5. Numbers
  BY <1>1, <1>2, FS_EmptySet DEF Numbers
<1>6. (\A c \in Caller : CallFits(c)) /\ CallersDiffer
  BY <1>2, <1>3 DEF CallFits, CallersDiffer
<1>7. QueueFits /\ (\A k \in Keys : PartitionFits(k)) /\ BatchFits /\ SeenFits
  BY <1>1, <1>2, <1>4 DEF QueueFits, PartitionFits, BatchFits, SeenFits
<1>8. /\ \A k \in Keys : PartitionOrdered(k)
      /\ QueueOrdered /\ TopicBeforeQueue /\ SeenBeforeGenerator /\ BeforeBatch
  BY <1>1, <1>2, <1>4 DEF PartitionOrdered, QueueOrdered, TopicBeforeQueue,
                    SeenBeforeGenerator, BeforeBatch
<1>9. CopiesNeedFailures
  <2>1. ASSUME NEW f \in Known PROVE Copies(f) <= 1 + Cardinality(Failed(f))
    <3>1. PartitionKey(f) \in Keys
      BY DEF Known
    <3>2. Stored(f) = {} /\ Pending(f) = {} /\ Failed(f) = {}
      BY <1>1, <1>2, <3>1 DEF Stored, Pending, Failed
    <3> QED BY <3>2, FS_EmptySet DEF Copies
  <2>2. \A c \in Caller : ~Owes(call[c])
    BY <1>2 DEF Owes
  <2> QED BY <2>1, <2>2 DEF CopiesNeedFailures
<1>10. MessagesDiffer /\ AttemptsGrow
  BY <1>2 DEF MessagesDiffer, AttemptsGrow
<1> QED BY <1>5, <1>6, <1>7, <1>8, <1>9, <1>10 DEF TopicInv, Fits, Ordered, Counted

LEMMA StoreKeepsCopies ==
  ASSUME Shape, TopicInv, NEW i \in DOMAIN queue, Store(i)
  PROVE  TopicInv'
<1> DEFINE e == queue[i].event
           a == queue[i].attempt
           k == PartitionKey(e)
           n == Len(topic[k])
<1>1. /\ call' = call /\ failures' = failures /\ batch' = batch /\ posts' = posts
      /\ sessions' = sessions /\ generator' = generator /\ schemaKnown' = schemaKnown
      /\ ~queue[i].stored /\ topic' = [topic EXCEPT ![k] = Append(@, e)]
      /\ queue' = [queue EXCEPT ![i].stored = TRUE]
      /\ \A j \in 1 .. i - 1 : PartitionKey(queue[j].event) = k => queue[j].stored
  BY DEF Store
<1>2. queue \in Seq(Messages) /\ i \in 1 .. Len(queue) /\ Len(queue) \in Nat
  BY DEF Shape
<1>3. e \in Known /\ k \in Keys /\ n \in Nat /\ topic[k] \in Seq(Known)
  BY <1>2, KnownEvents
<1>4. /\ Len(queue') = Len(queue)
      /\ \A j \in 1 .. Len(queue) :
           /\ queue'[j].event = queue[j].event /\ queue'[j].attempt = queue[j].attempt
           /\ ~queue'[j].stored => ~queue[j].stored /\ j # i
  <2> DEFINE m == [queue[i] EXCEPT !.stored = TRUE]
  <2>1. queue[i] \in Messages
    BY <1>2
  <2>2. m.event = queue[i].event /\ m.attempt = queue[i].attempt /\ m.stored = TRUE
    BY <2>1 DEF Messages
  <2>3. queue' = [queue EXCEPT ![i] = m]
    BY <1>1
  <2> HIDE DEF m
  <2>4. /\ Len(queue') = Len(queue) /\ queue'[i] = m
        /\ \A j \in 1 .. Len(queue) : j # i => queue'[j] = queue[j]
    BY <1>2, <2>3
  <2> QED BY <2>2, <2>4
<1>5. /\ Len(topic'[k]) = n + 1 /\ topic'[k][n + 1] = e
      /\ \A j \in 1 .. n : topic'[k][j] = topic[k][j]
      /\ \A l \in Keys : l # k => topic'[l] = topic[l]
  <2>1. topic'[k] = Append(topic[k], e) /\ \A l \in Keys : l # k => topic'[l] = topic[l]
    BY <1>1, <1>3 DEF Shape
  <2> QED BY <1>3, <2>1
<1>6. \A j \in 1 .. Len(topic'[k]) :
        (j \in 1 .. n /\ topic'[k][j] = topic[k][j]) \/ (j = n + 1 /\ topic'[k][j] = e)
  BY <1>3, <1>5
<1>7. MessageFits(queue[i]) /\ a \in 1 .. MaxAttempts
  BY <1>2 DEF TopicInv, Fits, QueueFits, MessageFits
<1>8. Good(e) /\ Encodable(e) /\ PartitionKey(e) = k
  BY <1>7 DEF MessageFits
<1> HIDE DEF n, k, e, a
<1>9. HasMessage(e)
  BY <1>2 DEF HasMessage, e
<1>10. ASSUME NEW f \in Known
       PROVE  /\ InTopic(f)' => InTopic(f) \/ f = e
              /\ Seen(f)' => Seen(f)
              /\ Failed(f)' = Failed(f)
  <2>1. PartitionKey(f) \in Keys
    BY KnownEvents
  <2>2. InTopic(f)' => InTopic(f) \/ f = e
    <3>1. CASE PartitionKey(f) = k
      BY <1>6, <3>1 DEF InTopic, n
    <3>2. CASE PartitionKey(f) # k
      BY <1>5, <2>1, <3>2 DEF InTopic
    <3> QED BY <3>1, <3>2
  <2>3. HasMessage(f)' => HasMessage(f)
    BY <1>4 DEF HasMessage
  <2>4. Failed(f)' = Failed(f)
    BY <1>1 DEF Failed
  <2> QED BY <1>9, <2>2, <2>3, <2>4 DEF Seen
<1>11. \A f \in Known : InTopic(f) => Upto(f, e)
  BY <1>1, <1>2 DEF TopicInv, Ordered, TopicBeforeQueue, e
<1>12. ASSUME NEW l \in Keys PROVE PartitionFits(l)' /\ PartitionOrdered(l)'
  <2>1. PartitionFits(l) /\ PartitionOrdered(l)
    BY DEF TopicInv, Fits, Ordered
  <2>2. CASE l # k
    BY <1>5, <2>1, <2>2 DEF PartitionFits, PartitionOrdered
  <2>3. CASE l = k
    <3>1. \A j \in 1 .. n : /\ Good(topic[k][j]) /\ Encodable(topic[k][j])
                            /\ PartitionKey(topic[k][j]) = k /\ topic[k][j] \in Known
      BY <1>3, <2>1, <2>3, KnownEvents DEF PartitionFits, n
    <3>4. \A j \in 1 .. Len(topic'[l]) :
            (j \in 1 .. n /\ topic'[l][j] = topic[k][j]) \/ (j = n + 1 /\ topic'[l][j] = e)
      BY <1>6, <2>3
    <3>2. PartitionFits(l)'
      BY <1>8, <2>3, <3>1, <3>4 DEF PartitionFits
    <3>3. PartitionOrdered(l)'
      <4> SUFFICES ASSUME NEW p \in 1 .. Len(topic'[l]), NEW q \in 1 .. Len(topic'[l]), p < q
                   PROVE  Upto(topic'[l][p], topic'[l][q])
        BY DEF PartitionOrdered
      <4>1. p \in 1 .. n /\ topic'[l][p] = topic[k][p]
        BY <1>3, <1>5, <2>3, <3>4
      <4>2. CASE q \in 1 .. n /\ topic'[l][q] = topic[k][q]
        BY <2>1, <2>3, <4>1, <4>2 DEF PartitionOrdered, n
      <4>3. CASE topic'[l][q] = e
        <5>1. InTopic(topic[k][p]) /\ topic[k][p] \in Known
          BY <3>1, <4>1 DEF InTopic, n
        <5> QED BY <1>11, <4>1, <4>3, <5>1
      <4> QED BY <3>4, <4>2, <4>3
    <3> QED BY <3>2, <3>3
  <2> QED BY <2>2, <2>3
<1>13. \A c : Busy(c)' <=> Busy(c)
  BY <1>1 DEF Busy
<1>14. Numbers' /\ CallersDiffer' /\ BatchFits' /\ (\A c \in Caller : CallFits(c)')
  BY <1>1, <1>13 DEF TopicInv, Fits, Numbers, CallersDiffer, BatchFits, CallFits
<1>15. QueueFits'
  BY <1>4 DEF TopicInv, Fits, QueueFits, MessageFits
<1>16. SeenFits' /\ SeenBeforeGenerator' /\ BeforeBatch'
  <2>1. SeenFits'
    BY <1>1, <1>10 DEF TopicInv, Fits, SeenFits
  <2>2. SeenBeforeGenerator'
    BY <1>1, <1>10, <1>13 DEF TopicInv, Ordered, SeenBeforeGenerator
  <2>3. BeforeBatch'
    BY <1>1, <1>10, <1>13 DEF TopicInv, Ordered, BeforeBatch
  <2> QED BY <2>1, <2>2, <2>3
<1>17. QueueOrdered'
  BY <1>4 DEF TopicInv, Ordered, QueueOrdered
<1>18. TopicBeforeQueue'
  <2> SUFFICES ASSUME NEW j \in 1 .. Len(queue), NEW f \in Known, ~queue'[j].stored, InTopic(f)'
               PROVE  Upto(f, queue[j].event)
    BY <1>4 DEF TopicBeforeQueue
  <2>1. ~queue[j].stored /\ j # i
    BY <1>4
  <2>2. CASE InTopic(f)
    BY <2>1, <2>2 DEF TopicInv, Ordered, TopicBeforeQueue
  <2>3. CASE f = e
    <3>1. CASE i < j
      BY <1>2, <2>3, <3>1 DEF TopicInv, Ordered, QueueOrdered, e
    <3>2. CASE j < i
      <4> DEFINE g == queue[j].event
      <4>1. j \in 1 .. i - 1
        BY <1>2, <3>2
      <4>2. PartitionKey(g) # k
        BY <1>1, <2>1, <4>1
      <4>3. Good(g)
        BY DEF TopicInv, Fits, QueueFits, MessageFits
      <4> HIDE DEF g
      <4>4. ~(e.session = g.session /\ e.session > 0)
        BY <1>8, <4>2, <4>3 DEF Good, PartitionKey
      <4>5. Upto(e, g)
        BY <4>4 DEF Upto
      <4> QED BY <2>3, <4>5 DEF g
    <3> QED BY <1>2, <2>1, <3>1, <3>2
  <2> QED BY <1>10, <2>2, <2>3
<1>19. ASSUME NEW f \in Known PROVE Copies(f)' <= Copies(f) /\ Copies(f)' \in Nat
  <2>1. /\ IsFiniteSet(Stored(f)) /\ Cardinality(Stored(f)) \in Nat
        /\ IsFiniteSet(Pending(f)) /\ Cardinality(Pending(f)) \in Nat
    BY SetsAreFinite DEF TopicInv, Fits
  <2>2. PartitionKey(f) \in Keys
    BY KnownEvents
  <2>3. Copies(f) = Cardinality(Stored(f)) + Cardinality(Pending(f))
    BY DEF Copies
  <2>4. Copies(f)' = Cardinality(Stored(f)') + Cardinality(Pending(f)')
    BY DEF Copies
  <2>5. CASE f = e
    <3>1. Stored(f)' \subseteq Stored(f) \union {n + 1}
      BY <1>6, <1>8, <2>5 DEF Stored, n
    <3>2. /\ IsFiniteSet(Stored(f) \union {n + 1})
          /\ Cardinality(Stored(f) \union {n + 1}) \in {Cardinality(Stored(f)), Cardinality(Stored(f)) + 1}
      BY <2>1, FS_AddElement
    <3>3. IsFiniteSet(Stored(f)') /\ Cardinality(Stored(f)') <= Cardinality(Stored(f) \union {n + 1})
      BY <3>1, <3>2, FS_Subset
    <3>4. a \in Pending(f)
      BY <1>1, <1>2, <1>7, <2>5 DEF Pending, e, a
    <3>5. \A j \in 1 .. Len(queue) : queue[j].event = e /\ queue[j].attempt = a => j = i
      BY <1>2 DEF TopicInv, Counted, MessagesDiffer, e, a
    <3>6. Pending(f)' \subseteq Pending(f) \ {a}
      <4> SUFFICES ASSUME NEW b \in Pending(f)' PROVE b \in Pending(f) /\ b # a
        BY Zenon
      <4>1. PICK j \in 1 .. Len(queue) : ~queue'[j].stored /\ queue[j].event = f /\ queue[j].attempt = b
        BY <1>4 DEF Pending
      <4>2. ~queue[j].stored /\ j # i /\ b \in 1 .. MaxAttempts
        BY <1>4, <4>1 DEF Pending
      <4> QED BY <2>5, <3>5, <4>1, <4>2 DEF Pending
    <3>7. /\ IsFiniteSet(Pending(f) \ {a})
          /\ Cardinality(Pending(f) \ {a}) = Cardinality(Pending(f)) - 1
      BY <2>1, <3>4, FS_RemoveElement
    <3>8. IsFiniteSet(Pending(f)') /\ Cardinality(Pending(f)') <= Cardinality(Pending(f) \ {a})
      BY <3>6, <3>7, FS_Subset
    <3>9. Cardinality(Pending(f)') \in Nat /\ Cardinality(Stored(f)') \in Nat
      BY <3>3, <3>8, FS_CardinalityType
    <3>10. /\ Cardinality(Stored(f)') <= Cardinality(Stored(f)) + 1
           /\ Cardinality(Pending(f)') <= Cardinality(Pending(f)) - 1
      BY <2>1, <3>2, <3>3, <3>7, <3>8, <3>9
    <3> QED BY <2>1, <2>3, <2>4, <3>9, <3>10
  <2>6. CASE f # e
    <3>1. Stored(f)' \subseteq Stored(f)
      <4>1. CASE PartitionKey(f) = k
        BY <1>6, <2>6, <4>1 DEF Stored, n
      <4>2. CASE PartitionKey(f) # k
        BY <1>5, <2>2, <4>2 DEF Stored
      <4> QED BY <4>1, <4>2
    <3>2. Pending(f)' \subseteq Pending(f)
      BY <1>4 DEF Pending
    <3>3. /\ IsFiniteSet(Stored(f)') /\ Cardinality(Stored(f)') <= Cardinality(Stored(f))
          /\ IsFiniteSet(Pending(f)') /\ Cardinality(Pending(f)') <= Cardinality(Pending(f))
      BY <2>1, <3>1, <3>2, FS_Subset
    <3>4. Cardinality(Pending(f)') \in Nat /\ Cardinality(Stored(f)') \in Nat
      BY <3>3, FS_CardinalityType
    <3> QED BY <2>1, <2>3, <2>4, <3>3, <3>4
  <2> QED BY <2>5, <2>6
<1>20. ASSUME NEW f \in Known
       PROVE  /\ Copies(f)' \in Int /\ Copies(f) \in Int
              /\ Cardinality(Failed(f)) \in Int /\ Failed(f)' = Failed(f)
  <2>1. Copies(f) \in Nat /\ Cardinality(Failed(f)) \in Nat
    BY SetsAreFinite DEF TopicInv, Fits
  <2> QED BY <1>10, <1>19, <2>1
<1>21. CopiesNeedFailures'
  <2>1. ASSUME NEW f \in Known PROVE Copies(f)' <= 1 + Cardinality(Failed(f)')
    <3>1. Copies(f) <= 1 + Cardinality(Failed(f))
      BY DEF TopicInv, Counted, CopiesNeedFailures
    <3> QED BY <1>19, <1>20, <3>1
  <2>2. ASSUME NEW c \in Caller, NEW f \in Known, Owes(call'[c]), call'[c].event = f
        PROVE  Copies(f)' <= Cardinality(Failed(f)')
    <3>1. Copies(f) <= Cardinality(Failed(f))
      BY <1>1, <2>2 DEF TopicInv, Counted, CopiesNeedFailures
    <3> QED BY <1>19, <1>20, <3>1
  <2> QED BY <2>1, <2>2 DEF CopiesNeedFailures
<1>22. MessagesDiffer'
  BY <1>1, <1>4 DEF TopicInv, Counted, MessagesDiffer
<1>23. AttemptsGrow'
  BY <1>1, <1>4, <1>13 DEF TopicInv, Counted, AttemptsGrow
<1> QED BY <1>12, <1>14, <1>15, <1>16, <1>17, <1>18, <1>21, <1>22, <1>23
        DEF TopicInv, Fits, Ordered, Counted

LEMMA ReportKeepsCopies ==
  ASSUME Shape, TopicInv, NEW i \in DOMAIN queue, Report(i)
  PROVE  TopicInv'
<1> DEFINE e == queue[i].event
           a == queue[i].attempt
           failure == [event |-> e, attempt |-> a]
           Owner(c) == call[c].at = "flush" /\ call[c].event = e /\ call[c].attempt = a
           Was(j) == IF j < i THEN j ELSE j + 1
<1>1. /\ topic' = topic /\ batch' = batch /\ posts' = posts /\ sessions' = sessions
      /\ generator' = generator /\ schemaKnown' = schemaKnown
      /\ queue' = RemoveAt(queue, i)
  BY DEF Report
<1>2. queue \in Seq(Messages) /\ i \in 1 .. Len(queue) /\ Len(queue) \in Nat
  BY DEF Shape
<1>3. e \in Known /\ MessageFits(queue[i]) /\ a \in 1 .. MaxAttempts
  BY <1>2, KnownEvents DEF TopicInv, Fits, QueueFits, MessageFits
<1>4. failure.event = e /\ failure.attempt = a /\ failure \in [event : Known, attempt : 1 .. MaxAttempts]
  <2> HIDE DEF e, a
  <2> QED BY <1>3
<1>5. /\ Len(queue') = Len(queue) - 1
      /\ \A j \in 1 .. Len(queue') :
           Was(j) \in 1 .. Len(queue) /\ Was(j) # i /\ queue'[j] = queue[Was(j)]
      /\ \A j, k \in 1 .. Len(queue') :
           (j < k => Was(j) < Was(k)) /\ (Was(j) = Was(k) => j = k)
  <2>1. /\ Len(queue') = Len(queue) - 1
        /\ \A k \in 1 .. i - 1 : queue'[k] = queue[k]
        /\ \A k \in i .. Len(queue) - 1 : queue'[k] = queue[k + 1]
    BY <1>1, <1>2, RemoveAtShifts
  <2>2. ASSUME NEW j \in 1 .. Len(queue')
        PROVE  Was(j) \in 1 .. Len(queue) /\ Was(j) # i /\ queue'[j] = queue[Was(j)]
    <3>1. CASE j < i
      <4>1. j \in 1 .. i - 1 /\ j \in 1 .. Len(queue) /\ j # i
        BY <1>2, <3>1
      <4> QED BY <2>1, <3>1, <4>1
    <3>2. CASE ~(j < i)
      <4>1. j \in i .. Len(queue) - 1 /\ j + 1 \in 1 .. Len(queue) /\ j + 1 # i
        BY <1>2, <2>1, <3>2
      <4> QED BY <2>1, <3>2, <4>1
    <3> QED BY <3>1, <3>2
  <2>3. \A j, k \in 1 .. Len(queue') :
          (j < k => Was(j) < Was(k)) /\ (Was(j) = Was(k) => j = k)
    BY <1>2
  <2> HIDE DEF Was
  <2> QED BY <2>1, <2>2, <2>3
<1> HIDE DEF Was
<1>6. failure \notin failures
  BY <1>2 DEF TopicInv, Counted, MessagesDiffer
<1> HIDE DEF failure
<1>7. \/ UNCHANGED <<call, failures>>
      \/ /\ failures' = failures \union {failure}
         /\ call' = [c \in Caller |-> IF Owner(c) THEN [call[c] EXCEPT !.failed = TRUE] ELSE call[c]]
  BY DEF Report, failure
<1> HIDE DEF e, a
<1>8. /\ failures \subseteq failures' /\ failures' \subseteq failures \union {failure}
      /\ IsFiniteSet(failures')
  <2>1. IsFiniteSet(failures)
    BY DEF TopicInv, Fits, Numbers
  <2> QED BY <1>7, <2>1, FS_AddElement
<1>9. ASSUME NEW c \in Caller
      PROVE  /\ call'[c].at = call[c].at /\ call'[c].event = call[c].event
             /\ call'[c].attempt = call[c].attempt
             /\ call'[c].failed => call[c].failed \/ (Owner(c) /\ failure \in failures')
  <2>1. CASE UNCHANGED <<call, failures>>
    BY <2>1
  <2>2. CASE /\ failures' = failures \union {failure}
             /\ call' = [d \in Caller |-> IF Owner(d) THEN [call[d] EXCEPT !.failed = TRUE] ELSE call[d]]
    <3>1. call[c] \in Publishes
      BY KnownEvents
    <3> HIDE DEF Owner
    <3>2. call'[c] = IF Owner(c) THEN [call[c] EXCEPT !.failed = TRUE] ELSE call[c]
      BY <2>2
    <3>3. failure \in failures'
      BY <2>2
    <3>4. CASE Owner(c)
      BY <3>1, <3>2, <3>3, <3>4 DEF Publishes
    <3>5. CASE ~Owner(c)
      BY <3>2, <3>5
    <3> QED BY <3>4, <3>5
  <2> QED BY <1>7, <2>1, <2>2
<1>10. \A c \in Caller : Busy(c)' <=> Busy(c)
  BY <1>9 DEF Busy
<1>11. "generator" \in Caller
  BY DEF Caller
<1>12. HasMessage(e)
  BY <1>2 DEF HasMessage, e
<1>13. ASSUME NEW f \in Known
       PROVE  /\ InTopic(f)' <=> InTopic(f)
              /\ Seen(f)' => Seen(f)
              /\ Stored(f)' = Stored(f)
              /\ Failed(f) \subseteq Failed(f)'
              /\ Pending(f)' \subseteq Pending(f)
  <2>1. (InTopic(f)' <=> InTopic(f)) /\ Stored(f)' = Stored(f)
    BY <1>1 DEF InTopic, Stored
  <2>2. HasMessage(f)' => HasMessage(f)
    BY <1>5 DEF HasMessage
  <2>3. Failed(f) \subseteq Failed(f)'
    BY <1>8 DEF Failed
  <2>4. Failed(f)' # {} => Failed(f) # {} \/ f = e
    BY <1>4, <1>8 DEF Failed
  <2>5. Seen(f)' => Seen(f)
    BY <1>12, <2>1, <2>2, <2>4 DEF Seen
  <2>6. Pending(f)' \subseteq Pending(f)
    BY <1>5 DEF Pending
  <2> QED BY <2>1, <2>3, <2>5, <2>6
<1>14. Numbers'
  <2>1. failures' \subseteq [event : Known, attempt : 1 .. MaxAttempts]
    BY <1>4, <1>8 DEF TopicInv, Fits, Numbers
  <2> QED BY <1>1, <1>8, <1>10, <1>11, <2>1 DEF TopicInv, Fits, Numbers
<1>15. \A c \in Caller : CallFits(c)'
  <2> SUFFICES ASSUME NEW c \in Caller PROVE CallFits(c)'
    OBVIOUS
  <2>1. CallFits(c)
    BY DEF TopicInv, Fits
  <2>2. call'[c].at = "produce" => ~call'[c].failed
    <3>1. call'[c].at = "produce" => call[c].at = "produce" /\ ~Owner(c) /\ ~call[c].failed
      BY <1>9, <2>1 DEF CallFits
    <3> QED BY <1>9, <3>1
  <2> HIDE DEF Owner
  <2> QED BY <1>1, <1>9, <1>10, <2>1, <2>2 DEF CallFits
<1>16. CallersDiffer'
  BY <1>9, <1>10 DEF TopicInv, Fits, CallersDiffer
<1>17. QueueFits' /\ BatchFits' /\ \A k \in Keys : PartitionFits(k)'
  <2>1. QueueFits'
    BY <1>5 DEF TopicInv, Fits, QueueFits
  <2> QED BY <1>1, <2>1 DEF TopicInv, Fits, BatchFits, PartitionFits
<1>18. SeenFits'
  BY <1>1, <1>13 DEF TopicInv, Fits, SeenFits
<1>19. \A k \in Keys : PartitionOrdered(k)'
  BY <1>1 DEF TopicInv, Ordered, PartitionOrdered
<1>20. QueueOrdered' /\ TopicBeforeQueue'
  <2>1. QueueOrdered'
    BY <1>5 DEF TopicInv, Ordered, QueueOrdered
  <2>2. TopicBeforeQueue'
    BY <1>5, <1>13 DEF TopicInv, Ordered, TopicBeforeQueue
  <2> QED BY <2>1, <2>2
<1>21. SeenBeforeGenerator' /\ BeforeBatch'
  <2>1. SeenBeforeGenerator'
    BY <1>9, <1>10, <1>11, <1>13 DEF TopicInv, Ordered, SeenBeforeGenerator
  <2>2. BeforeBatch'
    BY <1>1, <1>9, <1>10, <1>11, <1>13 DEF TopicInv, Ordered, BeforeBatch
  <2> QED BY <2>1, <2>2
<1>22. ASSUME NEW f \in Known
       PROVE  /\ Copies(f) \in Nat /\ Copies(f)' \in Nat /\ Copies(f)' <= Copies(f)
              /\ Cardinality(Failed(f)) \in Nat /\ Cardinality(Failed(f)') \in Nat
              /\ Cardinality(Failed(f)) <= Cardinality(Failed(f)')
              /\ failure \in failures' /\ f = e =>
                   Cardinality(Failed(f)') = Cardinality(Failed(f)) + 1
  <2>1. /\ Cardinality(Stored(f)) \in Nat
        /\ IsFiniteSet(Pending(f)) /\ Cardinality(Pending(f)) \in Nat
        /\ IsFiniteSet(Failed(f)) /\ Cardinality(Failed(f)) \in Nat
    BY SetsAreFinite DEF TopicInv, Fits
  <2>2. Copies(f) = Cardinality(Stored(f)) + Cardinality(Pending(f))
    BY DEF Copies
  <2>3. Copies(f)' = Cardinality(Stored(f)) + Cardinality(Pending(f)')
    BY <1>13 DEF Copies
  <2>4. IsFiniteSet(Pending(f)') /\ Cardinality(Pending(f)') <= Cardinality(Pending(f))
    BY <1>13, <2>1, FS_Subset
  <2>5. Cardinality(Pending(f)') \in Nat
    BY <2>4, FS_CardinalityType
  <2>6. Failed(f)' \subseteq failures'
    BY DEF Failed
  <2>7. IsFiniteSet(Failed(f)')
    BY <1>8, <2>6, FS_Subset
  <2>8. Cardinality(Failed(f)) <= Cardinality(Failed(f)')
    BY <1>13, <2>7, FS_Subset
  <2>9. Cardinality(Failed(f)') \in Nat
    BY <2>7, FS_CardinalityType
  <2>10. ASSUME failure \in failures', f = e
         PROVE  Cardinality(Failed(f)') = Cardinality(Failed(f)) + 1
    <3>1. Failed(f)' = Failed(f) \union {failure} /\ failure \notin Failed(f)
      BY <1>4, <1>6, <1>8, <2>10 DEF Failed
    <3> QED BY <2>1, <3>1, FS_AddElement
  <2>11. Copies(f) \in Nat /\ Copies(f)' \in Nat /\ Copies(f)' <= Copies(f)
    BY <2>1, <2>2, <2>3, <2>4, <2>5
  <2> QED BY <2>1, <2>8, <2>9, <2>10, <2>11
<1>23. CopiesNeedFailures'
  <2>1. ASSUME NEW f \in Known PROVE Copies(f)' <= 1 + Cardinality(Failed(f)')
    <3>1. Copies(f) <= 1 + Cardinality(Failed(f))
      BY DEF TopicInv, Counted, CopiesNeedFailures
    <3> QED BY <1>22, <3>1
  <2>2. ASSUME NEW c \in Caller, NEW f \in Known, Owes(call'[c]), call'[c].event = f
        PROVE  Copies(f)' <= Cardinality(Failed(f)')
    <3>1. CASE Owes(call[c])
      <4>1. Copies(f) <= Cardinality(Failed(f))
        BY <1>9, <2>2, <3>1 DEF TopicInv, Counted, CopiesNeedFailures
      <4> QED BY <1>22, <4>1
    <3>2. CASE ~Owes(call[c])
      <4>1. f = e /\ failure \in failures'
        BY <1>9, <2>2, <3>2 DEF Owes
      <4>2. Copies(f) <= 1 + Cardinality(Failed(f))
        BY DEF TopicInv, Counted, CopiesNeedFailures
      <4> QED BY <1>22, <4>1, <4>2
    <3> QED BY <3>1, <3>2
  <2> QED BY <2>1, <2>2 DEF CopiesNeedFailures
<1>24. MessagesDiffer'
  <2> SUFFICES ASSUME NEW j \in 1 .. Len(queue')
               PROVE  /\ [event |-> queue'[j].event, attempt |-> queue'[j].attempt] \notin failures'
                      /\ \A k \in 1 .. Len(queue') :
                           queue'[j].event = queue'[k].event /\ queue'[j].attempt = queue'[k].attempt => j = k
    BY DEF MessagesDiffer
  <2>1. Was(j) \in 1 .. Len(queue) /\ Was(j) # i /\ queue'[j] = queue[Was(j)]
    BY <1>5
  <2>2. [event |-> queue'[j].event, attempt |-> queue'[j].attempt] \notin failures'
    <3> DEFINE f == [event |-> queue[Was(j)].event, attempt |-> queue[Was(j)].attempt]
    <3>1. f \notin failures
      BY <2>1 DEF TopicInv, Counted, MessagesDiffer
    <3>2. ~(queue[Was(j)].event = e /\ queue[Was(j)].attempt = a)
      BY <1>2, <2>1 DEF TopicInv, Counted, MessagesDiffer, e, a
    <3>3. f.event = queue[Was(j)].event /\ f.attempt = queue[Was(j)].attempt
      OBVIOUS
    <3> HIDE DEF f
    <3>4. f # failure
      BY <1>4, <3>2, <3>3
    <3>5. f \notin failures'
      BY <1>8, <3>1, <3>4
    <3> QED BY <2>1, <3>5 DEF f
  <2>3. ASSUME NEW k \in 1 .. Len(queue'),
               queue'[j].event = queue'[k].event, queue'[j].attempt = queue'[k].attempt
        PROVE  j = k
    <3>1. Was(k) \in 1 .. Len(queue) /\ queue'[k] = queue[Was(k)]
      BY <1>5
    <3>2. Was(j) = Was(k)
      BY <2>1, <2>3, <3>1 DEF TopicInv, Counted, MessagesDiffer
    <3> QED BY <1>5, <3>2
  <2> QED BY <2>2, <2>3
<1>25. AttemptsGrow'
  <2> SUFFICES ASSUME NEW c \in Caller, Busy(c)
               PROVE  /\ \A j \in 1 .. Len(queue') :
                           queue'[j].event = call[c].event => Older(queue'[j].attempt, call'[c])
                      /\ \A f \in failures' : f.event = call[c].event => Older(f.attempt, call'[c])
    BY <1>9, <1>10 DEF AttemptsGrow
  <2>1. \A x : Older(x, call[c]) => Older(x, call'[c])
    BY <1>9 DEF Older
  <2>2. \A j \in 1 .. Len(queue') :
          queue'[j].event = call[c].event => Older(queue'[j].attempt, call'[c])
    BY <1>5, <2>1 DEF TopicInv, Counted, AttemptsGrow
  <2>3. ASSUME NEW f \in failures', f.event = call[c].event
        PROVE  Older(f.attempt, call'[c])
    <3>1. CASE f \in failures
      BY <2>1, <2>3, <3>1 DEF TopicInv, Counted, AttemptsGrow
    <3>2. CASE f = failure
      BY <1>2, <1>4, <2>1, <2>3, <3>2 DEF TopicInv, Counted, AttemptsGrow, e, a
    <3> QED BY <1>8, <3>1, <3>2
  <2> QED BY <2>2, <2>3
<1> QED BY <1>14, <1>15, <1>16, <1>17, <1>18, <1>19, <1>20, <1>21, <1>23, <1>24, <1>25
        DEF TopicInv, Fits, Ordered, Counted

LEMMA NothingHappens ==
  ASSUME Shape, TopicInv, UNCHANGED vars
  PROVE  TopicInv'
<1> DEFINE g == "generator"
           p == call[g]
<1>1. /\ UNCHANGED <<topic, queue, failures, batch, posts, sessions>>
      /\ call' = call /\ generator' = generator /\ schemaKnown' = schemaKnown /\ failures' = failures
      /\ posts' = posts /\ sessions' = sessions
  BY DEF vars
<1>2. g \in Caller /\ p \in Publishes /\ call' = [call EXCEPT ![g] = p]
  BY <1>1 DEF Shape, Caller
<1>3. Numbers'
  BY <1>1 DEF TopicInv, Fits, Numbers, Busy
<1>4. posts <= posts' /\ sessions <= sessions'
  BY <1>1 DEF TopicInv, Fits, Numbers
<1>5. BatchFits' /\ BeforeBatch'
  BY <1>1, <1>3, <1>4, BatchStays DEF Busy
<1>6. p.attempt \in 0 .. MaxAttempts /\ (p.at = "produce" => ~p.failed)
  BY <1>2 DEF TopicInv, Fits, CallFits
<1>7. p.at # "idle" =>
        /\ p.attempt >= 1 /\ Good(p.event) /\ p.event.session \in SessionsOf(g)'
        /\ \A b \in Caller : b # g /\ Busy(b) => call[b].event # p.event
        /\ \A i \in 1 .. Len(queue) : queue[i].event = p.event => Older(queue[i].attempt, p)
        /\ \A f \in failures : f.event = p.event => Older(f.attempt, p)
        /\ \A e \in Known : Seen(e) => Upto(e, p.event)
  <2> SUFFICES ASSUME Busy(g)
               PROVE  /\ p.attempt >= 1 /\ Good(p.event) /\ p.event.session \in SessionsOf(g)'
                      /\ \A b \in Caller : b # g /\ Busy(b) => call[b].event # p.event
                      /\ \A i \in 1 .. Len(queue) : queue[i].event = p.event => Older(queue[i].attempt, p)
                      /\ \A f \in failures : f.event = p.event => Older(f.attempt, p)
                      /\ \A e \in Known : Seen(e) => Upto(e, p.event)
    BY DEF Busy
  <2>1. p.attempt >= 1 /\ Good(p.event) /\ p.event.session \in SessionsOf(g)'
    BY <1>1, <1>2 DEF TopicInv, Fits, CallFits, SessionsOf
  <2>2. \A b \in Caller : b # g /\ Busy(b) => call[b].event # p.event
    BY <1>2 DEF TopicInv, Fits, CallersDiffer
  <2>3. /\ \A i \in 1 .. Len(queue) : queue[i].event = p.event => Older(queue[i].attempt, p)
        /\ \A f \in failures : f.event = p.event => Older(f.attempt, p)
    BY <1>2 DEF TopicInv, Counted, AttemptsGrow
  <2>4. \A e \in Known : Seen(e) => Upto(e, p.event)
    BY DEF TopicInv, Ordered, SeenBeforeGenerator
  <2> QED BY <2>1, <2>2, <2>3, <2>4
<1>8. Owes(p) => Copies(p.event) <= Cardinality(Failed(p.event))
  <2>1. p.event \in Known
    BY <1>2, KnownEvents
  <2> QED BY <1>2, <2>1 DEF TopicInv, Counted, CopiesNeedFailures
<1> HIDE DEF p
<1> QED BY <1>1, <1>2, <1>3, <1>4, <1>5, <1>6, <1>7, <1>8, CallerStep

\* The types, the order and the numbers under every step.
LEMMA StepKeepsCopies == Shape /\ TopicInv /\ [Next]_vars => TopicInv'
<1> SUFFICES ASSUME Shape, TopicInv, [Next]_vars PROVE TopicInv'
  OBVIOUS
<1>1. ASSUME NEW c \in Caller, Run(c) PROVE TopicInv'
  <2>1. CASE EndFlush(c)
    BY <2>1, EndFlushKeepsCopies
  <2>2. CASE Produce(c)
    <3>1. CASE call' = [call EXCEPT ![c] = Retried(@)] /\ UNCHANGED queue
      BY <2>2, <3>1, ProduceFailsKeepsCopies
    <3>2. CASE /\ Encodable(call[c].event) /\ schemaKnown' = TRUE
               /\ queue' = Append(queue, [event |-> call[c].event, attempt |-> call[c].attempt,
                                          stored |-> FALSE])
               /\ call' = [call EXCEPT ![c].at = "flush"]
      BY <2>2, <3>2, ProduceKeepsCopies
    <3> QED BY <2>2, <3>1, <3>2 DEF Produce
  <2> QED BY <1>1, <2>1, <2>2 DEF Run
<1>2. ASSUME NEW i \in DOMAIN queue, Store(i) \/ Report(i) PROVE TopicInv'
  BY <1>2, StoreKeepsCopies, ReportKeepsCopies
<1>3. ASSUME NEW h \in Handler, NEW body \in scenario.bodies, Receive(h, body) PROVE TopicInv'
  BY <1>3, ReceiveKeepsCopies
<1>4. ASSUME NEW h \in Handler, Respond(h) PROVE TopicInv'
  BY <1>4, RespondKeepsCopies
<1>5. ASSUME NEW d \in scenario.draws, WakeUp(d) PROVE TopicInv'
  BY <1>5, WakeUpKeepsCopies
<1>6. CASE GoOn \/ Restart
  BY <1>6, GoOnKeepsCopies, RestartKeepsCopies
<1>7. CASE UNCHANGED vars
  BY <1>7, NothingHappens
<1> QED BY <1>1, <1>2, <1>3, <1>4, <1>5, <1>6, <1>7 DEF Next

LEMMA TypesFit == Shape /\ Fits => TypeOK
<1> SUFFICES ASSUME Shape, Fits PROVE TypeOK
  OBVIOUS
<1>1. scenario \in Scenarios /\ schemaKnown \in BOOLEAN
  BY DEF Shape, Fits, Numbers
<1>2. ASSUME NEW k \in Keys, NEW e \in ToSet(topic[k])
      PROVE  Valid(e) /\ Encodable(e) /\ PartitionKey(e) = k
  <2>1. topic[k] \in Seq(Known)
    BY DEF Shape
  <2>2. PICK i \in 1 .. Len(topic[k]) : e = topic[k][i]
    BY <2>1 DEF ToSet
  <2> QED BY <2>2 DEF Fits, PartitionFits, Good
<1>3. ASSUME NEW c \in Caller
      PROVE  /\ call[c].at \in {"idle", "produce", "flush", "published", "raised"}
             /\ call[c].attempt \in 0 .. MaxAttempts
  <2>1. call[c] \in Publishes
    BY KnownEvents
  <2> QED BY <2>1 DEF Publishes, Fits, CallFits
<1>4. /\ generator \in {"off", "asleep", "publishing", "dead"}
      /\ generator = "publishing" <=> call["generator"].at # "idle"
  BY DEF Fits, Numbers, Busy
<1>5. ASSUME NEW m \in ToSet(queue) PROVE m.stored \in BOOLEAN /\ m.attempt \in 1 .. MaxAttempts
  <2>1. queue \in Seq(Messages)
    BY DEF Shape
  <2>2. PICK i \in 1 .. Len(queue) : m = queue[i]
    BY <2>1 DEF ToSet
  <2>3. m \in Messages
    BY <2>1, <2>2
  <2>4. m.stored \in BOOLEAN
    BY <2>3 DEF Messages
  <2> QED BY <2>2, <2>4 DEF Fits, QueueFits, MessageFits
<1> QED BY <1>1, <1>2, <1>3, <1>4, <1>5 DEF TypeOK

LEMMA OrderFits == Shape /\ Fits /\ Ordered => SessionInOrder
<1> SUFFICES ASSUME Shape, Fits, Ordered,
                    NEW k \in Keys, NEW l \in Keys, NEW i \in DOMAIN topic[k], NEW j \in DOMAIN topic[l],
                    topic[k][i].session = topic[l][j].session, topic[k][i].session > 0
             PROVE  /\ k = l
                    /\ i < j => /\ topic[k][i].time <= topic[k][j].time
                                /\ topic[k][i].progress <= topic[k][j].progress
  BY DEF SessionInOrder
<1>1. i \in 1 .. Len(topic[k]) /\ j \in 1 .. Len(topic[l])
  BY DEF Shape
<1>2. /\ Good(topic[k][i]) /\ PartitionKey(topic[k][i]) = k
      /\ Good(topic[l][j]) /\ PartitionKey(topic[l][j]) = l
  BY <1>1 DEF Fits, PartitionFits
<1>3. k = l
  BY <1>2 DEF Good, PartitionKey
<1> QED BY <1>1, <1>3 DEF Ordered, PartitionOrdered, Upto

LEMMA CopiesFit == IInv /\ TopicInv => DuplicatesNeedFailures
<1> SUFFICES ASSUME IInv, TopicInv, NEW e \in Events
             PROVE  Cardinality(Places(e)) <= 1 + Cardinality({f \in failures : f.event = e})
  BY DEF DuplicatesNeedFailures
<1>1. Shape /\ Numbers
  BY DEF IInv, TopicInv, Fits
<1>2. e \in Known
  <2>1. CASE e \in {call[c].event : c \in Caller}
    BY <1>1, <2>1, KnownEvents
  <2>2. CASE e \in {a.event : a \in answers}
    BY <2>2 DEF IInv, AnsweredIsInTopic
  <2>3. CASE e \in UNION {ToSet(topic[k]) : k \in Keys}
    <3>1. PICK k \in Keys : e \in ToSet(topic[k])
      BY <2>3
    <3>2. topic[k] \in Seq(Known)
      BY <1>1 DEF Shape
    <3> QED BY <3>1, <3>2 DEF ToSet
  <2> QED BY <2>1, <2>2, <2>3 DEF Events
<1>3. /\ IsFiniteSet(Stored(e)) /\ Cardinality(Stored(e)) \in Nat
      /\ Cardinality(Pending(e)) \in Nat /\ Cardinality(Failed(e)) \in Nat
  BY <1>1, <1>2, SetsAreFinite
<1>4. IsFiniteSet(Places(e)) /\ Cardinality(Places(e)) <= Cardinality(Stored(e))
  <2> DEFINE place == [i \in Stored(e) |-> <<PartitionKey(e), i>>]
  <2>1. \A i \in Stored(e) : <<PartitionKey(e), i>> \in Places(e)
    BY <1>1, <1>2, KnownEvents DEF Places, Stored
  <2>2. \A p \in Places(e) : \E i \in Stored(e) : p = <<PartitionKey(e), i>>
    BY DEF Places, Stored
  <2>3. place \in Surjection(Stored(e), Places(e))
    BY <2>1, <2>2 DEF Surjection
  <2> QED BY <1>3, <2>3, FS_Surjection
<1>5. Cardinality(Places(e)) \in Nat
  BY <1>4, FS_CardinalityType
<1>6. Cardinality(Stored(e)) + Cardinality(Pending(e)) <= 1 + Cardinality(Failed(e))
  BY <1>2 DEF TopicInv, Counted, CopiesNeedFailures, Copies
<1>7. Cardinality(Places(e)) <= 1 + Cardinality(Failed(e))
  BY <1>3, <1>4, <1>5, <1>6
<1> QED BY <1>7 DEF Failed

-----------------------------------------------------------------------------
\* The types, the order of the generated sessions and the numbers of copies are
\* kept by every step of the callers, of Kafka and of the callbacks.
THEOREM PublishesInductive == Spec => [](IInv /\ TopicInv)
<1>1. Init => IInv /\ TopicInv
  BY InitEstablishes, InitHasNone
<1>2. IInv /\ TopicInv /\ [Next]_vars => (IInv /\ TopicInv)'
  BY StepPreserves, StepKeepsCopies DEF IInv
<1> QED BY <1>1, <1>2, PTL DEF Spec

\* What reaches the topic has passed the validation of MovieEventIn, fits the
\* Avro schema and is in the partition of its key; tenacity makes no attempt
\* after the last one, and the generator publishes exactly while it is awake.
THEOREM TypeCorrect == Spec => []TypeOK
<1>1. IInv /\ TopicInv => TypeOK
  BY TypesFit DEF IInv, TopicInv
<1> QED BY <1>1, PublishesInductive, PTL

\* build_synthetic_sequence orders the events of a session, generator_loop
\* publishes one when the one before is over, and the idempotent producer keeps
\* the order of a partition: whatever is lost, repeated or left in the queue by
\* a flush that timed out, the topic shows no session going back.
THEOREM SessionsInOrder == Spec => []SessionInOrder
<1>1. IInv /\ TopicInv => SessionInOrder
  BY OrderFits DEF IInv, TopicInv
<1> QED BY <1>1, PublishesInductive, PTL

\* Each copy of an event in the topic, but one, is owed to an attempt whose
\* delivery was reported as failed: publish makes another attempt only for the
\* error of its own, or when nothing was produced (kafka_client.py).
THEOREM DuplicatesCounted == Spec => []DuplicatesNeedFailures
<1>1. IInv /\ TopicInv => DuplicatesNeedFailures
  BY CopiesFit
<1> QED BY <1>1, PublishesInductive, PTL
=============================================================================
