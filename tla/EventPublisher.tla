--------------------------- MODULE EventPublisher ---------------------------
(***************************************************************************)
(* producer-service of the cinema analytics: the handlers of POST /events  *)
(* (main.py) and the generator of synthetic sessions (generator.py)        *)
(* publish events through one shared Kafka producer (kafka_client.py,      *)
(* schema_registry.py).                                                    *)
(*                                                                         *)
(* A publish queues its event and flushes.  The flush waits for the events *)
(* of every caller, and for ten seconds at most; the callbacks that say    *)
(* what has become of an event are run by whoever is flushing.             *)
(***************************************************************************)
EXTENDS Integers, Sequences, FiniteSets, SequencesExt

CONSTANTS
  Handler,       \* threads that serve POST /events
  MaxAttempts,   \* attempts of publish (5)
  KeyIsMovie,    \* PRODUCER_PARTITION_KEY is movie_id and not user_id
  MaxProgress,   \* the largest int of the Avro schema (2^31 - 1)
  Scenarios      \* the bodies that are posted, the random draws of the generator, what may
                 \* fail, and bounds: posts, sessions, restarts

Faults == {"registry", "produce", "delivery", "timeout"}

\* The ranges of the generator's random numbers.
Draw == [finish : 3600 .. 8000, pause : 120 .. 1800, resume : 60 .. 900,
         pauseAgain : 90 .. 1200, resumeAgain : 30 .. 600, gap : 20 .. 180, like : 15 .. 180,
         paused : BOOLEAN, pausedAgain : BOOLEAN, finished : BOOLEAN,
         liked : BOOLEAN, searched : BOOLEAN]

\* A body as it is parsed; the session 0 is none of the generator's.
Body == [user : STRING, movie : STRING, type : STRING, progress : Int, query : BOOLEAN,
         time : Int, session : {0}]

ASSUME PublisherAssumption ==
  /\ "generator" \notin Handler /\ KeyIsMovie \in BOOLEAN
  /\ MaxAttempts \in Nat \ {0} /\ MaxProgress \in Nat /\ MaxProgress >= 8000
  /\ \A s \in Scenarios :
       /\ s.bodies \subseteq Body
       /\ s.draws \subseteq Draw /\ s.faults \subseteq Faults
       /\ s.posts \in Nat /\ s.sessions \in Nat /\ s.restarts \in Nat

Caller == {"generator"} \union Handler

VARIABLES
  scenario,    \* the member of Scenarios this behaviour is about, constant
  schemaKnown, \* latest_schema has been fetched
  queue,       \* the events produced of which no callback has told yet
  topic,       \* the partitions: for a key, the events in their order
  call,        \* the publish each caller is in
  generator,   \* generator_loop
  batch,       \* the events of the session it has yet to publish
  posts, sessions, restarts,   \* how many there have been
  answers,     \* history: what callers were told
  failures     \* history: the attempts whose delivery has failed

vars == <<scenario, schemaKnown, queue, topic, call, generator, batch, posts, sessions,
          restarts, answers, failures>>

May(fault) == fault \in scenario.faults

-----------------------------------------------------------------------------
(* Events *)

None == -1   \* no progress_seconds

Watching == {"VIEW_STARTED", "VIEW_PAUSED", "VIEW_RESUMED", "VIEW_FINISHED"}

\* MovieEventIn; anything else is answered 422.
Valid(e) ==
  /\ e.user # "" /\ e.movie # ""
  /\ e.progress = None \/ e.progress >= 0
  /\ e.type \in Watching => e.progress # None
  /\ e.type = "SEARCHED" => e.query

\* schemaless_writer finds a branch of ["null", "int"] for progress_seconds.
Encodable(e) == e.progress <= MaxProgress

PartitionKey(e) == IF KeyIsMovie THEN e.movie ELSE e.user

Lesser(a, b) == IF a < b THEN a ELSE b
ResumeAt(d) == Lesser(d.finish - 60, d.pause + d.resume)
PauseAgainAt(d) == Lesser(d.finish - 30, ResumeAt(d) + d.pauseAgain)
ResumeAgainAt(d) == Lesser(d.finish - 10, PauseAgainAt(d) + d.resumeAgain)

Views(d) ==
  LET If(c, steps) == IF c THEN steps ELSE <<>> IN
  <<<<"VIEW_STARTED", 0>>>>
  \o If(d.paused, <<<<"VIEW_PAUSED", d.pause>>, <<"VIEW_RESUMED", ResumeAt(d)>>>>)
  \o If(d.pausedAgain, <<<<"VIEW_PAUSED", PauseAgainAt(d)>>, <<"VIEW_RESUMED", ResumeAgainAt(d)>>>>)
  \o If(d.finished, <<<<"VIEW_FINISHED", d.finish>>>>)

\* A session of one user with one movie; its number is its session_id, and with
\* a position in it an event_id.
Event(session, type, progress, time) ==
  [user |-> "user-1", movie |-> "movie-1", type |-> type, progress |-> progress,
   query |-> type = "SEARCHED", time |-> time, session |-> session]
Viewed(d, n) ==
  [i \in 1 .. Len(Views(d)) |-> Event(n, Views(d)[i][1], Views(d)[i][2], (i - 1) * d.gap)]
Liked(d, n) ==
  LET last == Last(Viewed(d, n)) IN
  IF d.liked THEN <<Event(n, "LIKED", last.progress, last.time + d.gap + d.like)>> ELSE <<>>
Searched(d, n) == IF d.searched THEN <<Event(n, "SEARCHED", 0, -30)>> ELSE <<>>

\* Mutant of SyntheticSequence: the search is appended.
SyntheticSequenceUnsorted(d, n) == Viewed(d, n) \o Liked(d, n) \o Searched(d, n)
\* build_synthetic_sequence
SyntheticSequence(d, n) == Searched(d, n) \o Viewed(d, n) \o Liked(d, n)

-----------------------------------------------------------------------------
Keys == {PartitionKey(b) : b \in UNION {s.bodies : s \in Scenarios}} \union {"user-1", "movie-1"}
NoEvent == Event(0, "none", None, 0)
Idle == [at |-> "idle", event |-> NoEvent, attempt |-> 0, failed |-> FALSE, timedOut |-> FALSE]
Publish(event) ==
  [at |-> "produce", event |-> event, attempt |-> 1, failed |-> FALSE, timedOut |-> FALSE]

Init ==
  /\ scenario \in Scenarios
  /\ schemaKnown = FALSE /\ queue = <<>> /\ topic = [k \in Keys |-> <<>>]
  /\ call = [c \in Caller |-> Idle]
  /\ generator = IF scenario.sessions > 0 THEN "asleep" ELSE "off"
  /\ batch = <<>>
  /\ posts = 0 /\ sessions = 0 /\ restarts = 0
  /\ answers = {} /\ failures = {}

\* Mutants of Retried: one attempt too many; the attempts are not counted.
RetriedOnceMore(p) ==
  IF p.attempt <= MaxAttempts
  THEN [p EXCEPT !.at = "produce", !.attempt = @ + 1, !.failed = FALSE, !.timedOut = FALSE]
  ELSE [p EXCEPT !.at = "raised"]
RetriedForEver(p) == [p EXCEPT !.at = "produce", !.failed = FALSE, !.timedOut = FALSE]
\* An attempt has raised: tenacity waits and starts another one, or raises.
Retried(p) ==
  IF p.attempt < MaxAttempts
  THEN [p EXCEPT !.at = "produce", !.attempt = @ + 1, !.failed = FALSE, !.timedOut = FALSE]
  ELSE [p EXCEPT !.at = "raised"]

\* Encode and produce.  The registry is asked until it has once answered; the
\* queue of the producer may be full; what cannot be encoded never can.
Produce(c) ==
  LET e == call[c].event IN
  /\ call[c].at = "produce"
  /\ \/ /\ Encodable(e)
        /\ schemaKnown' = TRUE
        /\ queue' = Append(queue, [event |-> e, attempt |-> call[c].attempt, stored |-> FALSE])
        /\ call' = [call EXCEPT ![c].at = "flush"]
     \/ /\ May("registry") /\ ~schemaKnown
        /\ call' = [call EXCEPT ![c] = Retried(@)]
        /\ UNCHANGED <<schemaKnown, queue>>
     \/ /\ May("produce") \/ ~Encodable(e)
        /\ schemaKnown' = TRUE
        /\ call' = [call EXCEPT ![c] = Retried(@)]
        /\ UNCHANGED queue
  /\ UNCHANGED <<scenario, topic, generator, batch, posts, sessions, restarts, answers, failures>>

\* Mutants of Flushed: the callback's error is ignored; a flush that times out
\* counts as a failure.
FlushedAnyhow(p) == [p EXCEPT !.at = "published", !.timedOut = queue # <<>>]
FlushedStrictly(p) == IF p.failed \/ queue # <<>> THEN Retried(p) ELSE [p EXCEPT !.at = "published"]
\* What publish does after flush: it looks at the callback's error, not at how
\* many events flush has left in the queue.
Flushed(p) == IF p.failed THEN Retried(p) ELSE [p EXCEPT !.at = "published", !.timedOut = queue # <<>>]

\* flush returns when the queue is empty, or after ten seconds.
EndFlush(c) ==
  /\ call[c].at = "flush" /\ (queue = <<>> \/ May("timeout"))
  /\ call' = [call EXCEPT ![c] = Flushed(@)]
  /\ UNCHANGED <<scenario, schemaKnown, queue, topic, generator, batch, posts, sessions,
                 restarts, answers, failures>>

-----------------------------------------------------------------------------
(* Kafka.  The idempotent producer keeps the order of a partition and does   *)
(* not store one message twice; another attempt is another message.          *)

Store(i) ==
  LET e == queue[i].event IN
  /\ ~queue[i].stored
  /\ \A j \in 1 .. i - 1 : PartitionKey(queue[j].event) = PartitionKey(e) => queue[j].stored
  /\ topic' = [topic EXCEPT ![PartitionKey(e)] = Append(@, e)]
  /\ queue' = [queue EXCEPT ![i].stored = TRUE]
  /\ UNCHANGED <<scenario, schemaKnown, call, generator, batch, posts, sessions, restarts,
                 answers, failures>>

\* The callback of an event, run by a caller that flushes.  A message that has
\* failed (message.timeout.ms) may have been stored.  Its error reaches a
\* publish that still waits for it.
Report(i) ==
  LET sent == queue[i] IN
  /\ \E c \in Caller : call[c].at = "flush"
  /\ queue' = RemoveAt(queue, i)
  /\ \/ sent.stored /\ UNCHANGED <<call, failures>>
     \/ /\ May("delivery")
        /\ failures' = failures \union {[event |-> sent.event, attempt |-> sent.attempt]}
        /\ call' = [c \in Caller |->
             IF call[c].at = "flush" /\ call[c].event = sent.event /\ call[c].attempt = sent.attempt
             THEN [call[c] EXCEPT !.failed = TRUE] ELSE call[c]]
  /\ UNCHANGED <<scenario, schemaKnown, topic, generator, batch, posts, sessions, restarts, answers>>

-----------------------------------------------------------------------------
(* Callers.  generator_loop runs in the event loop and does not yield while  *)
(* it publishes: no request is taken or answered meanwhile.                  *)

LoopFree == generator # "publishing"

\* POST /events: the event_id makes equal bodies different events.
Receive(h, body) ==
  /\ LoopFree /\ call[h].at = "idle" /\ posts < scenario.posts
  /\ posts' = posts + 1
  /\ \/ Valid(body) /\ call' = [call EXCEPT ![h] = Publish([body EXCEPT !.session = -posts'])]
     \/ ~Valid(body) /\ UNCHANGED call
  /\ UNCHANGED <<scenario, schemaKnown, queue, topic, generator, batch, sessions, restarts,
                 answers, failures>>

Told(c) == answers \union {[event |-> call[c].event, published |-> call[c].at = "published",
                            timedOut |-> call[c].timedOut]}

\* 200, or 502 if publish has raised.
Respond(h) ==
  /\ LoopFree /\ call[h].at \in {"published", "raised"}
  /\ answers' = Told(h)
  /\ call' = [call EXCEPT ![h] = Idle]
  /\ UNCHANGED <<scenario, schemaKnown, queue, topic, generator, batch, posts, sessions,
                 restarts, failures>>

WakeUp(d) ==
  /\ generator = "asleep" /\ sessions < scenario.sessions
  /\ sessions' = sessions + 1
  /\ LET events == SyntheticSequence(d, sessions') IN
       /\ call' = [call EXCEPT !["generator"] = Publish(Head(events))]
       /\ batch' = Tail(events)
  /\ generator' = "publishing"
  /\ UNCHANGED <<scenario, schemaKnown, queue, topic, posts, restarts, answers, failures>>

\* The next event of the session, or sleep; the first exception ends the task.
GoOn ==
  /\ \/ /\ call["generator"].at = "published" /\ batch # <<>>
        /\ call' = [call EXCEPT !["generator"] = Publish(Head(batch))]
        /\ batch' = Tail(batch) /\ UNCHANGED generator
     \/ /\ call["generator"].at = "published" /\ batch = <<>>
        /\ call' = [call EXCEPT !["generator"] = Idle]
        /\ generator' = "asleep" /\ UNCHANGED batch
     \/ /\ call["generator"].at = "raised"
        /\ call' = [call EXCEPT !["generator"] = Idle]
        /\ generator' = "dead" /\ batch' = <<>>
  /\ answers' = Told("generator")
  /\ UNCHANGED <<scenario, schemaKnown, queue, topic, posts, sessions, restarts, failures>>

\* The process ends, with its queue, and is started again.
Restart ==
  /\ restarts < scenario.restarts
  /\ restarts' = restarts + 1
  /\ schemaKnown' = FALSE /\ queue' = <<>> /\ call' = [c \in Caller |-> Idle] /\ batch' = <<>>
  /\ generator' = IF scenario.sessions > 0 THEN "asleep" ELSE "off"
  /\ UNCHANGED <<scenario, topic, posts, sessions, answers, failures>>

-----------------------------------------------------------------------------
Run(c) == Produce(c) \/ EndFlush(c)

Next ==
  \/ \E c \in Caller : Run(c)
  \/ \E i \in DOMAIN queue : Store(i) \/ Report(i)
  \/ \E h \in Handler, body \in scenario.bodies : Receive(h, body)
  \/ \E h \in Handler : Respond(h)
  \/ \E d \in scenario.draws : WakeUp(d)
  \/ GoOn \/ Restart

Spec == Init /\ [][Next]_vars

\* Threads run, flush returns, and a ready coroutine gets its turn whenever the
\* generator sleeps.  Kafka may be down for ever only if flush can time out.
FairSpec ==
  /\ Spec
  /\ \A c \in Caller : WF_vars(Run(c))
  /\ \A h \in Handler : SF_vars(Respond(h))
  /\ WF_vars(GoOn)
  /\ WF_vars(~May("timeout") /\ \E i \in DOMAIN queue : Store(i) \/ Report(i))
-----------------------------------------------------------------------------
(* Properties *)

Events == {call[c].event : c \in Caller} \union {a.event : a \in answers}
            \union UNION {ToSet(topic[k]) : k \in Keys}
Places(e) == {p \in {<<k, i>> : k \in Keys, i \in 1 .. Len(topic[PartitionKey(e)])} :
                p[1] = PartitionKey(e) /\ topic[p[1]][p[2]] = e}

\* Every variable has its type; what reaches the topic has passed validation,
\* is in the partition of its key, and no publish makes more than MaxAttempts.
TypeOK ==
  /\ scenario \in Scenarios /\ schemaKnown \in BOOLEAN
  /\ \A k \in Keys : \A e \in ToSet(topic[k]) : Valid(e) /\ Encodable(e) /\ PartitionKey(e) = k
  /\ \A c \in Caller :
       /\ call[c].at \in {"idle", "produce", "flush", "published", "raised"}
       /\ call[c].attempt \in 0 .. MaxAttempts
  /\ generator \in {"off", "asleep", "publishing", "dead"}
  /\ generator = "publishing" <=> call["generator"].at # "idle"
  /\ \A m \in ToSet(queue) : m.stored \in BOOLEAN /\ m.attempt \in 1 .. MaxAttempts

\* An event that was acknowledged without its flush having timed out is in the
\* topic, although the error of its callback may have been handed over by the
\* thread of another request, and other events, failures and restarts came between.
AcknowledgedIsStored ==
  \A a \in answers : a.published /\ ~a.timedOut => Places(a.event) # {}

\* An event is in the topic once, and once more for each attempt whose delivery
\* has been reported as failed; flushes that time out do not duplicate it.
DuplicatesNeedFailures ==
  \A e \in Events :
    Cardinality(Places(e)) <= 1 + Cardinality({f \in failures : f.event = e})

\* The events of a generated session are in one partition, in the order of
\* their timestamps and with progress_seconds that never goes back, whatever is
\* lost or duplicated on the way.
SessionInOrder ==
  \A k, l \in Keys : \A i \in DOMAIN topic[k], j \in DOMAIN topic[l] :
    topic[k][i].session = topic[l][j].session /\ topic[k][i].session > 0 =>
      /\ k = l
      /\ i < j => topic[k][i].time <= topic[k][j].time /\ topic[k][i].progress <= topic[k][j].progress

\* A publish ends, and a request is answered, even if Kafka or the registry
\* never answers and the generator keeps the event loop.
PublishEnds == \A c \in Caller : call[c].at # "idle" ~> call[c].at = "idle"

\* A posted event that was acknowledged is in the topic or still on its way, as
\* long as the process lives.
AcknowledgedIsKept ==
  \A a \in answers : a.published /\ a.event.session < 0 =>
    Places(a.event) # {} \/ (\E m \in ToSet(queue) : m.event = a.event) \/ restarts > 0
=============================================================================
