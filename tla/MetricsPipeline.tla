-------------------------- MODULE MetricsPipeline --------------------------
(***************************************************************************)
(* aggregation-service of the cinema analytics: runs that rewrite the      *)
(* aggregate tables of ClickHouse for a date and copy them to PostgreSQL   *)
(* (aggregation.py, repository.py), exports of PostgreSQL to S3            *)
(* (exporter.py), and who starts them (scheduler.py, main.py).             *)
(*                                                                         *)
(* No transaction spans the statements of a run.  A run started by POST    *)
(* goes on beside the scheduled one, while movie_events keeps growing, and *)
(* any statement may fail.                                                 *)
(***************************************************************************)
EXTENDS Integers, Sequences, FiniteSets, FiniteSetsExt

CONSTANTS
  Post,         \* handlers of POST /aggregate running at one time
  PostExport,   \* handlers of POST /export running at one time
  TopSize,      \* movies in the top list (10)
  LateDay,      \* the later day of retention and the last one of a cohort (7)
  MaxTries,     \* attempts of upsert_metrics and of export_for_date (5)
  MaxPosts,     \* bound: POST requests
  Scenarios     \* the tables, events, runs and exports a behaviour is about, and its
                \* bounds: days, rows of movie_events, failing statements and
                \* restarts, seconds that pass

Table == {"dau", "avg", "top", "conversion", "retention", "device", "cohorts"}

\* aggregate_for_date rewrites the tables in one order, _build_metric_payload
\* reads them in another, and does not read the cohorts.
RewriteRank == [dau |-> 1, avg |-> 2, top |-> 3, conversion |-> 4,
                retention |-> 5, device |-> 6, cohorts |-> 7]
ReadRank == [dau |-> 1, avg |-> 2, conversion |-> 3, retention |-> 4, top |-> 5, device |-> 6]
Readable == Table \ {"cohorts"}

ASSUME MetricsAssumption ==
  /\ "schedule" \notin Post \union PostExport
  /\ TopSize \in Nat \ {0} /\ LateDay \in 1 .. 255 /\ MaxTries \in Nat \ {0}
  /\ MaxPosts \in Nat
  /\ \A s \in Scenarios :
       /\ s.tables \subseteq Table /\ s.tables # {}
       /\ s.runs \subseteq {"schedule"} \union Post
       /\ s.exporters \subseteq {"schedule"} \union PostExport
       /\ s.lastDay \in Nat \ {0} /\ s.arrivals \in Nat /\ s.failures \in Nat /\ s.seconds \in Nat
       /\ \A event \in s.events : event.day \in Nat /\ event.progress \in Int /\ event.movie \in Int

Run == {"schedule"} \union Post
Exporter == {"schedule"} \union PostExport

VARIABLES
  scenario,   \* the member of Scenarios this behaviour is about, constant
  raw,        \* movie_events, in the order of arrival
  arrived,    \* history: the date on which each event of raw was stored
  today,      \* the current date
  clock,      \* the current second
  rows,       \* the aggregate tables: what SELECT ... FINAL finds for a date
  metrics,    \* daily_metrics, for a date
  object,     \* the exported CSV file of a date
  phase, todo, target, computedAt, payload, tries,  \* a run of aggregate_for_date
  place, source, snapshot, retries,                 \* a run of export_for_date
  posts, failures,    \* bounds: how many there have been
  late,       \* history: the dates POST /aggregate has been called for, or that
              \* a scheduled run was still computing two days after them
  started, alone      \* history: the events present when a run began, and
                      \* whether no other run of its date has been beside it

runVars == <<phase, todo, target, computedAt, payload, tries, started, alone>>
exportVars == <<place, source, snapshot, retries>>
environment == <<scenario, raw, arrived, today, clock>>
bounds == <<posts, failures, late>>
vars == <<environment, rows, metrics, object, runVars, exportVars, bounds>>

Date == 1 .. scenario.lastDay
NoObject == [exported |-> FALSE]
Object(cells) == [exported |-> TRUE, cells |-> cells]   \* no cells: the NO_DATA row

Each(v) == [r \in Run |-> v]
Every(v) == [e \in Exporter |-> v]

Init ==
  /\ scenario \in Scenarios
  /\ raw = <<>> /\ arrived = <<>> /\ today = 1 /\ clock = 0
  /\ rows = [t \in scenario.tables |-> [d \in Date |-> {}]]
  /\ metrics = [d \in Date |-> {}]
  /\ object = [d \in Date |-> NoObject]
  /\ phase = Each("idle") /\ todo = Each({}) /\ target = Each(1) /\ computedAt = Each(0)
  /\ payload = Each({}) /\ tries = Each(0) /\ started = Each(0) /\ alone = Each(TRUE)
  /\ place = Every("idle") /\ source = Every(1) /\ snapshot = Every({}) /\ retries = Every(0)
  /\ posts = 0 /\ failures = 0 /\ late = {}

-----------------------------------------------------------------------------
(* The SELECT of each INSERT.  A quotient is kept as numerator and          *)
(* denominator; an average of nothing, or by nothing, is 0.                 *)

Watching == {"VIEW_STARTED", "VIEW_FINISHED", "VIEW_PAUSED", "VIEW_RESUMED"}
On(d) == {i \in DOMAIN raw : raw[i].day = d}
Typed(d, type) == {i \in On(d) : raw[i].type = type}
Ratio(a, b) == IF b = 0 THEN <<0, 1>> ELSE <<a, b>>
Single(value) == {[key |-> <<>>, value |-> value]}

DauRows(d) == Single(Cardinality({raw[i].user : i \in On(d)}))

AvgRows(d) ==
  LET seen == {i \in Typed(d, "VIEW_FINISHED") : raw[i].progress >= 0} IN
  Single(Ratio(MapThenSumSet(LAMBDA i : raw[i].progress, seen), Cardinality(seen)))

Views(d, m) == Cardinality({i \in Typed(d, "VIEW_FINISHED") : raw[i].movie = m})
Rank(d, m, movies) ==
  1 + Cardinality({n \in movies : Views(d, n) > Views(d, m)
                                    \/ (Views(d, n) = Views(d, m) /\ n < m)})
\* Mutant of TopRows: the views of every date.
TopRowsOfAllDays(d) ==
  LET movies == {raw[i].movie : i \in DOMAIN raw}
      AllViews(m) == Cardinality({i \in DOMAIN raw : raw[i].type = "VIEW_FINISHED" /\ raw[i].movie = m})
  IN {[key |-> <<Rank(d, m, movies), m>>, value |-> AllViews(m)] :
        m \in {n \in movies : Rank(d, n, movies) <= TopSize}}
TopRows(d) ==
  LET movies == {raw[i].movie : i \in On(d)} IN
  {[key |-> <<Rank(d, m, movies), m>>, value |-> Views(d, m)] :
     m \in {n \in movies : Rank(d, n, movies) <= TopSize}}

ConversionRows(d) ==
  LET s == Cardinality(Typed(d, "VIEW_STARTED"))
      f == Cardinality(Typed(d, "VIEW_FINISHED"))
  IN Single([started |-> s, finished |-> f, rate |-> Ratio(f, s)])

\* first_watch: the first date of a user, and the users of a first date.
Watched(u) == {raw[i].day : i \in {j \in DOMAIN raw : raw[j].user = u /\ raw[j].type \in Watching}}
Cohort(d) ==
  {u \in {raw[i].user : i \in DOMAIN raw} : Watched(u) # {} /\ Min(Watched(u)) = d}

\* Mutant of RetentionRows: the average over a cohort that may be empty.
RetentionRowsUnguarded(d) ==
  LET back(n) == <<Cardinality({u \in Cohort(d) : d + n \in Watched(u)}), Cardinality(Cohort(d))>>
  IN Single([d1 |-> back(1), d7 |-> back(LateDay)])
RetentionRows(d) ==
  LET back(n) == Ratio(Cardinality({u \in Cohort(d) : d + n \in Watched(u)}), Cardinality(Cohort(d)))
  IN Single([d1 |-> back(1), d7 |-> back(LateDay)])

DeviceRows(d) ==
  {[key |-> v, value |-> Cardinality({i \in On(d) : raw[i].device = v})] :
     v \in {raw[i].device : i \in On(d)}}

\* toUInt8(lifecycle_day) AS lifecycle_day: WHERE and GROUP BY take the alias, so a
\* view of 256 days after the first one counts as one of the first day.
toUInt8(n) == n % 256
CohortRows(d) ==
  LET size == Cardinality(Cohort(d))
      users(l) == {u \in Cohort(d) : \E w \in Watched(u) : toUInt8(w - d) = l}
  IN {[key |-> l, value |-> [users |-> Cardinality(users(l)), size |-> size,
                             rate |-> Ratio(Cardinality(users(l)), size)]] :
        l \in {n \in 0 .. LateDay : users(n) # {}}}

Selected(t, d) ==
  CASE t = "dau" -> DauRows(d)
    [] t = "avg" -> AvgRows(d)
    [] t = "top" -> TopRows(d)
    [] t = "conversion" -> ConversionRows(d)
    [] t = "retention" -> RetentionRows(d)
    [] t = "device" -> DeviceRows(d)
    [] t = "cohorts" -> CohortRows(d)

\* A row as it is inserted: computed_at is its version for ReplacingMergeTree;
\* seen (history) is the number of events the SELECT has found.
Block(t, d, at) ==
  {[key |-> s.key, value |-> s.value, at |-> at, seen |-> Len(raw)] : s \in Selected(t, d)}

\* FINAL: of the rows of one key the one computed last stays, of equals the one
\* inserted last.
Merged(old, new) ==
  {o \in old : \A n \in new : n.key # o.key \/ o.at > n.at}
  \union {n \in new : \A o \in old : o.key # n.key \/ o.at <= n.at}

\* What _build_metric_payload makes of a table.  The statements of
\* upsert_metrics run one after the other, so of a movie listed under two ranks
\* the later stays.
Cell(name, dim, value, row) == [name |-> name, dim |-> dim, value |-> value, seen |-> row.seen]
Float(n) == <<n, 1>>
Cells(t, found) ==
  CASE t = "dau" -> {Cell("DAU", <<>>, Float(r.value), r) : r \in found}
    [] t = "avg" -> {Cell("AVG_WATCH_SECONDS", <<>>, r.value, r) : r \in found}
    [] t = "conversion" ->
         {Cell("VIEW_STARTED", <<>>, Float(r.value.started), r) : r \in found}
         \union {Cell("VIEW_FINISHED", <<>>, Float(r.value.finished), r) : r \in found}
         \union {Cell("CONVERSION_RATE", <<>>, r.value.rate, r) : r \in found}
    [] t = "retention" ->
         {Cell("RETENTION_D1", <<>>, r.value.d1, r) : r \in found}
         \union {Cell("RETENTION_D7", <<>>, r.value.d7, r) : r \in found}
    [] t = "top" ->
         {Cell("TOP_MOVIE_VIEWS", <<r.key[2]>>, Float(r.value), r) :
            r \in {s \in found : \A o \in found : o.key[2] = s.key[2] => o.key[1] <= s.key[1]}}
    [] t = "device" -> {Cell("DEVICE_EVENTS", <<r.key>>, Float(r.value), r) : r \in found}

SameKey(a, b) == a.name = b.name /\ a.dim = b.dim

\* Mutant of Upserted: ON CONFLICT DO NOTHING.
UpsertedOnce(old, new) == old \union {n \in new : \A o \in old : ~SameKey(o, n)}
\* INSERT ... ON CONFLICT DO UPDATE of every row; nothing is deleted.
Upserted(old, new) == {o \in old : \A n \in new : ~SameKey(o, n)} \union new

-----------------------------------------------------------------------------
(* aggregate_for_date *)

First(ranks, tables) == CHOOSE t \in tables : \A u \in tables : ranks[t] <= ranks[u]

Beside(r, d) == {o \in Run \ {r} : phase[o] # "idle" /\ target[o] = d}

Begin(r, d) ==
  /\ phase[r] = "idle"
  /\ phase' = [phase EXCEPT ![r] = "delete"]
  /\ todo' = [todo EXCEPT ![r] = scenario.tables]
  /\ target' = [target EXCEPT ![r] = d]
  /\ computedAt' = [computedAt EXCEPT ![r] = clock]
  /\ payload' = [payload EXCEPT ![r] = {}]
  /\ tries' = [tries EXCEPT ![r] = 0]
  /\ started' = [started EXCEPT ![r] = Len(raw)]
  /\ alone' = [o \in Run |-> IF o = r THEN Beside(r, d) = {} ELSE alone[o] /\ o \notin Beside(r, d)]
  /\ UNCHANGED <<environment, rows, metrics, object, exportVars, failures>>

\* Mutant of ScheduledDate: the job catches up with a day it has done before.
DayBeforeYesterday == IF today > 2 THEN today - 2 ELSE today - 1
ScheduledDate == today - 1

\* aggregate_latest; the scheduler runs one instance of a job at a time.
BeginScheduled ==
  /\ "schedule" \in scenario.runs
  /\ ScheduledDate \in Date
  /\ Begin("schedule", ScheduledDate)
  /\ UNCHANGED <<posts, late>>

\* POST /aggregate, for any date.
BeginPosted(r, d) ==
  /\ r \in Post \intersect scenario.runs /\ posts < MaxPosts
  /\ posts' = posts + 1
  /\ late' = late \union {d}
  /\ Begin(r, d)

Continue(r, next, tables) ==
  /\ phase' = [phase EXCEPT ![r] = next]
  /\ todo' = [todo EXCEPT ![r] = tables]
  /\ UNCHANGED <<target, computedAt, started, alone>>

End(r) ==
  /\ phase' = [phase EXCEPT ![r] = "idle"]
  /\ todo' = [todo EXCEPT ![r] = {}]
  /\ target' = [target EXCEPT ![r] = 1]
  /\ computedAt' = [computedAt EXCEPT ![r] = 0]
  /\ payload' = [payload EXCEPT ![r] = {}]
  /\ tries' = [tries EXCEPT ![r] = 0]
  /\ started' = [started EXCEPT ![r] = 0]
  /\ alone' = [alone EXCEPT ![r] = TRUE]

\* A statement has failed: the exception ends the run.
Fail == failures < scenario.failures /\ failures' = failures + 1

Current(r) == First(RewriteRank, todo[r])
Change(r, new) == rows' = [rows EXCEPT ![Current(r)][target[r]] = new]

\* Mutant of DeleteRows: ReplacingMergeTree is left to replace the old rows.
DeleteNoRows(r) ==
  /\ phase[r] = "delete"
  /\ Continue(r, "insert", todo[r])
  /\ UNCHANGED <<environment, rows, metrics, object, payload, tries, exportVars, bounds>>

\* The DELETE of _rewrite_...; it fails, done or not.
DeleteRows(r) ==
  /\ phase[r] = "delete"
  /\ \/ /\ Change(r, {})
        /\ Continue(r, "insert", todo[r])
        /\ UNCHANGED <<payload, tries, failures>>
     \/ Fail /\ End(r) /\ (Change(r, {}) \/ UNCHANGED rows)
  /\ UNCHANGED <<environment, metrics, object, exportVars, posts, late>>

\* The INSERT ... SELECT of _rewrite_...; after the last table the payload is
\* built.  It fails, done or not.
InsertRows(r) ==
  LET t == Current(r)
      d == target[r]
      left == todo[r] \ {t}
      readable == scenario.tables \intersect Readable
      Insert == Change(r, Merged(rows[t][d], Block(t, d, computedAt[r])))
  IN
  /\ phase[r] = "insert"
  /\ \/ /\ Insert
        /\ \/ left # {} /\ Continue(r, "delete", left)
           \/ left = {} /\ Continue(r, IF readable = {} THEN "upsert" ELSE "read", readable)
        /\ UNCHANGED <<payload, tries, failures>>
     \/ Fail /\ End(r) /\ (Insert \/ UNCHANGED rows)
  /\ UNCHANGED <<environment, metrics, object, exportVars, posts, late>>

\* One SELECT of _build_metric_payload; no rows, no metric.
ReadTable(r) ==
  LET t == First(ReadRank, todo[r])
      left == todo[r] \ {t}
  IN
  /\ phase[r] = "read"
  /\ \/ /\ payload' = [payload EXCEPT ![r] = Upserted(@, Cells(t, rows[t][target[r]]))]
        /\ Continue(r, IF left = {} THEN "upsert" ELSE "read", left)
        /\ UNCHANGED <<tries, failures>>
     \/ Fail /\ End(r)
  /\ UNCHANGED <<environment, rows, metrics, object, exportVars, posts, late>>

\* An attempt of upsert_metrics has failed: another one, or the exception.
RetryOrFail(r) ==
  /\ Fail
  /\ \/ /\ tries[r] + 1 < MaxTries
        /\ tries' = [tries EXCEPT ![r] = @ + 1]
        /\ UNCHANGED <<phase, todo, target, computedAt, payload, started, alone>>
     \/ tries[r] + 1 = MaxTries /\ End(r)

\* Mutant of Upsert: each statement commits on its own.
UpsertInParts(r) ==
  LET Store(cells) == metrics' = [metrics EXCEPT ![target[r]] = Upserted(@, cells)] IN
  /\ phase[r] = "upsert"
  /\ \/ Store(payload[r]) /\ End(r) /\ UNCHANGED failures
     \/ RetryOrFail(r) /\ \E some \in SUBSET payload[r] : Store(some)
  /\ UNCHANGED <<environment, rows, object, exportVars, posts, late>>

\* upsert_metrics: one transaction, whose COMMIT may fail and have happened; an
\* empty payload is not sent.
Upsert(r) ==
  LET Store == metrics' = [metrics EXCEPT ![target[r]] = Upserted(@, payload[r])] IN
  /\ phase[r] = "upsert"
  /\ \/ Store /\ End(r) /\ UNCHANGED failures
     \/ payload[r] # {} /\ RetryOrFail(r) /\ (Store \/ UNCHANGED metrics)
  /\ UNCHANGED <<environment, rows, object, exportVars, posts, late>>

-----------------------------------------------------------------------------
(* export_for_date *)

BeginExport(e, d) ==
  /\ place[e] = "idle"
  /\ place' = [place EXCEPT ![e] = "fetch"]
  /\ source' = [source EXCEPT ![e] = d]
  /\ UNCHANGED <<environment, rows, metrics, object, runVars, snapshot, retries, failures, late>>

BeginScheduledExport ==
  /\ "schedule" \in scenario.exporters
  /\ ScheduledDate \in Date
  /\ BeginExport("schedule", ScheduledDate)
  /\ UNCHANGED posts

BeginPostedExport(e, d) ==
  /\ e \in PostExport \intersect scenario.exporters /\ posts < MaxPosts
  /\ posts' = posts + 1
  /\ BeginExport(e, d)

EndExport(e) ==
  /\ place' = [place EXCEPT ![e] = "idle"]
  /\ source' = [source EXCEPT ![e] = 1]
  /\ snapshot' = [snapshot EXCEPT ![e] = {}]
  /\ retries' = [retries EXCEPT ![e] = 0]

\* A retry starts over, with the same date.
RetryExportOrFail(e) ==
  /\ Fail
  /\ \/ /\ retries[e] + 1 < MaxTries
        /\ place' = [place EXCEPT ![e] = "fetch"]
        /\ retries' = [retries EXCEPT ![e] = @ + 1]
        /\ UNCHANGED <<source, snapshot>>
     \/ retries[e] + 1 = MaxTries /\ EndExport(e)

Fetch(e) ==
  /\ place[e] = "fetch"
  /\ \/ /\ place' = [place EXCEPT ![e] = "put"]
        /\ snapshot' = [snapshot EXCEPT ![e] = metrics[source[e]]]
        /\ UNCHANGED <<source, retries, failures>>
     \/ RetryExportOrFail(e)
  /\ UNCHANGED <<environment, rows, metrics, object, runVars, posts, late>>

\* Mutant of Put: the rows are added to the file that is there.
PutMore(e) ==
  LET old == IF object[source[e]].exported THEN object[source[e]].cells ELSE {} IN
  /\ place[e] = "put"
  /\ object' = [object EXCEPT ![source[e]] = Object(old \union snapshot[e])]
  /\ EndExport(e) /\ UNCHANGED failures
  /\ UNCHANGED <<environment, rows, metrics, runVars, posts, late>>

\* put_object replaces the file; a failing call may have done so.
Put(e) ==
  LET Store == object' = [object EXCEPT ![source[e]] = Object(snapshot[e])] IN
  /\ place[e] = "put"
  /\ \/ Store /\ EndExport(e) /\ UNCHANGED failures
     \/ RetryExportOrFail(e) /\ (Store \/ UNCHANGED object)
  /\ UNCHANGED <<environment, rows, metrics, runVars, posts, late>>

-----------------------------------------------------------------------------
(* The environment *)

\* The Kafka engine inserts an event; a redelivered one is inserted again.  Its
\* timestamp is what the client of POST /events says, in the past or in the future.
Arrive(event) ==
  /\ Len(raw) < scenario.arrivals
  /\ raw' = Append(raw, event)
  /\ arrived' = Append(arrived, today)
  /\ UNCHANGED <<scenario, today, clock, rows, metrics, object, runVars, exportVars, bounds>>

Midnight ==
  /\ today < scenario.lastDay
  /\ today' = today + 1
  /\ late' = late \union {target[r] : r \in {o \in Run : phase[o] # "idle" /\ target[o] + 1 < today'}}
  /\ UNCHANGED <<scenario, raw, arrived, clock, rows, metrics, object, runVars, exportVars, posts, failures>>

Tick ==
  /\ clock < scenario.seconds
  /\ clock' = clock + 1
  /\ UNCHANGED <<scenario, raw, arrived, today, rows, metrics, object, runVars, exportVars, bounds>>

\* The process ends and is started again; no run or export resumes.
Restart ==
  /\ Fail
  /\ \E r \in Run : phase[r] # "idle" \/ \E e \in Exporter : place[e] # "idle"
  /\ phase' = Each("idle") /\ todo' = Each({}) /\ target' = Each(1) /\ computedAt' = Each(0)
  /\ payload' = Each({}) /\ tries' = Each(0) /\ started' = Each(0) /\ alone' = Each(TRUE)
  /\ place' = Every("idle") /\ source' = Every(1) /\ snapshot' = Every({}) /\ retries' = Every(0)
  /\ UNCHANGED <<environment, rows, metrics, object, posts, late>>

-----------------------------------------------------------------------------
StepRun(r) == DeleteRows(r) \/ InsertRows(r) \/ ReadTable(r) \/ Upsert(r)
StepExport(e) == Fetch(e) \/ Put(e)

Next ==
  \/ BeginScheduled
  \/ \E r \in Post, d \in Date : BeginPosted(r, d)
  \/ \E r \in Run : StepRun(r)
  \/ BeginScheduledExport
  \/ \E e \in PostExport, d \in Date : BeginPostedExport(e, d)
  \/ \E e \in Exporter : StepExport(e)
  \/ \E event \in scenario.events : Arrive(event)
  \/ Midnight \/ Tick \/ Restart

Spec == Init /\ [][Next]_vars

\* The scheduler starts its jobs again and again, threads run, and days pass;
\* requests and failures are finitely many.
FairSpec ==
  /\ Spec
  /\ WF_vars(BeginScheduled) /\ WF_vars(BeginScheduledExport) /\ WF_vars(Midnight)
  /\ \A r \in Run : WF_vars(StepRun(r))
  /\ \A e \in Exporter : WF_vars(StepExport(e))
-----------------------------------------------------------------------------
(* Properties *)

\* Every variable has its type; no quotient has denominator 0.
TypeOK ==
  LET Proper(c) ==
        /\ c.seen \in 0 .. Len(raw)
        /\ c.value \in Nat \X (Nat \ {0})
  IN
  /\ scenario \in Scenarios
  /\ raw \in Seq(scenario.events) /\ arrived \in [DOMAIN raw -> 1 .. today]
  /\ today \in Date /\ clock \in 0 .. scenario.seconds
  /\ \A t \in scenario.tables, d \in Date : \A w \in rows[t][d] :
       w.at \in 0 .. clock /\ w.seen \in 0 .. Len(raw)
  /\ \A d \in Date : \A c \in metrics[d] : Proper(c)
  /\ \A d \in Date : object[d] # NoObject => \A c \in object[d].cells : Proper(c)
  /\ phase \in [Run -> {"idle", "delete", "insert", "read", "upsert"}]
  /\ \A r \in Run : todo[r] \subseteq scenario.tables /\ \A c \in payload[r] : Proper(c)
  /\ target \in [Run -> Date] /\ computedAt \in [Run -> 0 .. clock]
  /\ tries \in [Run -> 0 .. MaxTries - 1]
  /\ place \in [Exporter -> {"idle", "fetch", "put"}]
  /\ source \in [Exporter -> Date] /\ retries \in [Exporter -> 0 .. MaxTries - 1]
  /\ started \in [Run -> 0 .. Len(raw)] /\ alone \in [Run -> BOOLEAN]

\* The three conversion metrics of a date are those of one moment: the rate is
\* the quotient of the two counts beside it, in daily_metrics and in the
\* exported file, whichever runs overlap, fail half way or are retried.
AddsUp(cells) ==
  LET values(name) == {c.value : c \in {x \in cells : x.name = name}} IN
  values("CONVERSION_RATE") =
    {Ratio(f[1], s[1]) : f \in values("VIEW_FINISHED"), s \in values("VIEW_STARTED")}
ConversionAddsUp ==
  \A d \in Date : AddsUp(metrics[d]) /\ (object[d] # NoObject => AddsUp(object[d].cells))

\* What a run carries to PostgreSQL is no older than the run itself: it never
\* picks up what an earlier, perhaps failed, run left in ClickHouse, although it
\* may pick up what another run puts there beside it.
PayloadIsFresh ==
  \A r \in Run : \A c \in payload[r] : c.seen >= started[r]

Ends(r) == phase[r] = "upsert" /\ phase'[r] = "idle" /\ failures' = failures

\* A run that ends well, with no other run beside it and no event since it
\* began, leaves daily_metrics right for its date, whatever earlier runs left
\* behind -- but for the TOP_MOVIE_VIEWS of movies that have dropped out of the
\* list, which nothing removes.
LoneRunIsExact ==
  [][\A r \in Run : Ends(r) /\ alone[r] /\ started[r] = Len(raw) =>
       LET d == target[r]
           truth == UNION {Cells(t, Block(t, d, 0)) : t \in scenario.tables \intersect Readable}
       IN /\ truth \subseteq metrics'[d]
          /\ \A c \in metrics'[d] \ truth : c.name = "TOP_MOVIE_VIEWS"]_vars

\* The users with a view on the n-th day after d that was stored by the end of the
\* day after d.
ReturnedInTime(d, n) ==
  {raw[i].user : i \in {j \in DOMAIN raw : /\ raw[j].type \in Watching /\ raw[j].day = d + n
                                          /\ arrived[j] <= d + 1}}

\* The scheduler computes a date on the day after it and never again, so a return
\* that is stored later is counted only if somebody has asked for the date with
\* POST /aggregate (or the run of that one day went on past its midnight): of the
\* next day's returns RETENTION_D1 has those stored the same day, of the late day's
\* RETENTION_D7 has those stamped ahead, for ever.
LateReturnsNeedAPost ==
  \A d \in Date \ late : \A c \in metrics[d] :
    /\ c.name = "RETENTION_D1" => c.value[1] <= Cardinality(ReturnedInTime(d, 1))
    /\ c.name = "RETENTION_D7" => c.value[1] <= Cardinality(ReturnedInTime(d, LateDay))

\* Seven queries written apart agree on one set of events: the cohort's row of a
\* day has the users retention counts, and no others if nobody of the cohort has a
\* view so late that its lifecycle_day is cut to 8 bits; a cohort's first row is
\* the whole cohort; the devices share the events among them; the top list shares
\* the finished views, all of them if it holds every movie; a date's new users are
\* among its users.
QueriesAgree ==
  \A d \in 1 .. scenario.lastDay :
    LET The(s) == (CHOOSE w \in s : TRUE).value
        dau == The(DauRows(d))
        conversion == The(ConversionRows(d))
        retention == The(RetentionRows(d))
        cut == \E u \in Cohort(d) : \E w \in Watched(u) : w - d >= 256
        cohort(l) == {w.value.rate : w \in {x \in CohortRows(d) : x.key = l}}
        Includes(l, rate) == rate[1] = 0 \/ \E q \in cohort(l) : q[1] >= rate[1]
        Is(l, rate) == cohort(l) = {rate} \/ (cohort(l) = {} /\ rate[1] = 0)
        Total(s) == MapThenSumSet(LAMBDA w : w.value, s)
    IN
    /\ Includes(1, retention.d1) /\ Includes(LateDay, retention.d7)
    /\ ~cut => Is(1, retention.d1) /\ Is(LateDay, retention.d7)
    /\ \A w \in CohortRows(d) : w.key = 0 => w.value.users = w.value.size /\ w.value.size <= dau
    /\ Total(DeviceRows(d)) = Cardinality(On(d))
    /\ Total(TopRows(d)) <= conversion.finished
    /\ Cardinality({raw[i].movie : i \in On(d)}) <= TopSize => Total(TopRows(d)) = conversion.finished
    /\ dau <= Cardinality(On(d))

\* Once events, failures and requests stop, the scheduled jobs bring yesterday's
\* metrics to the truth and the exported file to the metrics, and both stay so.
ExportBecomesTrue ==
  LET d == scenario.lastDay - 1
      Truth == UNION {Cells(t, Block(t, d, 0)) : t \in scenario.tables \intersect Readable}
  IN
  "schedule" \in scenario.runs /\ d \in Date =>
    <>[](/\ {[name |-> c.name, dim |-> c.dim, value |-> c.value] : c \in Truth}
              \subseteq {[name |-> c.name, dim |-> c.dim, value |-> c.value] : c \in metrics[d]}
         /\ "schedule" \in scenario.exporters => object[d] = Object(metrics[d]))
=============================================================================
