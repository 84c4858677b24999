# TLA+ models of the SOA homework services

The repository holds five homeworks. This directory models the parts of them that
are concurrent systems with state: the flight booking system of `src/дз_3`, the
orders of the marketplace of `src/дз_2`, and the producer and the aggregation of the
cinema analytics of `src/dz_5`. Paths below are relative to the root of the
repository.

## The system: inventory

### дз_3, flight booking (the core)

| component | state | operations | interacts with |
|---|---|---|---|
| flight_service store (`internal/store/store.go`) | PostgreSQL tables `flights`, `seat_reservations` | `ReserveSeats`, `ReleaseReservation` (one transaction each, with row locks), reads | called by the gRPC server, concurrently |
| flight_service gRPC server and cache (`internal/grpcserver/server.go`, `internal/cache/cache.go`) | Redis keys: flights, search lists, and a version key for each | read-through fills, invalidation after a commit, two Lua scripts | the store; Redis |
| booking_service client (`internal/grpcclient`) | circuit breaker, one for the process | `callWithRetry`, `Allow`, `OnSuccess`, `OnFailure` | every request goroutine; flight_service |
| booking_service handlers and store (`internal/http/handlers.go`, `internal/store/store.go`) | PostgreSQL table `bookings`, the goroutines | `CreateBooking`, `CancelBooking`, reads | the client; its own database |

A booking is a saga over two databases that no transaction spans: `CreateBooking`
reserves seats, inserts a booking, and releases the seats if the insert fails;
`CancelBooking` releases the seats and then marks the booking. What makes this
hard:

- transactions interleave statement by statement, and the two operations of the
  store take their row locks in opposite orders;
- an RPC attempt is given up after 3 s and retried, while the server may execute
  it later, twice, or not at all; a commit may take effect without being
  acknowledged;
- a client disconnects, a database statement fails, or booking_service dies and is
  restarted (`restart: on-failure`) between any two steps;
- cache fills and invalidations are several Redis commands and race each other;
- outcomes of calls reach the circuit breaker after its state has changed.

What makes each component correct is stated as its properties below. The hazards,
each at its line, are listed in `PROJECT.json`.

### dz_5, cinema analytics

| component | state | operations | interacts with |
|---|---|---|---|
| producer-service (`kafka_client.py`, `schema_registry.py`, `generator.py`, `main.py`) | the queue of one shared Kafka producer, the cached schema, the generator task | `POST /events`, the generator, `publish` with produce, flush, callback and retry | the schema registry; Kafka, and through it ClickHouse |
| aggregation (`aggregation.py`, `repository.py`) | seven aggregate tables in ClickHouse, `daily_metrics` in PostgreSQL | `aggregate_for_date`, started by the scheduler (`scheduler.py`) or by `POST /aggregate` | `movie_events`, which Kafka fills meanwhile |
| export (`exporter.py`) | a CSV file for each date in S3 | `export_for_date`, started by the scheduler or by `POST /export` | `daily_metrics` |

What makes this hard: a run of `aggregate_for_date` is over twenty statements in two
databases without a transaction around them, beside other runs of the same date and
events that arrive; any statement may fail, and a retried COMMIT may have happened.
In the producer a flush waits for the events of every caller and may time out, and
whoever flushes runs the callbacks of all.

### The other parts

| component | state | what is hard | status |
|---|---|---|---|
| дз_2 marketplace (`app/src/main.py`; `дз_2_prob` has the same file) | orders, stock, promo codes, rate limits | `create_order`, `update_order`, `cancel_order` check an order's status before they lock its products; promo uses are counted without a lock; a rate limit and a limit of one active order are checked and then written | modelled (MarketOrders), without amounts of money |
| дз_1 / дз_2 registration | users | check, then insert, with a unique constraint | not modelled |
| дз_4 and diagrams, generated gRPC code, routers, config, start-up, auth interceptor | none, or straight-line | | not modelled |

## Modules

```
SeatInventory  <-- implemented by --  FlightStore        (INSTANCE, same constants)
      ^
      |  INSTANCE ... WITH Caller <- Attempt, Booking <- Creator
BookingSaga

CircuitBreaker   FlightCache   MarketOrders   EventPublisher   MetricsPipeline   (on their own)
```

The theorems about a module are in a module of proofs that extends it:
SeatInventoryProofs, FlightStoreProofs, BookingSagaProofs (which instantiates
SeatInventoryProofs), CircuitBreakerProofs, FlightCacheProofs, MarketOrdersProofs,
EventPublisherProofs and MetricsProofs.

**SeatInventory** is the abstract specification: what flight_service promises
about seats when every call is indivisible. `available`, `version` and
`reservation` are the columns `available_seats`, `version` and the rows of
`seat_reservations` keyed by their unique `booking_id`; `call` holds, for each
execution of an RPC, the request and the answer. `Reserve`, `Release`,
`RefuseReserve`, `RefuseRelease` and `Fail` are the outcomes of the store's two
operations. A call that took effect may still be answered `error`.

**FlightStore** is `store.go` statement by statement at READ COMMITTED. Each SQL
statement is an action (`LockFlight`, `CheckBooking`, `TakeSeats`,
`InsertReservation`; `LockReservation`, `GiveSeatsBack`, `MarkReleased`;
`Commit`), with the locks it takes or waits for. What a transaction has written
and not committed is private (`newFlight`, `newRow`); `Abort` rolls it back at
any point. `Inventory == INSTANCE SeatInventory` uses the committed rows as the
refinement mapping.

**CircuitBreaker** is the breaker with `callWithRetry` around it and a clock.
`breaker` is the state under the mutex, `call` the attempt each goroutine is at,
the time left for it, and whether `Allow` admitted it as the probe. A rejected call
changes nothing and is no action. `OtherErrors` says which calls may end with an error
`OnFailure` ignores, in the runs all of them; `probeIgnored` (history) records that the
probe has.

**BookingSaga** composes the handlers of booking_service with `SeatInventory`.
Every attempt of an RPC is a caller of the inventory, so that an attempt the
handler has given up can still be executed. `pc` is the position of a handler,
`http` the status it wrote; `scenario` says which requests a behaviour is about and
`Faults` which faults may happen. `Outcomes`
gives the results `callWithRetry` may return. The circuit breaker appears as the
outcome `unavailable` before the first attempt.

**FlightCache** is the read-through cache. A flight row is abstracted to its
version, which every committed change raises by one (that is `SeatInventory`), a
search list to the versions of its flights. Every Redis command or script is one
action, in the order of `server.go`; commands may fail and keys expire. A handler may
die between any two steps (`Die`), and a COMMIT that took effect may return an error
(second half of `Commit`): the handler then returns before it deletes anything.
`leftStale` (history) records what an invalidation or a fill has left outdated.

**MarketOrders** is `create_order`, `update_order` and `cancel_order` of the
marketplace, one action per SQL statement. A SQLAlchemy session reads as it goes
and writes, with absolute values, only when it is flushed at the end; `tx` is what
the session of a handler holds until `Commit` writes it. `productLock` are the row
locks of `SELECT ... FOR UPDATE`; the order, its items, the promo code and the list of
operations are read without one. `order_items` are a set of lists, each with the
request that wrote it, so that an update deletes the lists it has read and no
others. `recent` are the operations inside the rate limit's window, which passes at
any time. `disputed`, `promoDisputed`, `supplied` and `doneBefore` are history: they
record when a handler committed on an order or a counter that had changed since
it was read, what sellers have put on sale, and which requests overlapped. Money
is abstracted to choices (the minimum of a promo code is reached or not).

**MetricsPipeline** is the aggregation and the export of dz_5. `phase` is where a run of
`aggregate_for_date` is: for each table a DELETE (`DeleteRows`) and an INSERT ... SELECT
(`InsertRows`), then a SELECT of each table for the payload (`ReadTable`), then the
transaction of `upsert_metrics` (`Upsert`). The SELECTs are operators over `raw`
(`DauRows`, `TopRows`, `RetentionRows`, ...); a quotient is a pair of numbers. `rows` is
what `SELECT ... FINAL` sees of a ReplacingMergeTree (`Merged`), `metrics` is
`daily_metrics`, `object` the exported file. `Fail` is an exception in any statement,
which may have taken effect, `Restart` the end of the process, `Arrive` and `Midnight`
the world around. An event has the day its timestamp says, which is whatever the client
of `POST /events` sends, in the past or in the future (`models.py:31`); `arrived`
(history) is the date on which it was stored. `toUInt8` is the conversion of
`lifecycle_day` (`aggregation.py:256`): the alias hides the column from WHERE and GROUP BY,
so that differences of 256 days and more wrap. The average of no rows is NULL, which ClickHouse inserts into a
Float64 as 0. The clickhouse client is shared by the threads and may refuse a
concurrent query; that is one of the failures. `seen` in every row and metric, and
`late`, `started` and `alone`, are history.

**EventPublisher** is the producer of dz_5. `call` is the publish each thread is in;
`queue` what librdkafka holds, `topic` the partitions. `Produce` is encode and produce,
`Report` a callback, which runs while anybody flushes, `EndFlush` the return of `flush`,
with an empty queue or after its ten seconds. `generator_loop` calls a blocking
`publish` in a coroutine, so that while it publishes no request is received or answered
(`LoopFree`). `SyntheticSequence` is `build_synthetic_sequence` for given random
numbers; the gap between two events is drawn once for a session, where the code
draws one for each event (`generator.py:89`), which makes no difference to their order:
every gap is positive. The broker is external: the idempotent producer keeps the order within a
partition and stores a message once, and a message whose delivery was reported as
failed is not stored later.

The MC modules give the constants values. `Scenarios` in three of the modules is a set
of records, one for each situation a run is about, with the requests, faults and bounds
that matter to it; a behaviour starts by choosing one. That keeps unrelated
questions from multiplying each other's states.

## Runs

| run | what it shows | instance | distinct states |
|---|---|---|---|
| `inventory` | seats are accounted for, a reservation lives once | 2 flights for sale and one not, 2 bookings, 2 calls at a time | 172 k |
| `store` | the SQL implements the inventory, without deadlock, and every call is answered | as `inventory`, statement by statement; one call may be rolled back | 301 k |
| `breaker` | the breaker opens and closes as `callWithRetry` reports to it; nothing but an ignored end of a probe makes it reject for ever | 3 goroutines, threshold 3, 3 attempts; any call may end with an error such as NotFound | 4 k |
| `breaker_stuck` | *violation*: a rejection is temporary | as `breaker` | 4 k |
| `saga_faults` | bookings and seats agree without faults, and what remains true with them | 2 creations and 2 cancellations without faults; 1 creation and 2 cancellations with two kinds of fault at a time, 1 cancellation with three; 2 creations and 1 cancellation with late attempts and crashes; 2 attempts | 447 k |
| `saga_late` | the same with crashes and with attempts executed after the handler gave them up; every request is answered | 2 creations, or 1 and its cancellation, 3 attempts each, late execution and crashes | 8.4 k |
| `orders` | stock, promo uses, one active order and the rate limit under racing requests | 3 requests of 2 administrators, 1 product, 1 promo code, a seller | 2.4 M |
| `cache` | entries lag only by a racing fill or a failure, never go back, and become current | 1 flight, 2 changes, 2 handlers at a time, Redis failures, ambiguous COMMITs, handlers that die | 533 k |
| `cache_search` | *violation*: a search list never goes back | 2 flights, 1 change, 2 handlers, no failure | 313 k |
| `metrics` | what the metrics, the payloads and the files of a day are worth | 2 runs of one date, exports, up to 4 days; 14 scenarios | 327 k |
| `publisher` | acknowledged events are stored, in order, once but for failures; every publish ends | 2 requests or sessions, 2 attempts, failures, time-outs, a restart; 8 scenarios | 103 k |
| `publisher_lost` | *violation*: an acknowledged event is kept | 1 request, a flush that times out | 2 k |

A violation run stops at its counterexample; its count is what TLC had seen by then.

Why the bounds are enough for the cases that matter:

- Two callers in `store` meet in every pair of statements of the two operations,
  on the same and on different rows; both flights can run out of seats, and one
  call can be rolled back at every statement. For more callers there is the proof.
- In the saga, one creation makes one booking id, so what can go wrong with a
  booking involves its own creation, its cancellations and its attempts; a second
  creation competes for seats. Two cancellations are the smallest race. Three
  attempts are the number in the code; two suffice for an attempt to be overtaken
  by its successor, which keeps `saga_faults` small. Without faults but a failing insert
  there are two creations and two cancellations of every body. Lost replies, failing
  statements and disconnects are combined in pairs for a booking with two cancellations,
  and all three for one; crashes, and attempts that are executed late, for two
  creations that compete for the same seats beside a cancellation. More requests with all
  faults at once are the business of the proofs, which bound nothing. `saga_late` has the
  three attempts of the code, for `RequestsAreAnswered`.
- `OpenTimeout` is the smallest number of ticks that is longer than the longest
  call; the deployment has 20 s against less than 10 s (`docker-compose.yml:93`,
  `client.go:95-113`). The assumption is named `OpenOutlastsCall`: `OnlyTheProbe`
  depends on it, and a much shorter `CB_OPEN_SECONDS` would break it.
- In the cache, `MaxWrites` bounds the changes of a flight; two are needed for a
  fill to be overtaken by another fill and by an invalidation. One flight, because every
  action touches one flight or the lists; the safety properties are proved for any
  number, and `cache_search` shows what a second one adds. (With two flights and one
  change of each, all four properties of `cache` hold as well, in 3.6 M states: too
  many to be a run.)
- In `metrics`, two runs of one date meet in every pair of statements (the scheduled and
  a posted one), for the tables whose metrics belong together or can go stale: the
  conversion, the top list, two tables at once; without failures, with one, and with two
  runs that store in the same second. Two exports race each other and a run. The other
  scenarios give the queries their events, one of them 257 days after the first, let four
  days pass with a return on the last, which arrives on that day or stamped ahead, or with
  a return of the next day, or make every attempt of an upsert or an export fail. `LateDay` is 3
  instead of 7: enough for quiet days between the run of a date and its late day.
  `MaxTries` is 2 instead of 5, `TopSize` 1 instead of 10.
- In `publisher`, two requests with every fault, a request beside a session with a
  failing delivery, a time-out or both, two sessions with a restart, bodies that are refused, and whole sessions at the ends of
  the random ranges. `MaxAttempts` is 2 instead of 5. `MaxProgress` is 9000 instead of
  2^31 - 1: above every session, below the body that cannot be encoded.
- In `orders`, `MaxRequests` is three: the smallest number in which an order is
  created and then changed by two requests that race, and in which a user creates,
  cancels and creates again. The product can be sold out by two orders, and a seller may
  change its stock or take it off sale once (`MaxChanges`, `MaxSupply`). Both users are administrators, so
  that each may change the orders of the other, which is more than users may. The promo
  code has one use, so the second order meets the limit. The products of an order are
  locked by one statement and written by one COMMIT, so a second product would repeat what the
  first shows.

`CHECK_DEADLOCK FALSE` in the saga, order and publisher runs: there are finitely many
requests, and the system stops when they are answered.

### Properties

*Seats.* `SeatAccounting` and `ReservationLifecycle` are the promise;
`ImplementsInventory` carries them over to the SQL. `WritesAreCurrent` says why: what
a transaction is about to commit was computed from locked, current rows.
`NoDeadlock` holds although the lock orders are opposite, because the reservation
that a release has locked is committed, and a reserve only waits for a key that is
not.

*Saga.* `SeatsMatchBookings` is exact agreement, without faults. Under faults the
code cannot promise it: a crash between the two writes of either handler, a retry
that finds the flight sold out by its own first attempt (`store.go:137` is checked
before `store.go:142`), or a compensation that is not sent because `r.Context()` is
cancelled (`handlers.go:162`) leave seats without a booking or a booking without
seats. What it does keep is `BookingIsReserved` (with a cancelled booking, released for good)
and `DivergenceIsReported`: nothing diverges behind a request that was answered with
success. `NotFoundHoldsNoSeats` says what a 404 of a cancellation is worth: of two
concurrent ones the loser is answered 404 for a booking that exists, where
`booking_service.yaml` says "Booking not found" (`handlers.go:208`), but never while
seats are held. `NeverOverbooked` is the statement at the level of bookings, with the
window between the two writes of a cancellation excluded.

*Breaker.* `ClosedBelowThreshold` is about failures that are counted together,
`OnlyTheProbe` about late outcomes in half_open. `ProbeDecides`: a half-open breaker that
admits nobody is without a probe exactly if the outcome of its probe was ignored
(`circuit_breaker.go:69`). The code does not keep `RejectionIsTemporary`;
`OnlyIgnoredProbesBlock` is what it does keep: nothing else makes it reject for ever.

*Cache.* `KeyGuardsValue` is the reason the scripts work; `NeverRegresses`
(`FlightNeverRegresses` and `ListVersionNeverRegresses`) says that no fill goes back by
the number its script compares. For a flight that is what the unit tests of the cache check for one
sequence; for a list, whose number is a maximum, it is less than they ask for, and
`SearchNeverRegresses` is what they ask for. The invalidation is not
airtight: between `InvalidateFlight` and `SetFlightVersion` (`server.go:136-140`) a
GetFlight that read the old row may store it; a DEL may fail, and its error is ignored;
and it is never sent if the COMMIT took effect but returned an error
(`server.go:122-135`), or if the process ends first. `StaleOnlyByRaceOrFailure` says that
these are the only ways, and `CacheBecomesCurrent` that an outdated copy ends with its time to live.

*Orders.* The row locks protect the stock and nothing protects the order, so the
properties say exactly how far the code can be trusted. `StockAccounting`: what sellers
put on sale is in stock or in a live order, for every product whose orders nobody
changed under a handler that had read them. Two racing cancellations
(`main.py:593`) are the shortest way to break it without that condition: both put the
items back. `PromoAccounting` is the same for `current_uses`, which is read without a
lock and written as an absolute value; the counter never exceeds `max_uses` (`TypeOK`),
but when updates are lost more orders than that hold the code. `UnlockedChecksHold`
(`OneActiveOrder` and `RateLimitHolds`) are the two checks of `create_order` between requests that do not
overlap; overlapping ones pass both. `CanceledIsFinal` holds although `update_order` may
write an order that was cancelled since it was read, because it writes only the
columns it has changed.

*Metrics.* `PayloadIsFresh`: what a run carries to PostgreSQL was computed after the
run began, because it empties each table before it fills it; leftovers of a failed run
never travel on. `ConversionAddsUp`: the rate is the quotient of the counts beside it,
because the three are one row in ClickHouse and one transaction in PostgreSQL.
`LoneRunIsExact` says when the metrics of a date are simply right, and names the one
exception: rows of `TOP_MOVIE_VIEWS` are upserted and never deleted, so a movie that has
left the list keeps its row. `LateReturnsNeedAPost` is a limit of the design, stated
as a property: the scheduler computes a date on the day after it and never again
(`scheduler.py:24`), so unless somebody calls `POST /aggregate` for that date (or its run
goes on past midnight) both metrics of retention count only returns that are stored by the end
of the next day: RETENTION_D1 those of that same day, RETENTION_D7 those whose timestamp
lies in the future. `QueriesAgree` compares the seven queries with each
other: the row of a cohort's day has the users retention counts, and no others unless
somebody of the cohort has a view 256 days or more after the first, whose day `toUInt8` cuts
(`cut`). `ExportBecomesTrue`: when the events, failures and requests stop, the scheduled
jobs bring yesterday's metrics and file to the truth. Two overlapping runs may leave the
older values for a while, since `ON CONFLICT DO UPDATE` does not compare `computed_at`.

*Producer.* `AcknowledgedIsStored`: 200 means stored, unless the flush timed out.
`DuplicatesNeedFailures`: an event is in the topic at most once more than its failed
deliveries. `SessionInOrder`: retries and restarts do not turn a session round.
`PublishEnds`: no publish hangs, with the generator in the event loop and Kafka down;
the generator's first exception ends its task until the process restarts
(`generator.py:126`), which nothing in the repository forbids.

### Where the code and its documentation disagree

- **Stuck breaker** (`circuit_breaker.go:69`). A probe answered `NotFound` (or any
  other error that is not Unavailable or DeadlineExceeded, a cancelled client
  included) is never taken off the books; every later call is rejected until the
  process restarts.
- **Search lists go back** (`server.go:59`). The version of a list is the maximum over
  its flights, so an older list with an equal maximum replaces a newer one.
- **Acknowledged and lost** (`kafka_client.py:66`). `publish` does not look at what
  `flush(10)` leaves in the queue, so a request is answered 200 when the flush has timed
  out, and nobody hears of the delivery failing later. `tests/test_pipeline.py:67`
  expects every accepted event to arrive.

### Fairness

- `FlightStore!FairSpec`: strong fairness of a transaction's statements, because a
  statement may be enabled and disabled again by other lock holders and PostgreSQL
  queues lock waiters. Nothing obliges a call to be made, aborted or returned.
- `CircuitBreaker!FairSpec`: time passes and attempts end (each has a timeout of 3 s).
  Nobody is obliged to call.
- `BookingSaga!FairSpec`: weak fairness of the handlers only. flight_service may
  never execute anything; deadlines are what makes `RequestsAreAnswered` true.
- `FlightCache!FairSpec`: handlers finish, and values expire (`PX`).
- `MetricsPipeline!FairSpec`: the scheduler starts its jobs again and again, runs and
  exports go on, and days pass. Events, requests and failures are finitely many.
- `EventPublisher!FairSpec`: threads go on (a flush returns at the latest after ten
  seconds), and the event loop answers whenever the generator sleeps, which it does
  again and again: strong fairness of `Respond`. The broker is fair only in scenarios
  without time-outs.

## Proofs

| theorem | module | statement |
|---|---|---|
| `TypeCorrect` | SeatInventoryProofs | `Spec => []TypeOK`, the CHECK `available_seats >= 0` included |
| `SeatsAccountedFor` | SeatInventoryProofs | `Spec => []SeatAccounting` |
| `ReservationsLiveOnce` | SeatInventoryProofs | `Spec => ReservationLifecycle` |
| `Inductive` | FlightStoreProofs | `Spec => []IInv` |
| `TypeCorrect` | FlightStoreProofs | `Spec => []TypeOK` |
| `WritesStayCurrent` | FlightStoreProofs | `Spec => []WritesAreCurrent` |
| `Refines` | FlightStoreProofs | `Spec => ImplementsInventory` |
| `DeadlockFree` | FlightStoreProofs | `Spec => []NoDeadlock` |
| `PayloadFresh` | MetricsProofs | `Spec => []PayloadIsFresh` |
| `LateReturnsArePosted` | MetricsProofs | `Spec => []LateReturnsNeedAPost` |
| `ConversionIsWhole` | MetricsProofs | `Spec => []ConversionAddsUp` |
| `TypeCorrect` | MetricsProofs | `Spec => []TypeOK`, the denominators that are never 0 included |
| `LoneRunsAreExact` | MetricsProofs | `Spec => LoneRunIsExact` |
| `QueriesAlwaysAgree` | MetricsProofs | `Spec => []QueriesAgree` |
| `AcknowledgedStored` | EventPublisherProofs | `Spec => []AcknowledgedIsStored` |
| `PublishesInductive` | EventPublisherProofs | `Spec => [](IInv /\ TopicInv)` |
| `SessionsInOrder` | EventPublisherProofs | `Spec => []SessionInOrder` |
| `DuplicatesCounted` | EventPublisherProofs | `Spec => []DuplicatesNeedFailures` |
| `TypeCorrect` | EventPublisherProofs | `Spec => []TypeOK` |
| `HandlersUseInventory` | BookingSagaProofs | `Spec => Inventory!Spec` |
| `Inductive`, `InductiveAlone` | BookingSagaProofs | `Spec => []IInv`, `Spec => []AloneInv` |
| `BookingsHaveRows` | BookingSagaProofs | `Spec => []BookingIsReserved` |
| `FailuresAreReported` | BookingSagaProofs | `Spec => []DivergenceIsReported` |
| `NotFoundIsHarmless` | BookingSagaProofs | `Spec => NotFoundHoldsNoSeats` |
| `SeatsAreTheBookings` | BookingSagaProofs | `Spec => []SeatsMatchBookings` |
| `ConfirmedSeatsFit` | BookingSagaProofs | `Spec => []NeverOverbooked` |
| `Inductive` | CircuitBreakerProofs | `Spec => []IInv` |
| `ThresholdOpens` | CircuitBreakerProofs | `Spec => []ClosedBelowThreshold` |
| `ProbeIsAlone` | CircuitBreakerProofs | `Spec => []OnlyTheProbe` |
| `ProbeIsAwaited` | CircuitBreakerProofs | `Spec => []ProbeDecides` |
| `Inductive` | FlightCacheProofs | `Spec => []IInv` |
| `KeysGuardValues` | FlightCacheProofs | `Spec => []KeyGuardsValue` |
| `FlightsNeverRegress` | FlightCacheProofs | `Spec => FlightNeverRegresses` |
| `NothingRegresses` | FlightCacheProofs | `Spec => NeverRegresses` |
| `StaleByRaceOrFailure` | FlightCacheProofs | `Spec => []StaleOnlyByRaceOrFailure` |
| `Inductive` | MarketOrdersProofs | `Spec => []IInv` |
| `PromoIsCounted` | MarketOrdersProofs | `Spec => []PromoAccounting` |
| `ChecksHold` | MarketOrdersProofs | `Spec => []UnlockedChecksHold` |
| `StockStaysCurrent` | MarketOrdersProofs | `Spec => []StockIsCurrent` |
| `CanceledStays` | MarketOrdersProofs | `Spec => CanceledIsFinal` |
| `StockInductive` | MarketOrdersProofs | `Spec => []StockInv` |
| `StockIsAccounted` | MarketOrdersProofs | `Spec => []StockAccounting` |
| `TypeCorrect` | MarketOrdersProofs | `Spec => []TypeOK` |

The first eight hold for every set of flights, bookings and callers, every capacity and
every set of party sizes; the assumptions are `InventoryAssumption` and
`StoreAssumption` (the flights on sale are flights, capacities are numbers, party
sizes are positive as the handlers validate, and `Free` is no caller).

*Seat accounting.* `TypeOK` is inductive, and with it `SeatAccounting`: the seats of
a reservation are a set of pairs, a granted reservation adds a disjoint one
(`TakenAfterTake`) and a release removes one (`TakenAfterGiveBack`), and
cardinalities of finite sets do the rest.

*Refinement.* `WritesAreCurrent` is not inductive: it speaks of what has been
written, and not of the lock that is held between the statement that checks and the
UPDATE. `IInv` adds that for each caller (`ReserveInv`, `ReleaseInv`): from the
moment the flight is locked its row is unchanged and has enough seats; from the
moment the reservation is locked it is ACTIVE and unchanged. `Frame` shows that a
caller's part survives any step that leaves the rows it has locked alone, so each
statement has to be examined for its own caller only. Then `Commit` is exactly
`Reserve` or `Release` of the inventory, a refusal is a refusal, `Abort` and a unique
violation are `Fail`, and the other statements stutter.

*Deadlock.* `LockInv` adds to `IInv` who may hold which lock at which statement
(`Holds`). A caller that waits, waits for a holder (`WaitsForHolder`). A reserve beyond
its first lock waits only for another reserve that has inserted its row and waits
for nobody, since a release can only have locked a row that is committed; so no circle
contains one, then no release that has its reservation, then no holder of a lock at
all (`NoCircle`).

*Saga.* The theorems hold for every number of creations, cancellations and attempts, every
scenario and therefore every combination of faults; the assumption is `SagaAssumption`
(creations and cancellations are different requests, at least one attempt, party sizes
are positive). Every step of the handlers and of flight_service is a step of the
inventory or leaves its state alone (`StepOfInventory`), so `HandlersUseInventory` brings
`SeatAccounting` and `ReservationLifecycle` into the composed system. `BookingIsReserved`
says nothing of a handler on its way, so it is not inductive. `IInv` gives for each
creation (`CreatorCalls`, `CreatorDone`) and each cancellation (`CancellerCalls`,
`CancellerDone`) what its position says of the attempts it has made and of both databases:
a handler that is about to insert has seen an `ok` of its own reservation, one that
is about to mark a booking has seen the reservation released; an attempt asks for what
the request asks for, also when it is executed long after the handler is gone.
`ReleasedByHandler` names the request behind every released reservation: that is what
`DivergenceIsReported` needs, since a CONFIRMED booking without seats has to be blamed on
somebody. Without faults more is true, and `AloneInv` adds it under `Faults = {}`: an RPC
has a single attempt and its handler waits for the answer, so a released reservation was released
by a handler that has been told so. `NeverOverbooked` then compares the
seats of the CONFIRMED bookings, as a set of pairs, with those of the reservations, whose
number is bounded by `SeatAccounting`.

*Breaker.* For every number of goroutines, threshold, attempts and times; the assumptions
are `BreakerAssumption` and `OpenOutlastsCall`. `OnlyTheProbe` is about the end of the open
period and becomes true long before it: `OpenOutlastsRunning` says that the time a running
call has left, with all attempts that may follow, is shorter than what is left of the open
period, so that nothing of the closed period is running when the probe starts.
`ProbeIsAwaited` needs to know that every probe that is admitted runs until it decides or is
ignored, and that nothing follows an ignored one (`Waits`); that the breaker may stay
there for ever is what `breaker_stuck` shows.

*Cache.* For every finite set of flights, number of handlers and of changes; the assumption
is `CacheAssumption`. `KeyGuardsValue` is inductive once it is known that what a handler
carries to Redis is never newer than the database (`JobsAreKnown`), because the scripts compare
and write in one step; `KeyGuardsList` is the same for search lists. A
fill replaces a value only above the version key, hence above the value. For lists this
orders the maximum of their versions only, and `NothingRegresses` says no more than that,
for any number of flights; `cache_search` shows that it does not order the lists
themselves. `StaleOnlyByRaceOrFailure` is inductive beside `IInv`: a committed change goes
on to the DEL of its own handler or sets `leftStale`, a DEL removes the copy or sets it, and
a fill sets it when it stores less than the database has.

*Orders.* For every number of requests, users, products and baskets; the assumption is
`MarketAssumption`, which wants finitely many requests (for the count of the orders with
the promo code). Nearly everything a handler relies on was read
without a lock, so `HandlerInv` says of it what is still true: a check of the rate limit or
of the active order (`RateChecked`, `ActiveChecked`) holds against all requests that were
done before this one began (`doneBefore`); the order that was loaded keeps its user
(`OrderIsOwn`, `OrderIsLoaded`). From this follow `RateLimitHolds`, `OneActiveOrder` and
`PromoAccounting`: a commit that is not disputed changes `uses` by what it changes in the
set of orders that hold the code. `StockIsCurrent` is where locks exist:
the rows whose stock a handler is about to write are locked by it, and the value was
computed from the row as it is. `CanceledIsFinal` follows from what `Commit` writes.
The stock needs sums, over the lists of an order (`Quantity`) and over the orders. Both are
folds, which take the elements of a set in an order of their own; `SumIsTotal` shows that
such a fold is the number of pairs of an element and one of its units (`Total`), by
looking at a smallest set for which it is not, and from then on the proof counts pairs.
`StockInv` says of a handler that has locked its products which rows it holds, and that
each of them has what it takes (`RowsTaken`); only what was on sale is ever listed
(`Offered`). `CommitReserves` compares what a commit does to the stock with what it does to the
orders: if nobody has changed the order since it was read, they are the same units.

*Metrics.* The theorems hold for every set of posted runs and exports, every scenario
and all bounds; the assumption is `MetricsAssumption`, in which the number of a movie stands
for the place of its id in the order `ORDER BY` uses, and `LateDay` is at most 255, so that
the days of a cohort fit into 8 bits. `PayloadIsFresh` needs to know what a run will find
in the tables it has yet to read. `TouchedIsFresh`: every row that is left in a table
which the run has already emptied (`Touched`) was computed from at least the events
the run began with, because whoever inserts it later sees a longer `raw`. `Shape` are
the types this needs. For `LateReturnsNeedAPost`, `InTime` says that a run for a date that
is not in `late` is on that date or the day after it, so that whatever its SELECT finds was
stored in time (`SelectedInTime`), and `CountsInTime` carries the bound through the table,
the payload and `daily_metrics`, while the returns stored in time only become more
(`WithinStays`). For `ConversionAddsUp`,
`WholeInv` says of every place the three conversion metrics pass through, the table, the
payloads, `daily_metrics`, the snapshots of exports and the files, that it holds all
three of one row or none; the upsert of a whole payload over whole metrics is whole
(`UpsertedIsWhole`), whichever run wrote last.
`TypeOK` needs `FitInv`, which follows what a SELECT finds (`SelectedFits`) through the same
places, and says besides that every metric of a date has a key its tables will give again
(`Lasting`), the movies of the list excepted. For `LoneRunIsExact`, `LoneInv` says of a run
that has been alone and has seen every event that no other run of its date is under way,
that each table it has rewritten holds exactly what the SELECT finds now, and that its
payload is the truth of the tables it has read (`OneMoreTable`). What it stores at its end
is then the truth, and an older metric that stays has a key the truth has not: a movie's
(`LastingIsTrue`). The steps of other runs write rows of other dates (`OthersStayLone`),
and an event that arrives makes the claim void.
`QueriesAgree` is a fact about any sequence of events, and `Shape` is all it
needs. Its sums over rows are sizes of unions of disjoint sets of events (`SumOfParts`,
by a bijection); a new user of a date has an event on it because a first date exists
(`FirstDateIsWatched`); the users of a cohort's row include those who came back on that day,
and are the same if no day is cut (`BackSince`); and if the list is long enough for all movies, fewer rank before
each of them than there are. Sums are counted as pairs, as in the proofs about orders.

*Producer.* `AcknowledgedStored` holds for every set of threads, every number of attempts,
sessions, posts and restarts, and all bodies and random numbers; the assumption is
`PublisherAssumption`. A publish does not look at the topic, so the invariant follows its
message: while it flushes and has been told of no error, the message of this attempt is in the
queue or the event is in the topic (`FlushIsTracked`), and what the queue calls stored is in
the topic (`StoredIsInTopic`). A flush that finds the queue empty then leaves only the
topic. `Report` is the interesting step: it may be run by another thread, takes the message out
of the queue, and has either stored it or marks the publish as failed. `Shape` gives every
event a key of a partition.
For the order of a session, `Ordered` compares everything that has ever been handed to the
producer (`Seen`) with what is still to come: the rest of the session lies strictly after it
(`BeforeBatch`), the event that is being published not before it
(`SeenBeforeGenerator`), so that a retry of it may land next to its first copy and
never before an earlier event; what is in the topic is not after what the queue
has yet to store (`TopicBeforeQueue`). That a drawn session is in order at all is
arithmetic over the random ranges (`DrawnRanges`, `ViewsOfSession` and the lemmas after them).
For the copies, `CopiesNeedFailures` counts those in the topic and those the queue may
still store: at most one more than the failures, and no more than the failures while a
publish still has an attempt to make (`Owes`). Attempts are told apart by their number:
no two messages have the same one, and the next is greater than all before
(`MessagesDiffer`, `AttemptsGrow`).

Only model-checked is everything under fairness (`CallsAreAnswered`, `OnlyIgnoredProbesBlock`,
`RequestsAreAnswered`, `CacheBecomesCurrent`, `ExportBecomesTrue`, `PublishEnds`), as
liveness is out of the prover's reach.

## Not modelled

- Formatting and validation of ids, dates and e-mail addresses, beyond "a uuid or
  not"; API keys; logging.
- Prices and amounts. In дз_3 `total_price_cents` is computed in 64 bits and stored in
  32; the insert that then fails is one of the outcomes of `InsertBooking`, the
  arithmetic is not. In дз_2 the discount is a function of one promo row and one total
  within a handler; what it does to the state, which depends on the minimum only, is a
  choice of `ReadPromo`.
- Registration and login (дз_1, дз_2): a unique constraint decides between two
  registrations of one e-mail address, and the race is visible only in the status code
  of the loser, who is answered 500. Tokens are stateless.
- The order in which PostgreSQL locks the rows of one `SELECT ... FOR UPDATE`
  (`main.py:376`): two orders for the same products may deadlock, PostgreSQL ends one
  of them, and MarketOrders has that as `Abort`.
- `daily_metrics.metadata` and `computed_at` in PostgreSQL; the contents of the CSV file
  beyond its rows; dashboards.
- Changes to flights other than their seats: nothing in the repository makes any.
- Redis failover to a replica that misses writes; loss of stored messages by Kafka.
- The components listed as not modelled above.

## Plan

What is left: the amounts of money in MarketOrders, that is the total and the discount of
an order against its items when updates race.
