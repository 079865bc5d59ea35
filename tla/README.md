# swapi-service in TLA+

A TLA+ development of the SWAPI aggregation service: the six NestJS
microservices that take queries for SWAPI resources, answer them from a cache or
fetch them later, within a daily request limit. The modules follow the code
under `src/apps` and `src/lib`; `PROJECT.json` maps each definition to its lines.

## The system

| Component | State it keeps | Operations |
|---|---|---|
| api-gateway | none (a throttler in memory) | relays `POST /query` and `GET /query/:id` as `QUERY_CREATE`, `QUERY_READ` |
| query-manager | `query` and `subquery` rows in Postgres; running handlers | `processNewQueryRequestAsync`, `handleSubqueryResultAsync`, `fetchQueryResultsAsync`; POSTs to callbacks |
| cache-manager | one Mongo document per resource path, unique index on `path` | `readCacheAsync` (`CACHE_READ`), `updateCache` (on `receive`) |
| swapi-connector | running handlers | `fetchDataAsync` (on `fetch`): cache check, HTTP GET, emits `receive` |
| request-scheduler | BullMQ queue `scheduled-requests` in Redis; running handlers | `scheduleRequestAsync` (on `schedule-fetch`), `process` (due jobs): ask the limit, emit `fetch` or delay a day |
| traffic-controller | Redis sorted set `system:usage_log` with an expiry | `getIsRateLimitedAsync`, `logUsage` (on `fetch`) |
| lib/common | DTOs, entities, subjects, Redis repository | shared by all |

They talk over core NATS. Requests with a reply (`QUERY_CREATE`, `QUERY_READ`,
`CACHE_READ`, `RATE_LIMIT_USAGE_READ`) are awaited without a timeout. Events are
copied to each running subscriber and lost for the others:
`schedule-fetch` goes from the query manager to the scheduler, `fetch` from the
scheduler to the connector and to the traffic controller, `receive` from the
connector to the query manager and to the cache manager.

What makes the system hard:

* **Event handlers are not awaited.** Each controller starts its service method
  and returns, so any number of handlers run at once, interleaved at every
  `await`, and a rejection is an unhandled one, which ends the Node process with
  everything it was doing. Nothing in the repository restarts a process; somebody
  may, and finds the databases and the queue as they were.
* **One event, two readers.** `receive` fills the cache in one service and makes
  another decide, from that same cache, whether the query is complete.
* **Saves without transactions.** A handler loads, reads, decides and then saves
  the query and the subquery separately; a creation saves the query, then its
  subqueries, then emits the fetches.
* **Check, then count.** The limit is checked by one service and counted by
  another when the fetch is already published.
* **Two clocks.** Usage entries leave the window by pruning, the key by expiry,
  and jobs fall due by their own delay.
* **Jobs outlive the process that took them.** A job that was being processed when
  the scheduler died is found stalled and run again.

What makes each component correct: a query is COMPLETED only on data that was
downloaded; no path is forgotten, or fetched twice for one query; results find
their rows and stay in them; whoever is notified can read the result; an id that
was given out stays known, and what a poll has shown is in every later one; the
usage log covers the last day; a scheduled fetch is published once and not lost
while it waits for that.

## Modules

| Module | Models |
|---|---|
| `Entities` | queries, subqueries, paths; `request` is what each consumer POSTs |
| `Nats` | deliveries in flight (`net`), running services (`up`), those that ever died (`died`); `Emitted`, `Arrives`, `Crash`, `Start` |
| `CacheManager` | the collection (`resources`) and the gap between `findOne` and `save` (`updating`) |
| `QueryManager` | both tables, the position of each create request (`creating`, `createRead`), of each result handler (`handling`), the callback POSTs (`posts`, `notified`), `fetchQueryResultsAsync` |
| `ApiGateway` | the relay as the consumers see it: the last response of each (`consumer`) |
| `SwapiConnector` | fetches waiting for SWAPI (`fetching`); `swapiLog` records what SWAPI answered |
| `Aggregation` | the services above over NATS, with restarts; safety, liveness, the inductive invariant |
| `QueryLife` | abstract: what a query is to its consumer; implemented by `Aggregation` |
| `AggregationProofs`, `QueryLifeProofs` | the theorems about `Aggregation` |
| `Promises` | what the documentation and tests say of the aggregation engine, where the code disagrees |
| `TrafficController` | the usage log (`usage`, ages of its entries) and its expiry (`ttl`), the loss of Redis |
| `RequestScheduler` | the check in both its copies (`asking`), the worker (`active`), the queue (`jobs`) |
| `FetchDispatch` | abstract: a scheduled fetch is published later, once; a death costs no more than the fetches whose check it left unanswered (`stranded`), unless it is the scheduler's own |
| `LimitHistory` | scheduler and traffic controller with the clock, and the history that judges them (`published`, `calls`, `overlapped`, `unheard`, `unanswered`) |
| `RateLimiting` | `LimitHistory` over NATS, with restarts, and an environment that schedules the fetches of each query in one go and puts a new query in the place of one that is through, without end; implements `FetchDispatch` |
| `RateLimitingProofs` | the theorems about `RateLimiting` |
| `LimitPromises` | what the documentation says of the rate limiting, where the code disagrees |
| `System` | everything together; implements `Aggregation` and `RateLimiting` |
| `SystemProofs`, `SystemLimitProofs` | the two refinements, and what is shown of `System` directly |
| `SystemGuarantees` | the theorems about the two components, cited for the whole system |
| `MCAggregation`, `MCRateLimiting`, `MCSystem` | instances for TLC |

An action is one synchronous stretch of code between two `await`s. A reply is
taken when the responder queries its database. Operators named "Mutant of ..."
are not part of any specification: each is a plausible mistake that the property
it is paired with in `PROJECT.json` detects.

`handleSubqueryResultAsync`, for instance, is `HandleResultLoad` (both rows
loaded, the cache reads sent), `HandleResultReadCache` (one per subquery, in any
order), `HandleResultSaveQuery`, `HandleResultSaveSubquery`, `NotifyCallback`,
then `CallbackResponds` or `CallbackUnreachable`; `HandleResultReadFails` is the
rejected cache read, `HandleResultDatabaseFails` a rejected load or save, and a
crash (`QueryManagerCrash`) ends all handlers and keeps the tables.

The gateway keeps nothing of a query, so it has no actions of its own besides
those by which a consumer gets a response: the reply to its POST (`RespondStored`
with the id and the results found in the cache, `RespondCached` with everything
and a blank id, `RespondError`), or a poll (`GetQuery`, a 404 for an id without a
row).

Failures. Every process may die of what the code does not catch: the connector of
an error status of SWAPI or a failed cache read, the cache manager of a duplicate
key or a Mongo error, the query manager of a failed cache read, a Postgres error
or a callback without a response, the scheduler of an unanswered check, the
traffic controller of its Redis connection. `Start` brings back those in
`Restartable`. When the cache manager dies, reads that it had taken are never
answered: those handlers, which have no timeout, wait for ever
(`RestartCacheManager`). A check that dies with the traffic controller leaves its
handler, or the only worker of the queue, `"hung"`.

How the compositions meet. `Aggregation` uses the scheduler as the single action
`Dispatch`, which publishes a scheduled fetch after any delay. `RateLimiting`
uses the query manager as the single action `ScheduleFetches`, which emits the
fetches of a query in one go, and shows that scheduler, queue, worker and traffic
controller together do no more than `FetchDispatch` allows (`DispatchKept`) and,
while no process dies, go on publishing as long as fetches wait
(`DispatchContinues`); that each fetch gets its turn is more than the code does
(`EventuallyPublished`, below). `System` puts all five services on one broker and
is seen from both sides:

* `Engine` is `Aggregation` on `EngineNet`: a fetch that was not published
  (`Unpublished`), be it in an event, a handler, the queue or the worker, or given up
  with a check that the traffic controller left unanswered, is seen as an event that
  was not dispatched yet, and nobody counts. `EngineKept` says that the engine takes
  only the steps of `Aggregation`, as long as the scheduler has not died, whether or
  not the traffic controller runs. When the scheduler dies it may lose the events it
  held, and publish a stalled job's fetch again, which `Aggregation` does not do.
* `Limiter` is `RateLimiting` on `LimiterNet`, the messages for scheduler and
  traffic controller, with the fetches of answered queries as those that were
  scheduled. `LimiterKept` says that these two take only the steps of
  `RateLimiting`, so that each fetch is scheduled once is no assumption of it.

Abstractions: a payload is only "data" or "null", which is all the code tests;
UUIDs are pairs of a query and a position; a message is not duplicated, as core
NATS does not; deliveries are unordered, since handlers that are not awaited
suspend on pooled connections at once; time is a count of ticks, and an age is
not counted beyond `Window`, where the code no longer tells ages apart.

## What is checked

| Run | Instance | Shows |
|---|---|---|
| `AggregationCompeting` | two queries of one and two subqueries on a common path, or one of three, any repetition of two paths; callbacks, empty answers, SWAPI and database errors, unreachable callbacks, crashes and restarts; 481 148 states | `TypeOK`, `IInv`, `CompletedIsDownloaded`, `NotifiedIsStored`, `RowsPrecedeFetches`, `FetchedOncePerQuery`, `NoFetchLost`, `ResultsNeverLost`, `LifeKept` |
| `AggregationLiveness` | a query of two subqueries and one of one that share a path, restarts; 44 237 states | `EventuallyAnswered`, `EventuallyCached`, `EventuallyStored` |
| `RateLimiting` | two queries, of two subqueries and of one, each followed by others without end; limit one, a day of two ticks, Redis outages, restarts of both services; 380 577 states | `TypeOK`, `IInv`, `UsageCoversCalls`, `SerialLimit`, `DispatchKept`, `DispatchContinues` |
| `System` | one query, of two subqueries or empty, polled by its consumer; limit one, a day of one tick; SWAPI, database and Redis errors, crashes of every service, restarts of query and cache manager; 399 505 states | `TypeOK`, `IInv`, `GivenIdsAreKnown`, `CompletedSeenIsDownloaded`, `NoFetchLost`, `SeenResultsStay` |
| `SystemRefinement` | the same without its consumer, whose responses and polls read the state and change no service; 160 690 states | `EngineKept`, `LimiterKept` |

Bounds. Two queries are the fewest that race for the cache, two subqueries of one
path the fewest that are reduced, three handlers of one query the fewest where a
verdict mixes two foreign results with its own. Under a limit of one, one of three
fetches is published and two are put back and return while the first ages and
expires; a batch of two and a batch of one are the smallest that overlap in the
scheduler both within a query and between queries; with two ticks an entry may be
fresh, in the window, or at its boundary, and half a day lies between two of them.
When its fetches are through a query is replaced, so that load above the limit goes
on for ever and waiting jobs always have competitors; the bounds on this load are in
`ReplaceQuery`: only while no process has died (what a death costs shows on the
fetches at hand), and only while fewer calls than the limit are in the window (a
fetch scheduled at any time finds the log closed, open, or expired, with the other
query's fetches and the delayed jobs around it). In `System`, under a limit of one,
one of the two fetches of the query always comes late, be the day one tick or
more, and then finds the log expired; jobs that are put back a second time are left
to `RateLimiting`. The traffic controller and the scheduler may die there at any time, and the
ages in between, and their restarts, are left to `RateLimiting`, empty answers and
the connector's restarts to `AggregationCompeting`, where queries compete.
`MaxSubqueries`,
`RequestLimit`, `Window` and `Delay` are the only numbers that bound the state;
`Workloads` lists what consumers may ask for. Window and delay are both a day in
the code and equal in the instances. A consumer POSTs each query once.

Two bounds are part of the scheduler's actions. Jobs of one fetch that fall due in
the same tick count as one (`jobs` is a set). And a job is taken only when what
the same fetch last published has arrived (`StartJob`): between the two lie a
stalled-job check of half a minute or a day, and a delivery takes milliseconds.

The deadlock check is off because the system stops when all queries are served or
their processes have died.

Fairness. `FairSpec` of `Aggregation` asks weak fairness of each async function
run by the event loop (a create request, a fetch, a cache update, a result
handler) and of nothing else: consumers need not come, SWAPI, databases and
callbacks need not fail, and nobody has to restart anything. That of
`RateLimiting` adds the passing of time, and strong fairness of the worker taking
a job that is due again and again, since the queue is first in, first out.
Progress is claimed as long as the processes it needs are running; it holds again
of whatever starts after a restart.

### Where the code and its documentation part

Each of these runs has one property, which TLC finds violated; the quotations
are in `PROJECT.json`.

| Run | What happens |
|---|---|
| `PendingIsProcessing` | a query stays PENDING with nothing in flight: the connector is silent about a resource cached meanwhile, or the last handler reads the cache before its update |
| `CompletedIsFinal` | a slower handler of the same query takes COMPLETED back to PENDING |
| `CompletedResultsAvailable` | a COMPLETED query is polled without some results: rows are filled from their own event, the verdict from the cache |
| `FetchSurvivesOutage` | a SWAPI error ends the connector and loses the fetch |
| `SlidingWindow` | with the limit reached nothing slides: expired entries count until the next fetch is logged or the key expires |
| `LimitRespected` | fetches checked before earlier ones are counted exceed the limit |
| `EventuallyPublished` | a due job is put back for another day whenever a fetch that was asked for later is checked before it, for ever under a load above the limit |

`SerialLimit` and `DispatchContinues` say what remains of the last three: the limit
holds when checks and counts do not overlap; entries that have left the window do
not close the way for good; and as long as fetches wait some are published, though
not each of them.

Two more divergences are in the model and have no run. The body of the callback
carries the status as it was loaded, `PENDING` (`snapshot` of a handler, `status` in
`notified`), where `query.dto.ts` speaks of a query that has finished. And a callback
server that gives no response ends the query manager (`CallbackUnreachable`): the
`catch` block reads the status of an error that has no response, where
`query-manager.service.spec.ts` says that an unreachable URL is safely ignored; its
mock rejects with a response.

## What is proved

For any sets of queries and paths, any payloads, any number of subqueries, any
limit, window and delay, and whatever may fail or be restarted:

| Module | Theorem | Statement |
|---|---|---|
| `AggregationProofs` | `Invariance` | `Spec => []IInv` |
| | `TypeCorrectness` | `Spec => []TypeOK` |
| | `CompletedDownloaded` | `Spec => []CompletedIsDownloaded` |
| | `NotifiedStored` | `Spec => []NotifiedIsStored` |
| | `RowsFirst` | `Spec => []RowsPrecedeFetches` |
| | `FetchedOnce` | `Spec => []FetchedOncePerQuery` |
| | `FetchesKept` | `Spec => []NoFetchLost` |
| | `RowsKeepResults` | `Spec => ResultsNeverLost` |
| | `IdsKnown` | `Spec => []GivenIdsAreKnown` |
| | `CompletedSeen` | `Spec => []CompletedSeenIsDownloaded` |
| | `ResultsStay` | `Spec => SeenResultsStay` |
| `QueryLifeProofs` | `EngineKeepsLife` | `Spec => LifeKept`, the refinement of `QueryLife` |
| `RateLimitingProofs` | `LimitInvariant` | `Spec => []IInv` |
| | `LimitTypes` | `Spec => []TypeOK` |
| | `NoCallForgotten` | `Spec => []UsageCoversCalls` |
| | `LimitKeptSerially` | `Spec => []SerialLimit` |
| | `SchedulerDispatches` | `Spec => DispatchKept`, the refinement of `FetchDispatch` |
| `SystemProofs` | `SystemInvariant` | `Spec => []IInv` |
| | `SystemKeepsEngine` | `Spec => EngineKept`, the refinement of `Aggregation` while the scheduler has not died |
| `SystemLimitProofs` | `SystemKeepsLimiter` | `Spec => LimiterKept`, the refinement of `RateLimiting` |
| `SystemGuarantees` | `SystemLimitKept` | `Spec => []SerialLimit` |
| | `SystemCallsCovered` | `Spec => []UsageCoversCalls` |
| | `SystemDispatches` | `Spec => Limiter!DispatchKept` |
| | `SystemFetchesKept` | `Spec => []NoFetchLost` |
| | `SystemTypes` | `Spec => [](SchedulerLives => TypeOK)` |
| | `SystemIdsKnown` | `Spec => [](SchedulerLives => GivenIdsAreKnown)` |
| | `SystemCompletedSeen` | `Spec => [](SchedulerLives => CompletedSeenIsDownloaded)` |
| | `SystemFetchedOnce` | `Spec => [](SchedulerLives => Engine!FetchedOncePerQuery)` |
| | `SystemNotifiedStored` | `Spec => [](SchedulerLives => Engine!NotifiedIsStored)` |
| | `SystemResultsStay` | `Spec /\ []SchedulerLives => SeenResultsStay` |
| | `SystemRowsKeepResults` | `Spec /\ []SchedulerLives => Engine!ResultsNeverLost` |
| | `SystemKeepsLife` | `Spec /\ []SchedulerLives => Engine!LifeKept`, the refinement of `QueryLife` |

The assumptions are those the modules declare on their constants. `SchedulerLives`
says that the scheduler has not died so far: after that it may have lost fetches, or
find a stalled job and publish its fetch again, and `Aggregation` takes it to do
neither. Where the run of `System` checks such a property without that condition, it
shows it of the instance only. The traffic controller may die, and come back, in all
of them; `SystemFetchesKept` says what that costs: the fetches whose check it left
unanswered, with a handler, with the worker that waits for ever, or as a job that
BullMQ considers done, and none of those that wait in the queue. The limit needs no
condition on deaths.

`Aggregation`: `CompletedIsDownloaded` is not inductive, since a handler completes
a query on copies it made earlier, of the event and of the cache. `IInv` says
where each copy comes from. Stored rows follow the stages of creation
(`StagesInOrder`); only targets of answered queries are ever fetched
(`TouchedAreTargets`), each in one place at a time (`OneFetchEach`); results in
flight, in handlers and in rows are what SWAPI answered (`ResultsAreLogged`); a
cache read says "data" only of what is cached (`ReadsAreCached`), and the cache
holds only what was downloaded (`CacheIsDownloaded`); consumers were told only
what the rows, or the cache, held (`AnswersHold`, `ConsumersKnow`). There is a
lemma per conjunct, with a step per action; `Invariance` puts them together.
`FetchesKept` needs in addition that each path without data has a target
(`TargetOnEveryPath`, the least position on the path, by well-foundedness of the
numbers) and that a fetch in the pipeline moves on until its path is cached
(`PipelineStep`).

`EngineKeepsLife`: under `IInv`, every step of the engine is one `Serve`, `Judge`,
`Record` or `Answer`, or changes none of their variables. The step that matters is
`HandleResultSaveQuery`, whose verdict has to be one of `QueryLife`'s, although it
was reached on stale copies.

`RateLimiting`: `IInv` has two parts. The control part says where a fetch may be:
an event is the only trace of its fetch (`EventsAreFresh`), a fetch is not checked
while its last publication is under way (`NoneTwiceInFlight`), it is queued once
as long as the scheduler has not died (`HeldOnce`), and the worker returns a job
only when its fetch is published or queued again (`ReturnedJobs`). The counting
part relates calls, entries and events in flight age by age, because a tick ages
them all together (`UsageCoversCalls`); the key never expires before its entries
(`KeyOutlivesEntries`); and what was found under the limit still fits in it
(`AllowedWithinLimit`), from which `SerialLimit` follows. `SchedulerDispatches`
maps each action to a step of `FetchDispatch` by what it does to `Held`.

`System`, the engine's side: its `IInv` makes `Held` precise, as long as the
scheduler has not died (`HeldInOnePlace`). An event is the only trace of its fetch in
the scheduler (`EventsAreFresh`), a fetch is queued once and not while it is checked
(`JobsAreSingle`), one whose check was not answered stays where that left it
(`UnansweredAreLeft`), and only answered queries leave traces (`TracesAreAnswered`),
so that what `ScheduleFetches` emits is new and what `RequestNow` publishes leaves
`Unpublished` altogether. Steps that do not touch the scheduler's events are quiet
(`QuietStep`): they keep the invariant and what is unpublished, and each is the same
action of `Aggregation` on `EngineNet`. Of the scheduler's own steps, `RequestNow` is
the engine's `Dispatch`, and the engine sees none of the others, nor the death of the
traffic controller, which turns fetches that are held into fetches that are given up.

`System`, the limiter's side: no invariant is needed but the types of `creating`
and `createRead` (`CreationTypeOK`). What is emitted to scheduler and traffic
controller on the one broker is what is emitted on `LimiterNet` (`EmittedWithin`);
their own steps are the same steps there, and of the engine's only `ScheduleFetches` reaches
them, once for each query, as `creating` shows that it has not happened before; the
targets of a query that is answered change no more.

`SystemGuarantees` cites the theorems about `Aggregation` and `RateLimiting` through
an instance of their proof modules with the substitution of `Engine` and of
`Limiter`. What the components assume of their constants is proved of the
substituted ones (`EngineServiceSet`, `LimiterWorkloads`, ...); `SystemIsEngine` and
`SystemIsLimiter` show that the instance is the one the refinement is about. Since a
theorem about all behaviours of the engine says nothing of the beginning of one in
which the scheduler dies later, the invariants are carried over step by step
(`StepOfEngine`, `EngineInvariance`). For `SystemFetchesKept`, `PipelineWithin` finds
each fetch of the engine's pipeline in the system: on `EngineNet`, in the delayed
queue, or given up.

Only model-checked: liveness under fairness (`EventuallyAnswered`,
`EventuallyCached`, `EventuallyStored`, `DispatchContinues`), which is out of the
prover's reach.

## Not modelled

* The throttler of the gateway: its counters are the framework's, and a request it
  refuses changes nothing else.
* HTTP logging, interceptors, exception filters and validation pipes: no state.
  What a filter does to an error is in the `"error"` and `"unknown"` responses.
* The bootstrap of the services and their configuration: what they decide (core
  NATS, the request limit, one worker) is in the constants and the actions. Mocks,
  stubs and tests are not part of the running system.
* An outage of the Redis that holds the scheduler's queue: what BullMQ then does
  with a command is not visible in the repository.
* The expiry of the cache. `README.md` speaks of a time to live of 24 hours, and
  `mongo-init.js` creates an expiry index on `createdAt`; but no document has that
  field, so that none expires, as in `CacheManager`.
* That two queries do not download one resource twice: they do, when both fetches
  miss the cache; `FetchedOncePerQuery` is what holds.
