# Gonio in TLA+

A verification project for this repository: a Go service (gin, gorm on MySQL, go-redis, watermill on
Redis streams) with product endpoints behind a cache, sessions, a rate limit, a health check, a
message queue, a chain of middleware and an orderly shutdown. The modules model the control of that
code; TLC checks them on small instances and TLAPS proves the main invariants for every value of the
constants. `PROJECT.json` has the machine-readable index: for every definition the source lines it
models, for every run its properties, for every property a plausible bug (a mutant) that breaks it,
the list of hazards, and the theorems.

## 1. The system

| Part | State | Operations | Interacts with |
|---|---|---|---|
| Product endpoints (`handler/product_handler.go`, `service/product_svc.go`, `repository/product_repo.go`, `pkg/cache/*`, `pkg/req/page.go`) | table `products`; Redis keys `product:<id>`; one `singleflight.Group` per process | Get, Create, Update, Delete, List | MySQL, Redis, net/http (contexts), the rate limit in front of them |
| Rate limit (`pkg/ratelimit`, `middleware/ratelimit.go`) | one counter with expiry per client, method and route, in Redis | the Lua script, Allow, the middleware | go-redis (retries), Redis (clock, expiry, restarts) |
| Health check (`router/router.go`, `svc/service_context.go`) | last result and its time, behind an RWMutex | GET /health | MySQL, Redis, request context |
| Message queue (`mq/*`, `handler/user_handler.go`) | a Redis stream and its consumer group per topic; the poison topic | publish after login, consume, retry, poison, trim | watermill, Redis, the process's life |
| Sessions (`service/user_svc.go`, `service/admin_svc.go`, `pkg/auth`, `middleware/auth.go`) | tables `users` and `admins`; the tokens clients hold | login, admission to the app and admin routes | MySQL, the clock |
| Process life (`cmd/server/app.go`, `cmd/server/main.go`, `database/*`, `config`) | what is open, HTTP server, message router, `errCh`, contexts and timeouts | open, start, signal, failure, close, drain, deferred closes | all of the above |
| Request pipeline (`router/*`, `middleware/*`, `pkg/response`, `pkg/errcode`, `pkg/i18n`, `handler/*`) | of one request: gin's position in the chain, status, headers, body, context | the seven global middleware, authentication, limit, handler, panic and recovery, the log entry | rate limit, health check, sessions, the queue (message id) |
| Everything else | read-only after startup | configuration, logger, message texts, validation wording | - |

What is hard in it, and what makes each part correct:

* **Product endpoints.** Reads fill the cache from a row read earlier; writes delete the key after
  the commit; either call can fail, a cancelled request context makes the delete fail while Redis is
  healthy, a process can die in between, and singleflight shares the leader's result *and its
  failure*. Correct means: one loader per key and server, nobody waits forever, an outage of Redis
  is invisible, a client is told of an error only for a leader that left, every stale entry has one
  of a few known causes, and an answer is never anything but the current value or one that still
  lingers. The list is two statements without a transaction, and a client reads it page by page
  while rows come and go. Correct means: a page agrees with its total up to what changed between
  them, and a walk misses or repeats a row only for a deletion or an insertion.
* **Rate limit.** Two windows meet; replies get lost and the script runs twice; Redis restarts
  empty. Correct means: a bound over *any* interval and not only over a window, no unmetered request
  on routes that fail closed, an honest `Retry-After`, and a window that nobody can extend.
* **Health check.** Checks overlap and no lock is held during pings. Correct means: an answer is
  never older than the second it is cached for.
* **Message queue.** Length limits delete what nobody has read; calls fail with and without effect;
  consumers die holding entries. Correct means: the newest entries are never lost, nothing leaves
  the pending list unsettled, a handler runs again for an entry only because something failed or the
  entry was left lying, everything is settled in the end.
* **Sessions.** No token is revoked and no request reads the account again. Correct means: who gets
  in had an enabled account of the right table recently, equal ids notwithstanding.
* **Process life.** Two waits with timeouts of their own follow each other while requests still
  arrive, and every step of the startup can fail after others opened something. Correct means: a
  clean exit has cut nobody, the grace periods are kept, nothing is closed under a handler that is
  due time, what earlier steps opened is closed whichever step fails, the exit is bounded and always
  comes.
* **Request pipeline.** What a request gets depends on the order of the `r.Use` calls, on who aborts
  and who only writes, and on what a panic skips. Correct means: one complete answer, one log entry
  that agrees with it, no gate passed by, and a service that gets no object which did not arrive in
  full or ends beyond the limit, although the logger has read the body first.

## 2. The modules

| Module | What it is |
|---|---|
| `ProductCache` | the product endpoints, one process per request, one step per call to Redis or MySQL or inside singleflight |
| `ProductList` | extends `ProductCache` by the list: query parsing, Count, Find, and clients that walk through the pages |
| `LingeringStore` | the abstract specification of those endpoints; `ProductCache!KeepsPromise` instantiates it with a refinement mapping |
| `RateLimiter` | script, Allow and middleware, with the clock of Redis |
| `HealthCheck` | the handler of `/health` |
| `MessageQueue` | one topic: login goroutine, stream, trimmer, consumer group, middleware |
| `LossyQueue` | the abstract specification of that topic; `MessageQueue!KeepsMessages` instantiates it with a refinement mapping |
| `Session` | logins, tokens, admission |
| `Shutdown` | the life of the process: the startup, `App.Run` and the deferred calls of `main`, composed with requests, message handlers and publishing goroutines as far as stopping concerns them |
| `Pipeline` | one request through the chain of gin handlers and back |
| `MC*` | instances for TLC: model values and symmetries, no definition of the models is replaced |
| `*Proofs` | the theorems of a component; `ProductListProofs` goes on from `ProductCacheProofs` |

### ProductCache

A request (`Req`) is a goroutine; `pc` says which call it makes next, `buf` holds the product it
carries, `gone` is its cancelled context. `db`, `cache` and `flight` are the table, Redis and the
singleflight groups (one per server). A product is the function from its fields to the number of
the write request that last set them: bodies are told apart, their text is not, which is what lost
updates need; 0 (`Unset` for a whole row) is what a field holds that no request has set. The
servers start over a table that may already hold products, with an empty Redis. An id is inserted
at most once and can be soft-deleted, as MySQL numbers and gorm deletes them.

`CacheGet` - `Join` - `Recheck` - `Load` - `Fill` - `Finish` are `GetOrLoad` in its order:
GET, `sf.Do`, the second GET of the leader, the query, SET, and the return that wakes all waiters.
`Bind`, `Insert`, `Save`, `SoftDelete` and `Invalidate` are the writing handlers; an update reads
through the cache first (`AfterRead`) and binds after it, as the code does. `Save` is `db.Save`:
when no live row matched it falls back to an upsert of all columns, `deleted_at` included, so a
concurrent update can bring a deleted product back. In that insert gorm writes the default of the
column for a field that is zero (`Defaulted`: `status`); which bodies hold a zero is left open
(`Saved`). A write may fail without effect, or take effect although the caller sees an error.
`Resend` is an attempt at a SET or DEL that times out: it took effect and its reply was lost, or it
is still under way, in `late`, and `Arrive` executes it later, wherever its request is by then. go-redis
makes another attempt, or gives up. `taint` is a history variable: it records that one of the known
causes left a stale entry behind, and every store or removal of the entry resets it.

The mapping to `LingeringStore`: the current value of an id is what a query of the live row finds,
its visible values (`visibleShown`) are that one, the cached one, those running requests still
carry, and those a late SET is still going to store; `asked` is the id a request is about and `replied` the answer of a finished read. The mapping
is written as named definitions, because the proof cites them.

### ProductList

`Ask` - `Count` - `Find` is a list request, `Others` a step of `ProductCache` before, between or after its
statements. `PageOf` and `SizeOf` are `ParsePage`, `Atoi` clamps as `strconv.Atoi` does when its error
is ignored, and `Offset` overflows as an int of the build does (`MaxInt` is small in the instance).
The rows of a page are the set of their ids: the order is the one of the ids, which are numbers, so
what a page of `ORDER BY id DESC LIMIT n OFFSET m` shows is said by the `Rank` of a row, the number
of live rows with a greater id. That avoids the recursive sort of the library, and with it what
kept proofs away from this module. `IdAssumption`: ids are naturals, and a table has no more rows
than an int counts.
The walk is a client of the environment: one that asks for page 1, 2, 3, ... of one size until a page
is short. `walk` records what it has seen, the rows that were there all the time, and how many rows
came and went; `moved` counts those between the two statements. Ids need not grow from insert to
insert: the properties hold without it.

### RateLimiter

`Eval` is one run of the script, atomic as Redis runs it: INCR, PEXPIRE for a new counter, PTTL and
the comparison. `Lose` loses the reply (the request has counted!), whereupon go-redis sends the
script again up to `MaxRetries` times; `Unreachable` is an error without effect. `Verdict` and
`OnError` are the middleware. A tick stands for a millisecond, `Second` for the unit of
`Retry-After`; Redis keeps a key up to and including the millisecond of its expiry, which is why
`Alive` has `<=` and the interval of `WindowBound` is closed. `Flush` is Redis restarting without
its data; `since`, `allowed`, `passed` and `last` are history.

### HealthCheck

`Arrive` takes the handler's `now` first, `Lookup` copies the cached result under the read lock and
compares it with that time, `Ping` is one ping (MySQL, then Redis) with the request's context,
`Store` writes under the write lock, dated with the start of the handler. `upAt` and `downAt`
record when a dependency was last up and when each cause of failure was last there; the causes
are the two dependencies and a client that left in the middle of its own check.

### MessageQueue

An entry is known by its position in everything ever added; the stream holds `trimmed + 1 ..
Len(log)`, the group was given those up to `delivered`, and `owner` is the pending list. `Publish`
is the goroutine of a login: XADD with MAXLEN ~ that deletes as much as Redis likes down to the
limit, fails, or takes effect with a lost reply. `Trim` is one XTRIM of the trimmer, which deletes
down to the limit exactly (Redis, asked for an approximate one, trims by whole nodes and may delete
less).

A subscriber reads ahead. `Fetch` (XREADGROUP) and `Claim` (XPENDING, XCLAIM) happen whatever the
handler is doing; the entry becomes pending for the consumer and waits in one of its places
(`Place`, `ahead`) until `Begin` gives it to the handler, in no fixed order. So the idle time of an
entry runs while it waits, and while its handler runs: `Idling` lets every pending entry become
claimable, for anybody, its own consumer included, at the price of one of `MaxFaults`; only what a
crash left to nobody is claimed for free. `Handle` and `Poison` follow the order in which `NewRouter`
adds its middleware: Retry, added first, is outermost, so PoisonQueue sees a handler's error first.
`Ack` is XACK, `Crash` the end of the process and its restart under new consumer names.

`failures` counts what failed so far: calls, crashes and expired idle times. `ran` counts, for each
entry, the runs of a handler; `RunsHaveCauses` relates the two. A handler's own error is not among
the causes, because the poison queue swallows it.

The mapping to `LossyQueue`, which knows neither groups nor consumers nor crashes: `cut` is
`trimmed`, `settledShown` is what was handled or poisoned, and `lostShown` is what is neither settled
nor `Reachable` any more, that is, neither in the stream with a delivery to come, nor pending there,
nor in the hands of a consumer. An entry that was deleted while a consumer works on it can still be
settled, and is not lost yet. The abstract queue allows a step to shorten the stream and to lose
what was cut off; it never loses anything else, and nothing lost or settled changes any more.
Losing a message without any limit, acknowledging one before it is settled, or settling one whose
loss was already certain would each be a step `LossyQueue` does not have.

### Session

`Read` - `Compare` - `BuildToken` are a login: the status is read before the slow password
comparison and the token is issued after it. `Enter` is the middleware of the app and the admin
routes. `Disable` comes from outside: nothing in the repository changes the status of an account.

### Shutdown

`LoadConfig` to `MakeRouter` are the fallible steps of `run` in `main.go`; each succeeds or makes
`run` return its error (`GiveUp`). `open` is what is open: MySQL, Redis, the publisher, and the
publisher of the poison queue. `defers` is how many deferred calls are due; `CloseResource` makes them in
reverse order. The two differ. A step that fails after it opened something defers nothing
(`leaks`): `InitMySQL` and `InitRedis` leave the pool or the client open when the ping fails, and
`NewRouter`'s poison publisher is closed by nobody, whether the router is made or not. A signal ends
the context only while `App.Run` runs; before `NotifyContext` and after its `stop`, the first
deferred call, it kills the process (`Kill`). `Accept` goes on after `ListenFails`: the listener is
gone, but the connections that are open serve requests until `httpServer.Shutdown`. `Leave` is the select of
`Run`; `CloseRouter` waits for message handlers up to the router's own timeout; `CloseListener` and
`Drain` are `httpServer.Shutdown`, whose deadline was set before the router was closed; `Exit` is the
end of the deferred closes. Time counts from the moment `Run` leaves the select and passes only while
the main goroutine waits. That the library's publishers and subscribers, when they close, leave the
shared Redis client alone is an assumption about code outside the repository, and one to check
against the pinned release: a subscriber that closed the client with itself would take Redis from
the requests that are still due their grace.

### Pipeline

`index` is gin's position in `Chain(route)`, `frames` the middleware that wait in `Next`. The three ways a
handler can end are `CallNext`, `Leaves` and `Abort`: one that returns without either of the others
lets gin's loop go on, which is why a refusal that only writes would not stop the request. A handler
that panics leaves the frames through `Unwind` until `Recover` answers; `Return` is the way back, on
which the logger writes its entry. `Write` sends the headers as they are at that moment.
`status` is what gin would send, 404 from the start where no route matches. `Publish` is the goroutine a
login leaves behind, with the gin.Context for its context. Routes that differ in nothing modelled are
one; the verdict of the limiter and what the services return are open here, the other modules say
when which one comes.

Of a body the model knows how long it is, how much of it arrives (`arrives`) before the connection or
the encoding breaks it off, and where its first JSON object ends (`object`). `ShouldBindJSON` decodes that
object and looks no further; `MaxBytesReader` yields the bytes up to its limit and fails only the
read that crosses it (`Available`). `CanBind` is both: so a body above 4 MB is served when its object
ends before the limit, and a body that breaks off after its object is served too. The logger reads
the whole body before the limit is set, if its declared length is small or it has none, and
drops the error of that read (`middleware/reqresp_logger.go:44`): what is put back ends where the
body broke off (`Restored`).

Abstracted: the weights of Accept-Language, which the code ignores; a panic after the answer was
written. gin answers a path that differs from a route in its trailing slash with a redirect, before
any handler is called: the properties of this module speak of the requests of the chain.

## 3. The runs

| Run | Question | Instance |
|---|---|---|
| `product_faults` | Do singleflight, the explanation of stale entries and the abstract store survive everything at once? | 2 requests, 2 servers, 1 product of 1 field, there from the start or not, 2 writes; Redis, database, disconnects, crashes, 1 late command |
| `product_live` | Is every error of a connected client due to a leader that left, is everybody answered, does the cache heal? | 2 requests on 2 servers, 1 product, 1 write, 1 late command; Redis failing at will, clients leaving |
| `product_list` | What may a list or a walk show while rows come and go? And is every read current when nothing overlaps and nothing fails? | 1 writer, 2 products, there from the start or not, 3 writes; pages asked for as 0 (which means 1), 2, 3 and one out of range, sizes as 1 and 0 (the default, 2), ints up to 7 |
| `rate_limit` | Do all bounds hold with retries, outages and restarts? | 2 requests in progress, 3 in all, 2 keys, limit 1, window of 3 ticks, a second of 2, 5 ticks of time |
| `health` | Is every answer true of the last second? | 2 requests, TTL of 2 ticks, 4 ticks of time |
| `queue` | Are the newest entries safe, does a handler run again only for a cause, does the queue implement `LossyQueue`, and is everything settled in the end? | 2 logins, 2 consumers that read 1 entry ahead, limit 2, 1 retry, 2 faults, 4 entries; handlers that fail, entries left lying, Redis errors, crashes |
| `session` | Is admission always recent and in the right table? | 2 clients, a user and an admin of equal id |
| `pipeline` | Is every request answered once, completely, logged as answered, through all its gates, and served only with an object that arrived in full within the limit? | every route with 4 tokens, 3 origins, 2 request ids, 2 language lists; every route that binds with bodies of 0 to 3, breaking off anywhere, with an object ending anywhere, around a log limit of 1 and a body limit of 2, declared or not, binary or not |
| `shutdown` | Clean exits, grace, bound, resources and end, whatever step of the startup fails and whenever a signal comes | 2 requests, 2 message handlers, timeouts 2 and 4 |
| `queue_retry`, `queue_trim`, `pipeline_trace` | three statements of the documentation that the code does not keep | see section 6 |

Why the bounds are enough for the interesting cases: two requests are what a race between a loader
and a writer, two writers, a leader with a waiter, or an update and a delete needs. With one field
an update already writes back what it read, when its body leaves the field alone. Since the product may
be there from the start, two writes are two competing updates, or an update and a delete, or a
create and what follows it; liveness needs one write next to a reader. One command that arrives
late is enough to arrive after the DEL that should have removed what it stores. In the list two rows
on pages of one and two give walks of one to three pages, and three writes to rows that are there or
not insert, change and
delete one at each place of a walk; page 9 is out of range, and with ints up to 7 `(page-1)*size` overflows. `PageFitsTotal`
speaks of the pages whose offset fits an int: an offset that overflowed to a negative number is not
sent to MySQL at all, and such a page shows the first rows. A limit of 1 is the limit of the routes
in the repository (the script is the same for any limit, and the bound is proved for all), three
requests fill two windows and more. Two checks overlap in every order within twice the TTL. Four
entries (two logins, two XADDs sent again) with a limit of two make the limits bite
while entries are unread, pending and settled. One place per subscriber lets an entry wait, and be
claimed by the other consumer or by its own, while the handler works on another one; the theorems
hold for any number of places. In the pipeline one request is enough: requests share
nothing there. Budgets such as `MaxFaults`, `MaxEntries`, `MaxLate`, `MaxArrivals`, `MaxNow` and `MaxStamp` are
guards of the corresponding actions; no property is conditional on a budget being exhausted.

`CHECK_DEADLOCK FALSE` appears where the system may stop: the clock and the number of requests
of the rate limit are bounded, logins of the queue and the request of the pipeline come to an end,
and a process that has exited takes no step.

Symmetry (requests, servers, fields, clients, ids) is used in runs without liveness
properties only.

**Fairness.** `product_live`: weak fairness of each request's steps (handlers run to their end,
every call to Redis and MySQL has a timeout), of the expiry of an entry with a time to live, and of
the execution of a command that Redis was sent (`Arrive`). Clients owe nothing: they need not send, they may leave at any time, and Redis may fail
every single call. `queue`: weak fairness of each consumer (handlers return; the subscriber's
goroutines go on), faults come from a finite budget; publishing and trimming are not fair.
`shutdown`: weak fairness of the main goroutine and of the clock only - no handler and no request
need ever end.

## 4. What is proved

All theorems hold for every value of the constants that satisfies the named assumptions of the
modules (`Nat` limits, distinct model values). The bounds `MaxNow`, `MaxStamp`, `MaxEntries` and so
on are arbitrary naturals in the proofs.

| Module | Theorems | Argument |
|---|---|---|
| `ProductCacheProofs` | `TypeCorrect`, `OneLoaderPerKey`, `NoOrphanWaiter`, `StaleEntriesExplained`, `AloneReadsAreCurrent`, `AloneDeletesLast`, `FailuresHaveCauses`, `EndpointsKeepPromise` | Types need `HoldsWhatItNeeds` (a loader stores only values, an update goes on only with a product). `SingleLoader` and `WaitersHaveLeader` are inductive together with the fact that the one recorded in `flight` is at a leading step for that key. `StaleExplained` is inductive because a write moves its own request to `del` and because every other way to become stale sets `taint`. The last two assume `Solo`, one request at a time and no faults, for any number of products, fields and writes: what the one request carries is what the database shows (`InSync`), and no command is late, so the only stale key is the one it is about to delete. `buf` turns to `Failed` only in the last step of a flight, whose failure came from the leader's own cancelled calls. The refinement has one lemma per action: it maps to `Forget`, `Commit`, `Asking`, `Reply` or a stutter of `LingeringStore`; every value a request or a late command carries is among the visible ones, which is the invariant the lemmas need |
| `ProductListProofs` | `ListChangesNothing`, `ListTypeCorrect`, `PagesAgreeWithTotals`, `WalkTellsTheTruth` | A list request changes nothing of the store, so the theorems above hold next to it. A page is two prefixes of the rows by rank; `FirstRowsWithout` says that a row less moves at most one other row across the end of a prefix. Two invariants follow. `CountHolds`: between the statements the number of live rows differs from the total by at most `moved`, which Find turns into `PageFitsTotal`. `WalkInv`, with `Behind` for the rows that now stand where the walk has been: every row that was always there and is behind the walk unseen is paid for by a deletion; the repetitions so far, plus the rows seen that an insertion pushed in front of the walk again, are paid for by insertions |
| `RateLimiterProofs` | `TypeCorrect`, `WindowsKeepTheirEnd`, `LimitHoldsOverAnyInterval`, `NobodyPassesUncounted`, `RetryAfterTellsTheTruth` | The invariant counts the allowed requests of the living window: at most `Limit` of them since the window began, all others lie before its start; two windows never overlap in a closed interval, so `2 * Limit` allowed requests span more than a window. The requests let through where the limit fails closed map one to one, with their times, into the allowed ones (`MeterInv`). The one refused last knows the end of the living window, and nothing moves it (`HonestInv`) |
| `HealthCheckProofs` | `TypeCorrect`, `HealthyAnswersAreRecent`, `UnhealthyAnswersAreRecent` | A result, cached or about to be stored, was true at a time not before the start it is dated with; the recorded times never move back, so a late store of an old result keeps the invariant |
| `MessageQueueProofs` | `TypeCorrect`, `PendingUntilSettled`, `NewestKept`, `RunsCaused`, `QueueKeepsMessages` | What a consumer works on or holds in a place was delivered to it; a consumer about to acknowledge has settled its entry; both limits keep the newest entries in the stream. `RunsCaused` counts runs still to come: `Load` of an entry is the number of places it waits in, plus the consumers about to handle it, plus one if it is yet to be delivered or pending for nobody, and `ran + Load <= 1 + failures` is inductive: only a fault adds to the left side, and each adds one to both. The refinement needs two facts: what is neither settled nor reachable was cut off (`LostIsCut`, from `NothingDropped`), and no step makes such an entry reachable again. Fetch, Claim, Begin, Ack and Crash then map to `Forget` or a stutter, Publish to `Put` or `Forget`, Trim to `Forget`, Handle and Poison to `Settle` or a stutter |
| `SessionProofs` | `TypeCorrect`, `AdmissionsAreRecent` | A token's expiry is bounded by the last time its account was enabled, plus a login and a lifetime |
| `PipelineProofs` | `TypeCorrect`, `OneAnswer`, `LogTellsTheAnswer`, `NoGatePassedBy`, `BodyArrivesWhole`, `AnswersCarryHeaders` | `ChainInStep`: the frames are the first positions of the chain, in order, and who waits there tells what the request has passed; a panic can start in the handler only, so `Recovery` is always among the frames it unwinds and nothing was written before it. The body that reaches the handler is the one that arrived, read by the logger or not, and the limit wraps it by then |
| `ShutdownProofs` | `TypeCorrect`, `CleanExits`, `GraceHolds`, `ExitBound`, `ResourcesLast` | Nothing runs before `Run` does and everything is open from then on until the deferred calls. Once the listener is closed no request begins; an exit without error left `Drain` with no request running, or passed the deadline. For `ResourcesLast`: in each step of the startup `defers` counts exactly what is open, so the deferred calls close all of it but what the failing step itself left, or the poison publisher |

Only model-checked:

* liveness (`EveryRequestReplied`, `CacheHeals`, `EveryEntrySettled`, `Stops`): TLAPS does not
  handle fairness here;
* the three statements of section 6, each refuted by one counterexample.

`SequentialReadsAreCurrent` and `DeletedStaysDeleted` are about one client without faults and are false
otherwise (see below); `product_list`, with its one writer, is an instance of their assumption `Solo`.

## 5. What the checks say about the code

* An update of a product is based on a copy read through the cache and writes every column back.
  Concurrent updates lose fields, an update based on a stale cache entry does so without any
  concurrency, and an update racing a delete revives the product: the `ErrRecordNotFound` branch of
  `productService.Update` cannot be reached from `db.Save`. That revival also turns a status of 0 into the
  default 1 (`model/product.go:10`). `LingeringStore` therefore allows an
  update to be based on any value that still lingers, and `DeletedStaysDeleted` is checked and
  proved for one client only.
* A failed load is shared: a client that is still there gets a 500 because the client whose flight
  it joined has left. `FailureHasCause` shows that with the database healthy this is the only way to
  one.
* The list is cut by offset, so a deletion between two pages hides a row and an insertion repeats
  one; `WalkShowsTheList` bounds both. A page so large that its offset overflows is answered with
  the first rows.
* A body of unknown length is read into memory whatever its size, against the comment at
  `middleware/reqresp_logger.go:114`: the logger runs before the limit, and the length -1 passes its
  comparison.
* Staleness lasts at most as long as the entry (`CacheHeals`), because every entry has an expiry.
* The rate limit allows `2 * limit - 1` requests in an interval of one window; with the limit of 1
  used by the routes that is one.
* A body above 4 MB is served when its JSON object ends within the limit, and one that broke off is
  served when its object arrived in full: `BodyIntact` says exactly which objects are accepted. The
  limit bounds what is decoded, not what a client may send.
* Some things stay open. A MySQL that does not answer its first ping keeps its pool
  (`database/mysql.go:86-88`), a Redis that does not keeps its client (`database/redis.go:110-112`), and
  the publisher of the poison queue (`mq/router.go:32`) is never closed. `ResourcesOutliveUsers` names
  these three and excludes everything else; the process ends right after, so nothing comes of them.
* A handler can run twice for an entry although no handler was slow: entries a subscriber has read
  ahead grow idle while they wait, and another consumer claims them. Handlers must be idempotent;
  `RunsHaveCauses` bounds how often it happens.
* A process that fails, at startup or later, logs the error and exits with status 0
  (`cmd/server/main.go:23-28`): whoever supervises it cannot tell.
* Retry-After is honest for a client that keeps quiet.
* A client that leaves in the middle of its health check makes the service report itself unhealthy
  to others for up to a second (the cancelled context is cached). `UnhealthyIsRecent` counts this as
  one of the causes of an unhealthy answer.

## 6. Disagreements with the documentation

Three are runs whose counterexample is the finding:

* `queue_retry`: `docs/MQ_USAGE.md:58` says "失败消息自动重试 3 次" (failed messages are retried 3 times) and line 59 "超过重试次数的消息进入
  `mq.poison` 队列" (messages beyond that number go to mq.poison); the order of `AddMiddleware` sends a message
  to the poison queue on its first error.
* `queue_trim`: `docs/MQ_USAGE.md:458` says that trimming affects consumed messages only; XTRIM
  MAXLEN knows nothing of consumers. In the run the topic's own limit is 0, so that the publisher
  never shortens the stream and it is the trimmer, with the default limit, that deletes an unread
  entry. With a real Redis this takes a stream longer than a node, since the trimming is
  approximate.
* `pipeline_trace`: `docs/MQ_USAGE.md:462` says that a message's UUID is the request id. `Login` publishes
  with the gin.Context itself, whose `Value` knows the key of `mq/publisher.go:74` only with
  `ContextWithFallback`, which `Setup` does not set; every message gets a fresh UUID.

Others were met while modelling and have no run of their own: `nullCacheTTL`
(`service/product_svc.go:22`) is never used, the marker of an absent product gets the full expiry;
`topic_max_len: 0` means no limit to the publisher (`mq/publisher.go:35-38`) and the global limit to
the trimmer (`mq/trimmer.go:24-27`); `docs/MQ_USAGE.md:569` says that the wait for message handlers is
limited by `shutdownTimeout`, while the router has its own 30 seconds (`ExitIsBounded` is the bound that
holds); `/health` reports the cancelled context of one client to all (`router/router.go:64` and its
comment at line 37).

## 7. Not modelled, and the plan

Not modelled, because it holds no state or no choice: the logger and the log hooks, message texts
and validation wording, JSON layout. `middleware/logger.go` is not installed by `Setup`.
Configuration, wiring and migration appear as steps of the startup only: what the values mean is in
the modules that use them. Not modelled, because nothing calls it: `CreateUser`, `CreateAdmin`,
`setCache`, `WithTransaction`, a service without Redis and a limiter without client (`main` exits if
Redis cannot be reached at startup). Abstracted: signatures and bcrypt are perfect; the 3 s deadline
of the health check is a ping that may take any time; the mysql driver of the queue is a table of
the library, which the code only selects; topics do not interact and one is modelled; how
many entries a subscriber reads ahead is the library's affair and a parameter here; gin's redirects
for a trailing slash are answered before the chain.

Done: the core of every component with state, with a proof of every safety property the passing
runs check; the refinements of `LingeringStore` and of `LossyQueue`, with their proofs.

Left, in order:

1. compose the shutdown with the queue, so that what a consumer was doing when the process left is
   claimed after the restart (today `Crash` of `MessageQueue` stands for it);
2. compose the admission of `Session` with the product endpoints: an administrator disabled while
   an update is on its way.
