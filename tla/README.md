# Verification of newapi-ratelimit-gateway

TLA+ models of the gateway, TLC configurations that check them on small
instances, and TLAPS proofs of their main properties for every instance. Paths
and line numbers refer to the repository.

## 1. The system

The gateway is a FastAPI application in front of NewAPI. It runs as several
uvicorn worker processes; each is one asyncio event loop, so coroutines of one
worker interleave at every `await` and nowhere else, and workers share nothing
but Redis and MySQL.

| Component (source) | State it keeps | Operations | Interacts with |
|---|---|---|---|
| Request-mode quota (`app/ratelimit.py`, `lua/rate_limit_request.lua`) | per worker and user: `deque` of unflushed timestamps, `reserved`, `_redis_remaining`, `_last_flush_at`; in Redis one ZSET per window (5h, 7d, 30d) | `_check_request`, the script, `refund`, `_cleanup_quota_states`, `get_quota_status` | Redis by EVALSHA; the proxy calls `check` and `refund` |
| Local fallback (`_degrade`, `_local_window_allow`) | per worker and user: a deque of timestamps | allow, reject, refund | taken when a Redis call raises |
| Token-mode quota (`_check_token`, `deduct_tokens`, two scripts) | in Redis one counter with a TTL per window | check before, deduct after the upstream call | the proxy extracts the usage |
| Redis calls and circuit breaker (`_call_script`, `_load_scripts`, `ping`, `app/resilience.py`) | `_state`, `_failures`, `_opened_at`, `_probe_inflight`; the script cache of Redis | EVALSHA with a reload and retry on NOSCRIPT, half-open probe, `/health` ping | every script call passes through it |
| Resolver (`app/resolver.py`) | per worker two L1 caches (TTL, LRU, negative entries) | `_resolve_group`, `_resolve_config`, write-back | L1, then Redis, then MySQL |
| Synchroniser (`app/sync.py`) | none | copies enabled tokens and groups to Redis, in every worker | MySQL, Redis |
| Admin API (`app/admin.py`) | the group table | create, update, disable a group; list; trigger a sync | commits to MySQL, then writes Redis |
| Proxy (`app/proxy.py`) | per request: `refunded`, SSE buffer, usage | forward, stream, refund on failure, deduct tokens | limiter, resolver, NewAPI |
| Health, status, life cycle (`app/main.py`) | none | `/health`, `/ratelimit/status`, start and stop | all of the above |
| Configuration, tables, schemas, web page, smoke test, deployment | settings and markup | none of their own | |

What is hard here: the quota is split between Redis and the memory of several
workers; the deque is read before an await and cleared after it; refunds meet
flushes that carry what they give back; a Redis call may fail before or after
it took effect; workers restart and states are evicted; one breaker is shared by
calls of different ages; the three-level cache is written by lookups, syncs and
admin requests in any order.

What makes each part correct:

* request quota: no admission is forgotten; admissions stay within the
  documented overshoot; a refund gives back what was taken, and a failing one
  costs one request for one window; nobody is refused while quota is left; the
  limit can be used up;
* Redis calls: at most one probe; the probe flag never outlives its probe; the
  breaker closes once Redis is back; losing the scripts degrades nobody;
* caches: bounded staleness; "absent" means confirmed absent;
* token quota: usage of every answered request is counted, in a window that
  slides; the check of the limit bounds what passes;
* proxy: a request that failed is refunded once, a request that succeeded never.

## 2. Modules

| Module | What it is |
|---|---|
| `QuotaLedger` | abstract specification: the quota a user has taken, as seen from outside |
| `RequestQuota`, `MCRequestQuota` | the request-mode quota of one user across workers, within one window; implements the ledger |
| `SlidingWindows`, `MCSlidingWindows` | the same quota over time: expiry, trim, fallback window, failing refunds |
| `Gateway`, `MCGateway` | the life of a request in the proxy, and the token mode; implements the ledger |
| `RedisCalls`, `MCRedisCalls` | one worker's script calls, breaker, reload, ping |
| `ReadThrough`, `MCReadThrough` | L1, Redis and MySQL for one cache key, with syncs and admin requests |
| `RequestQuotaProofs`, `RefusalProofs` | theorems about `RequestQuota`: that nothing is forgotten, and that nothing is charged or refused wrongly |
| `SlidingWindowsProofs`, `GatewayProofs`, `RedisCallsProofs`, `ReadThroughProofs` | theorems about the other modules |
| `Totals`, `TotalsProofs` | the total of a function over a finite set, and facts about it |

How they fit together. `QuotaLedger` is the interface between limiter and
proxy: it says that a request takes quota below a capacity, gives it back at
most once, to the user it was taken from, or leaves it taken. `RequestQuota` shows
it from the limiter's side, with the capacity that the documentation promises
(tightest limit plus (workers-1) x batch) and with what dies in a worker as
`lost`. `Gateway` uses the limiter as that ledger, with any capacity, and shows
that the proxy keeps to its part. Below the limiter, `RedisCalls` is what
becomes of one EVALSHA: its outcomes (answered, degraded, raised) are the ones
that `RequestQuota` and `Gateway` choose among. Above it, the policy that
`ReadThrough` serves is the variable `view` of `Gateway`, which may change at any
time between the three lookups of one request.

Definitions named "A mutation" are plausible bugs. No specification uses them;
`PROJECT.json` says which definition each replaces and which property must then
fail.

### RequestQuota

A *task* `<<w, k>>` is a request of the user at worker `w`. Its `pc` says which
await it is at: `sent`/`executed` (EVALSHA before and after Redis ran the
script), `upstream` (NewAPI), `denied` (the 429 or 503 is on its way),
`refund5h/7d/30d` (the next ZREMRANGEBYRANK of a refund). Every other action is
what the event loop does between two awaits:

| Action | Code |
|---|---|
| `CheckDenyLocal`, `CheckConsume`, `CheckPrefetch` | `_check_request` up to its await or return |
| `ExecScript` | the whole Lua script, atomic in Redis |
| `ReceiveDeny`, `ReceiveGrant` | `_check_request` after the await |
| `Degrade*` | the `except` branch and `_degrade`; enabled before and after `ExecScript`, so that both a lost call and a lost answer occur |
| `RefundNothing`, `RefundFallback`, `RefundLocal`, `RefundRedis`, `RefundWindow`, `RefundAborts` | `refund` |
| `EvictState`, `RestartWorker`, `SnapshotExpires` | `_cleanup_quota_states`, a crash, time |

Abstractions. Nothing expires within the module, so a
ZSET and a deque are their sizes, and the oldest-first order is not needed
(`SlidingWindows` has both). The
members of a ZSET are taken as distinct (`math.random`, Lua line 37).
`remaining`, which is shown to clients and decides nothing, is left
out. The limits do not change. `OnRedisError` is the set of
settings a run covers: a failing call may be treated as any of them says.
`MaxPrefetch` bounds the prefetches one worker
has in flight; the code has no such bound, and values 1 and 2 separate the
properties that need it. A dead worker's call that Redis has not yet run does
not run. `EvictState` covers the sweep of idle states and the clearing of all states
beyond twice `_MAX_TRACKED_KEYS`, of users without a call in flight.
`admitted` counts admissions by quota that were not refunded; degraded
admissions are not quota. Four history variables keep the books that the
properties compare: `dropped` counts timestamps that died in a deque, `stranded`
those that a flush counted although their requests had been refunded while it was
under way, `reply_misses` and `snapshot_misses` the removals from the 5h ZSET that
an answer on its way, or a worker's snapshot, does not know of.

*The condition on prefetches.* `EveryAdmissionCounted`, `OvershootBounded`,
`LocalDenyOnlyWhenExhausted`, `PhantomUsageBounded`, `NoFalseDenial` and
`ImplementsLedger` are checked with `MaxPrefetch = 1` and proved under `NoOverlap`:
they hold for workers that make one prefetch at a time. Nothing in the code
sees to that, and run `RequestQuota_overlap` shows that the bound is lost without it.

`NoFalseDenial` speaks of the steps that refuse. The script refuses only if in some
window `Charged(i)` has reached the limit at that moment: the admissions that were
not refunded, the refunds that have still to remove their member, and those that a
flush has overtaken. A worker that refuses by its snapshot may only do so if this
holds for the 5h window, counting what has been removed from Redis since the
snapshot. Refunds that are over and took effect excuse no refusal.

### SlidingWindows

A timestamp is its age in ticks, a ZSET or a deque the number of its members of
each age. The code keeps a timestamp in a deque until the next check of its
user, however late that is: the ages of a deque's members end with one that
stands for all that no window counts any more (`Oldest`).
`DenyLocal`, `Consume`, `PrefetchDenied` and `PrefetchGranted` are
`_check_request` with the trim at its start, `AnswerLost` a script that
ran for a caller that then degrades, `Degrade` the group-aware fallback
window, `Refund` the `pop` or the removal of the *newest* member of every
window; of its three commands any number may be carried out before one fails, none
while Redis is down, and then the rest is given up. A check is one step here
(its interleavings are in `RequestQuota`), and a tick is longer than the L1 TTL,
so it ends the freshness of every snapshot; `SnapshotExpires` also lets one end
between ticks. `granted` records every admission at its real time, `abandoned` every
failed one whose refund was given up in a window; that is what the properties compare
the counts with. `RefundErrorHeals` is the promise of `ratelimit.py:234-235` and `:279`: it
does not matter whose timestamp a refund takes, and one that is given up costs one
request in the windows it did not reach, until its request would have left them.

### Gateway

The requests are those of one API key; the users are the hash of the key, the
group, and `"nobody"`, the hash of an empty string. `pc` goes from `idle` over
`checking` (the token script is awaited), `admitted` (the body is read), `called`
(NewAPI), `answered` (tokens reported, third lookup under way) to `deducting`.
`Arrive` in its four forms is `check`; `Forward` the second lookup
(`need_usage_tracking`); `StreamRefused`, `CallFails`, `ClientLeaves` and
`ResponseEnds` the endings of `_proxy_normal` and `_proxy_stream`; `FindCharged`,
`NobodyToCharge`, `Deduct`, `DeductFails` the charging. A refused request is one
that stays idle. `used` and `idle` are the three counters of a user with their
common time of last renewal: `token_deduct.lua` sets all three TTLs at once.

Plain and streamed responses are one control flow: a plain response
does what a stream may do, without `StreamRefused`. `track` covers the injected
`stream_options` and the parsing: a response reports a number of tokens
(1..`MaxUsage`) or none.

### RedisCalls

The tasks are coroutines of one worker. `state`, `failures` and
`probe_inflight` are the breaker's fields, and `elapsed` is the comparison of
`_opened_at` with the clock, so half-open is `state = "open" /\ elapsed`.
`TryCall` is `allow()` and sending EVALSHA; `Receive*` are the return and the
`except` branch; `LoadOne` is one SCRIPT LOAD of `_load_scripts` (sending and
answering are one step), the last of them followed by the retry. `Cancel` is a
`CancelledError` in `deduct_tokens` of a streaming response. `Outage`,
`Recovery` and `ScriptsLost` are Redis. The breaker is enabled. How redis-py
names a NOSCRIPT error is external: the model takes `_is_noscript` to recognise
it, as `scripts/smoke_ha.py` raises it.

### ReadThrough

One key. `row` is its value in MySQL (`NoPolicy` without an enabled row),
`redis` and `l1[w]` cache entries with the ticks they have left, `got`,
`refreshed` and `synced` what a lookup, an admin request and a sync have read
and not yet stored. The key is a group; with `Admins = {}` and `OutsideWrites`
it is a key hash, whose table NewAPI writes and whose code (`_resolve_group`,
`sync_once`) has the same shape. The history variable `age` has, for every
value, the ticks since MySQL held it. A failing pipeline or admin push is the
case `~up`. An L1 entry may be evicted at any time (LRU).

`MaxDelay` bounds the time between reading a value and storing it. The code
sets no such bound (its clients have no time-outs of their own), so the
staleness bound reads: L1 TTL + Redis TTL + two such delays, however long these
are.

## 3. Runs

Each cfg gives the constants; a bound of the environment is named after what it
counts (`MaxRefunds`, `MaxRedisErrors`, `MaxLosses`, `MaxOutages`,
`MaxDbErrors`; `MaxTroubles` is one bound on several kinds together).

| Run | Instance | Shows |
|---|---|---|
| `RequestQuota_safety` | 2 workers x 2 requests, one prefetch each at a time, batch 2, limits 3/4/5, 2 refunds, 1 Redis error (`reject`) | `EveryAdmissionCounted`, `OvershootBounded`, `LocalDenyOnlyWhenExhausted`, `PhantomUsageBounded`, `NoFalseDenial`, `ImplementsLedger` |
| `RequestQuota_failures` | 2 x 1, batch 2, limits 3/3/4, all three settings on errors, 2 errors, 1 refund, 1 restart or eviction, fair | `TypeOK`, `EveryAdmissionCounted`, `QuotaFullyUsable` |
| `RequestQuota_overlap` | 1 x 2, two prefetches in flight | `OvershootBounded` is violated |
| `RequestQuota_refund_race` | 1 x 2, one prefetch, one refund | `NoPhantomUsage` is violated |
| `SlidingWindows_time` | 2 workers, batch 2, limits 2/3/3, windows of 2/3/3 ticks, one refund, lost answer or outage, fair clock | `TypeOK`, `ShortWindowOvershoot`, `RefusedOnlyWhenUsedUp`, `OutageOvershoot`, `RefundErrorHeals`, `NotLockedOut` |
| `SlidingWindows_trim` | the same with 1 worker, nothing fails | `AllWindowsOvershoot` is violated |
| `Gateway_requests` | 2 requests, capacity 1, token limits 1/2/2, windows of 1/2/2 ticks, usage up to 2, one policy change, Redis error or lost client, fair clock | `TypeOK`, `TokenOvershootBounded`, `UsageCovered`, `QuotaConserved`, `ImplementsLedger`, `TokensComeBack` |
| `Gateway_api_key` | 1 request, the key in either header | `UsageCovered` is violated |
| `RedisCalls_breaker` | 2 tasks, threshold 1, ping, any two of: an outage, a loss of the scripts, a cancellation; fair | `TypeOK`, `ProbeHasOwner`, `ScriptLossInvisible`, `BreakerRecovers`, `CallsReturn` |
| `RedisCalls_stuck_probe` | 1 task, no ping, outage, scripts lost once, fair | `BreakerRecovers` is violated |
| `ReadThrough_caches` | 1 worker, 1 lookup, 2 admin requests, outside writes, 2 policies, TTLs 1 (L1), 0 (negative), 2 (Redis), outage, MySQL error | `TypeOK`, `ServedIsRecent`, `AbsenceConfirmedWithoutErrors` |
| `ReadThrough_db_error` | outside writes, a MySQL error | `AbsenceConfirmed` is violated |

Why these bounds are enough. A batch of 2 is the smallest that leaves quota
behind at a worker; limits of 3, 4 and 5 are passed by two batches, so the
boundary and the last, smaller prefetch occur; two requests per worker are
needed for one to act during the other's await, two workers for the overshoot
(that its factor is workers-1 is proved, not only run). In
`RequestQuota_failures` two errors fill a fallback window of one and then meet
it full; one request per worker suffices there, because an error is met between
a worker's own prefetch and the other worker's. In `SlidingWindows` the short
window is passed by one batch, the long ones outlive the short one by a tick,
and prefetched quota can be spent in the window after the one it was granted in. With
one trouble a refund breaks off because one of its commands fails; that it may also
meet an outage takes two, which TLC does not finish in reasonable time: the proofs,
which bound nothing, cover it.
In `Gateway` two requests are enough for one to be checked while the other is
under way, and to overshoot together; a window of one tick passes while the
others count. In
`RedisCalls` two tasks are a probe and a late answer, or two reloads that
interleave; the ping is a third caller of the breaker, and two
losses make a retry meet NOSCRIPT again. In `ReadThrough` two admin
requests are needed to cross commit and push, and TTLs and delays of 1 and
2 ticks to exhaust every station of a value's way. Every safety property of a
passing run is proved for every instance besides (section 5).

Deadlock is checked in every run: the system always has a step.

### Disagreements found

Six runs refute a statement of the documentation or a comment:

1. *The overshoot is about (workers-1) x batch* (`README.md:184`,
   `ratelimit.py:11-12`). Two requests of one worker that both find
   `reserved = 0` prefetch at the same time; the second answer clears the deque
   and with it the timestamp of the first admission. One worker alone exceeds
   the limit (`RequestQuota_overlap`). For the same reason clearing the deque
   does not prevent a second ZADD (`ratelimit.py:385`): both calls carry the
   same snapshot.
2. *The total refunded stays right* (`ratelimit.py:238-239`). A refund during a
   flush pops what is counted all the same, and its unit of `reserved` is
   overwritten (`RequestQuota_refund_race`). What holds instead is
   `PhantomUsageBounded`: a refund leaves at most one timestamp behind.
3. *The same bound is acceptable for the long windows* (`README.md:184`).
   Timestamps not flushed for five hours are trimmed; the 7d and 30d windows
   never count them, and every pause of a user adds up to a batch, with a single
   worker as well (`SlidingWindows_trim`).
4. *Tokens are counted for sha256(api_key) or the group* (`token_deduct.lua:4`).
   A key from the `api-key` header is checked under its hash and charged under
   that of an empty string (`Gateway_api_key`).
5. *The breaker recovers and lost scripts heal* (`README.md:183`, `:200`). If
   Redis loses its scripts in the outage, the probe gets NOSCRIPT; nobody clears
   `_probe_inflight`, the probe's own retry is refused, and so is everyone after
   it until a `/health` ping succeeds (`RedisCalls_stuck_probe`;
   `RedisCalls_breaker` shows that the ping repairs it).
6. *A negative entry is a confirmed absence* (`resolver.py:26`). A MySQL error
   is cached as absence (`ReadThrough_db_error`).

Four more became apparent, which no run states. An old call's failure
clears the flag of the probe under way and re-opens the breaker, so that a second
probe may later join the first (`resilience.py:53`; that every flag still has a
probe is `ProbeHasOwner`). The web page says that disabling a group takes effect at once (`web/app.js:197`):
`delete_group` deletes the Redis key only, so the L1 caches go on serving the
policy; what holds instead is `ServedIsRecent`. The counts of `/ratelimit/status` are
called a lower bound (`ratelimit.py:289-290`), but the endpoint reads the length of a
deque and awaits Redis' counts afterwards: a flush in between is counted twice, and so
is what a given-up refund has left in Redis. `README.md:3` calls the windows of
both modes sliding; a token counter, whose TTL every deduction renews
(`token_deduct.lua:18`), is not, and refuses for usage older than its window.

## 4. Fairness

`RequestQuota!Fairness`: requests keep arriving
at every task, Redis and NewAPI answer, the event loop runs ready coroutines;
weak fairness of each handler, per task. It is not assumed that anything fails,
expires or is refunded. `RedisCalls!Fairness`: the same, and that a window of
`open_seconds` elapses and `/health`, if polled at all (`UsePing`), is polled
again and again. `Recovery` is not fair: `BreakerRecovers` says what happens if
Redis stays up. `SlidingWindows` and `Gateway` assume the clock only,
`WF_vars(Tick)`: `NotLockedOut` and `TokensComeBack` say that no
request, refusal or failure can hold off what time brings back.

## 5. Proofs

The theorems hold for every value of the constants that satisfies the modules'
assumptions. Only the `TypeOK` of `RequestQuota` and of
`SlidingWindows` are inductive as they stand; the
invariants that strengthen the other properties, and why, are these.

`RequestQuotaProofs`:

* `TypeCorrect`: `Spec => []TypeOK`, inductive by itself.
* `LocalDenyCorrect`, `AdmissionsCounted`, `Overshoot`, under
  `NoOverlap == MaxPrefetch = 1 /\ Batch <= MaxFlush`, the condition that run
  `RequestQuota_overlap` shows to be needed. `LocalInv` adds, for each worker, what is true of its deque and its
  call: at most one call in flight, what it flushes against the deque, that the
  prefetched quota and the deque together fit in a batch and in the snapshot. `CountInv` adds the bound each
  worker contributes to the overshoot: what is granted at worker `w` and unknown to
  Redis is at most a batch, and the newest grant was computed from counts that
  include everything but the other workers' grants. The totals over workers
  are cardinalities (`Totals`), so that the library's theorems about finite
  sets give how a total changes when one worker's share does.
* `LedgerImplemented`: `Spec => ImplementsLedger`, under `NoOverlap`. Every step is
  an `Admit`, `Spend`, `GiveBack` or `Lose` of the ledger or leaves it alone;
  that an admission is below the capacity is `BoundInv` of the state before it,
  that whoever holds quota is waiting for NewAPI is `ViaInv`.

`RefusalProofs` looks at the same module from the other side, under
`NoOverlap`: what Redis and the deques hold too much, as long as no Redis call
fails and no worker loses its state.

* `PhantomUsageIsBounded`: `Excess(i)` is what window `i` counts, or will count with
  what the workers send next (`Pending`), beyond the admissions. No step makes it
  grow except a refund that finds its timestamp flushed or being flushed
  (`Late`), which may add one. For a call under way `Pending` includes the
  prefetched quota that an overtaking refund has returned: the answer
  overwrites it, and so that refund's share is already there when it is lost.
* `NoFalseDenialHolds`, for any number of requests per worker. `BooksInv` says that no
  window counts more than `Charged(i)`, and no less than the refunds to come will
  remove (`Booked`), so that a removal always finds a member: an answer of the script
  that refuses is then justified by the counts it was computed from. A worker that
  refuses alone does so by what an answer said some time ago. `AnswersInv` and
  `SnapshotsInv` compare answers on their way and fresh snapshots with the 5h count:
  since they were taken, it has changed by what was flushed, which only adds, and by
  the removals that `reply_misses` and `snapshot_misses` have counted. What the worker
  itself holds in its deque closes the gap to the limit.

`SlidingWindowsProofs`, for any number of workers and any lengths of the
windows. The properties speak of the last window only, and none is inductive: a
tick moves all ages, and what was outside the window says nothing about what
is inside. The invariant `Inv` therefore compares, for EVERY age `k`, what is counted
with what was granted within the last `k` ticks, so that a tick carries the
statement for `k` to the one for `k + 1`. Its parts:

* `NothingForgotten` (what was granted within `k` ticks, for `k` within 5 hours, is in
  Redis or in a deque, but for refunds that took a younger timestamp than
  their own), `QuotaInv` (what a worker has spent since its last flush and may
  still spend come from one batch) and `OvershootInv` (spending all that is
  prefetched would not exceed the bound): with these, `ShortWindowOvershootHolds`.
* `Dominance` and `Covered`: without lost answers nothing is counted that was not
  granted. A refund removes the newest timestamp, which is older than its own
  request's when no young one is left; the account for age `k` then has to balance
  without that worker. So `Covered` is stated for the workers outside *any*
  set of those that still hold something older (`Behind(k)`). With `SnapshotInv` and
  `PurgedInv`: `RefusedOnlyWhenUsedUpHolds` and `RefundErrorHealsHolds`. A refund that
  breaks off leaves its member in the windows it did not reach; `LeftOver(i, k)` counts
  those whose request is at most `k` ticks old and is added to the right-hand side of
  `Covered`, so that the member is accounted for until its own request would have left
  the window; `LeftOverInv` (never more than `refunds`) serves the properties that only
  speak of refunds. A lost answer makes Redis count timestamps twice, and both
  properties say so.
* `FallbackInv`: `OutageOvershootHolds`, under `DividedEnough` (the divisor
  is 0, its default, which means the number of workers, or at least that number): with
  a smaller one the windows of all workers exceed the limit by design.
* `TypesHold` by itself; the ages bound what `NewestRemoved` and `Older` do.

The sums over workers and ages are `Total`s; `TotalsProofs` has how a total
changes with one summand, and how it splits and compares.

`GatewayProofs`:

* `QuotaIsConserved`, `TypesHold`, `LedgerImplemented`: with `TypeInv` (quota taken
  is an integer) and `ControlInv`; `QuotaStep` says of every step that it
  moves at most one unit, of one request, of its user. That no user's quota is
  negative follows from `QuotaConserved`, not the other way round.
* `TokenOvershoot`, `UsageIsCovered`, under `OneHeader == Headers \subseteq
  {"authorization"}`, the condition that run `Gateway_api_key` shows to be
  needed. `SteadyInv` (while the policy stays): the three lookups of a request
  agree, only the policy's user is charged, and above what is used there is
  room for all requests let through. `CoverInv` adds that what has been used
  since the last deduction is still to be deducted, so that a counter that
  expires expires for usage that is outside its window.

`RedisCallsProofs`: `TypesHold` (with `LoadInv`); `ProbeOwned` by `ProbeInv` (no
call meets NOSCRIPT, every prober is in a call); `LossInvisible` by `HealInv` (a
reload's scripts are there as far as it has got, and a second attempt finds
them all).

`ReadThroughProofs`:

* `TypesHold`: with `HoldsPolicy` (whoever is about to store
  a value holds a policy).
* `StalenessBounded`: `Spec => []ServedIsRecent`. The invariant `Recency` gives
  every station on a value's way the age it may have: what was read from MySQL
  is as old as it has been held; a Redis key at most `MaxDelay` older than its
  store; what was read from Redis at most `MaxDelay + RedisTTL` older than its
  read; an L1 entry one more delay and its own time. Writing MySQL makes no
  value older, a tick ages every station by what it allows.
* `AbsenceIsConfirmed`: `AbsenceInv`, the same for the absence of a row, which has
  only two stations: a lookup's answer and L1.

Model-checked only: liveness under fairness (`QuotaFullyUsable`,
`BreakerRecovers`, `CallsReturn`, `TokensComeBack`, `NotLockedOut`), which the
provers do not reach. Every invariant of a passing run is a
theorem; the ones that need a condition on the constants name it, and runs
`RequestQuota_overlap`, `RequestQuota_refund_race` and `Gateway_api_key` show what
happens without it.

## 6. Not modelled

* Start-up (`app/main.py`): every worker seeds an empty table, and two that do so
  at once violate a unique key; it precedes every request, and the supervisor
  starts the worker that fails again.
* A quota state that is cleared beyond twice `_MAX_TRACKED_KEYS` while its own call is
  in flight: the coroutine then goes on with an object nobody else sees.
* The local fallback window in token mode, which `refund` never gives back, and
  the restrictive global fallback parameters, which no caller reaches.
* The counts of `/ratelimit/status` (`get_quota_status`): they are shown and decide nothing,
  and apart from removing what has expired the endpoint changes no state.
* Equal members of a ZSET: whether two runs of the script draw the same random
  number is a matter of Redis' generator.
* Per-request concurrency in `SlidingWindows`, and expiry in `RequestQuota`: together
  they are out of TLC's reach; each module has what its properties are about.
* Configuration, table and schema declarations (their values are the constants), the
  web page (a client of the admin API), nginx and Docker files, wording of
  responses, logging and statistics, header filtering and SSE parsing.
  `scripts/smoke_ha.py` is a test with fakes.
