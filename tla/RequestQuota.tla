----------------------------- MODULE RequestQuota -----------------------------
(***************************************************************************)
(* The request-count limiter of app/ratelimit.py for ONE user id: worker   *)
(* processes that prefetch quota from Redis in batches, spend it locally,  *)
(* flush what they spent with the next prefetch, and give quota back when  *)
(* the upstream call fails.                                                *)
(*                                                                         *)
(* A worker is one asyncio event loop, so it runs from one await to the    *)
(* next without interruption: an action below is such a stretch.  Every    *)
(* request occupies a task; a task that waits for EVALSHA (Redis) or for   *)
(* NewAPI lets the other tasks of its worker run.                          *)
(*                                                                         *)
(* The module covers a period shorter than the smallest window (5 hours):  *)
(* no timestamp expires, so a ZSET and a deque are represented by the      *)
(* number of their members.  The random suffix the script gives a member   *)
(* (rate_limit_request.lua:37) is taken to make it distinct.               *)
(***************************************************************************)
EXTENDS Integers, FiniteSets, Totals

CONSTANTS
    Workers,         \* uvicorn worker processes
    Slots,           \* requests of this user one worker may hold at a time
    Limit,           \* the group's policy: window name -> maximal count
    QuotaBatchSize,  \* RATELIMIT_QUOTA_BATCH_SIZE
    MaxFlush,        \* _MAX_FLUSH_BATCH
    OnRedisError,    \* the settings of RATELIMIT_ON_REDIS_ERROR to cover
    MaxPrefetch,     \* bound: EVALSHA calls of one worker in flight at a time
    MaxRefunds,      \* bound: admitted requests whose upstream call fails
    MaxRedisErrors,  \* bound: Redis calls that fail
    MaxLosses        \* bound: worker restarts and evicted quota states

Windows == {"5h", "7d", "30d"}

ASSUME QuotaAssumption ==
    /\ IsFiniteSet(Workers) /\ Workers # {}
    /\ IsFiniteSet(Slots)
    /\ Limit \in [Windows -> Nat \ {0}]
    /\ QuotaBatchSize \in Nat
    /\ MaxFlush \in Nat \ {0}
    /\ OnRedisError \subseteq {"passthrough", "reject", "local_fallback"}
    /\ MaxPrefetch \in Nat \ {0}
    /\ MaxRefunds \in Nat
    /\ MaxRedisErrors \in Nat
    /\ MaxLosses \in Nat

Tasks == Workers \X Slots

VARIABLES
    redis,            \* ZCARD of ratelimit:{user_id}:{window}
    deque,            \* worker -> length of _QuotaState.deque (not yet flushed)
    reserved,         \* worker -> _QuotaState.reserved
    redis_remaining,  \* worker -> _redis_remaining.get("5h", limits[0])
    snapshot_fresh,   \* worker -> _last_flush_at is set and younger than the L1 TTL
    fallback,         \* worker -> length of _fallback_windows[user_id]
    pc,               \* task -> where it is
    via,              \* task -> what its admission consumed
    flush,            \* task -> number of timestamps in its EVALSHA call
    reply,            \* task -> the script's answer to it
    admitted,         \* history: quota admissions whose upstream call did not fail
    dropped,          \* history: unflushed timestamps lost with their worker's state
    stranded,         \* history: timestamps flushed while their requests were refunded
    reply_misses,     \* history: task -> members removed from the 5h ZSET since its answer
    snapshot_misses,  \* history: worker -> and since its snapshot, while it is fresh
    refunds,          \* refunds so far (bounded by MaxRefunds)
    errors,           \* Redis failures so far (bounded by MaxRedisErrors)
    losses            \* restarts and evictions so far (bounded by MaxLosses)

quotaVars == <<deque, reserved, redis_remaining, snapshot_fresh>>
callVars  == <<flush, reply>>
lossVars == <<dropped, errors, losses>>
refundVars == <<stranded, reply_misses, snapshot_misses>>
boundVars == <<refunds, lossVars, refundVars>>
vars == <<redis, quotaVars, fallback, pc, via, callVars, admitted, boundVars>>

-----------------------------------------------------------------------------
(* Helpers *)

Min2(a, b) == IF a < b THEN a ELSE b
Max2(a, b) == IF a < b THEN b ELSE a

\* batch = max(1, quota_batch_size)
Batch == Max2(1, QuotaBatchSize)

\* The group-aware fallback: 5h limit divided by the number of workers, at least 1.
FallbackLimit == Max2(1, Limit["5h"] \div Cardinality(Workers))

\* A mutation: refuse as soon as no whole batch is available.
ExceededUnlessBatch(count, i) == count[i] + Batch > Limit[i]

Exceeded(count, i) == count[i] >= Limit[i]
AnyExceeded(count) == \E i \in Windows : Exceeded(count, i)

\* A mutation: check the 5h window before the others are flushed and return early.
FlushedUntilExceeded(count, n) ==
    [i \in Windows |-> IF i # "5h" /\ Exceeded([count EXCEPT !["5h"] = @ + n], "5h")
                       THEN count[i] ELSE count[i] + n]

\* Phase 1 of rate_limit_request.lua: n timestamps are added to every window.
Flushed(count, n) == [i \in Windows |-> count[i] + n]

\* A mutation: ZREMRANGEBYRANK taken for a decrement.
Decremented(n) == n - 1

\* A removal of the newest member: nothing happens to an empty ZSET or deque.
NewestRemoved(n) == Max2(0, n - 1)

\* Phase 2 of rate_limit_request.lua: the smallest remaining quota of the windows.
Avail(count) ==
    Min2(Limit["5h"] - count["5h"],
         Min2(Limit["7d"] - count["7d"], Limit["30d"] - count["30d"]))

\* The script's answer for the counts after the flush.  reserve = 0 stands for code 0
\* ("window exceeded"); rem is what _redis_remaining.get("5h", limits[0]) yields once
\* the answer is stored: on code 0 the dictionary holds only the first exceeded window.
ScriptReply(count) ==
    IF AnyExceeded(count)
    THEN [reserve |-> 0,
          rem     |-> IF Exceeded(count, "5h") THEN 0 ELSE Limit["5h"]]
    ELSE [reserve |-> Min2(Batch, Avail(count)),
          rem     |-> Limit["5h"] - count["5h"]]

NoReply == [reserve |-> 0, rem |-> 0]

InFlight(w) == {t \in Tasks : t[1] = w /\ pc[t] \in {"sent", "executed"}}

\* The local 5h check before anything is consumed.
LocallyExceeded(w) ==
    /\ snapshot_fresh[w]
    /\ redis_remaining[w] > 0
    /\ deque[w] >= redis_remaining[w]

-----------------------------------------------------------------------------
Init ==
    /\ redis = [i \in Windows |-> 0]
    /\ deque = [w \in Workers |-> 0]
    /\ reserved = [w \in Workers |-> 0]
    /\ redis_remaining = [w \in Workers |-> Limit["5h"]]
    /\ snapshot_fresh = [w \in Workers |-> FALSE]
    /\ fallback = [w \in Workers |-> 0]
    /\ pc = [t \in Tasks |-> "idle"]
    /\ via = [t \in Tasks |-> "none"]
    /\ flush = [t \in Tasks |-> 0]
    /\ reply = [t \in Tasks |-> NoReply]
    /\ admitted = 0
    /\ dropped = 0
    /\ stranded = 0
    /\ reply_misses = [t \in Tasks |-> 0]
    /\ snapshot_misses = [w \in Workers |-> 0]
    /\ refunds = 0
    /\ errors = 0
    /\ losses = 0

(* _check_request, up to its first await or return *)

\* The local snapshot says the 5h window is used up: 429 without asking Redis.
CheckDenyLocal(t) ==
    /\ pc[t] = "idle"
    /\ LocallyExceeded(t[1])
    /\ pc' = [pc EXCEPT ![t] = "denied"]
    /\ UNCHANGED <<redis, quotaVars, fallback, via, callVars, admitted, boundVars>>

\* Prefetched quota is left: consume one unit, no Redis round trip.
CheckConsume(t) ==
    LET w == t[1] IN
    /\ pc[t] = "idle"
    /\ ~LocallyExceeded(w)
    /\ reserved[w] > 0
    /\ reserved' = [reserved EXCEPT ![w] = @ - 1]
    /\ deque' = [deque EXCEPT ![w] = @ + 1]
    /\ pc' = [pc EXCEPT ![t] = "upstream"]
    /\ via' = [via EXCEPT ![t] = "quota"]
    /\ admitted' = admitted + 1
    /\ UNCHANGED <<redis, redis_remaining, snapshot_fresh, fallback, callVars, boundVars>>

\* No quota left: snapshot the deque and send EVALSHA; the deque keeps its content
\* until the answer arrives, and the event loop is free meanwhile.
CheckPrefetch(t) ==
    LET w == t[1] IN
    /\ pc[t] = "idle"
    /\ ~LocallyExceeded(w)
    /\ reserved[w] = 0
    /\ Cardinality(InFlight(w)) < MaxPrefetch
    /\ pc' = [pc EXCEPT ![t] = "sent"]
    /\ flush' = [flush EXCEPT ![t] = Min2(deque[w], MaxFlush)]
    /\ UNCHANGED <<redis, quotaVars, fallback, via, reply, admitted, boundVars>>

(* Redis runs rate_limit_request.lua atomically *)

ExecScript(t) ==
    /\ pc[t] = "sent"
    /\ redis' = Flushed(redis, flush[t])
    /\ reply' = [reply EXCEPT ![t] = ScriptReply(redis')]
    /\ pc' = [pc EXCEPT ![t] = "executed"]
    /\ UNCHANGED <<quotaVars, fallback, via, flush, admitted, boundVars>>

(* _check_request, after the await *)

\* The call's local variables are gone once the coroutine has used them.
EndCall(t) ==
    /\ flush' = [flush EXCEPT ![t] = 0]
    /\ reply' = [reply EXCEPT ![t] = NoReply]
    /\ reply_misses' = [reply_misses EXCEPT ![t] = 0]

StoreSnapshot(t) ==
    /\ redis_remaining' = [redis_remaining EXCEPT ![t[1]] = reply[t].rem]
    /\ snapshot_fresh' = [snapshot_fresh EXCEPT ![t[1]] = TRUE]
    /\ snapshot_misses' = [snapshot_misses EXCEPT ![t[1]] = reply_misses[t]]

\* Timestamps of this call whose requests were refunded while it was under way: Redis
\* counts them, and nobody will remove them.
CountStranded(t) == stranded' = stranded + Max2(0, flush[t] - deque[t[1]])

\* A mutation: on code 0 the flushed timestamps stay in the deque.
ReceiveDenyUncleared(t) ==
    /\ pc[t] = "executed"
    /\ reply[t].reserve = 0
    /\ StoreSnapshot(t)
    /\ pc' = [pc EXCEPT ![t] = "denied"]
    /\ EndCall(t)
    /\ CountStranded(t)
    /\ UNCHANGED <<redis, deque, reserved, fallback, via, admitted, refunds, lossVars>>

\* code 0: the deque is cleared, reserved is left as it is.
ReceiveDeny(t) ==
    /\ pc[t] = "executed"
    /\ reply[t].reserve = 0
    /\ StoreSnapshot(t)
    /\ deque' = [deque EXCEPT ![t[1]] = 0]
    /\ pc' = [pc EXCEPT ![t] = "denied"]
    /\ EndCall(t)
    /\ CountStranded(t)
    /\ UNCHANGED <<redis, reserved, fallback, via, admitted, refunds, lossVars>>

\* A mutation: this request's own unit is not taken off the prefetched quota.
WholeReserve(t) == reply[t].reserve

\* What is left of the prefetched quota for later requests.
ReserveLeft(t) == reply[t].reserve - 1

\* code 1: the deque is cleared, reserved is overwritten, this request takes one unit.
ReceiveGrant(t) ==
    LET w == t[1] IN
    /\ pc[t] = "executed"
    /\ reply[t].reserve > 0
    /\ StoreSnapshot(t)
    /\ reserved' = [reserved EXCEPT ![w] = ReserveLeft(t)]
    /\ deque' = [deque EXCEPT ![w] = 1]
    /\ pc' = [pc EXCEPT ![t] = "upstream"]
    /\ via' = [via EXCEPT ![t] = "quota"]
    /\ admitted' = admitted + 1
    /\ EndCall(t)
    /\ CountStranded(t)
    /\ UNCHANGED <<redis, fallback, refunds, lossVars>>

(* _degrade: the call raised (circuit open, connection lost before or after the      *)
(* script ran, time-out)                                                             *)

CallFails(t) ==
    /\ pc[t] \in {"sent", "executed"}
    /\ errors < MaxRedisErrors
    /\ errors' = errors + 1
    /\ EndCall(t)
    /\ UNCHANGED <<redis, quotaVars, admitted, dropped, refunds, losses, stranded,
                   snapshot_misses>>

DegradeReject(t) ==
    /\ "reject" \in OnRedisError
    /\ CallFails(t)
    /\ pc' = [pc EXCEPT ![t] = "denied"]
    /\ UNCHANGED <<fallback, via>>

DegradePassthrough(t) ==
    /\ "passthrough" \in OnRedisError
    /\ CallFails(t)
    /\ pc' = [pc EXCEPT ![t] = "upstream"]
    /\ via' = [via EXCEPT ![t] = "passthrough"]
    /\ UNCHANGED fallback

\* local_fallback: _local_window_allow, a window of this worker alone.
DegradeFallbackAllow(t) ==
    /\ "local_fallback" \in OnRedisError
    /\ CallFails(t)
    /\ fallback[t[1]] < FallbackLimit
    /\ fallback' = [fallback EXCEPT ![t[1]] = @ + 1]
    /\ pc' = [pc EXCEPT ![t] = "upstream"]
    /\ via' = [via EXCEPT ![t] = "fallback"]

DegradeFallbackReject(t) ==
    /\ "local_fallback" \in OnRedisError
    /\ CallFails(t)
    /\ fallback[t[1]] >= FallbackLimit
    /\ pc' = [pc EXCEPT ![t] = "denied"]
    /\ UNCHANGED <<fallback, via>>

\* The client has its 429 or 503.
Respond(t) ==
    /\ pc[t] = "denied"
    /\ pc' = [pc EXCEPT ![t] = "idle"]
    /\ UNCHANGED <<redis, quotaVars, fallback, via, callVars, admitted, boundVars>>

(* proxy.py: NewAPI answers *)

UpstreamOk(t) ==
    /\ pc[t] = "upstream"
    /\ pc' = [pc EXCEPT ![t] = "idle"]
    /\ via' = [via EXCEPT ![t] = "none"]
    /\ UNCHANGED <<redis, quotaVars, fallback, callVars, admitted, boundVars>>

\* NewAPI cannot be reached, times out or answers with anything but 2xx.
UpstreamFails(t) ==
    /\ pc[t] = "upstream"
    /\ refunds < MaxRefunds
    /\ refunds' = refunds + 1

\* refund(): nothing was counted for a passthrough admission.
RefundNothing(t) ==
    /\ UpstreamFails(t)
    /\ via[t] = "passthrough"
    /\ pc' = [pc EXCEPT ![t] = "idle"]
    /\ via' = [via EXCEPT ![t] = "none"]
    /\ UNCHANGED <<redis, quotaVars, fallback, callVars, admitted, lossVars, refundVars>>

\* refund(): pop the newest entry of the fallback window, if there is one.
RefundFallback(t) ==
    LET w == t[1] IN
    /\ UpstreamFails(t)
    /\ via[t] = "fallback"
    /\ fallback' = [fallback EXCEPT ![w] = NewestRemoved(@)]
    /\ pc' = [pc EXCEPT ![t] = "idle"]
    /\ via' = [via EXCEPT ![t] = "none"]
    /\ UNCHANGED <<redis, quotaVars, callVars, admitted, lossVars, refundVars>>

\* A mutation: the quota is given back, its timestamp stays.
RefundWithoutPop(t) ==
    /\ UpstreamFails(t) /\ via[t] = "quota" /\ deque[t[1]] > 0
    /\ reserved' = [reserved EXCEPT ![t[1]] = @ + 1]
    /\ admitted' = admitted - 1
    /\ pc' = [pc EXCEPT ![t] = "idle"]
    /\ via' = [via EXCEPT ![t] = "none"]
    /\ UNCHANGED <<redis, deque, redis_remaining, snapshot_fresh, fallback, callVars,
                   lossVars, refundVars>>

\* A mutation: two handlers refund the same request.
RefundAgain(t) ==
    /\ UpstreamFails(t) /\ via[t] = "quota" /\ deque[t[1]] > 0
    /\ deque' = [deque EXCEPT ![t[1]] = @ - 1]
    /\ reserved' = [reserved EXCEPT ![t[1]] = @ + 1]
    /\ admitted' = admitted - 1
    /\ UNCHANGED <<redis, redis_remaining, snapshot_fresh, fallback, pc, via, callVars,
                   lossVars, refundVars>>

\* refund(): an unflushed timestamp is popped and reserved grows by one.
RefundLocal(t) ==
    LET w == t[1] IN
    /\ UpstreamFails(t)
    /\ via[t] = "quota"
    /\ deque[w] > 0
    /\ deque' = [deque EXCEPT ![w] = @ - 1]
    /\ reserved' = [reserved EXCEPT ![w] = @ + 1]
    /\ admitted' = admitted - 1
    /\ pc' = [pc EXCEPT ![t] = "idle"]
    /\ via' = [via EXCEPT ![t] = "none"]
    /\ UNCHANGED <<redis, redis_remaining, snapshot_fresh, fallback, callVars, lossVars,
                   refundVars>>

\* refund(): nothing unflushed, so the newest member of each ZSET is to be removed,
\* one awaited command per window.
RefundRedis(t) ==
    /\ UpstreamFails(t)
    /\ via[t] = "quota"
    /\ deque[t[1]] = 0
    /\ admitted' = admitted - 1
    /\ pc' = [pc EXCEPT ![t] = "refund5h"]
    /\ via' = [via EXCEPT ![t] = "none"]
    /\ UNCHANGED <<redis, quotaVars, fallback, callVars, lossVars, refundVars>>

RefundStage == [refund5h |-> "5h", refund7d |-> "7d", refund30d |-> "30d"]
NextStage == [refund5h |-> "refund7d", refund7d |-> "refund30d", refund30d |-> "idle"]

\* Answers on their way and fresh snapshots do not know of a removal from the 5h ZSET.
MissRemoval ==
    /\ reply_misses' = [t \in Tasks |-> IF pc[t] = "executed" THEN reply_misses[t] + 1
                                                             ELSE reply_misses[t]]
    /\ snapshot_misses' =
           [w \in Workers |-> IF snapshot_fresh[w] THEN snapshot_misses[w] + 1
                                                  ELSE snapshot_misses[w]]

\* ZREMRANGEBYRANK key -1 -1 of the current window; a no-op on an empty ZSET.
RefundWindow(t) ==
    /\ pc[t] \in DOMAIN RefundStage
    /\ redis' = [redis EXCEPT ![RefundStage[pc[t]]] = NewestRemoved(@)]
    /\ IF pc[t] = "refund5h" THEN MissRemoval
                             ELSE UNCHANGED <<reply_misses, snapshot_misses>>
    /\ pc' = [pc EXCEPT ![t] = NextStage[pc[t]]]
    /\ UNCHANGED <<quotaVars, fallback, via, callVars, admitted, refunds, lossVars,
                   stranded>>

\* The command raises: the rest of this refund is given up.
RefundAborts(t) ==
    /\ pc[t] \in DOMAIN RefundStage
    /\ errors < MaxRedisErrors
    /\ errors' = errors + 1
    /\ pc' = [pc EXCEPT ![t] = "idle"]
    /\ UNCHANGED <<redis, quotaVars, fallback, via, callVars, admitted, dropped, refunds,
                   losses, refundVars>>

(* The environment of a worker *)

\* local_cache_ttl seconds have passed since the last flush.
SnapshotExpires(w) ==
    /\ snapshot_fresh[w]
    /\ snapshot_fresh' = [snapshot_fresh EXCEPT ![w] = FALSE]
    /\ snapshot_misses' = [snapshot_misses EXCEPT ![w] = 0]
    /\ UNCHANGED <<redis, deque, reserved, redis_remaining, fallback, pc, via, callVars,
                   admitted, refunds, lossVars, stranded, reply_misses>>

ResetQuotaState(w) ==
    /\ deque' = [deque EXCEPT ![w] = 0]
    /\ reserved' = [reserved EXCEPT ![w] = 0]
    /\ redis_remaining' = [redis_remaining EXCEPT ![w] = Limit["5h"]]
    /\ snapshot_fresh' = [snapshot_fresh EXCEPT ![w] = FALSE]
    /\ snapshot_misses' = [snapshot_misses EXCEPT ![w] = 0]
    /\ dropped' = dropped + deque[w]
    /\ losses < MaxLosses
    /\ losses' = losses + 1

\* _cleanup_quota_states, run by another user's check: beyond _MAX_TRACKED_KEYS states an
\* idle one without reserved quota is deleted, beyond twice as many every one is, with the
\* timestamps it has not flushed.  (A call in flight would go on with a detached state.)
EvictState(w) ==
    /\ InFlight(w) = {}
    /\ ResetQuotaState(w)
    /\ UNCHANGED <<redis, fallback, pc, via, callVars, admitted, refunds, errors, stranded,
                   reply_misses>>

\* The worker process dies and is started again.
RestartWorker(w) ==
    /\ ResetQuotaState(w)
    /\ fallback' = [fallback EXCEPT ![w] = 0]
    /\ pc' = [t \in Tasks |-> IF t[1] = w THEN "idle" ELSE pc[t]]
    /\ via' = [t \in Tasks |-> IF t[1] = w THEN "none" ELSE via[t]]
    /\ flush' = [t \in Tasks |-> IF t[1] = w THEN 0 ELSE flush[t]]
    /\ reply' = [t \in Tasks |-> IF t[1] = w THEN NoReply ELSE reply[t]]
    /\ reply_misses' = [t \in Tasks |-> IF t[1] = w THEN 0 ELSE reply_misses[t]]
    /\ UNCHANGED <<redis, admitted, refunds, errors, stranded>>

Check(t) == CheckDenyLocal(t) \/ CheckConsume(t) \/ CheckPrefetch(t)
Receive(t) == ReceiveDeny(t) \/ ReceiveGrant(t)
Degrade(t) ==
    \/ DegradeReject(t) \/ DegradePassthrough(t)
    \/ DegradeFallbackAllow(t) \/ DegradeFallbackReject(t)
Refund(t) ==
    RefundNothing(t) \/ RefundFallback(t) \/ RefundLocal(t) \/ RefundRedis(t)

Next ==
    \/ \E t \in Tasks : \/ Check(t)
                        \/ ExecScript(t)
                        \/ Receive(t)
                        \/ Degrade(t)
                        \/ Respond(t)
                        \/ UpstreamOk(t)
                        \/ Refund(t)
                        \/ RefundWindow(t)
                        \/ RefundAborts(t)
    \/ \E w \in Workers : SnapshotExpires(w) \/ EvictState(w) \/ RestartWorker(w)

Spec == Init /\ [][Next]_vars

-----------------------------------------------------------------------------
(* Properties *)

Pcs == {"idle", "sent", "executed", "upstream", "denied"} \cup DOMAIN RefundStage

TypeOK ==
    /\ redis \in [Windows -> Nat]
    /\ deque \in [Workers -> Nat]
    /\ reserved \in [Workers -> Nat]
    /\ redis_remaining \in [Workers -> Nat]
    /\ snapshot_fresh \in [Workers -> BOOLEAN]
    /\ fallback \in [Workers -> Nat]
    /\ pc \in [Tasks -> Pcs]
    /\ via \in [Tasks -> {"none", "quota", "fallback", "passthrough"}]
    /\ flush \in [Tasks -> Nat]
    /\ reply \in [Tasks -> [reserve : Nat, rem : Nat]]
    /\ admitted \in Int
    /\ dropped \in Nat
    /\ stranded \in Nat
    /\ reply_misses \in [Tasks -> Nat]
    /\ snapshot_misses \in [Workers -> Nat]
    /\ refunds \in Nat
    /\ errors \in Nat
    /\ losses \in Nat

\* An answer of the script is on its way to worker w.
Answered(w) == \E t \in Tasks : t[1] = w /\ pc[t] = "executed"

\* Admissions that Redis will learn of with w's next flush ...
Unflushed == [w \in Workers |-> IF Answered(w) THEN 0 ELSE deque[w]]
\* ... and refunds given locally while the flush that counted them is under way.
Overtaken == [w \in Workers |-> IF Answered(w) THEN reserved[w] ELSE 0]

\* Refunds that have still to remove a member of window i's ZSET.
RefundsDue(i) == {t \in Tasks :
                    \/ pc[t] = "refund5h"
                    \/ pc[t] = "refund7d" /\ i # "5h"
                    \/ pc[t] = "refund30d" /\ i = "30d"}

\* Every admission that was not refunded is in the ZSET of every window, or in a deque
\* that will be flushed, or went down with a worker's memory.  Whatever the order of
\* answers, refunds, Redis failures and restarts, none is forgotten by workers that make
\* one prefetch at a time (MaxPrefetch = 1).  The code does not see to that, and with
\* prefetches that overlap some are (run RequestQuota_overlap).
EveryAdmissionCounted ==
    \A i \in Windows :
        admitted + Cardinality(RefundsDue(i)) + Total(Overtaken, Workers)
            <= redis[i] + Total(Unflushed, Workers) + dropped

\* The bound the README (line 184) and the limiter's header (ratelimit.py:11-12) give
\* for prefetching without reservation: the workers admit at most (workers-1) *
\* batch_size requests beyond any window's limit.  A worker that dies takes its
\* unflushed timestamps along; those are not part of the promise.  It holds for workers
\* that make one prefetch at a time, and without that it does not (RequestQuota_overlap).
OvershootBounded ==
    \A i \in Windows :
        admitted <= Limit[i] + (Cardinality(Workers) - 1) * Batch + dropped

\* The local 5h check answers 429 before `reserved` is looked at, so it must never be
\* able to hide prefetched quota: where a worker makes one prefetch at a time, it only
\* strikes a worker that has none left.
LocalDenyOnlyWhenExhausted ==
    \A w \in Workers : LocallyExceeded(w) => reserved[w] = 0

\* No request is in a Redis call or in the middle of a refund.
Settled == \A t \in Tasks : pc[t] \in {"idle", "upstream", "denied"}

\* No Redis call has failed and no worker has lost its state.
Undisturbed == errors = 0 /\ losses = 0

\* Refunding gives back exactly what was taken (refund's docstring, ratelimit.py:238-239:
\* the total refunded stays right): as long as nothing fails and no call is under way,
\* no window counts more than was admitted.  Run RequestQuota_refund_race refutes it.
NoPhantomUsage ==
    Undisturbed /\ Settled
        => \A i \in Windows : redis[i] + Total(deque, Workers) <= admitted

\* Where a worker holds several requests of the user, a refund may come when a call is
\* just flushing its timestamp, and nobody takes that out of Redis again.  More than one
\* timestamp for each refund is never left over, if a worker makes one prefetch at a time.
PhantomUsageBounded ==
    Undisturbed /\ Settled
        => \A i \in Windows : redis[i] + Total(deque, Workers) <= admitted + refunds

\* What may be held against the user in window i: the admissions that were not refunded,
\* and of the refunded ones those whose member has still to be removed from Redis and
\* those that a flush has counted, or is just counting, regardless of their refund.
Charged(i) ==
    admitted + Cardinality(RefundsDue(i)) + Total(Overtaken, Workers) + stranded

\* As long as nothing fails and a worker makes one prefetch at a time, nobody is refused
\* below the limit.  The script refuses only if in some window what may be held against
\* the user has reached the limit when it decides.  A worker that decides alone refuses
\* only if this is so in the 5h window, counting what refunds have removed from Redis since
\* the script took the worker's snapshot.
NoFalseDenial ==
    [][Undisturbed => \A t \in Tasks :
          /\ pc[t] = "sent" /\ pc'[t] = "executed" /\ reply'[t].reserve = 0
                => \E i \in Windows : Charged(i)' >= Limit[i]
          /\ pc[t] = "idle" /\ pc'[t] = "denied"
                => Charged("5h") + snapshot_misses[t[1]] >= Limit["5h"]]_vars

\* Clients keep asking, Redis and NewAPI answer.
Fairness ==
    \A t \in Tasks :
        /\ WF_vars(Check(t))
        /\ WF_vars(ExecScript(t))
        /\ WF_vars(Receive(t))
        /\ WF_vars(Respond(t))
        /\ WF_vars(UpstreamOk(t))

FairSpec == Spec /\ Fairness

\* Batches parked at one worker never keep a user below the policy for good: as long
\* as every worker gets requests and nothing fails, some window's limit is used up
\* entirely.  (An answer that is lost makes Redis count its timestamps twice.)
QuotaFullyUsable == <>(Undisturbed => \E i \in Windows : admitted >= Limit[i])

-----------------------------------------------------------------------------
(* What the limiter promises its user, without its workers and its Redis *)

TightestLimit == Min2(Limit["5h"], Min2(Limit["7d"], Limit["30d"]))

Ledger == INSTANCE QuotaLedger WITH
    Users <- {"user"},
    Requests <- Tasks,
    Capacity <- TightestLimit + (Cardinality(Workers) - 1) * Batch,
    holding <- [u \in {"user"} |-> {t \in Tasks : via[t] = "quota"}],
    taken <- [u \in {"user"} |-> admitted],
    lost <- [u \in {"user"} |-> dropped]

\* The limiter is a ledger: however workers, answers, refunds, failures and restarts
\* interleave, quota is taken within the documented bound, and what is given back was
\* taken by the request that gives it back, once; all this where a worker makes one
\* prefetch at a time, which the bound needs.
ImplementsLedger == Ledger!Spec

=============================================================================
