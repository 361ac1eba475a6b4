---------------------------- MODULE SlidingWindows ----------------------------
(***************************************************************************)
(* The request-count limiter over time: what module RequestQuota leaves    *)
(* out because it stays within one window.  Timestamps expire in Redis, in *)
(* the deque of a worker and in its local fallback window, and a snapshot  *)
(* of what Redis had left grows old.                                       *)
(*                                                                         *)
(* A timestamp is represented by its age in ticks, a ZSET or a deque by    *)
(* the number of its members of each age.  What has expired is removed by  *)
(* the next script or status request before anything is counted, so a ZSET *)
(* loses it when the clock ticks; a deque keeps it until the next check.   *)
(* A worker handles one check or refund at a time, and no time passes      *)
(* within a call.                                                          *)
(***************************************************************************)
EXTENDS Integers, FiniteSets, FiniteSetsExt, Totals

CONSTANTS
    Workers,         \* uvicorn worker processes
    Limit,           \* the group's policy: window -> maximal count
    TTL,             \* window -> its length in ticks
    QuotaBatchSize,  \* RATELIMIT_QUOTA_BATCH_SIZE
    LimitDivisor,    \* RATELIMIT_FALLBACK_LIMIT_DIVISOR, 0: the number of workers
    MaxTroubles      \* bound: admitted requests whose upstream call fails, scripts that run
                     \* although their caller gets no answer, and outages, taken together

Windows == {"5h", "7d", "30d"}

ASSUME WindowsAssumption ==
    /\ IsFiniteSet(Workers) /\ Workers # {}
    /\ Limit \in [Windows -> Nat \ {0}]
    /\ TTL \in [Windows -> Nat \ {0}]
    /\ TTL["5h"] <= TTL["7d"] /\ TTL["7d"] <= TTL["30d"]
    /\ {QuotaBatchSize, LimitDivisor, MaxTroubles} \subseteq Nat

Ages == 0 .. TTL["30d"] - 1
WindowAges(i) == 0 .. TTL[i] - 1

\* Timestamps may stay in a deque for longer than they count anywhere; the last of
\* these ages stands for all that do.
Oldest == TTL["30d"]
DequeAges == 0 .. Oldest

VARIABLES
    up,         \* Redis can be reached
    zset,       \* window -> age -> members of ratelimit:{user_id}:{window}
    deque,      \* worker -> age -> members of _QuotaState.deque
    reserved,   \* worker -> _QuotaState.reserved
    rem5h,      \* worker -> _redis_remaining.get("5h", limits[0])
    fresh,      \* worker -> the snapshot is younger than the L1 TTL
    fallback,   \* worker -> age -> members of _fallback_windows[user_id]
    granted,    \* history: worker -> age -> quota admissions that have not failed
    abandoned,  \* history: window -> age -> failed ones whose refund was given up there
    refunds, lost_answers, outages   \* how often each has happened (bounded)

boundVars == <<refunds, lost_answers, outages>>
stateVars == <<deque, reserved, rem5h, fresh>>
historyVars == <<granted, abandoned>>
vars == <<up, zset, stateVars, fallback, historyVars, boundVars>>

-----------------------------------------------------------------------------
\* Another failing call, lost answer or outage is within the bound.
MoreTrouble == refunds + lost_answers + outages < MaxTroubles

Batch == Max({1, QuotaBatchSize})

Count(bag, ages) == Total(bag, ages)

Empty(ages) == [a \in ages |-> 0]
OneNew(bag) == [bag EXCEPT ![0] = @ + 1]

\* A mutation: the newest timestamp is removed whether or not there is one.
OneRemoved(bag) == [bag EXCEPT ![0] = @ - 1]

\* A mutation: popleft() and ZREMRANGEBYRANK key 0 0.
OldestRemoved(bag) ==
    LET held == {a \in DOMAIN bag : bag[a] > 0} IN
    IF held = {} THEN bag ELSE [bag EXCEPT ![Max(held)] = @ - 1]

\* pop() and ZREMRANGEBYRANK key -1 -1: the newest member, if there is any.
NewestRemoved(bag) ==
    LET held == {a \in DOMAIN bag : bag[a] > 0} IN
    IF held = {} THEN bag ELSE [bag EXCEPT ![Min(held)] = @ - 1]

\* A mutation: trim() already drops what is a tick younger.
TrimmedEarly(w) ==
    [a \in DequeAges |-> IF a + 1 < TTL["5h"] THEN deque[w][a] ELSE 0]

\* trim(18000): timestamps older than 5h leave the deque.
Trimmed(w) == [a \in DequeAges |-> IF a < TTL["5h"] THEN deque[w][a] ELSE 0]

\* ZADD of the deque's timestamps to every window ...
Flushed(w) ==
    [i \in Windows |-> [a \in Ages |-> zset[i][a] + Trimmed(w)[a]]]

\* ... and what each window then counts.
Counts(w) == [i \in Windows |-> Count(Flushed(w)[i], Ages)]

Exceeded(w) == {i \in Windows : Counts(w)[i] >= Limit[i]}
Avail(w) == Min({Limit[i] - Counts(w)[i] : i \in Windows})

\* A mutation: a snapshot of any age counts, and so does one that says "nothing left".
ExceededForEver(w) == Count(Trimmed(w), DequeAges) >= rem5h[w]

\* The local 5h check.
LocallyExceeded(w) ==
    /\ fresh[w]
    /\ rem5h[w] > 0
    /\ Count(Trimmed(w), DequeAges) >= rem5h[w]

\* A mutation: the limit is not divided among the workers.
WholeLimit == Limit["5h"]

FallbackLimit ==
    LET divisor == IF LimitDivisor = 0 THEN Cardinality(Workers) ELSE LimitDivisor IN
    Max({1, Limit["5h"] \div divisor})

Init ==
    /\ up = TRUE
    /\ zset = [i \in Windows |-> Empty(Ages)]
    /\ deque = [w \in Workers |-> Empty(DequeAges)]
    /\ reserved = [w \in Workers |-> 0]
    /\ rem5h = [w \in Workers |-> Limit["5h"]]
    /\ fresh = [w \in Workers |-> FALSE]
    /\ fallback = [w \in Workers |-> Empty(WindowAges("5h"))]
    /\ granted = [w \in Workers |-> Empty(Ages)]
    /\ abandoned = [i \in Windows |-> Empty(Ages)]
    /\ refunds = 0
    /\ lost_answers = 0
    /\ outages = 0

-----------------------------------------------------------------------------
(* _check_request *)

\* The snapshot says 5h is used up.
DenyLocal(w) ==
    /\ LocallyExceeded(w)
    /\ deque' = [deque EXCEPT ![w] = Trimmed(w)]
    /\ UNCHANGED <<up, zset, reserved, rem5h, fresh, fallback, historyVars, boundVars>>

\* Prefetched quota is left, however long ago it was prefetched.
Consume(w) ==
    /\ ~LocallyExceeded(w)
    /\ reserved[w] > 0
    /\ reserved' = [reserved EXCEPT ![w] = @ - 1]
    /\ deque' = [deque EXCEPT ![w] = OneNew(Trimmed(w))]
    /\ granted' = [granted EXCEPT ![w] = OneNew(@)]
    /\ UNCHANGED <<up, zset, rem5h, fresh, fallback, abandoned, boundVars>>

NeedsRedis(w) == ~LocallyExceeded(w) /\ reserved[w] = 0

\* code 0.  The first exceeded window is reported, so 5h comes before the others.
PrefetchDenied(w) ==
    /\ NeedsRedis(w) /\ up
    /\ Exceeded(w) # {}
    /\ zset' = Flushed(w)
    /\ deque' = [deque EXCEPT ![w] = Empty(DequeAges)]
    /\ rem5h' = [rem5h EXCEPT ![w] = IF "5h" \in Exceeded(w) THEN 0 ELSE Limit["5h"]]
    /\ fresh' = [fresh EXCEPT ![w] = TRUE]
    /\ UNCHANGED <<up, reserved, fallback, historyVars, boundVars>>

\* code 1
PrefetchGranted(w) ==
    /\ NeedsRedis(w) /\ up
    /\ Exceeded(w) = {}
    /\ zset' = Flushed(w)
    /\ reserved' = [reserved EXCEPT ![w] = Min({Batch, Avail(w)}) - 1]
    /\ deque' = [deque EXCEPT ![w] = OneNew(Empty(DequeAges))]
    /\ rem5h' = [rem5h EXCEPT ![w] = Limit["5h"] - Counts(w)["5h"]]
    /\ fresh' = [fresh EXCEPT ![w] = TRUE]
    /\ granted' = [granted EXCEPT ![w] = OneNew(@)]
    /\ UNCHANGED <<up, fallback, abandoned, boundVars>>

\* _local_window_allow
FallbackDecides(w) ==
    IF Count(fallback[w], WindowAges("5h")) < FallbackLimit
    THEN fallback' = [fallback EXCEPT ![w] = OneNew(@)]
    ELSE UNCHANGED fallback

\* Redis cannot be reached ...
Degrade(w) ==
    /\ NeedsRedis(w) /\ ~up
    /\ FallbackDecides(w)
    /\ deque' = [deque EXCEPT ![w] = Trimmed(w)]
    /\ UNCHANGED <<up, zset, reserved, rem5h, fresh, historyVars, boundVars>>

\* ... or has run the script and the answer is lost: the deque will be flushed again.
AnswerLost(w) ==
    /\ NeedsRedis(w) /\ up
    /\ MoreTrouble
    /\ lost_answers' = lost_answers + 1
    /\ zset' = Flushed(w)
    /\ FallbackDecides(w)
    /\ deque' = [deque EXCEPT ![w] = Trimmed(w)]
    /\ UNCHANGED <<up, reserved, rem5h, fresh, historyVars, refunds, outages>>

\* The commands of a refund that are carried out: one window's after the other's, until one
\* fails and the rest is given up.
Reached == {{}, {"5h"}, {"5h", "7d"}, Windows}

\* refund() of a request admitted a ticks ago; the deque is not trimmed first.
Refund(w, a) ==
    /\ granted[w][a] > 0
    /\ MoreTrouble
    /\ refunds' = refunds + 1
    /\ granted' = [granted EXCEPT ![w][a] = @ - 1]
    /\ \/ /\ Count(deque[w], DequeAges) > 0
          /\ deque' = [deque EXCEPT ![w] = NewestRemoved(@)]
          /\ reserved' = [reserved EXCEPT ![w] = @ + 1]
          /\ UNCHANGED <<zset, abandoned>>
       \/ /\ Count(deque[w], DequeAges) = 0
          /\ \E done \in Reached :
                /\ up \/ done = {}
                /\ zset' = [i \in Windows |-> IF i \in done THEN NewestRemoved(zset[i])
                                                            ELSE zset[i]]
                /\ abandoned' = [i \in Windows |->
                                    IF i \in done THEN abandoned[i]
                                    ELSE [abandoned[i] EXCEPT ![a] = @ + 1]]
          /\ UNCHANGED <<deque, reserved>>
    /\ UNCHANGED <<up, rem5h, fresh, fallback, lost_answers, outages>>

(* Time and Redis *)

\* local_cache_ttl seconds have passed since the last flush.
SnapshotExpires(w) ==
    /\ fresh[w]
    /\ fresh' = [fresh EXCEPT ![w] = FALSE]
    /\ UNCHANGED <<up, zset, deque, reserved, rem5h, fallback, historyVars, boundVars>>

Older(bag, ages) == [a \in ages |-> IF a = 0 THEN 0 ELSE bag[a - 1]]

\* A mutation: a member as old as the window is kept for another tick.
PurgedLate(i) ==
    [a \in Ages |-> IF a <= TTL[i] /\ a > 0 THEN zset[i][a - 1] ELSE 0]

\* ZREMRANGEBYSCORE key 0 now-ttl
Purged(i) == [a \in Ages |-> IF a \in WindowAges(i) /\ a > 0 THEN zset[i][a - 1] ELSE 0]

\* A tick is longer than local_cache_ttl.
Tick ==
    /\ zset' = [i \in Windows |-> Purged(i)]
    /\ deque' = [w \in Workers |->
                    [Older(deque[w], DequeAges) EXCEPT ![Oldest] = @ + deque[w][Oldest]]]
    /\ fallback' = [w \in Workers |-> Older(fallback[w], WindowAges("5h"))]
    /\ granted' = [w \in Workers |-> Older(granted[w], Ages)]
    /\ abandoned' = [i \in Windows |-> Older(abandoned[i], Ages)]
    /\ fresh' = [w \in Workers |-> FALSE]
    /\ UNCHANGED <<up, reserved, rem5h, boundVars>>

Outage ==
    /\ up
    /\ MoreTrouble
    /\ outages' = outages + 1
    /\ up' = FALSE
    /\ UNCHANGED <<zset, stateVars, fallback, historyVars, refunds, lost_answers>>

Recovery ==
    /\ ~up
    /\ up' = TRUE
    /\ UNCHANGED <<zset, stateVars, fallback, historyVars, boundVars>>

Check(w) ==
    \/ DenyLocal(w) \/ Consume(w) \/ PrefetchDenied(w) \/ PrefetchGranted(w)
    \/ Degrade(w) \/ AnswerLost(w)

Next ==
    \/ \E w \in Workers : Check(w) \/ SnapshotExpires(w) \/ \E a \in Ages : Refund(w, a)
    \/ Tick
    \/ Outage \/ Recovery

Spec == Init /\ [][Next]_vars

\* Time passes.
FairSpec == Spec /\ WF_vars(Tick)

-----------------------------------------------------------------------------
(* Properties *)

Bags(ages) == [ages -> Nat]

TypeOK ==
    /\ up \in BOOLEAN
    /\ zset \in [Windows -> Bags(Ages)]
    /\ deque \in [Workers -> Bags(DequeAges)]
    /\ reserved \in [Workers -> Nat]
    /\ rem5h \in [Workers -> 0 .. Limit["5h"]]
    /\ fresh \in [Workers -> BOOLEAN]
    /\ fallback \in [Workers -> Bags(WindowAges("5h"))]
    /\ granted \in [Workers -> Bags(Ages)]
    /\ abandoned \in [Windows -> Bags(Ages)]
    /\ refunds \in Nat
    /\ lost_answers \in Nat
    /\ outages \in Nat

\* Admissions by all workers within the last window.
Recent(i) == Total([w \in Workers |-> Count(granted[w], WindowAges(i))], Workers)

OvershootOf(i) == Recent(i) <= Limit[i] + (Cardinality(Workers) - 1) * Batch + refunds

\* In any 5 hours, not just in the first ones, the workers admit at most (workers-1) *
\* batch_size requests beyond the limit (README, line 184), although prefetched quota is
\* spent long after it was granted.  A refund that removes a younger timestamp than its
\* own request's may add one.
ShortWindowOvershoot == OvershootOf("5h")

\* The same for every window of the policy, as the README says.
AllWindowsOvershoot == \A i \in Windows : OvershootOf(i)

WouldRefuse(w) == LocallyExceeded(w) \/ (NeedsRedis(w) /\ up /\ Exceeded(w) # {})

\* A request is refused only when a limit has been reached within that very window: no
\* expired timestamp and no outdated snapshot counts against a user.  Refunds are added:
\* they may have been given up, or have come after the worker's snapshot.  (A lost answer
\* makes Redis count timestamps twice.)
RefusedOnlyWhenUsedUp ==
    \A w \in Workers :
        WouldRefuse(w) /\ lost_answers = 0
            => \E i \in Windows : Recent(i) + refunds >= Limit[i]

\* Quota and fallback together: an outage of Redis adds at most one fallback window per
\* worker (README, line 185) to what a user gets within 5 hours.
OutageOvershoot ==
    Recent("5h") + Total([w \in Workers |-> Count(fallback[w], WindowAges("5h"))], Workers)
        <= Limit["5h"] + (Cardinality(Workers) - 1) * Batch + refunds
           + Max({Cardinality(Workers), Limit["5h"]})

\* Failed requests of the last window whose refund was given up.
GivenUp(i) == Count(abandoned[i], WindowAges(i))

\* What is held against the user in window i: in Redis, and in what the workers will flush.
Held(i) ==
    Count(zset[i], Ages) + Total([w \in Workers |-> Count(Trimmed(w), DequeAges)], Workers)

\* A refund takes the newest timestamp it finds, whoever's it is, and it is given up when
\* Redis fails, for all windows or for the last ones only.  Nevertheless a window only holds
\* the requests admitted within it, and at most one more for each refund given up, until
\* that request would have left the window anyway (ratelimit.py:234-235, 279).
RefundErrorHeals ==
    lost_answers = 0 => \A i \in Windows : Held(i) <= Recent(i) + GivenUp(i)

\* Nobody is locked out for good (ratelimit.py:331-332): whatever a worker remembers of
\* Redis, it lets the user through again, or asks Redis and finds room.
NotLockedOut == \A w \in Workers : []<>~WouldRefuse(w)
=============================================================================
