----------------------------- MODULE ReadThrough -----------------------------
(***************************************************************************)
(* How a change in MySQL reaches the workers: the three-level lookup of    *)
(* app/resolver.py (L1 cache of the process, Redis, MySQL), the admin API  *)
(* that writes MySQL and then Redis (app/admin.py), and the synchroniser   *)
(* every worker runs (app/sync.py), for ONE cache key.                     *)
(*                                                                         *)
(* The key is a group and its value the group's policy; with Admins = {}   *)
(* and OutsideWrites the module is just as well the other cache of the     *)
(* resolver, key hash to group, whose table NewAPI writes.                 *)
(*                                                                         *)
(* Time is measured in ticks.  Nothing is in flight for ever: a value that *)
(* was read is stored or dropped within MaxDelay ticks.                    *)
(***************************************************************************)
EXTENDS Integers, FiniteSets

CONSTANTS
    Workers,       \* uvicorn worker processes: one L1 cache and one syncer each
    Slots,         \* lookups one worker may have under way
    Admins,        \* admin requests that may be under way at a time
    OutsideWrites, \* whether something else writes the table (NewAPI: tokens)
    Policies,      \* the values the row can have while it is enabled
    NoPolicy,      \* no row with status = 1
    L1TTL,         \* RATELIMIT_LOCAL_CACHE_TTL
    NegativeTTL,   \* RATELIMIT_LOCAL_CACHE_NEGATIVE_TTL
    RedisTTL,      \* SYNC_CONFIG_CACHE_TTL, or SYNC_KEY_MAP_TTL for keys
    MaxDelay,      \* bound: ticks between reading a value and storing it
    MaxAge,        \* bound: ages above it are not told apart
    MaxDbErrors,   \* bound: MySQL lookups that fail
    MaxOutages     \* bound: times Redis becomes unreachable

Min2(a, b) == IF a < b THEN a ELSE b

\* The longest time a value can outlive its replacement in MySQL (see ServedIsRecent).
MaxStaleness == L1TTL + RedisTTL + 2 * MaxDelay

ASSUME ReadThroughAssumption ==
    /\ IsFiniteSet(Workers) /\ IsFiniteSet(Slots) /\ IsFiniteSet(Admins)
    /\ OutsideWrites \in BOOLEAN
    /\ NoPolicy \notin Policies
    /\ {L1TTL, NegativeTTL, MaxDelay, MaxAge, MaxDbErrors, MaxOutages} \subseteq Nat
    /\ RedisTTL \in Nat \ {0}
    /\ MaxStaleness < MaxAge

Tasks == Workers \X Slots
Values == Policies \cup {NoPolicy}

\* An absent cache entry, or one whose time is over.
Miss == [full |-> FALSE, val |-> NoPolicy, ttl |-> 0]

\* What a reader holds between its read and its use of the value.
Nothing == [val |-> NoPolicy, held |-> 0]

VARIABLES
    row,        \* MySQL: the value, NoPolicy without a row of status 1
    up,         \* Redis can be reached
    redis,      \* Redis: the key config:{group}
    l1,         \* worker -> its L1 entry for the group
    pc,         \* task -> where its lookup is
    got,        \* task -> what it has read
    admin_pc,   \* admin request -> where it is
    refreshed,  \* admin request -> the row its refresh has read
    sync,       \* worker -> the rows its sync has read; "idle" or "read"
    synced,     \* worker -> the value among them
    age,        \* history: value -> ticks since MySQL last had it, up to MaxAge
    db_errors, outages   \* how often each has happened (bounded)

cacheVars == <<redis, l1>>
taskVars  == <<pc, got>>
adminVars == <<admin_pc, refreshed>>
syncVars  == <<sync, synced>>
boundVars == <<db_errors, outages>>
vars == <<row, up, cacheVars, taskVars, adminVars, syncVars, age, boundVars>>

-----------------------------------------------------------------------------
(* Caches *)

\* A mutation: the negative sentinel is kept as long as a policy.
PutL1OneTTL(w, v) == l1' = [l1 EXCEPT ![w] = [full |-> TRUE, val |-> v, ttl |-> L1TTL]]

\* min(local_cache_negative_ttl, local_cache_ttl) for the negative sentinel _NEG.
PutL1(w, v) ==
    l1' = [l1 EXCEPT ![w] = [full |-> TRUE, val |-> v,
                             ttl |-> IF v = NoPolicy THEN Min2(NegativeTTL, L1TTL) ELSE L1TTL]]

\* A mutation: the policy is stored with the TTL of the key map, five times as long.
StoredForKeymapTTL(v) == redis' = [full |-> TRUE, val |-> v, ttl |-> 5 * RedisTTL]

\* SET config:{group} EX config_cache_ttl
Stored(v) == redis' = [full |-> TRUE, val |-> v, ttl |-> RedisTTL]

\* An unreachable Redis changes nothing.
StoreIfUp(v) == IF up THEN Stored(v) ELSE UNCHANGED redis

\* DEL config:{group}
DeleteIfUp == IF up THEN redis' = Miss ELSE UNCHANGED redis

Hold(v) == [val |-> v, held |-> 0]

-----------------------------------------------------------------------------
\* The row exists since before the gateway started; Redis was filled by an earlier sync.
Init ==
    /\ row \in Values
    /\ up = TRUE
    /\ redis = IF row = NoPolicy THEN Miss ELSE [full |-> TRUE, val |-> row, ttl |-> RedisTTL]
    /\ l1 = [w \in Workers |-> Miss]
    /\ pc = [t \in Tasks |-> "idle"]
    /\ got = [t \in Tasks |-> Nothing]
    /\ admin_pc = [a \in Admins |-> "idle"]
    /\ refreshed = [a \in Admins |-> Nothing]
    /\ sync = [w \in Workers |-> "idle"]
    /\ synced = [w \in Workers |-> Nothing]
    /\ age = [v \in Values |-> IF v = row THEN 0 ELSE MaxAge]
    /\ db_errors = 0
    /\ outages = 0

(* _resolve_config; an L1 hit changes nothing and is no action *)

\* L1 miss: ask Redis.
Lookup(t) ==
    /\ pc[t] = "idle"
    /\ ~l1[t[1]].full
    /\ pc' = [pc EXCEPT ![t] = "getting"]
    /\ UNCHANGED <<row, up, cacheVars, got, adminVars, syncVars, age, boundVars>>

\* Redis answers; an exception is taken for a miss.
RedisAnswers(t) ==
    /\ pc[t] = "getting"
    /\ IF up /\ redis.full
       THEN /\ pc' = [pc EXCEPT ![t] = "hit"]
            /\ got' = [got EXCEPT ![t] = Hold(redis.val)]
       ELSE /\ pc' = [pc EXCEPT ![t] = "querying"]
            /\ UNCHANGED got
    /\ UNCHANGED <<row, up, cacheVars, adminVars, syncVars, age, boundVars>>

\* put() of other keys: the least recently used entry is dropped.
Evict(w) ==
    /\ l1[w].full
    /\ l1' = [l1 EXCEPT ![w] = Miss]
    /\ UNCHANGED <<row, up, redis, taskVars, adminVars, syncVars, age, boundVars>>

Finish(t) ==
    /\ pc' = [pc EXCEPT ![t] = "idle"]
    /\ got' = [got EXCEPT ![t] = Nothing]

ReceiveHit(t) ==
    /\ pc[t] = "hit"
    /\ PutL1(t[1], got[t].val)
    /\ Finish(t)
    /\ UNCHANGED <<row, up, redis, adminVars, syncVars, age, boundVars>>

\* _db_lookup_config
DbAnswers(t) ==
    /\ pc[t] = "querying"
    /\ pc' = [pc EXCEPT ![t] = "queried"]
    /\ got' = [got EXCEPT ![t] = Hold(row)]
    /\ UNCHANGED <<row, up, cacheVars, adminVars, syncVars, age, boundVars>>

\* An exception of the database is logged and looks like an absent row.
DbFails(t) ==
    /\ pc[t] = "querying"
    /\ db_errors < MaxDbErrors
    /\ db_errors' = db_errors + 1
    /\ pc' = [pc EXCEPT ![t] = "queried"]
    /\ got' = [got EXCEPT ![t] = Hold(NoPolicy)]
    /\ UNCHANGED <<row, up, cacheVars, adminVars, syncVars, age, outages>>

\* Fill L1; a policy is written back to Redis as well, which is awaited.
ReceiveRow(t) ==
    /\ pc[t] = "queried"
    /\ got[t].val # NoPolicy
    /\ PutL1(t[1], got[t].val)
    /\ pc' = [pc EXCEPT ![t] = "writing"]
    /\ UNCHANGED <<row, up, redis, got, adminVars, syncVars, age, boundVars>>

\* Negative caching, in L1 only.
ReceiveNoRow(t) ==
    /\ pc[t] = "queried"
    /\ got[t].val = NoPolicy
    /\ PutL1(t[1], NoPolicy)
    /\ Finish(t)
    /\ UNCHANGED <<row, up, redis, adminVars, syncVars, age, boundVars>>

\* _writeback_config, best effort
Writeback(t) ==
    /\ pc[t] = "writing"
    /\ StoreIfUp(got[t].val)
    /\ Finish(t)
    /\ UNCHANGED <<row, up, l1, adminVars, syncVars, age, boundVars>>

(* Whatever changes the table *)

Write(v) == row' = v /\ age' = [age EXCEPT ![v] = 0]

\* NewAPI (the tokens table), or an operator, writes MySQL behind the gateway's back.
OutsideWrite ==
    /\ OutsideWrites
    /\ \E v \in Values \ {row} : Write(v)
    /\ UNCHANGED <<up, cacheVars, taskVars, adminVars, syncVars, boundVars>>

\* create_group and update_group up to the commit; status 0 makes it NoPolicy.
AdminCommit(a) ==
    /\ admin_pc[a] = "idle"
    /\ \E v \in Values : Write(v)
    /\ admin_pc' = [admin_pc EXCEPT ![a] = "committed"]
    /\ UNCHANGED <<up, cacheVars, taskVars, refreshed, syncVars, boundVars>>

\* session.refresh reads the row again: by now it may hold another request's values.
AdminRefresh(a) ==
    /\ admin_pc[a] = "committed"
    /\ refreshed' = [refreshed EXCEPT ![a] = Hold(row)]
    /\ admin_pc' = [admin_pc EXCEPT ![a] = "refreshed"]
    /\ UNCHANGED <<row, up, cacheVars, taskVars, syncVars, age, boundVars>>

\* _sync_group_to_redis; if Redis cannot be reached the request fails with 500, and the
\* commit stands.
AdminPush(a) ==
    /\ admin_pc[a] = "refreshed"
    /\ IF refreshed[a].val # NoPolicy THEN StoreIfUp(refreshed[a].val) ELSE DeleteIfUp
    /\ admin_pc' = [admin_pc EXCEPT ![a] = "idle"]
    /\ refreshed' = [refreshed EXCEPT ![a] = Nothing]
    /\ UNCHANGED <<row, up, l1, taskVars, syncVars, age, boundVars>>

\* delete_group up to the commit, ...
AdminDisable(a) ==
    /\ admin_pc[a] = "idle"
    /\ Write(NoPolicy)
    /\ admin_pc' = [admin_pc EXCEPT ![a] = "disabled"]
    /\ UNCHANGED <<up, cacheVars, taskVars, refreshed, syncVars, boundVars>>

\* ... and its DEL, which reads nothing again.
AdminDelete(a) ==
    /\ admin_pc[a] = "disabled"
    /\ DeleteIfUp
    /\ admin_pc' = [admin_pc EXCEPT ![a] = "idle"]
    /\ UNCHANGED <<row, up, l1, taskVars, refreshed, syncVars, age, boundVars>>

(* sync_group_configs of each worker *)

\* Only rows of status 1 are read; with none there is nothing to store.
SyncRead(w) ==
    /\ sync[w] = "idle"
    /\ row # NoPolicy
    /\ sync' = [sync EXCEPT ![w] = "read"]
    /\ synced' = [synced EXCEPT ![w] = Hold(row)]
    /\ UNCHANGED <<row, up, cacheVars, taskVars, adminVars, age, boundVars>>

\* pipe.execute(); its failure is logged.
SyncPush(w) ==
    /\ sync[w] = "read"
    /\ StoreIfUp(synced[w].val)
    /\ sync' = [sync EXCEPT ![w] = "idle"]
    /\ synced' = [synced EXCEPT ![w] = Nothing]
    /\ UNCHANGED <<row, up, l1, taskVars, adminVars, age, boundVars>>

(* Time and Redis *)

Outage ==
    /\ up
    /\ outages < MaxOutages
    /\ outages' = outages + 1
    /\ up' = FALSE
    /\ UNCHANGED <<row, cacheVars, taskVars, adminVars, syncVars, age, db_errors>>

\* Redis is back, with its data or without.
Recovery ==
    /\ ~up
    /\ up' = TRUE
    /\ redis' \in {redis, Miss}
    /\ UNCHANGED <<row, l1, taskVars, adminVars, syncVars, age, boundVars>>

\* Those who have read something that they have still to store.
Reading == {t \in Tasks : pc[t] \in {"hit", "queried", "writing"}}
Pushing == {a \in Admins : admin_pc[a] = "refreshed"}
Syncing == {w \in Workers : sync[w] = "read"}

Older(h) == [h EXCEPT !.held = @ + 1]

\* An L1 entry is used up to and including its expiry time, a key of Redis before it.
TickL1(e) == IF e.full /\ e.ttl > 0 THEN [e EXCEPT !.ttl = @ - 1] ELSE Miss
TickRedis(e) == IF e.full /\ e.ttl > 1 THEN [e EXCEPT !.ttl = @ - 1] ELSE Miss

Tick ==
    /\ \A t \in Reading : got[t].held < MaxDelay
    /\ \A a \in Pushing : refreshed[a].held < MaxDelay
    /\ \A w \in Syncing : synced[w].held < MaxDelay
    /\ got' = [t \in Tasks |-> IF t \in Reading THEN Older(got[t]) ELSE got[t]]
    /\ refreshed' = [a \in Admins |-> IF a \in Pushing THEN Older(refreshed[a])
                                      ELSE refreshed[a]]
    /\ synced' = [w \in Workers |-> IF w \in Syncing THEN Older(synced[w]) ELSE synced[w]]
    /\ l1' = [w \in Workers |-> TickL1(l1[w])]
    /\ redis' = TickRedis(redis)
    /\ age' = [v \in Values |-> IF v = row THEN 0 ELSE Min2(age[v] + 1, MaxAge)]
    /\ UNCHANGED <<row, up, pc, admin_pc, sync, boundVars>>

Resolve(t) ==
    \/ Lookup(t) \/ RedisAnswers(t) \/ ReceiveHit(t) \/ DbAnswers(t) \/ DbFails(t)
    \/ ReceiveRow(t) \/ ReceiveNoRow(t) \/ Writeback(t)
Admin(a) ==
    AdminCommit(a) \/ AdminRefresh(a) \/ AdminPush(a) \/ AdminDisable(a) \/ AdminDelete(a)

Next ==
    \/ \E t \in Tasks : Resolve(t)
    \/ \E a \in Admins : Admin(a)
    \/ \E w \in Workers : SyncRead(w) \/ SyncPush(w) \/ Evict(w)
    \/ OutsideWrite \/ Outage \/ Recovery \/ Tick

Spec == Init /\ [][Next]_vars

-----------------------------------------------------------------------------
(* Properties *)

Entry(ttl) == [full : BOOLEAN, val : Values, ttl : 0 .. ttl]
Held == [val : Values, held : 0 .. MaxDelay]

TypeOK ==
    /\ row \in Values
    /\ up \in BOOLEAN
    /\ redis \in Entry(RedisTTL) /\ (redis.full => redis.val # NoPolicy /\ redis.ttl > 0)
    /\ l1 \in [Workers -> Entry(L1TTL)]
    /\ pc \in [Tasks -> {"idle", "getting", "hit", "querying", "queried", "writing"}]
    /\ got \in [Tasks -> Held]
    /\ admin_pc \in [Admins -> {"idle", "committed", "refreshed", "disabled"}]
    /\ refreshed \in [Admins -> Held]
    /\ sync \in [Workers -> {"idle", "read"}]
    /\ synced \in [Workers -> Held]
    /\ age \in [Values -> 0 .. MaxAge]
    /\ db_errors \in Nat
    /\ outages \in Nat

\* A policy a worker enforces is the current one or was replaced at most MaxStaleness
\* ago, whatever lookups, syncs and admin requests cross each other: a stale value may
\* be written over a newer one, but not kept alive by being passed on.
ServedIsRecent ==
    \A w \in Workers :
        l1[w].full /\ l1[w].val # NoPolicy => age[l1[w].val] <= MaxStaleness

\* The negative sentinel means "confirmed absent" (resolver.py:26): a worker treats a
\* group as unknown only if MySQL had no enabled row for it when it was looked up,
\* which is at most a lookup and the negative TTL ago.
AbsenceConfirmed ==
    \A w \in Workers :
        l1[w].full /\ l1[w].val = NoPolicy => age[NoPolicy] <= NegativeTTL + MaxDelay

\* The same as long as no MySQL lookup has failed, whatever becomes of Redis meanwhile.
AbsenceConfirmedWithoutErrors == db_errors = 0 => AbsenceConfirmed
=============================================================================
