-------------------------- MODULE ReadThroughProofs --------------------------
(***************************************************************************)
(* Proofs about ReadThrough for every number of workers, lookups and admin *)
(* requests and every setting of the TTLs: the type invariant, that no     *)
(* policy outlives its replacement by more than MaxStaleness, and that a   *)
(* worker does not make a group disappear unless MySQL said so.            *)
(***************************************************************************)
EXTENDS ReadThrough, TLAPS

-----------------------------------------------------------------------------
(* Types *)

\* The constants and the records the caches are made of.
LEMMA ConstantTypes ==
    /\ L1TTL \in Nat /\ NegativeTTL \in Nat /\ MaxDelay \in Nat /\ MaxAge \in Nat
    /\ RedisTTL \in Nat \ {0}
    /\ NoPolicy \in Values /\ NoPolicy \notin Policies
    /\ MaxStaleness \in Nat /\ MaxStaleness < MaxAge
    /\ \A t \in Tasks : t[1] \in Workers
BY ReadThroughAssumption DEF ReadThroughAssumption, MaxStaleness, Values, Tasks

LEMMA EntryTypes ==
    /\ Miss \in Entry(L1TTL) /\ Miss \in Entry(RedisTTL)
    /\ Nothing \in Held
    /\ \A v \in Values : Hold(v) \in Held
    /\ \A v \in Values : [full |-> TRUE, val |-> v, ttl |-> RedisTTL] \in Entry(RedisTTL)
BY ConstantTypes DEF Miss, Entry, Nothing, Held, Hold

\* What ends up in L1 is the value, with a TTL no longer than L1TTL.
LEMMA PutL1Type ==
    ASSUME TypeOK, NEW w \in Workers, NEW v \in Values, PutL1(w, v)
    PROVE  /\ l1' \in [Workers -> Entry(L1TTL)]
           /\ l1'[w].val = v
           /\ v # NoPolicy => l1'[w].ttl = L1TTL
           /\ \A x \in Workers \ {w} : l1'[x] = l1[x]
<1>1. Min2(NegativeTTL, L1TTL) \in 0 .. L1TTL  BY ConstantTypes DEF Min2
<1> DEFINE e == [full |-> TRUE, val |-> v,
                 ttl |-> IF v = NoPolicy THEN Min2(NegativeTTL, L1TTL) ELSE L1TTL]
<1>2. e \in Entry(L1TTL)  BY <1>1, ConstantTypes DEF Entry
<1>3. l1' = [l1 EXCEPT ![w] = e]  BY DEF PutL1
<1>4. l1 \in [Workers -> Entry(L1TTL)]  BY DEF TypeOK
<1>5. QED  BY <1>2, <1>3, <1>4

\* A store keeps the type of the key; the value stored is a policy.
LEMMA StoreType ==
    ASSUME TypeOK, NEW v \in Values, v # NoPolicy, StoreIfUp(v)
    PROVE  /\ redis' \in Entry(RedisTTL)
           /\ redis'.full => redis'.val # NoPolicy /\ redis'.ttl > 0
           /\ redis' = redis \/ redis' = [full |-> TRUE, val |-> v, ttl |-> RedisTTL]
BY EntryTypes, ConstantTypes DEF TypeOK, StoreIfUp, Stored

LEMMA DeleteType ==
    ASSUME TypeOK, DeleteIfUp
    PROVE  /\ redis' \in Entry(RedisTTL)
           /\ redis'.full => redis'.val # NoPolicy /\ redis'.ttl > 0
           /\ redis' = redis \/ redis' = Miss
<1>1. Miss.full = FALSE  BY DEF Miss
<1>2. redis' = redis \/ redis' = Miss  BY DEF DeleteIfUp
<1>3. QED  BY <1>1, <1>2, EntryTypes DEF TypeOK

\* A task that stores a value holds one, and an admin request and a sync hold a policy
\* when they store one.
HoldsPolicy ==
    /\ \A t \in Tasks : pc[t] \in {"hit", "writing"} => got[t].val # NoPolicy
    /\ \A w \in Workers : sync[w] = "read" => synced[w].val # NoPolicy

LEMMA InitType == Init => TypeOK /\ HoldsPolicy
<1> SUFFICES ASSUME Init PROVE TypeOK /\ HoldsPolicy
  OBVIOUS
<1>1. age \in [Values -> 0 .. MaxAge]  BY ConstantTypes DEF Init
<1>2. redis \in Entry(RedisTTL) /\ (redis.full => redis.val # NoPolicy /\ redis.ttl > 0)
  BY EntryTypes, ConstantTypes DEF Init, Miss
<1>3. QED  BY <1>1, <1>2, EntryTypes DEF Init, TypeOK, HoldsPolicy

LEMMA TickTypes ==
    ASSUME TypeOK
    PROVE  /\ \A w \in Workers : TickL1(l1[w]) \in Entry(L1TTL)
           /\ TickRedis(redis) \in Entry(RedisTTL)
           /\ TickRedis(redis).full => /\ redis.full
                                       /\ TickRedis(redis).val = redis.val
                                       /\ TickRedis(redis).ttl = redis.ttl - 1
                                       /\ TickRedis(redis).ttl > 0
           /\ \A w \in Workers : TickL1(l1[w]).full =>
                  /\ l1[w].full
                  /\ TickL1(l1[w]).val = l1[w].val
                  /\ TickL1(l1[w]).ttl = l1[w].ttl - 1
           /\ \A h \in Held : h.held < MaxDelay =>
                  /\ Older(h) \in Held
                  /\ Older(h).val = h.val
                  /\ Older(h).held = h.held + 1
<1>1. ASSUME NEW w \in Workers
      PROVE  /\ TickL1(l1[w]) \in Entry(L1TTL)
             /\ TickL1(l1[w]).full => /\ l1[w].full
                                      /\ TickL1(l1[w]).val = l1[w].val
                                      /\ TickL1(l1[w]).ttl = l1[w].ttl - 1
  <2>1. l1[w] \in Entry(L1TTL)  BY <1>1 DEF TypeOK
  <2>2. QED  BY <2>1, EntryTypes, ConstantTypes DEF TickL1, Entry, Miss
<1>2. /\ TickRedis(redis) \in Entry(RedisTTL)
      /\ TickRedis(redis).full => /\ redis.full
                                  /\ TickRedis(redis).val = redis.val
                                  /\ TickRedis(redis).ttl = redis.ttl - 1
                                  /\ TickRedis(redis).ttl > 0
  <2>1. redis \in Entry(RedisTTL)  BY DEF TypeOK
  <2>2. QED  BY <2>1, EntryTypes, ConstantTypes DEF TickRedis, Entry, Miss
<1>3. \A h \in Held : h.held < MaxDelay => /\ Older(h) \in Held
                                           /\ Older(h).val = h.val
                                           /\ Older(h).held = h.held + 1
  BY ConstantTypes DEF Older, Held
<1>4. QED  BY <1>1, <1>2, <1>3

LEMMA NextType == TypeOK /\ HoldsPolicy /\ [Next]_vars => TypeOK' /\ HoldsPolicy'
<1> SUFFICES ASSUME TypeOK, HoldsPolicy, [Next]_vars PROVE TypeOK' /\ HoldsPolicy'
  OBVIOUS
<1> USE ConstantTypes, EntryTypes
    DEF TypeOK, HoldsPolicy, vars, cacheVars, taskVars, adminVars, syncVars, boundVars
<1>1. ASSUME NEW t \in Tasks, Resolve(t) PROVE TypeOK' /\ HoldsPolicy'
  <2>0. t[1] \in Workers /\ got[t].val \in Values  BY DEF Held
  <2>1. CASE Lookup(t)  BY <2>1 DEF Lookup
  <2>2. CASE RedisAnswers(t)
    <3>1. redis.full => redis.val \in Values /\ Hold(redis.val).val = redis.val
      BY DEF Entry, Hold
    <3>2. QED  BY <2>2, <3>1 DEF RedisAnswers
  <2>3. CASE ReceiveHit(t)  BY <2>0, <2>3, PutL1Type DEF ReceiveHit, Finish
  <2>4. CASE DbAnswers(t)  BY <2>4 DEF DbAnswers
  <2>5. CASE DbFails(t)  BY <2>5 DEF DbFails
  <2>6. CASE ReceiveRow(t)  BY <2>0, <2>6, PutL1Type DEF ReceiveRow
  <2>7. CASE ReceiveNoRow(t)  BY <2>0, <2>7, PutL1Type DEF ReceiveNoRow, Finish
  <2>8. CASE Writeback(t)
    <3>1. got[t].val # NoPolicy /\ StoreIfUp(got[t].val)  BY <2>8 DEF Writeback
    <3>2. QED  BY <2>0, <2>8, <3>1, StoreType DEF Writeback, Finish
  <2>9. QED
    BY <1>1, <2>1, <2>2, <2>3, <2>4, <2>5, <2>6, <2>7, <2>8 DEF Resolve
<1>2. ASSUME NEW a \in Admins, Admin(a) PROVE TypeOK' /\ HoldsPolicy'
  <2>0. refreshed[a].val \in Values  BY DEF Held
  <2>1. CASE AdminCommit(a)  BY <2>1 DEF AdminCommit, Write
  <2>2. CASE AdminRefresh(a)  BY <2>2 DEF AdminRefresh
  <2>3. CASE AdminPush(a)
    <3>1. /\ redis' \in Entry(RedisTTL)
          /\ redis'.full => redis'.val # NoPolicy /\ redis'.ttl > 0
      BY <2>0, <2>3, StoreType, DeleteType DEF AdminPush
    <3>2. QED  BY <2>3, <3>1 DEF AdminPush
  <2>4. CASE AdminDisable(a)  BY <2>4 DEF AdminDisable, Write
  <2>5. CASE AdminDelete(a)
    <3>1. /\ redis' \in Entry(RedisTTL)
          /\ redis'.full => redis'.val # NoPolicy /\ redis'.ttl > 0
      BY <2>5, DeleteType DEF AdminDelete
    <3>2. QED  BY <2>5, <3>1 DEF AdminDelete
  <2>6. QED  BY <1>2, <2>1, <2>2, <2>3, <2>4, <2>5 DEF Admin
<1>3. ASSUME NEW w \in Workers, SyncRead(w) PROVE TypeOK' /\ HoldsPolicy'
  <2>1. Hold(row).val = row  BY DEF Hold
  <2>2. QED  BY <1>3, <2>1 DEF SyncRead
<1>4. ASSUME NEW w \in Workers, SyncPush(w) PROVE TypeOK' /\ HoldsPolicy'
  <2>1. synced[w].val \in Values /\ synced[w].val # NoPolicy
    BY <1>4 DEF SyncPush, Held
  <2>2. QED  BY <1>4, <2>1, StoreType DEF SyncPush
<1>5. CASE OutsideWrite  BY <1>5 DEF OutsideWrite, Write
<1>6. CASE Outage
  <2>1. outages' \in Nat  BY <1>6 DEF Outage
  <2>2. up' \in BOOLEAN  BY <1>6, Zenon DEF Outage
  <2>3. QED  BY <1>6, <2>1, <2>2 DEF Outage
<1>7. CASE Recovery
  <2>1. /\ redis' \in Entry(RedisTTL)
        /\ redis'.full => redis'.val # NoPolicy /\ redis'.ttl > 0
    <3>1. Miss.full = FALSE  BY DEF Miss
    <3>2. redis' = redis \/ redis' = Miss  BY <1>7 DEF Recovery
    <3>3. QED  BY <3>1, <3>2
  <2>2. up' \in BOOLEAN  BY <1>7, Zenon DEF Recovery
  <2>3. QED  BY <1>7, <2>1, <2>2 DEF Recovery
<1>8. CASE Tick
  <2>1. got' \in [Tasks -> Held]
    BY <1>8, TickTypes DEF Tick
  <2>2. refreshed' \in [Admins -> Held]
    BY <1>8, TickTypes DEF Tick
  <2>3. synced' \in [Workers -> Held]
    BY <1>8, TickTypes DEF Tick
  <2>4. l1' \in [Workers -> Entry(L1TTL)]
    BY <1>8, TickTypes DEF Tick
  <2>5. /\ redis' \in Entry(RedisTTL)
        /\ redis'.full => redis'.val # NoPolicy /\ redis'.ttl > 0
    BY <1>8, TickTypes DEF Tick
  <2>6. age' \in [Values -> 0 .. MaxAge]
    <3>1. \A v \in Values : Min2(age[v] + 1, MaxAge) \in 0 .. MaxAge  BY DEF Min2
    <3>2. QED  BY <1>8, <3>1 DEF Tick
  <2>7. HoldsPolicy'
    BY <1>8, TickTypes DEF Tick, Reading, Syncing
  <2>8. QED  BY <1>8, <2>1, <2>2, <2>3, <2>4, <2>5, <2>6, <2>7 DEF Tick
<1>9. CASE UNCHANGED vars  BY <1>9
<1>10. ASSUME NEW w \in Workers, Evict(w) PROVE TypeOK' /\ HoldsPolicy'
  BY <1>10 DEF Evict
<1>11. QED
  BY <1>1, <1>2, <1>3, <1>4, <1>5, <1>6, <1>7, <1>8, <1>9, <1>10 DEF Next

\* Every state of every execution has the types TypeOK gives: in particular no TTL ever
\* exceeds its setting and Redis never stores an absent policy.
THEOREM TypesHold == Spec => []TypeOK
<1>1. Spec => [](TypeOK /\ HoldsPolicy)  BY InitType, NextType, PTL DEF Spec
<1>2. QED  BY <1>1, PTL

-----------------------------------------------------------------------------
(* Staleness.  A value is handed from MySQL to its reader, from there to Redis,     *)
(* from Redis to another reader, and from there to L1; the time it has spent at     *)
(* each station bounds its age, and every station forgets it.                       *)

\* Read from MySQL: as old as the time it has been held.
FromRow(h) == h.val # NoPolicy => age[h.val] <= h.held

\* In Redis: held by a reader for at most MaxDelay, then stored for RedisTTL - ttl.
RedisRecent ==
    redis.full => age[redis.val] <= MaxDelay + (RedisTTL - redis.ttl)

\* Read from Redis: held since then.
FromRedis(h) == age[h.val] <= MaxDelay + RedisTTL + h.held

\* In L1: read from Redis, or from MySQL, and stored for L1TTL - ttl.
L1Recent(w) ==
    l1[w].full /\ l1[w].val # NoPolicy
        => age[l1[w].val] <= 2 * MaxDelay + RedisTTL + (L1TTL - l1[w].ttl)

Recency ==
    /\ age[row] = 0
    /\ \A t \in Tasks : /\ pc[t] = "hit" => FromRedis(got[t])
                        /\ pc[t] \in {"queried", "writing"} => FromRow(got[t])
    /\ \A a \in Admins : admin_pc[a] = "refreshed" => FromRow(refreshed[a])
    /\ \A w \in Workers : sync[w] = "read" => FromRow(synced[w])
    /\ RedisRecent
    /\ \A w \in Workers : L1Recent(w)

LEMMA InitRecency == Init => Recency
<1> SUFFICES ASSUME Init PROVE Recency
  OBVIOUS
<1>1. age[row] = 0  BY DEF Init
<1>2. RedisRecent
  <2>1. redis.full => redis.val = row /\ redis.ttl = RedisTTL  BY DEF Init, Miss
  <2>2. QED  BY <1>1, <2>1, ConstantTypes DEF RedisRecent
<1>3. QED  BY <1>1, <1>2 DEF Init, Recency, L1Recent, Miss

\* What a step that leaves the ages alone has to keep.
LEMMA RecencyParts ==
    ASSUME Recency, UNCHANGED <<row, age>>,
           \A t \in Tasks : /\ pc'[t] = "hit" => FromRedis(got[t])' 
                            /\ pc'[t] \in {"queried", "writing"} => FromRow(got[t])',
           \A a \in Admins : admin_pc'[a] = "refreshed" => FromRow(refreshed[a])',
           \A w \in Workers : sync'[w] = "read" => FromRow(synced[w])',
           RedisRecent', \A w \in Workers : L1Recent(w)'
    PROVE  Recency'
BY DEF Recency

\* A value read from MySQL and stored in Redis within MaxDelay keeps RedisRecent.
LEMMA StoreRecent ==
    ASSUME TypeOK, NEW h \in Held, h.val # NoPolicy, FromRow(h), RedisRecent,
           UNCHANGED age, StoreIfUp(h.val)
    PROVE  RedisRecent'
<1>1. h.val \in Values /\ h.held \in 0 .. MaxDelay  BY DEF Held
<1>2. redis' = redis \/ redis' = [full |-> TRUE, val |-> h.val, ttl |-> RedisTTL]
  BY <1>1, StoreType
<1>3. CASE redis' = redis  BY <1>3 DEF RedisRecent
<1>4. CASE redis' = [full |-> TRUE, val |-> h.val, ttl |-> RedisTTL]
  <2>1. age[h.val] <= MaxDelay
    BY <1>1, ConstantTypes DEF FromRow, TypeOK
  <2>2. redis'.val = h.val /\ redis'.ttl = RedisTTL  BY <1>4
  <2>3. QED  BY <2>1, <2>2, ConstantTypes DEF RedisRecent
<1>5. QED  BY <1>2, <1>3, <1>4

LEMMA DeleteRecent ==
    ASSUME TypeOK, RedisRecent, UNCHANGED age, DeleteIfUp
    PROVE  RedisRecent'
<1>1. redis' = redis \/ redis' = Miss  BY DeleteType
<1>2. Miss.full = FALSE  BY DEF Miss
<1>3. QED  BY <1>1, <1>2 DEF RedisRecent

\* A value that is not older than what may come from Redis keeps L1Recent when it is
\* stored in L1.
LEMMA PutRecent ==
    ASSUME TypeOK, NEW w \in Workers, NEW v \in Values, PutL1(w, v), UNCHANGED age,
           v # NoPolicy => age[v] <= 2 * MaxDelay + RedisTTL,
           \A x \in Workers : L1Recent(x)
    PROVE  \A x \in Workers : L1Recent(x)'
<1> SUFFICES ASSUME NEW x \in Workers PROVE L1Recent(x)'
  OBVIOUS
<1>1. CASE x = w
  <2>1. l1'[x].val = v /\ (v # NoPolicy => l1'[x].ttl = L1TTL)  BY <1>1, PutL1Type
  <2>2. age[v] \in Nat  BY DEF TypeOK
  <2>3. QED  BY <2>1, <2>2, ConstantTypes DEF L1Recent
<1>2. CASE x # w
  <2>1. l1'[x] = l1[x]  BY <1>2, PutL1Type
  <2>2. QED  BY <2>1 DEF L1Recent
<1>3. QED  BY <1>1, <1>2

\* Writing MySQL makes one value younger and none older.
LEMMA WriteRecent ==
    ASSUME TypeOK, Recency, NEW v \in Values, Write(v),
           UNCHANGED <<redis, l1, pc, got, refreshed, sync, synced>>,
           \A a \in Admins : admin_pc'[a] = "refreshed" => admin_pc[a] = "refreshed"
    PROVE  Recency'
<1>1. /\ age \in [Values -> 0 .. MaxAge]
      /\ age' = [age EXCEPT ![v] = 0] /\ row' = v
  BY DEF TypeOK, Write
<1>2. age'[row'] = 0  BY <1>1
<1>3. \A u \in Values : age'[u] \in Nat /\ age[u] \in Nat /\ age'[u] <= age[u]
  BY <1>1, ConstantTypes
<1>4. ASSUME NEW t \in Tasks
      PROVE  /\ pc'[t] = "hit" => FromRedis(got[t])'
             /\ pc'[t] \in {"queried", "writing"} => FromRow(got[t])'
  <2>1. got[t].val \in Values /\ got[t].held \in Nat
    BY ConstantTypes DEF TypeOK, Held
  <2>2. got'[t] = got[t] /\ pc'[t] = pc[t]  OBVIOUS
  <2>3. QED  BY <1>3, <2>1, <2>2, ConstantTypes DEF Recency, FromRedis, FromRow
<1>5. ASSUME NEW a \in Admins, admin_pc'[a] = "refreshed" PROVE FromRow(refreshed[a])'
  <2>1. refreshed[a].val \in Values /\ refreshed[a].held \in Nat
    BY ConstantTypes DEF TypeOK, Held
  <2>2. QED  BY <1>3, <1>5, <2>1 DEF Recency, FromRow
<1>6. ASSUME NEW w \in Workers, sync'[w] = "read" PROVE FromRow(synced[w])'
  <2>1. synced[w].val \in Values /\ synced[w].held \in Nat
    BY ConstantTypes DEF TypeOK, Held
  <2>2. QED  BY <1>3, <1>6, <2>1 DEF Recency, FromRow
<1>7. RedisRecent'
  <2>1. redis.val \in Values /\ redis.ttl \in Nat  BY ConstantTypes DEF TypeOK, Entry
  <2>2. QED  BY <1>3, <2>1, ConstantTypes DEF Recency, RedisRecent
<1>8. ASSUME NEW w \in Workers PROVE L1Recent(w)'
  <2>1. l1[w].val \in Values /\ l1[w].ttl \in Nat  BY ConstantTypes DEF TypeOK, Entry
  <2>2. QED  BY <1>3, <2>1, ConstantTypes DEF Recency, L1Recent
<1>9. QED  BY <1>2, <1>4, <1>5, <1>6, <1>7, <1>8 DEF Recency

\* A tick ages every value by at most one, and shortens every TTL and lengthens every
\* holding time by one.
LEMMA TickRecent == ASSUME TypeOK, HoldsPolicy, Recency, Tick PROVE Recency'
<1>1. /\ age \in [Values -> 0 .. MaxAge] /\ row \in Values /\ row' = row
      /\ age' = [v \in Values |-> IF v = row THEN 0 ELSE Min2(age[v] + 1, MaxAge)]
  BY DEF TypeOK, Tick
<1>2. \A v \in Values : age[v] \in Nat /\ age'[v] \in Nat /\ age'[v] <= age[v] + 1
  BY <1>1, ConstantTypes DEF Min2
<1>3. age'[row'] = 0  BY <1>1
<1>4. ASSUME NEW t \in Tasks
      PROVE  /\ pc'[t] = "hit" => FromRedis(got[t])'
             /\ pc'[t] \in {"queried", "writing"} => FromRow(got[t])'
  <2>1. got[t] \in Held /\ got[t].val \in Values /\ got[t].held \in Nat
    BY ConstantTypes DEF TypeOK, Held
  <2>2. pc' = pc  BY DEF Tick
  <2>3. pc[t] \in {"hit", "queried", "writing"} =>
            got'[t].val = got[t].val /\ got'[t].held = got[t].held + 1
    BY <2>1, TickTypes DEF Tick, Reading
  <2>4. QED  BY <1>2, <2>1, <2>2, <2>3, ConstantTypes DEF Recency, FromRedis, FromRow
<1>5. ASSUME NEW a \in Admins, admin_pc'[a] = "refreshed" PROVE FromRow(refreshed[a])'
  <2>1. refreshed[a] \in Held /\ refreshed[a].val \in Values /\ refreshed[a].held \in Nat
    BY ConstantTypes DEF TypeOK, Held
  <2>2. admin_pc' = admin_pc  BY DEF Tick
  <2>3. refreshed'[a].val = refreshed[a].val /\ refreshed'[a].held = refreshed[a].held + 1
    BY <1>5, <2>1, <2>2, TickTypes DEF Tick, Pushing
  <2>4. QED  BY <1>2, <1>5, <2>1, <2>2, <2>3 DEF Recency, FromRow
<1>6. ASSUME NEW w \in Workers, sync'[w] = "read" PROVE FromRow(synced[w])'
  <2>1. synced[w] \in Held /\ synced[w].val \in Values /\ synced[w].held \in Nat
    BY ConstantTypes DEF TypeOK, Held
  <2>2. sync' = sync  BY DEF Tick
  <2>3. synced'[w].val = synced[w].val /\ synced'[w].held = synced[w].held + 1
    BY <1>6, <2>1, <2>2, TickTypes DEF Tick, Syncing
  <2>4. QED  BY <1>2, <1>6, <2>1, <2>2, <2>3 DEF Recency, FromRow
<1>7. RedisRecent'
  <2>1. redis.val \in Values /\ redis.ttl \in Nat  BY ConstantTypes DEF TypeOK, Entry
  <2>2. redis' = TickRedis(redis)  BY DEF Tick
  <2>3. QED  BY <1>2, <2>1, <2>2, TickTypes, ConstantTypes DEF Recency, RedisRecent
<1>8. ASSUME NEW w \in Workers PROVE L1Recent(w)'
  <2>1. l1[w].val \in Values /\ l1[w].ttl \in Nat  BY ConstantTypes DEF TypeOK, Entry
  <2>2. l1'[w] = TickL1(l1[w])  BY DEF Tick
  <2>3. QED  BY <1>2, <2>1, <2>2, TickTypes, ConstantTypes DEF Recency, L1Recent
<1>9. QED  BY <1>3, <1>4, <1>5, <1>6, <1>7, <1>8 DEF Recency

LEMMA ResolveRecent ==
    ASSUME TypeOK, HoldsPolicy, Recency, NEW t \in Tasks, Resolve(t)
    PROVE  Recency'
<1>0. /\ UNCHANGED <<row, age, admin_pc, refreshed, sync, synced>>
      /\ t[1] \in Workers /\ got[t] \in Held /\ got[t].val \in Values
      /\ got[t].held \in 0 .. MaxDelay
  BY ConstantTypes DEF Resolve, Lookup, RedisAnswers, ReceiveHit, DbAnswers, DbFails,
     ReceiveRow, ReceiveNoRow, Writeback, adminVars, syncVars, TypeOK, Held
<1>1. /\ \A a \in Admins : admin_pc'[a] = "refreshed" => FromRow(refreshed[a])'
      /\ \A w \in Workers : sync'[w] = "read" => FromRow(synced[w])'
  BY <1>0 DEF Recency, FromRow
<1>2. SUFFICES
        /\ \A x \in Tasks : /\ pc'[x] = "hit" => FromRedis(got[x])'
                            /\ pc'[x] \in {"queried", "writing"} => FromRow(got[x])'
        /\ RedisRecent' /\ \A w \in Workers : L1Recent(w)'
  BY <1>0, <1>1, RecencyParts
<1>3. ASSUME NEW x \in Tasks, x # t
      PROVE  /\ pc'[x] = "hit" => FromRedis(got[x])'
             /\ pc'[x] \in {"queried", "writing"} => FromRow(got[x])'
  <2>1. pc'[x] = pc[x] /\ got'[x] = got[x]
    BY <1>3 DEF Resolve, Lookup, RedisAnswers, ReceiveHit, DbAnswers, DbFails,
       ReceiveRow, ReceiveNoRow, Writeback, Finish, TypeOK
  <2>2. QED  BY <1>0, <2>1 DEF Recency, FromRedis, FromRow
<1>4. SUFFICES
        /\ pc'[t] = "hit" => FromRedis(got[t])'
        /\ pc'[t] \in {"queried", "writing"} => FromRow(got[t])'
        /\ RedisRecent' /\ \A w \in Workers : L1Recent(w)'
  BY <1>3
<1>5. pc \in [Tasks -> {"idle", "getting", "hit", "querying", "queried", "writing"}]
      /\ got \in [Tasks -> Held]
  BY DEF TypeOK
<1>6. ASSUME UNCHANGED redis PROVE RedisRecent'
  BY <1>0, <1>6 DEF Recency, RedisRecent
<1>7. ASSUME UNCHANGED l1 PROVE \A w \in Workers : L1Recent(w)'
  BY <1>0, <1>7 DEF Recency, L1Recent
<1>8. CASE Lookup(t)
  BY <1>5, <1>6, <1>7, <1>8 DEF Lookup, cacheVars
<1>9. CASE RedisAnswers(t)
  <2>1. CASE up /\ redis.full
    <3>1. pc'[t] = "hit" /\ got'[t] = Hold(redis.val)  BY <1>5, <1>9, <2>1 DEF RedisAnswers
    <3>2. redis.val \in Values /\ redis.ttl \in 1 .. RedisTTL
      BY <2>1, ConstantTypes DEF TypeOK, Entry
    <3>3. age[redis.val] \in Nat  BY <3>2 DEF TypeOK
    <3>4. age[redis.val] <= MaxDelay + RedisTTL
      BY <2>1, <3>2, <3>3, ConstantTypes DEF Recency, RedisRecent
    <3>5. FromRedis(got[t])'
      BY <1>0, <3>1, <3>3, <3>4, ConstantTypes DEF FromRedis, Hold
    <3>6. QED  BY <1>6, <1>7, <1>9, <3>1, <3>5 DEF RedisAnswers, cacheVars
  <2>2. CASE ~(up /\ redis.full)
    <3>1. pc'[t] = "querying"  BY <1>5, <1>9, <2>2 DEF RedisAnswers
    <3>2. QED  BY <1>6, <1>7, <1>9, <3>1 DEF RedisAnswers, cacheVars
  <2>3. QED  BY <2>1, <2>2
<1>10. CASE ReceiveHit(t)
  <2>1. age[got[t].val] <= 2 * MaxDelay + RedisTTL
    BY <1>0, <1>10, ConstantTypes DEF ReceiveHit, Recency, FromRedis, TypeOK
  <2>2. \A w \in Workers : L1Recent(w)'
    BY <1>0, <1>10, <2>1, PutRecent DEF ReceiveHit, Recency
  <2>3. QED  BY <1>5, <1>6, <1>10, <2>2 DEF ReceiveHit, Finish
<1>11. CASE DbAnswers(t) \/ DbFails(t)
  <2>1. got'[t] \in {Hold(row), Hold(NoPolicy)} /\ pc'[t] = "queried"
    BY <1>5, <1>11 DEF DbAnswers, DbFails
  <2>2. FromRow(got[t])'
    BY <1>0, <2>1 DEF FromRow, Hold, Recency
  <2>3. QED  BY <1>6, <1>7, <1>11, <2>1, <2>2 DEF DbAnswers, DbFails, cacheVars
<1>12. CASE ReceiveRow(t)
  <2>1. FromRow(got[t]) /\ got[t].val # NoPolicy
    BY <1>12 DEF ReceiveRow, Recency
  <2>2. age[got[t].val] <= 2 * MaxDelay + RedisTTL
    BY <1>0, <2>1, ConstantTypes DEF FromRow, TypeOK
  <2>3. \A w \in Workers : L1Recent(w)'
    BY <1>0, <1>12, <2>2, PutRecent DEF ReceiveRow, Recency
  <2>4. pc'[t] = "writing" /\ got'[t] = got[t]  BY <1>5, <1>12 DEF ReceiveRow
  <2>5. FromRow(got[t])'  BY <1>0, <2>1, <2>4 DEF FromRow
  <2>6. QED  BY <1>6, <1>12, <2>3, <2>4, <2>5 DEF ReceiveRow
<1>13. CASE ReceiveNoRow(t)
  <2>1. \A w \in Workers : L1Recent(w)'
    BY <1>0, <1>13, ConstantTypes, PutRecent DEF ReceiveNoRow, Recency
  <2>2. QED  BY <1>5, <1>6, <1>13, <2>1 DEF ReceiveNoRow, Finish
<1>14. CASE Writeback(t)
  <2>1. got[t].val # NoPolicy /\ FromRow(got[t])
    BY <1>14 DEF Writeback, Recency, HoldsPolicy
  <2>2. RedisRecent'  BY <1>0, <1>14, <2>1, StoreRecent DEF Writeback, Recency
  <2>3. QED  BY <1>5, <1>7, <1>14, <2>2 DEF Writeback, Finish
<1>15. QED
  BY <1>8, <1>9, <1>10, <1>11, <1>12, <1>13, <1>14 DEF Resolve

LEMMA AdminRecent ==
    ASSUME TypeOK, HoldsPolicy, Recency, NEW a \in Admins, Admin(a)
    PROVE  Recency'
<1>0. admin_pc \in [Admins -> {"idle", "committed", "refreshed", "disabled"}]
      /\ refreshed \in [Admins -> Held] /\ NoPolicy \in Values
  BY ConstantTypes DEF TypeOK
<1>1. CASE AdminCommit(a)
  <2>1. PICK v \in Values : Write(v)  BY <1>1 DEF AdminCommit
  <2>2. QED
    BY <1>0, <1>1, <2>1, WriteRecent DEF AdminCommit, cacheVars, taskVars, syncVars
<1>2. CASE AdminDisable(a)
  BY <1>0, <1>2, WriteRecent DEF AdminDisable, cacheVars, taskVars, syncVars
<1>3. CASE AdminRefresh(a)
  <2>1. FromRow(Hold(row)) /\ FromRow(Hold(row))'
    BY <1>3, ConstantTypes DEF AdminRefresh, FromRow, Hold, Recency
  <2>2. ASSUME NEW b \in Admins, admin_pc'[b] = "refreshed" PROVE FromRow(refreshed[b])'
    <3>1. CASE b = a
      <4>1. refreshed'[b] = Hold(row)  BY <1>0, <1>3, <3>1 DEF AdminRefresh
      <4>2. QED  BY <1>3, <2>1, <4>1 DEF AdminRefresh, FromRow
    <3>2. CASE b # a
      <4>1. refreshed'[b] = refreshed[b] /\ admin_pc[b] = "refreshed"
        BY <1>0, <1>3, <2>2, <3>2 DEF AdminRefresh
      <4>2. QED  BY <1>3, <4>1 DEF AdminRefresh, FromRow, Recency
    <3>3. QED  BY <3>1, <3>2
  <2>3. QED
    BY <1>3, <2>2 DEF AdminRefresh, Recency, RedisRecent, L1Recent, FromRow, FromRedis,
       cacheVars, taskVars, syncVars
<1>4. CASE AdminPush(a)
  <2>1. refreshed[a] \in Held /\ FromRow(refreshed[a])
    BY <1>0, <1>4 DEF AdminPush, Recency
  <2>2. RedisRecent'
    BY <1>4, <2>1, StoreRecent, DeleteRecent DEF AdminPush, Recency
  <2>3. ASSUME NEW b \in Admins, admin_pc'[b] = "refreshed" PROVE FromRow(refreshed[b])'
    <3>1. b # a /\ refreshed'[b] = refreshed[b] /\ admin_pc[b] = "refreshed"
      BY <1>0, <1>4, <2>3 DEF AdminPush
    <3>2. QED  BY <1>4, <3>1 DEF AdminPush, FromRow, Recency
  <2>4. QED
    BY <1>4, <2>2, <2>3 DEF AdminPush, Recency, L1Recent, FromRow, FromRedis, taskVars,
       syncVars
<1>5. CASE AdminDelete(a)
  <2>1. RedisRecent'  BY <1>5, DeleteRecent DEF AdminDelete, Recency
  <2>2. \A b \in Admins : admin_pc'[b] = "refreshed" => admin_pc[b] = "refreshed"
    BY <1>0, <1>5 DEF AdminDelete
  <2>3. QED
    BY <1>5, <2>1, <2>2 DEF AdminDelete, Recency, L1Recent, FromRow, FromRedis, taskVars,
       syncVars
<1>6. QED  BY <1>1, <1>2, <1>3, <1>4, <1>5 DEF Admin

LEMMA SyncRecent ==
    ASSUME TypeOK, HoldsPolicy, Recency, NEW w \in Workers, SyncRead(w) \/ SyncPush(w)
    PROVE  Recency'
<1>0. sync \in [Workers -> {"idle", "read"}] /\ synced \in [Workers -> Held]
  BY DEF TypeOK
<1>1. ASSUME NEW x \in Workers, sync'[x] = "read" PROVE FromRow(synced[x])'
  <2>1. CASE x # w
    <3>1. synced'[x] = synced[x] /\ sync[x] = "read"
      BY <1>0, <1>1, <2>1 DEF SyncRead, SyncPush
    <3>2. QED  BY <3>1 DEF SyncRead, SyncPush, FromRow, Recency
  <2>2. CASE x = w
    <3>1. SyncRead(w)  BY <1>0, <1>1, <2>2 DEF SyncPush
    <3>2. synced'[x] = Hold(row)  BY <1>0, <2>2, <3>1 DEF SyncRead
    <3>3. QED  BY <3>1, <3>2 DEF SyncRead, FromRow, Hold, Recency
  <2>3. QED  BY <2>1, <2>2
<1>2. RedisRecent'
  <2>1. CASE SyncRead(w)  BY <2>1 DEF SyncRead, cacheVars, RedisRecent, Recency
  <2>2. CASE SyncPush(w)
    <3>1. synced[w] \in Held /\ FromRow(synced[w]) /\ synced[w].val # NoPolicy
      BY <1>0, <2>2 DEF SyncPush, Recency, HoldsPolicy
    <3>2. QED  BY <2>2, <3>1, StoreRecent DEF SyncPush, Recency
  <2>3. QED  BY <2>1, <2>2
<1>3. QED
  BY <1>1, <1>2 DEF SyncRead, SyncPush, Recency, L1Recent, FromRow, FromRedis, taskVars,
     cacheVars, adminVars

LEMMA NextRecency ==
    TypeOK /\ HoldsPolicy /\ Recency /\ [Next]_vars => Recency'
<1> SUFFICES ASSUME TypeOK, HoldsPolicy, Recency, [Next]_vars PROVE Recency'
  OBVIOUS
<1>1. CASE OutsideWrite
  <2>1. PICK v \in Values : Write(v)  BY <1>1 DEF OutsideWrite
  <2>2. QED
    BY <1>1, <2>1, WriteRecent DEF OutsideWrite, cacheVars, taskVars, adminVars, syncVars
<1>2. CASE Outage
  BY <1>2 DEF Outage, Recency, RedisRecent, L1Recent, FromRow, FromRedis, cacheVars,
     taskVars, adminVars, syncVars
<1>3. CASE Recovery
  <2>1. RedisRecent'
    <3>1. Miss.full = FALSE  BY DEF Miss
    <3>2. (redis' = redis \/ redis' = Miss) /\ age' = age  BY <1>3 DEF Recovery
    <3>3. QED  BY <3>1, <3>2 DEF RedisRecent, Recency
  <2>2. QED
    BY <1>3, <2>1 DEF Recovery, Recency, L1Recent, FromRow, FromRedis, taskVars,
       adminVars, syncVars
<1>4. CASE Tick  BY <1>4, TickRecent
<1>5. CASE UNCHANGED vars
  BY <1>5 DEF vars, Recency, RedisRecent, L1Recent, FromRow, FromRedis, cacheVars,
     taskVars, adminVars, syncVars
<1>6. ASSUME NEW w \in Workers, Evict(w) PROVE Recency'
  <2>1. \A x \in Workers : L1Recent(x)'
    <3>1. Miss.full = FALSE  BY DEF Miss
    <3>2. l1 \in [Workers -> Entry(L1TTL)]  BY DEF TypeOK
    <3>3. \A x \in Workers : l1'[x] = l1[x] \/ l1'[x] = Miss  BY <1>6, <3>2 DEF Evict
    <3>4. QED  BY <1>6, <3>1, <3>3 DEF Evict, L1Recent, Recency
  <2>2. QED
    BY <1>6, <2>1 DEF Evict, Recency, RedisRecent, FromRow, FromRedis, taskVars,
       adminVars, syncVars
<1>7. QED
  BY <1>1, <1>2, <1>3, <1>4, <1>5, <1>6, ResolveRecent, AdminRecent, SyncRecent DEF Next

\* However lookups, syncs and admin requests of any number of workers cross each other,
\* a policy (a key's group) that a worker still enforces was replaced in MySQL at most
\* L1TTL + RedisTTL + 2 * MaxDelay ago.
THEOREM StalenessBounded == Spec => []ServedIsRecent
<1>1. TypeOK /\ Recency => ServedIsRecent
  <2> SUFFICES ASSUME TypeOK, Recency, NEW w \in Workers,
                      l1[w].full, l1[w].val # NoPolicy
               PROVE  age[l1[w].val] <= MaxStaleness
    BY DEF ServedIsRecent
  <2>1. l1[w].val \in Values /\ l1[w].ttl \in Nat  BY ConstantTypes DEF TypeOK, Entry
  <2>2. age[l1[w].val] \in Nat  BY <2>1, ConstantTypes DEF TypeOK
  <2>3. QED  BY <2>1, <2>2, ConstantTypes DEF Recency, L1Recent, MaxStaleness
<1>2. Spec => [](TypeOK /\ HoldsPolicy /\ Recency)
  BY InitType, InitRecency, NextType, NextRecency, PTL DEF Spec
<1>3. QED  BY <1>1, <1>2, PTL

-----------------------------------------------------------------------------
(* Absence.  Only an answer of MySQL says that there is no row, and only L1 keeps it. *)

NegTTL == Min2(NegativeTTL, L1TTL)

\* A task has read that there is no row.
NoRowRead(t) == pc[t] = "queried" /\ got[t].val = NoPolicy

\* The negative sentinel is in worker w's L1.
Negative(w) == l1[w].full /\ l1[w].val = NoPolicy

AbsenceInv ==
    db_errors = 0 =>
        /\ \A t \in Tasks : NoRowRead(t) => age[NoPolicy] <= got[t].held
        /\ \A w \in Workers : Negative(w) =>
              /\ l1[w].ttl <= NegTTL
              /\ age[NoPolicy] <= MaxDelay + (NegTTL - l1[w].ttl)

LEMMA NegTTLType == NegTTL \in Nat /\ NegTTL <= NegativeTTL
BY ConstantTypes DEF NegTTL, Min2

\* What a step has to keep that makes the absence no older.
LEMMA AbsenceParts ==
    ASSUME TypeOK, TypeOK', AbsenceInv, db_errors' = 0 => db_errors = 0,
           age'[NoPolicy] <= age[NoPolicy],
           db_errors' = 0 => \A t \in Tasks : NoRowRead(t)' =>
               \/ NoRowRead(t) /\ got'[t] = got[t]
               \/ age'[NoPolicy] = 0,
           db_errors' = 0 => \A w \in Workers : Negative(w)' =>
               \/ Negative(w) /\ l1'[w] = l1[w]
               \/ l1'[w].ttl = NegTTL /\ age'[NoPolicy] <= MaxDelay
    PROVE  AbsenceInv'
<1> SUFFICES ASSUME db_errors' = 0 PROVE AbsenceInv'
  BY DEF AbsenceInv
<1>1. age[NoPolicy] \in Nat /\ age'[NoPolicy] \in Nat
  BY ConstantTypes DEF TypeOK
<1>2. ASSUME NEW t \in Tasks, NoRowRead(t)' PROVE age'[NoPolicy] <= got'[t].held
  <2>1. got'[t].held \in Nat  BY ConstantTypes DEF TypeOK, Held
  <2>2. QED  BY <1>1, <1>2, <2>1 DEF AbsenceInv
<1>3. ASSUME NEW w \in Workers, Negative(w)'
      PROVE  /\ l1'[w].ttl <= NegTTL
             /\ age'[NoPolicy] <= MaxDelay + (NegTTL - l1'[w].ttl)
  <2>1. l1'[w].ttl \in Nat  BY ConstantTypes DEF TypeOK, Entry
  <2>2. QED  BY <1>1, <1>3, <2>1, NegTTLType, ConstantTypes DEF AbsenceInv
<1>4. QED  BY <1>2, <1>3 DEF AbsenceInv

LEMMA ResolveAbsence ==
    ASSUME TypeOK, TypeOK', HoldsPolicy, Recency, AbsenceInv, NEW t \in Tasks, Resolve(t)
    PROVE  AbsenceInv'
<1>1. /\ row' = row /\ age' = age /\ age[row] = 0 /\ t[1] \in Workers
      /\ db_errors' = 0 => db_errors = 0 /\ ~DbFails(t)
  BY ConstantTypes DEF Resolve, Lookup, RedisAnswers, ReceiveHit, DbAnswers, DbFails,
     ReceiveRow, ReceiveNoRow, Writeback, boundVars, TypeOK, Recency
<1>2. age[NoPolicy] \in Nat /\ got[t].held \in 0 .. MaxDelay /\ got[t].val \in Values
  BY ConstantTypes DEF TypeOK, Held
<1>3. ASSUME NEW x \in Tasks, NoRowRead(x)', db_errors' = 0
      PROVE  (NoRowRead(x) /\ got'[x] = got[x]) \/ age'[NoPolicy] = 0
  <2>1. CASE x # t
    BY <1>3, <2>1 DEF Resolve, Lookup, RedisAnswers, ReceiveHit, DbAnswers, DbFails,
       ReceiveRow, ReceiveNoRow, Writeback, Finish, NoRowRead, TypeOK
  <2>2. CASE x = t
    <3>1. DbAnswers(t)
      BY <1>1, <1>3, <2>2 DEF Resolve, Lookup, RedisAnswers, ReceiveHit, DbAnswers,
         ReceiveRow, ReceiveNoRow, Writeback, Finish, NoRowRead, TypeOK
    <3>2. got'[t].val = row  BY <3>1 DEF DbAnswers, Hold, TypeOK
    <3>3. QED  BY <1>1, <1>3, <2>2, <3>2 DEF NoRowRead
  <2>3. QED  BY <2>1, <2>2
<1>4. ASSUME NEW w \in Workers, Negative(w)', db_errors' = 0
      PROVE  \/ Negative(w) /\ l1'[w] = l1[w]
             \/ l1'[w].ttl = NegTTL /\ age'[NoPolicy] <= MaxDelay
  <2>1. CASE UNCHANGED l1  BY <1>4, <2>1 DEF Negative
  <2>2. CASE ReceiveHit(t) \/ ReceiveRow(t)
    <3>1. PutL1(t[1], got[t].val) /\ got[t].val # NoPolicy
      BY <2>2 DEF ReceiveHit, ReceiveRow, HoldsPolicy
    <3>2. w # t[1]  BY <1>1, <1>2, <1>4, <3>1, PutL1Type DEF Negative
    <3>3. QED  BY <1>1, <1>2, <1>4, <3>1, <3>2, PutL1Type DEF Negative
  <2>3. CASE ReceiveNoRow(t)
    <3>1. PutL1(t[1], NoPolicy) /\ NoRowRead(t)
      BY <2>3 DEF ReceiveNoRow, NoRowRead
    <3>2. CASE w = t[1]
      <4>1. l1'[w].ttl = NegTTL
        BY <1>1, <3>1, <3>2 DEF PutL1, NegTTL, TypeOK
      <4>2. age[NoPolicy] <= got[t].held
        BY <1>1, <1>4, <3>1 DEF AbsenceInv
      <4>3. QED  BY <1>1, <1>2, <4>1, <4>2, ConstantTypes
    <3>3. CASE w # t[1]
      BY <1>1, <1>4, <3>1, <3>3, ConstantTypes, PutL1Type DEF Negative
    <3>4. QED  BY <3>2, <3>3
  <2>4. QED
    BY <1>1, <1>4, <2>1, <2>2, <2>3 DEF Resolve, Lookup, RedisAnswers, DbAnswers,
       Writeback, cacheVars
<1>5. QED  BY <1>1, <1>2, <1>3, <1>4, AbsenceParts

\* A tick lengthens what is held and shortens what is stored as much as it ages.
LEMMA TickAbsence ==
    ASSUME TypeOK, TypeOK', AbsenceInv, Tick PROVE AbsenceInv'
<1> SUFFICES ASSUME db_errors' = 0 PROVE AbsenceInv'
  BY DEF AbsenceInv
<1>1. /\ age[NoPolicy] \in Nat /\ age'[NoPolicy] \in Nat
      /\ age'[NoPolicy] <= age[NoPolicy] + 1
      /\ db_errors = 0 /\ pc' = pc
  BY ConstantTypes DEF TypeOK, Tick, Min2, boundVars
<1>2. ASSUME NEW t \in Tasks, NoRowRead(t)' PROVE age'[NoPolicy] <= got'[t].held
  <2>1. got[t] \in Held /\ got[t].held \in Nat  BY ConstantTypes DEF TypeOK, Held
  <2>2. got'[t].val = got[t].val /\ got'[t].held = got[t].held + 1
    BY <1>1, <1>2, <2>1, TickTypes DEF Tick, Reading, NoRowRead
  <2>3. NoRowRead(t)  BY <1>1, <1>2, <2>2 DEF NoRowRead
  <2>4. QED  BY <1>1, <2>1, <2>2, <2>3 DEF AbsenceInv
<1>3. ASSUME NEW w \in Workers, Negative(w)'
      PROVE  /\ l1'[w].ttl <= NegTTL
             /\ age'[NoPolicy] <= MaxDelay + (NegTTL - l1'[w].ttl)
  <2>1. l1'[w] = TickL1(l1[w]) /\ l1[w].ttl \in Nat  BY ConstantTypes DEF Tick, TypeOK, Entry
  <2>2. Negative(w) /\ l1'[w].ttl = l1[w].ttl - 1
    BY <1>3, <2>1, TickTypes DEF Negative
  <2>3. QED  BY <1>1, <2>1, <2>2, NegTTLType, ConstantTypes DEF AbsenceInv
<1>4. QED  BY <1>2, <1>3 DEF AbsenceInv

LEMMA NextAbsence ==
    TypeOK /\ TypeOK' /\ HoldsPolicy /\ Recency /\ AbsenceInv /\ [Next]_vars => AbsenceInv'
<1> SUFFICES ASSUME TypeOK, TypeOK', HoldsPolicy, Recency, AbsenceInv, [Next]_vars
             PROVE  AbsenceInv'
  OBVIOUS
<1>1. age \in [Values -> 0 .. MaxAge] /\ age[NoPolicy] \in Nat
  BY ConstantTypes DEF TypeOK
\* Whatever else writes MySQL makes the absence younger, if anything.
<1>2. ASSUME UNCHANGED <<pc, got, l1, db_errors>>,
             age' = age \/ \E v \in Values : age' = [age EXCEPT ![v] = 0]
      PROVE  AbsenceInv'
  <2>1. age'[NoPolicy] <= age[NoPolicy]  BY <1>1, <1>2, ConstantTypes
  <2>2. QED  BY <1>2, <2>1, AbsenceParts DEF NoRowRead, Negative
<1>3. ASSUME NEW a \in Admins, Admin(a) PROVE AbsenceInv'
  BY <1>2, <1>3, ConstantTypes
  DEF Admin, AdminCommit, AdminRefresh, AdminPush, AdminDisable, AdminDelete, Write,
      cacheVars, taskVars, boundVars
<1>4. CASE \/ \E w \in Workers : SyncRead(w) \/ SyncPush(w)
           \/ OutsideWrite \/ Outage \/ Recovery \/ UNCHANGED vars
  BY <1>2, <1>4
  DEF SyncRead, SyncPush, OutsideWrite, Outage, Recovery, Write, vars, cacheVars, taskVars,
      boundVars
<1>5. ASSUME NEW w \in Workers, Evict(w) PROVE AbsenceInv'
  <2>1. Miss.full = FALSE  BY DEF Miss
  <2>2. \A x \in Workers : l1'[x] = l1[x] \/ l1'[x] = Miss  BY <1>5 DEF Evict, TypeOK
  <2>3. UNCHANGED <<pc, got, age, db_errors>>  BY <1>5 DEF Evict, taskVars, boundVars
  <2>4. QED  BY <1>1, <2>1, <2>2, <2>3, AbsenceParts DEF NoRowRead, Negative
<1>6. QED  BY <1>3, <1>4, <1>5, ResolveAbsence, TickAbsence DEF Next

\* As long as no MySQL lookup has failed, a worker that treats a group (a key) as unknown
\* has MySQL's word for it, at most a lookup and the negative TTL old; Redis outages,
\* syncs and admin requests never make a group disappear.
THEOREM AbsenceIsConfirmed == Spec => []AbsenceConfirmedWithoutErrors
<1>1. Init => AbsenceInv
  BY DEF Init, AbsenceInv, NoRowRead, Negative, Miss
<1>2. TypeOK /\ AbsenceInv => AbsenceConfirmedWithoutErrors
  <2> SUFFICES ASSUME TypeOK, AbsenceInv, db_errors = 0, NEW w \in Workers, Negative(w)
               PROVE  age[NoPolicy] <= NegativeTTL + MaxDelay
    BY DEF AbsenceConfirmedWithoutErrors, AbsenceConfirmed, Negative
  <2>1. l1[w].ttl \in Nat /\ age[NoPolicy] \in Nat
    BY ConstantTypes DEF TypeOK, Entry
  <2>2. QED  BY <2>1, NegTTLType, ConstantTypes DEF AbsenceInv
<1>3. QED
  BY <1>1, <1>2, InitType, InitRecency, NextType, NextRecency, NextAbsence, PTL DEF Spec
=============================================================================
