----------------------------- MODULE RefusalProofs -----------------------------
(***************************************************************************)
(* Proofs that module RequestQuota charges and refuses nobody wrongly, as  *)
(* long as no Redis call fails and no worker loses its state, for every    *)
(* number of workers, every policy and every batch size, and for workers   *)
(* whose prefetches do not overlap (MaxPrefetch = 1).                      *)
(*                                                                         *)
(* RequestQuotaProofs shows that Redis and the deques hold no less than    *)
(* what was admitted.  Here they are compared from the other side, with    *)
(* what they hold too much: at most one timestamp for each refund          *)
(* (PhantomInv), and exactly how many (BooksInv).  From this it follows    *)
(* that the script refuses nobody below the limits, and from what answers  *)
(* and snapshots still know of Redis (AnswersInv, SnapshotsInv) that       *)
(* neither does a worker alone.                                            *)
(***************************************************************************)
EXTENDS RequestQuotaProofs

-----------------------------------------------------------------------------
(* What counts against the user *)

\* A call of worker w is on its way to Redis.
Calling(w) == \E t \in Tasks : t[1] = w /\ pc[t] = "sent"

\* What w will make Redis count with its call under way, or else with the next one.
Pending ==
    [w \in Workers |-> IF Answered(w) THEN 0
                       ELSE IF Calling(w) THEN deque[w] + reserved[w]
                       ELSE deque[w]]

\* What window i counts, or will, beyond the admissions.
Excess(i) == redis[i] + Total(Pending, Workers) - admitted

LEMMA PendingType == ASSUME TypeOK PROVE Pending \in [Workers -> Nat]
BY DEF TypeOK, Pending

LEMMA ExcessType ==
    ASSUME TypeOK, NEW i \in Windows
    PROVE  Excess(i) \in Int /\ Total(Pending, Workers) \in Nat
<1>1. \A w \in Workers : Pending[w] \in Nat  BY PendingType
<1>2. Total(Pending, Workers) \in Nat  BY <1>1, TasksFacts, TotalType
<1>3. redis[i] \in Nat /\ admitted \in Int  BY DEF TypeOK
<1>4. QED  BY <1>2, <1>3 DEF Excess

ExcessIsInt == \A i \in Windows : Excess(i) \in Int

LEMMA ExcessTypes == TypeOK => ExcessIsInt
BY ExcessType DEF ExcessIsInt

\* A step of one worker changes the excess by what it changes that worker's part of it.
LEMMA ExcessChange ==
    ASSUME TypeOK, TypeOK', NEW w \in Workers, OnlyWorker(w), NEW i \in Windows
    PROVE  /\ Excess(i)' = Excess(i) + (redis'[i] - redis[i]) + (Pending'[w] - Pending[w])
                              - (admitted' - admitted)
           /\ Excess(i) \in Int /\ Excess(i)' \in Int
           /\ Pending[w] \in Nat /\ Pending'[w] \in Nat
           /\ redis[i] \in Nat /\ redis'[i] \in Nat
<1> DEFINE p == Total(Pending, Workers)
<1>1. \A v \in Workers \ {w} : /\ Answered(v)' <=> Answered(v)
                               /\ Calling(v)' <=> Calling(v)
  BY DEF OnlyWorker, Answered, Calling
<1>2. \A v \in Workers \ {w} : Pending'[v] = Pending[v]
  BY <1>1 DEF OnlyWorker, Pending
<1>3. \A v \in Workers : Pending[v] \in Nat  BY PendingType
<1>4. \A v \in Workers : Pending'[v] \in Nat
  <2>1. (Pending \in [Workers -> Nat])'  BY PendingType, PTL
  <2>2. QED  BY <2>1
<1>5. IsFiniteSet(Workers)  BY TasksFacts
<1>6. Total(Pending', Workers) = Total(Pending, Workers) - Pending[w] + Pending'[w]
  BY <1>2, <1>3, <1>4, <1>5, TotalChange
<1>7. Total(Pending, Workers) \in Nat /\ Total(Pending', Workers) \in Nat
  BY <1>3, <1>4, <1>5, TotalType
<1>8. /\ redis[i] \in Nat /\ redis'[i] \in Nat /\ admitted \in Int /\ admitted' \in Int
  BY DEF TypeOK
<1>9. /\ Excess(i) = redis[i] + Total(Pending, Workers) - admitted
      /\ Excess(i)' = redis'[i] + Total(Pending', Workers) - admitted'
  BY DEF Excess
<1>10. Pending[w] \in Nat /\ Pending'[w] \in Nat  BY <1>3, <1>4
<1>11. QED  BY <1>6, <1>7, <1>8, <1>9, <1>10

\* A step that counts nothing and neither starts nor ends a call.
LEMMA ExcessSame ==
    ASSUME UNCHANGED <<redis, deque, reserved, admitted>>,
           \A t \in Tasks : pc'[t] = pc[t] \/ (~InCall(t) /\ ~InCall(t)')
    PROVE  \A i \in Windows : Excess(i)' = Excess(i)
<1>1. \A w \in Workers : (Answered(w)' <=> Answered(w)) /\ (Calling(w)' <=> Calling(w))
  BY DEF Answered, Calling, InCall
<1>2. \A w \in Workers : Pending'[w] = Pending[w]  BY <1>1 DEF Pending
<1>3. Total(Pending', Workers) = Total(Pending, Workers)  BY <1>2, TotalSame
<1>4. QED  BY <1>3 DEF Excess

\* What a step may do to the excess: nothing or less, or one more for a refund.
Kept == (\A i \in Windows : Excess(i)' <= Excess(i)) /\ refunds' >= refunds
Grown ==
    /\ \A i \in Windows : Excess(i)' <= Excess(i) + 1
    /\ refunds' = refunds + 1

LEMMA KeptSame ==
    ASSUME TypeOK, UNCHANGED <<redis, deque, reserved, admitted>>, refunds' >= refunds,
           \A t \in Tasks : pc'[t] = pc[t] \/ (~InCall(t) /\ ~InCall(t)')
    PROVE  Kept
<1>1. \A i \in Windows : Excess(i)' = Excess(i) /\ Excess(i) \in Int
  BY ExcessSame, ExcessType
<1>2. QED  BY <1>1 DEF Kept

-----------------------------------------------------------------------------
(* The steps of a call *)

\* A worker's one call decides what is pending.
LEMMA PendingInCall ==
    ASSUME LocalInv, NEW t \in Tasks, InCall(t)
    PROVE  Pending[t[1]] = IF pc[t] = "executed" THEN 0 ELSE flush[t]
<1>1. \A u \in Tasks : u[1] = t[1] /\ InCall(u) => u = t  BY DEF LocalInv, CallInv
<1>2. Answered(t[1]) <=> pc[t] = "executed"  BY <1>1 DEF Answered, InCall
<1>3. pc[t] = "sent" => Calling(t[1])  BY DEF Calling
<1>4. flush[t] = deque[t[1]] + reserved[t[1]]  BY DEF LocalInv, CallInv
<1>5. t[1] \in Workers  BY TasksFacts
<1>6. QED  BY <1>2, <1>3, <1>4, <1>5 DEF Pending, InCall

CallsPending ==
    \A t \in Tasks :
        InCall(t) => Pending[t[1]] = IF pc[t] = "executed" THEN 0 ELSE flush[t]

LEMMA PendingInCalls == LocalInv => CallsPending
BY PendingInCall DEF CallsPending

LEMMA PendingIdle ==
    ASSUME NEW w \in Workers, \A u \in Tasks : u[1] = w => ~InCall(u)
    PROVE  Pending[w] = deque[w]
<1>1. ~Answered(w) /\ ~Calling(w)  BY DEF Answered, Calling, InCall
<1>2. QED  BY <1>1 DEF Pending

LEMMA ConsumeExcess ==
    ASSUME LocalInv, LocalInv', NEW t \in Tasks, CheckConsume(t)
    PROVE  Kept
<1> DEFINE w == t[1]
<1>1. w \in Workers  BY TasksFacts
<1>2. OnlyWorker(w)
  BY DEF CheckConsume, OnlyWorker, LocalInv, TypeOK, callVars
<1>3. (Answered(w)' <=> Answered(w)) /\ (Calling(w)' <=> Calling(w))
  BY DEF CheckConsume, Answered, Calling, LocalInv, TypeOK
<1>4. /\ deque'[w] = deque[w] + 1 /\ reserved'[w] = reserved[w] - 1
      /\ admitted' = admitted + 1 /\ redis' = redis /\ refunds' = refunds
      /\ deque[w] \in Nat /\ reserved[w] \in Nat /\ admitted \in Int /\ refunds \in Nat
  BY <1>1 DEF CheckConsume, LocalInv, TypeOK, boundVars
<1>5. Pending'[w] <= Pending[w] + 1  BY <1>1, <1>3, <1>4 DEF Pending
<1>6. \A i \in Windows : Excess(i)' <= Excess(i)
  <2>1. SUFFICES ASSUME NEW i \in Windows  PROVE Excess(i)' <= Excess(i)
    OBVIOUS
  <2>2. /\ Excess(i)' = Excess(i) + (redis'[i] - redis[i]) + (Pending'[w] - Pending[w])
                           - (admitted' - admitted)
        /\ Excess(i) \in Int /\ Excess(i)' \in Int
        /\ Pending[w] \in Nat /\ Pending'[w] \in Nat
        /\ redis[i] \in Nat /\ redis'[i] \in Nat
    BY <1>1, <1>2, ExcessChange DEF LocalInv
  <2> HIDE DEF w
  <2>3. QED  BY <1>4, <1>5, <2>2
<1>7. QED  BY <1>4, <1>6 DEF Kept

LEMMA PrefetchExcess ==
    ASSUME NoOverlap, LocalInv, LocalInv', NEW t \in Tasks, CheckPrefetch(t)
    PROVE  Kept
<1> DEFINE w == t[1]
<1>1. w \in Workers  BY TasksFacts
<1>2. OnlyWorker(w)
  BY DEF CheckPrefetch, OnlyWorker, LocalInv, TypeOK, quotaVars
<1>3. \A u \in Tasks : u[1] = w => ~InCall(u)
  BY <1>1, NoOtherCall DEF CheckPrefetch
<1>4. Pending[w] = deque[w]  BY <1>1, <1>3, PendingIdle
<1>5. /\ InCall(t)' /\ pc'[t] = "sent" /\ flush'[t] = deque'[w] + reserved'[w]
      /\ deque' = deque /\ reserved' = reserved /\ reserved[w] = 0
      /\ admitted' = admitted /\ redis' = redis /\ refunds' = refunds
  BY <1>1 DEF CheckPrefetch, InCall, LocalInv, CallInv, TypeOK, quotaVars, boundVars
<1>6. Pending'[w] = flush'[t]
  <2>1. CallsPending'  BY PendingInCalls, PTL
  <2>2. QED  BY <1>5, <2>1 DEF CallsPending
<1>7. deque[w] \in Nat /\ admitted \in Int /\ refunds \in Nat
  BY <1>1 DEF LocalInv, TypeOK
<1>8. Pending'[w] = Pending[w]  BY <1>4, <1>5, <1>6, <1>7
<1>9. \A i \in Windows : Excess(i)' <= Excess(i)
  <2>1. SUFFICES ASSUME NEW i \in Windows  PROVE Excess(i)' <= Excess(i)
    OBVIOUS
  <2>2. /\ Excess(i)' = Excess(i) + (redis'[i] - redis[i]) + (Pending'[w] - Pending[w])
                           - (admitted' - admitted)
        /\ Excess(i) \in Int /\ Pending[w] \in Nat /\ redis[i] \in Nat
    BY <1>1, <1>2, ExcessChange DEF LocalInv
  <2> HIDE DEF w
  <2>3. QED  BY <1>5, <1>7, <1>8, <2>2
<1>10. QED  BY <1>5, <1>7, <1>9 DEF Kept

\* The script counts exactly what was pending.
LEMMA ExecExcess ==
    ASSUME LocalInv, LocalInv', NEW t \in Tasks, ExecScript(t)
    PROVE  Kept
<1> DEFINE w == t[1]
<1>1. w \in Workers  BY TasksFacts
<1>2. OnlyWorker(w)
  BY DEF ExecScript, OnlyWorker, LocalInv, TypeOK, quotaVars
<1>3. /\ InCall(t) /\ pc[t] = "sent" /\ InCall(t)' /\ pc'[t] = "executed"
      /\ flush[t] \in Nat /\ admitted' = admitted /\ refunds' = refunds
      /\ admitted \in Int /\ refunds \in Nat
      /\ \A i \in Windows : redis'[i] = redis[i] + flush[t]
  BY DEF ExecScript, Flushed, InCall, LocalInv, TypeOK, boundVars
<1>4. Pending[w] = flush[t]  BY <1>3, PendingInCall
<1>5. CallsPending'  BY PendingInCalls, PTL
<1>6. Pending'[w] = 0  BY <1>3, <1>5 DEF CallsPending
<1>7. \A i \in Windows : Excess(i)' <= Excess(i)
  <2>1. SUFFICES ASSUME NEW i \in Windows  PROVE Excess(i)' <= Excess(i)
    OBVIOUS
  <2>2. /\ Excess(i)' = Excess(i) + (redis'[i] - redis[i]) + (Pending'[w] - Pending[w])
                           - (admitted' - admitted)
        /\ Excess(i) \in Int /\ redis[i] \in Nat
    BY <1>1, <1>2, ExcessChange DEF LocalInv
  <2> HIDE DEF w
  <2>3. QED  BY <1>3, <1>4, <1>6, <2>1, <2>2
<1>8. QED  BY <1>3, <1>7 DEF Kept

\* With the answer the deque is emptied; it keeps the timestamp of a request admitted by it.
LEMMA ReceiveExcess ==
    ASSUME LocalInv, LocalInv', NEW t \in Tasks, Receive(t)
    PROVE  Kept
<1> DEFINE w == t[1]
<1>1. w \in Workers  BY TasksFacts
<1>2. /\ InCall(t) /\ pc[t] = "executed" /\ ~InCall(t)'
      /\ \A u \in Tasks \ {t} : pc'[u] = pc[u] /\ reply'[u] = reply[u]
      /\ \A v \in Workers \ {w} : deque'[v] = deque[v] /\ reserved'[v] = reserved[v]
      /\ redis' = redis /\ refunds' = refunds /\ deque'[w] = admitted' - admitted
      /\ admitted \in Int /\ admitted' \in Int /\ refunds \in Nat
  BY <1>1 DEF Receive, ReceiveDeny, ReceiveGrant, EndCall, InCall, LocalInv, TypeOK, boundVars
<1>3. OnlyWorker(w)  BY <1>2 DEF OnlyWorker
<1>4. Pending[w] = 0  BY <1>2, PendingInCall
<1>5. \A u \in Tasks : u[1] = w => ~InCall(u)'
  BY <1>2 DEF LocalInv, CallInv, InCall
<1>6. (Pending[w] = deque[w])'
  <2>1. ~Answered(w)' /\ ~Calling(w)'  BY <1>5 DEF Answered, Calling, InCall
  <2>2. QED  BY <1>1, <2>1 DEF Pending
<1>7. \A i \in Windows : Excess(i)' <= Excess(i)
  <2>1. SUFFICES ASSUME NEW i \in Windows  PROVE Excess(i)' <= Excess(i)
    OBVIOUS
  <2>2. /\ Excess(i)' = Excess(i) + (redis'[i] - redis[i]) + (Pending'[w] - Pending[w])
                           - (admitted' - admitted)
        /\ Excess(i) \in Int /\ redis[i] \in Nat
    BY <1>1, <1>3, ExcessChange DEF LocalInv
  <2> HIDE DEF w
  <2>3. QED  BY <1>2, <1>4, <1>6, <2>2
<1>8. QED  BY <1>2, <1>7 DEF Kept

-----------------------------------------------------------------------------
(* The steps of a refund *)

\* An unflushed timestamp goes with its admission, unless a call is just flushing it.
LEMMA RefundLocalExcess ==
    ASSUME LocalInv, LocalInv', NEW t \in Tasks, RefundLocal(t)
    PROVE  Kept \/ Grown
<1> DEFINE w == t[1]
<1>1. w \in Workers  BY TasksFacts
<1>2. OnlyWorker(w)
  BY DEF RefundLocal, UpstreamFails, OnlyWorker, LocalInv, TypeOK, callVars
<1>3. (Answered(w)' <=> Answered(w)) /\ (Calling(w)' <=> Calling(w))
  BY DEF RefundLocal, UpstreamFails, Answered, Calling, LocalInv, TypeOK
<1>4. /\ deque'[w] = deque[w] - 1 /\ reserved'[w] = reserved[w] + 1
      /\ admitted' = admitted - 1 /\ redis' = redis /\ refunds' = refunds + 1
      /\ deque[w] \in Nat /\ reserved[w] \in Nat /\ admitted \in Int /\ refunds \in Nat
      /\ pc[t] = "upstream" /\ via[t] = "quota"
  BY <1>1 DEF RefundLocal, UpstreamFails, LocalInv, TypeOK
<1>5. ASSUME NEW i \in Windows
      PROVE  /\ Excess(i)' = Excess(i) + (redis'[i] - redis[i]) + (Pending'[w] - Pending[w])
                                - (admitted' - admitted)
             /\ Excess(i) \in Int /\ Excess(i)' \in Int
             /\ Pending[w] \in Nat /\ Pending'[w] \in Nat
             /\ redis[i] \in Nat
  BY <1>1, <1>2, ExcessChange DEF LocalInv
<1>6. CASE \E u \in Tasks : u[1] = w /\ InCall(u)
  <2>1. Pending'[w] = Pending[w]
    BY <1>1, <1>3, <1>4, <1>6 DEF Pending, Answered, Calling, InCall
  <2> HIDE DEF w
  <2>2. \A i \in Windows : Excess(i)' <= Excess(i) + 1  BY <1>4, <1>5, <2>1
  <2>3. QED  BY <1>4, <2>2 DEF Grown
<1>7. CASE ~ \E u \in Tasks : u[1] = w /\ InCall(u)
  <2>1. ~Answered(w) /\ ~Calling(w)  BY <1>7 DEF Answered, Calling, InCall
  <2>2. Pending'[w] = Pending[w] - 1  BY <1>1, <1>3, <1>4, <2>1 DEF Pending
  <2> HIDE DEF w
  <2>3. \A i \in Windows : Excess(i)' <= Excess(i)  BY <1>4, <1>5, <2>2
  <2>4. QED  BY <1>4, <2>3 DEF Kept
<1>8. QED  BY <1>6, <1>7

\* refund() has to remove a timestamp from Redis.
LEMMA RefundRedisExcess ==
    ASSUME LocalInv, LocalInv', NEW t \in Tasks, RefundRedis(t)
    PROVE  Grown
<1> DEFINE w == t[1]
<1>1. w \in Workers  BY TasksFacts
<1>2. OnlyWorker(w)
  BY DEF RefundRedis, UpstreamFails, OnlyWorker, LocalInv, TypeOK, callVars, quotaVars
<1>3. (Answered(w)' <=> Answered(w)) /\ (Calling(w)' <=> Calling(w))
  BY DEF RefundRedis, UpstreamFails, Answered, Calling, LocalInv, TypeOK
<1>4. /\ deque' = deque /\ reserved' = reserved /\ deque[w] = 0
      /\ admitted' = admitted - 1 /\ redis' = redis /\ refunds' = refunds + 1
      /\ admitted \in Int /\ pc[t] = "upstream" /\ via[t] = "quota"
  BY <1>1 DEF RefundRedis, UpstreamFails, LocalInv, TypeOK, quotaVars
<1>5. Pending'[w] = Pending[w]  BY <1>1, <1>3, <1>4 DEF Pending
<1>6. ASSUME NEW i \in Windows  PROVE Excess(i)' <= Excess(i) + 1
  <2>1. /\ Excess(i)' = Excess(i) + (redis'[i] - redis[i]) + (Pending'[w] - Pending[w])
                           - (admitted' - admitted)
        /\ Excess(i) \in Int /\ Pending[w] \in Nat /\ redis[i] \in Nat
    BY <1>1, <1>2, ExcessChange DEF LocalInv
  <2> HIDE DEF w
  <2>2. QED  BY <1>4, <1>5, <2>1
<1>7. QED  BY <1>4, <1>6 DEF Grown

\* A removal never adds, whether there is a member to remove or not.
LEMMA RefundWindowExcess ==
    ASSUME LocalInv, LocalInv', NEW t \in Tasks, RefundWindow(t)
    PROVE  Kept
<1> DEFINE w == t[1]
<1>1. w \in Workers  BY TasksFacts
<1>2. /\ pc[t] \in {"refund5h", "refund7d", "refund30d"}
      /\ NextStage[pc[t]] \in {"refund7d", "refund30d", "idle"}
      /\ RefundStage[pc[t]] \in Windows
      /\ pc' = [pc EXCEPT ![t] = NextStage[pc[t]]]
      /\ redis' = [redis EXCEPT ![RefundStage[pc[t]]] = NewestRemoved(@)]
      /\ UNCHANGED <<quotaVars, callVars, admitted, refunds>>
  BY DEF RefundWindow, RefundStage, NextStage, Windows, boundVars
<1>3. OnlyWorker(w)
  BY <1>2 DEF OnlyWorker, LocalInv, TypeOK, callVars, quotaVars
<1>4. (Answered(w)' <=> Answered(w)) /\ (Calling(w)' <=> Calling(w))
  BY <1>2 DEF Answered, Calling, LocalInv, TypeOK
<1>5. Pending'[w] = Pending[w]  BY <1>1, <1>2, <1>4 DEF Pending, quotaVars
<1>6. admitted' = admitted /\ refunds' = refunds /\ admitted \in Int /\ refunds \in Nat
  BY <1>2 DEF LocalInv, TypeOK
<1>7. ASSUME NEW i \in Windows  PROVE Excess(i)' <= Excess(i)
  <2>1. /\ Excess(i)' = Excess(i) + (redis'[i] - redis[i]) + (Pending'[w] - Pending[w])
                           - (admitted' - admitted)
        /\ Excess(i) \in Int /\ Pending[w] \in Nat /\ redis[i] \in Nat /\ redis'[i] \in Nat
    BY <1>1, <1>3, ExcessChange DEF LocalInv
  <2>2. redis'[i] <= redis[i]
    <3>1. \A n \in Nat : NewestRemoved(n) <= n  BY DEF NewestRemoved, Max2
    <3>2. redis'[i] = redis[i] \/ redis'[i] = NewestRemoved(redis[i])
      BY <1>2 DEF LocalInv, TypeOK
    <3>3. QED  BY <2>1, <3>1, <3>2
  <2> HIDE DEF w
  <2>3. QED  BY <1>5, <1>6, <2>1, <2>2
<1>8. QED  BY <1>6, <1>7 DEF Kept

-----------------------------------------------------------------------------
(* Every step *)

\* What has failed stays failed.
LEMMA UndisturbedFacts ==
    ASSUME TypeOK, [Next]_vars, Undisturbed'
    PROVE  /\ Undisturbed
           /\ \A t \in Tasks : ~Degrade(t) /\ ~RefundAborts(t)
           /\ \A w \in Workers : ~EvictState(w) /\ ~RestartWorker(w)
<1>1. errors \in Nat /\ losses \in Nat /\ errors' = 0 /\ losses' = 0
  BY DEF TypeOK, Undisturbed
<1>2. ASSUME NEW t \in Tasks, Degrade(t) \/ RefundAborts(t)  PROVE FALSE
  BY <1>1, <1>2 DEF Degrade, DegradeReject, DegradePassthrough, DegradeFallbackAllow,
                    DegradeFallbackReject, CallFails, RefundAborts
<1>3. ASSUME NEW w \in Workers, EvictState(w) \/ RestartWorker(w)  PROVE FALSE
  BY <1>1, <1>3 DEF EvictState, RestartWorker, ResetQuotaState
<1>4. Undisturbed
  <2>1. ASSUME NEW t \in Tasks,
               \/ Check(t) \/ ExecScript(t) \/ Receive(t) \/ Respond(t) \/ UpstreamOk(t)
               \/ Refund(t) \/ RefundWindow(t)
        PROVE  UNCHANGED <<errors, losses>>
    BY <2>1 DEF Check, CheckDenyLocal, CheckConsume, CheckPrefetch, ExecScript, Receive,
                ReceiveDeny, ReceiveGrant, Respond, UpstreamOk, Refund, RefundNothing,
                RefundFallback, RefundLocal, RefundRedis, RefundWindow, boundVars, lossVars
  <2>2. ASSUME NEW w \in Workers, SnapshotExpires(w)  PROVE UNCHANGED <<errors, losses>>
    BY <2>2 DEF SnapshotExpires, boundVars, lossVars
  <2>3. UNCHANGED vars => UNCHANGED <<errors, losses>>  BY DEF vars, boundVars, lossVars
  <2>4. QED  BY <1>1, <1>2, <1>3, <2>1, <2>2, <2>3 DEF Next, Undisturbed
<1>5. QED  BY <1>2, <1>3, <1>4

LEMMA ExcessStep ==
    ASSUME NoOverlap, LocalInv, LocalInv', [Next]_vars, Undisturbed'
    PROVE  Kept \/ Grown
<1>1. TypeOK /\ refunds \in Nat  BY DEF LocalInv, TypeOK
<1>2. ASSUME NEW t \in Tasks,
             \/ CheckDenyLocal(t) \/ Respond(t) \/ UpstreamOk(t) \/ RefundNothing(t)
             \/ RefundFallback(t)
      PROVE  Kept
  <2>1. /\ UNCHANGED <<redis, deque, reserved, admitted>>
        /\ pc[t] \in {"idle", "denied", "upstream"}
        /\ \E p \in {"denied", "idle"} : pc' = [pc EXCEPT ![t] = p]
        /\ refunds' = refunds \/ refunds' = refunds + 1
    BY <1>2 DEF CheckDenyLocal, Respond, UpstreamOk, RefundNothing, RefundFallback,
                UpstreamFails, quotaVars, boundVars
  <2>2. \A u \in Tasks : pc'[u] = pc[u] \/ (~InCall(u) /\ ~InCall(u)')
    BY <1>1, <2>1 DEF InCall, TypeOK
  <2>3. QED  BY <1>1, <2>1, <2>2, KeptSame
<1>3. ASSUME NEW w \in Workers, SnapshotExpires(w)  PROVE Kept
  BY <1>1, <1>3, KeptSame DEF SnapshotExpires, boundVars
<1>4. UNCHANGED vars => Kept
  BY <1>1, KeptSame DEF vars, quotaVars, boundVars
<1>5. QED
  BY <1>1, <1>2, <1>3, <1>4, UndisturbedFacts, ConsumeExcess, PrefetchExcess, ExecExcess,
     ReceiveExcess, RefundLocalExcess, RefundRedisExcess, RefundWindowExcess
  DEF Next, Check, Refund

-----------------------------------------------------------------------------
(* Nothing is charged that was not used *)

\* Each refund leaves at most one timestamp too many.
PhantomInv == Undisturbed => \A i \in Windows : Excess(i) <= refunds

LEMMA InitExcess == Init => \A i \in Windows : Excess(i) = 0
<1>1. SUFFICES ASSUME Init, NEW i \in Windows  PROVE Excess(i) = 0
  OBVIOUS
<1>2. \A w \in Workers : Pending[w] = 0
  BY <1>1 DEF Init, Pending, Answered, Calling
<1>3. TypeOK  BY <1>1, InitType
<1>4. Total(Pending, Workers) <= Cardinality(Workers) * 0
  BY <1>2, TasksFacts, TotalBound
<1>5. Cardinality(Workers) \in Nat  BY TasksFacts, FS_CardinalityType
<1>6. Total(Pending, Workers) = 0  BY <1>1, <1>3, <1>4, <1>5, ExcessType
<1>7. QED  BY <1>1, <1>6 DEF Excess, Init

\* Between calls, what is pending is what the deques hold.
LEMMA SettledExcess ==
    ASSUME Settled, NEW i \in Windows
    PROVE  Excess(i) = redis[i] + Total(deque, Workers) - admitted
<1>1. \A w \in Workers : Pending[w] = deque[w]
  BY PendingIdle DEF Settled, InCall
<1>2. Total(Pending, Workers) = Total(deque, Workers)  BY <1>1, TotalSame
<1>3. QED  BY <1>2 DEF Excess

LEMMA SettledTypes ==
    ASSUME TypeOK, NEW i \in Windows
    PROVE  redis[i] \in Nat /\ Total(deque, Workers) \in Nat /\ admitted \in Int /\ refunds \in Nat
<1>1. \A w \in Workers : deque[w] \in Nat  BY DEF TypeOK
<1>2. Total(deque, Workers) \in Nat  BY <1>1, TasksFacts, TotalType
<1>3. QED  BY <1>2 DEF TypeOK

LEMMA PhantomStep ==
    ASSUME NoOverlap, LocalInv, LocalInv', [Next]_vars, PhantomInv
    PROVE  PhantomInv'
<1>1. SUFFICES ASSUME Undisturbed', NEW i \in Windows  PROVE Excess(i)' <= refunds'
  BY DEF PhantomInv
<1>2. Undisturbed  BY <1>1, UndisturbedFacts DEF LocalInv
<1>3. Excess(i) <= refunds  BY <1>2 DEF PhantomInv
<1>4. Excess(i) \in Int /\ refunds \in Nat /\ refunds' \in Nat
  BY ExcessType DEF LocalInv, TypeOK
<1>5. Excess(i)' \in Int
  <2>1. TypeOK'  BY DEF LocalInv
  <2>2. ExcessIsInt'  BY <2>1, ExcessTypes, PTL
  <2>3. QED  BY <2>2 DEF ExcessIsInt
<1>6. Excess(i)' - Excess(i) <= refunds' - refunds
  BY <1>1, <1>4, <1>5, ExcessStep DEF Kept, Grown
<1>7. QED  BY <1>3, <1>4, <1>5, <1>6

LEMMA PhantomHolds == ASSUME NoOverlap PROVE Spec => [](LocalInv /\ PhantomInv)
<1>1. Init => PhantomInv  BY InitExcess DEF Init, PhantomInv
<1>2. LocalInv /\ PhantomInv /\ [Next]_vars => LocalInv' /\ PhantomInv'
  BY NextLocal, PhantomStep
<1>3. QED  BY <1>1, <1>2, InitLocal, PTL DEF Spec

\* However many requests a worker holds and however their refunds and its flushes overtake
\* each other, no window is left with more than one timestamp per refund that stands for
\* no admission.
THEOREM PhantomUsageIsBounded == ASSUME NoOverlap PROVE Spec => []PhantomUsageBounded
<1>1. LocalInv /\ PhantomInv => PhantomUsageBounded
  <2>1. SUFFICES ASSUME LocalInv, PhantomInv, Undisturbed, Settled, NEW i \in Windows
                 PROVE  redis[i] + Total(deque, Workers) <= admitted + refunds
    BY DEF PhantomUsageBounded
  <2>2. Excess(i) <= refunds  BY <2>1 DEF PhantomInv
  <2>3. Excess(i) = redis[i] + Total(deque, Workers) - admitted  BY <2>1, SettledExcess
  <2>4. /\ redis[i] \in Nat /\ Total(deque, Workers) \in Nat
        /\ admitted \in Int /\ refunds \in Nat
    BY <2>1, SettledTypes DEF LocalInv
  <2>5. QED  BY <2>2, <2>3, <2>4
<1>2. QED  BY <1>1, PhantomHolds, PTL

-----------------------------------------------------------------------------
(* What Redis counts, against what was admitted and what was refunded *)

\* Requests of worker w that hold quota.
Holders(w) == {t \in Tasks : t[1] = w /\ pc[t] = "upstream" /\ via[t] = "quota"}

\* Members of each ZSET that w's requests may still ask to be removed: those of the
\* requests whose timestamps are not in the deque any more, and during an answer's flight
\* those of all of them and of the refunds it has overtaken.
Booked ==
    [w \in Workers |-> IF Answered(w) THEN Cardinality(Holders(w)) + reserved[w]
                                      ELSE Max2(0, Cardinality(Holders(w)) - deque[w])]

\* Redis counts no more than may be held against the user, and not less than refunds will
\* remove: a refund always finds a member.
BooksInv ==
    \A i \in Windows :
        /\ redis[i] + Total(Unflushed, Workers) <= Charged(i)
        /\ Owed(i) + Total(Booked, Workers) <= redis[i]

\* Only worker w and its requests take part in this step.
OwnStep(w) == OnlyWorker(w) /\ \A t \in Tasks : t[1] # w => via'[t] = via[t]

\* What one worker's step does to both sides, in its own figures.
BooksBalance(w) ==
    \A i \in Windows :
        /\ redis'[i] - redis[i] + Unflushed'[w] - Unflushed[w]
             <= admitted' - admitted + Owed(i)' - Owed(i) + Overtaken'[w] - Overtaken[w]
                  + stranded' - stranded
        /\ Owed(i)' - Owed(i) + Booked'[w] - Booked[w] <= redis'[i] - redis[i]

LEMMA HoldersType ==
    /\ \A w \in Workers : IsFiniteSet(Holders(w)) /\ Cardinality(Holders(w)) \in Nat
    /\ \A w \in Workers : IsFiniteSet(Holders(w)') /\ Cardinality(Holders(w)') \in Nat
<1>1. \A w \in Workers : Holders(w) \in SUBSET Tasks /\ Holders(w)' \in SUBSET Tasks
  BY DEF Holders
<1>2. \A w \in Workers : IsFiniteSet(Holders(w)) /\ IsFiniteSet(Holders(w)')
  BY <1>1, TasksFacts, FS_Subset
<1>3. QED  BY <1>2, FS_CardinalityType

BookedIsNat == \A w \in Workers : Booked[w] \in Nat

LEMMA BookedType == TypeOK => BookedIsNat
<1>1. SUFFICES ASSUME TypeOK, NEW w \in Workers  PROVE Booked[w] \in Nat
  BY DEF BookedIsNat
<1>2. Cardinality(Holders(w)) \in Nat /\ deque[w] \in Nat /\ reserved[w] \in Nat
  BY <1>1, HoldersType DEF TypeOK
<1>3. QED  BY <1>2 DEF Booked, Max2

LEMMA BooksStep ==
    ASSUME LocalInv, LocalInv', BooksInv, NEW w \in Workers, OwnStep(w), BooksBalance(w)
    PROVE  BooksInv'
<1> DEFINE u == Total(Unflushed, Workers)
           o == Total(Overtaken, Workers)
           b == Total(Booked, Workers)
<1>1. TypeOK /\ TypeOK' /\ OnlyWorker(w)  BY DEF LocalInv, OwnStep
<1>2. \A v \in Workers \ {w} : Booked'[v] = Booked[v]
  <2>1. \A v \in Workers \ {w} : Holders(v)' = Holders(v)
    BY DEF OwnStep, OnlyWorker, Holders
  <2>2. \A v \in Workers \ {w} : Answered(v)' <=> Answered(v)
    BY DEF OwnStep, OnlyWorker, Answered
  <2>3. QED  BY <2>1, <2>2 DEF OwnStep, OnlyWorker, Booked
<1>3. BookedIsNat /\ BookedIsNat'
  <2>1. BookedIsNat'  BY <1>1, BookedType, PTL
  <2>2. QED  BY <1>1, <2>1, BookedType
<1>4. /\ Total(Booked', Workers) = b - Booked[w] + Booked'[w]
      /\ b \in Nat /\ Total(Booked', Workers) \in Nat
  <2>1. (\A v \in Workers : Booked[v] \in Nat) /\ (\A v \in Workers : Booked'[v] \in Nat)
    BY <1>3 DEF BookedIsNat
  <2>2. QED  BY <1>2, <2>1, TasksFacts, TotalChange, TotalType
<1>5. /\ u' = u - Unflushed[w] + Unflushed'[w] /\ o' = o - Overtaken[w] + Overtaken'[w]
      /\ u \in Nat /\ o \in Nat /\ Unflushed[w] \in Nat /\ Overtaken[w] \in Nat
  BY <1>1, LocalChange, TotalsType, CountersType
<1>6. u' \in Nat /\ o' \in Nat /\ Unflushed'[w] \in Nat /\ Overtaken'[w] \in Nat
  <2>1. (u \in Nat)' /\ (o \in Nat)'  BY <1>1, TotalsType, PTL
  <2>2. (Unflushed \in [Workers -> Nat])' /\ (Overtaken \in [Workers -> Nat])'
    BY <1>1, CountersType, PTL
  <2>3. QED  BY <2>1, <2>2
<1>7. Booked[w] \in Nat /\ Booked'[w] \in Nat  BY <1>3 DEF BookedIsNat
<1>8. SUFFICES ASSUME NEW i \in Windows
               PROVE  /\ redis'[i] + u' <= admitted' + Owed(i)' + o' + stranded'
                      /\ Owed(i)' + b' <= redis'[i]
  BY DEF BooksInv, Charged, Owed
<1>9. /\ admitted \in Int /\ admitted' \in Int /\ stranded \in Nat /\ stranded' \in Nat
      /\ redis[i] \in Nat /\ redis'[i] \in Nat /\ Owed(i) \in Nat /\ Owed(i)' \in Nat
  BY <1>1, OwedType DEF TypeOK
<1>10. redis[i] + u <= admitted + Owed(i) + o + stranded /\ Owed(i) + b <= redis[i]
  BY DEF BooksInv, Charged, Owed
<1>11. /\ redis'[i] - redis[i] + Unflushed'[w] - Unflushed[w]
            <= admitted' - admitted + Owed(i)' - Owed(i) + Overtaken'[w] - Overtaken[w]
                 + stranded' - stranded
       /\ Owed(i)' - Owed(i) + Booked'[w] - Booked[w] <= redis'[i] - redis[i]
  BY DEF BooksBalance
<1>12. b' = Total(Booked', Workers)  OBVIOUS
<1> HIDE DEF u, o, b
<1>13. redis'[i] + u' <= admitted' + Owed(i)' + o' + stranded'
  BY <1>5, <1>6, <1>9, <1>10, <1>11
<1>14. Owed(i)' + b' <= redis'[i]
  BY <1>4, <1>7, <1>9, <1>10, <1>11, <1>12
<1>15. QED  BY <1>13, <1>14

\* The size of w's holders when one of its tasks joins or leaves them.
LEMMA HoldersJoin ==
    ASSUME NEW t \in Tasks, t \notin Holders(t[1]), Holders(t[1])' = Holders(t[1]) \cup {t}
    PROVE  Cardinality(Holders(t[1])') = Cardinality(Holders(t[1])) + 1
<1>1. IsFiniteSet(Holders(t[1]))  BY TasksFacts, HoldersType
<1>2. QED  BY <1>1, FS_AddElement

LEMMA HoldersLeave ==
    ASSUME NEW t \in Tasks, t \in Holders(t[1]), Holders(t[1])' = Holders(t[1]) \ {t}
    PROVE  Cardinality(Holders(t[1])') = Cardinality(Holders(t[1])) - 1
<1>1. IsFiniteSet(Holders(t[1]))  BY TasksFacts, HoldersType
<1>2. QED  BY <1>1, FS_RemoveElement

\* A step that counts and gives nothing back; a request may let go of its quota.
LEMMA BooksQuiet ==
    ASSUME LocalInv, LocalInv', BooksInv, NEW w \in Workers, OwnStep(w),
           UNCHANGED <<redis, deque, reserved, admitted, stranded>>,
           \A t \in Tasks : pc'[t] = pc[t]
               \/ {pc[t], pc'[t]} \cap (DOMAIN RefundStage \cup {"executed"}) = {},
           Holders(w)' \in SUBSET Holders(w)
    PROVE  BooksInv'
<1>1. \A i \in Windows : Owed(i)' = Owed(i)  BY OwedSame
<1>2. Answered(w)' <=> Answered(w)  BY DEF Answered
<1>3. Unflushed'[w] = Unflushed[w] /\ Overtaken'[w] = Overtaken[w]
  BY <1>2 DEF Unflushed, Overtaken
<1>4. Cardinality(Holders(w)') <= Cardinality(Holders(w))
  <2>1. IsFiniteSet(Holders(w))  BY HoldersType
  <2>2. QED  BY <2>1, FS_Subset
<1>5. /\ Cardinality(Holders(w)) \in Nat /\ Cardinality(Holders(w)') \in Nat
      /\ deque[w] \in Nat /\ reserved[w] \in Nat
  BY HoldersType DEF LocalInv, TypeOK
<1>6. Booked'[w] <= Booked[w] /\ Booked[w] \in Nat /\ Booked'[w] \in Nat
  BY <1>2, <1>4, <1>5 DEF Booked, Max2
<1>7. BooksBalance(w)
  <2>1. SUFFICES ASSUME NEW i \in Windows
                 PROVE  /\ redis'[i] - redis[i] + Unflushed'[w] - Unflushed[w]
                             <= admitted' - admitted + Owed(i)' - Owed(i)
                                  + Overtaken'[w] - Overtaken[w] + stranded' - stranded
                        /\ Owed(i)' - Owed(i) + Booked'[w] - Booked[w] <= redis'[i] - redis[i]
    BY DEF BooksBalance
  <2>2. /\ redis[i] \in Nat /\ Owed(i) \in Nat /\ admitted \in Int /\ stranded \in Nat
        /\ Unflushed[w] \in Nat /\ Overtaken[w] \in Nat
    BY OwedType, CountersType DEF LocalInv, TypeOK
  <2>3. Owed(i)' = Owed(i)  BY <1>1
  <2>4. QED  BY <1>3, <1>6, <2>2, <2>3
<1>8. QED  BY <1>7, BooksStep

\* One unit is admitted or given back: it moves between reserved and the deque, and its
\* request becomes a holder or ceases to be one.
LEMMA BooksUnit ==
    ASSUME LocalInv, LocalInv', BooksInv, NEW t \in Tasks, NEW d \in {1, -1},
           OwnStep(t[1]), \A i \in Windows : Owed(i)' = Owed(i),
           Answered(t[1])' <=> Answered(t[1]),
           redis' = redis, stranded' = stranded, admitted' = admitted + d,
           deque'[t[1]] = deque[t[1]] + d, reserved'[t[1]] = reserved[t[1]] - d,
           Cardinality(Holders(t[1])') = Cardinality(Holders(t[1])) + d
    PROVE  BooksInv'
<1> DEFINE w == t[1]
<1>1. w \in Workers  BY TasksFacts
<1>2. /\ Cardinality(Holders(w)) \in Nat /\ Cardinality(Holders(w)') \in Nat
      /\ deque[w] \in Nat /\ reserved[w] \in Nat /\ deque'[w] \in Nat /\ reserved'[w] \in Nat
      /\ admitted \in Int /\ stranded \in Nat /\ redis \in [Windows -> Nat]
  BY <1>1, HoldersType DEF LocalInv, TypeOK
<1> HIDE DEF w
<1>3. /\ \/ Unflushed'[w] = Unflushed[w] /\ Overtaken'[w] = Overtaken[w] - d
         \/ Unflushed'[w] = Unflushed[w] + d /\ Overtaken'[w] = Overtaken[w]
      /\ Unflushed[w] \in Nat /\ Overtaken[w] \in Nat
  BY <1>1, <1>2 DEF Unflushed, Overtaken, w
<1>4. Booked'[w] = Booked[w] /\ Booked[w] \in Nat
  BY <1>1, <1>2 DEF Booked, Max2, w
<1>5. BooksBalance(w)
  <2>1. SUFFICES ASSUME NEW i \in Windows
                 PROVE  /\ redis'[i] - redis[i] + Unflushed'[w] - Unflushed[w]
                             <= admitted' - admitted + Owed(i)' - Owed(i)
                                  + Overtaken'[w] - Overtaken[w] + stranded' - stranded
                        /\ Owed(i)' - Owed(i) + Booked'[w] - Booked[w] <= redis'[i] - redis[i]
    BY DEF BooksBalance
  <2>2. Owed(i)' = Owed(i) /\ Owed(i) \in Nat /\ redis[i] \in Nat  BY <1>2, OwedType
  <2>3. QED  BY <1>2, <1>3, <1>4, <2>2
<1>6. QED  BY <1>1, <1>5, BooksStep DEF w

LEMMA ConsumeBooks ==
    ASSUME LocalInv, LocalInv', BooksInv, NEW t \in Tasks, CheckConsume(t)
    PROVE  BooksInv'
<1> DEFINE w == t[1]
<1>1. w \in Workers  BY TasksFacts
<1>2. OwnStep(w)
  BY DEF CheckConsume, OwnStep, OnlyWorker, LocalInv, TypeOK, callVars
<1>3. \A i \in Windows : Owed(i)' = Owed(i)
  <2>1. \A u \in Tasks : pc'[u] = pc[u] \/ {pc[u], pc'[u]} \cap DOMAIN RefundStage = {}
    BY DEF CheckConsume, RefundStage, LocalInv, TypeOK
  <2>2. QED  BY <2>1, OwedSame
<1>4. Answered(w)' <=> Answered(w)
  BY DEF CheckConsume, Answered, LocalInv, TypeOK
<1>5. Cardinality(Holders(w)') = Cardinality(Holders(w)) + 1
  <2>1. t \notin Holders(w) /\ Holders(w)' = Holders(w) \cup {t}
    BY DEF CheckConsume, Holders, LocalInv, TypeOK
  <2>2. QED  BY <2>1, HoldersJoin
<1>6. /\ redis' = redis /\ stranded' = stranded /\ admitted' = admitted + 1
      /\ deque'[w] = deque[w] + 1 /\ reserved'[w] = reserved[w] - 1
  BY <1>1 DEF CheckConsume, LocalInv, TypeOK, boundVars, refundVars
<1>7. QED  BY <1>2, <1>3, <1>4, <1>5, <1>6, BooksUnit

LEMMA RefundLocalBooks ==
    ASSUME LocalInv, LocalInv', BooksInv, NEW t \in Tasks, RefundLocal(t)
    PROVE  BooksInv'
<1> DEFINE w == t[1]
<1>1. w \in Workers  BY TasksFacts
<1>2. OwnStep(w)
  BY DEF RefundLocal, UpstreamFails, OwnStep, OnlyWorker, LocalInv, TypeOK, callVars
<1>3. \A i \in Windows : Owed(i)' = Owed(i)
  <2>1. \A u \in Tasks : pc'[u] = pc[u] \/ {pc[u], pc'[u]} \cap DOMAIN RefundStage = {}
    BY DEF RefundLocal, UpstreamFails, RefundStage, LocalInv, TypeOK
  <2>2. QED  BY <2>1, OwedSame
<1>4. Answered(w)' <=> Answered(w)
  BY DEF RefundLocal, UpstreamFails, Answered, LocalInv, TypeOK
<1>5. Cardinality(Holders(w)') = Cardinality(Holders(w)) + (-1)
  <2>1. t \in Holders(w) /\ Holders(w)' = Holders(w) \ {t}
    BY DEF RefundLocal, UpstreamFails, Holders, LocalInv, TypeOK
  <2>2. Cardinality(Holders(w)) \in Nat  BY <1>1, HoldersType
  <2>3. QED  BY <2>1, <2>2, HoldersLeave
<1>6. /\ redis' = redis /\ stranded' = stranded /\ admitted' = admitted + (-1)
      /\ deque'[w] = deque[w] + (-1) /\ reserved'[w] = reserved[w] - (-1)
  BY <1>1 DEF RefundLocal, LocalInv, TypeOK, refundVars
<1>7. QED  BY <1>2, <1>3, <1>4, <1>5, <1>6, BooksUnit

\* The script counts the deque, and what was refunded into reserved since the call was sent.
LEMMA ExecBooks ==
    ASSUME LocalInv, LocalInv', BooksInv, NEW t \in Tasks, ExecScript(t)
    PROVE  BooksInv'
<1> DEFINE w == t[1]
<1>1. w \in Workers  BY TasksFacts
<1>2. /\ pc[t] = "sent" /\ pc'[t] = "executed" /\ via' = via
      /\ \A u \in Tasks \ {t} : pc'[u] = pc[u] /\ reply'[u] = reply[u]
      /\ UNCHANGED <<deque, reserved, admitted, stranded>>
      /\ redis' = Flushed(redis, flush[t])
  BY DEF ExecScript, quotaVars, boundVars, refundVars, LocalInv, TypeOK
<1>3. /\ \A i \in Windows : redis'[i] = redis[i] + deque[w] + reserved[w]
      /\ redis' \in [Windows -> Nat]
  <2>1. flush[t] = deque[w] + reserved[w]
    BY <1>2 DEF LocalInv, CallInv, InCall
  <2>2. QED  BY <1>1, <1>2, <2>1 DEF Flushed, LocalInv, TypeOK
<1>4. OwnStep(w)  BY <1>2 DEF OwnStep, OnlyWorker
<1>5. \A i \in Windows : Owed(i)' = Owed(i)
  <2>1. \A u \in Tasks : pc'[u] = pc[u] \/ {pc[u], pc'[u]} \cap DOMAIN RefundStage = {}
    BY <1>2 DEF RefundStage
  <2>2. QED  BY <2>1, OwedSame
<1>6. \A u \in Tasks : u[1] = w /\ u # t => ~InCall(u)
  BY <1>2 DEF LocalInv, CallInv, InCall
<1>7. ~Answered(w) /\ Answered(w)'
  BY <1>2, <1>6 DEF Answered, InCall
<1>8. Holders(w)' = Holders(w)
  BY <1>2 DEF Holders
<1>9. /\ Unflushed[w] = deque[w] /\ Overtaken[w] = 0
      /\ Unflushed'[w] = 0 /\ Overtaken'[w] = reserved[w]
  BY <1>1, <1>2, <1>7 DEF Unflushed, Overtaken
<1>10. /\ Cardinality(Holders(w)) \in Nat /\ deque[w] \in Nat /\ reserved[w] \in Nat
       /\ admitted \in Int /\ stranded \in Nat /\ redis \in [Windows -> Nat]
  BY <1>1, HoldersType DEF LocalInv, TypeOK
<1>11. /\ Booked[w] = Max2(0, Cardinality(Holders(w)) - deque[w])
       /\ Booked'[w] = Cardinality(Holders(w)) + reserved[w]
  BY <1>1, <1>2, <1>7, <1>8 DEF Booked
<1> HIDE DEF w
<1>12. BooksBalance(w)
  <2>1. SUFFICES ASSUME NEW i \in Windows
                 PROVE  /\ redis'[i] - redis[i] + Unflushed'[w] - Unflushed[w]
                             <= admitted' - admitted + Owed(i)' - Owed(i)
                                  + Overtaken'[w] - Overtaken[w] + stranded' - stranded
                        /\ Owed(i)' - Owed(i) + Booked'[w] - Booked[w] <= redis'[i] - redis[i]
    BY DEF BooksBalance
  <2>2. /\ Owed(i)' = Owed(i) /\ Owed(i) \in Nat /\ redis[i] \in Nat
        /\ redis'[i] = redis[i] + deque[w] + reserved[w]
    BY <1>3, <1>5, <1>10, OwedType
  <2>3. /\ Booked[w] \in Nat /\ Booked'[w] \in Nat
        /\ Booked'[w] <= Booked[w] + deque[w] + reserved[w]
    BY <1>10, <1>11 DEF Max2
  <2>4. /\ admitted' = admitted /\ stranded' = stranded  BY <1>2
  <2>5. QED  BY <1>9, <1>10, <2>2, <2>3, <2>4
<1>13. QED  BY <1>1, <1>4, <1>12, BooksStep DEF w

\* The answer empties the deque; what was refunded during the call stays counted.
LEMMA ReceiveBooks ==
    ASSUME LocalInv, LocalInv', BooksInv, NEW t \in Tasks, Receive(t)
    PROVE  BooksInv'
<1> DEFINE w == t[1]
<1>1. w \in Workers  BY TasksFacts
<1>2. /\ pc[t] = "executed" /\ pc'[t] \in {"denied", "upstream"} /\ EndCall(t)
      /\ \A u \in Tasks \ {t} : pc'[u] = pc[u] /\ via'[u] = via[u]
      /\ \A v \in Workers \ {w} : deque'[v] = deque[v] /\ reserved'[v] = reserved[v]
      /\ redis' = redis /\ deque'[w] = admitted' - admitted /\ deque'[w] \in {0, 1}
      /\ pc'[t] = "denied" => deque'[w] = 0
      /\ pc'[t] = "upstream" => deque'[w] = 1 /\ via'[t] = "quota"
      /\ CountStranded(t)
  BY <1>1 DEF Receive, ReceiveDeny, ReceiveGrant, LocalInv, TypeOK
<1>3. /\ OnlyWorker(w) /\ \A i \in Windows : Owed(i)' = Owed(i)
      /\ Unflushed'[w] = deque'[w] /\ Overtaken'[w] = 0
      /\ Unflushed[w] = 0 /\ Overtaken[w] = reserved[w]
  BY <1>2, CallEnds DEF InCall, RefundStage
<1>4. OwnStep(w)  BY <1>2, <1>3 DEF OwnStep
<1>5. Answered(w) /\ ~Answered(w)'
  BY <1>2 DEF Answered, LocalInv, CallInv, InCall
<1>6. /\ Cardinality(Holders(w)) \in Nat /\ deque[w] \in Nat /\ reserved[w] \in Nat
      /\ admitted \in Int /\ admitted' \in Int /\ stranded \in Nat
      /\ redis \in [Windows -> Nat]
  BY <1>1, HoldersType DEF LocalInv, TypeOK
<1>7. stranded' = stranded + reserved[w]
  <2>1. flush[t] = deque[w] + reserved[w]
    BY <1>2 DEF LocalInv, CallInv, InCall
  <2>2. stranded' = stranded + Max2(0, flush[t] - deque[w])  BY <1>2 DEF CountStranded
  <2> HIDE DEF w
  <2>3. QED  BY <1>6, <2>1, <2>2 DEF Max2
<1>8. Cardinality(Holders(w)') = Cardinality(Holders(w)) + deque'[w]
  <2>1. t \notin Holders(w)  BY <1>2 DEF Holders
  <2>2. CASE pc'[t] = "denied"
    <3>1. Holders(w)' = Holders(w)  BY <1>2, <2>2 DEF Holders
    <3>2. deque'[w] = 0  BY <1>2, <2>2
    <3> HIDE DEF w
    <3>3. Cardinality(Holders(w)') = Cardinality(Holders(w))  BY <3>1
    <3>4. QED  BY <1>6, <3>2, <3>3
  <2>3. CASE pc'[t] = "upstream"
    <3>1. Holders(w)' = Holders(w) \cup {t}  BY <1>2, <2>3 DEF Holders
    <3>2. QED  BY <1>2, <2>1, <2>3, <3>1, HoldersJoin
  <2>4. QED  BY <1>2, <2>2, <2>3
<1>9. /\ Booked[w] = Cardinality(Holders(w)) + reserved[w]
      /\ Booked'[w] = Max2(0, Cardinality(Holders(w)') - deque'[w])
  BY <1>1, <1>5 DEF Booked
<1> HIDE DEF w
<1>10. Booked'[w] = Cardinality(Holders(w)) /\ Booked[w] \in Nat
  BY <1>2, <1>6, <1>8, <1>9 DEF Max2
<1>11. BooksBalance(w)
  <2>1. SUFFICES ASSUME NEW i \in Windows
                 PROVE  /\ redis'[i] - redis[i] + Unflushed'[w] - Unflushed[w]
                             <= admitted' - admitted + Owed(i)' - Owed(i)
                                  + Overtaken'[w] - Overtaken[w] + stranded' - stranded
                        /\ Owed(i)' - Owed(i) + Booked'[w] - Booked[w] <= redis'[i] - redis[i]
    BY DEF BooksBalance
  <2>2. Owed(i)' = Owed(i) /\ Owed(i) \in Nat /\ redis[i] \in Nat /\ redis'[i] = redis[i]
    BY <1>2, <1>3, <1>6, OwedType
  <2>3. QED  BY <1>2, <1>3, <1>6, <1>7, <1>9, <1>10, <2>2
<1>12. QED  BY <1>1, <1>4, <1>11, BooksStep DEF w

\* A refund in Redis is owed from the moment its admission is taken back.
LEMMA RefundRedisBooks ==
    ASSUME LocalInv, LocalInv', BooksInv, NEW t \in Tasks, RefundRedis(t)
    PROVE  BooksInv'
<1> DEFINE w == t[1]
<1>1. w \in Workers  BY TasksFacts
<1>2. /\ pc[t] = "upstream" /\ via[t] = "quota" /\ pc' = [pc EXCEPT ![t] = "refund5h"]
      /\ via' = [via EXCEPT ![t] = "none"] /\ deque[w] = 0 /\ admitted' = admitted - 1
      /\ UNCHANGED <<redis, deque, reserved, reply, stranded>>
  BY DEF RefundRedis, UpstreamFails, quotaVars, callVars, refundVars
<1>3. OwnStep(w)  BY <1>2 DEF OwnStep, OnlyWorker, LocalInv, TypeOK
<1>4. Answered(w)' <=> Answered(w)  BY <1>2 DEF Answered, LocalInv, TypeOK
<1>5. Cardinality(Holders(w)') = Cardinality(Holders(w)) - 1
  <2>1. t \in Holders(w) /\ Holders(w)' = Holders(w) \ {t}
    BY <1>2 DEF Holders, LocalInv, TypeOK
  <2>2. QED  BY <2>1, HoldersLeave
<1>6. /\ Cardinality(Holders(w)) \in Nat /\ Cardinality(Holders(w)') \in Nat
      /\ reserved[w] \in Nat /\ admitted \in Int /\ stranded \in Nat
      /\ redis \in [Windows -> Nat]
  BY <1>1, HoldersType DEF LocalInv, TypeOK
<1>7. ASSUME NEW i \in Windows  PROVE Owed(i)' = Owed(i) + 1
  <2>1. RefundsDue(i)' = RefundsDue(i) \cup {t} /\ t \notin RefundsDue(i)
    BY <1>2 DEF RefundsDue, LocalInv, TypeOK
  <2>2. IsFiniteSet(RefundsDue(i))  BY OwedType
  <2>3. QED  BY <2>1, <2>2, FS_AddElement DEF Owed
<1> HIDE DEF w
<1>8. /\ Unflushed'[w] = Unflushed[w] /\ Overtaken'[w] = Overtaken[w]
      /\ Unflushed[w] \in Nat /\ Overtaken[w] \in Nat
  BY <1>1, <1>2, <1>4, CountersType DEF Unflushed, Overtaken, LocalInv
<1>9. Booked'[w] = Booked[w] - 1 /\ Booked[w] \in Nat
  BY <1>1, <1>2, <1>4, <1>5, <1>6 DEF Booked, Max2
<1>10. BooksBalance(w)
  <2>1. SUFFICES ASSUME NEW i \in Windows
                 PROVE  /\ redis'[i] - redis[i] + Unflushed'[w] - Unflushed[w]
                             <= admitted' - admitted + Owed(i)' - Owed(i)
                                  + Overtaken'[w] - Overtaken[w] + stranded' - stranded
                        /\ Owed(i)' - Owed(i) + Booked'[w] - Booked[w] <= redis'[i] - redis[i]
    BY DEF BooksBalance
  <2>2. Owed(i)' = Owed(i) + 1 /\ Owed(i) \in Nat /\ redis[i] \in Nat
    BY <1>6, <1>7, OwedType
  <2>3. QED  BY <1>2, <1>6, <1>8, <1>9, <2>2
<1>11. QED  BY <1>1, <1>3, <1>10, BooksStep DEF w

\* What RefundWindow does to its stage's window, and to what is owed.
LEMMA RefundWindowFacts ==
    ASSUME LocalInv, NEW t \in Tasks, RefundWindow(t)
    PROVE  \E stage \in Windows :
              /\ redis' = [redis EXCEPT ![stage] = NewestRemoved(@)]
              /\ stage = "5h" <=> pc[t] = "refund5h"
              /\ Owed(stage)' = Owed(stage) - 1 /\ Owed(stage) > 0
              /\ \A i \in Windows \ {stage} : Owed(i)' = Owed(i)
<1>0. PICK stage \in Windows : stage = RefundStage[pc[t]]
  BY DEF RefundWindow, RefundStage, Windows
<1>1. redis' = [redis EXCEPT ![stage] = NewestRemoved(@)]  BY <1>0 DEF RefundWindow
<1>2. \A i \in Windows : RefundsDue(i)' = IF i = stage THEN RefundsDue(i) \ {t}
                                                       ELSE RefundsDue(i)
  <2>1. CASE pc[t] = "refund5h"
    BY <1>0, <2>1 DEF RefundWindow, RefundsDue, RefundStage, NextStage, Windows, LocalInv,
                      TypeOK
  <2>2. CASE pc[t] = "refund7d"
    BY <1>0, <2>2 DEF RefundWindow, RefundsDue, RefundStage, NextStage, Windows, LocalInv,
                      TypeOK
  <2>3. CASE pc[t] = "refund30d"
    BY <1>0, <2>3 DEF RefundWindow, RefundsDue, RefundStage, NextStage, Windows, LocalInv,
                      TypeOK
  <2>4. QED  BY <2>1, <2>2, <2>3 DEF RefundWindow, RefundStage
<1>3. t \in RefundsDue(stage) /\ (stage = "5h" <=> pc[t] = "refund5h")
  BY <1>0 DEF RefundWindow, RefundStage, RefundsDue
<1>4. Owed(stage)' = Owed(stage) - 1 /\ Owed(stage) > 0
  <2>1. IsFiniteSet(RefundsDue(stage))  BY OwedType
  <2>2. Cardinality(RefundsDue(stage) \ {t}) = Cardinality(RefundsDue(stage)) - 1
    BY <1>3, <2>1, FS_RemoveElement
  <2>3. RefundsDue(stage)' = RefundsDue(stage) \ {t}  BY <1>2
  <2>4. Owed(stage) \in Nat /\ Owed(stage)' \in Nat  BY OwedType
  <2>5. Owed(stage)' = Owed(stage) - 1  BY <2>2, <2>3 DEF Owed
  <2>6. QED  BY <2>4, <2>5
<1>5. \A i \in Windows \ {stage} : Owed(i)' = Owed(i)  BY <1>2 DEF Owed
<1>6. QED  BY <1>1, <1>3, <1>4, <1>5

\* The member a refund removes is there.
LEMMA RefundWindowBooks ==
    ASSUME LocalInv, LocalInv', BooksInv, NEW t \in Tasks, RefundWindow(t)
    PROVE  BooksInv'
<1> DEFINE w == t[1]
<1>1. w \in Workers  BY TasksFacts
<1>2. /\ \E p \in {"refund7d", "refund30d", "idle"} : pc' = [pc EXCEPT ![t] = p]
      /\ pc[t] \notin {"executed", "upstream"}
      /\ UNCHANGED <<deque, reserved, reply, via, admitted, stranded>>
  <2>1. /\ NextStage[pc[t]] \in {"refund7d", "refund30d", "idle"}
        /\ pc[t] \notin {"executed", "upstream"}
    BY DEF RefundWindow, RefundStage, NextStage
  <2>2. QED  BY <2>1 DEF RefundWindow, quotaVars, callVars
<1>3. OwnStep(w)  BY <1>2 DEF OwnStep, OnlyWorker, LocalInv, TypeOK
<1>4. Answered(w)' <=> Answered(w)  BY <1>2 DEF Answered, LocalInv, TypeOK
<1>5. Holders(w)' = Holders(w)  BY <1>2 DEF Holders, LocalInv, TypeOK
<1>6. PICK stage \in Windows :
          /\ redis' = [redis EXCEPT ![stage] = NewestRemoved(@)]
          /\ Owed(stage)' = Owed(stage) - 1 /\ Owed(stage) > 0
          /\ \A i \in Windows \ {stage} : Owed(i)' = Owed(i)
  BY RefundWindowFacts
<1>7. redis \in [Windows -> Nat] /\ admitted \in Int /\ stranded \in Nat
  BY DEF LocalInv, TypeOK
<1>8. redis'[stage] = redis[stage] - 1
  <2>1. Total(Booked, Workers) \in Nat
    <3>1. \A v \in Workers : Booked[v] \in Nat
      BY BookedType DEF BookedIsNat, LocalInv
    <3>2. QED  BY <3>1, TasksFacts, TotalType
  <2>2. Owed(stage) + Total(Booked, Workers) <= redis[stage] /\ Owed(stage) \in Nat
    BY OwedType DEF BooksInv
  <2>3. redis[stage] \in Nat /\ redis[stage] > 0  BY <1>6, <1>7, <2>1, <2>2
  <2>4. QED  BY <1>6, <1>7, <2>3 DEF NewestRemoved, Max2
<1> HIDE DEF w
<1>9. /\ Unflushed'[w] = Unflushed[w] /\ Overtaken'[w] = Overtaken[w]
      /\ Booked'[w] = Booked[w]
      /\ Unflushed[w] \in Nat /\ Overtaken[w] \in Nat /\ Booked[w] \in Nat
  BY <1>1, <1>2, <1>4, <1>5, CountersType, BookedType
  DEF Unflushed, Overtaken, Booked, BookedIsNat, LocalInv
<1>10. BooksBalance(w)
  <2>1. SUFFICES ASSUME NEW i \in Windows
                 PROVE  /\ redis'[i] - redis[i] + Unflushed'[w] - Unflushed[w]
                             <= admitted' - admitted + Owed(i)' - Owed(i)
                                  + Overtaken'[w] - Overtaken[w] + stranded' - stranded
                        /\ Owed(i)' - Owed(i) + Booked'[w] - Booked[w] <= redis'[i] - redis[i]
    BY DEF BooksBalance
  <2>2. Owed(i) \in Nat /\ redis[i] \in Nat  BY <1>7, OwedType
  <2>3. redis'[i] - redis[i] = Owed(i)' - Owed(i) /\ Owed(i)' \in Nat /\ redis'[i] \in Int
    BY <1>6, <1>7, <1>8, <2>2, OwedType
  <2>4. QED  BY <1>2, <1>7, <1>9, <2>2, <2>3
<1>11. QED  BY <1>1, <1>3, <1>10, BooksStep DEF w

LEMMA BooksStepAny ==
    ASSUME LocalInv, LocalInv', BooksInv, [Next]_vars, Undisturbed'
    PROVE  BooksInv'
<1>1. ASSUME NEW t \in Tasks,
             \/ CheckDenyLocal(t) \/ CheckPrefetch(t) \/ Respond(t) \/ UpstreamOk(t)
             \/ RefundNothing(t) \/ RefundFallback(t)
      PROVE  BooksInv'
  <2>1. /\ UNCHANGED <<redis, deque, reserved, reply, admitted, stranded>>
        /\ \E p \in {"denied", "sent", "idle"} : pc' = [pc EXCEPT ![t] = p]
        /\ pc[t] \in {"idle", "denied", "upstream"}
        /\ via' = via \/ via' = [via EXCEPT ![t] = "none"]
    BY <1>1 DEF CheckDenyLocal, CheckPrefetch, Respond, UpstreamOk, RefundNothing,
                RefundFallback, UpstreamFails, quotaVars, callVars, boundVars, refundVars
  <2>2. OwnStep(t[1])  BY <2>1 DEF OwnStep, OnlyWorker, LocalInv, TypeOK
  <2>3. Holders(t[1])' \in SUBSET Holders(t[1])
    BY <2>1 DEF Holders, LocalInv, TypeOK
  <2>4. \A u \in Tasks : pc'[u] = pc[u]
            \/ {pc[u], pc'[u]} \cap (DOMAIN RefundStage \cup {"executed"}) = {}
    BY <2>1 DEF RefundStage, LocalInv, TypeOK
  <2>5. t[1] \in Workers  BY TasksFacts
  <2>6. QED  BY <2>1, <2>2, <2>3, <2>4, <2>5, BooksQuiet
<1>2. ASSUME NEW w \in Workers,
             UNCHANGED <<redis, deque, reserved, reply, admitted, stranded, pc, via>>
      PROVE  BooksInv'
  BY <1>2, BooksQuiet DEF OwnStep, OnlyWorker, Holders
<1>3. ASSUME NEW w \in Workers, SnapshotExpires(w)  PROVE BooksInv'
  BY <1>2, <1>3 DEF SnapshotExpires, callVars
<1>4. UNCHANGED vars => BooksInv'
  <2>1. \E w : w \in Workers  BY QuotaAssumption DEF QuotaAssumption
  <2>2. QED  BY <1>2, <2>1 DEF vars, quotaVars, callVars, boundVars, refundVars
<1>5. QED
  BY <1>1, <1>3, <1>4, UndisturbedFacts, ConsumeBooks, ExecBooks, ReceiveBooks,
     RefundLocalBooks, RefundRedisBooks, RefundWindowBooks
  DEF Next, Check, Refund, LocalInv

LEMMA InitBooks == Init => BooksInv
<1>1. SUFFICES ASSUME Init, NEW i \in Windows
               PROVE  /\ redis[i] + Total(Unflushed, Workers) <= Charged(i)
                      /\ Owed(i) + Total(Booked, Workers) <= redis[i]
  BY DEF BooksInv
<1>2. TypeOK  BY <1>1, InitType
<1>3. RefundsDue(i) = {} /\ Owed(i) = 0
  <2>1. RefundsDue(i) = {}  BY <1>1 DEF Init, RefundsDue
  <2>2. QED  BY <2>1, FS_EmptySet DEF Owed
<1>4. \A w \in Workers : Unflushed[w] = 0  BY <1>1 DEF Init, Unflushed, Answered
<1>5. \A w \in Workers : Booked[w] = 0
  <2>1. \A w \in Workers : Holders(w) = {} /\ Cardinality(Holders(w)) = 0
    <3>1. \A w \in Workers : Holders(w) = {}  BY <1>1 DEF Init, Holders
    <3>2. QED  BY <3>1, FS_EmptySet
  <2>2. QED  BY <1>1, <2>1 DEF Init, Booked, Answered, Max2
<1>6. Total(Unflushed, Workers) = 0 /\ Total(Booked, Workers) = 0
  BY <1>4, <1>5, TotalZero
<1>7. Total(Overtaken, Workers) \in Nat  BY <1>2, TotalsType
<1>8. QED  BY <1>1, <1>3, <1>6, <1>7 DEF Init, Charged, Owed

-----------------------------------------------------------------------------
(* Nobody is refused below the limits *)

\* What Redis counts of w's deque already, since w's answer is on its way.
Counted == [w \in Workers |-> IF Answered(w) THEN deque[w] + reserved[w] ELSE 0]

\* An answer on its way reports no less than what the 5h window had left for those whom
\* Redis counted then; since, it has counted more, or lost members the answer knew of ...
AnswersInv ==
    \A t \in Tasks :
        pc[t] = "executed" => Limit["5h"] <= reply[t].rem + redis["5h"] + reply_misses[t]
\* ... and so does the snapshot of a worker.
SnapshotsInv ==
    \A w \in Workers :
        snapshot_fresh[w] => Limit["5h"] + Counted[w]
                                 <= redis_remaining[w] + redis["5h"] + snapshot_misses[w]

RefusalInv == Undisturbed => BooksInv /\ AnswersInv /\ SnapshotsInv

\* What the script answers when it refuses, and what it says is left of the 5h window.
LEMMA ScriptRefusal ==
    ASSUME NEW count \in [Windows -> Nat]
    PROVE  LET r == ScriptReply(count) IN
           /\ Limit["5h"] <= r.rem + count["5h"]
           /\ r.reserve = 0 => \E i \in Windows : count[i] >= Limit[i]
<1>1. /\ Limit \in [Windows -> Nat \ {0}]
      /\ "5h" \in Windows /\ "7d" \in Windows /\ "30d" \in Windows
  BY QuotaAssumption DEF QuotaAssumption, Windows
<1>2. CASE AnyExceeded(count)
  <2>1. ScriptReply(count) = [reserve |-> 0,
                              rem |-> IF Exceeded(count, "5h") THEN 0 ELSE Limit["5h"]]
    BY <1>2 DEF ScriptReply
  <2>2. count["5h"] \in Nat /\ Limit["5h"] \in Nat  BY <1>1
  <2>3. QED  BY <1>2, <2>1, <2>2 DEF AnyExceeded, Exceeded
<1>3. CASE ~AnyExceeded(count)
  <2>1. \A i \in Windows : /\ count[i] \in Nat /\ Limit[i] \in Nat
                           /\ count[i] < Limit[i]
    BY <1>1, <1>3 DEF AnyExceeded, Exceeded
  <2>2. Avail(count) \in Nat \ {0}  BY <1>1, <2>1 DEF Avail, Min2
  <2>3. Min2(Batch, Avail(count)) # 0  BY <2>2, BatchType DEF Min2
  <2>4. ScriptReply(count) = [reserve |-> Min2(Batch, Avail(count)),
                              rem |-> Limit["5h"] - count["5h"]]
    BY <1>3 DEF ScriptReply
  <2>5. QED  BY <1>1, <2>1, <2>3, <2>4
<1>4. QED  BY <1>2, <1>3

LEMMA RefusalTypes ==
    ASSUME TypeOK
    PROVE  /\ "5h" \in Windows /\ Limit["5h"] \in Nat /\ redis["5h"] \in Nat
           /\ \A w \in Workers : /\ Counted[w] \in Nat /\ redis_remaining[w] \in Nat
                                 /\ snapshot_misses[w] \in Nat
           /\ \A t \in Tasks : reply[t].rem \in Nat /\ reply_misses[t] \in Nat
<1>1. "5h" \in Windows  BY DEF Windows
<1>2. QED  BY <1>1, BoundConstants DEF TypeOK, Counted

\* A step that takes d members from the 5h ZSET, or none, without an answer or a snapshot
\* learning of it, and that neither sends nor brings one.
LEMMA SnapshotsStep ==
    ASSUME TypeOK, TypeOK', AnswersInv, SnapshotsInv, NEW d \in {0, 1},
           redis'["5h"] >= redis["5h"] - d,
           \A t \in Tasks : pc'[t] = "executed" =>
               /\ pc[t] = "executed" /\ reply'[t] = reply[t]
               /\ reply_misses'[t] = reply_misses[t] + d,
           \A w \in Workers : snapshot_fresh'[w] =>
               /\ snapshot_fresh[w] /\ redis_remaining'[w] = redis_remaining[w]
               /\ snapshot_misses'[w] = snapshot_misses[w] + d
               /\ Counted'[w] = Counted[w]
    PROVE  AnswersInv' /\ SnapshotsInv'
<1>1. redis["5h"] \in Nat /\ redis'["5h"] \in Nat /\ Limit["5h"] \in Nat
  BY RefusalTypes DEF TypeOK
<1>2. ASSUME NEW t \in Tasks, pc'[t] = "executed"
      PROVE  Limit["5h"] <= reply'[t].rem + redis'["5h"] + reply_misses'[t]
  <2>1. Limit["5h"] <= reply[t].rem + redis["5h"] + reply_misses[t]
    BY <1>2 DEF AnswersInv
  <2>2. reply[t].rem \in Nat /\ reply_misses[t] \in Nat  BY RefusalTypes
  <2>3. QED  BY <1>1, <1>2, <2>1, <2>2
<1>3. ASSUME NEW w \in Workers, snapshot_fresh'[w]
      PROVE  Limit["5h"] + Counted'[w]
               <= redis_remaining'[w] + redis'["5h"] + snapshot_misses'[w]
  <2>1. Limit["5h"] + Counted[w] <= redis_remaining[w] + redis["5h"] + snapshot_misses[w]
    BY <1>3 DEF SnapshotsInv
  <2>2. Counted[w] \in Nat /\ redis_remaining[w] \in Nat /\ snapshot_misses[w] \in Nat
    BY RefusalTypes
  <2>3. QED  BY <1>1, <1>3, <2>1, <2>2
<1>4. AnswersInv'  BY <1>2 DEF AnswersInv
<1>5. SnapshotsInv'  BY <1>3 DEF SnapshotsInv
<1>6. QED  BY <1>4, <1>5

RefusalsKept == AnswersInv /\ SnapshotsInv

\* A unit that moves between reserved and the deque is counted in both places.
LEMMA UnitRefusals ==
    ASSUME LocalInv, LocalInv', RefusalsKept, NEW t \in Tasks,
           CheckConsume(t) \/ RefundLocal(t)
    PROVE  RefusalsKept'
<1>1. t[1] \in Workers  BY TasksFacts
<1>2. /\ UNCHANGED <<redis, reply, reply_misses, redis_remaining, snapshot_fresh,
                     snapshot_misses>>
      /\ \E p \in {"upstream", "idle"} : pc' = [pc EXCEPT ![t] = p]
      /\ pc[t] # "executed"
  BY DEF CheckConsume, RefundLocal, UpstreamFails, callVars, boundVars, refundVars
<1>3. /\ deque'[t[1]] + reserved'[t[1]] = deque[t[1]] + reserved[t[1]]
      /\ \A w \in Workers \ {t[1]} : deque'[w] = deque[w] /\ reserved'[w] = reserved[w]
  <2>1. deque[t[1]] \in Nat /\ reserved[t[1]] \in Nat  BY <1>1 DEF LocalInv, TypeOK
  <2>2. CASE CheckConsume(t)
    <3>1. /\ deque'[t[1]] = deque[t[1]] + 1 /\ reserved'[t[1]] = reserved[t[1]] - 1
          /\ \A w \in Workers \ {t[1]} : deque'[w] = deque[w] /\ reserved'[w] = reserved[w]
      BY <1>1, <2>2 DEF CheckConsume, LocalInv, TypeOK
    <3>2. QED  BY <2>1, <3>1
  <2>3. CASE RefundLocal(t)
    <3>1. /\ deque'[t[1]] = deque[t[1]] - 1 /\ reserved'[t[1]] = reserved[t[1]] + 1
          /\ \A w \in Workers \ {t[1]} : deque'[w] = deque[w] /\ reserved'[w] = reserved[w]
      BY <1>1, <2>3 DEF RefundLocal, LocalInv, TypeOK
    <3>2. QED  BY <2>1, <3>1
  <2>4. QED  BY <2>2, <2>3
<1>4. \A u \in Tasks : pc'[u] = "executed" <=> pc[u] = "executed"
  BY <1>2 DEF LocalInv, TypeOK
<1>5. \A w \in Workers : Counted'[w] = Counted[w]
  BY <1>3, <1>4 DEF Counted, Answered
<1>6. redis["5h"] \in Nat /\ \A u \in Tasks : reply_misses[u] \in Nat
  BY RefusalTypes DEF LocalInv
<1>7. \A w \in Workers : snapshot_misses[w] \in Nat  BY RefusalTypes DEF LocalInv
<1>8. QED  BY <1>2, <1>4, <1>5, <1>6, <1>7, SnapshotsStep DEF RefusalsKept, LocalInv

\* The member a refund removes was counted in the answers and snapshots that are about.
LEMMA RemovalRefusals ==
    ASSUME LocalInv, LocalInv', RefusalsKept, NEW t \in Tasks, RefundWindow(t)
    PROVE  RefusalsKept'
<1>1. /\ UNCHANGED <<deque, reserved, reply, redis_remaining, snapshot_fresh>>
      /\ \E p \in {"refund7d", "refund30d", "idle"} : pc' = [pc EXCEPT ![t] = p]
      /\ pc[t] # "executed"
  <2>1. /\ NextStage[pc[t]] \in {"refund7d", "refund30d", "idle"}
        /\ pc[t] # "executed"
    BY DEF RefundWindow, RefundStage, NextStage
  <2>2. QED  BY <2>1 DEF RefundWindow, quotaVars, callVars
<1>2. \A u \in Tasks : pc'[u] = "executed" <=> pc[u] = "executed"
  BY <1>1 DEF LocalInv, TypeOK
<1>3. \A w \in Workers : Counted'[w] = Counted[w]
  BY <1>1, <1>2 DEF Counted, Answered
<1>4. PICK stage \in Windows : /\ redis' = [redis EXCEPT ![stage] = NewestRemoved(@)]
                               /\ stage = "5h" <=> pc[t] = "refund5h"
  BY RefundWindowFacts
<1>5. /\ "5h" \in Windows /\ redis \in [Windows -> Nat] /\ redis["5h"] \in Nat
      /\ reply_misses \in [Tasks -> Nat] /\ snapshot_misses \in [Workers -> Nat]
  BY RefusalTypes DEF LocalInv, TypeOK
<1>6. CASE pc[t] = "refund5h"
  <2>1. redis'["5h"] >= redis["5h"] - 1
    BY <1>4, <1>5, <1>6 DEF NewestRemoved, Max2
  <2>2. MissRemoval  BY <1>6 DEF RefundWindow
  <2>3. /\ \A u \in Tasks : pc[u] = "executed" => reply_misses'[u] = reply_misses[u] + 1
        /\ \A w \in Workers : snapshot_fresh[w]
                                => snapshot_misses'[w] = snapshot_misses[w] + 1
    BY <2>2 DEF MissRemoval
  <2>4. QED  BY <1>1, <1>2, <1>3, <2>1, <2>3, SnapshotsStep DEF RefusalsKept, LocalInv
<1>7. CASE pc[t] # "refund5h"
  <2>1. redis'["5h"] = redis["5h"]  BY <1>4, <1>5, <1>7
  <2>2. UNCHANGED <<reply_misses, snapshot_misses>>  BY <1>7 DEF RefundWindow
  <2>3. /\ \A u \in Tasks : reply_misses'[u] = reply_misses[u] + 0
        /\ \A w \in Workers : snapshot_misses'[w] = snapshot_misses[w] + 0
        /\ redis'["5h"] >= redis["5h"] - 0
    BY <1>5, <2>1, <2>2
  <2>4. QED  BY <1>1, <1>2, <1>3, <2>3, SnapshotsStep DEF RefusalsKept, LocalInv
<1>8. QED  BY <1>6, <1>7

\* The answer of the script is true when it is given, and what it has counted of the
\* worker's deque comes on top of what the worker's snapshot knows.
LEMMA ScriptRefusals ==
    ASSUME LocalInv, LocalInv', RefusalsKept, NEW t \in Tasks, ExecScript(t)
    PROVE  RefusalsKept'
<1> DEFINE w == t[1]
<1>1. w \in Workers  BY TasksFacts
<1>2. /\ pc[t] = "sent" /\ pc' = [pc EXCEPT ![t] = "executed"]
      /\ reply' = [reply EXCEPT ![t] = ScriptReply(redis')]
      /\ UNCHANGED <<deque, reserved, redis_remaining, snapshot_fresh, reply_misses,
                     snapshot_misses>>
  BY DEF ExecScript, quotaVars, boundVars, refundVars
<1>3. /\ redis'["5h"] = redis["5h"] + flush[t] /\ flush[t] \in Nat
      /\ redis' \in [Windows -> Nat] /\ redis["5h"] \in Nat /\ redis'["5h"] \in Nat
      /\ Limit["5h"] \in Nat
  BY RefusalTypes DEF ExecScript, Flushed, LocalInv, TypeOK
<1>4. \A u \in Tasks : reply'[u].rem \in Nat /\ reply_misses[u] \in Nat
  <2>1. \A u \in Tasks : reply'[u].rem \in Nat  BY DEF LocalInv, TypeOK
  <2>2. QED  BY <2>1, RefusalTypes DEF LocalInv
<1>5. ASSUME NEW u \in Tasks, pc'[u] = "executed"
      PROVE  Limit["5h"] <= reply'[u].rem + redis'["5h"] + reply_misses'[u]
  <2>1. CASE u = t
    <3>1. reply'[t] = ScriptReply(redis')  BY <1>2 DEF LocalInv, TypeOK
    <3>2. Limit["5h"] <= reply'[t].rem + redis'["5h"]  BY <1>3, <3>1, ScriptRefusal
    <3>3. reply_misses'[t] = reply_misses[t] /\ reply_misses[t] \in Nat
      BY <1>2, <1>4
    <3>4. reply'[t].rem \in Nat  BY <1>4
    <3>5. QED  BY <1>3, <2>1, <3>2, <3>3, <3>4
  <2>2. CASE u # t
    <3>1. pc[u] = "executed" /\ reply'[u] = reply[u] /\ reply_misses'[u] = reply_misses[u]
      BY <1>2, <1>5, <2>2 DEF LocalInv, TypeOK
    <3>2. Limit["5h"] <= reply[u].rem + redis["5h"] + reply_misses[u]
      BY <3>1 DEF RefusalsKept, AnswersInv
    <3>3. reply[u].rem \in Nat /\ reply_misses[u] \in Nat  BY <1>4, <3>1
    <3>4. QED  BY <1>3, <3>1, <3>2, <3>3
  <2>3. QED  BY <2>1, <2>2
<1>6. Counted'[w] = flush[t] /\ Counted[w] = 0
  <2>1. \A u \in Tasks : u[1] = w /\ InCall(u) => u = t
    BY <1>2 DEF LocalInv, CallInv, InCall
  <2>2. ~Answered(w)  BY <1>2, <2>1 DEF Answered, InCall
  <2>3. Answered(w)'  BY <1>2 DEF Answered, LocalInv, TypeOK
  <2>4. flush[t] = deque[w] + reserved[w]  BY <1>2 DEF LocalInv, CallInv, InCall
  <2>5. QED  BY <1>1, <1>2, <2>2, <2>3, <2>4 DEF Counted
<1>7. \A v \in Workers \ {w} : Counted'[v] = Counted[v]
  <2>1. \A v \in Workers \ {w} : Answered(v)' <=> Answered(v)
    BY <1>2 DEF Answered, LocalInv, TypeOK
  <2>2. QED  BY <1>2, <2>1 DEF Counted
<1>8. ASSUME NEW v \in Workers, snapshot_fresh'[v]
      PROVE  Limit["5h"] + Counted'[v]
               <= redis_remaining'[v] + redis'["5h"] + snapshot_misses'[v]
  <2>1. Limit["5h"] + Counted[v] <= redis_remaining[v] + redis["5h"] + snapshot_misses[v]
    BY <1>2, <1>8 DEF RefusalsKept, SnapshotsInv
  <2>2. /\ Counted[v] \in Nat /\ redis_remaining[v] \in Nat /\ snapshot_misses[v] \in Nat
    BY RefusalTypes DEF LocalInv
  <2>3. Counted'[v] <= Counted[v] + flush[t] /\ Counted'[v] \in Nat
    BY <1>3, <1>6, <1>7, <2>2
  <2>4. QED  BY <1>2, <1>3, <2>1, <2>2, <2>3
<1>9. AnswersInv' /\ SnapshotsInv'  BY <1>5, <1>8 DEF AnswersInv, SnapshotsInv
<1>10. QED  BY <1>9 DEF RefusalsKept

\* The answer becomes the worker's snapshot, and nothing of its deque is counted then.
LEMMA ReceiveRefusals ==
    ASSUME LocalInv, LocalInv', RefusalsKept, NEW t \in Tasks, Receive(t)
    PROVE  RefusalsKept'
<1> DEFINE w == t[1]
<1>1. w \in Workers  BY TasksFacts
<1>2. /\ pc[t] = "executed" /\ redis' = redis
      /\ \E p \in {"denied", "upstream"} : pc' = [pc EXCEPT ![t] = p]
      /\ redis_remaining' = [redis_remaining EXCEPT ![w] = reply[t].rem]
      /\ snapshot_fresh' = [snapshot_fresh EXCEPT ![w] = TRUE]
      /\ snapshot_misses' = [snapshot_misses EXCEPT ![w] = reply_misses[t]]
      /\ reply' = [reply EXCEPT ![t] = NoReply]
      /\ reply_misses' = [reply_misses EXCEPT ![t] = 0]
  BY DEF Receive, ReceiveDeny, ReceiveGrant, StoreSnapshot, EndCall
<1>3. \A v \in Workers \ {w} : deque'[v] = deque[v] /\ reserved'[v] = reserved[v]
  BY DEF Receive, ReceiveDeny, ReceiveGrant, LocalInv, TypeOK
<1>4. ASSUME NEW u \in Tasks, pc'[u] = "executed"
      PROVE  Limit["5h"] <= reply'[u].rem + redis'["5h"] + reply_misses'[u]
  <2>1. /\ pc[u] = "executed" /\ reply'[u] = reply[u]
        /\ reply_misses'[u] = reply_misses[u]
    BY <1>2, <1>4 DEF LocalInv, TypeOK
  <2>2. QED  BY <1>2, <2>1 DEF RefusalsKept, AnswersInv
<1>5. Counted'[w] = 0
  <2>1. \A u \in Tasks : u[1] = w /\ InCall(u) => u = t
    BY <1>2 DEF LocalInv, CallInv, InCall
  <2>2. ~Answered(w)'  BY <1>2, <2>1 DEF Answered, InCall, LocalInv, TypeOK
  <2>3. QED  BY <1>1, <2>2 DEF Counted
<1>6. ASSUME NEW v \in Workers, snapshot_fresh'[v]
      PROVE  Limit["5h"] + Counted'[v]
               <= redis_remaining'[v] + redis'["5h"] + snapshot_misses'[v]
  <2>1. CASE v = w
    <3>1. Limit["5h"] <= reply[t].rem + redis["5h"] + reply_misses[t]
      BY <1>2 DEF RefusalsKept, AnswersInv
    <3>2. redis_remaining'[w] = reply[t].rem /\ snapshot_misses'[w] = reply_misses[t]
      BY <1>1, <1>2 DEF LocalInv, TypeOK
    <3>3. Limit["5h"] \in Nat  BY RefusalTypes DEF LocalInv
    <3>4. QED  BY <1>2, <1>5, <2>1, <3>1, <3>2, <3>3
  <2>2. CASE v # w
    <3>1. /\ snapshot_fresh[v] /\ redis_remaining'[v] = redis_remaining[v]
          /\ snapshot_misses'[v] = snapshot_misses[v]
      BY <1>2, <1>6, <2>2 DEF LocalInv, TypeOK
    <3>2. Answered(v)' <=> Answered(v)
      BY <1>2, <2>2 DEF Answered, LocalInv, TypeOK
    <3>3. Counted'[v] = Counted[v]  BY <1>3, <2>2, <3>2 DEF Counted
    <3>4. QED  BY <1>2, <3>1, <3>3 DEF RefusalsKept, SnapshotsInv
  <2>3. QED  BY <2>1, <2>2
<1>7. AnswersInv' /\ SnapshotsInv'  BY <1>4, <1>6 DEF AnswersInv, SnapshotsInv
<1>8. QED  BY <1>7 DEF RefusalsKept

\* Steps that neither count nor answer, and move no quota.
LEMMA QuietRefusals ==
    ASSUME LocalInv, LocalInv', RefusalsKept,
           UNCHANGED <<redis, deque, reserved, redis_remaining, reply, reply_misses>>,
           \A t \in Tasks : pc'[t] = "executed" <=> pc[t] = "executed",
           \A w \in Workers : snapshot_fresh'[w]
               => snapshot_fresh[w] /\ snapshot_misses'[w] = snapshot_misses[w]
    PROVE  RefusalsKept'
<1>1. \A w \in Workers : Counted'[w] = Counted[w]  BY DEF Counted, Answered
<1>2. /\ redis["5h"] \in Nat /\ \A u \in Tasks : reply_misses[u] \in Nat
      /\ \A w \in Workers : snapshot_misses[w] \in Nat
  BY RefusalTypes DEF LocalInv
<1>3. QED  BY <1>1, <1>2, SnapshotsStep DEF RefusalsKept, LocalInv

LEMMA RefusalsStep ==
    ASSUME LocalInv, LocalInv', RefusalsKept, [Next]_vars, Undisturbed'
    PROVE  RefusalsKept'
<1>1. ASSUME NEW t \in Tasks,
             \/ CheckDenyLocal(t) \/ CheckPrefetch(t) \/ Respond(t) \/ UpstreamOk(t)
             \/ RefundNothing(t) \/ RefundFallback(t) \/ RefundRedis(t)
      PROVE  RefusalsKept'
  <2>1. /\ UNCHANGED <<redis, deque, reserved, redis_remaining, reply, reply_misses,
                       snapshot_fresh, snapshot_misses>>
        /\ \E p \in {"denied", "sent", "idle", "refund5h"} : pc' = [pc EXCEPT ![t] = p]
        /\ pc[t] # "executed"
    BY <1>1 DEF CheckDenyLocal, CheckPrefetch, Respond, UpstreamOk, RefundNothing,
                RefundFallback, RefundRedis, UpstreamFails, quotaVars, callVars, boundVars,
                refundVars
  <2>2. \A u \in Tasks : pc'[u] = "executed" <=> pc[u] = "executed"
    BY <2>1 DEF LocalInv, TypeOK
  <2>3. QED  BY <2>1, <2>2, QuietRefusals
<1>2. ASSUME NEW w \in Workers, SnapshotExpires(w)  PROVE RefusalsKept'
  <2>1. /\ UNCHANGED <<redis, deque, reserved, redis_remaining, reply, reply_misses, pc>>
        /\ \A v \in Workers : snapshot_fresh'[v]
              => snapshot_fresh[v] /\ snapshot_misses'[v] = snapshot_misses[v]
    BY <1>2 DEF SnapshotExpires, callVars, LocalInv, TypeOK
  <2>2. QED  BY <2>1, QuietRefusals
<1>3. UNCHANGED vars => RefusalsKept'
  BY QuietRefusals DEF vars, quotaVars, callVars, boundVars, refundVars
<1>4. QED
  BY <1>1, <1>2, <1>3, UndisturbedFacts, UnitRefusals, ScriptRefusals, ReceiveRefusals,
     RemovalRefusals
  DEF Next, Check, Refund, LocalInv

LEMMA RefusalStep ==
    ASSUME LocalInv, LocalInv', RefusalInv, [Next]_vars
    PROVE  RefusalInv'
<1>1. SUFFICES ASSUME Undisturbed'  PROVE BooksInv' /\ RefusalsKept'
  BY DEF RefusalInv, RefusalsKept
<1>2. Undisturbed  BY <1>1, UndisturbedFacts DEF LocalInv
<1>3. BooksInv /\ RefusalsKept  BY <1>2 DEF RefusalInv, RefusalsKept
<1>4. QED  BY <1>1, <1>3, BooksStepAny, RefusalsStep

LEMMA InitRefusal == Init => RefusalInv
BY InitBooks DEF Init, RefusalInv, AnswersInv, SnapshotsInv

\* Only the script, and only the local check, refuse.
LEMMA WhoRefuses ==
    ASSUME TypeOK, [Next]_vars, NEW t \in Tasks
    PROVE  /\ pc[t] = "sent" /\ pc'[t] = "executed" => ExecScript(t)
           /\ pc[t] = "idle" /\ pc'[t] = "denied" => CheckDenyLocal(t)
<1>1. SUFFICES ASSUME \/ pc[t] = "sent" /\ pc'[t] = "executed"
                      \/ pc[t] = "idle" /\ pc'[t] = "denied"
               PROVE  \/ ExecScript(t) /\ pc[t] = "sent"
                      \/ CheckDenyLocal(t) /\ pc[t] = "idle"
  OBVIOUS
<1>2. PICK u \in Tasks : \/ Check(u) \/ ExecScript(u) \/ Receive(u) \/ Degrade(u)
                         \/ Respond(u) \/ UpstreamOk(u) \/ Refund(u) \/ RefundWindow(u)
                         \/ RefundAborts(u)
  <2>1. ~UNCHANGED vars  BY <1>1 DEF vars
  <2>2. ASSUME NEW w \in Workers, SnapshotExpires(w) \/ EvictState(w) \/ RestartWorker(w)
        PROVE  FALSE
    BY <1>1, <2>2 DEF SnapshotExpires, EvictState, RestartWorker, TypeOK
  <2>3. QED  BY <2>1, <2>2 DEF Next
<1>3. u = t
  BY <1>1, <1>2 DEF Check, CheckDenyLocal, CheckConsume, CheckPrefetch, ExecScript, Receive,
       ReceiveDeny, ReceiveGrant, Degrade, DegradeReject, DegradePassthrough,
       DegradeFallbackAllow, DegradeFallbackReject, Respond, UpstreamOk, Refund,
       RefundNothing, RefundFallback, RefundLocal, RefundRedis, UpstreamFails, RefundWindow,
       RefundAborts, TypeOK
<1>4. CASE ExecScript(t)  BY <1>4 DEF ExecScript
<1>5. CASE CheckDenyLocal(t)  BY <1>5 DEF CheckDenyLocal
<1>6. CASE CheckConsume(t) \/ CheckPrefetch(t)
  BY <1>1, <1>6 DEF CheckConsume, CheckPrefetch, TypeOK
<1>7. CASE Receive(t)  BY <1>1, <1>7 DEF Receive, ReceiveDeny, ReceiveGrant, TypeOK
<1>8. CASE Degrade(t)
  BY <1>1, <1>8 DEF Degrade, DegradeReject, DegradePassthrough, DegradeFallbackAllow,
       DegradeFallbackReject, CallFails, TypeOK
<1>9. CASE Respond(t) \/ UpstreamOk(t) \/ Refund(t)
  BY <1>1, <1>9 DEF Respond, UpstreamOk, Refund, RefundNothing, RefundFallback, RefundLocal,
       RefundRedis, UpstreamFails, TypeOK
<1>10. CASE RefundWindow(t) \/ RefundAborts(t)
  BY <1>1, <1>10 DEF RefundWindow, RefundAborts, RefundStage, TypeOK
<1>11. QED
  BY <1>2, <1>3, <1>4, <1>5, <1>6, <1>7, <1>8, <1>9, <1>10 DEF Check

\* When the script refuses, what may be held against the user has reached a limit.
LEMMA ScriptDeniesRightly ==
    ASSUME LocalInv', BooksInv', NEW t \in Tasks, ExecScript(t), LocalInv,
           reply'[t].reserve = 0
    PROVE  \E i \in Windows : Charged(i)' >= Limit[i]
<1>1. redis' \in [Windows -> Nat] /\ reply'[t] = ScriptReply(redis')
  BY DEF ExecScript, LocalInv, TypeOK
<1>2. PICK i \in Windows : redis'[i] >= Limit[i]  BY <1>1, ScriptRefusal
<1>3. redis'[i] + Total(Unflushed, Workers)' <= Charged(i)'  BY DEF BooksInv
<1>4. (Total(Unflushed, Workers) \in Nat)' /\ (Total(Overtaken, Workers) \in Nat)'
  <2>1. TypeOK'  BY DEF LocalInv
  <2>2. QED  BY <2>1, TotalsType, PTL
<1>5. Charged(i)' \in Int
  <2>1. Cardinality(RefundsDue(i)') \in Nat  BY OwedType, FS_CardinalityType
  <2>2. admitted' \in Int /\ stranded' \in Nat  BY DEF LocalInv, TypeOK
  <2>3. QED  BY <1>4, <2>1, <2>2 DEF Charged
<1>6. Limit[i] \in Nat /\ redis'[i] \in Nat  BY <1>1, BoundConstants
<1>7. QED  BY <1>2, <1>3, <1>4, <1>5, <1>6

\* A worker that refuses alone is right about what Redis counted for it.
LEMMA WorkerDeniesRightly ==
    ASSUME LocalInv, BooksInv, RefusalsKept, NEW t \in Tasks, LocallyExceeded(t[1])
    PROVE  Charged("5h") + snapshot_misses[t[1]] >= Limit["5h"]
<1> DEFINE w == t[1]
           u == Total(Unflushed, Workers)
<1>1. w \in Workers  BY TasksFacts
<1>2. /\ snapshot_fresh[w] /\ deque[w] >= redis_remaining[w]
  BY DEF LocallyExceeded
<1>3. /\ Limit["5h"] \in Nat /\ redis["5h"] \in Nat /\ "5h" \in Windows
      /\ Counted[w] \in Nat /\ redis_remaining[w] \in Nat /\ snapshot_misses[w] \in Nat
      /\ deque[w] \in Nat /\ reserved[w] \in Nat
  BY <1>1, RefusalTypes DEF LocalInv, TypeOK
<1>4. Limit["5h"] + Counted[w] <= redis_remaining[w] + redis["5h"] + snapshot_misses[w]
  BY <1>1, <1>2 DEF RefusalsKept, SnapshotsInv
<1>5. deque[w] <= Counted[w] + u /\ u \in Nat
  <2>1. /\ \A v \in Workers : Unflushed[v] \in Nat
        /\ u \in Nat
    BY CountersType, TotalsType DEF LocalInv
  <2>2. Unflushed[w] <= u  BY <1>1, <2>1, TasksFacts, TotalPositive
  <2>3. deque[w] <= Counted[w] + Unflushed[w] /\ Unflushed[w] \in Nat
    BY <1>1, <1>3, <2>1 DEF Counted, Unflushed
  <2> HIDE DEF u
  <2>4. QED  BY <1>3, <2>1, <2>2, <2>3
<1>6. redis["5h"] + u <= Charged("5h")  BY <1>3 DEF BooksInv
<1>7. Charged("5h") \in Int
  <2>1. Cardinality(RefundsDue("5h")) \in Nat  BY <1>3, OwedType, FS_CardinalityType
  <2>2. admitted \in Int /\ stranded \in Nat /\ Total(Overtaken, Workers) \in Nat
    BY TotalsType DEF LocalInv, TypeOK
  <2>3. QED  BY <2>1, <2>2 DEF Charged
<1> HIDE DEF w, u
<1>8. Charged("5h") + snapshot_misses[w] >= Limit["5h"]
  BY <1>2, <1>3, <1>4, <1>5, <1>6, <1>7
<1>9. QED  BY <1>8 DEF w

\* Nobody is refused below the limits, whatever refunds, flushes and stale snapshots do to
\* each other, as long as no Redis call fails, no worker loses its state and a worker makes
\* one prefetch at a time.
THEOREM NoFalseDenialHolds == ASSUME NoOverlap PROVE Spec => NoFalseDenial
<1> DEFINE Refused ==
      Undisturbed => \A t \in Tasks :
          /\ pc[t] = "sent" /\ pc'[t] = "executed" /\ reply'[t].reserve = 0
                => \E i \in Windows : Charged(i)' >= Limit[i]
          /\ pc[t] = "idle" /\ pc'[t] = "denied"
                => Charged("5h") + snapshot_misses[t[1]] >= Limit["5h"]
<1>1. LocalInv /\ [Next]_vars => LocalInv'  BY NextLocal
<1>2. LocalInv /\ RefusalInv /\ [Next]_vars => RefusalInv'  BY <1>1, RefusalStep
<1>3. LocalInv /\ RefusalInv /\ [Next]_vars => Refused
  <2>1. SUFFICES ASSUME LocalInv, RefusalInv, [Next]_vars, Undisturbed, NEW t \in Tasks
                 PROVE  /\ pc[t] = "sent" /\ pc'[t] = "executed" /\ reply'[t].reserve = 0
                              => \E i \in Windows : Charged(i)' >= Limit[i]
                        /\ pc[t] = "idle" /\ pc'[t] = "denied"
                              => Charged("5h") + snapshot_misses[t[1]] >= Limit["5h"]
    OBVIOUS
  <2>2. LocalInv' /\ RefusalInv'  BY <1>1, <1>2, <2>1
  <2>3. ASSUME pc[t] = "sent", pc'[t] = "executed", reply'[t].reserve = 0
        PROVE  \E i \in Windows : Charged(i)' >= Limit[i]
    <3>1. ExecScript(t)  BY <2>1, <2>3, WhoRefuses DEF LocalInv
    <3>2. Undisturbed'  BY <2>1, <3>1 DEF ExecScript, boundVars, lossVars, Undisturbed
    <3>3. BooksInv'  BY <2>2, <3>2 DEF RefusalInv
    <3>4. QED  BY <2>1, <2>2, <2>3, <3>1, <3>3, ScriptDeniesRightly
  <2>4. ASSUME pc[t] = "idle", pc'[t] = "denied"
        PROVE  Charged("5h") + snapshot_misses[t[1]] >= Limit["5h"]
    <3>1. CheckDenyLocal(t)  BY <2>1, <2>4, WhoRefuses DEF LocalInv
    <3>2. LocallyExceeded(t[1])  BY <3>1 DEF CheckDenyLocal
    <3>3. BooksInv /\ RefusalsKept  BY <2>1 DEF RefusalInv, RefusalsKept
    <3>4. QED  BY <2>1, <3>2, <3>3, WorkerDeniesRightly
  <2>5. QED  BY <2>3, <2>4
<1>4. Init => LocalInv /\ RefusalInv  BY InitLocal, InitRefusal
<1>5. Spec => [][Refused]_vars  BY <1>1, <1>2, <1>3, <1>4, PTL DEF Spec
<1>6. QED  BY <1>5 DEF NoFalseDenial

=============================================================================
