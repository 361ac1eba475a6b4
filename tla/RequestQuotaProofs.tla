-------------------------- MODULE RequestQuotaProofs --------------------------
(***************************************************************************)
(* Proofs about RequestQuota for every number of workers and slots, every  *)
(* policy and every batch size: the type invariant; that no admission is   *)
(* forgotten, that the local check never hides prefetched quota, the       *)
(* documented bound on the overshoot, and that the limiter implements the  *)
(* ledger, the last four for workers whose prefetches do not overlap       *)
(* (MaxPrefetch = 1).  Module RefusalProofs adds that it charges and       *)
(* refuses nobody wrongly.                                                 *)
(***************************************************************************)
EXTENDS RequestQuota, TotalsProofs

-----------------------------------------------------------------------------
(* The script and the helpers *)

LEMMA BatchType == Batch \in Nat \ {0}
BY QuotaAssumption DEF QuotaAssumption, Batch, Max2

\* What the script promises for any counts it finds: it prefetches at most a batch and
\* never more than any window has left, and it reports what the 5h window has left.
LEMMA ScriptReplyFacts ==
    ASSUME NEW count \in [Windows -> Nat]
    PROVE  LET r == ScriptReply(count) IN
           /\ r \in [reserve : Nat, rem : Nat]
           /\ r.reserve <= Batch
           /\ r.reserve <= r.rem
           /\ r.rem <= Limit["5h"]
           /\ r.reserve = 0 => r.rem \in {0, Limit["5h"]}
           /\ r.reserve > 0 => \A i \in Windows : count[i] + r.reserve <= Limit[i]
<1> DEFINE r == ScriptReply(count)
<1>1. Limit \in [Windows -> Nat \ {0}]  BY QuotaAssumption DEF QuotaAssumption
<1>2. "5h" \in Windows /\ "7d" \in Windows /\ "30d" \in Windows  BY DEF Windows
<1>3. CASE AnyExceeded(count)
  BY <1>1, <1>2, <1>3, BatchType DEF ScriptReply
<1>4. CASE ~AnyExceeded(count)
  <2>1. \A i \in Windows : /\ count[i] \in Nat /\ Limit[i] \in Nat
                           /\ count[i] < Limit[i]
    BY <1>1, <1>4 DEF AnyExceeded, Exceeded
  <2>2. /\ Avail(count) \in Nat \ {0}
        /\ Avail(count) <= Limit["5h"] - count["5h"]
        /\ Avail(count) <= Limit["7d"] - count["7d"]
        /\ Avail(count) <= Limit["30d"] - count["30d"]
    BY <1>2, <2>1 DEF Avail, Min2
  <2>3. r = [reserve |-> Min2(Batch, Avail(count)), rem |-> Limit["5h"] - count["5h"]]
    BY <1>4 DEF ScriptReply
  <2>4. /\ Min2(Batch, Avail(count)) \in Nat \ {0}
        /\ Min2(Batch, Avail(count)) <= Batch
        /\ Min2(Batch, Avail(count)) <= Avail(count)
    BY <2>2, BatchType DEF Min2
  <2>5. \A i \in Windows : count[i] + r.reserve <= Limit[i]
    BY <2>1, <2>2, <2>3, <2>4 DEF Windows
  <2>6. QED  BY <1>2, <2>1, <2>2, <2>3, <2>4, <2>5
<1>5. QED  BY <1>3, <1>4

LEMMA Min2OfSmaller == \A a, b \in Nat : a <= b => Min2(a, b) = a
BY DEF Min2

LEMMA NewestRemovedType == \A n \in Nat : NewestRemoved(n) \in Nat
BY DEF NewestRemoved, Max2

-----------------------------------------------------------------------------
(* Types *)

LEMMA InitType == Init => TypeOK
<1> SUFFICES ASSUME Init PROVE TypeOK
  OBVIOUS
<1>1. Limit["5h"] \in Nat
  BY QuotaAssumption DEF QuotaAssumption, Windows
<1>2. NoReply \in [reserve : Nat, rem : Nat]
  BY DEF NoReply
<1>3. "idle" \in Pcs
  BY DEF Pcs
<1>4. QED  BY <1>1, <1>2, <1>3 DEF Init, TypeOK

LEMMA MissesType ==
    ASSUME TypeOK, MissRemoval
    PROVE  reply_misses' \in [Tasks -> Nat] /\ snapshot_misses' \in [Workers -> Nat]
<1>1. reply_misses \in [Tasks -> Nat] /\ snapshot_misses \in [Workers -> Nat]
  BY DEF TypeOK
<1>2. \A t \in Tasks : reply_misses[t] \in Nat /\ reply_misses[t] + 1 \in Nat  BY <1>1
<1>3. \A w \in Workers : snapshot_misses[w] \in Nat /\ snapshot_misses[w] + 1 \in Nat
  BY <1>1
<1>4. QED  BY <1>2, <1>3 DEF MissRemoval

LEMMA NextType == TypeOK /\ [Next]_vars => TypeOK'
<1> SUFFICES ASSUME TypeOK, [Next]_vars PROVE TypeOK'
  OBVIOUS
<1> USE DEF TypeOK, vars, quotaVars, callVars, boundVars, lossVars, refundVars
<1>1. /\ \A t \in Tasks : t[1] \in Workers
      /\ {"idle", "sent", "executed", "upstream", "denied", "refund5h"} \subseteq Pcs
      /\ NoReply \in [reserve : Nat, rem : Nat]
      /\ Limit["5h"] \in Nat
  BY QuotaAssumption DEF Tasks, Pcs, RefundStage, NoReply, QuotaAssumption, Windows
<1>2. ASSUME NEW t \in Tasks, Check(t) PROVE TypeOK'
  <2>1. CASE CheckDenyLocal(t)  BY <1>1, <2>1 DEF CheckDenyLocal
  <2>2. CASE CheckConsume(t)  BY <1>1, <2>2 DEF CheckConsume
  <2>3. CASE CheckPrefetch(t)
    BY <1>1, <2>3, QuotaAssumption DEF CheckPrefetch, Min2, QuotaAssumption
  <2>4. QED  BY <1>2, <2>1, <2>2, <2>3 DEF Check
<1>3. ASSUME NEW t \in Tasks, ExecScript(t) PROVE TypeOK'
  <2>1. Flushed(redis, flush[t]) \in [Windows -> Nat]  BY DEF Flushed
  <2>2. ScriptReply(redis') \in [reserve : Nat, rem : Nat]
    BY <1>3, <2>1, ScriptReplyFacts DEF ExecScript
  <2>3. QED  BY <1>1, <1>3, <2>1, <2>2 DEF ExecScript
<1>4. ASSUME NEW t \in Tasks, Receive(t) PROVE TypeOK'
  <2>1. CountStranded(t) => stranded' \in Nat  BY <1>1 DEF CountStranded, Max2
  <2>2. CASE ReceiveDeny(t)
    BY <1>1, <2>1, <2>2 DEF ReceiveDeny, StoreSnapshot, EndCall
  <2>3. CASE ReceiveGrant(t)
    BY <1>1, <2>1, <2>3 DEF ReceiveGrant, ReserveLeft, StoreSnapshot, EndCall
  <2>4. QED  BY <1>4, <2>2, <2>3 DEF Receive
<1>5. ASSUME NEW t \in Tasks, Degrade(t) PROVE TypeOK'
  <2>1. CASE DegradeReject(t)  BY <1>1, <2>1 DEF DegradeReject, CallFails, EndCall
  <2>2. CASE DegradePassthrough(t)
    BY <1>1, <2>2 DEF DegradePassthrough, CallFails, EndCall
  <2>3. CASE DegradeFallbackAllow(t)
    BY <1>1, <2>3 DEF DegradeFallbackAllow, CallFails, EndCall
  <2>4. CASE DegradeFallbackReject(t)
    BY <1>1, <2>4 DEF DegradeFallbackReject, CallFails, EndCall
  <2>5. QED  BY <1>5, <2>1, <2>2, <2>3, <2>4 DEF Degrade
<1>6. ASSUME NEW t \in Tasks, Respond(t) \/ UpstreamOk(t) PROVE TypeOK'
  <2>1. CASE Respond(t)  BY <1>1, <2>1 DEF Respond
  <2>2. CASE UpstreamOk(t)  BY <1>1, <2>2 DEF UpstreamOk
  <2>3. QED  BY <1>6, <2>1, <2>2
<1>7. ASSUME NEW t \in Tasks, Refund(t) PROVE TypeOK'
  <2>1. CASE RefundNothing(t)  BY <1>1, <2>1 DEF RefundNothing, UpstreamFails
  <2>2. CASE RefundFallback(t)
    BY <1>1, <2>2, NewestRemovedType DEF RefundFallback, UpstreamFails
  <2>3. CASE RefundLocal(t)  BY <1>1, <2>3 DEF RefundLocal, UpstreamFails
  <2>4. CASE RefundRedis(t)  BY <1>1, <2>4 DEF RefundRedis, UpstreamFails
  <2>5. QED  BY <1>7, <2>1, <2>2, <2>3, <2>4 DEF Refund
<1>8. ASSUME NEW t \in Tasks, RefundWindow(t) PROVE TypeOK'
  <2>1. NextStage[pc[t]] \in Pcs /\ RefundStage[pc[t]] \in Windows
    BY <1>8 DEF RefundWindow, RefundStage, NextStage, Pcs, Windows
  <2>2. pc' \in [Tasks -> Pcs]
    BY <1>8, <2>1 DEF RefundWindow
  <2>3. redis' \in [Windows -> Nat]
    <3>1. NewestRemoved(redis[RefundStage[pc[t]]]) \in Nat
      BY <2>1, NewestRemovedType
    <3>2. redis' = [redis EXCEPT ![RefundStage[pc[t]]] = NewestRemoved(@)]
      BY <1>8 DEF RefundWindow
    <3>3. QED  BY <2>1, <3>1, <3>2
  <2>4. reply_misses' \in [Tasks -> Nat] /\ snapshot_misses' \in [Workers -> Nat]
    <3>1. MissRemoval \/ UNCHANGED <<reply_misses, snapshot_misses>>
      BY <1>8 DEF RefundWindow
    <3>2. QED  BY <3>1, MissesType
  <2>5. QED  BY <1>8, <2>2, <2>3, <2>4 DEF RefundWindow
<1>9. ASSUME NEW t \in Tasks, RefundAborts(t) PROVE TypeOK'
  BY <1>1, <1>9 DEF RefundAborts
<1>10. ASSUME NEW w \in Workers, SnapshotExpires(w) PROVE TypeOK'
  BY <1>10 DEF SnapshotExpires
<1>11. ASSUME NEW w \in Workers, EvictState(w) PROVE TypeOK'
  BY <1>1, <1>11 DEF EvictState, ResetQuotaState
<1>12. ASSUME NEW w \in Workers, RestartWorker(w) PROVE TypeOK'
  BY <1>1, <1>12 DEF RestartWorker, ResetQuotaState
<1>13. CASE UNCHANGED vars  BY <1>13
<1>14. QED
  BY <1>2, <1>3, <1>4, <1>5, <1>6, <1>7, <1>8, <1>9, <1>10, <1>11, <1>12, <1>13 DEF Next

\* The counters stay natural numbers: neither a refund on an empty ZSET or deque nor
\* an answer without quota ever makes one negative.
THEOREM TypeCorrect == Spec => []TypeOK
BY InitType, NextType, PTL DEF Spec

-----------------------------------------------------------------------------
(* Workers whose prefetches do not overlap: what a worker knows locally *)

InCall(t) == pc[t] \in {"sent", "executed"}

\* A worker has at most one call in flight, and while it is, what was flushed is still
\* in the deque or was refunded into reserved; an answer keeps to batch and policy.
CallInv ==
    /\ \A t, u \in Tasks : InCall(t) /\ InCall(u) /\ t[1] = u[1] => t = u
    /\ \A t \in Tasks : InCall(t) => flush[t] = deque[t[1]] + reserved[t[1]]
    /\ \A t \in Tasks : pc[t] # "executed" => reply[t].reserve = 0
    /\ \A t \in Tasks : /\ reply[t].reserve <= Batch
                         /\ reply[t].reserve <= reply[t].rem
                         /\ reply[t].rem <= Limit["5h"]
    /\ \A t \in Tasks : reply[t].reserve = 0 => reply[t].rem \in {0, Limit["5h"]}

\* What a worker spent since its last flush and may still spend fits in one batch and
\* in the remainder of the 5h window it knows of.
QuotaInv ==
    \A w \in Workers :
        /\ deque[w] + reserved[w] <= Batch
        /\ deque[w] + reserved[w] <= Limit["5h"]
        /\ redis_remaining[w] > 0 => deque[w] + reserved[w] <= redis_remaining[w]

LocalInv == TypeOK /\ CallInv /\ QuotaInv

NoOverlap == MaxPrefetch = 1 /\ Batch <= MaxFlush

LEMMA InitLocal == Init => LocalInv
<1> SUFFICES ASSUME Init PROVE CallInv /\ QuotaInv
  BY InitType DEF LocalInv
<1>1. Limit["5h"] \in Nat
  BY QuotaAssumption DEF QuotaAssumption, Windows
<1>2. \A t \in Tasks : t[1] \in Workers
  BY DEF Tasks
<1>3. QED  BY <1>1, <1>2, BatchType DEF Init, CallInv, QuotaInv, InCall, NoReply

\* No slot of w is in a call when CheckPrefetch lets a new one start.
LEMMA NoOtherCall ==
    ASSUME NoOverlap, NEW w \in Workers, Cardinality(InFlight(w)) < MaxPrefetch
    PROVE  \A t \in Tasks : t[1] = w => ~InCall(t)
<1>1. IsFiniteSet(Tasks)
  BY QuotaAssumption, FS_Product DEF QuotaAssumption, Tasks
<1>2. IsFiniteSet(InFlight(w))
  BY <1>1, FS_Subset DEF InFlight
<1>3. Cardinality(InFlight(w)) = 0
  BY <1>2, FS_CardinalityType DEF NoOverlap
<1>4. InFlight(w) = {}
  BY <1>2, <1>3, FS_EmptySet
<1>5. QED  BY <1>4 DEF InFlight, InCall

LEMMA NextLocal == ASSUME NoOverlap PROVE LocalInv /\ [Next]_vars => LocalInv'
<1> SUFFICES ASSUME LocalInv, [Next]_vars PROVE CallInv' /\ QuotaInv'
  BY NextType DEF LocalInv
<1> USE DEF vars, quotaVars, callVars, boundVars, lossVars, LocalInv
<1>0. TypeOK'  BY NextType
<1>1. /\ \A t \in Tasks : t[1] \in Workers
      /\ Limit["5h"] \in Nat
      /\ Batch \in Nat
  BY QuotaAssumption, BatchType DEF Tasks, QuotaAssumption, Windows
<1> USE DEF TypeOK
<1>2. ASSUME NEW t \in Tasks, CheckDenyLocal(t) PROVE CallInv' /\ QuotaInv'
  BY <1>1, <1>2 DEF CheckDenyLocal, CallInv, QuotaInv, InCall
<1>3. ASSUME NEW t \in Tasks, CheckConsume(t) PROVE CallInv' /\ QuotaInv'
  <2>1. \A w \in Workers : deque'[w] + reserved'[w] = deque[w] + reserved[w]
    BY <1>1, <1>3 DEF CheckConsume
  <2>2. CallInv'
    BY <1>1, <1>3, <2>1 DEF CheckConsume, CallInv, InCall
  <2>3. QuotaInv'
    BY <1>3, <2>1 DEF CheckConsume, QuotaInv
  <2>4. QED  BY <2>2, <2>3
<1>4. ASSUME NEW t \in Tasks, CheckPrefetch(t) PROVE CallInv' /\ QuotaInv'
  <2>1. \A u \in Tasks : u[1] = t[1] => ~InCall(u)
    BY <1>1, <1>4, NoOtherCall DEF CheckPrefetch
  <2>2. flush'[t] = deque[t[1]] + reserved[t[1]]
    <3>1. flush'[t] = Min2(deque[t[1]], MaxFlush) /\ reserved[t[1]] = 0
      BY <1>4 DEF CheckPrefetch
    <3>2. deque[t[1]] \in Nat /\ deque[t[1]] <= MaxFlush
      BY <1>1, <3>1, QuotaAssumption DEF QuotaInv, NoOverlap, QuotaAssumption
    <3>3. MaxFlush \in Nat  BY QuotaAssumption DEF QuotaAssumption
    <3>4. Min2(deque[t[1]], MaxFlush) = deque[t[1]]  BY <3>2, <3>3, Min2OfSmaller
    <3>5. QED  BY <3>1, <3>2, <3>4
  <2>3. CallInv'
    BY <1>1, <1>4, <2>1, <2>2 DEF CheckPrefetch, CallInv, InCall
  <2>4. QuotaInv'
    BY <1>4 DEF CheckPrefetch, QuotaInv
  <2>5. QED  BY <2>3, <2>4
<1>5. ASSUME NEW t \in Tasks, ExecScript(t) PROVE CallInv' /\ QuotaInv'
  <2>1. Flushed(redis, flush[t]) \in [Windows -> Nat]  BY DEF Flushed
  <2>2. /\ reply'[t].reserve <= Batch
        /\ reply'[t].reserve <= reply'[t].rem
        /\ reply'[t].rem <= Limit["5h"]
        /\ reply'[t].reserve = 0 => reply'[t].rem \in {0, Limit["5h"]}
    BY <1>5, <2>1, ScriptReplyFacts DEF ExecScript
  <2>3. CallInv'
    BY <1>1, <1>5, <2>2 DEF ExecScript, CallInv, InCall
  <2>4. QuotaInv'
    BY <1>5 DEF ExecScript, QuotaInv
  <2>5. QED  BY <2>3, <2>4
<1>6. ASSUME NEW t \in Tasks, ReceiveDeny(t) PROVE CallInv' /\ QuotaInv'
  <2>1. \A u \in Tasks : InCall(u)' => InCall(u) /\ u[1] # t[1]
    BY <1>1, <1>6 DEF ReceiveDeny, CallInv, InCall
  <2>2. CallInv'
    BY <1>1, <1>6, <2>1
    DEF ReceiveDeny, StoreSnapshot, EndCall, NoReply, CallInv, InCall
  <2>3. reply[t].rem = 0 \/ reply[t].rem = Limit["5h"]
    BY <1>6 DEF ReceiveDeny, CallInv
  <2>4. QuotaInv'
    BY <1>1, <1>6, <2>3 DEF ReceiveDeny, StoreSnapshot, QuotaInv
  <2>5. QED  BY <2>2, <2>4
<1>7. ASSUME NEW t \in Tasks, ReceiveGrant(t) PROVE CallInv' /\ QuotaInv'
  <2>1. \A u \in Tasks : InCall(u)' => InCall(u) /\ u[1] # t[1]
    BY <1>1, <1>7 DEF ReceiveGrant, CallInv, InCall
  <2>2. CallInv'
    BY <1>1, <1>7, <2>1
    DEF ReceiveGrant, StoreSnapshot, EndCall, NoReply, CallInv, InCall
  <2>3. /\ deque'[t[1]] + reserved'[t[1]] = reply[t].reserve
        /\ redis_remaining'[t[1]] = reply[t].rem
        /\ reply[t].reserve \in Nat /\ reply[t].rem \in Nat
    BY <1>1, <1>7 DEF ReceiveGrant, ReserveLeft, StoreSnapshot
  <2>4. QuotaInv'
    BY <1>1, <1>7, <2>3 DEF ReceiveGrant, StoreSnapshot, QuotaInv, CallInv
  <2>5. QED  BY <2>2, <2>4
<1>8. ASSUME NEW t \in Tasks, Degrade(t) PROVE CallInv' /\ QuotaInv'
  <2>1. /\ CallFails(t)
        /\ \E p \in {"denied", "upstream"} : pc' = [pc EXCEPT ![t] = p]
    BY <1>8 DEF Degrade, DegradeReject, DegradePassthrough, DegradeFallbackAllow,
                DegradeFallbackReject
  <2>2. CallInv'
    BY <1>1, <2>1 DEF CallFails, EndCall, NoReply, CallInv, InCall
  <2>3. QuotaInv'
    BY <2>1 DEF CallFails, QuotaInv
  <2>4. QED  BY <2>2, <2>3
<1>9. ASSUME NEW t \in Tasks,
             \/ Respond(t) \/ UpstreamOk(t) \/ RefundNothing(t) \/ RefundFallback(t)
             \/ RefundRedis(t) \/ RefundAborts(t)
      PROVE  CallInv' /\ QuotaInv'
  <2>1. /\ \E p \in {"idle", "refund5h"} : pc' = [pc EXCEPT ![t] = p]
        /\ ~InCall(t)
        /\ UNCHANGED <<quotaVars, callVars>>
    BY <1>9 DEF Respond, UpstreamOk, RefundNothing, RefundFallback, RefundRedis,
                RefundAborts, UpstreamFails, RefundStage, InCall
  <2>2. QED  BY <1>1, <2>1 DEF CallInv, QuotaInv, InCall
<1>10. ASSUME NEW t \in Tasks, RefundLocal(t) PROVE CallInv' /\ QuotaInv'
  <2>1. \A w \in Workers : deque'[w] + reserved'[w] = deque[w] + reserved[w]
    BY <1>1, <1>10 DEF RefundLocal
  <2>2. CallInv'
    BY <1>1, <1>10, <2>1 DEF RefundLocal, UpstreamFails, CallInv, InCall
  <2>3. QuotaInv'
    BY <1>10, <2>1 DEF RefundLocal, QuotaInv
  <2>4. QED  BY <2>2, <2>3
<1>11. ASSUME NEW t \in Tasks, RefundWindow(t) PROVE CallInv' /\ QuotaInv'
  <2>1. /\ pc[t] \in {"refund5h", "refund7d", "refund30d"}
        /\ NextStage[pc[t]] \in {"refund7d", "refund30d", "idle"}
        /\ pc' = [pc EXCEPT ![t] = NextStage[pc[t]]]
        /\ UNCHANGED <<quotaVars, callVars>>
    BY <1>11 DEF RefundWindow, RefundStage, NextStage
  <2>2. QED  BY <1>1, <2>1 DEF CallInv, QuotaInv, InCall
<1>12. ASSUME NEW w \in Workers, SnapshotExpires(w) PROVE CallInv' /\ QuotaInv'
  BY <1>12 DEF SnapshotExpires, CallInv, QuotaInv, InCall
<1>13. ASSUME NEW w \in Workers, EvictState(w) PROVE CallInv' /\ QuotaInv'
  <2>1. \A t \in Tasks : InCall(t) => t[1] # w
    BY <1>13 DEF EvictState, InFlight, InCall
  <2>2. CallInv'
    BY <1>1, <1>13, <2>1 DEF EvictState, ResetQuotaState, CallInv, InCall
  <2>3. QuotaInv'
    BY <1>1, <1>13 DEF EvictState, ResetQuotaState, QuotaInv
  <2>4. QED  BY <2>2, <2>3
<1>14. ASSUME NEW w \in Workers, RestartWorker(w) PROVE CallInv' /\ QuotaInv'
  <2>1. \A t \in Tasks : /\ InCall(t)' => InCall(t) /\ t[1] # w
                         /\ t[1] = w => reply'[t] = NoReply
                         /\ t[1] # w => /\ pc'[t] = pc[t]
                                        /\ reply'[t] = reply[t]
                                        /\ flush'[t] = flush[t]
    BY <1>14 DEF RestartWorker, InCall
  <2>2. CallInv'
    BY <1>1, <1>14, <2>1 DEF RestartWorker, ResetQuotaState, CallInv, InCall, NoReply
  <2>3. QuotaInv'
    BY <1>1, <1>14 DEF RestartWorker, ResetQuotaState, QuotaInv
  <2>4. QED  BY <2>2, <2>3
<1>15. CASE UNCHANGED vars
  BY <1>15 DEF CallInv, QuotaInv, InCall
<1>16. QED
  BY <1>2, <1>3, <1>4, <1>5, <1>6, <1>7, <1>8, <1>9, <1>10, <1>11, <1>12, <1>13, <1>14,
     <1>15
  DEF Next, Check, Receive, Refund

\* The local 5h check never strikes a worker that still holds prefetched quota.
THEOREM LocalDenyCorrect ==
    ASSUME NoOverlap PROVE Spec => []LocalDenyOnlyWhenExhausted
<1>1. LocalInv => LocalDenyOnlyWhenExhausted
  <2>1. SUFFICES ASSUME LocalInv, NEW w \in Workers, LocallyExceeded(w)
                 PROVE  reserved[w] = 0
    BY DEF LocalDenyOnlyWhenExhausted
  <2>2. deque[w] \in Nat /\ reserved[w] \in Nat /\ redis_remaining[w] \in Nat
    BY <2>1 DEF LocalInv, TypeOK
  <2>3. QED  BY <2>1, <2>2 DEF LocalInv, QuotaInv, LocallyExceeded
<1>2. QED  BY <1>1, InitLocal, NextLocal, PTL DEF Spec

-----------------------------------------------------------------------------
(* Totals over the workers, and how a step of one worker changes them *)

Grants == [t \in Tasks |-> reply[t].reserve]
\* The quota an answer on its way to w grants.
Granted == [w \in Workers |-> Total(Grants, {w} \X Slots)]
\* The quota w can spend without asking Redis again ...
Spendable == [w \in Workers |-> reserved[w] + Granted[w]]
\* ... and what it may add to what Redis counts before its next answer.
Claim == [w \in Workers |-> IF Answered(w) THEN Granted[w] ELSE deque[w] + reserved[w]]

\* Only worker w and its tasks take part in this step.
OnlyWorker(w) ==
    /\ \A t \in Tasks : t[1] # w => pc'[t] = pc[t] /\ reply'[t] = reply[t]
    /\ \A v \in Workers \ {w} : deque'[v] = deque[v] /\ reserved'[v] = reserved[v]

LEMMA TasksFacts == /\ IsFiniteSet(Workers) /\ IsFiniteSet(Slots) /\ IsFiniteSet(Tasks)
                    /\ \A t \in Tasks : t[1] \in Workers /\ t \in {t[1]} \X Slots
                    /\ \A w \in Workers : /\ {w} \X Slots \subseteq Tasks
                                           /\ IsFiniteSet({w} \X Slots)
<1>1. IsFiniteSet(Workers) /\ IsFiniteSet(Slots)
  BY QuotaAssumption DEF QuotaAssumption
<1>2. IsFiniteSet(Tasks)  BY <1>1, FS_Product DEF Tasks
<1>3. \A w \in Workers : IsFiniteSet({w} \X Slots)
  BY <1>1, FS_Singleton, FS_Product
<1>4. QED  BY <1>1, <1>2, <1>3 DEF Tasks

LEMMA GrantedType == ASSUME TypeOK PROVE Granted \in [Workers -> Nat]
<1>1. \A t \in Tasks : Grants[t] \in Nat  BY DEF Grants, TypeOK
<1>2. ASSUME NEW w \in Workers PROVE Total(Grants, {w} \X Slots) \in Nat
  <2>1. \A t \in {w} \X Slots : Grants[t] \in Nat  BY <1>1, TasksFacts
  <2>2. QED  BY <2>1, TasksFacts, TotalType
<1>3. QED  BY <1>2 DEF Granted

LEMMA CountersType ==
    ASSUME TypeOK
    PROVE  /\ Unflushed \in [Workers -> Nat] /\ Overtaken \in [Workers -> Nat]
           /\ Spendable \in [Workers -> Nat] /\ Claim \in [Workers -> Nat]
BY GrantedType DEF TypeOK, Unflushed, Overtaken, Spendable, Claim

\* An answer that no task of w holds grants w nothing.
NothingWhenUnanswered == \A w \in Workers : ~Answered(w) => Granted[w] = 0

LEMMA GrantedWhenUnanswered == LocalInv => NothingWhenUnanswered
<1> SUFFICES ASSUME LocalInv, NEW w \in Workers, ~Answered(w) PROVE Granted[w] = 0
  BY DEF NothingWhenUnanswered
<1>1. \A t \in {w} \X Slots : Grants[t] = 0
  BY TasksFacts DEF LocalInv, CallInv, Answered, Grants
<1>2. Total(Grants, {w} \X Slots) <= Cardinality({w} \X Slots) * 0
  BY <1>1, TasksFacts, TotalBound
<1>3. Cardinality({w} \X Slots) \in Nat  BY TasksFacts, FS_CardinalityType
<1>4. Granted[w] \in Nat  BY GrantedType DEF LocalInv
<1>5. QED  BY <1>2, <1>3, <1>4 DEF Granted

\* A step that changes one task's answer changes its worker's grant by as much.
LEMMA GrantedChange ==
    ASSUME TypeOK, TypeOK', NEW t \in Tasks,
           \A u \in Tasks \ {t} : reply'[u] = reply[u]
    PROVE  Granted'[t[1]] = Granted[t[1]] - reply[t].reserve + reply'[t].reserve
<1> DEFINE S == {t[1]} \X Slots
<1>1. IsFiniteSet(S) /\ t \in S /\ S \subseteq Tasks  BY TasksFacts
<1>2. \A u \in Tasks : Grants[u] = reply[u].reserve /\ Grants'[u] = reply'[u].reserve
  BY DEF Grants
<1>3. \A u \in S : Grants[u] \in Nat  BY <1>1, <1>2 DEF TypeOK
<1>4. \A u \in S : Grants'[u] \in Nat  BY <1>1, <1>2 DEF TypeOK
<1>5. \A u \in S \ {t} : Grants'[u] = Grants[u]  BY <1>1, <1>2
<1> HIDE DEF S
<1>6. Total(Grants', S) = Total(Grants, S) - Grants[t] + Grants'[t]
  BY <1>1, <1>3, <1>4, <1>5, TotalChange
<1>7. QED  BY <1>2, <1>6, TasksFacts DEF Granted, S

LEMMA GrantedSame ==
    ASSUME NEW w \in Workers, \A t \in Tasks : t[1] = w => reply'[t] = reply[t]
    PROVE  Granted'[w] = Granted[w]
<1>1. \A t \in {w} \X Slots : Grants'[t] = Grants[t]
  BY TasksFacts DEF Grants
<1>2. Total(Grants', {w} \X Slots) = Total(Grants, {w} \X Slots)
  BY <1>1, TotalSame
<1>3. QED  BY <1>2 DEF Granted

LEMMA LocalChange ==
    ASSUME TypeOK, TypeOK', NEW w \in Workers, OnlyWorker(w)
    PROVE  /\ Total(Unflushed, Workers)'
                = Total(Unflushed, Workers) - Unflushed[w] + Unflushed'[w]
           /\ Total(Overtaken, Workers)'
                = Total(Overtaken, Workers) - Overtaken[w] + Overtaken'[w]
           /\ Total(Spendable, Workers)'
                = Total(Spendable, Workers) - Spendable[w] + Spendable'[w]
           /\ \A v \in Workers \ {w} : Granted'[v] = Granted[v]
<1>1. \A v \in Workers \ {w} : Answered(v)' <=> Answered(v)
  BY DEF OnlyWorker, Answered
<1>2. \A v \in Workers \ {w} : Granted'[v] = Granted[v]
  BY GrantedSame DEF OnlyWorker
<1>3. \A v \in Workers \ {w} : /\ Unflushed'[v] = Unflushed[v]
                                /\ Overtaken'[v] = Overtaken[v]
  BY <1>1 DEF OnlyWorker, Unflushed, Overtaken
<1>4. \A v \in Workers \ {w} : Spendable'[v] = Spendable[v]
  BY <1>2 DEF OnlyWorker, Spendable
<1>5. /\ \A v \in Workers : Unflushed[v] \in Nat /\ Overtaken[v] \in Nat
      /\ \A v \in Workers : Spendable[v] \in Nat
  BY CountersType
<1>6. /\ \A v \in Workers : Unflushed'[v] \in Nat /\ Overtaken'[v] \in Nat
      /\ \A v \in Workers : Spendable'[v] \in Nat
  <2>1. /\ (Unflushed \in [Workers -> Nat])' /\ (Overtaken \in [Workers -> Nat])'
        /\ (Spendable \in [Workers -> Nat])'
    BY CountersType, PTL
  <2>2. QED  BY <2>1
<1>7. IsFiniteSet(Workers)  BY TasksFacts
<1>8. Total(Unflushed', Workers) = Total(Unflushed, Workers) - Unflushed[w] + Unflushed'[w]
  BY <1>3, <1>5, <1>6, <1>7, TotalChange
<1>9. Total(Overtaken', Workers) = Total(Overtaken, Workers) - Overtaken[w] + Overtaken'[w]
  BY <1>3, <1>5, <1>6, <1>7, TotalChange
<1>10. Total(Spendable', Workers) = Total(Spendable, Workers) - Spendable[w] + Spendable'[w]
  BY <1>4, <1>5, <1>6, <1>7, TotalChange
<1>11. QED  BY <1>2, <1>8, <1>9, <1>10

-----------------------------------------------------------------------------
(* No admission is forgotten, and the overshoot is bounded *)

Owed(i) == Cardinality(RefundsDue(i))

\* Whatever is admitted or may still be admitted without Redis stays below the bound.
BoundInv ==
    \A i \in Windows :
        admitted + Total(Spendable, Workers)
            <= Limit[i] + (Cardinality(Workers) - 1) * Batch + dropped

CountInv == EveryAdmissionCounted /\ BoundInv /\ \A w \in Workers : Granted[w] <= Batch

LEMMA TotalsType ==
    ASSUME TypeOK
    PROVE  /\ Total(Unflushed, Workers) \in Nat /\ Total(Overtaken, Workers) \in Nat
           /\ Total(Spendable, Workers) \in Nat /\ Total(Claim, Workers) \in Nat
<1>1. /\ \A v \in Workers : Unflushed[v] \in Nat
      /\ \A v \in Workers : Overtaken[v] \in Nat
      /\ \A v \in Workers : Spendable[v] \in Nat
      /\ \A v \in Workers : Claim[v] \in Nat
  BY CountersType
<1>2. QED  BY <1>1, TasksFacts, TotalType

LEMMA OwedType ==
    ASSUME NEW i \in Windows
    PROVE  /\ Owed(i) \in Nat /\ IsFiniteSet(RefundsDue(i))
           /\ Owed(i)' \in Nat /\ IsFiniteSet(RefundsDue(i)')
<1>1. RefundsDue(i) \in SUBSET Tasks /\ RefundsDue(i)' \in SUBSET Tasks
  BY DEF RefundsDue
<1>2. IsFiniteSet(RefundsDue(i))  BY <1>1, TasksFacts, FS_Subset
<1>3. IsFiniteSet(RefundsDue(i)')  BY <1>1, TasksFacts, FS_Subset
<1>4. Owed(i) \in Nat  BY <1>2, FS_CardinalityType DEF Owed
<1>5. Cardinality(RefundsDue(i)') \in Nat  BY <1>3, FS_CardinalityType
<1>6. QED  BY <1>2, <1>3, <1>4, <1>5 DEF Owed

LEMMA BoundConstants ==
    /\ (Cardinality(Workers) - 1) * Batch \in Int
    /\ \A i \in Windows : Limit[i] \in Nat
<1>1. Cardinality(Workers) \in Nat  BY TasksFacts, FS_CardinalityType
<1>2. QED  BY <1>1, BatchType, QuotaAssumption DEF QuotaAssumption

\* A step of one worker keeps the count if what it adds to the left side is matched.
LEMMA CountStep ==
    ASSUME TypeOK, TypeOK', EveryAdmissionCounted, NEW w \in Workers, OnlyWorker(w),
           \A i \in Windows :
               admitted' - admitted + Owed(i)' - Owed(i) + Overtaken'[w] - Overtaken[w]
                 <= redis'[i] - redis[i] + Unflushed'[w] - Unflushed[w]
                       + dropped' - dropped
    PROVE  EveryAdmissionCounted'
<1> SUFFICES ASSUME NEW i \in Windows
             PROVE  admitted' + Owed(i)' + Total(Overtaken, Workers)'
                      <= redis'[i] + Total(Unflushed, Workers)' + dropped'
  BY DEF EveryAdmissionCounted, Owed
<1> DEFINE u == Total(Unflushed, Workers)
           o == Total(Overtaken, Workers)
<1>1. u' = u - Unflushed[w] + Unflushed'[w] /\ o' = o - Overtaken[w] + Overtaken'[w]
  BY LocalChange
<1>2. /\ u \in Nat /\ o \in Nat /\ Owed(i) \in Nat
      /\ Unflushed[w] \in Nat /\ Overtaken[w] \in Nat
  BY TotalsType, OwedType, CountersType
<1>3. u' \in Nat /\ o' \in Nat /\ Owed(i)' \in Nat
  <2>1. (u \in Nat)' /\ (o \in Nat)'  BY TotalsType, PTL
  <2>2. Owed(i)' \in Nat
    BY OwedType
  <2>3. QED  BY <2>1, <2>2
<1>4. (Unflushed \in [Workers -> Nat])' /\ (Overtaken \in [Workers -> Nat])'
  BY CountersType, PTL
<1>5. Unflushed'[w] \in Nat /\ Overtaken'[w] \in Nat
  BY <1>4
<1>6. admitted + Owed(i) + o <= redis[i] + u + dropped
  BY DEF EveryAdmissionCounted, Owed
<1>7. /\ admitted \in Int /\ admitted' \in Int /\ dropped \in Nat /\ dropped' \in Nat
      /\ redis[i] \in Nat /\ redis'[i] \in Nat
  BY DEF TypeOK
<1> HIDE DEF u, o
<1>8. admitted' + Owed(i)' + o' <= redis'[i] + u' + dropped'
  BY <1>1, <1>2, <1>3, <1>5, <1>6, <1>7
<1>9. QED  BY <1>8 DEF u, o

\* The same for the bound.
LEMMA BoundStep ==
    ASSUME TypeOK, TypeOK', BoundInv, NEW w \in Workers, OnlyWorker(w),
           admitted' - admitted + Spendable'[w] - Spendable[w] <= dropped' - dropped
    PROVE  BoundInv'
<1> SUFFICES ASSUME NEW i \in Windows
             PROVE  admitted' + Total(Spendable, Workers)'
                      <= Limit[i] + (Cardinality(Workers) - 1) * Batch + dropped'
  BY DEF BoundInv
<1> DEFINE s == Total(Spendable, Workers)
           b == (Cardinality(Workers) - 1) * Batch
<1>1. s' = s - Spendable[w] + Spendable'[w]
  BY LocalChange
<1>2. s \in Nat /\ Spendable[w] \in Nat /\ b \in Int /\ Limit[i] \in Nat
  BY TotalsType, CountersType, BoundConstants
<1>3. (Spendable \in [Workers -> Nat])'  BY CountersType, PTL
<1>4. Spendable'[w] \in Nat  BY <1>3
<1>5. admitted + s <= Limit[i] + b + dropped  BY DEF BoundInv
<1>6. admitted \in Int /\ admitted' \in Int /\ dropped \in Nat /\ dropped' \in Nat
  BY DEF TypeOK
<1> HIDE DEF s, b
<1>7. admitted' + s' <= Limit[i] + b + dropped'
  BY <1>1, <1>2, <1>4, <1>5, <1>6
<1>8. QED  BY <1>7 DEF s, b

\* A refund stage is entered and left by the refund's own actions only.
LEMMA OwedSame ==
    ASSUME \A t \in Tasks : pc'[t] = pc[t] \/ {pc[t], pc'[t]} \cap DOMAIN RefundStage = {}
    PROVE  \A i \in Windows : Owed(i)' = Owed(i)
<1> SUFFICES ASSUME NEW i \in Windows PROVE RefundsDue(i)' = RefundsDue(i)
  BY DEF Owed
<1> QED  BY DEF RefundsDue, RefundStage

\* Steps that neither count, spend, answer nor drop anything.
LEMMA QuietStep ==
    ASSUME CountInv, UNCHANGED <<redis, deque, reserved, reply, admitted, dropped>>,
           \A t \in Tasks : pc'[t] = pc[t]
               \/ {pc[t], pc'[t]} \cap (DOMAIN RefundStage \cup {"executed"}) = {}
    PROVE  CountInv'
<1>1. \A i \in Windows : Owed(i)' = Owed(i)  BY OwedSame
<1>2. \A w \in Workers : Answered(w)' <=> Answered(w)  BY DEF Answered
<1>3. /\ \A w \in Workers : Granted'[w] = Granted[w]
      /\ \A w \in Workers : Unflushed'[w] = Unflushed[w]
      /\ \A w \in Workers : Overtaken'[w] = Overtaken[w]
  BY <1>2, GrantedSame DEF Unflushed, Overtaken
<1>4. \A w \in Workers : Spendable'[w] = Spendable[w]  BY <1>3 DEF Spendable
<1>5. /\ Total(Unflushed', Workers) = Total(Unflushed, Workers)
      /\ Total(Overtaken', Workers) = Total(Overtaken, Workers)
      /\ Total(Spendable', Workers) = Total(Spendable, Workers)
  BY <1>3, <1>4, TotalSame
<1>6. EveryAdmissionCounted'  BY <1>1, <1>5 DEF CountInv, EveryAdmissionCounted, Owed
<1>7. BoundInv'  BY <1>5 DEF CountInv, BoundInv
<1>8. QED  BY <1>3, <1>6, <1>7 DEF CountInv

LEMMA InitCount == Init => CountInv
<1> SUFFICES ASSUME Init PROVE CountInv
  OBVIOUS
<1>1. LocalInv  BY InitLocal
<1>2. \A w \in Workers : ~Answered(w)  BY DEF Init, Answered
<1>3. \A w \in Workers : Granted[w] = 0  BY <1>1, <1>2, GrantedWhenUnanswered DEF NothingWhenUnanswered
<1>4. \A w \in Workers : Overtaken[w] = 0 /\ Spendable[w] = 0
  BY <1>2, <1>3 DEF Overtaken, Spendable, Init
<1>5. Cardinality(Workers) \in Nat /\ Cardinality(Workers) # 0
  BY TasksFacts, FS_CardinalityType, FS_EmptySet, QuotaAssumption DEF QuotaAssumption
<1>6. /\ Total(Overtaken, Workers) <= Cardinality(Workers) * 0
      /\ Total(Spendable, Workers) <= Cardinality(Workers) * 0
  BY <1>4, TasksFacts, TotalBound
<1>7. Total(Overtaken, Workers) = 0 /\ Total(Spendable, Workers) = 0
  BY <1>1, <1>5, <1>6, TotalsType DEF LocalInv
<1>8. EveryAdmissionCounted
  <2>1. \A i \in Windows : RefundsDue(i) = {}  BY DEF Init, RefundsDue
  <2>2. \A i \in Windows : Cardinality(RefundsDue(i)) = 0  BY <2>1, FS_EmptySet
  <2>3. Total(Unflushed, Workers) \in Nat  BY <1>1, TotalsType DEF LocalInv
  <2>4. QED  BY <1>7, <2>2, <2>3 DEF EveryAdmissionCounted, Init
<1>9. BoundInv
  <2>1. (Cardinality(Workers) - 1) * Batch >= 0
    BY <1>5, BatchType
  <2>2. QED  BY <1>7, <2>1, BoundConstants DEF BoundInv, Init
<1>10. QED  BY <1>3, <1>8, <1>9, BatchType DEF CountInv

\* One unit moves from the prefetched quota to the deque, or back; the admissions follow.
LEMMA ConsumeCount ==
    ASSUME LocalInv, LocalInv', CountInv, NEW t \in Tasks, CheckConsume(t)
    PROVE  CountInv'
<1> DEFINE w == t[1]
<1>1. w \in Workers  BY TasksFacts
<1>2. OnlyWorker(w)
  BY DEF CheckConsume, OnlyWorker, LocalInv, TypeOK, callVars
<1>3. \A i \in Windows : Owed(i)' = Owed(i)
  <2>1. \A u \in Tasks : pc'[u] = pc[u] \/ {pc[u], pc'[u]} \cap DOMAIN RefundStage = {}
    BY DEF CheckConsume, RefundStage, LocalInv, TypeOK
  <2>2. QED  BY <2>1, OwedSame
<1>4. \A v \in Workers : Answered(v)' <=> Answered(v)
  BY DEF CheckConsume, Answered, LocalInv, TypeOK
<1>5. \A v \in Workers : Granted'[v] = Granted[v]
  BY GrantedSame DEF CheckConsume, callVars
<1>6. /\ deque'[w] = deque[w] + 1 /\ reserved'[w] = reserved[w] - 1
      /\ admitted' = admitted + 1 /\ dropped' = dropped /\ redis' = redis
      /\ deque[w] \in Nat /\ reserved[w] \in Nat /\ admitted \in Int /\ dropped \in Nat
      /\ redis \in [Windows -> Nat] /\ Granted[w] \in Nat
  BY <1>1, GrantedType DEF CheckConsume, LocalInv, TypeOK, boundVars, lossVars
<1>7. /\ Spendable'[w] = Spendable[w] - 1
      /\ Spendable[w] \in Nat
  BY <1>1, <1>5, <1>6 DEF Spendable
<1>8. /\ Unflushed[w] \in Nat /\ Overtaken[w] \in Nat
      /\ \/ Unflushed'[w] = Unflushed[w] + 1 /\ Overtaken'[w] = Overtaken[w]
         \/ Unflushed'[w] = Unflushed[w] /\ Overtaken'[w] = Overtaken[w] - 1
  BY <1>1, <1>4, <1>6 DEF Unflushed, Overtaken
<1>9. EveryAdmissionCounted'
  BY <1>1, <1>2, <1>3, <1>6, <1>8, OwedType, CountStep DEF CountInv, LocalInv
<1>10. BoundInv'
  BY <1>1, <1>2, <1>6, <1>7, BoundStep DEF CountInv, LocalInv
<1>11. QED  BY <1>5, <1>9, <1>10 DEF CountInv

LEMMA RefundLocalCount ==
    ASSUME LocalInv, LocalInv', CountInv, NEW t \in Tasks, RefundLocal(t)
    PROVE  CountInv'
<1> DEFINE w == t[1]
<1>1. w \in Workers  BY TasksFacts
<1>2. OnlyWorker(w)
  BY DEF RefundLocal, UpstreamFails, OnlyWorker, LocalInv, TypeOK, callVars
<1>3. \A i \in Windows : Owed(i)' = Owed(i)
  <2>1. \A u \in Tasks : pc'[u] = pc[u] \/ {pc[u], pc'[u]} \cap DOMAIN RefundStage = {}
    BY DEF RefundLocal, UpstreamFails, RefundStage, LocalInv, TypeOK
  <2>2. QED  BY <2>1, OwedSame
<1>4. \A v \in Workers : Answered(v)' <=> Answered(v)
  BY DEF RefundLocal, UpstreamFails, Answered, LocalInv, TypeOK
<1>5. \A v \in Workers : Granted'[v] = Granted[v]
  BY GrantedSame DEF RefundLocal, callVars
<1>6. /\ deque'[w] = deque[w] - 1 /\ reserved'[w] = reserved[w] + 1
      /\ admitted' = admitted - 1 /\ dropped' = dropped /\ redis' = redis
      /\ deque[w] \in Nat /\ reserved[w] \in Nat /\ admitted \in Int /\ dropped \in Nat
      /\ redis \in [Windows -> Nat] /\ Granted[w] \in Nat
  BY <1>1, GrantedType DEF RefundLocal, LocalInv, TypeOK, lossVars
<1>7. /\ Spendable'[w] = Spendable[w] + 1
      /\ Spendable[w] \in Nat
  BY <1>1, <1>5, <1>6 DEF Spendable
<1>8. /\ Unflushed[w] \in Nat /\ Overtaken[w] \in Nat
      /\ \/ Unflushed'[w] = Unflushed[w] - 1 /\ Overtaken'[w] = Overtaken[w]
         \/ Unflushed'[w] = Unflushed[w] /\ Overtaken'[w] = Overtaken[w] + 1
  BY <1>1, <1>4, <1>6 DEF Unflushed, Overtaken
<1>9. EveryAdmissionCounted'
  BY <1>1, <1>2, <1>3, <1>6, <1>8, OwedType, CountStep DEF CountInv, LocalInv
<1>10. BoundInv'
  BY <1>1, <1>2, <1>6, <1>7, BoundStep DEF CountInv, LocalInv
<1>11. QED  BY <1>5, <1>9, <1>10 DEF CountInv

\* The answer (or its loss) ends the call: the worker is no longer waiting, and what
\* its deque and reserved hold afterwards is theirs to spend and to flush.
LEMMA CallEnds ==
    ASSUME LocalInv, LocalInv', NEW t \in Tasks, InCall(t), ~InCall(t)',
           EndCall(t),
           \A u \in Tasks \ {t} : pc'[u] = pc[u],
           \A v \in Workers \ {t[1]} : deque'[v] = deque[v] /\ reserved'[v] = reserved[v],
           pc'[t] \notin DOMAIN RefundStage
    PROVE  LET w == t[1] IN
           /\ w \in Workers /\ OnlyWorker(w)
           /\ \A i \in Windows : Owed(i)' = Owed(i)
           /\ Unflushed'[w] = deque'[w] /\ Overtaken'[w] = 0
           /\ Spendable'[w] = reserved'[w] /\ Granted'[w] = 0
           /\ Spendable[w] = reserved[w] + Granted[w]
           /\ IF pc[t] = "executed" THEN Unflushed[w] = 0 /\ Overtaken[w] = reserved[w]
                                    ELSE Unflushed[w] = deque[w] /\ Overtaken[w] = 0
           /\ Granted[w] = reply[t].reserve
           /\ \A v \in Workers \ {w} : Granted'[v] = Granted[v]
<1> DEFINE w == t[1]
<1>1. w \in Workers  BY TasksFacts
<1>2. \A u \in Tasks \ {t} : reply'[u] = reply[u]
  BY DEF EndCall, LocalInv, TypeOK
<1>3. OnlyWorker(w)  BY <1>2 DEF OnlyWorker
<1>4. \A i \in Windows : Owed(i)' = Owed(i)
  <2>1. \A u \in Tasks : pc'[u] = pc[u] \/ {pc[u], pc'[u]} \cap DOMAIN RefundStage = {}
    BY DEF InCall, RefundStage
  <2>2. QED  BY <2>1, OwedSame
<1>5. \A u \in Tasks : u[1] = w /\ u # t => ~InCall(u)
  BY DEF LocalInv, CallInv
<1>6. ~Answered(w)'
  BY <1>5 DEF Answered, InCall
<1>7. Answered(w) <=> pc[t] = "executed"
  BY <1>5 DEF Answered, InCall
<1>8. Granted'[w] = 0
  <2>1. NothingWhenUnanswered'  BY GrantedWhenUnanswered, PTL
  <2>2. QED  BY <1>1, <1>6, <2>1 DEF NothingWhenUnanswered
<1>9. Granted'[w] = Granted[w] - reply[t].reserve + reply'[t].reserve
  BY <1>2, GrantedChange DEF LocalInv
<1>10. reply'[t].reserve = 0 /\ reply[t].reserve \in Nat
  BY DEF EndCall, NoReply, LocalInv, TypeOK
<1>11. Granted[w] = reply[t].reserve
  <2>1. Granted[w] \in Nat  BY <1>1, GrantedType DEF LocalInv
  <2>2. Granted[w] - reply[t].reserve + 0 = 0  BY <1>8, <1>9, <1>10
  <2> HIDE DEF w
  <2>3. QED  BY <2>1, <2>2, <1>10
<1>12. \A v \in Workers \ {w} : Granted'[v] = Granted[v]
  BY <1>3, LocalChange, <1>1 DEF LocalInv
<1>13. Unflushed'[w] = deque'[w] /\ Overtaken'[w] = 0
  BY <1>1, <1>6 DEF Unflushed, Overtaken
<1>14. IF pc[t] = "executed" THEN Unflushed[w] = 0 /\ Overtaken[w] = reserved[w]
                            ELSE Unflushed[w] = deque[w] /\ Overtaken[w] = 0
  BY <1>1, <1>7 DEF Unflushed, Overtaken
<1>15. Spendable'[w] = reserved'[w] /\ Spendable[w] = reserved[w] + Granted[w]
  <2>1. reserved'[w] \in Nat  BY <1>1 DEF LocalInv, TypeOK
  <2>2. QED  BY <1>1, <1>8, <2>1 DEF Spendable
<1>16. QED
  BY <1>1, <1>3, <1>4, <1>8, <1>11, <1>12, <1>13, <1>14, <1>15

LEMMA CallEndsCount ==
    ASSUME LocalInv, LocalInv', CountInv, NEW t \in Tasks,
           ReceiveDeny(t) \/ ReceiveGrant(t) \/ Degrade(t)
    PROVE  CountInv'
<1> DEFINE w == t[1]
<1>1. w \in Workers  BY TasksFacts
<1>2. CASE ReceiveDeny(t)
  <2>1. /\ pc[t] = "executed" /\ pc'[t] = "denied" /\ reply[t].reserve = 0
        /\ deque'[w] = 0 /\ reserved' = reserved
        /\ UNCHANGED <<redis, admitted, dropped>>
    BY <1>1, <1>2 DEF ReceiveDeny, LocalInv, TypeOK, boundVars, lossVars
  <2>2. /\ EndCall(t)
        /\ \A u \in Tasks \ {t} : pc'[u] = pc[u]
        /\ \A v \in Workers \ {w} : deque'[v] = deque[v] /\ reserved'[v] = reserved[v]
    BY <1>2 DEF ReceiveDeny, LocalInv, TypeOK
  <2>3. /\ OnlyWorker(w)
        /\ \A i \in Windows : Owed(i)' = Owed(i)
        /\ Unflushed'[w] = 0 /\ Overtaken'[w] = 0
        /\ Unflushed[w] = 0 /\ Overtaken[w] = reserved[w]
        /\ Spendable'[w] = reserved[w] /\ Spendable[w] = reserved[w] + 0
        /\ Granted'[w] = 0
        /\ \A v \in Workers \ {w} : Granted'[v] = Granted[v]
    BY <2>1, <2>2, CallEnds DEF InCall, RefundStage
  <2>4. /\ reserved[w] \in Nat /\ admitted \in Int /\ dropped \in Nat
        /\ redis \in [Windows -> Nat]
    BY <1>1 DEF LocalInv, TypeOK
  <2>5. EveryAdmissionCounted'
    BY <1>1, <2>1, <2>3, <2>4, OwedType, CountStep DEF CountInv, LocalInv
  <2>6. BoundInv'
    BY <1>1, <2>1, <2>3, <2>4, BoundStep DEF CountInv, LocalInv
  <2>7. QED  BY <2>3, <2>5, <2>6, BatchType DEF CountInv
<1>3. CASE ReceiveGrant(t)
  <2>1. /\ pc[t] = "executed" /\ pc'[t] = "upstream"
        /\ deque'[w] = 1 /\ reserved'[w] = reply[t].reserve - 1
        /\ admitted' = admitted + 1
        /\ UNCHANGED <<redis, dropped>>
    BY <1>1, <1>3 DEF ReceiveGrant, ReserveLeft, LocalInv, TypeOK, boundVars, lossVars
  <2>2. /\ EndCall(t)
        /\ \A u \in Tasks \ {t} : pc'[u] = pc[u]
        /\ \A v \in Workers \ {w} : deque'[v] = deque[v] /\ reserved'[v] = reserved[v]
    BY <1>3 DEF ReceiveGrant, LocalInv, TypeOK
  <2>3. /\ OnlyWorker(w)
        /\ \A i \in Windows : Owed(i)' = Owed(i)
        /\ Unflushed'[w] = 1 /\ Overtaken'[w] = 0
        /\ Unflushed[w] = 0 /\ Overtaken[w] = reserved[w]
        /\ Spendable'[w] = reply[t].reserve - 1
        /\ Spendable[w] = reserved[w] + reply[t].reserve
        /\ Granted'[w] = 0
        /\ \A v \in Workers \ {w} : Granted'[v] = Granted[v]
    BY <2>1, <2>2, CallEnds DEF InCall, RefundStage
  <2>4. /\ reserved[w] \in Nat /\ reply[t].reserve \in Nat
        /\ admitted \in Int /\ dropped \in Nat /\ redis \in [Windows -> Nat]
    BY <1>1 DEF LocalInv, TypeOK
  <2>5. EveryAdmissionCounted'
    BY <1>1, <2>1, <2>3, <2>4, OwedType, CountStep DEF CountInv, LocalInv
  <2>6. BoundInv'
    BY <1>1, <2>1, <2>3, <2>4, BoundStep DEF CountInv, LocalInv
  <2>7. QED  BY <2>3, <2>5, <2>6, BatchType DEF CountInv
<1>4. CASE Degrade(t)
  <2>1. /\ CallFails(t)
        /\ \E p \in {"denied", "upstream"} : pc' = [pc EXCEPT ![t] = p]
    BY <1>4 DEF Degrade, DegradeReject, DegradePassthrough, DegradeFallbackAllow,
                DegradeFallbackReject
  <2>2. /\ pc[t] \in {"sent", "executed"} /\ pc'[t] \in {"denied", "upstream"}
        /\ EndCall(t)
        /\ \A u \in Tasks \ {t} : pc'[u] = pc[u]
        /\ UNCHANGED <<redis, deque, reserved, admitted, dropped>>
    BY <2>1 DEF CallFails, quotaVars, LocalInv, TypeOK
  <2>3. /\ OnlyWorker(w)
        /\ \A i \in Windows : Owed(i)' = Owed(i)
        /\ Unflushed'[w] = deque[w] /\ Overtaken'[w] = 0
        /\ \/ Unflushed[w] = 0 /\ Overtaken[w] = reserved[w]
           \/ Unflushed[w] = deque[w] /\ Overtaken[w] = 0
        /\ Spendable'[w] = reserved[w]
        /\ Spendable[w] = reserved[w] + reply[t].reserve
        /\ Granted'[w] = 0
        /\ \A v \in Workers \ {w} : Granted'[v] = Granted[v]
    BY <2>2, CallEnds DEF InCall, RefundStage
  <2>4. /\ reserved[w] \in Nat /\ deque[w] \in Nat /\ reply[t].reserve \in Nat
        /\ admitted \in Int /\ dropped \in Nat /\ redis \in [Windows -> Nat]
    BY <1>1 DEF LocalInv, TypeOK
  <2>5. EveryAdmissionCounted'
    BY <1>1, <2>2, <2>3, <2>4, OwedType, CountStep DEF CountInv, LocalInv
  <2>6. BoundInv'
    BY <1>1, <2>2, <2>3, <2>4, BoundStep DEF CountInv, LocalInv
  <2>7. QED  BY <2>3, <2>5, <2>6, BatchType DEF CountInv
<1>5. QED  BY <1>2, <1>3, <1>4

\* Redis counts the flush and grants what the tightest window has left: from then on the
\* other workers can add a batch each, and this one what it was granted.
LEMMA ExecCount ==
    ASSUME LocalInv, LocalInv', CountInv, NEW t \in Tasks, ExecScript(t)
    PROVE  CountInv'
<1> DEFINE w == t[1]
           g == reply'[t].reserve
<1>1. w \in Workers  BY TasksFacts
<1>2. /\ pc[t] = "sent" /\ pc'[t] = "executed"
      /\ \A u \in Tasks \ {t} : pc'[u] = pc[u] /\ reply'[u] = reply[u]
      /\ UNCHANGED <<deque, reserved, admitted, dropped>>
      /\ redis' = Flushed(redis, flush[t]) /\ reply'[t] = ScriptReply(redis')
  BY DEF ExecScript, quotaVars, boundVars, lossVars, LocalInv, TypeOK
<1>3. /\ \A i \in Windows : redis'[i] = redis[i] + deque[w] + reserved[w]
      /\ redis' \in [Windows -> Nat]
  <2>1. flush[t] = deque[w] + reserved[w]
    BY <1>2 DEF LocalInv, CallInv, InCall
  <2>2. QED  BY <1>1, <1>2, <2>1 DEF Flushed, LocalInv, TypeOK
<1>4. g \in Nat /\ g <= Batch
  BY <1>2, <1>3, ScriptReplyFacts
<1>5. g > 0 => \A i \in Windows : redis'[i] + g <= Limit[i]
  BY <1>2, <1>3, ScriptReplyFacts
<1>6. OnlyWorker(w)  BY <1>2 DEF OnlyWorker
<1>7. \A i \in Windows : Owed(i)' = Owed(i)
  <2>1. \A u \in Tasks : pc'[u] = pc[u] \/ {pc[u], pc'[u]} \cap DOMAIN RefundStage = {}
    BY <1>2 DEF RefundStage
  <2>2. QED  BY <2>1, OwedSame
<1>8. \A u \in Tasks : u[1] = w /\ u # t => ~InCall(u)
  BY <1>2 DEF LocalInv, CallInv, InCall
<1>9. ~Answered(w) /\ Answered(w)'
  BY <1>2, <1>8 DEF Answered, InCall
<1>10. Granted[w] = 0
  BY <1>1, <1>9, GrantedWhenUnanswered DEF NothingWhenUnanswered
<1>11. Granted'[w] = g
  <2>1. reply[t].reserve = 0  BY <1>2 DEF LocalInv, CallInv
  <2>2. Granted'[w] = 0 - 0 + g
    BY <1>2, <1>10, <2>1, GrantedChange DEF LocalInv
  <2>3. QED  BY <1>4, <2>2
<1>12. \A v \in Workers \ {w} : Granted'[v] = Granted[v]
  BY <1>1, <1>6, LocalChange DEF LocalInv
<1>13. \A v \in Workers : Granted'[v] <= Batch
  BY <1>4, <1>11, <1>12 DEF CountInv
<1>14. /\ Unflushed[w] = deque[w] /\ Overtaken[w] = 0
       /\ Unflushed'[w] = 0 /\ Overtaken'[w] = reserved[w]
  BY <1>1, <1>2, <1>9 DEF Unflushed, Overtaken
<1>15. /\ deque[w] \in Nat /\ reserved[w] \in Nat /\ admitted \in Int /\ dropped \in Nat
       /\ redis \in [Windows -> Nat]
  BY <1>1 DEF LocalInv, TypeOK
<1> HIDE DEF g
<1>16. EveryAdmissionCounted'
  BY <1>1, <1>2, <1>3, <1>6, <1>7, <1>14, <1>15, OwedType, CountStep
  DEF CountInv, LocalInv
<1>17. BoundInv'
  <2>1. CASE g = 0
    <3>1. Spendable'[w] = Spendable[w]
      BY <1>1, <1>2, <1>10, <1>11, <2>1 DEF Spendable
    <3>2. Spendable[w] \in Nat  BY <1>1, CountersType DEF LocalInv
    <3>3. QED  BY <1>1, <1>2, <1>6, <1>15, <3>1, <3>2, BoundStep DEF CountInv, LocalInv
  <2>2. CASE g > 0
    <3> SUFFICES ASSUME NEW i \in Windows
                 PROVE  admitted' + Total(Spendable, Workers)'
                          <= Limit[i] + (Cardinality(Workers) - 1) * Batch + dropped'
      BY DEF BoundInv
    <3>1. /\ (Unflushed \in [Workers -> Nat])' /\ (Overtaken \in [Workers -> Nat])'
          /\ (Spendable \in [Workers -> Nat])' /\ (Claim \in [Workers -> Nat])'
      BY CountersType, PTL DEF LocalInv
    <3>2. \A v \in Workers : Claim'[v] + Overtaken'[v] = Spendable'[v] + Unflushed'[v]
      <4>1. ASSUME NEW v \in Workers
            PROVE  Claim'[v] + Overtaken'[v] = Spendable'[v] + Unflushed'[v]
        <5>1. deque'[v] \in Nat /\ reserved'[v] \in Nat  BY DEF LocalInv, TypeOK
        <5>2. (Granted \in [Workers -> Nat])'  BY GrantedType, PTL DEF LocalInv
        <5>3. Granted'[v] \in Nat  BY <5>2
        <5>4. CASE Answered(v)'
          BY <5>1, <5>3, <5>4 DEF Claim, Overtaken, Spendable, Unflushed
        <5>5. CASE ~Answered(v)'
          <6>1. NothingWhenUnanswered'  BY GrantedWhenUnanswered, PTL
          <6>2. Granted'[v] = 0  BY <5>5, <6>1 DEF NothingWhenUnanswered
          <6>3. QED  BY <5>1, <5>5, <6>2 DEF Claim, Overtaken, Spendable, Unflushed
        <5>6. QED  BY <5>4, <5>5
      <4>2. QED  BY <4>1
    <3>3. Total(Claim', Workers) + Total(Overtaken', Workers)
            = Total(Spendable', Workers) + Total(Unflushed', Workers)
      <4> DEFINE sum == [v \in Workers |-> Claim'[v] + Overtaken'[v]]
      <4>1. \A v \in Workers : /\ sum[v] = Claim'[v] + Overtaken'[v]
                               /\ sum[v] = Spendable'[v] + Unflushed'[v]
        BY <3>2
      <4>2. /\ \A v \in Workers : Claim'[v] \in Nat
            /\ \A v \in Workers : Overtaken'[v] \in Nat
            /\ \A v \in Workers : Spendable'[v] \in Nat
            /\ \A v \in Workers : Unflushed'[v] \in Nat
        BY <3>1
      <4> HIDE DEF sum
      <4>3. Total(sum, Workers) = Total(Claim', Workers) + Total(Overtaken', Workers)
        BY <4>1, <4>2, TasksFacts, TotalSum
      <4>4. Total(sum, Workers) = Total(Spendable', Workers) + Total(Unflushed', Workers)
        BY <4>1, <4>2, TasksFacts, TotalSum
      <4>5. QED  BY <4>3, <4>4
    <3>4. Total(Claim', Workers) <= g + (Cardinality(Workers) - 1) * Batch
      <4>1. Claim'[w] = g  BY <1>1, <1>9, <1>11 DEF Claim
      <4>2. \A v \in Workers \ {w} : Claim'[v] <= Batch
        BY <1>2, <1>13 DEF Claim, LocalInv, QuotaInv
      <4>3. \A v \in Workers : Claim'[v] \in Nat  BY <3>1
      <4>4. Total(Claim', Workers) <= Claim'[w] + (Cardinality(Workers) - 1) * Batch
        BY <1>1, <4>2, <4>3, TasksFacts, BatchType, TotalBoundExcept
      <4>5. QED  BY <4>1, <4>4
    <3>5. admitted + Owed(i)' + Total(Overtaken', Workers)
            <= redis'[i] + Total(Unflushed', Workers) + dropped
      BY <1>2, <1>16 DEF EveryAdmissionCounted, Owed
    <3>6. redis'[i] + g <= Limit[i]  BY <1>5, <2>2
    <3>7. /\ (Total(Unflushed, Workers) \in Nat)' /\ (Total(Overtaken, Workers) \in Nat)'
          /\ (Total(Spendable, Workers) \in Nat)' /\ (Total(Claim, Workers) \in Nat)'
      BY TotalsType, PTL DEF LocalInv
    <3>8. /\ Total(Unflushed', Workers) \in Nat /\ Total(Overtaken', Workers) \in Nat
          /\ Total(Spendable', Workers) \in Nat /\ Total(Claim', Workers) \in Nat
      BY <3>7
    <3>9. /\ Owed(i)' \in Nat /\ redis'[i] \in Nat /\ Limit[i] \in Nat
          /\ (Cardinality(Workers) - 1) * Batch \in Int
      BY <1>3, OwedType, BoundConstants
    <3>10. admitted + Total(Spendable', Workers)
             <= Limit[i] + (Cardinality(Workers) - 1) * Batch + dropped
      BY <3>3, <3>4, <3>5, <3>6, <3>8, <3>9, <1>4, <1>15
    <3>11. QED  BY <1>2, <3>10
  <2>3. QED  BY <1>4, <2>1, <2>2
<1>18. QED  BY <1>13, <1>16, <1>17 DEF CountInv

\* A step of a refund in Redis: it stops owing a window no sooner than the window's ZSET
\* has lost a member or was empty, and it starts owing when the admission is taken back.
LEMMA RefundStageCount ==
    ASSUME LocalInv, LocalInv', CountInv, NEW t \in Tasks,
           RefundRedis(t) \/ RefundWindow(t) \/ RefundAborts(t)
    PROVE  CountInv'
<1> DEFINE w == t[1]
<1>1. w \in Workers  BY TasksFacts
<1>2. /\ \E p \in {"idle", "refund5h", "refund7d", "refund30d"} : pc' = [pc EXCEPT ![t] = p]
      /\ pc[t] # "executed"
      /\ UNCHANGED <<deque, reserved, reply, dropped>>
  BY DEF RefundRedis, RefundWindow, RefundAborts, UpstreamFails, RefundStage, NextStage,
         quotaVars, callVars, boundVars, lossVars
<1>3. OnlyWorker(w)
  BY <1>2 DEF OnlyWorker, LocalInv, TypeOK
<1>4. \A v \in Workers : Answered(v)' <=> Answered(v)
  BY <1>2 DEF Answered, LocalInv, TypeOK
<1>5. \A v \in Workers : Granted'[v] = Granted[v]
  BY <1>2, GrantedSame
<1>6. /\ Unflushed'[w] = Unflushed[w] /\ Overtaken'[w] = Overtaken[w]
      /\ Spendable'[w] = Spendable[w]
  BY <1>1, <1>2, <1>4, <1>5 DEF Unflushed, Overtaken, Spendable
<1>7. /\ Unflushed[w] \in Nat /\ Overtaken[w] \in Nat /\ Spendable[w] \in Nat
      /\ admitted \in Int /\ dropped \in Nat
      /\ redis \in [Windows -> Nat] /\ redis' \in [Windows -> Nat]
  BY <1>1, CountersType DEF LocalInv, TypeOK
<1>8. /\ admitted' \in Int /\ admitted' <= admitted
      /\ \A i \in Windows : admitted' - admitted + Owed(i)' - Owed(i) <= redis'[i] - redis[i]
  <2>1. CASE RefundRedis(t)
    <3>1. admitted' = admitted - 1 /\ redis' = redis
      BY <2>1 DEF RefundRedis
    <3>2. \A i \in Windows : RefundsDue(i)' = RefundsDue(i) \cup {t}
      BY <2>1 DEF RefundRedis, UpstreamFails, RefundsDue, LocalInv, TypeOK
    <3>3. \A i \in Windows : t \notin RefundsDue(i)
      BY <2>1 DEF RefundRedis, UpstreamFails, RefundsDue
    <3>4. ASSUME NEW i \in Windows PROVE Owed(i)' = Owed(i) + 1
      <4>1. IsFiniteSet(RefundsDue(i))  BY OwedType
      <4>2. Cardinality(RefundsDue(i) \cup {t}) = Cardinality(RefundsDue(i)) + 1
        BY <3>3, <4>1, FS_AddElement
      <4>3. QED  BY <3>2, <4>2 DEF Owed
    <3>5. \A i \in Windows : Owed(i) \in Nat  BY OwedType
    <3>6. QED  BY <1>7, <3>1, <3>4, <3>5
  <2>2. CASE RefundWindow(t)
    <3>0. PICK stage \in Windows : stage = RefundStage[pc[t]]
      BY <2>2 DEF RefundWindow, RefundStage, Windows
    <3>1. /\ admitted' = admitted
          /\ redis' = [redis EXCEPT ![stage] = NewestRemoved(@)]
      BY <2>2, <3>0 DEF RefundWindow
    <3>2. \A i \in Windows : RefundsDue(i)' = IF i = stage THEN RefundsDue(i) \ {t}
                                                         ELSE RefundsDue(i)
      <4>1. CASE pc[t] = "refund5h"
        BY <2>2, <3>0, <4>1 DEF RefundWindow, RefundsDue, RefundStage, NextStage, Windows,
                          LocalInv, TypeOK
      <4>2. CASE pc[t] = "refund7d"
        BY <2>2, <3>0, <4>2 DEF RefundWindow, RefundsDue, RefundStage, NextStage, Windows,
                          LocalInv, TypeOK
      <4>3. CASE pc[t] = "refund30d"
        BY <2>2, <3>0, <4>3 DEF RefundWindow, RefundsDue, RefundStage, NextStage, Windows,
                          LocalInv, TypeOK
      <4>4. QED  BY <2>2, <4>1, <4>2, <4>3 DEF RefundWindow, RefundStage
    <3>3. t \in RefundsDue(stage)
      BY <2>2, <3>0 DEF RefundWindow, RefundStage, RefundsDue
    <3>4. Owed(stage)' = Owed(stage) - 1
      <4>1. IsFiniteSet(RefundsDue(stage))  BY OwedType
      <4>2. Cardinality(RefundsDue(stage) \ {t}) = Cardinality(RefundsDue(stage)) - 1
        BY <3>3, <4>1, FS_RemoveElement
      <4>3. RefundsDue(stage)' = RefundsDue(stage) \ {t}  BY <3>2
      <4>4. QED  BY <4>2, <4>3 DEF Owed
    <3>5. \A i \in Windows : i # stage => Owed(i)' = Owed(i)
      BY <3>2 DEF Owed
    <3>6. redis'[stage] >= redis[stage] - 1
      BY <1>7, <3>1 DEF NewestRemoved, Max2
    <3>7. \A i \in Windows : i # stage => redis'[i] = redis[i]
      BY <1>7, <3>1
    <3>8. \A i \in Windows : Owed(i) \in Nat  BY OwedType
    <3>9. \A i \in Windows : Owed(i)' - Owed(i) <= redis'[i] - redis[i]
      BY <1>7, <3>1, <3>4, <3>5, <3>6, <3>7, <3>8
    <3>10. \A i \in Windows : Owed(i)' \in Nat  BY OwedType
    <3>11. QED  BY <1>7, <3>1, <3>8, <3>9, <3>10
  <2>3. CASE RefundAborts(t)
    <3>1. admitted' = admitted /\ redis' = redis
      BY <2>3 DEF RefundAborts
    <3>2. \A i \in Windows : RefundsDue(i)' \in SUBSET RefundsDue(i)
      BY <2>3 DEF RefundAborts, RefundsDue, LocalInv, TypeOK
    <3>3. ASSUME NEW i \in Windows
          PROVE  Owed(i)' <= Owed(i) /\ Owed(i) \in Nat /\ Owed(i)' \in Nat
      <4>1. IsFiniteSet(RefundsDue(i))  BY OwedType
      <4>2. Cardinality(RefundsDue(i)') <= Cardinality(RefundsDue(i))
        BY <3>2, <4>1, FS_Subset
      <4>3. QED  BY <4>2, OwedType DEF Owed
    <3>4. QED  BY <1>7, <3>1, <3>3
  <2>4. QED  BY <2>1, <2>2, <2>3
<1>9. \A i \in Windows : Owed(i) \in Nat /\ Owed(i)' \in Nat  BY OwedType
<1>10. EveryAdmissionCounted'
  BY <1>1, <1>2, <1>3, <1>6, <1>7, <1>8, <1>9, CountStep DEF CountInv, LocalInv
<1>11. BoundInv'
  BY <1>1, <1>2, <1>3, <1>6, <1>7, <1>8, BoundStep DEF CountInv, LocalInv
<1>12. QED  BY <1>5, <1>10, <1>11 DEF CountInv

\* Losing a worker's quota state: its unflushed timestamps become `dropped`.
LEMMA LossCount ==
    ASSUME LocalInv, LocalInv', CountInv, NEW w \in Workers,
           EvictState(w) \/ RestartWorker(w)
    PROVE  CountInv'
<1>1. /\ deque'[w] = 0 /\ reserved'[w] = 0 /\ dropped' = dropped + deque[w]
      /\ \A v \in Workers \ {w} : deque'[v] = deque[v] /\ reserved'[v] = reserved[v]
      /\ UNCHANGED <<redis, admitted>>
  BY DEF EvictState, RestartWorker, ResetQuotaState, LocalInv, TypeOK
<1>2. \A t \in Tasks : /\ t[1] # w => pc'[t] = pc[t] /\ reply'[t] = reply[t]
                       /\ pc'[t] \in {pc[t], "idle"}
                       /\ t[1] = w => pc'[t] # "executed" /\ reply'[t].reserve = 0
  <2>1. CASE EvictState(w)
    BY <2>1 DEF EvictState, InFlight, callVars, LocalInv, CallInv
  <2>2. CASE RestartWorker(w)
    BY <2>2 DEF RestartWorker, NoReply
  <2>3. QED  BY <2>1, <2>2
<1>3. OnlyWorker(w)  BY <1>1, <1>2 DEF OnlyWorker
<1>4. ~Answered(w)'  BY <1>2 DEF Answered
<1>5. Granted'[w] = 0
  <2>1. NothingWhenUnanswered'  BY GrantedWhenUnanswered, PTL
  <2>2. QED  BY <1>4, <2>1 DEF NothingWhenUnanswered
<1>6. /\ deque[w] \in Nat /\ reserved[w] \in Nat /\ admitted \in Int /\ dropped \in Nat
      /\ redis \in [Windows -> Nat] /\ Granted[w] \in Nat
  BY GrantedType DEF LocalInv, TypeOK
<1>7. /\ Unflushed'[w] = 0 /\ Overtaken'[w] = 0 /\ Spendable'[w] = 0
      /\ Spendable[w] \in Nat /\ Unflushed[w] \in Nat /\ Overtaken[w] \in Nat
      /\ Unflushed[w] <= deque[w]
  BY <1>1, <1>4, <1>5, <1>6 DEF Unflushed, Overtaken, Spendable
<1>8. \A i \in Windows : Owed(i)' <= Owed(i) /\ Owed(i) \in Nat /\ Owed(i)' \in Nat
  <2>1. ASSUME NEW i \in Windows
        PROVE  Owed(i)' <= Owed(i) /\ Owed(i) \in Nat /\ Owed(i)' \in Nat
    <3>1. RefundsDue(i)' \in SUBSET RefundsDue(i)
      BY <1>2 DEF RefundsDue
    <3>2. IsFiniteSet(RefundsDue(i))  BY OwedType
    <3>3. Cardinality(RefundsDue(i)') <= Cardinality(RefundsDue(i))
      BY <3>1, <3>2, FS_Subset
    <3>4. QED  BY <3>3, OwedType DEF Owed
  <2>2. QED  BY <2>1
<1>9. EveryAdmissionCounted'
  BY <1>1, <1>3, <1>6, <1>7, <1>8, CountStep DEF CountInv, LocalInv
<1>10. BoundInv'
  BY <1>1, <1>3, <1>6, <1>7, BoundStep DEF CountInv, LocalInv
<1>11. \A v \in Workers \ {w} : Granted'[v] = Granted[v]
  BY <1>3, LocalChange DEF LocalInv
<1>12. QED  BY <1>5, <1>9, <1>10, <1>11, BatchType DEF CountInv

LEMMA NextCount ==
    ASSUME NoOverlap PROVE LocalInv /\ CountInv /\ [Next]_vars => CountInv'
<1> SUFFICES ASSUME LocalInv, CountInv, [Next]_vars PROVE CountInv'
  OBVIOUS
<1>1. LocalInv'  BY NextLocal
<1>2. ASSUME NEW t \in Tasks,
             \/ CheckDenyLocal(t) \/ CheckPrefetch(t) \/ Respond(t) \/ UpstreamOk(t)
             \/ RefundNothing(t) \/ RefundFallback(t)
      PROVE  CountInv'
  <2>1. /\ UNCHANGED <<redis, deque, reserved, reply, admitted, dropped>>
        /\ \E p \in {"denied", "sent", "idle"} : pc' = [pc EXCEPT ![t] = p]
        /\ pc[t] \in {"idle", "denied", "upstream"}
    BY <1>2 DEF CheckDenyLocal, CheckPrefetch, Respond, UpstreamOk, RefundNothing,
                RefundFallback, UpstreamFails, quotaVars, callVars, boundVars, lossVars
  <2>2. QED  BY <2>1, QuietStep DEF RefundStage, LocalInv, TypeOK
<1>3. ASSUME NEW w \in Workers, SnapshotExpires(w) PROVE CountInv'
  BY <1>3, QuietStep DEF SnapshotExpires, callVars, boundVars, lossVars
<1>4. CASE UNCHANGED vars
  BY <1>4, QuietStep DEF vars, quotaVars, callVars, boundVars, lossVars
<1>5. QED
  BY <1>1, <1>2, <1>3, <1>4, ConsumeCount, ExecCount, CallEndsCount, RefundLocalCount,
     RefundStageCount, LossCount
  DEF Next, Check, Receive, Refund

-----------------------------------------------------------------------------
(* The theorems *)

\* Where a worker makes one prefetch at a time, every admission that was not refunded is in
\* the ZSET of each window, in a deque that will be flushed, or was lost with a worker's
\* memory, whatever the order of answers, refunds, failures and restarts.
THEOREM AdmissionsCounted ==
    ASSUME NoOverlap PROVE Spec => []EveryAdmissionCounted
<1>1. CountInv => EveryAdmissionCounted  BY DEF CountInv
<1>2. QED  BY <1>1, InitLocal, NextLocal, InitCount, NextCount, PTL DEF Spec

LEMMA LocalOvershoot == LocalInv /\ CountInv => TypeOK /\ OvershootBounded
<1> SUFFICES ASSUME LocalInv, CountInv, NEW i \in Windows
             PROVE  admitted <= Limit[i] + (Cardinality(Workers) - 1) * Batch + dropped
  BY DEF LocalInv, OvershootBounded
<1>1. Total(Spendable, Workers) \in Nat  BY TotalsType DEF LocalInv
<1>2. admitted \in Int /\ dropped \in Nat  BY DEF LocalInv, TypeOK
<1>3. QED  BY <1>1, <1>2, BoundConstants DEF CountInv, BoundInv

\* The bound the README gives, for workers that make one prefetch at a time: beyond a
\* window's limit they admit at most (workers - 1) * batch requests, and what the loss of
\* a worker's memory hides.
THEOREM Overshoot ==
    ASSUME NoOverlap PROVE Spec => []OvershootBounded
BY LocalOvershoot, InitLocal, NextLocal, InitCount, NextCount, PTL DEF Spec

-----------------------------------------------------------------------------
(* The limiter implements the ledger *)

\* A request holds quota from its admission to the end of its upstream call.
ViaInv == \A t \in Tasks : via[t] # "none" => pc[t] = "upstream"

LEMMA NextVia == TypeOK /\ ViaInv /\ [Next]_vars => ViaInv'
<1> SUFFICES ASSUME TypeOK, ViaInv, [Next]_vars PROVE ViaInv'
  OBVIOUS
<1> USE DEF TypeOK, ViaInv
<1>1. ASSUME NEW t \in Tasks,
             \/ Check(t) \/ ExecScript(t) \/ Receive(t) \/ Degrade(t) \/ Respond(t)
             \/ UpstreamOk(t) \/ Refund(t) \/ RefundWindow(t) \/ RefundAborts(t)
      PROVE  ViaInv'
  <2>1. /\ \E p \in Pcs : pc' = [pc EXCEPT ![t] = p]
        /\ \/ via' = [via EXCEPT ![t] = "none"]
           \/ pc'[t] = "upstream" /\ \E v \in {"quota", "fallback", "passthrough"} :
                                          via' = [via EXCEPT ![t] = v]
           \/ via' = via /\ pc[t] # "upstream"
    <3>1. CASE RefundWindow(t)
      <4>1. NextStage[pc[t]] \in Pcs /\ pc[t] # "upstream"
        BY <3>1 DEF RefundWindow, RefundStage, NextStage, Pcs
      <4>2. pc' = [pc EXCEPT ![t] = NextStage[pc[t]]] /\ via' = via
        BY <3>1 DEF RefundWindow
      <4>3. QED  BY <4>1, <4>2
    <3>2. CASE ~RefundWindow(t)
      BY <1>1, <3>2
      DEF Pcs, Check, CheckDenyLocal, CheckConsume, CheckPrefetch, ExecScript, Receive,
          ReceiveDeny, ReceiveGrant, Degrade, DegradeReject, DegradePassthrough,
          DegradeFallbackAllow, DegradeFallbackReject, CallFails, Respond, UpstreamOk, Refund,
          RefundNothing, RefundFallback, RefundLocal, RefundRedis, UpstreamFails,
          RefundAborts, RefundStage, callVars, boundVars, lossVars
    <3>3. QED  BY <3>1, <3>2
  <2>2. QED  BY <2>1
<1>2. ASSUME NEW w \in Workers, RestartWorker(w) PROVE ViaInv'
  BY <1>2 DEF RestartWorker
<1>3. ASSUME NEW w \in Workers, SnapshotExpires(w) \/ EvictState(w) PROVE ViaInv'
  BY <1>3 DEF SnapshotExpires, EvictState
<1>4. CASE UNCHANGED vars  BY <1>4 DEF vars
<1>5. QED  BY <1>1, <1>2, <1>3, <1>4 DEF Next

\* The documented bound, put as the capacity of a ledger.
LEMMA WithinCapacity ==
    TypeOK /\ OvershootBounded
        => admitted <= TightestLimit + (Cardinality(Workers) - 1) * Batch + dropped
<1>1. \E i \in Windows : TightestLimit = Limit[i]
  BY DEF TightestLimit, Min2, Windows
<1>2. QED  BY <1>1 DEF OvershootBounded

\* What a step does to the quota requests hold, in the ledger's terms.
LEMMA LedgerStep ==
    TypeOK /\ ViaInv /\ (TypeOK /\ OvershootBounded)' /\ [Next]_vars
        => [Ledger!Next]_Ledger!ledgerVars
<1> SUFFICES ASSUME TypeOK, ViaInv, TypeOK', OvershootBounded', [Next]_vars
             PROVE  [Ledger!Next]_Ledger!ledgerVars
  OBVIOUS
<1>0. (admitted <= TightestLimit + (Cardinality(Workers) - 1) * Batch + dropped)'
  BY WithinCapacity, PTL
<1> DEFINE holding == [u \in {"user"} |-> {t \in Tasks : via[t] = "quota"}]
           taken == [u \in {"user"} |-> admitted]
           lost == [u \in {"user"} |-> dropped]
<1> USE DEF Ledger!Next, Ledger!ledgerVars, TypeOK
<1>1. ASSUME NEW t \in Tasks, CheckConsume(t) \/ ReceiveGrant(t)
      PROVE  Ledger!Admit(t, "user")
  <2>1. /\ via' = [via EXCEPT ![t] = "quota"] /\ admitted' = admitted + 1
        /\ dropped' = dropped /\ pc[t] # "upstream"
    BY <1>1 DEF CheckConsume, ReceiveGrant, boundVars, lossVars
  <2>2. via[t] # "quota"  BY <2>1 DEF ViaInv
  <2>3. admitted < TightestLimit + (Cardinality(Workers) - 1) * Batch + dropped
    <3>1. admitted' <= TightestLimit + (Cardinality(Workers) - 1) * Batch + dropped'
      BY <1>0
    <3>2. TightestLimit \in Int
      BY BoundConstants DEF TightestLimit, Min2, Windows
    <3>3. QED  BY <2>1, <3>1, <3>2, BoundConstants
  <2>4. \A s \in Tasks : via'[s] = "quota" <=> s = t \/ via[s] = "quota"  BY <2>1
  <2>5. holding' = [holding EXCEPT !["user"] = @ \cup {t}]
    <3> HIDE DEF Ledger!Next, Ledger!ledgerVars, TypeOK
    <3>1. {s \in Tasks : via'[s] = "quota"} = {s \in Tasks : via[s] = "quota"} \cup {t}
      BY <2>4
    <3>2. QED  BY <3>1
  <2>6. QED  BY <2>1, <2>2, <2>3, <2>5 DEF Ledger!Admit
<1>2. ASSUME NEW t \in Tasks, via[t] = "quota", UpstreamOk(t)
      PROVE  Ledger!Spend(t, "user")
  <2>1. via' = [via EXCEPT ![t] = "none"] /\ UNCHANGED <<admitted, dropped>>
    BY <1>2 DEF UpstreamOk, boundVars, lossVars
  <2>2. holding' = [holding EXCEPT !["user"] = @ \ {t}]  BY <2>1
  <2>3. QED  BY <1>2, <2>1, <2>2 DEF Ledger!Spend
<1>3. ASSUME NEW t \in Tasks, RefundLocal(t) \/ RefundRedis(t)
      PROVE  Ledger!GiveBack(t, "user")
  <2>1. /\ via[t] = "quota" /\ via' = [via EXCEPT ![t] = "none"]
        /\ admitted' = admitted - 1 /\ dropped' = dropped
    BY <1>3 DEF RefundLocal, RefundRedis, lossVars
  <2>2. holding' = [holding EXCEPT !["user"] = @ \ {t}]  BY <2>1
  <2>3. QED  BY <2>1, <2>2 DEF Ledger!GiveBack
<1>4. ASSUME NEW w \in Workers, EvictState(w) \/ RestartWorker(w)
      PROVE  Ledger!Lose
  <2>1. /\ admitted' = admitted /\ dropped' = dropped + deque[w]
        /\ \A t \in Tasks : via'[t] \in {via[t], "none"}
    BY <1>4 DEF EvictState, RestartWorker, ResetQuotaState
  <2>2. deque[w] \in Nat /\ dropped \in Nat  OBVIOUS
  <2>3. dropped' >= dropped  BY <2>1, <2>2
  <2>4. holding'["user"] \subseteq holding["user"]  BY <2>1
  <2>5. QED  BY <2>1, <2>3, <2>4 DEF Ledger!Lose
<1>5. ASSUME \A t \in Tasks : via'[t] = "quota" <=> via[t] = "quota",
             UNCHANGED <<admitted, dropped>>
      PROVE  UNCHANGED Ledger!ledgerVars
  BY <1>5
<1>6. ASSUME NEW t \in Tasks,
             \/ CheckDenyLocal(t) \/ CheckPrefetch(t) \/ ExecScript(t) \/ ReceiveDeny(t)
             \/ Degrade(t) \/ Respond(t) \/ RefundWindow(t) \/ RefundAborts(t)
             \/ via[t] # "quota" /\ UpstreamOk(t)
             \/ RefundNothing(t) \/ RefundFallback(t)
      PROVE  UNCHANGED Ledger!ledgerVars
  <2>1. /\ UNCHANGED <<admitted, dropped>>
        /\ \/ via' = via
           \/ /\ via[t] # "quota"
              /\ \E v \in {"none", "fallback", "passthrough"} : via' = [via EXCEPT ![t] = v]
    BY <1>6
    DEF CheckDenyLocal, CheckPrefetch, ExecScript, ReceiveDeny, Degrade, DegradeReject,
        DegradePassthrough, DegradeFallbackAllow, DegradeFallbackReject, CallFails, Respond,
        RefundWindow, RefundAborts, UpstreamOk, RefundNothing, RefundFallback, UpstreamFails,
        RefundStage, ViaInv, boundVars, lossVars
  <2>2. QED  BY <1>5, <2>1
<1>7. CASE (\E w \in Workers : SnapshotExpires(w)) \/ UNCHANGED vars
  <2>1. UNCHANGED <<via, admitted, dropped>>
    BY <1>7 DEF SnapshotExpires, vars, boundVars, lossVars
  <2>2. QED  BY <1>5, <2>1
<1>8. QED
  BY <1>1, <1>2, <1>3, <1>4, <1>6, <1>7 DEF Next, Check, Receive, Refund

\* Seen from outside, workers that prefetch without overlap are a ledger: quota is taken
\* within the documented bound and only given back by the request that took it, once.
THEOREM LedgerImplemented ==
    ASSUME NoOverlap PROVE Spec => ImplementsLedger
<1>1. Init => Ledger!Init
  BY DEF Init, Ledger!Init
<1>2. Init => ViaInv
  BY DEF Init, ViaInv
<1>3. LocalInv /\ CountInv => TypeOK /\ OvershootBounded
  BY LocalOvershoot
<1>4. QED
  BY <1>1, <1>2, <1>3, InitLocal, NextLocal, InitCount, NextCount, NextVia, LedgerStep, PTL
  DEF Spec, ImplementsLedger, Ledger!Spec
=============================================================================
