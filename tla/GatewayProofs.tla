----------------------------- MODULE GatewayProofs -----------------------------
(***************************************************************************)
(* Proofs about Gateway for any number of requests, any limits and any     *)
(* number of changes and failures: the types, that quota is given back for *)
(* the requests that failed and no other, and that the proxy implements    *)
(* the ledger of module QuotaLedger; and, while the policy stays, the      *)
(* bound on what a user's concurrent responses may use beyond a limit.     *)
(***************************************************************************)
EXTENDS Gateway, TotalsProofs

LEMMA ConstantTypes ==
    /\ IsFiniteSet(Requests)
    /\ TokenLimit \in [Windows -> Nat \ {0}] /\ TTL \in [Windows -> Nat \ {0}]
    /\ TTL["5h"] <= TTL["7d"] /\ TTL["7d"] <= TTL["30d"]
    /\ "5h" \in Windows /\ "7d" \in Windows /\ "30d" \in Windows
    /\ \A i \in Windows : TTL[i] <= TTL["30d"] /\ TTL[i] \in Nat \ {0}
    /\ Capacity \in Nat /\ MaxUsage \in Nat /\ MaxTroubles \in Nat
BY GatewayAssumption DEF GatewayAssumption, Windows

Results == [mode : {"none", "request", "token"}, counted : BOOLEAN,
            user : Users, group : BOOLEAN]

LEMMA ResultTypes ==
    /\ \A m \in {"none", "request", "token"}, u \in Users :
          Result(m, TRUE, u, TRUE) \in Results /\ Result(m, FALSE, u, TRUE) \in Results
    /\ Result("none", FALSE, "key", view = NoConfig) \in Results
    /\ NoResult \in Results
    /\ \A v \in Views : UserOf(v) \in Users
    /\ \A v \in Views : \A h : ChargedUser(v, h) \in Users
BY DEF Result, Results, NoResult, Users, UserOf, ChargedUser

-----------------------------------------------------------------------------
(* Types, and where the quota is *)

\* TypeOK, but for the sign of taken; and what is known of a request before it is let through.
TypeInv ==
    /\ view \in Views
    /\ used \in [Users -> [Windows -> Nat]]
    /\ idle \in [Users -> 0 .. TTL["30d"]]
    /\ taken \in [Users -> Int]
    /\ pc \in [Requests -> {"idle", "checking", "admitted", "called", "answered",
                            "deducting"}]
    /\ rl \in [Requests -> Results]
    /\ header \in [Requests -> {"authorization", "api-key"}]
    /\ track \in [Requests -> BOOLEAN]
    /\ refunded \in [Requests -> BOOLEAN]
    /\ usage \in [Requests -> 0 .. MaxUsage]
    /\ charged \in [Requests -> Users]
    /\ spent \in [Users -> Nat]
    /\ delivered \in [Users -> [Ages -> Nat]]
    /\ {changes, errors, aborts} \subseteq Nat

ControlInv ==
    \A r \in Requests :
        /\ pc[r] = "idle" => ~refunded[r]
        /\ pc[r] = "checking" => rl[r].mode = "token"

LEMMA InitTypes == Init => TypeInv /\ ControlInv
<1> SUFFICES ASSUME Init PROVE TypeInv /\ ControlInv
  OBVIOUS
<1>1. idle \in [Users -> 0 .. TTL["30d"]]  BY ConstantTypes DEF Init
<1>2. usage \in [Requests -> 0 .. MaxUsage]  BY ConstantTypes DEF Init
<1>3. charged \in [Requests -> Users] /\ rl \in [Requests -> Results]
  BY ResultTypes DEF Init, Users
<1>4. QED  BY <1>1, <1>2, <1>3 DEF Init, TypeInv, ControlInv

\* A request that ends leaves nothing.
LEMMA EndTypes ==
    ASSUME TypeInv, ControlInv, NEW r \in Requests, End(r)
    PROVE  /\ pc' \in [Requests -> {"idle", "checking", "admitted", "called", "answered",
                                    "deducting"}]
           /\ rl' \in [Requests -> Results]
           /\ header' \in [Requests -> {"authorization", "api-key"}]
           /\ track' \in [Requests -> BOOLEAN]
           /\ refunded' \in [Requests -> BOOLEAN]
           /\ usage' \in [Requests -> 0 .. MaxUsage]
           /\ charged' \in [Requests -> Users]
           /\ ControlInv'
<1>1. 0 \in 0 .. MaxUsage /\ "nobody" \in Users  BY ConstantTypes DEF Users
<1>2. QED  BY <1>1, ResultTypes DEF End, TypeInv, ControlInv

LEMMA KeepTypes ==
    ASSUME TypeInv, NEW r \in Requests, Keep(r)
    PROVE  taken' \in [Users -> Int] /\ spent' \in [Users -> Nat]
<1>1. rl[r].user \in Users  BY DEF TypeInv, Results
<1>2. QED  BY <1>1 DEF Keep, TypeInv

LEMMA RefundTypes ==
    ASSUME TypeInv, NEW r \in Requests, RefundOnce(r)
    PROVE  taken' \in [Users -> Int]
<1>1. rl[r].user \in Users  BY DEF TypeInv, Results
<1>2. QED  BY <1>1 DEF RefundOnce, Refunded, TypeInv

LEMMA DeliveredTypes ==
    ASSUME TypeInv, NEW r \in Requests, NEW n \in 0 .. MaxUsage, Delivered(r, n)
    PROVE  delivered' \in [Users -> [Ages -> Nat]]
<1>1. rl[r].user \in Users /\ 0 \in Ages /\ n \in Nat
  <2>1. TTL["30d"] \in Nat \ {0} /\ MaxUsage \in Nat  BY ConstantTypes
  <2>2. QED  BY <2>1 DEF TypeInv, Results, Ages
<1>2. delivered[rl[r].user] \in [Ages -> Nat]  BY <1>1 DEF TypeInv
<1>3. [delivered[rl[r].user] EXCEPT ![0] = @ + n] \in [Ages -> Nat]  BY <1>1, <1>2
<1>4. QED  BY <1>1, <1>3 DEF Delivered, TypeInv

\* Results of the requests that arrive.
LEMMA ArriveTypes ==
    ASSUME TypeInv, ControlInv, NEW r \in Requests, NEW res \in Results,
           NEW next \in {"admitted", "checking"}, Arrive(r, next, res),
           next = "checking" => res.mode = "token"
    PROVE  /\ pc' \in [Requests -> {"idle", "checking", "admitted", "called", "answered",
                                    "deducting"}]
           /\ rl' \in [Requests -> Results]
           /\ header' \in [Requests -> {"authorization", "api-key"}]
           /\ ControlInv'
<1>1. PICK h \in Headers : header' = [header EXCEPT ![r] = h]  BY DEF Arrive
<1>2. h \in {"authorization", "api-key"}  BY GatewayAssumption DEF GatewayAssumption
<1>3. QED  BY <1>1, <1>2 DEF Arrive, TypeInv, ControlInv

LEMMA TickTypes ==
    ASSUME TypeInv, Tick
    PROVE  /\ used' \in [Users -> [Windows -> Nat]]
           /\ idle' \in [Users -> 0 .. TTL["30d"]]
           /\ delivered' \in [Users -> [Ages -> Nat]]
<1>1. TTL["30d"] \in Nat  BY ConstantTypes
<1>2. idle' \in [Users -> 0 .. TTL["30d"]]
  <2>1. \A u \in Users : idle[u] \in 0 .. TTL["30d"]  BY DEF TypeInv
  <2>2. idle' = [u \in Users |-> IF idle[u] < TTL["30d"] THEN idle[u] + 1 ELSE idle[u]]
    BY DEF Tick
  <2>3. QED  BY <1>1, <2>1, <2>2
<1>3. used' \in [Users -> [Windows -> Nat]]
  BY DEF Tick, TypeInv
<1>4. ASSUME NEW u \in Users, NEW a \in Ages
      PROVE  (IF a = 0 THEN 0 ELSE delivered[u][a - 1]) \in Nat
  <2>1. CASE a = 0  BY <2>1
  <2>2. CASE a # 0
    <3>1. a - 1 \in Ages  BY <1>1, <1>4, <2>2 DEF Ages
    <3>2. QED  BY <2>2, <3>1 DEF TypeInv
  <2>3. QED  BY <2>1, <2>2
<1>5. QED  BY <1>2, <1>3, <1>4 DEF Tick

LEMMA DeductTypes ==
    ASSUME TypeInv, NEW r \in Requests, Added(charged[r], usage[r])
    PROVE  used' \in [Users -> [Windows -> Nat]] /\ idle' \in [Users -> 0 .. TTL["30d"]]
<1>1. /\ charged[r] \in Users /\ usage[r] \in Nat /\ 0 \in 0 .. TTL["30d"]
  <2>1. TTL["30d"] \in Nat /\ MaxUsage \in Nat  BY ConstantTypes
  <2>2. QED  BY <2>1 DEF TypeInv
<1>2. \A i \in Windows : used[charged[r]][i] + usage[r] \in Nat  BY <1>1 DEF TypeInv
<1>3. QED  BY <1>1, <1>2 DEF Added, TypeInv

LEMMA NextTypes == TypeInv /\ ControlInv /\ [Next]_vars => TypeInv' /\ ControlInv'
<1> SUFFICES ASSUME TypeInv, ControlInv, [Next]_vars PROVE TypeInv' /\ ControlInv'
  OBVIOUS
<1> USE DEF vars, tokenVars, quotaVars, resultVars, boundVars
<1>1. \A u \in Users : UserOf(view) \in Users  BY ResultTypes DEF TypeInv
<1>2. ASSUME NEW r \in Requests, PassUnknown(r) PROVE TypeInv' /\ ControlInv'
  <2>1. Arrive(r, "admitted", Result("none", FALSE, "key", view = NoConfig))
        /\ UNCHANGED <<taken, errors>>
    BY <1>2 DEF PassUnknown
  <2>2. QED  BY <2>1, ArriveTypes, ResultTypes DEF Arrive, TypeInv
<1>3. ASSUME NEW r \in Requests, AdmitRequest(r) PROVE TypeInv' /\ ControlInv'
  <2>1. UserOf(view) \in Users  BY ResultTypes DEF TypeInv
  <2>2. /\ Arrive(r, "admitted", Result("request", TRUE, UserOf(view), TRUE))
        /\ taken' = [taken EXCEPT ![UserOf(view)] = @ + 1] /\ UNCHANGED errors
    BY <1>3 DEF AdmitRequest
  <2>3. taken' \in [Users -> Int]  BY <2>1, <2>2 DEF TypeInv
  <2>4. QED  BY <2>1, <2>2, <2>3, ArriveTypes, ResultTypes DEF Arrive, TypeInv
<1>4. ASSUME NEW r \in Requests, DegradeRequest(r) PROVE TypeInv' /\ ControlInv'
  <2>1. UserOf(view) \in Users  BY ResultTypes DEF TypeInv
  <2>2. /\ Arrive(r, "admitted", Result("request", FALSE, UserOf(view), TRUE))
        /\ errors' = errors + 1 /\ UNCHANGED taken
    BY <1>4 DEF DegradeRequest
  <2>3. Result("request", FALSE, UserOf(view), TRUE) \in Results  BY <2>1, ResultTypes
  <2>4. {changes', errors', aborts'} \subseteq Nat /\ taken' \in [Users -> Int]
    BY <2>2 DEF Arrive, TypeInv
  <2>5. QED  BY <2>2, <2>3, <2>4, ArriveTypes DEF Arrive, TypeInv
<1>5. ASSUME NEW r \in Requests, CheckToken(r) PROVE TypeInv' /\ ControlInv'
  <2>1. UserOf(view) \in Users  BY ResultTypes DEF TypeInv
  <2>2. /\ Arrive(r, "checking", Result("token", TRUE, UserOf(view), TRUE))
        /\ UNCHANGED <<taken, errors>>
    BY <1>5 DEF CheckToken
  <2>3. Result("token", TRUE, UserOf(view), TRUE).mode = "token"  BY DEF Result
  <2>4. QED  BY <2>1, <2>2, <2>3, ArriveTypes, ResultTypes DEF Arrive, TypeInv
<1>6. ASSUME NEW r \in Requests, AllowToken(r) \/ Forward(r) \/ UsageReported(r)
                                 \/ FindCharged(r) \/ StreamRefused(r)
      PROVE  TypeInv' /\ ControlInv'
  <2>1. CASE AllowToken(r)  BY <2>1 DEF AllowToken, TypeInv, ControlInv
  <2>2. CASE Forward(r)  BY <2>2 DEF Forward, TypeInv, ControlInv, Results
  <2>3. CASE UsageReported(r)
    <3>1. PICK n \in 1 .. MaxUsage : usage' = [usage EXCEPT ![r] = n] /\ Delivered(r, n)
      BY <2>3 DEF UsageReported
    <3>2. n \in 0 .. MaxUsage  BY ConstantTypes
    <3>3. QED  BY <2>3, <3>1, <3>2, DeliveredTypes DEF UsageReported, TypeInv, ControlInv
  <2>4. CASE FindCharged(r)
    <3>1. ChargedUser(view, header[r]) \in Users  BY ResultTypes DEF TypeInv
    <3>2. QED  BY <2>4, <3>1 DEF FindCharged, TypeInv, ControlInv
  <2>5. CASE StreamRefused(r)
    BY <2>5, RefundTypes DEF StreamRefused, TypeInv, ControlInv
  <2>6. QED  BY <1>6, <2>1, <2>2, <2>3, <2>4, <2>5
<1>7. ASSUME NEW r \in Requests, RefuseToken(r) PROVE TypeInv' /\ ControlInv'
  BY <1>7, EndTypes DEF RefuseToken, TypeInv
<1>8. ASSUME NEW r \in Requests, DegradeToken(r) PROVE TypeInv' /\ ControlInv'
  <2>1. /\ errors' = errors + 1 /\ pc[r] = "checking"
        /\ UNCHANGED <<view, tokenVars, quotaVars, delivered, changes, aborts>>
    BY <1>8 DEF DegradeToken
  <2>2. CASE End(r)  BY <2>1, <2>2, EndTypes DEF TypeInv
  <2>3. CASE ~End(r)
    <3>1. /\ pc' = [pc EXCEPT ![r] = "admitted"]
          /\ rl' = [rl EXCEPT ![r].counted = FALSE]
          /\ UNCHANGED <<header, track, refunded, usage, charged>>
      BY <1>8, <2>3 DEF DegradeToken
    <3>2. rl' \in [Requests -> Results]
      <4>1. rl[r] \in Results  BY DEF TypeInv
      <4>2. [rl[r] EXCEPT !.counted = FALSE] \in Results  BY <4>1 DEF Results
      <4>3. rl' = [rl EXCEPT ![r] = [rl[r] EXCEPT !.counted = FALSE]]  BY <3>1
      <4>4. QED  BY <4>2, <4>3 DEF TypeInv
    <3>3. QED  BY <2>1, <3>1, <3>2 DEF TypeInv, ControlInv
  <2>4. QED  BY <2>2, <2>3
<1>9. ASSUME NEW r \in Requests, BodyFails(r) \/ ClientLeaves(r) PROVE TypeInv' /\ ControlInv'
  <2>1. /\ Keep(r) /\ End(r) /\ aborts' = aborts + 1
        /\ UNCHANGED <<view, tokenVars, delivered, changes, errors>>
    BY <1>9 DEF BodyFails, ClientLeaves
  <2>2. QED  BY <2>1, EndTypes, KeepTypes DEF TypeInv
<1>10. ASSUME NEW r \in Requests, CallFails(r) PROVE TypeInv' /\ ControlInv'
  BY <1>10, EndTypes, RefundTypes DEF CallFails, TypeInv
<1>11. ASSUME NEW r \in Requests, ResponseEnds(r) PROVE TypeInv' /\ ControlInv'
  <2>1. PICK n \in 0 .. MaxUsage : Delivered(r, n)  BY <1>11 DEF ResponseEnds
  <2>2. QED
    BY <1>11, <2>1, DeliveredTypes, EndTypes, KeepTypes DEF ResponseEnds, TypeInv
<1>12. ASSUME NEW r \in Requests, NobodyToCharge(r) PROVE TypeInv' /\ ControlInv'
  BY <1>12, EndTypes, KeepTypes DEF NobodyToCharge, TypeInv
<1>13. ASSUME NEW r \in Requests, Deduct(r) PROVE TypeInv' /\ ControlInv'
  BY <1>13, EndTypes, KeepTypes, DeductTypes DEF Deduct, TypeInv
<1>14. ASSUME NEW r \in Requests, DeductFails(r) PROVE TypeInv' /\ ControlInv'
  BY <1>14, EndTypes, KeepTypes DEF DeductFails, TypeInv
<1>15. CASE ViewChanges  BY <1>15 DEF ViewChanges, TypeInv, ControlInv
<1>16. CASE Tick  BY <1>16, TickTypes DEF Tick, TypeInv, ControlInv
<1>17. CASE UNCHANGED vars  BY <1>17 DEF TypeInv, ControlInv
<1>18. QED
  BY <1>2, <1>3, <1>4, <1>5, <1>6, <1>7, <1>8, <1>9, <1>10, <1>11, <1>12, <1>13, <1>14,
     <1>15, <1>16, <1>17
  DEF Next, Checks, Call, Charge

-----------------------------------------------------------------------------
(* How a step moves quota *)

\* Request r takes a unit of u's quota, keeps it for good, or returns it; no other
\* request gains or loses any.
Takes(r, u) ==
    /\ \A v \in Users : r \notin Holders(v)
    /\ taken[u] < Capacity
    /\ \A v \in Users : Holders(v)' = IF v = u THEN Holders(v) \cup {r} ELSE Holders(v)
    /\ taken' = [taken EXCEPT ![u] = @ + 1]
    /\ spent' = spent
Loses(r, u) ==
    /\ r \in Holders(u)
    /\ \A v \in Users : Holders(v)' = IF v = u THEN Holders(v) \ {r} ELSE Holders(v)
Keeps(r, u) ==
    Loses(r, u) /\ spent' = [spent EXCEPT ![u] = @ + 1] /\ taken' = taken
Returns(r, u) ==
    Loses(r, u) /\ taken' = [taken EXCEPT ![u] = @ - 1] /\ spent' = spent
MovesNothing ==
    (\A v \in Users : Holders(v)' = Holders(v)) /\ UNCHANGED <<taken, spent>>

QuotaStep ==
    \/ MovesNothing
    \/ \E r \in Requests, u \in Users : Takes(r, u) \/ Keeps(r, u) \/ Returns(r, u)

\* A step of request r leaves what the others hold.
OnlyRequest(r) ==
    \A q \in Requests \ {r} : pc'[q] = pc[q] /\ rl'[q] = rl[q] /\ refunded'[q] = refunded[q]

LEMMA HoldersOfOthers ==
    ASSUME NEW r \in Requests, OnlyRequest(r)
    PROVE  /\ ~Holds(r) /\ ~Holds(r)' => \A v \in Users : Holders(v)' = Holders(v)
           /\ Holds(r) /\ ~Holds(r)' => \A v \in Users : Holders(v)' =
                IF v = rl[r].user THEN Holders(v) \ {r} ELSE Holders(v)
           /\ ~Holds(r) /\ Holds(r)' => \A v \in Users : Holders(v)' =
                IF v = rl'[r].user THEN Holders(v) \cup {r} ELSE Holders(v)
           /\ Holds(r) /\ Holds(r)' /\ rl'[r].user = rl[r].user
                => \A v \in Users : Holders(v)' = Holders(v)
BY DEF OnlyRequest, Holders, Holds

LEMMA EndOnly ==
    ASSUME TypeInv, NEW r \in Requests, End(r)
    PROVE  OnlyRequest(r) /\ ~Holds(r)'
BY DEF End, OnlyRequest, Holds, TypeInv

LEMMA KeepStep ==
    ASSUME TypeInv, NEW r \in Requests, Keep(r), End(r)
    PROVE  QuotaStep
<1>1. OnlyRequest(r) /\ ~Holds(r)'  BY EndOnly
<1>2. rl[r].user \in Users  BY DEF TypeInv, Results
<1>3. CASE Holds(r)
  <2>1. r \in Holders(rl[r].user)  BY <1>3 DEF Holders
  <2>2. Keeps(r, rl[r].user)
    BY <1>1, <1>3, <2>1, HoldersOfOthers DEF Keep, Keeps, Loses
  <2>3. QED  BY <1>2, <2>2 DEF QuotaStep
<1>4. CASE ~Holds(r)
  BY <1>1, <1>4, HoldersOfOthers DEF Keep, QuotaStep, MovesNothing
<1>5. QED  BY <1>3, <1>4

LEMMA RefundStep ==
    ASSUME TypeInv, NEW r \in Requests, pc[r] = "called", RefundOnce(r), spent' = spent,
           OnlyRequest(r), ~Holds(r)'
    PROVE  QuotaStep
<1>1. rl[r].user \in Users  BY DEF TypeInv, Results
<1>2. CASE Holds(r)
  <2>1. r \in Holders(rl[r].user)  BY <1>2 DEF Holders
  <2>2. taken' = [taken EXCEPT ![rl[r].user] = @ - 1]
    BY <1>2 DEF Holds, RefundOnce, Refunded
  <2>3. Returns(r, rl[r].user)
    BY <1>2, <2>1, <2>2, HoldersOfOthers DEF Returns, Loses
  <2>4. QED  BY <1>1, <2>3 DEF QuotaStep
<1>3. CASE ~Holds(r)
  <2>1. taken' = taken  BY <1>3 DEF Holds, RefundOnce, Refunded
  <2>2. QED  BY <1>3, <2>1, HoldersOfOthers DEF QuotaStep, MovesNothing
<1>4. QED  BY <1>2, <1>3

LEMMA NextQuota == TypeInv /\ ControlInv /\ [Next]_vars => QuotaStep
<1> SUFFICES ASSUME TypeInv, ControlInv, [Next]_vars PROVE QuotaStep
  OBVIOUS
<1> USE DEF vars, tokenVars, quotaVars, resultVars, boundVars
<1>1. ASSUME NEW r \in Requests, NEW next \in {"admitted", "checking"}, NEW res,
             Arrive(r, next, res)
      PROVE  /\ OnlyRequest(r) /\ ~Holds(r) /\ rl'[r] = res /\ spent' = spent
             /\ Holds(r)' <=> res.mode = "request" /\ res.counted
  <2>1. pc[r] = "idle" /\ pc' = [pc EXCEPT ![r] = next] /\ rl' = [rl EXCEPT ![r] = res]
        /\ refunded' = refunded /\ spent' = spent
    BY <1>1 DEF Arrive
  <2>2. pc'[r] = next /\ next # "idle" /\ rl'[r] = res /\ ~refunded'[r]
    BY <1>1, <2>1 DEF TypeInv, ControlInv
  <2>3. Holds(r)' <=> res.mode = "request" /\ res.counted
    BY <2>2, Zenon DEF Holds
  <2>4. QED  BY <2>1, <2>2, <2>3 DEF OnlyRequest, Holds
<1>2. ASSUME NEW r \in Requests, PassUnknown(r) \/ DegradeRequest(r) \/ CheckToken(r)
      PROVE  QuotaStep
  <2>1. /\ \E res \in {Result("none", FALSE, "key", view = NoConfig),
                       Result("request", FALSE, UserOf(view), TRUE),
                       Result("token", TRUE, UserOf(view), TRUE)},
              next \in {"admitted", "checking"} : Arrive(r, next, res)
        /\ taken' = taken
    BY <1>2 DEF PassUnknown, DegradeRequest, CheckToken
  <2>2. OnlyRequest(r) /\ ~Holds(r) /\ ~Holds(r)' /\ spent' = spent
    BY <1>1, <2>1 DEF Result
  <2>3. QED  BY <2>1, <2>2, HoldersOfOthers DEF QuotaStep, MovesNothing
<1>3. ASSUME NEW r \in Requests, AdmitRequest(r) PROVE QuotaStep
  <2> DEFINE u == UserOf(view)
  <2>1. u \in Users  BY ResultTypes DEF TypeInv
  <2>2. /\ Arrive(r, "admitted", Result("request", TRUE, u, TRUE))
        /\ taken[u] < Capacity /\ taken' = [taken EXCEPT ![u] = @ + 1]
    BY <1>3 DEF AdmitRequest
  <2>3. /\ OnlyRequest(r) /\ ~Holds(r) /\ Holds(r)' /\ spent' = spent
        /\ rl'[r].user = u
    BY <1>1, <2>2 DEF Result
  <2>4. Takes(r, u)
    BY <2>2, <2>3, HoldersOfOthers DEF Takes, Holders
  <2>5. QED  BY <2>1, <2>4 DEF QuotaStep
<1>4. ASSUME NEW r \in Requests, AllowToken(r) \/ Forward(r) \/ UsageReported(r)
                                 \/ FindCharged(r)
      PROVE  QuotaStep
  <2>1. /\ \E p \in {"admitted", "called", "answered", "deducting"} :
              pc[r] # "idle" /\ pc' = [pc EXCEPT ![r] = p]
        /\ UNCHANGED <<rl, refunded, taken, spent>>
    BY <1>4 DEF AllowToken, Forward, UsageReported, FindCharged
  <2>2. OnlyRequest(r) /\ (Holds(r) <=> Holds(r)')
    BY <2>1 DEF OnlyRequest, Holds, TypeInv
  <2>3. QED  BY <2>1, <2>2, HoldersOfOthers DEF QuotaStep, MovesNothing
<1>5. ASSUME NEW r \in Requests, StreamRefused(r) PROVE QuotaStep
  BY <1>5, RefundStep DEF StreamRefused, OnlyRequest, Holds, TypeInv
<1>6. ASSUME NEW r \in Requests, CallFails(r) PROVE QuotaStep
  BY <1>6, RefundStep, EndOnly DEF CallFails
<1>7. ASSUME NEW r \in Requests,
             \/ BodyFails(r) \/ ClientLeaves(r) \/ ResponseEnds(r)
             \/ NobodyToCharge(r) \/ Deduct(r) \/ DeductFails(r)
      PROVE  QuotaStep
  BY <1>7, KeepStep
  DEF BodyFails, ClientLeaves, ResponseEnds, NobodyToCharge, Deduct, DeductFails
<1>8. ASSUME NEW r \in Requests, RefuseToken(r) \/ DegradeToken(r) PROVE QuotaStep
  <2>1. pc[r] = "checking" /\ UNCHANGED <<taken, spent>>
    BY <1>8 DEF RefuseToken, DegradeToken
  <2>2. rl[r].mode = "token"  BY <1>8, <2>1 DEF ControlInv
  <2>3. OnlyRequest(r) /\ ~Holds(r) /\ ~Holds(r)'
    <3>1. CASE End(r)  BY <2>2, <3>1, EndOnly DEF Holds
    <3>2. CASE ~End(r)
      <4>1. /\ pc' = [pc EXCEPT ![r] = "admitted"]
            /\ rl' = [rl EXCEPT ![r].counted = FALSE]
            /\ refunded' = refunded
        BY <1>8, <3>2 DEF RefuseToken, DegradeToken
      <4>2. QED  BY <2>2, <4>1 DEF OnlyRequest, Holds, TypeInv
    <3>3. QED  BY <3>1, <3>2
  <2>4. QED  BY <2>1, <2>3, HoldersOfOthers DEF QuotaStep, MovesNothing
<1>9. CASE ViewChanges \/ Tick \/ UNCHANGED vars
  <2>1. UNCHANGED <<pc, rl, refunded, taken, spent>>
    BY <1>9 DEF ViewChanges, Tick
  <2>2. QED  BY <2>1 DEF QuotaStep, MovesNothing, Holders, Holds
<1>10. QED
  BY <1>2, <1>3, <1>4, <1>5, <1>6, <1>7, <1>8, <1>9 DEF Next, Checks, Call, Charge

-----------------------------------------------------------------------------
(* The theorems about quota *)

LEMMA HoldersFinite == \A u \in Users : IsFiniteSet(Holders(u)) /\ Cardinality(Holders(u)) \in Nat
<1>1. \A u \in Users : Holders(u) \in SUBSET Requests  BY DEF Holders
<1>2. QED  BY <1>1, ConstantTypes, FS_Subset, FS_CardinalityType

LEMMA InitQuota == Init => QuotaConserved
<1>1. Init => \A u \in Users : Holders(u) = {}  BY DEF Init, Holders, Holds
<1>2. Cardinality({}) = 0  BY FS_EmptySet
<1>3. Init => \A u \in Users : taken[u] = 0 /\ spent[u] = 0  BY DEF Init
<1>4. QED  BY <1>1, <1>2, <1>3 DEF QuotaConserved

LEMMA NextConserved == TypeInv /\ QuotaConserved /\ QuotaStep => QuotaConserved'
<1> SUFFICES ASSUME TypeInv, QuotaConserved, QuotaStep, NEW v \in Users
             PROVE  taken'[v] = spent'[v] + Cardinality(Holders(v)')
  BY DEF QuotaConserved
<1>1. /\ taken[v] = spent[v] + Cardinality(Holders(v))
      /\ taken \in [Users -> Int] /\ spent \in [Users -> Nat]
      /\ IsFiniteSet(Holders(v)) /\ Cardinality(Holders(v)) \in Nat
  BY HoldersFinite DEF QuotaConserved, TypeInv
<1>2. CASE MovesNothing  BY <1>1, <1>2 DEF MovesNothing
<1>3. ASSUME NEW r \in Requests, NEW u \in Users, Takes(r, u)
      PROVE  taken'[v] = spent'[v] + Cardinality(Holders(v)')
  <2>1. CASE v = u
    <3>1. Holders(v)' = Holders(v) \cup {r} /\ r \notin Holders(v)
      BY <1>3, <2>1 DEF Takes
    <3>2. Cardinality(Holders(v)') = Cardinality(Holders(v)) + 1
      BY <1>1, <3>1, FS_AddElement
    <3>3. QED  BY <1>1, <1>3, <2>1, <3>2 DEF Takes
  <2>2. CASE v # u  BY <1>1, <1>3, <2>2 DEF Takes
  <2>3. QED  BY <2>1, <2>2
<1>4. ASSUME NEW r \in Requests, NEW u \in Users, Keeps(r, u) \/ Returns(r, u)
      PROVE  taken'[v] = spent'[v] + Cardinality(Holders(v)')
  <2>1. CASE v = u
    <3>1. Holders(v)' = Holders(v) \ {r} /\ r \in Holders(v)
      BY <1>4, <2>1 DEF Keeps, Returns, Loses
    <3>2. Cardinality(Holders(v)') = Cardinality(Holders(v)) - 1
      BY <1>1, <3>1, FS_RemoveElement
    <3>3. QED  BY <1>1, <1>4, <2>1, <3>2 DEF Keeps, Returns
  <2>2. CASE v # u  BY <1>1, <1>4, <2>2 DEF Keeps, Returns, Loses
  <2>3. QED  BY <2>1, <2>2
<1>5. QED  BY <1>2, <1>3, <1>4 DEF QuotaStep

QuotaInv == TypeInv /\ ControlInv /\ QuotaConserved

LEMMA InitInv == Init => QuotaInv
BY InitTypes, InitQuota DEF QuotaInv

LEMMA NextInv == QuotaInv /\ [Next]_vars => QuotaInv' /\ QuotaStep
<1> SUFFICES ASSUME QuotaInv, [Next]_vars PROVE QuotaInv' /\ QuotaStep
  OBVIOUS
<1>1. TypeInv' /\ ControlInv'  BY NextTypes DEF QuotaInv
<1>2. QuotaStep  BY NextQuota DEF QuotaInv
<1>3. QuotaConserved'  BY <1>2, NextConserved DEF QuotaInv
<1>4. QED  BY <1>1, <1>2, <1>3 DEF QuotaInv

\* However responses end, whatever fails and however often the policy changes, what a
\* user has taken belongs to a request under way or to one that did not fail.
THEOREM QuotaIsConserved == Spec => []QuotaConserved
<1>1. QuotaInv => QuotaConserved  BY DEF QuotaInv
<1>2. QED  BY <1>1, InitInv, NextInv, PTL DEF Spec

\* In particular no quota is given back that was never taken.
THEOREM TypesHold == Spec => []TypeOK
<1>1. QuotaInv => TypeOK
  <2> SUFFICES ASSUME QuotaInv PROVE TypeOK
    OBVIOUS
  <2>1. \A u \in Users : taken[u] \in Nat
    BY HoldersFinite DEF QuotaInv, QuotaConserved, TypeInv
  <2>2. taken \in [Users -> Nat]  BY <2>1 DEF QuotaInv, TypeInv
  <2>3. QED  BY <2>2 DEF QuotaInv, TypeInv, TypeOK, Results
<1>2. QED  BY <1>1, InitInv, NextInv, PTL DEF Spec

\* The proxy is a ledger of request-count quota: only a request that has taken some
\* returns it, to the user it took it from, and once.
THEOREM LedgerImplemented == Spec => ImplementsLedger
<1> DEFINE holding == [u \in Users |-> Holders(u)]
           lost == [u \in Users |-> 0]
<1>1. Init => Ledger!Init
  <2>1. Init => \A u \in Users : Holders(u) = {}  BY DEF Init, Holders, Holds
  <2>2. QED  BY <2>1 DEF Init, Ledger!Init
<1>2. TypeInv /\ QuotaStep => [Ledger!Next]_Ledger!ledgerVars
  <2> SUFFICES ASSUME TypeInv, QuotaStep PROVE [Ledger!Next]_Ledger!ledgerVars
    OBVIOUS
  <2> USE DEF Ledger!Next, Ledger!ledgerVars
  <2>1. taken \in [Users -> Int]  BY DEF TypeInv
  <2>2. CASE MovesNothing
    <3>1. holding' = holding /\ taken' = taken  BY <2>2 DEF MovesNothing
    <3>2. QED  BY <3>1
  <2>3. ASSUME NEW r \in Requests, NEW u \in Users, Takes(r, u)
        PROVE  Ledger!Admit(r, u)
    <3>1. holding' = [holding EXCEPT ![u] = @ \cup {r}]  BY <2>3 DEF Takes
    <3>2. taken[u] < Capacity + lost[u]  BY <2>1, <2>3, ConstantTypes DEF Takes
    <3>3. QED  BY <2>3, <3>1, <3>2 DEF Takes, Ledger!Admit
  <2>4. ASSUME NEW r \in Requests, NEW u \in Users, Keeps(r, u)
        PROVE  Ledger!Spend(r, u)
    <3>1. holding' = [holding EXCEPT ![u] = @ \ {r}]  BY <2>4 DEF Keeps, Loses
    <3>2. QED  BY <2>4, <3>1 DEF Keeps, Loses, Ledger!Spend
  <2>5. ASSUME NEW r \in Requests, NEW u \in Users, Returns(r, u)
        PROVE  Ledger!GiveBack(r, u)
    <3>1. holding' = [holding EXCEPT ![u] = @ \ {r}]  BY <2>5 DEF Returns, Loses
    <3>2. QED  BY <2>5, <3>1 DEF Returns, Loses, Ledger!GiveBack
  <2>6. QED  BY <2>2, <2>3, <2>4, <2>5 DEF QuotaStep
<1>3. QuotaInv => TypeInv  BY DEF QuotaInv
<1>4. QED  BY <1>1, <1>2, <1>3, InitInv, NextInv, PTL DEF Spec, ImplementsLedger, Ledger!Spec

-----------------------------------------------------------------------------
(* While the policy stays and Redis answers: who is charged, and how much *)

OneHeader == Headers \subseteq {"authorization"}
Settled == changes = 0 /\ errors = 0

\* Requests that the check has let through and whose response has not ended.
Calling == {r \in Requests : pc[r] \in {"admitted", "called", "answered", "deducting"}}

\* All three lookups of a request see the same policy.
Steady(r) ==
    /\ header[r] = "authorization"
    /\ pc[r] # "idle" /\ view.type = "token"
          => rl[r] = Result("token", TRUE, UserOf(view), TRUE)
    /\ pc[r] # "idle" /\ view.type # "token" => rl[r].mode # "token"
    /\ track[r] => view.type = "token"
    /\ pc[r] \in {"answered", "deducting"} => track[r]
    /\ pc[r] = "called" /\ view.type = "token" => track[r]
    /\ pc[r] = "deducting" => charged[r] = UserOf(view)

\* Nobody but the policy's user is charged ...
Clean ==
    \A u \in Users, i \in Windows :
        view.type # "token" \/ u # UserOf(view) => used[u][i] = 0

\* ... and every response under way may still add its tokens.
Room ==
    \A u \in Users, i \in Windows :
        used[u][i] + MaxUsage * Cardinality(Calling)
            <= TokenLimit[i] - 1 + MaxUsage * Cardinality(Requests)

SteadyInv == Settled => (\A r \in Requests : Steady(r)) /\ Clean /\ Room

LEMMA Products ==
    \A m, a, b \in Nat : /\ m * a \in Nat
                         /\ a <= b => m * a <= m * b
                         /\ a >= 1 => m * (a - 1) = m * a - m
<1>1. \A m, a \in Nat : m * a \in Nat  OBVIOUS
<1>2. \A m, a, b \in Nat : a <= b => m * a <= m * b
  <2> SUFFICES ASSUME NEW m \in Nat, NEW a \in Nat, NEW b \in Nat, a <= b
               PROVE  m * a <= m * b
    OBVIOUS
  <2>1. b - a \in Nat  OBVIOUS
  <2>2. m * (b - a) \in Nat  BY <2>1
  <2>3. m * (b - a) = m * b - m * a  BY <2>1
  <2>4. QED  BY <2>2, <2>3
<1>3. \A m, a \in Nat : m * (a - 1) = m * a - m  OBVIOUS
<1>4. QED  BY <1>1, <1>2, <1>3

LEMMA CallingFinite ==
    /\ IsFiniteSet(Calling)
    /\ Cardinality(Calling) \in Nat /\ Cardinality(Requests) \in Nat
    /\ Cardinality(Calling) <= Cardinality(Requests)
    /\ IsFiniteSet(Calling')
    /\ Cardinality(Calling') \in Nat
    /\ Cardinality(Calling') <= Cardinality(Requests)
<1>1. Calling \in SUBSET Requests /\ Calling' \in SUBSET Requests  BY DEF Calling
<1>2. QED  BY <1>1, ConstantTypes, FS_Subset, FS_CardinalityType

\* A step keeps Room if it charges nothing and lets nobody in, if it leaves a user below
\* its limits, or if it charges one response and lets it go.
LEMMA RoomStep ==
    ASSUME TypeInv, TypeInv', Room,
           \A u \in Users, i \in Windows :
              \/ /\ used'[u][i] <= used[u][i]
                 /\ Cardinality(Calling') <= Cardinality(Calling)
              \/ used'[u][i] < TokenLimit[i]
              \/ /\ used'[u][i] <= used[u][i] + MaxUsage
                 /\ Cardinality(Calling') = Cardinality(Calling) - 1
    PROVE  Room'
<1> SUFFICES ASSUME NEW u \in Users, NEW i \in Windows
             PROVE  used'[u][i] + MaxUsage * Cardinality(Calling')
                       <= TokenLimit[i] - 1 + MaxUsage * Cardinality(Requests)
  BY DEF Room
<1> DEFINE m == MaxUsage
           c == Cardinality(Calling)
           d == Cardinality(Calling')
           n == Cardinality(Requests)
<1>1. /\ used[u][i] \in Nat /\ used'[u][i] \in Nat /\ m \in Nat /\ TokenLimit[i] \in Nat
      /\ c \in Nat /\ d \in Nat /\ n \in Nat /\ d <= n
  BY ConstantTypes, CallingFinite DEF TypeInv
<1>2. used[u][i] + m * c <= TokenLimit[i] - 1 + m * n  BY DEF Room
<1>3. m * c \in Nat /\ m * d \in Nat /\ m * n \in Nat  BY <1>1, Products
<1> HIDE DEF m, c, d, n
<1>4. CASE used'[u][i] <= used[u][i] /\ d <= c
  <2>1. m * d <= m * c  BY <1>1, <1>4, Products
  <2>2. used'[u][i] + m * d <= TokenLimit[i] - 1 + m * n  BY <1>1, <1>2, <1>3, <1>4, <2>1
  <2>3. QED  BY <2>2 DEF m, d, n
<1>5. CASE used'[u][i] < TokenLimit[i]
  <2>1. m * d <= m * n  BY <1>1, Products
  <2>2. used'[u][i] + m * d <= TokenLimit[i] - 1 + m * n  BY <1>1, <1>3, <1>5, <2>1
  <2>3. QED  BY <2>2 DEF m, d, n
<1>6. CASE used'[u][i] <= used[u][i] + m /\ d = c - 1
  <2>1. c >= 1  BY <1>1, <1>6
  <2>2. m * d = m * c - m  BY <1>1, <1>6, <2>1, Products
  <2>3. used'[u][i] + m * d <= TokenLimit[i] - 1 + m * n  BY <1>1, <1>2, <1>3, <1>6, <2>2
  <2>4. QED  BY <2>3 DEF m, d, n
<1>7. QED  BY <1>4, <1>5, <1>6 DEF m, c, d

\* A step of request r leaves the other requests as they are.
OnlyCall(r) ==
    \A q \in Requests \ {r} :
        /\ pc'[q] = pc[q] /\ rl'[q] = rl[q] /\ header'[q] = header[q]
        /\ track'[q] = track[q] /\ charged'[q] = charged[q]

LEMMA OthersSteady ==
    ASSUME NEW r \in Requests, OnlyCall(r), view' = view, \A q \in Requests : Steady(q),
           Steady(r)'
    PROVE  \A q \in Requests : Steady(q)'
<1> SUFFICES ASSUME NEW q \in Requests, q # r PROVE Steady(q)'
  OBVIOUS
<1>1. /\ pc'[q] = pc[q] /\ rl'[q] = rl[q] /\ header'[q] = header[q]
      /\ track'[q] = track[q] /\ charged'[q] = charged[q]
  BY DEF OnlyCall
<1>2. Steady(q)  OBVIOUS
<1>3. QED  BY <1>1, <1>2, Zenon DEF Steady, UserOf

LEMMA EndSteady ==
    ASSUME TypeInv, NEW r \in Requests, End(r)
    PROVE  OnlyCall(r) /\ Steady(r)' /\ Calling' = Calling \ {r}
BY DEF End, OnlyCall, Steady, TypeInv, Calling

\* Where r is leaves or enters Calling.
LEMMA CallingStep ==
    ASSUME NEW r \in Requests, OnlyCall(r)
    PROVE  /\ r \notin Calling' \/ r \in Calling
                 => Cardinality(Calling') <= Cardinality(Calling)
           /\ r \in Calling /\ r \notin Calling'
                 => Cardinality(Calling') = Cardinality(Calling) - 1
<1>1. r \notin Calling' \/ r \in Calling => Calling' \in SUBSET Calling
  BY DEF Calling, OnlyCall
<1>2. r \in Calling /\ r \notin Calling' => Calling' = Calling \ {r}
  BY DEF Calling, OnlyCall
<1>3. QED  BY <1>1, <1>2, CallingFinite, FS_Subset, FS_RemoveElement

LEMMA InitSteady == ASSUME OneHeader PROVE Init => SteadyInv
<1> SUFFICES ASSUME Init PROVE (\A r \in Requests : Steady(r)) /\ Clean /\ Room
  BY DEF SteadyInv
<1>1. \A r \in Requests : Steady(r)  BY DEF Init, Steady
<1>2. Clean  BY DEF Init, Clean
<1>3. Calling = {}  BY DEF Init, Calling
<1>4. ASSUME NEW u \in Users, NEW i \in Windows
      PROVE  used[u][i] + MaxUsage * Cardinality(Calling)
                <= TokenLimit[i] - 1 + MaxUsage * Cardinality(Requests)
  <2>1. Cardinality(Calling) = 0  BY <1>3, FS_EmptySet
  <2>2. MaxUsage * 0 = 0 /\ used[u][i] = 0  BY ConstantTypes DEF Init
  <2>3. MaxUsage * Cardinality(Requests) \in Nat
    BY ConstantTypes, CallingFinite, Products
  <2>4. TokenLimit[i] \in Nat \ {0}  BY ConstantTypes
  <2>5. QED  BY <2>1, <2>2, <2>3, <2>4
<1>5. QED  BY <1>1, <1>2, <1>4 DEF Room

\* Requests that arrive are steady.
LEMMA ArriveSteady ==
    ASSUME OneHeader, TypeInv, NEW r \in Requests, Steady(r),
           NEW next \in {"admitted", "checking"}, NEW res, Arrive(r, next, res),
           view.type = "token" => res = Result("token", TRUE, UserOf(view), TRUE),
           view.type # "token" => res.mode # "token"
    PROVE  OnlyCall(r) /\ Steady(r)' /\ view' = view
<1>1. PICK h \in Headers : header' = [header EXCEPT ![r] = h]  BY DEF Arrive
<1>2. h = "authorization"  BY DEF OneHeader
<1>3. /\ pc[r] = "idle" /\ pc' = [pc EXCEPT ![r] = next] /\ rl' = [rl EXCEPT ![r] = res]
      /\ UNCHANGED <<view, track, charged>>
  BY DEF Arrive
<1>4. pc'[r] = next /\ rl'[r] = res /\ header'[r] = "authorization" /\ track'[r] = track[r]
  BY <1>1, <1>2, <1>3 DEF TypeInv
<1>5. Steady(r)'  BY <1>3, <1>4, Zenon DEF Steady
<1>6. OnlyCall(r)  BY <1>1, <1>3 DEF OnlyCall
<1>7. QED  BY <1>3, <1>5, <1>6

LEMMA NextSteady ==
    ASSUME OneHeader
    PROVE  TypeInv /\ TypeInv' /\ ControlInv /\ SteadyInv /\ [Next]_vars => SteadyInv'
<1> SUFFICES ASSUME TypeInv, TypeInv', ControlInv, SteadyInv, [Next]_vars, Settled'
             PROVE  (\A r \in Requests : Steady(r)') /\ Clean' /\ Room'
  BY DEF SteadyInv
<1> USE DEF vars, tokenVars, quotaVars, resultVars, boundVars
<1>1. changes \in Nat /\ errors \in Nat  BY DEF TypeInv
<1>2. ASSUME changes' = changes, errors' = errors
      PROVE  (\A r \in Requests : Steady(r)) /\ Clean /\ Room
  BY <1>2 DEF SteadyInv, Settled
\* What a step of one request has to show.
<1>3. ASSUME NEW r \in Requests, changes' = changes, errors' = errors, OnlyCall(r),
             Steady(r)', view' = view, used' = used,
             r \notin Calling' \/ r \in Calling \/ view.type # "token"
                               \/ \A i \in Windows : used[UserOf(view)][i] < TokenLimit[i]
      PROVE  (\A q \in Requests : Steady(q)') /\ Clean' /\ Room'
  <2>1. (\A q \in Requests : Steady(q)) /\ Clean /\ Room  BY <1>2, <1>3
  <2>2. \A q \in Requests : Steady(q)'  BY <1>3, <2>1, OthersSteady
  <2>3. Clean'  BY <1>3, <2>1 DEF Clean, UserOf
  <2>4. Room'
    <3>1. CASE r \notin Calling' \/ r \in Calling
      <4>1. Cardinality(Calling') <= Cardinality(Calling)  BY <1>3, <3>1, CallingStep
      <4>2. \A u \in Users, i \in Windows : used'[u][i] <= used[u][i]
        BY <1>3 DEF TypeInv
      <4>3. QED  BY <2>1, <4>1, <4>2, RoomStep
    <3>2. CASE \/ view.type # "token"
               \/ \A i \in Windows : used[UserOf(view)][i] < TokenLimit[i]
      <4>1. \A u \in Users, i \in Windows : used'[u][i] < TokenLimit[i]
        BY <1>3, <2>1, <3>2, ConstantTypes DEF Clean
      <4>2. QED  BY <2>1, <4>1, RoomStep
    <3>3. QED  BY <1>3, <3>1, <3>2
  <2>5. QED  BY <2>2, <2>3, <2>4
<1>4. ASSUME NEW r \in Requests, PassUnknown(r) \/ AdmitRequest(r) \/ CheckToken(r)
      PROVE  (\A q \in Requests : Steady(q)') /\ Clean' /\ Room'
  <2>1. /\ changes' = changes /\ errors' = errors /\ used' = used
        /\ \/ /\ view.type # "token"
              /\ \E res \in {Result("none", FALSE, "key", view = NoConfig),
                             Result("request", TRUE, UserOf(view), TRUE)} :
                    Arrive(r, "admitted", res)
           \/ /\ view.type = "token"
              /\ Arrive(r, "checking", Result("token", TRUE, UserOf(view), TRUE))
    <3>1. CASE PassUnknown(r)
      <4>1. view.type # "token"  BY <3>1 DEF PassUnknown, NoKey, NoConfig
      <4>2. QED  BY <3>1, <4>1 DEF PassUnknown, Arrive
    <3>2. CASE AdmitRequest(r)
      <4>1. view.type # "token"  BY <3>2 DEF AdmitRequest
      <4>2. QED  BY <3>2, <4>1 DEF AdmitRequest, Arrive
    <3>3. CASE CheckToken(r)  BY <3>3 DEF CheckToken, Arrive
    <3>4. QED  BY <1>4, <3>1, <3>2, <3>3
  <2>2. Steady(r)  BY <1>2, <2>1
  <2>3. OnlyCall(r) /\ Steady(r)' /\ view' = view
    <3>1. CASE view.type # "token"
      BY <2>1, <2>2, <3>1, ArriveSteady DEF Result
    <3>2. CASE view.type = "token"
      BY <2>1, <2>2, <3>2, ArriveSteady
    <3>3. QED  BY <3>1, <3>2
  <2>4. view.type = "token" => r \notin Calling'
    <3>1. view.type = "token" => pc' = [pc EXCEPT ![r] = "checking"]
      BY <2>1 DEF Arrive
    <3>2. QED  BY <3>1 DEF Calling, TypeInv
  <2>5. QED  BY <1>3, <2>1, <2>3, <2>4
<1>5. ASSUME NEW r \in Requests,
             \/ DegradeRequest(r) \/ DegradeToken(r) \/ DeductFails(r)
      PROVE  FALSE
  <2>1. errors' = errors + 1
    BY <1>5 DEF DegradeRequest, DegradeToken, DeductFails
  <2>2. QED  BY <1>1, <2>1 DEF Settled
<1>6. ASSUME NEW r \in Requests, AllowToken(r)
      PROVE  (\A q \in Requests : Steady(q)') /\ Clean' /\ Room'
  <2>1. /\ pc[r] = "checking" /\ pc' = [pc EXCEPT ![r] = "admitted"]
        /\ BelowLimits(rl[r].user)
        /\ UNCHANGED <<view, used, rl, header, track, charged, changes, errors>>
    BY <1>6 DEF AllowToken
  <2>2. Steady(r)  BY <1>2, <2>1
  <2>3. OnlyCall(r)  BY <2>1 DEF OnlyCall
  <2>4. pc'[r] = "admitted"  BY <2>1 DEF TypeInv
  <2>5. Steady(r)'  BY <2>1, <2>2, <2>4, Zenon DEF Steady, UserOf
  <2>6. view.type = "token" => \A i \in Windows : used[UserOf(view)][i] < TokenLimit[i]
    <3>1. view.type = "token" => rl[r].user = UserOf(view)
      BY <2>1, <2>2 DEF Steady, Result
    <3>2. QED  BY <2>1, <3>1 DEF BelowLimits
  <2>7. QED  BY <1>3, <2>1, <2>3, <2>5, <2>6
<1>7. ASSUME NEW r \in Requests,
             \/ RefuseToken(r) \/ BodyFails(r) \/ CallFails(r) \/ ClientLeaves(r)
             \/ ResponseEnds(r) \/ NobodyToCharge(r)
      PROVE  (\A q \in Requests : Steady(q)') /\ Clean' /\ Room'
  <2>1. End(r) /\ UNCHANGED <<view, used, changes, errors>>
    BY <1>7 DEF RefuseToken, BodyFails, CallFails, ClientLeaves, ResponseEnds,
                NobodyToCharge
  <2>2. OnlyCall(r) /\ Steady(r)' /\ r \notin Calling'  BY <2>1, EndSteady
  <2>3. QED  BY <1>3, <2>1, <2>2
<1>8. ASSUME NEW r \in Requests, Forward(r)
      PROVE  (\A q \in Requests : Steady(q)') /\ Clean' /\ Room'
  <2>1. /\ pc[r] = "admitted" /\ pc' = [pc EXCEPT ![r] = "called"]
        /\ track' = [track EXCEPT ![r] = rl[r].group /\ view.type = "token"]
        /\ UNCHANGED <<view, used, rl, header, charged, changes, errors>>
    BY <1>8 DEF Forward
  <2>2. Steady(r)  BY <1>2, <2>1
  <2>3. OnlyCall(r) /\ r \in Calling  BY <2>1 DEF OnlyCall, Calling
  <2>4. pc'[r] = "called" /\ track'[r] = (rl[r].group /\ view.type = "token")
    BY <2>1 DEF TypeInv
  <2>5. view.type = "token" => rl[r].group = TRUE  BY <2>1, <2>2 DEF Steady, Result
  <2>6. Steady(r)'  BY <2>1, <2>2, <2>4, <2>5, Zenon DEF Steady, UserOf
  <2>7. QED  BY <1>3, <2>1, <2>3, <2>6
<1>9. ASSUME NEW r \in Requests, StreamRefused(r)
      PROVE  (\A q \in Requests : Steady(q)') /\ Clean' /\ Room'
  <2>1. /\ pc[r] = "called"
        /\ UNCHANGED <<view, used, pc, rl, header, track, charged, changes, errors>>
    BY <1>9 DEF StreamRefused
  <2>2. Steady(r)  BY <1>2, <2>1
  <2>3. OnlyCall(r) /\ Steady(r)' /\ r \in Calling
    BY <2>1, <2>2, Zenon DEF OnlyCall, Calling, Steady, UserOf
  <2>4. QED  BY <1>3, <2>1, <2>3
<1>10. ASSUME NEW r \in Requests, UsageReported(r) \/ FindCharged(r)
       PROVE  (\A q \in Requests : Steady(q)') /\ Clean' /\ Room'
  <2>1. /\ pc[r] \in {"called", "answered"}
        /\ \/ track[r] /\ pc' = [pc EXCEPT ![r] = "answered"] /\ charged' = charged
           \/ /\ pc[r] = "answered" /\ pc' = [pc EXCEPT ![r] = "deducting"]
              /\ charged' = [charged EXCEPT ![r] = ChargedUser(view, header[r])]
        /\ UNCHANGED <<view, used, rl, header, track, changes, errors>>
    BY <1>10 DEF UsageReported, FindCharged
  <2>2. Steady(r)  BY <1>2, <2>1
  <2>3. OnlyCall(r) /\ r \in Calling
    <3>1. r \in Calling  BY <2>1 DEF Calling
    <3>2. \A q \in Requests \ {r} : pc'[q] = pc[q] /\ charged'[q] = charged[q]
      BY <2>1 DEF TypeInv
    <3>3. QED  BY <2>1, <3>1, <3>2 DEF OnlyCall
  <2>4. track[r]  BY <2>1, <2>2 DEF Steady
  <2>5. pc'[r] \in {"answered", "deducting"}
        /\ (pc'[r] = "deducting" => charged'[r] = ChargedUser(view, header[r]))
    BY <2>1 DEF TypeInv
  <2>6. ChargedUser(view, "authorization") = UserOf(view)  BY DEF ChargedUser, UserOf
  <2>7. Steady(r)'
    <3>1. header[r] = "authorization" /\ UserOf(view)' = UserOf(view)
      BY <2>1, <2>2 DEF Steady, UserOf
    <3>2. pc[r] # "idle" /\ pc'[r] # "idle"  BY <2>1, <2>5
    <3>3. QED  BY <2>1, <2>2, <2>4, <2>5, <2>6, <3>1, <3>2 DEF Steady
  <2>8. QED  BY <1>3, <2>1, <2>3, <2>7
<1>11. ASSUME NEW r \in Requests, Deduct(r)
       PROVE  (\A q \in Requests : Steady(q)') /\ Clean' /\ Room'
  <2>1. /\ pc[r] = "deducting" /\ Added(charged[r], usage[r]) /\ End(r)
        /\ UNCHANGED <<view, changes, errors>>
    BY <1>11 DEF Deduct
  <2>2. (\A q \in Requests : Steady(q)) /\ Clean /\ Room  BY <1>2, <2>1
  <2>3. OnlyCall(r) /\ Steady(r)' /\ r \notin Calling' /\ r \in Calling
    BY <2>1, EndSteady DEF Calling
  <2>4. \A q \in Requests : Steady(q)'  BY <2>1, <2>2, <2>3, OthersSteady
  <2>5. charged[r] = UserOf(view) /\ view.type = "token"  BY <2>1, <2>2 DEF Steady
  <2>6. usage[r] \in Nat /\ usage[r] <= MaxUsage /\ charged[r] \in Users /\ MaxUsage \in Nat
    BY ConstantTypes DEF TypeInv
  <2>7. \A u \in Users, i \in Windows :
           used'[u][i] = IF u = charged[r] THEN used[u][i] + usage[r] ELSE used[u][i]
    BY <2>1, <2>6 DEF Added, TypeInv
  <2>8. Clean'  BY <2>1, <2>2, <2>5, <2>7 DEF Clean, UserOf
  <2>9. Cardinality(Calling') = Cardinality(Calling) - 1  BY <2>3, CallingStep
  <2>10. \A u \in Users, i \in Windows : used'[u][i] <= used[u][i] + MaxUsage
    <3>1. \A u \in Users, i \in Windows : used[u][i] \in Nat  BY DEF TypeInv
    <3>2. QED  BY <2>6, <2>7, <3>1
  <2>11. Room'  BY <2>2, <2>9, <2>10, RoomStep
  <2>12. QED  BY <2>4, <2>8, <2>11
<1>12. ASSUME ViewChanges PROVE FALSE
  BY <1>1, <1>12 DEF ViewChanges, Settled
<1>13. CASE Tick \/ UNCHANGED vars
  <2>1. UNCHANGED <<view, pc, rl, header, track, charged, changes, errors>>
    BY <1>13 DEF Tick
  <2>2. (\A q \in Requests : Steady(q)) /\ Clean /\ Room  BY <1>2, <2>1
  <2>3. \A q \in Requests : Steady(q)'  BY <2>1, <2>2, Zenon DEF Steady, UserOf
  <2>4. \A u \in Users, i \in Windows : used'[u][i] \in {0, used[u][i]}
    BY <1>13 DEF Tick
  <2>5. Clean'  BY <2>1, <2>2, <2>4 DEF Clean, UserOf
  <2>6. Calling' = Calling  BY <2>1 DEF Calling
  <2>7. \A u \in Users, i \in Windows : used'[u][i] <= used[u][i]
    <3>1. \A u \in Users, i \in Windows : used[u][i] \in Nat  BY DEF TypeInv
    <3>2. QED  BY <2>4, <3>1
  <2>8. Room'  BY <2>2, <2>6, <2>7, CallingFinite, RoomStep
  <2>9. QED  BY <2>3, <2>5, <2>8
<1>14. QED
  BY <1>4, <1>5, <1>6, <1>7, <1>8, <1>9, <1>10, <1>11, <1>12, <1>13
  DEF Next, Checks, Call, Charge

\* Token mode checks before and deducts after the call, so any number of requests may pass
\* the check together: but what they use beyond a limit is bounded by what they can use.
THEOREM TokenOvershoot ==
    ASSUME OneHeader PROVE Spec => []TokenOvershootBounded
<1>1. TypeInv /\ SteadyInv => TokenOvershootBounded
  <2> SUFFICES ASSUME TypeInv, SteadyInv, Settled, NEW u \in Users, NEW i \in Windows
               PROVE  used[u][i] <= TokenLimit[i] - 1 + MaxUsage * Cardinality(Requests)
    BY DEF TokenOvershootBounded, Settled
  <2>1. used[u][i] + MaxUsage * Cardinality(Calling)
           <= TokenLimit[i] - 1 + MaxUsage * Cardinality(Requests)
    BY DEF SteadyInv, Room
  <2>2. MaxUsage * Cardinality(Calling) \in Nat /\ MaxUsage * Cardinality(Requests) \in Nat
    BY ConstantTypes, CallingFinite, Products
  <2>3. used[u][i] \in Nat /\ TokenLimit[i] \in Nat  BY ConstantTypes DEF TypeInv
  <2>4. QED  BY <2>1, <2>2, <2>3
<1>2. QED
  BY <1>1, InitTypes, NextTypes, InitSteady, NextSteady, PTL DEF Spec

-----------------------------------------------------------------------------
(* While nothing is disturbed: no token a user has got escapes its limit *)

\* Tokens a user got since the last deduction, as far as they are recent: none of them
\* has been deducted yet.
YoungAges(u) == {a \in Ages : a < idle[u]}
Young(u) == Total(delivered[u], YoungAges(u))
RecentAges(i) == {a \in Ages : a < TTL[i]}

CoverInv ==
    Undisturbed
        => \A u \in Users : /\ Young(u) <= Pending(u)
                            /\ \A i \in Windows : used[u][i] + Pending(u) >= Recent(u, i)

LEMMA AgesFinite ==
    /\ IsFiniteSet(Ages) /\ Ages \subseteq Nat /\ 0 \in Ages
    /\ \A u : IsFiniteSet(YoungAges(u)) /\ YoungAges(u) \subseteq Ages
    /\ \A i : IsFiniteSet(RecentAges(i)) /\ RecentAges(i) \subseteq Ages
<1>1. TTL["30d"] \in Nat \ {0}  BY ConstantTypes
<1>2. TTL["30d"] - 1 \in Int  BY <1>1
<1>3. IsFiniteSet(Ages)  BY <1>2, FS_Interval DEF Ages
<1>4. Ages \subseteq Nat /\ 0 \in Ages  BY <1>1 DEF Ages
<1>5. \A u : YoungAges(u) \in SUBSET Ages  BY DEF YoungAges
<1>6. \A i : RecentAges(i) \in SUBSET Ages  BY DEF RecentAges
<1>7. QED  BY <1>3, <1>4, <1>5, <1>6, FS_Subset

LEMMA UnchargedFinite ==
    \A u : /\ IsFiniteSet(Uncharged(u)) /\ Uncharged(u) \subseteq Requests
           /\ IsFiniteSet(Uncharged(u)') /\ Uncharged(u)' \subseteq Requests
<1>1. \A u : Uncharged(u) \in SUBSET Requests /\ Uncharged(u)' \in SUBSET Requests
  BY DEF Uncharged
<1>2. QED  BY <1>1, ConstantTypes, FS_Subset

LEMMA CoverTypes ==
    ASSUME TypeInv, NEW u \in Users
    PROVE  /\ Young(u) \in Nat /\ Pending(u) \in Nat
           /\ \A i \in Windows : Recent(u, i) \in Nat
<1>1. \A r \in Requests : usage[r] \in Nat
  BY ConstantTypes DEF TypeInv
<1>2. \A a \in Ages : delivered[u][a] \in Nat  BY DEF TypeInv
<1>3. Pending(u) \in Nat  BY <1>1, UnchargedFinite, TotalType DEF Pending
<1>4. Young(u) \in Nat  BY <1>2, AgesFinite, TotalType DEF Young
<1>5. ASSUME NEW i \in Windows PROVE Recent(u, i) \in Nat
  <2>1. Recent(u, i) = Total(delivered[u], RecentAges(i))  BY DEF Recent, RecentAges
  <2>2. QED  BY <1>2, <2>1, AgesFinite, TotalType
<1>6. QED  BY <1>3, <1>4, <1>5

\* Nothing the invariant speaks of changes, but for requests that had nothing to charge.
LEMMA QuietCover ==
    ASSUME CoverInv, Undisturbed, UNCHANGED <<used, idle, delivered>>,
           \A u \in Users : Uncharged(u)' = Uncharged(u),
           \A u \in Users : \A r \in Uncharged(u) : usage'[r] = usage[r]
    PROVE  CoverInv'
<1> SUFFICES ASSUME NEW u \in Users
             PROVE  /\ Young(u)' <= Pending(u)'
                    /\ \A i \in Windows : used'[u][i] + Pending(u)' >= Recent(u, i)'
  BY DEF CoverInv
<1>1. Pending(u)' = Pending(u)  BY TotalSame DEF Pending
<1>2. Young(u)' = Young(u)  BY DEF Young, YoungAges
<1>3. \A i \in Windows : Recent(u, i)' = Recent(u, i)  BY DEF Recent
<1>4. QED  BY <1>1, <1>2, <1>3 DEF CoverInv

\* Only r can have become one to charge, or ceased to be.
LEMMA UnchargedOfOthers ==
    ASSUME NEW r \in Requests, OnlyCall(r), NEW u
    PROVE  Uncharged(u)' \ {r} = Uncharged(u) \ {r}
BY DEF OnlyCall, Uncharged

\* A response reports n tokens: they are pending, and recent.
LEMMA ReportCover ==
    ASSUME TypeInv, TypeInv', CoverInv, Undisturbed, \A q \in Requests : Steady(q),
           NEW r \in Requests, UsageReported(r)
    PROVE  CoverInv'
<1> USE DEF vars, tokenVars, quotaVars, resultVars, boundVars
<1>1. PICK n \in 1 .. MaxUsage : usage' = [usage EXCEPT ![r] = n] /\ Delivered(r, n)
  BY DEF UsageReported
<1>2. /\ pc[r] = "called" /\ track[r] /\ pc' = [pc EXCEPT ![r] = "answered"]
      /\ UNCHANGED <<view, used, idle, rl, header, charged, track, boundVars>>
  BY DEF UsageReported
<1>3. n \in Nat  BY ConstantTypes
<1>4. PICK v \in Users : rl[r].mode = "token" /\ v = rl[r].user
  BY <1>2 DEF Steady, Result, TypeInv, Results
<1>5. OnlyCall(r)  BY <1>2 DEF OnlyCall
<1>6. r \notin Uncharged(v)  BY <1>2 DEF Uncharged
<1>7. r \in Uncharged(v)'  BY <1>2, <1>4 DEF Uncharged, TypeInv
<1>8. Uncharged(v)' \ {r} = Uncharged(v)
  <2>1. Uncharged(v)' \ {r} = Uncharged(v) \ {r}  BY <1>5, UnchargedOfOthers
  <2>2. QED  BY <1>6, <2>1
<1>9. ASSUME NEW u \in Users, u # v
      PROVE  Uncharged(u)' = Uncharged(u) /\ r \notin Uncharged(u)
  <2>1. r \notin Uncharged(u) /\ r \notin Uncharged(u)'
    BY <1>2, <1>4, <1>9 DEF Uncharged
  <2>2. QED  BY <1>5, <2>1, UnchargedOfOthers
<1>10. \A q \in Requests : usage[q] \in Nat /\ usage'[q] \in Nat
  BY ConstantTypes DEF TypeInv
<1>11. \A q \in Requests \ {r} : usage'[q] = usage[q]  BY <1>1
<1>12. usage'[r] = n  BY <1>1 DEF TypeInv
<1>13. Pending(v)' = Pending(v) + n
  <2>1. IsFiniteSet(Uncharged(v)') /\ Uncharged(v)' \subseteq Requests
    BY UnchargedFinite
  <2>2. Total(usage', Uncharged(v)')
           = usage'[r] + Total(usage', Uncharged(v)' \ {r})
    BY <1>7, <1>10, <2>1, TotalSplit
  <2>3. \A q \in Uncharged(v) : usage'[q] = usage[q]
    BY <1>6, <1>11, UnchargedFinite
  <2>4. Total(usage', Uncharged(v)) = Total(usage, Uncharged(v))
    BY <2>3, TotalSame
  <2>5. Total(usage, Uncharged(v)) \in Nat
    BY <1>4, CoverTypes DEF Pending
  <2>6. Total(usage', Uncharged(v)') = n + Total(usage, Uncharged(v))
    BY <1>8, <1>12, <2>2, <2>4
  <2>7. QED  BY <1>3, <2>5, <2>6 DEF Pending
<1>14. delivered' = [delivered EXCEPT ![v][0] = @ + n]
  BY <1>1, <1>4 DEF Delivered
<1>15. \A a \in Ages : /\ delivered[v][a] \in Nat /\ delivered'[v][a] \in Nat
                       /\ a # 0 => delivered'[v][a] = delivered[v][a]
                       /\ a = 0 => delivered'[v][a] = delivered[v][a] + n
  BY <1>3, <1>4, <1>14 DEF TypeInv
<1>16. ASSUME NEW S \in SUBSET Ages, IsFiniteSet(S)
       PROVE  /\ Total(delivered'[v], S) <= Total(delivered[v], S) + n
              /\ Total(delivered[v], S) \in Nat /\ Total(delivered'[v], S) \in Nat
  <2>1. Total(delivered[v], S) \in Nat /\ Total(delivered'[v], S) \in Nat
    BY <1>15, <1>16, TotalType
  <2>2. CASE 0 \in S
    <3>1. Total(delivered'[v], S)
             = Total(delivered[v], S) - delivered[v][0] + delivered'[v][0]
      BY <1>15, <1>16, <2>2, TotalChange
    <3>2. QED  BY <1>3, <1>15, <2>1, <2>2, <3>1, AgesFinite
  <2>3. CASE 0 \notin S
    <3>1. Total(delivered'[v], S) = Total(delivered[v], S)
      BY <1>15, <1>16, <2>3, TotalSame
    <3>2. QED  BY <1>3, <2>1, <3>1
  <2>4. QED  BY <2>2, <2>3
<1>17. ASSUME NEW u \in Users
       PROVE  /\ Young(u)' <= Pending(u)'
              /\ \A i \in Windows : used'[u][i] + Pending(u)' >= Recent(u, i)'
  <2>1. /\ Young(u) <= Pending(u)
        /\ \A i \in Windows : used[u][i] + Pending(u) >= Recent(u, i)
    BY <1>17 DEF CoverInv
  <2>2. CASE u = v
    <3>1. Young(u)' <= Young(u) + n /\ Young(u)' \in Nat
      <4>1. YoungAges(u)' = YoungAges(u)  BY <1>2 DEF YoungAges
      <4>2. YoungAges(u) \in SUBSET Ages /\ IsFiniteSet(YoungAges(u))  BY AgesFinite
      <4>3. QED  BY <1>16, <2>2, <4>1, <4>2 DEF Young
    <3>2. \A i \in Windows : Recent(u, i)' <= Recent(u, i) + n /\ Recent(u, i)' \in Nat
      <4>1. \A i : RecentAges(i) \in SUBSET Ages /\ IsFiniteSet(RecentAges(i))
        BY AgesFinite
      <4>2. QED  BY <1>16, <2>2, <4>1 DEF Recent, RecentAges
    <3>3. Young(u) \in Nat /\ Pending(u) \in Nat
          /\ \A i \in Windows : Recent(u, i) \in Nat /\ used[u][i] \in Nat
      BY <1>17, CoverTypes DEF TypeInv
    <3>4. QED  BY <1>2, <1>3, <1>13, <2>1, <2>2, <3>1, <3>2, <3>3
  <2>3. CASE u # v
    <3>1. Pending(u)' = Pending(u)
      <4>1. Uncharged(u)' = Uncharged(u) /\ \A q \in Uncharged(u) : usage'[q] = usage[q]
        BY <1>9, <1>11, <1>17, <2>3, UnchargedFinite
      <4>2. QED  BY <4>1, TotalSame DEF Pending
    <3>2. delivered'[u] = delivered[u]  BY <1>14, <2>3 DEF TypeInv
    <3>3. Young(u)' = Young(u)  BY <1>2, <3>2 DEF Young, YoungAges
    <3>4. \A i \in Windows : Recent(u, i)' = Recent(u, i)  BY <3>2 DEF Recent
    <3>5. QED  BY <1>2, <2>1, <3>1, <3>3, <3>4
  <2>4. QED  BY <2>2, <2>3
<1>18. QED  BY <1>17 DEF CoverInv

\* A deduction makes what was pending part of the usage, and renews it.
LEMMA DeductCover ==
    ASSUME TypeInv, TypeInv', CoverInv, Undisturbed, \A q \in Requests : Steady(q),
           NEW r \in Requests, Deduct(r)
    PROVE  CoverInv'
<1> USE DEF vars, tokenVars, quotaVars, resultVars, boundVars
<1>1. /\ pc[r] = "deducting" /\ Added(charged[r], usage[r]) /\ End(r)
      /\ UNCHANGED <<view, delivered>>
  BY DEF Deduct
<1>2. PICK v \in Users : v = charged[r]  BY DEF TypeInv
<1>3. rl[r].mode = "token" /\ rl[r].user = v
  BY <1>1, <1>2 DEF Steady, Result
<1>4. OnlyCall(r) /\ pc'[r] = "idle"  BY <1>1, EndSteady DEF End, TypeInv
<1>5. r \in Uncharged(v)  BY <1>1, <1>3 DEF Uncharged
<1>6. \A u : r \notin Uncharged(u)'  BY <1>4 DEF Uncharged
<1>7. Uncharged(v)' = Uncharged(v) \ {r}
  <2>1. Uncharged(v)' \ {r} = Uncharged(v) \ {r}  BY <1>4, UnchargedOfOthers
  <2>2. QED  BY <1>6, <2>1
<1>8. ASSUME NEW u \in Users, u # v PROVE Uncharged(u)' = Uncharged(u)
  <2>1. r \notin Uncharged(u)  BY <1>3, <1>8 DEF Uncharged
  <2>2. Uncharged(u)' \ {r} = Uncharged(u) \ {r}  BY <1>4, UnchargedOfOthers
  <2>3. QED  BY <1>6, <2>1, <2>2
<1>9. \A q \in Requests : usage[q] \in Nat /\ usage'[q] \in Nat
  BY ConstantTypes DEF TypeInv
<1>10. \A q \in Requests \ {r} : usage'[q] = usage[q]  BY <1>1 DEF End
<1>11. Pending(v) = Pending(v)' + usage[r] /\ Pending(v)' \in Nat
  <2>1. Total(usage, Uncharged(v)) = usage[r] + Total(usage, Uncharged(v) \ {r})
    BY <1>5, <1>9, UnchargedFinite, TotalSplit
  <2>2. \A q \in Uncharged(v)' : usage'[q] = usage[q]
    BY <1>6, <1>10, UnchargedFinite
  <2>3. Total(usage', Uncharged(v)') = Total(usage, Uncharged(v)')  BY <2>2, TotalSame
  <2>4. Total(usage', Uncharged(v)') \in Nat
    BY <1>9, UnchargedFinite, TotalType
  <2>5. usage[r] \in Nat  BY <1>9
  <2>6. QED  BY <1>7, <2>1, <2>3, <2>4, <2>5 DEF Pending
<1>12. \A i \in Windows : used'[v][i] = used[v][i] + usage[r] /\ used[v][i] \in Nat
  BY <1>1, <1>2 DEF Added, TypeInv
<1>13. idle'[v] = 0  BY <1>1, <1>2 DEF Added, TypeInv
<1>14. \A u \in Users \ {v} : used'[u] = used[u] /\ idle'[u] = idle[u]
  BY <1>1, <1>2 DEF Added, TypeInv
<1>15. \A u \in Users, i \in Windows : Recent(u, i)' = Recent(u, i)
  BY <1>1 DEF Recent
<1>16. ASSUME NEW u \in Users
       PROVE  /\ Young(u)' <= Pending(u)'
              /\ \A i \in Windows : used'[u][i] + Pending(u)' >= Recent(u, i)'
  <2>1. /\ Young(u) <= Pending(u)
        /\ \A i \in Windows : used[u][i] + Pending(u) >= Recent(u, i)
    BY <1>16 DEF CoverInv
  <2>2. CASE u = v
    <3>1. Young(u)' = 0
      <4>1. YoungAges(u)' = {}
        <5>1. \A a \in Ages : a \in Nat /\ ~(a < 0)  BY AgesFinite
        <5>2. YoungAges(u)' = {a \in Ages : a < 0}  BY <1>13, <2>2 DEF YoungAges, Ages
        <5>3. QED  BY <5>1, <5>2
      <4>2. Units(delivered'[u], {}) = {}  BY DEF Units
      <4>3. QED  BY <4>1, <4>2, FS_EmptySet DEF Young, Total
    <3>2. \A i \in Windows : Recent(u, i) \in Nat /\ usage[r] \in Nat
      BY <1>9, <1>16, CoverTypes
    <3>3. QED  BY <1>11, <1>12, <1>15, <2>1, <2>2, <3>1, <3>2
  <2>3. CASE u # v
    <3>1. Pending(u)' = Pending(u)
      <4>1. Uncharged(u)' = Uncharged(u)  BY <1>8, <1>16, <2>3
      <4>2. r \notin Uncharged(u)  BY <1>6, <4>1
      <4>3. \A q \in Uncharged(u) : usage'[q] = usage[q]
        BY <1>10, <4>2, UnchargedFinite
      <4>4. QED  BY <4>1, <4>3, TotalSame DEF Pending
    <3>2. Young(u)' = Young(u)  BY <1>1, <1>14, <1>16, <2>3 DEF Young, YoungAges
    <3>3. QED  BY <1>14, <1>15, <1>16, <2>1, <2>3, <3>1, <3>2
  <2>4. QED  BY <2>2, <2>3
<1>17. QED  BY <1>16 DEF CoverInv

\* A counter expires only once everything it counted is out of its window.
LEMMA TickCover ==
    ASSUME TypeInv, TypeInv', CoverInv, Undisturbed, Tick
    PROVE  CoverInv'
<1> USE DEF vars, tokenVars, quotaVars, resultVars, boundVars
<1> SUFFICES ASSUME NEW u \in Users
             PROVE  /\ Young(u)' <= Pending(u)'
                    /\ \A i \in Windows : used'[u][i] + Pending(u)' >= Recent(u, i)'
  BY DEF CoverInv
<1>1. /\ Young(u) <= Pending(u)
      /\ \A i \in Windows : used[u][i] + Pending(u) >= Recent(u, i)
  BY DEF CoverInv
<1>2. UNCHANGED <<pc, rl, usage>>  BY DEF Tick
<1>3. Pending(u)' = Pending(u)  BY <1>2 DEF Pending, Uncharged
<1>4. /\ idle[u] \in Nat /\ idle'[u] \in Nat
      /\ idle'[u] = IF idle[u] < TTL["30d"] THEN idle[u] + 1 ELSE idle[u]
  BY ConstantTypes DEF Tick, TypeInv
<1>5. \A a \in Ages : /\ delivered[u][a] \in Nat /\ delivered'[u][a] \in Nat
                      /\ a # 0 => delivered'[u][a] = delivered[u][a - 1]
                      /\ a = 0 => delivered'[u][a] = 0
  BY DEF Tick, TypeInv
<1>6. \A a \in Ages : a # 0 => a - 1 \in Ages
  <2>1. TTL["30d"] \in Nat  BY ConstantTypes
  <2>2. QED  BY <2>1 DEF Ages
<1>7. Young(u)' <= Young(u)
  <2>1. YoungAges(u)' \subseteq Ages  BY AgesFinite DEF YoungAges
  <2>2. ASSUME NEW a \in YoungAges(u)'
        PROVE  \/ delivered'[u][a] = 0
               \/ a - 1 \in YoungAges(u) /\ delivered'[u][a] = delivered[u][a - 1]
    <3>1. a \in Ages /\ a < idle'[u]  BY <2>2 DEF YoungAges
    <3>2. CASE a = 0  BY <1>5, <3>1, <3>2
    <3>3. CASE a # 0
      <4>1. a - 1 \in Ages /\ a \in Nat  BY <1>6, <3>1, <3>3, AgesFinite
      <4>2. a - 1 < idle[u]  BY <1>4, <3>1, <4>1, ConstantTypes
      <4>3. QED  BY <1>5, <3>1, <3>3, <4>1, <4>2 DEF YoungAges
    <3>4. QED  BY <3>2, <3>3
  <2>3. /\ IsFiniteSet(YoungAges(u)) /\ YoungAges(u) \subseteq Nat
        /\ YoungAges(u)' \subseteq Nat
        /\ \A a \in YoungAges(u) : delivered[u][a] \in Nat
    BY <1>5, <2>1, AgesFinite
  <2>4. Total(delivered'[u], YoungAges(u)') <= Total(delivered[u], YoungAges(u))
    BY <2>2, <2>3, TotalShifted
  <2>5. QED  BY <2>4 DEF Young
<1>8. /\ Young(u) \in Nat /\ Young(u)' \in Nat /\ Pending(u) \in Nat
      /\ \A i \in Windows : Recent(u, i) \in Nat /\ Recent(u, i)' \in Nat
  <2>1. /\ Young(u) \in Nat /\ Pending(u) \in Nat
        /\ \A i \in Windows : Recent(u, i) \in Nat
    BY CoverTypes
  <2>2. IsFiniteSet(YoungAges(u)') /\ YoungAges(u)' \subseteq Ages
    <3>1. YoungAges(u)' \in SUBSET Ages  BY DEF YoungAges, Ages
    <3>2. QED  BY <3>1, AgesFinite, FS_Subset
  <2>3. Young(u)' \in Nat
    <3>1. Total(delivered'[u], YoungAges(u)') \in Nat  BY <1>5, <2>2, TotalType
    <3>2. QED  BY <3>1 DEF Young
  <2>4. ASSUME NEW i \in Windows PROVE Recent(u, i)' \in Nat
    <3>1. Total(delivered'[u], RecentAges(i)) \in Nat  BY <1>5, AgesFinite, TotalType
    <3>2. QED  BY <3>1 DEF Recent, RecentAges, Ages
  <2>5. QED  BY <2>1, <2>3, <2>4
<1>9. ASSUME NEW i \in Windows PROVE used'[u][i] + Pending(u)' >= Recent(u, i)'
  <2>1. used'[u][i] = IF idle'[u] >= TTL[i] THEN 0 ELSE used[u][i]
    BY <1>9 DEF Tick
  <2>2. used[u][i] \in Nat /\ TTL[i] \in Nat  BY <1>9, ConstantTypes DEF TypeInv
  <2>3. CASE idle'[u] >= TTL[i]
    <3>1. RecentAges(i) \subseteq YoungAges(u)'
      BY <1>4, <2>2, <2>3, AgesFinite DEF RecentAges, YoungAges, Ages
    <3>2. IsFiniteSet(YoungAges(u)') /\ YoungAges(u)' \subseteq Ages
      <4>1. YoungAges(u)' \in SUBSET Ages  BY DEF YoungAges, Ages
      <4>2. QED  BY <4>1, AgesFinite, FS_Subset
    <3>3. Total(delivered'[u], RecentAges(i)) <= Total(delivered'[u], YoungAges(u)')
      BY <1>5, <3>1, <3>2, TotalMonotone
    <3>4. Recent(u, i)' <= Young(u)'
      BY <3>3 DEF Recent, RecentAges, Young, Ages
    <3>5. QED  BY <1>1, <1>3, <1>7, <1>8, <1>9, <2>1, <2>3, <3>4
  <2>4. CASE ~(idle'[u] >= TTL[i])
    <3>1. \A a \in RecentAges(i) :
             \/ delivered'[u][a] = 0
             \/ a - 1 \in RecentAges(i) /\ delivered'[u][a] = delivered[u][a - 1]
      BY <1>5, <1>6, <2>2, AgesFinite DEF RecentAges
    <3>2. Total(delivered'[u], RecentAges(i)) <= Total(delivered[u], RecentAges(i))
      BY <1>5, <3>1, AgesFinite, TotalShifted
    <3>3. Recent(u, i)' <= Recent(u, i)
      BY <3>2 DEF Recent, RecentAges, Ages
    <3>4. QED  BY <1>1, <1>3, <1>8, <1>9, <2>1, <2>2, <2>4, <3>3
  <2>5. QED  BY <2>3, <2>4
<1>10. QED  BY <1>1, <1>3, <1>7, <1>8, <1>9

LEMMA InitCover == Init => CoverInv
<1> SUFFICES ASSUME Init, NEW u \in Users
             PROVE  /\ Young(u) <= Pending(u)
                    /\ \A i \in Windows : used[u][i] + Pending(u) >= Recent(u, i)
  BY DEF CoverInv
<1>1. \A a \in Ages : delivered[u][a] = 0  BY DEF Init
<1>2. \A S \in SUBSET Ages : Units(delivered[u], S) = {}
  BY <1>1 DEF Units
<1>3. \A S \in SUBSET Ages : Total(delivered[u], S) = 0
  BY <1>2, FS_EmptySet DEF Total
<1>4. Young(u) = 0  BY <1>3, AgesFinite DEF Young
<1>5. \A i \in Windows : Recent(u, i) = 0
  BY <1>3, AgesFinite DEF Recent, RecentAges
<1>6. Uncharged(u) = {}  BY DEF Init, Uncharged
<1>7. Units(usage, {}) = {}  BY DEF Units
<1>8. Pending(u) = 0  BY <1>6, <1>7, FS_EmptySet DEF Pending, Total
<1>9. QED  BY <1>4, <1>5, <1>8 DEF Init

LEMMA NextCover ==
    TypeInv /\ TypeInv' /\ ControlInv /\ SteadyInv /\ CoverInv /\ [Next]_vars => CoverInv'
<1> SUFFICES ASSUME TypeInv, TypeInv', ControlInv, SteadyInv, CoverInv, [Next]_vars,
                    Undisturbed'
             PROVE  CoverInv'
  BY DEF CoverInv
<1> USE DEF vars, tokenVars, quotaVars, resultVars, boundVars
<1>1. changes \in Nat /\ errors \in Nat /\ aborts \in Nat  BY DEF TypeInv
<1>2. /\ changes' # changes + 1 /\ errors' # errors + 1 /\ aborts' # aborts + 1
      /\ UNCHANGED <<changes, errors, aborts>>
            => Undisturbed /\ \A r \in Requests : Steady(r)
  BY <1>1 DEF Undisturbed, SteadyInv, Settled
\* A step of a request that has nothing to charge, before or after.
<1>3. ASSUME NEW r \in Requests, UNCHANGED <<changes, errors, aborts>>, OnlyCall(r),
             UNCHANGED <<used, idle, delivered>>,
             pc[r] \notin {"answered", "deducting"},
             pc'[r] \notin {"answered", "deducting"},
             \A q \in Requests \ {r} : usage'[q] = usage[q]
      PROVE  CoverInv'
  <2>1. \A u \in Users : r \notin Uncharged(u) /\ r \notin Uncharged(u)'
    BY <1>3 DEF Uncharged
  <2>2. \A u \in Users : Uncharged(u)' = Uncharged(u)
    BY <1>3, <2>1, UnchargedOfOthers
  <2>3. \A u \in Users : \A q \in Uncharged(u) : usage'[q] = usage[q]
    BY <1>3, <2>1, UnchargedFinite
  <2>4. QED  BY <1>2, <1>3, <2>2, <2>3, QuietCover
<1>4. ASSUME NEW r \in Requests, PassUnknown(r) \/ AdmitRequest(r) \/ CheckToken(r)
      PROVE  CoverInv'
  <2>1. /\ UNCHANGED <<used, idle, delivered, usage, changes, errors, aborts>>
        /\ \E next \in {"admitted", "checking"} : \E res : Arrive(r, next, res)
    BY <1>4 DEF PassUnknown, AdmitRequest, CheckToken, Arrive
  <2>2. PICK next \in {"admitted", "checking"} : \E res : Arrive(r, next, res)  BY <2>1
  <2>0. PICK res : Arrive(r, next, res)  BY <2>2
  <2>3. /\ pc[r] = "idle" /\ pc' = [pc EXCEPT ![r] = next]
        /\ rl' = [rl EXCEPT ![r] = res] /\ UNCHANGED <<track, charged>>
        /\ \E h \in Headers : header' = [header EXCEPT ![r] = h]
    BY <2>0 DEF Arrive
  <2>4. OnlyCall(r)  BY <2>3 DEF OnlyCall
  <2>5. pc'[r] = next  BY <2>3 DEF TypeInv
  <2>6. QED  BY <1>3, <2>1, <2>2, <2>3, <2>4, <2>5
<1>5. ASSUME NEW r \in Requests,
             \/ DegradeRequest(r) \/ DegradeToken(r) \/ DeductFails(r)
             \/ BodyFails(r) \/ ClientLeaves(r)
      PROVE  FALSE
  <2>1. errors' = errors + 1 \/ aborts' = aborts + 1
    BY <1>5 DEF DegradeRequest, DegradeToken, DeductFails, BodyFails, ClientLeaves
  <2>2. QED  BY <1>2, <2>1
<1>6. ASSUME NEW r \in Requests, AllowToken(r) \/ Forward(r) \/ StreamRefused(r)
      PROVE  CoverInv'
  <2>1. /\ UNCHANGED <<used, idle, delivered, usage, rl, header, charged, changes, errors,
                       aborts>>
        /\ pc[r] \in {"checking", "admitted", "called"}
        /\ \E p \in {"admitted", "called"} : pc' = [pc EXCEPT ![r] = p]
        /\ \A q \in Requests \ {r} : track'[q] = track[q]
    BY <1>6 DEF AllowToken, Forward, StreamRefused, TypeInv
  <2>2. OnlyCall(r)  BY <2>1 DEF OnlyCall
  <2>3. pc'[r] \in {"admitted", "called"}  BY <2>1 DEF TypeInv
  <2>4. QED  BY <1>3, <2>1, <2>2, <2>3
<1>7. ASSUME NEW r \in Requests, RefuseToken(r) \/ CallFails(r) PROVE CoverInv'
  <2>1. /\ End(r) /\ UNCHANGED <<used, idle, delivered, changes, errors, aborts>>
        /\ pc[r] \in {"checking", "called"}
    BY <1>7 DEF RefuseToken, CallFails
  <2>2. OnlyCall(r)  BY <2>1, EndSteady
  <2>3. pc'[r] = "idle" /\ \A q \in Requests \ {r} : usage'[q] = usage[q]
    BY <2>1 DEF End, TypeInv
  <2>4. QED  BY <1>3, <2>1, <2>2, <2>3
<1>8. ASSUME NEW r \in Requests, ResponseEnds(r) PROVE CoverInv'
  <2>1. PICK n \in 0 .. MaxUsage : (track[r] => n = 0) /\ Delivered(r, n)
    BY <1>8 DEF ResponseEnds
  <2>2. /\ End(r) /\ UNCHANGED <<view, used, idle, changes, errors, aborts>>
        /\ pc[r] = "called"
    BY <1>8 DEF ResponseEnds
  <2>3. Undisturbed /\ Steady(r)  BY <1>2, <2>2
  <2>4. rl[r].mode = "token" => n = 0
    <3>1. view.type # "token" => rl[r].mode # "token"
      BY <2>2, <2>3 DEF Steady
    <3>2. view.type = "token" => track[r]  BY <2>2, <2>3 DEF Steady
    <3>3. QED  BY <2>1, <3>1, <3>2
  <2>5. delivered' = delivered
    <3>1. CASE rl[r].mode = "token"
      <4>1. delivered' = [delivered EXCEPT ![rl[r].user][0] = @ + 0]
        BY <2>1, <2>3, <2>4, <3>1 DEF Delivered
      <4>2. 0 \in Ages  BY AgesFinite
      <4>3. delivered \in [Users -> [Ages -> Nat]]  BY DEF TypeInv
      <4>4. ASSUME NEW u \in Users, NEW a \in Ages PROVE delivered'[u][a] = delivered[u][a]
        BY <4>1, <4>2, <4>3
      <4>5. delivered' \in [Users -> [Ages -> Nat]]  BY DEF TypeInv
      <4>6. \A u \in Users : delivered'[u] = delivered[u]
        BY <4>3, <4>4, <4>5
      <4>7. QED  BY <4>3, <4>5, <4>6
    <3>2. CASE rl[r].mode # "token"  BY <2>1, <3>2 DEF Delivered
    <3>3. QED  BY <3>1, <3>2
  <2>6. OnlyCall(r)  BY <2>2, EndSteady
  <2>7. pc'[r] = "idle" /\ \A q \in Requests \ {r} : usage'[q] = usage[q]
    BY <2>2 DEF End, TypeInv
  <2>8. QED  BY <1>3, <2>2, <2>5, <2>6, <2>7
<1>9. ASSUME NEW r \in Requests, UsageReported(r) PROVE CoverInv'
  <2>1. UNCHANGED <<changes, errors, aborts>>  BY <1>9 DEF UsageReported
  <2>2. QED  BY <1>2, <1>9, <2>1, ReportCover
<1>10. ASSUME NEW r \in Requests, FindCharged(r) PROVE CoverInv'
  <2>1. /\ pc[r] = "answered" /\ pc' = [pc EXCEPT ![r] = "deducting"]
        /\ UNCHANGED <<used, idle, delivered, usage, rl, changes, errors, aborts>>
    BY <1>10 DEF FindCharged
  <2>2. \A u \in Users : Uncharged(u)' = Uncharged(u)
    BY <2>1 DEF Uncharged, TypeInv
  <2>3. QED  BY <1>2, <2>1, <2>2, QuietCover
<1>11. ASSUME NEW r \in Requests, NobodyToCharge(r) PROVE FALSE
  <2>1. pc[r] = "answered" /\ view \notin Policies /\ UNCHANGED <<changes, errors, aborts>>
    BY <1>11 DEF NobodyToCharge
  <2>2. Steady(r)  BY <1>2, <2>1
  <2>3. view.type = "token"  BY <2>1, <2>2 DEF Steady
  <2>4. QED  BY <2>1, <2>3 DEF TypeInv, Views, NoKey, NoConfig
<1>12. ASSUME NEW r \in Requests, Deduct(r) PROVE CoverInv'
  <2>1. UNCHANGED <<changes, errors, aborts>>  BY <1>12 DEF Deduct
  <2>2. QED  BY <1>2, <1>12, <2>1, DeductCover
<1>13. ASSUME ViewChanges PROVE FALSE
  BY <1>2, <1>13 DEF ViewChanges
<1>14. CASE Tick
  <2>1. UNCHANGED <<changes, errors, aborts>>  BY <1>14 DEF Tick
  <2>2. QED  BY <1>2, <1>14, <2>1, TickCover
<1>15. CASE UNCHANGED vars
  <2>1. \A u \in Users : Uncharged(u)' = Uncharged(u)  BY <1>15 DEF Uncharged
  <2>2. QED  BY <1>2, <1>15, <2>1, QuietCover
<1>16. QED
  BY <1>4, <1>5, <1>6, <1>7, <1>8, <1>9, <1>10, <1>11, <1>12, <1>13, <1>14, <1>15
  DEF Next, Checks, Call, Charge

\* As long as nothing is disturbed, every token a user got within a window counts against
\* that window's limit, or is about to: however long responses take, the expiry of the
\* counters never runs ahead of what they count.
THEOREM UsageIsCovered ==
    ASSUME OneHeader PROVE Spec => []UsageCovered
<1>1. CoverInv => UsageCovered  BY DEF CoverInv, UsageCovered
<1>2. QED
  BY <1>1, InitTypes, NextTypes, InitSteady, NextSteady, InitCover, NextCover, PTL DEF Spec
=============================================================================
