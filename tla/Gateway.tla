-------------------------------- MODULE Gateway --------------------------------
(***************************************************************************)
(* The life of a request: app/proxy.py around app/ratelimit.py, for the    *)
(* requests of ONE API key, whose policy may be changed meanwhile.  The    *)
(* resolver's answer is the variable view; the request-count mode appears  *)
(* as the ledger it promises to be (module QuotaLedger), the token mode    *)
(* with its counters in Redis (both token scripts).                        *)
(*                                                                         *)
(* The policy is looked up three times: to check the request, to decide    *)
(* whether to track its usage, and, when the response has gone out, to     *)
(* find the user its tokens are charged to.  An action is what runs        *)
(* between two awaits.  A refusal changes nothing, so a request that is    *)
(* refused at once just stays idle.  Time passes in ticks of the order of  *)
(* the windows, long after any response has ended or, for a stream, while  *)
(* it goes on.                                                             *)
(***************************************************************************)
EXTENDS Integers, FiniteSets, Totals

CONSTANTS
    Requests,     \* requests of the key that may be under way at a time
    Headers,      \* headers the key may come in: "authorization", "api-key"
    OnUnknown,    \* settings of on_key_not_found and on_config_not_found to cover
    OnRedisError, \* settings of on_redis_error to cover
    Capacity,     \* what the request-count mode grants one user (module RequestQuota)
    TokenLimit,   \* the limits of a token policy: window -> tokens
    TTL,          \* length of a window in ticks
    MaxUsage,     \* bound: tokens of one response
    MaxTroubles   \* bound: changes of the resolver's answer, failing Redis calls and
                  \* clients that leave, taken together

Windows == {"5h", "7d", "30d"}

\* User ids: the hash of the key, the group's name, the hash of an empty string.
Users == {"key", "group", "nobody"}

Policies == [type : {"request", "token"}, scope : {"key", "group"}]
NoKey == [type |-> "no_key", scope |-> "key"]
NoConfig == [type |-> "no_config", scope |-> "key"]
Views == Policies \cup {NoKey, NoConfig}

ASSUME GatewayAssumption ==
    /\ IsFiniteSet(Requests)
    /\ Headers \subseteq {"authorization", "api-key"}
    /\ OnUnknown \subseteq {"passthrough", "reject"}
    /\ OnRedisError \subseteq {"passthrough", "reject", "local_fallback"}
    /\ TokenLimit \in [Windows -> Nat \ {0}]
    /\ TTL \in [Windows -> Nat \ {0}]
    /\ TTL["5h"] <= TTL["7d"] /\ TTL["7d"] <= TTL["30d"]
    /\ {Capacity, MaxUsage, MaxTroubles} \subseteq Nat

VARIABLES
    view,       \* what the resolver answers for the key
    used,       \* user -> window -> token_usage:{user}:{window}
    idle,       \* user -> ticks since its last deduction
    taken,      \* user -> request-count quota taken and not given back
    pc,         \* request -> where it is
    rl,         \* request -> its RateLimitResult
    header,     \* request -> the header its key came in
    track,      \* request -> need_usage_tracking
    refunded,   \* request -> the flag of refund_once
    usage,      \* request -> tokens its response has reported
    charged,    \* request -> the user its tokens will be charged to
    spent,      \* history: user -> quota of requests that did not fail
    delivered,  \* history: user -> age -> tokens of responses let through by a check
    changes, errors, aborts   \* how often each has happened (bounded)

resultVars  == <<rl, header, track, refunded, usage, charged>>
tokenVars   == <<used, idle>>
quotaVars   == <<taken, spent>>
boundVars   == <<changes, errors, aborts>>
vars == <<view, tokenVars, quotaVars, pc, resultVars, delivered, boundVars>>

-----------------------------------------------------------------------------
\* Another change, failure or abort is within the bound.
MoreTrouble == changes + errors + aborts < MaxTroubles

\* user_id = group if conf["scope"] == "group" else key_hash
UserOf(v) == IF v.scope = "group" THEN "group" ELSE "key"

\* The user of _proxy_normal and _proxy_stream: they take the key from Authorization.
ChargedUser(v, h) ==
    IF v.scope = "group" THEN "group"
    ELSE IF h = "authorization" THEN "key" ELSE "nobody"

\* A RateLimitResult that allows its request.  counted: reason is "", so something was
\* counted (request mode) or checked (token mode).
Result(mode, counted, user, group) ==
    [mode |-> mode, counted |-> counted, user |-> user, group |-> group]
NoResult == Result("none", FALSE, "key", FALSE)

Ages == 0 .. TTL["30d"] - 1

\* A mutation: the limit itself still passes.
NotAboveLimits(u) == \A i \in Windows : used[u][i] <= TokenLimit[i]

\* rate_limit_token_check.lua
BelowLimits(u) == \A i \in Windows : used[u][i] < TokenLimit[i]

\* A mutation: the TTL set by the first deduction is kept.
AddedKeepingTTL(u, n) ==
    /\ used' = [used EXCEPT ![u] = [i \in Windows |-> @[i] + n]]
    /\ idle' = [idle EXCEPT ![u] = IF used[u]["30d"] = 0 THEN 0 ELSE @]

\* token_deduct.lua: SET with a fresh TTL, for every window.
Added(u, n) ==
    /\ used' = [used EXCEPT ![u] = [i \in Windows |-> @[i] + n]]
    /\ idle' = [idle EXCEPT ![u] = 0]

\* A mutation: whatever was let through is given back.
RefundedAlways(r) == taken' = [taken EXCEPT ![rl[r].user] = @ - 1]

\* refund(): only what the request-count mode has counted is given back.
Refunded(r) ==
    IF rl[r].mode = "request" /\ rl[r].counted
    THEN taken' = [taken EXCEPT ![rl[r].user] = @ - 1]
    ELSE UNCHANGED taken

\* The request holds a unit of request-count quota.
Holds(r) ==
    pc[r] # "idle" /\ rl[r].mode = "request" /\ rl[r].counted /\ ~refunded[r]

\* Its quota stays taken.
Keep(r) ==
    /\ spent' = IF Holds(r) THEN [spent EXCEPT ![rl[r].user] = @ + 1] ELSE spent
    /\ UNCHANGED taken

\* The response is over; its variables are gone.
End(r) ==
    /\ pc' = [pc EXCEPT ![r] = "idle"]
    /\ rl' = [rl EXCEPT ![r] = NoResult]
    /\ header' = [header EXCEPT ![r] = "authorization"]
    /\ track' = [track EXCEPT ![r] = FALSE]
    /\ refunded' = [refunded EXCEPT ![r] = FALSE]
    /\ usage' = [usage EXCEPT ![r] = 0]
    /\ charged' = [charged EXCEPT ![r] = "nobody"]

Init ==
    /\ view \in Views
    /\ used = [u \in Users |-> [i \in Windows |-> 0]]
    /\ idle = [u \in Users |-> TTL["30d"]]
    /\ taken = [u \in Users |-> 0]
    /\ pc = [r \in Requests |-> "idle"]
    /\ rl = [r \in Requests |-> NoResult]
    /\ header = [r \in Requests |-> "authorization"]
    /\ track = [r \in Requests |-> FALSE]
    /\ refunded = [r \in Requests |-> FALSE]
    /\ usage = [r \in Requests |-> 0]
    /\ charged = [r \in Requests |-> "nobody"]
    /\ spent = [u \in Users |-> 0]
    /\ delivered = [u \in Users |-> [a \in Ages |-> 0]]
    /\ changes = 0
    /\ errors = 0
    /\ aborts = 0

-----------------------------------------------------------------------------
(* check() *)

\* A request arrives, is looked up and goes on with result res.
Arrive(r, next, res) ==
    /\ pc[r] = "idle"
    /\ pc' = [pc EXCEPT ![r] = next]
    /\ rl' = [rl EXCEPT ![r] = res]
    /\ \E h \in Headers : header' = [header EXCEPT ![r] = h]
    /\ UNCHANGED <<view, tokenVars, track, refunded, usage, charged, spent,
                   delivered, changes, aborts>>

\* Neither key nor policy is known: passthrough.
PassUnknown(r) ==
    /\ view \in {NoKey, NoConfig}
    /\ "passthrough" \in OnUnknown
    /\ Arrive(r, "admitted", Result("none", FALSE, "key", view = NoConfig))
    /\ UNCHANGED <<taken, errors>>

\* Request-count mode: the limiter admits the request and counts it ...
AdmitRequest(r) ==
    LET u == UserOf(view) IN
    /\ view.type = "request"
    /\ taken[u] < Capacity
    /\ Arrive(r, "admitted", Result("request", TRUE, u, TRUE))
    /\ taken' = [taken EXCEPT ![u] = @ + 1]
    /\ UNCHANGED errors

\* ... or cannot reach Redis and lets it through (_degrade).
DegradeRequest(r) ==
    /\ view.type = "request"
    /\ OnRedisError \cap {"passthrough", "local_fallback"} # {}
    /\ MoreTrouble
    /\ errors' = errors + 1
    /\ Arrive(r, "admitted", Result("request", FALSE, UserOf(view), TRUE))
    /\ UNCHANGED taken

\* Token mode: EVALSHA rate_limit_token_check is sent.
CheckToken(r) ==
    /\ view.type = "token"
    /\ Arrive(r, "checking", Result("token", TRUE, UserOf(view), TRUE))
    /\ UNCHANGED <<taken, errors>>

AllowToken(r) ==
    /\ pc[r] = "checking"
    /\ BelowLimits(rl[r].user)
    /\ pc' = [pc EXCEPT ![r] = "admitted"]
    /\ UNCHANGED <<view, tokenVars, quotaVars, resultVars, delivered, boundVars>>

\* A mutation: the check renews the TTLs of what it reads.
RefuseTokenRenewing(r) ==
    /\ pc[r] = "checking"
    /\ ~BelowLimits(rl[r].user)
    /\ idle' = [idle EXCEPT ![rl[r].user] = 0]
    /\ End(r)
    /\ UNCHANGED <<view, used, quotaVars, delivered, boundVars>>

RefuseToken(r) ==
    /\ pc[r] = "checking"
    /\ ~BelowLimits(rl[r].user)
    /\ End(r)
    /\ UNCHANGED <<view, tokenVars, quotaVars, delivered, boundVars>>

\* The check cannot reach Redis: the request is let through unchecked, or refused.
DegradeToken(r) ==
    /\ pc[r] = "checking"
    /\ MoreTrouble
    /\ errors' = errors + 1
    /\ \/ /\ OnRedisError \cap {"passthrough", "local_fallback"} # {}
          /\ pc' = [pc EXCEPT ![r] = "admitted"]
          /\ rl' = [rl EXCEPT ![r].counted = FALSE]
          /\ UNCHANGED <<header, track, refunded, usage, charged>>
       \/ /\ OnRedisError \cap {"reject", "local_fallback"} # {}
          /\ End(r)
    /\ UNCHANGED <<view, tokenVars, quotaVars, delivered, changes, aborts>>

-----------------------------------------------------------------------------
(* _forward_to_newapi *)

\* The client leaves while its body is being read: the exception passes every handler.
BodyFails(r) ==
    /\ pc[r] = "admitted"
    /\ MoreTrouble
    /\ aborts' = aborts + 1
    /\ Keep(r)
    /\ End(r)
    /\ UNCHANGED <<view, tokenVars, delivered, changes, errors>>

\* Second lookup: usage is tracked when the policy's type is token now.
Forward(r) ==
    /\ pc[r] = "admitted"
    /\ pc' = [pc EXCEPT ![r] = "called"]
    /\ track' = [track EXCEPT ![r] = rl[r].group /\ view.type = "token"]
    /\ UNCHANGED <<view, tokenVars, quotaVars, rl, header, refunded, usage, charged,
                   delivered, boundVars>>

(* _proxy_normal and _proxy_stream.  A plain response can only do what a stream can do
   too, so they are not told apart. *)

\* A mutation: the flag is not looked at.
RefundEachTime(r) == Refunded(r)

\* refund_once(), which the stream's failure handlers share.
RefundOnce(r) == IF refunded[r] THEN UNCHANGED taken ELSE Refunded(r)

\* A stream opens with anything but 2xx: refunded, its body is passed on all the same.
StreamRefused(r) ==
    /\ pc[r] = "called" /\ ~refunded[r]
    /\ RefundOnce(r)
    /\ refunded' = [refunded EXCEPT ![r] = TRUE]
    /\ UNCHANGED <<view, tokenVars, spent, pc, rl, header, track, usage, charged,
                   delivered, boundVars>>

\* NewAPI cannot be reached, answers a plain request with anything but 2xx, or breaks a
\* stream off, whatever its status was.
CallFails(r) ==
    /\ pc[r] = "called"
    /\ RefundOnce(r)
    /\ End(r)
    /\ UNCHANGED <<view, tokenVars, spent, delivered, boundVars>>

\* The client of a stream leaves: CancelledError is neither an Exception nor a
\* RequestError, so nothing is refunded or deducted.
ClientLeaves(r) ==
    /\ pc[r] \in {"called", "answered", "deducting"}
    /\ MoreTrouble
    /\ aborts' = aborts + 1
    /\ Keep(r)
    /\ End(r)
    /\ UNCHANGED <<view, tokenVars, delivered, changes, errors>>

\* Nothing has changed, failed or been broken off.
Undisturbed == changes = 0 /\ errors = 0 /\ aborts = 0

\* The response is complete and reports n tokens (0: none, or it cannot be told).
Delivered(r, n) ==
    delivered' = IF rl[r].mode = "token" /\ Undisturbed
                 THEN [delivered EXCEPT ![rl[r].user][0] = @ + n]
                 ELSE delivered

\* No usage to charge: done.
ResponseEnds(r) ==
    /\ pc[r] = "called"
    /\ \E n \in 0 .. MaxUsage : (track[r] => n = 0) /\ Delivered(r, n)
    /\ Keep(r)
    /\ End(r)
    /\ UNCHANGED <<view, tokenVars, boundVars>>

UsageReported(r) ==
    /\ pc[r] = "called"
    /\ track[r]
    /\ \E n \in 1 .. MaxUsage : usage' = [usage EXCEPT ![r] = n] /\ Delivered(r, n)
    /\ pc' = [pc EXCEPT ![r] = "answered"]
    /\ UNCHANGED <<view, tokenVars, quotaVars, rl, header, track, refunded,
                   charged, boundVars>>

\* Third lookup: the user to charge is worked out anew ...
FindCharged(r) ==
    /\ pc[r] = "answered"
    /\ view \in Policies
    /\ charged' = [charged EXCEPT ![r] = ChargedUser(view, header[r])]
    /\ pc' = [pc EXCEPT ![r] = "deducting"]
    /\ UNCHANGED <<view, tokenVars, quotaVars, rl, header, track, refunded, usage,
                   delivered, boundVars>>

\* ... unless the policy is gone.
NobodyToCharge(r) ==
    /\ pc[r] = "answered"
    /\ view \notin Policies
    /\ Keep(r)
    /\ End(r)
    /\ UNCHANGED <<view, tokenVars, delivered, boundVars>>

\* deduct_tokens(), token_deduct.lua
Deduct(r) ==
    /\ pc[r] = "deducting"
    /\ Added(charged[r], usage[r])
    /\ Keep(r)
    /\ End(r)
    /\ UNCHANGED <<view, delivered, boundVars>>

\* Redis fails: the error is logged and the tokens are never charged.
DeductFails(r) ==
    /\ pc[r] = "deducting"
    /\ MoreTrouble
    /\ errors' = errors + 1
    /\ Keep(r)
    /\ End(r)
    /\ UNCHANGED <<view, tokenVars, delivered, changes, aborts>>

-----------------------------------------------------------------------------
(* The resolver and the clock *)

\* The policy, or the key's group, is changed, or a cache loses it.
ViewChanges ==
    /\ MoreTrouble
    /\ changes' = changes + 1
    /\ view' \in Views \ {view}
    /\ UNCHANGED <<tokenVars, quotaVars, pc, resultVars, delivered, errors, aborts>>

\* A counter whose TTL is over is gone.
Tick ==
    /\ idle' = [u \in Users |-> IF idle[u] < TTL["30d"] THEN idle[u] + 1 ELSE idle[u]]
    /\ used' = [u \in Users |-> [i \in Windows |->
                   IF idle'[u] >= TTL[i] THEN 0 ELSE used[u][i]]]
    /\ delivered' = [u \in Users |-> [a \in Ages |->
                        IF a = 0 THEN 0 ELSE delivered[u][a - 1]]]
    /\ UNCHANGED <<view, quotaVars, pc, resultVars, boundVars>>

Checks(r) ==
    \/ PassUnknown(r) \/ AdmitRequest(r) \/ DegradeRequest(r)
    \/ CheckToken(r) \/ AllowToken(r) \/ RefuseToken(r) \/ DegradeToken(r)
Call(r) ==
    \/ BodyFails(r) \/ Forward(r)
    \/ StreamRefused(r) \/ CallFails(r) \/ ClientLeaves(r)
Charge(r) ==
    \/ ResponseEnds(r) \/ UsageReported(r)
    \/ FindCharged(r) \/ NobodyToCharge(r) \/ Deduct(r) \/ DeductFails(r)

Next ==
    \/ \E r \in Requests : Checks(r) \/ Call(r) \/ Charge(r)
    \/ ViewChanges
    \/ Tick

Spec == Init /\ [][Next]_vars

\* Time passes; requests may take as long as they like.
FairSpec == Spec /\ WF_vars(Tick)

-----------------------------------------------------------------------------
(* Properties *)

TypeOK ==
    /\ view \in Views
    /\ used \in [Users -> [Windows -> Nat]]
    /\ idle \in [Users -> 0 .. TTL["30d"]]
    /\ taken \in [Users -> Nat]
    /\ pc \in [Requests -> {"idle", "checking", "admitted", "called", "answered",
                            "deducting"}]
    /\ rl \in [Requests -> [mode : {"none", "request", "token"}, counted : BOOLEAN,
                            user : Users, group : BOOLEAN]]
    /\ header \in [Requests -> {"authorization", "api-key"}]
    /\ track \in [Requests -> BOOLEAN]
    /\ refunded \in [Requests -> BOOLEAN]
    /\ usage \in [Requests -> 0 .. MaxUsage]
    /\ charged \in [Requests -> Users]
    /\ spent \in [Users -> Nat]
    /\ delivered \in [Users -> [Ages -> Nat]]
    /\ {changes, errors, aborts} \subseteq Nat

\* Token mode checks before the call and deducts after it, so requests that are under
\* way together may all overshoot, but no user ever stands above a limit by more than
\* what they can use, as long as the policy stays and Redis answers.
TokenOvershootBounded ==
    changes = 0 /\ errors = 0
        => \A u \in Users, i \in Windows :
              used[u][i] <= TokenLimit[i] - 1 + MaxUsage * Cardinality(Requests)

\* User u's requests whose tokens have been reported and are not yet charged.
Uncharged(u) == {r \in Requests : /\ pc[r] \in {"answered", "deducting"}
                                  /\ rl[r].mode = "token" /\ rl[r].user = u}

Pending(u) == Total(usage, Uncharged(u))

Recent(u, i) == Total(delivered[u], {a \in Ages : a < TTL[i]})

\* What a user's requests have used within a window counts against that user's limit
\* (token_deduct.lua:4): whatever expires early, is charged to somebody else or
\* overwritten would let the user use more.  Requests that change hands while the policy
\* changes, failing calls of Redis and clients that leave are excepted.
UsageCovered ==
    Undisturbed
        => \A u \in Users, i \in Windows : used[u][i] + Pending(u) >= Recent(u, i)

\* Requests holding quota of user u.
Holders(u) == {r \in Requests : Holds(r) /\ rl[r].user = u}

\* Quota is given back exactly for the requests whose call failed (README, line 186): what
\* is taken belongs to a request under way, or to one that did not fail.
QuotaConserved == \A u \in Users : taken[u] = spent[u] + Cardinality(Holders(u))

Ledger == INSTANCE QuotaLedger WITH
    holding <- [u \in Users |-> Holders(u)],
    lost <- [u \in Users |-> 0]

\* The proxy keeps to the limiter's ledger: only a request that has taken quota gives it
\* back, to the user it was taken from, and only once, although a stream may meet two
\* failures and the policy may have changed since.
ImplementsLedger == Ledger!Spec

\* A user above a limit gets below it again, however often it keeps asking: a refusal
\* does not prolong itself.
TokensComeBack ==
    \A u \in Users : []<>(\A i \in Windows : used[u][i] < TokenLimit[i])
=============================================================================
