------------------------------ MODULE RedisCalls ------------------------------
(***************************************************************************)
(* How one worker calls Redis: _call_script and deduct_tokens of           *)
(* app/ratelimit.py (EVALSHA behind a circuit breaker, reloading the Lua   *)
(* scripts on NOSCRIPT), the breaker itself (app/resilience.py) and the    *)
(* /health ping that feeds it, against a Redis that may be unreachable for *)
(* a while and may lose its script cache.                                  *)
(*                                                                         *)
(* The breaker is plain state shared by all coroutines of the worker's     *)
(* event loop: an action is what one coroutine does between two awaits, so *)
(* an answer may be handled long after the breaker let its call through.   *)
(***************************************************************************)
EXTENDS Integers, FiniteSets

CONSTANTS
    Tasks,            \* coroutines of one worker that call a script
    FailureThreshold, \* RATELIMIT_CIRCUIT_BREAKER_FAILURE_THRESHOLD, at least 1
    UsePing,          \* whether something polls /health
    MaxTroubles       \* bound: outages of Redis, losses of its script cache and streaming
                      \* clients that leave during deduct_tokens, taken together

\* Scripts are numbered in the order _load_scripts loads them.
RequestScript == 1
TokenCheckScript == 2
TokenDeductScript == 3
AllScripts == 1 .. 3

ASSUME CallsAssumption ==
    /\ IsFiniteSet(Tasks)
    /\ FailureThreshold \in Nat \ {0}
    /\ UsePing \in BOOLEAN
    /\ MaxTroubles \in Nat

VARIABLES
    state,           \* CircuitBreaker._state: "closed" or "open"
    failures,        \* _failures
    elapsed,         \* open_seconds have passed since _opened_at
    probe_inflight,  \* _probe_inflight
    up,              \* Redis can be reached
    scripts,         \* its script cache
    pc,              \* task -> where it is
    uses,            \* task -> the script it calls
    attempt,         \* task -> attempt of _call_script; 0 while deduct_tokens reloads
    round,           \* task -> attempt of deduct_tokens
    loaded,          \* task -> scripts its _load_scripts has loaded
    answer,          \* task -> what Redis answered
    probing,         \* history: tasks that passed the breaker while half-open
    ping,            \* the /health ping: "idle", "sent" or its answer
    outages, losses, cancels   \* how often each has happened (bounded)

breakerVars == <<state, failures, elapsed, probe_inflight>>
redisVars   == <<up, scripts>>
callVars    == <<uses, attempt, round, loaded, answer>>
boundVars   == <<outages, losses, cancels>>
vars == <<breakerVars, redisVars, pc, callVars, probing, ping, boundVars>>

-----------------------------------------------------------------------------
\* Another outage, loss or cancellation is within the bound.
MoreTrouble == outages + losses + cancels < MaxTroubles

(* CircuitBreaker *)

HalfOpen == state = "open" /\ elapsed

\* allow(), for a call that goes through, ...
Allow == state = "closed" \/ (HalfOpen /\ ~probe_inflight)

\* ... and what it leaves behind.
TakeProbe ==
    /\ probe_inflight' = (probe_inflight \/ HalfOpen)
    /\ UNCHANGED <<state, failures, elapsed>>

Trip == state' = "open" /\ elapsed' = FALSE /\ failures' = 0

RecordSuccess ==
    /\ state' = "closed"
    /\ elapsed' = FALSE
    /\ failures' = 0
    /\ probe_inflight' = FALSE

\* A mutation: a failed probe does not clear the flag.
RecordFailureKeepsProbe ==
    /\ UNCHANGED probe_inflight
    /\ IF HalfOpen \/ failures + 1 >= FailureThreshold
       THEN Trip
       ELSE failures' = failures + 1 /\ UNCHANGED <<state, elapsed>>

\* A mutation: the breaker trips only above its threshold.
RecordFailureLate ==
    /\ probe_inflight' = FALSE
    /\ IF HalfOpen \/ failures + 1 > FailureThreshold
       THEN Trip
       ELSE failures' = failures + 1 /\ UNCHANGED <<state, elapsed>>

\* Also counts, and trips again, when the call was made before the breaker opened.
RecordFailure ==
    /\ probe_inflight' = FALSE
    /\ IF HalfOpen \/ failures + 1 >= FailureThreshold
       THEN Trip
       ELSE failures' = failures + 1 /\ UNCHANGED <<state, elapsed>>

-----------------------------------------------------------------------------
Init ==
    /\ state = "closed"
    /\ failures = 0
    /\ elapsed = FALSE
    /\ probe_inflight = FALSE
    /\ up = TRUE
    /\ scripts = AllScripts
    /\ pc = [t \in Tasks |-> "idle"]
    /\ uses = [t \in Tasks |-> RequestScript]
    /\ attempt = [t \in Tasks |-> 1]
    /\ round = [t \in Tasks |-> 1]
    /\ loaded = [t \in Tasks |-> 0]
    /\ answer = [t \in Tasks |-> "none"]
    /\ probing = {}
    /\ ping = "idle"
    /\ outages = 0
    /\ losses = 0
    /\ cancels = 0

(* _call_script *)

\* Ask the breaker and send EVALSHA, or raise CircuitOpenError.
TryCall(t) ==
    \/ /\ Allow
       /\ TakeProbe
       /\ probing' = IF HalfOpen THEN probing \cup {t} ELSE probing
       /\ pc' = [pc EXCEPT ![t] = "sent"]
    \/ /\ ~Allow
       /\ pc' = [pc EXCEPT ![t] = "degraded"]
       /\ probing' = probing \ {t}
       /\ UNCHANGED breakerVars

Begin(t) ==
    /\ pc[t] = "idle"
    /\ \E s \in AllScripts : uses' = [uses EXCEPT ![t] = s]
    /\ attempt' = [attempt EXCEPT ![t] = 1]
    /\ round' = [round EXCEPT ![t] = 1]
    /\ TryCall(t)
    /\ UNCHANGED <<redisVars, loaded, answer, ping, boundVars>>

\* Redis runs the script, does not know it, or cannot be reached.
RedisAnswers(t) ==
    /\ pc[t] = "sent"
    /\ pc' = [pc EXCEPT ![t] = "answered"]
    /\ answer' = [answer EXCEPT ![t] = IF ~up THEN "error"
                                       ELSE IF uses[t] \in scripts THEN "ok"
                                       ELSE "noscript"]
    /\ UNCHANGED <<breakerVars, redisVars, uses, attempt, round, loaded, probing, ping,
                   boundVars>>

\* The call's local variables are gone.
Forget(t) ==
    /\ uses' = [uses EXCEPT ![t] = RequestScript]
    /\ attempt' = [attempt EXCEPT ![t] = 1]
    /\ round' = [round EXCEPT ![t] = 1]
    /\ loaded' = [loaded EXCEPT ![t] = 0]
    /\ answer' = [answer EXCEPT ![t] = "none"]

EndCall(t) ==
    /\ Forget(t)
    /\ probing' = probing \ {t}

ReceiveOk(t) ==
    /\ pc[t] = "answered"
    /\ answer[t] = "ok"
    /\ RecordSuccess
    /\ EndCall(t)
    /\ pc' = [pc EXCEPT ![t] = "idle"]
    /\ UNCHANGED <<redisVars, ping, boundVars>>

\* Anything but NOSCRIPT is a failure of Redis; the request degrades.
ReceiveError(t) ==
    /\ pc[t] = "answered"
    /\ answer[t] = "error"
    /\ RecordFailure
    /\ EndCall(t)
    /\ pc' = [pc EXCEPT ![t] = "degraded"]
    /\ UNCHANGED <<redisVars, ping, boundVars>>

\* A mutation: NOSCRIPT counts as a failure of Redis.
ReceiveNoscriptAsFailure(t) ==
    /\ pc[t] = "answered"
    /\ answer[t] = "noscript"
    /\ attempt[t] = 1
    /\ RecordFailure
    /\ pc' = [pc EXCEPT ![t] = "loading"]
    /\ answer' = [answer EXCEPT ![t] = "none"]
    /\ UNCHANGED <<redisVars, uses, attempt, round, loaded, probing, ping, boundVars>>

\* A mutation: the call is repeated without reloading the scripts, and not counted.
ReceiveNoscriptRetries(t) ==
    /\ pc[t] = "answered"
    /\ answer[t] = "noscript"
    /\ attempt[t] = 1
    /\ pc' = [pc EXCEPT ![t] = "sent"]
    /\ answer' = [answer EXCEPT ![t] = "none"]
    /\ UNCHANGED <<breakerVars, redisVars, uses, attempt, round, loaded, probing, ping,
                   boundVars>>

\* NOSCRIPT on the first attempt: reload the scripts, then try again.  The breaker is
\* told nothing.
ReceiveNoscript(t) ==
    /\ pc[t] = "answered"
    /\ answer[t] = "noscript"
    /\ attempt[t] = 1
    /\ pc' = [pc EXCEPT ![t] = "loading"]
    /\ answer' = [answer EXCEPT ![t] = "none"]
    /\ UNCHANGED <<breakerVars, redisVars, uses, attempt, round, loaded, probing, ping,
                   boundVars>>

\* NOSCRIPT leaves _call_script: deduct_tokens reloads once more and starts over (a
\* second round), every other caller degrades.
RaiseNoscript(t) ==
    \/ /\ uses[t] = TokenDeductScript
       /\ round[t] = 1
       /\ round' = [round EXCEPT ![t] = 2]
       /\ attempt' = [attempt EXCEPT ![t] = 0]
       /\ pc' = [pc EXCEPT ![t] = "loading"]
       /\ answer' = [answer EXCEPT ![t] = "none"]
       /\ loaded' = [loaded EXCEPT ![t] = 0]
       /\ UNCHANGED <<uses, probing>>
    \/ /\ uses[t] # TokenDeductScript \/ round[t] = 2
       /\ pc' = [pc EXCEPT ![t] = "degraded"]
       /\ EndCall(t)

ReceiveNoscriptAgain(t) ==
    /\ pc[t] = "answered"
    /\ answer[t] = "noscript"
    /\ attempt[t] = 2
    /\ RaiseNoscript(t)
    /\ UNCHANGED <<breakerVars, redisVars, ping, boundVars>>

(* _load_scripts: three SCRIPT LOAD commands, one await each *)

LoadOne(t) ==
    /\ pc[t] = "loading"
    /\ up
    /\ scripts' = scripts \cup {loaded[t] + 1}
    /\ IF loaded[t] + 1 < Cardinality(AllScripts)
       THEN /\ loaded' = [loaded EXCEPT ![t] = @ + 1]
            /\ UNCHANGED <<breakerVars, pc, attempt, probing>>
       ELSE /\ loaded' = [loaded EXCEPT ![t] = 0]
            /\ attempt' = [attempt EXCEPT ![t] = @ + 1]
            /\ TryCall(t)
    /\ UNCHANGED <<up, uses, round, answer, ping, boundVars>>

\* The reload fails: the NOSCRIPT error is raised after all, or given up by deduct_tokens.
LoadFails(t) ==
    /\ pc[t] = "loading"
    /\ ~up
    /\ IF attempt[t] = 1
       THEN RaiseNoscript(t)
       ELSE pc' = [pc EXCEPT ![t] = "degraded"] /\ EndCall(t)
    /\ UNCHANGED <<breakerVars, redisVars, ping, boundVars>>

\* The caller has degraded (or logged the lost deduction) and is done.
Return(t) ==
    /\ pc[t] = "degraded"
    /\ pc' = [pc EXCEPT ![t] = "idle"]
    /\ Forget(t)
    /\ UNCHANGED <<breakerVars, redisVars, probing, ping, boundVars>>

\* The client of a stream leaves: CancelledError is no Exception, so neither handler
\* of _call_script runs.
Cancel(t) ==
    /\ uses[t] = TokenDeductScript
    /\ pc[t] \in {"sent", "answered", "loading"}
    /\ MoreTrouble
    /\ cancels' = cancels + 1
    /\ EndCall(t)
    /\ pc' = [pc EXCEPT ![t] = "idle"]
    /\ UNCHANGED <<breakerVars, redisVars, ping, outages, losses>>

(* ping(), called by GET /health; it does not ask the breaker *)

PingSend ==
    /\ UsePing
    /\ ping = "idle"
    /\ ping' = "sent"
    /\ UNCHANGED <<breakerVars, redisVars, pc, callVars, probing, boundVars>>

PingAnswered ==
    /\ ping = "sent"
    /\ ping' = IF up THEN "ok" ELSE "error"
    /\ UNCHANGED <<breakerVars, redisVars, pc, callVars, probing, boundVars>>

\* A mutation: a successful ping does not reach the breaker.
PingReceiveFailuresOnly ==
    /\ ping \in {"ok", "error"}
    /\ IF ping = "ok" THEN UNCHANGED breakerVars ELSE RecordFailure
    /\ ping' = "idle"
    /\ UNCHANGED <<redisVars, pc, callVars, probing, boundVars>>

PingReceive ==
    /\ ping \in {"ok", "error"}
    /\ IF ping = "ok" THEN RecordSuccess ELSE RecordFailure
    /\ ping' = "idle"
    /\ UNCHANGED <<redisVars, pc, callVars, probing, boundVars>>

(* Time and Redis *)

\* open_seconds have passed: the state property now says "half-open".
OpenWindowElapses ==
    /\ state = "open"
    /\ ~elapsed
    /\ elapsed' = TRUE
    /\ UNCHANGED <<state, failures, probe_inflight, redisVars, pc, callVars, probing, ping,
                   boundVars>>

Outage ==
    /\ up
    /\ MoreTrouble
    /\ outages' = outages + 1
    /\ up' = FALSE
    /\ UNCHANGED <<breakerVars, scripts, pc, callVars, probing, ping, losses, cancels>>

Recovery ==
    /\ ~up
    /\ up' = TRUE
    /\ UNCHANGED <<breakerVars, scripts, pc, callVars, probing, ping, boundVars>>

\* Redis restarts (during an outage, or too quickly for anyone to notice).
ScriptsLost ==
    /\ MoreTrouble
    /\ losses' = losses + 1
    /\ scripts' = {}
    /\ UNCHANGED <<breakerVars, up, pc, callVars, probing, ping, outages, cancels>>

Receive(t) ==
    \/ ReceiveOk(t) \/ ReceiveError(t) \/ ReceiveNoscript(t) \/ ReceiveNoscriptAgain(t)
Load(t) == LoadOne(t) \/ LoadFails(t)
PingStep == PingSend \/ PingAnswered \/ PingReceive

Next ==
    \/ \E t \in Tasks : \/ Begin(t)
                        \/ RedisAnswers(t)
                        \/ Receive(t)
                        \/ Load(t)
                        \/ Return(t)
                        \/ Cancel(t)
    \/ PingStep
    \/ OpenWindowElapses \/ Outage \/ Recovery \/ ScriptsLost

Spec == Init /\ [][Next]_vars

\* Requests keep coming, Redis answers or the connection breaks, time passes, and the
\* event loop runs every coroutine that is ready.
Fairness ==
    /\ \A t \in Tasks : /\ WF_vars(Begin(t))
                        /\ WF_vars(RedisAnswers(t))
                        /\ WF_vars(Receive(t))
                        /\ WF_vars(Load(t))
                        /\ WF_vars(Return(t))
    /\ WF_vars(PingStep)
    /\ WF_vars(OpenWindowElapses)

FairSpec == Spec /\ Fairness

-----------------------------------------------------------------------------
(* Properties *)

TypeOK ==
    /\ state \in {"closed", "open"}
    /\ failures \in 0 .. FailureThreshold - 1
    /\ elapsed \in BOOLEAN /\ (elapsed => state = "open")
    /\ probe_inflight \in BOOLEAN
    /\ up \in BOOLEAN
    /\ scripts \subseteq AllScripts
    /\ pc \in [Tasks -> {"idle", "sent", "answered", "loading", "degraded"}]
    /\ uses \in [Tasks -> AllScripts]
    /\ attempt \in [Tasks -> 0 .. 2]
    /\ round \in [Tasks -> 1 .. 2]
    /\ loaded \in [Tasks -> 0 .. 2]
    /\ answer \in [Tasks -> {"none", "ok", "error", "noscript"}]
    /\ probing \subseteq Tasks
    /\ ping \in {"idle", "sent", "ok", "error"}
    /\ {outages, losses, cancels} \subseteq Nat

\* A call that is under way holds the probe.
ProbeUnderWay == \E t \in probing : pc[t] \in {"sent", "answered"}

\* As long as Redis keeps its scripts and no client leaves a deduction: while
\* _probe_inflight keeps every other caller out, some call is really under way whose
\* answer will clear it, however late answers, pings and probes cross each other;
\* otherwise the breaker is stuck half-open.
ProbeHasOwner == losses = 0 /\ cancels = 0 /\ probe_inflight => ProbeUnderWay

\* Once Redis stays reachable the breaker closes, again and again if need be: degraded
\* operation does not outlive the outage (README, line 183).
BreakerRecovers == <>[]up => []<>(state = "closed")

\* As long as Redis stays reachable and loses its scripts at most once (NOSCRIPT
\* self-healing, README line 200), no request degrades and the breaker stays closed: the
\* loss is repaired within the calls that meet it, however their reloads interleave.
ScriptLossInvisible ==
    outages = 0 /\ losses <= 1 => state = "closed" /\ \A t \in Tasks : pc[t] # "degraded"

\* A call is never repeated for ever: it ends in an answer or in degradation.
CallsReturn == \A t \in Tasks : pc[t] = "sent" ~> pc[t] \in {"idle", "degraded"}
=============================================================================
