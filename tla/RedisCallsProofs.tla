--------------------------- MODULE RedisCallsProofs ---------------------------
(***************************************************************************)
(* Proofs about RedisCalls for every number of coroutines and every        *)
(* failure threshold: the type invariant, that a half-open breaker is      *)
(* never waiting for a probe nobody has sent, and that a lost script cache *)
(* is repaired without anybody noticing.                                   *)
(***************************************************************************)
EXTENDS RedisCalls, FiniteSetTheorems, TLAPS

LEMMA ScriptFacts ==
    /\ Cardinality(AllScripts) = 3
    /\ AllScripts = {1, 2, 3}
    /\ RequestScript \in AllScripts
<1>1. Cardinality(1 .. 3) = 3
  <2>1. 1 .. 3 = {1, 2, 3}  OBVIOUS
  <2>2. IsFiniteSet({1}) /\ Cardinality({1}) = 1  BY FS_Singleton
  <2>3. IsFiniteSet({1} \cup {2}) /\ Cardinality({1} \cup {2}) = 2
    BY <2>2, FS_AddElement
  <2>4. Cardinality(({1} \cup {2}) \cup {3}) = 3
    BY <2>3, FS_AddElement
  <2>5. ({1} \cup {2}) \cup {3} = {1, 2, 3}  OBVIOUS
  <2>6. QED  BY <2>1, <2>4, <2>5
<1>2. QED  BY <1>1 DEF AllScripts, RequestScript

-----------------------------------------------------------------------------
(* Types *)

\* A reload is made after the first attempt, or by deduct_tokens.
LoadInv == \A t \in Tasks : pc[t] = "loading" => attempt[t] \in 0 .. 1

LEMMA InitType == Init => TypeOK /\ LoadInv
<1> SUFFICES ASSUME Init PROVE TypeOK /\ LoadInv
  OBVIOUS
<1>1. /\ 0 \in 0 .. FailureThreshold - 1 /\ {outages, losses, cancels} \subseteq Nat
  BY CallsAssumption DEF CallsAssumption, Init
<1>2. /\ elapsed = FALSE /\ probe_inflight = FALSE /\ up = TRUE
      /\ scripts \subseteq AllScripts /\ probing \subseteq Tasks
  BY DEF Init
<1>3. /\ uses \in [Tasks -> AllScripts] /\ attempt \in [Tasks -> 0 .. 2]
      /\ round \in [Tasks -> 1 .. 2] /\ loaded \in [Tasks -> 0 .. 2]
      /\ pc = [t \in Tasks |-> "idle"] /\ answer = [t \in Tasks |-> "none"]
  BY ScriptFacts DEF Init
<1>4. QED  BY <1>1, <1>2, <1>3 DEF Init, TypeOK, LoadInv

\* What a step leaves of the breaker.
LEMMA BreakerTypes ==
    ASSUME TypeOK
    PROVE  /\ TakeProbe => /\ state' = state /\ failures' = failures
                           /\ elapsed' = elapsed /\ probe_inflight' \in BOOLEAN
           /\ RecordSuccess \/ RecordFailure
                 => /\ state' \in {"closed", "open"} /\ failures' \in 0 .. FailureThreshold - 1
                    /\ elapsed' \in BOOLEAN /\ (elapsed' => state' = "open")
                    /\ probe_inflight' \in BOOLEAN
<1>1. FailureThreshold \in Nat \ {0} /\ 0 \in 0 .. FailureThreshold - 1
  BY CallsAssumption DEF CallsAssumption
<1>2. TakeProbe => /\ state' = state /\ failures' = failures
                   /\ elapsed' = elapsed /\ probe_inflight' \in BOOLEAN
  BY DEF TakeProbe, HalfOpen, TypeOK
<1>3. ASSUME RecordFailure
      PROVE  /\ state' \in {"closed", "open"} /\ failures' \in 0 .. FailureThreshold - 1
             /\ elapsed' \in BOOLEAN /\ (elapsed' => state' = "open")
             /\ probe_inflight' \in BOOLEAN
  <2>1. CASE HalfOpen \/ failures + 1 >= FailureThreshold
    <3>1. state' = "open" /\ elapsed' = FALSE /\ failures' = 0 /\ probe_inflight' = FALSE
      BY <1>3, <2>1 DEF RecordFailure, Trip
    <3>2. QED  BY <1>1, <3>1, Zenon
  <2>2. CASE ~(HalfOpen \/ failures + 1 >= FailureThreshold)
    <3>1. /\ state' = state /\ elapsed' = elapsed /\ failures' = failures + 1
          /\ probe_inflight' = FALSE
      BY <1>3, <2>2 DEF RecordFailure
    <3>2. failures + 1 \in 0 .. FailureThreshold - 1
      BY <1>1, <2>2 DEF TypeOK
    <3>3. QED  BY <3>1, <3>2 DEF TypeOK
  <2>3. QED  BY <2>1, <2>2
<1>4. ASSUME RecordSuccess
      PROVE  /\ state' \in {"closed", "open"} /\ failures' \in 0 .. FailureThreshold - 1
             /\ elapsed' \in BOOLEAN /\ (elapsed' => state' = "open")
             /\ probe_inflight' \in BOOLEAN
  <2>1. /\ state' = "closed" /\ elapsed' = FALSE /\ failures' = 0
        /\ probe_inflight' = FALSE
    BY <1>4 DEF RecordSuccess
  <2>2. QED  BY <1>1, <2>1, Zenon
<1>5. QED  BY <1>2, <1>3, <1>4

\* TryCall leaves the breaker well-typed, and the task in a call or degraded.
LEMMA TryCallTypes ==
    ASSUME TypeOK, NEW t \in Tasks, TryCall(t)
    PROVE  /\ state' = state /\ failures' = failures /\ elapsed' = elapsed
           /\ probe_inflight' \in BOOLEAN
           /\ probing' \subseteq Tasks
           /\ \E p \in {"sent", "degraded"} : pc' = [pc EXCEPT ![t] = p]
BY BreakerTypes DEF TryCall, breakerVars, TypeOK

LEMMA NextType == TypeOK /\ LoadInv /\ [Next]_vars => TypeOK' /\ LoadInv'
<1> SUFFICES ASSUME TypeOK, LoadInv, [Next]_vars PROVE TypeOK' /\ LoadInv'
  OBVIOUS
<1> USE DEF TypeOK, LoadInv, vars, breakerVars, redisVars, callVars, boundVars
<1>1. ASSUME NEW t \in Tasks, Begin(t) PROVE TypeOK' /\ LoadInv'
  BY <1>1, TryCallTypes DEF Begin
<1>2. ASSUME NEW t \in Tasks, RedisAnswers(t) PROVE TypeOK' /\ LoadInv'
  BY <1>2 DEF RedisAnswers
<1>3. ASSUME NEW t \in Tasks, ReceiveOk(t) PROVE TypeOK' /\ LoadInv'
  BY <1>3, BreakerTypes, ScriptFacts DEF ReceiveOk, EndCall, Forget
<1>4. ASSUME NEW t \in Tasks, ReceiveError(t) PROVE TypeOK' /\ LoadInv'
  BY <1>4, BreakerTypes, ScriptFacts DEF ReceiveError, EndCall, Forget
<1>5. ASSUME NEW t \in Tasks, ReceiveNoscript(t) PROVE TypeOK' /\ LoadInv'
  BY <1>5 DEF ReceiveNoscript
<1>6. ASSUME NEW t \in Tasks, RaiseNoscript(t),
             UNCHANGED <<breakerVars, redisVars, ping, boundVars>>
      PROVE  TypeOK' /\ LoadInv'
  BY <1>6, ScriptFacts DEF RaiseNoscript, EndCall, Forget
<1>7. ASSUME NEW t \in Tasks, ReceiveNoscriptAgain(t) PROVE TypeOK' /\ LoadInv'
  BY <1>6, <1>7 DEF ReceiveNoscriptAgain
<1>8. ASSUME NEW t \in Tasks, LoadOne(t) PROVE TypeOK' /\ LoadInv'
  <2>1. /\ pc[t] = "loading" /\ attempt[t] \in 0 .. 1 /\ loaded[t] \in 0 .. 2
        /\ scripts' = scripts \cup {loaded[t] + 1}
        /\ UNCHANGED <<up, uses, round, answer, ping, boundVars>>
    BY <1>8 DEF LoadOne
  <2>2. scripts' \subseteq AllScripts
    <3>1. loaded[t] + 1 \in AllScripts  BY <2>1 DEF AllScripts
    <3>2. QED  BY <2>1, <3>1, Zenon
  <2>3. CASE loaded[t] + 1 < Cardinality(AllScripts)
    <3>1. /\ loaded' = [loaded EXCEPT ![t] = @ + 1]
          /\ UNCHANGED <<breakerVars, pc, attempt, probing>>
      BY <1>8, <2>3 DEF LoadOne
    <3>2. loaded[t] + 1 \in 0 .. 2  BY <2>1, <2>3, ScriptFacts
    <3>3. QED  BY <2>1, <2>2, <3>1, <3>2
  <2>4. CASE ~(loaded[t] + 1 < Cardinality(AllScripts))
    <3>1. /\ loaded' = [loaded EXCEPT ![t] = 0]
          /\ attempt' = [attempt EXCEPT ![t] = @ + 1]
          /\ TryCall(t)
      BY <1>8, <2>4 DEF LoadOne
    <3>2. attempt[t] + 1 \in 0 .. 2  BY <2>1
    <3>3. QED  BY <2>1, <2>2, <3>1, <3>2, TryCallTypes
  <2>5. QED  BY <2>3, <2>4
<1>9. ASSUME NEW t \in Tasks, LoadFails(t) PROVE TypeOK' /\ LoadInv'
  <2>1. CASE attempt[t] = 1
    BY <1>6, <1>9, <2>1 DEF LoadFails
  <2>2. CASE attempt[t] # 1
    BY <1>9, <2>2, ScriptFacts DEF LoadFails, EndCall, Forget
  <2>3. QED  BY <2>1, <2>2
<1>10. ASSUME NEW t \in Tasks, Return(t) \/ Cancel(t) PROVE TypeOK' /\ LoadInv'
  <2>1. CASE Return(t)  BY <2>1, ScriptFacts DEF Return, Forget
  <2>2. CASE Cancel(t)
    <3>1. {outages', losses', cancels'} \subseteq Nat
      BY <2>2 DEF Cancel
    <3>2. QED  BY <2>2, <3>1, ScriptFacts DEF Cancel, EndCall, Forget
  <2>3. QED  BY <1>10, <2>1, <2>2
<1>11. CASE PingStep
  BY <1>11, BreakerTypes DEF PingStep, PingSend, PingAnswered, PingReceive
<1>12. CASE OpenWindowElapses \/ Outage \/ Recovery \/ ScriptsLost
  <2>1. CASE OpenWindowElapses  BY <2>1 DEF OpenWindowElapses
  <2>2. {outages', losses', cancels'} \subseteq Nat
    BY <1>12 DEF OpenWindowElapses, Outage, Recovery, ScriptsLost
  <2>3. CASE Outage
    <3>1. UNCHANGED <<breakerVars, scripts, pc, callVars, probing, ping>> /\ up' = FALSE
      BY <2>3 DEF Outage
    <3>2. QED  BY <2>2, <3>1
  <2>4. CASE Recovery
    <3>1. UNCHANGED <<breakerVars, scripts, pc, callVars, probing, ping>> /\ up' = TRUE
      BY <2>4 DEF Recovery
    <3>2. QED  BY <2>2, <3>1
  <2>5. CASE ScriptsLost  BY <2>2, <2>5 DEF ScriptsLost
  <2>6. QED  BY <1>12, <2>1, <2>3, <2>4, <2>5
<1>13. CASE UNCHANGED vars  BY <1>13
<1>14. QED
  BY <1>1, <1>2, <1>3, <1>4, <1>5, <1>7, <1>8, <1>9, <1>10, <1>11, <1>12, <1>13
  DEF Next, Receive, Load

\* The counter of failures stays below the threshold, nothing but an open breaker is
\* half-open, and no call makes a third attempt.
THEOREM TypesHold == Spec => []TypeOK
BY InitType, NextType, PTL DEF Spec

-----------------------------------------------------------------------------
(* Without lost scripts and cancelled calls, a probe is always under way *)

InCall(t) == pc[t] \in {"sent", "answered"}

\* No call meets NOSCRIPT, and whoever is probing is in a call.
CalmInv ==
    /\ \A t \in Tasks : pc[t] # "loading" /\ answer[t] # "noscript"
    /\ scripts = AllScripts
    /\ \A t \in probing : InCall(t)
    /\ probe_inflight => \E t \in probing : InCall(t)

ProbeInv == losses = 0 /\ cancels = 0 => CalmInv

LEMMA InitProbe == Init => ProbeInv
BY DEF Init, ProbeInv, CalmInv

\* An answer clears the flag, whatever else the breaker makes of it.
LEMMA AnswerClearsProbe == RecordSuccess \/ RecordFailure => probe_inflight' = FALSE
BY DEF RecordSuccess, RecordFailure

LEMMA NextProbe == TypeOK /\ ProbeInv /\ [Next]_vars => ProbeInv'
<1> SUFFICES ASSUME TypeOK, ProbeInv, [Next]_vars, losses' = 0, cancels' = 0 PROVE CalmInv'
  BY DEF ProbeInv
<1> USE DEF TypeOK, CalmInv, InCall, breakerVars, redisVars, callVars, boundVars
<1>1. losses \in Nat /\ cancels \in Nat  OBVIOUS
<1>2. ASSUME losses' = losses, cancels' = cancels PROVE CalmInv
  BY <1>2 DEF ProbeInv
<1>3. ASSUME NEW t \in Tasks, Begin(t) PROVE CalmInv'
  <2>1. CalmInv /\ pc[t] = "idle" /\ t \notin probing  BY <1>2, <1>3 DEF Begin
  <2>2. UNCHANGED <<scripts, answer>>  BY <1>3 DEF Begin
  <2>3. CASE Allow /\ TakeProbe
    <3>1. /\ probing' = IF HalfOpen THEN probing \cup {t} ELSE probing
          /\ pc' = [pc EXCEPT ![t] = "sent"]
      BY <1>3, <2>3 DEF Begin, TryCall
    <3>2. probe_inflight' = (probe_inflight \/ HalfOpen)
      BY <2>3 DEF TakeProbe
    <3>3. \A u \in probing' : InCall(u)'
      BY <2>1, <3>1
    <3>4. probe_inflight' => probing' # {}
      BY <2>1, <3>1, <3>2
    <3>5. QED  BY <2>1, <2>2, <3>1, <3>3, <3>4
  <2>4. CASE ~(Allow /\ TakeProbe)
    <3>1. /\ pc' = [pc EXCEPT ![t] = "degraded"]
          /\ probing' = probing \ {t} /\ probe_inflight' = probe_inflight
      BY <1>3, <2>4 DEF Begin, TryCall
    <3>2. QED  BY <2>1, <2>2, <3>1
  <2>5. QED  BY <2>3, <2>4
<1>4. ASSUME NEW t \in Tasks, RedisAnswers(t) PROVE CalmInv'
  <2>1. CalmInv /\ pc[t] = "sent" /\ uses[t] \in scripts  BY <1>2, <1>4 DEF RedisAnswers
  <2>2. /\ pc' = [pc EXCEPT ![t] = "answered"]
        /\ UNCHANGED <<scripts, probing, probe_inflight>>
        /\ answer' = [answer EXCEPT ![t] = IF ~up THEN "error" ELSE "ok"]
    BY <1>4, <2>1 DEF RedisAnswers
  <2>3. QED  BY <2>1, <2>2
<1>5. ASSUME NEW t \in Tasks, ReceiveOk(t) \/ ReceiveError(t) PROVE CalmInv'
  <2>1. CalmInv  BY <1>2, <1>5 DEF ReceiveOk, ReceiveError
  <2>2. /\ probe_inflight' = FALSE /\ probing' = probing \ {t} /\ scripts' = scripts
        /\ answer' = [answer EXCEPT ![t] = "none"]
        /\ \E p \in {"idle", "degraded"} : pc' = [pc EXCEPT ![t] = p]
    BY <1>5, AnswerClearsProbe DEF ReceiveOk, ReceiveError, EndCall, Forget
  <2>3. QED  BY <2>1, <2>2
<1>6. ASSUME NEW t \in Tasks,
             ReceiveNoscript(t) \/ ReceiveNoscriptAgain(t) \/ LoadOne(t) \/ LoadFails(t)
      PROVE  FALSE
  <2>1. losses' = losses /\ cancels' = cancels
    BY <1>6 DEF ReceiveNoscript, ReceiveNoscriptAgain, LoadOne, LoadFails
  <2>2. CalmInv  BY <1>2, <2>1
  <2>3. QED
    BY <1>6, <2>2 DEF ReceiveNoscript, ReceiveNoscriptAgain, LoadOne, LoadFails
<1>7. ASSUME NEW t \in Tasks, Return(t) PROVE CalmInv'
  <2>1. CalmInv /\ pc[t] = "degraded"  BY <1>2, <1>7 DEF Return
  <2>2. /\ UNCHANGED <<probe_inflight, probing, scripts>>
        /\ answer' = [answer EXCEPT ![t] = "none"]
        /\ pc' = [pc EXCEPT ![t] = "idle"]
    BY <1>7 DEF Return, Forget
  <2>3. QED  BY <2>1, <2>2
<1>8. ASSUME NEW t \in Tasks, Cancel(t) PROVE FALSE
  BY <1>1, <1>8 DEF Cancel
<1>9. CASE PingStep
  <2>1. CalmInv  BY <1>2, <1>9 DEF PingStep, PingSend, PingAnswered, PingReceive
  <2>2. UNCHANGED <<pc, answer, probing, scripts>>
    BY <1>9 DEF PingStep, PingSend, PingAnswered, PingReceive
  <2>3. probe_inflight' = FALSE \/ probe_inflight' = probe_inflight
    BY <1>9, AnswerClearsProbe DEF PingStep, PingSend, PingAnswered, PingReceive
  <2>4. QED  BY <2>1, <2>2, <2>3
<1>10. ASSUME ScriptsLost PROVE FALSE
  BY <1>1, <1>10 DEF ScriptsLost
<1>11. CASE OpenWindowElapses \/ Outage \/ Recovery \/ UNCHANGED vars
  <2>1. CalmInv  BY <1>2, <1>11 DEF OpenWindowElapses, Outage, Recovery, vars
  <2>2. UNCHANGED <<pc, answer, probing, probe_inflight, scripts>>
    BY <1>11 DEF OpenWindowElapses, Outage, Recovery, vars
  <2>3. QED  BY <2>1, <2>2
<1>12. QED
  BY <1>3, <1>4, <1>5, <1>6, <1>7, <1>8, <1>9, <1>10, <1>11 DEF Next, Receive, Load

\* However many calls, probes and pings cross each other: when the breaker refuses every
\* caller because a probe is under way, one is.
THEOREM ProbeOwned == Spec => []ProbeHasOwner
<1>1. ProbeInv => ProbeHasOwner
  BY DEF ProbeInv, CalmInv, InCall, ProbeHasOwner, ProbeUnderWay
<1>2. QED  BY <1>1, InitType, NextType, InitProbe, NextProbe, PTL DEF Spec

-----------------------------------------------------------------------------
(* One loss of the script cache while Redis stays reachable *)

\* The scripts a reload has loaded so far are there, and a second attempt is only made
\* once all are.
HealInv ==
    /\ up
    /\ state = "closed"
    /\ ping # "error"
    /\ losses = 0 => scripts = AllScripts
    /\ \A t \in Tasks :
          /\ pc[t] # "degraded" /\ answer[t] # "error"
          /\ answer[t] = "noscript" \/ pc[t] = "loading" => losses = 1 /\ attempt[t] = 1
          /\ attempt[t] = 2 => losses = 1 /\ scripts = AllScripts
          /\ attempt[t] # 0
          /\ pc[t] = "loading" => 1 .. loaded[t] \subseteq scripts
          /\ pc[t] # "loading" => loaded[t] = 0
          /\ answer[t] = "noscript" => pc[t] = "answered"

LossInv == outages = 0 /\ losses <= 1 => HealInv

LEMMA InitLoss == Init => LossInv
BY DEF Init, LossInv, HealInv

LEMMA NextLoss == TypeOK /\ LossInv /\ [Next]_vars => LossInv'
<1> SUFFICES ASSUME TypeOK, LossInv, [Next]_vars, outages' = 0, losses' <= 1 PROVE HealInv'
  BY DEF LossInv
<1> USE DEF TypeOK, HealInv, breakerVars, redisVars, callVars, boundVars
<1>1. losses \in Nat /\ outages \in Nat /\ ~HalfOpen' = ~HalfOpen'  OBVIOUS
<1>2. ASSUME outages' = outages, losses' = losses PROVE HealInv /\ ~HalfOpen /\ Allow
  BY <1>2 DEF LossInv, HalfOpen, Allow
<1>3. ASSUME NEW t \in Tasks, Allow, ~HalfOpen, TryCall(t)
      PROVE  /\ pc' = [pc EXCEPT ![t] = "sent"] /\ state' = state
  BY <1>3 DEF TryCall, TakeProbe
<1>4. ASSUME NEW t \in Tasks, Begin(t) PROVE HealInv'
  <2>1. HealInv /\ ~HalfOpen /\ Allow  BY <1>2, <1>4 DEF Begin
  <2>2. /\ pc' = [pc EXCEPT ![t] = "sent"] /\ state' = state
    BY <1>3, <1>4, <2>1 DEF Begin
  <2>3. /\ attempt' = [attempt EXCEPT ![t] = 1]
        /\ UNCHANGED <<redisVars, loaded, answer, ping, boundVars>> /\ pc[t] = "idle"
    BY <1>4 DEF Begin
  <2>4. QED  BY <2>1, <2>2, <2>3
<1>5. ASSUME NEW t \in Tasks, RedisAnswers(t) PROVE HealInv'
  <2>1. HealInv /\ pc[t] = "sent"  BY <1>2, <1>5 DEF RedisAnswers
  <2>2. /\ pc' = [pc EXCEPT ![t] = "answered"]
        /\ answer' = [answer EXCEPT ![t] = IF uses[t] \in scripts THEN "ok" ELSE "noscript"]
        /\ UNCHANGED <<breakerVars, redisVars, attempt, loaded, ping, boundVars>>
    BY <1>5, <2>1 DEF RedisAnswers
  <2>3. uses[t] \notin scripts => losses = 1 /\ attempt[t] = 1
    <3>1. uses[t] \in AllScripts /\ attempt[t] \in 0 .. 2  OBVIOUS
    <3>2. losses \in {0, 1}  BY <1>1, <2>2
    <3>3. QED  BY <2>1, <3>1, <3>2
  <2>4. QED  BY <2>1, <2>2, <2>3
<1>6. ASSUME NEW t \in Tasks, ReceiveOk(t) PROVE HealInv'
  <2>1. HealInv  BY <1>2, <1>6 DEF ReceiveOk
  <2>2. /\ state' = "closed" /\ pc' = [pc EXCEPT ![t] = "idle"]
        /\ attempt' = [attempt EXCEPT ![t] = 1]
        /\ answer' = [answer EXCEPT ![t] = "none"]
        /\ UNCHANGED <<redisVars, ping, boundVars>>
        /\ loaded' = [loaded EXCEPT ![t] = 0]
    BY <1>6 DEF ReceiveOk, RecordSuccess, EndCall, Forget
  <2>3. QED  BY <2>1, <2>2
<1>7. ASSUME NEW t \in Tasks,
             ReceiveError(t) \/ ReceiveNoscriptAgain(t) \/ LoadFails(t) \/ Return(t)
      PROVE  FALSE
  <2>1. HealInv
    BY <1>2, <1>7 DEF ReceiveError, ReceiveNoscriptAgain, LoadFails, Return
  <2>2. /\ ~(pc[t] = "answered" /\ answer[t] = "error")
        /\ ~(answer[t] = "noscript" /\ attempt[t] = 2)
        /\ pc[t] # "degraded" /\ up
    BY <2>1
  <2>3. QED
    BY <1>7, <2>2, Zenon DEF ReceiveError, ReceiveNoscriptAgain, LoadFails, Return
<1>8. ASSUME NEW t \in Tasks, ReceiveNoscript(t) PROVE HealInv'
  <2>1. HealInv  BY <1>2, <1>8 DEF ReceiveNoscript
  <2>2. /\ pc' = [pc EXCEPT ![t] = "loading"]
        /\ answer' = [answer EXCEPT ![t] = "none"]
        /\ UNCHANGED <<breakerVars, redisVars, attempt, loaded, ping, boundVars>>
        /\ answer[t] = "noscript" /\ pc[t] = "answered"
    BY <1>8 DEF ReceiveNoscript
  <2>3. 1 .. loaded[t] = {}  BY <2>1, <2>2
  <2>4. QED  BY <2>1, <2>2, <2>3
<1>9. ASSUME NEW t \in Tasks, LoadOne(t) PROVE HealInv'
  <2>1. HealInv /\ ~HalfOpen /\ Allow  BY <1>2, <1>9 DEF LoadOne
  <2>2. /\ pc[t] = "loading" /\ scripts' = scripts \cup {loaded[t] + 1}
        /\ UNCHANGED <<up, answer, ping, boundVars>>
    BY <1>9 DEF LoadOne
  <2>3. loaded[t] \in 0 .. 2 /\ 1 .. loaded[t] \subseteq scripts /\ losses = 1
    BY <2>1, <2>2
  <2>4. 1 .. loaded[t] + 1 \subseteq scripts'  BY <2>2, <2>3
  <2>5. scripts \subseteq scripts' /\ scripts' \subseteq AllScripts
    <3>1. loaded[t] + 1 \in AllScripts  BY <2>3 DEF AllScripts
    <3>2. QED  BY <2>2, <3>1
  <2>6. CASE loaded[t] + 1 < Cardinality(AllScripts)
    <3>1. /\ loaded' = [loaded EXCEPT ![t] = @ + 1]
          /\ UNCHANGED <<state, pc, attempt>>
      BY <1>9, <2>6 DEF LoadOne
    <3>2. QED  BY <2>1, <2>2, <2>3, <2>4, <2>5, <3>1
  <2>7. CASE ~(loaded[t] + 1 < Cardinality(AllScripts))
    <3>1. loaded[t] = 2  BY <2>3, <2>7, ScriptFacts
    <3>2. scripts' = AllScripts
      <4>1. 1 .. 3 \subseteq scripts'  BY <2>4, <3>1
      <4>2. QED  BY <2>5, <4>1 DEF AllScripts
    <3>3. /\ loaded' = [loaded EXCEPT ![t] = 0]
          /\ attempt' = [attempt EXCEPT ![t] = @ + 1]
          /\ TryCall(t)
      BY <1>9, <2>7 DEF LoadOne
    <3>4. pc' = [pc EXCEPT ![t] = "sent"] /\ state' = state
      BY <1>3, <2>1, <3>3
    <3>5. \A u \in Tasks \ {t} : pc'[u] = "loading" => 1 .. loaded'[u] \subseteq scripts'
      BY <2>1, <2>5, <3>3, <3>4
    <3>6. attempt'[t] = 2 /\ loaded'[t] = 0 /\ pc'[t] = "sent"
      BY <2>1, <2>2, <3>3, <3>4
    <3>7. \A u \in Tasks \ {t} :
             attempt'[u] = attempt[u] /\ loaded'[u] = loaded[u] /\ pc'[u] = pc[u]
      BY <3>3, <3>4
    <3>8. up' /\ state' = "closed" /\ ping' # "error"
      BY <2>1, <2>2, <3>4, Zenon
    <3>9. losses' = 1  BY <2>2, <2>3
    <3>10. \A u \in Tasks : pc'[u] # "degraded" /\ answer'[u] # "error"
      BY <2>1, <2>2, <3>6, <3>7
    <3>11. \A u \in Tasks :
              answer'[u] = "noscript" \/ pc'[u] = "loading" => attempt'[u] = 1
      BY <2>1, <2>2, <3>6, <3>7
    <3>12. \A u \in Tasks : /\ attempt'[u] # 0
                            /\ answer'[u] = "noscript" => pc'[u] = "answered"
                            /\ pc'[u] # "loading" => loaded'[u] = 0
      BY <2>1, <2>2, <3>6, <3>7
    <3>13. QED  BY <3>2, <3>5, <3>6, <3>8, <3>9, <3>10, <3>11, <3>12
  <2>8. QED  BY <2>6, <2>7
<1>10. ASSUME NEW t \in Tasks, Cancel(t) PROVE HealInv'
  <2>1. HealInv  BY <1>2, <1>10 DEF Cancel
  <2>2. /\ pc' = [pc EXCEPT ![t] = "idle"]
        /\ attempt' = [attempt EXCEPT ![t] = 1]
        /\ answer' = [answer EXCEPT ![t] = "none"]
        /\ loaded' = [loaded EXCEPT ![t] = 0]
        /\ UNCHANGED <<breakerVars, redisVars, ping, losses>>
    BY <1>10 DEF Cancel, EndCall, Forget
  <2>3. QED  BY <2>1, <2>2
<1>11. CASE PingStep
  <2>1. HealInv  BY <1>2, <1>11 DEF PingStep, PingSend, PingAnswered, PingReceive
  <2>2. UNCHANGED <<pc, answer, attempt, loaded, scripts, up, losses>>
    BY <1>11 DEF PingStep, PingSend, PingAnswered, PingReceive
  <2>3. state' = "closed" /\ ping' # "error"
    BY <1>11, <2>1 DEF PingStep, PingSend, PingAnswered, PingReceive, RecordSuccess
  <2>4. QED  BY <2>1, <2>2, <2>3
<1>12. CASE ScriptsLost
  <2>1. /\ losses' = losses + 1 /\ scripts' = {}
        /\ UNCHANGED <<breakerVars, up, pc, callVars, ping, outages>>
    BY <1>12 DEF ScriptsLost
  <2>2. losses = 0 /\ HealInv  BY <1>1, <2>1 DEF LossInv
  <2>3. QED  BY <2>1, <2>2
<1>13. ASSUME Outage PROVE FALSE
  BY <1>1, <1>13 DEF Outage
<1>14. CASE OpenWindowElapses \/ Recovery \/ UNCHANGED vars
  <2>1. HealInv  BY <1>2, <1>14 DEF OpenWindowElapses, Recovery, vars
  <2>2. UNCHANGED vars
    BY <1>14, <2>1 DEF OpenWindowElapses, Recovery
  <2>3. QED  BY <2>1, <2>2 DEF vars
<1>15. QED
  BY <1>4, <1>5, <1>6, <1>7, <1>8, <1>9, <1>10, <1>11, <1>12, <1>13, <1>14
  DEF Next, Receive, Load

\* While Redis stays reachable and loses its scripts at most once, no request degrades
\* and the breaker stays closed, however many calls meet the loss at the same time.
THEOREM LossInvisible == Spec => []ScriptLossInvisible
<1>1. LossInv => ScriptLossInvisible  BY DEF LossInv, HealInv, ScriptLossInvisible
<1>2. QED  BY <1>1, InitType, NextType, InitLoss, NextLoss, PTL DEF Spec
=============================================================================
