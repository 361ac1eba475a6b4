------------------------------ MODULE QuotaLedger ------------------------------
(***************************************************************************)
(* What the request-count mode promises, seen from outside: a ledger of    *)
(* the quota each user has taken.  It knows neither workers nor Redis.     *)
(*                                                                         *)
(* RequestQuota implements it from the limiter's side (a user never takes  *)
(* more than the capacity), Gateway from the proxy's side (whoever gives   *)
(* quota back has taken it, and gives it back once).  Requests that are    *)
(* refused, or let through uncounted, do not appear in it.                 *)
(***************************************************************************)
EXTENDS Integers

CONSTANTS
    Users,     \* the user ids quota is counted for
    Requests,  \* what takes quota
    Capacity   \* the most quota a user may have taken

VARIABLES
    holding,   \* user -> requests under way that have taken a unit of its quota
    taken,     \* user -> quota taken and not given back
    lost       \* user -> quota the service has forgotten

ledgerVars == <<holding, taken, lost>>

Init ==
    /\ holding = [u \in Users |-> {}]
    /\ taken = [u \in Users |-> 0]
    /\ lost = [u \in Users |-> 0]

\* A request is admitted against its user's quota.
Admit(r, u) ==
    /\ \A v \in Users : r \notin holding[v]
    /\ taken[u] < Capacity + lost[u]
    /\ holding' = [holding EXCEPT ![u] = @ \cup {r}]
    /\ taken' = [taken EXCEPT ![u] = @ + 1]
    /\ UNCHANGED lost

\* A request ends and what it has taken stays taken.
Spend(r, u) ==
    /\ r \in holding[u]
    /\ holding' = [holding EXCEPT ![u] = @ \ {r}]
    /\ UNCHANGED <<taken, lost>>

\* A request returns its unit, for the first and only time.
GiveBack(r, u) ==
    /\ r \in holding[u]
    /\ holding' = [holding EXCEPT ![u] = @ \ {r}]
    /\ taken' = [taken EXCEPT ![u] = @ - 1]
    /\ UNCHANGED lost

\* A part of the service fails: requests are cut off, quota is forgotten.
Lose ==
    /\ DOMAIN holding' = Users
    /\ DOMAIN lost' = Users
    /\ \A u \in Users : holding'[u] \subseteq holding[u] /\ lost'[u] >= lost[u]
    /\ UNCHANGED taken

Next ==
    \/ \E r \in Requests, u \in Users : Admit(r, u) \/ Spend(r, u) \/ GiveBack(r, u)
    \/ Lose

Spec == Init /\ [][Next]_ledgerVars
=============================================================================
