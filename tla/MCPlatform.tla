----------------------------- MODULE MCPlatform -----------------------------
(* The platform around the work of a site, for TLC. Its components share   *)
(* no state: a behaviour is one of one component, named by part, while the *)
(* others stay as they began. Billing is taken three times: requests and   *)
(* webhooks that overlap, that are alone, and that come in order as well.  *)
EXTENDS Tenancy, Billing, CircuitBreaker, RateLimit, Notifications, OpsHealth,
        WorkspaceData, BeatChecks

CONSTANTS
    u1, u2, i1, i2, d1, d2, d3, x1, x2,
    AloneEvents, AloneCalls  \* bounds: MaxEvents and MaxBillCalls where requests are alone

ASSUME AloneAssumption == AloneEvents \in Nat /\ AloneCalls \in Nat

VARIABLE part

OneByOne == INSTANCE Billing WITH BillTxns <- {x1}, MaxEvents <- AloneEvents, MaxBillCalls <- AloneCalls
InTurn   == INSTANCE Billing WITH BillTxns <- {x1}, MaxEvents <- AloneEvents, MaxBillCalls <- AloneCalls,
                                  InOrder <- TRUE

MCSiteLimit   == [p \in Plans |-> 1]
MCUserLimit   == [p \in Plans |-> 2]
MCDedupeHours == [sync_failure |-> 1, approval_required |-> 2]
NoJobs        == {}
Symmetries    == Permutations({x1, x2}) \cup Permutations({i1, i2}) \cup Permutations({d1, d2, d3})

Parts ==
    {"tenancy", "billing", "billing alone", "billing in turn", "breaker", "limit", "notices", "health",
     "data", "beat"}

PlatformInit ==
    /\ part \in Parts
    /\ TenancyInit /\ BreakerInit /\ LimitInit /\ NotificationsInit /\ OpsInit /\ WsInit /\ BeatInit
    /\ IF part \in {"billing alone", "billing in turn"} THEN OneByOne!BillingInit ELSE BillingInit

PlatformNext ==
    /\ UNCHANGED part
    /\ \/ /\ part = "tenancy" /\ TenancyNext
          /\ UNCHANGED <<billingVars, breakerVars, limitVars, noticeVars, opsVars, wsVars, beatVars>>
       \/ /\ \/ part = "billing" /\ BillingNext
             \/ part = "billing alone" /\ OneByOne!BillingNext
             \/ part = "billing in turn" /\ InTurn!BillingNext
          /\ UNCHANGED <<tenancyVars, breakerVars, limitVars, noticeVars, opsVars, wsVars, beatVars>>
       \/ /\ part = "breaker" /\ BreakerNext
          /\ UNCHANGED <<tenancyVars, billingVars, limitVars, noticeVars, opsVars, wsVars, beatVars>>
       \/ /\ part = "limit" /\ LimitNext
          /\ UNCHANGED <<tenancyVars, billingVars, breakerVars, noticeVars, opsVars, wsVars, beatVars>>
       \/ /\ part = "notices" /\ NotificationsNext
          /\ UNCHANGED <<tenancyVars, billingVars, breakerVars, limitVars, opsVars, wsVars, beatVars>>
       \/ /\ part = "health" /\ OpsNext
          /\ UNCHANGED <<tenancyVars, billingVars, breakerVars, limitVars, noticeVars, wsVars, beatVars>>
       \/ /\ part = "data" /\ WsNext
          /\ UNCHANGED <<tenancyVars, billingVars, breakerVars, limitVars, noticeVars, opsVars, beatVars>>
       \/ /\ part = "beat" /\ BeatNext
          /\ UNCHANGED <<tenancyVars, billingVars, breakerVars, limitVars, noticeVars, opsVars, wsVars>>

PlatformSpec ==
    PlatformInit
      /\ [][PlatformNext]_<<part, tenancyVars, billingVars, breakerVars, limitVars, noticeVars, opsVars,
                            wsVars, beatVars>>

(* The rows and counters of every part keep the shapes and the ranges the  *)
(* code gives them.                                                        *)
PlatformTypeOK ==
    /\ TenancyTypeOK /\ BreakerTypeOK /\ LimitTypeOK /\ NotificationsTypeOK /\ OpsTypeOK
    /\ WsTypeOK /\ BeatTypeOK
    /\ IF part \in {"billing alone", "billing in turn"} THEN OneByOne!BillingTypeOK ELSE BillingTypeOK

(* Requests and webhooks one after the other, the events in any order and  *)
(* more than once: the account is as its subscription says. When they come *)
(* in order as well, nothing of it is out of date once all have arrived.   *)
AccountFollows ==
    /\ part = "billing alone" => OneByOne!BillingFollowsSubscription
    /\ part = "billing in turn" => InTurn!QuietMeansCurrent

(* A provider that fails is left in peace, and a client that asks too much *)
(* is turned away, in every process (circuit_breaker.py:39, rate_limit.py).  *)
LoadIsHeldBack == NoCallInOpenCircuit /\ AcceptedBounded
=============================================================================
