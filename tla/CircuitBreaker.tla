---------------------------- MODULE CircuitBreaker ---------------------------
(***************************************************************************)
(* The circuit breaker of a provider, which every worker process keeps for *)
(* itself (reliability/circuit_breaker.py), as the two gsc handlers use it *)
(* (gsc_sync.py, indexability_sitemap_health.py): asked before the call,   *)
(* told of its outcome by finalize_job_run. The serp handler asks for a    *)
(* circuit no outcome is ever told to: for it the breaker does nothing.    *)
(***************************************************************************)
EXTENDS Naturals

CONSTANTS
    Processes,         \* API and worker processes
    FAILURE_THRESHOLD, \* 5 in the code
    OPEN_SECONDS,      \* 60 in the code
    BreakerSeconds     \* bound: seconds in a behaviour

ASSUME BreakerAssumption ==
    FAILURE_THRESHOLD \in Nat \ {0} /\ OPEN_SECONDS \in Nat \ {0} /\ BreakerSeconds \in Nat

VARIABLES
    second,   \* the time
    circuit,  \* CircuitState of the provider in each process
    calling   \* processes with a call to the provider under way

breakerVars == <<second, circuit, calling>>

Closed == [failures |-> 0, opened |-> FALSE, at |-> 0]

BreakerTypeOK ==
    /\ second \in 0 .. BreakerSeconds
    /\ circuit \in [Processes -> [failures : Nat, opened : BOOLEAN, at : 0 .. BreakerSeconds]]
    /\ \A p \in Processes : circuit[p].opened <=> circuit[p].failures >= FAILURE_THRESHOLD
    /\ calling \subseteq Processes

BreakerInit ==
    /\ second = 0
    /\ circuit = [p \in Processes |-> Closed]
    /\ calling = {}

----------------------------------------------------------------------------
BreakerTick ==
    /\ second < BreakerSeconds /\ second' = second + 1
    /\ UNCHANGED <<circuit, calling>>

(* Fault: the breaker is not asked.                                        *)
CallUnguarded(p) ==
    /\ p \notin calling
    /\ calling' = calling \cup {p}
    /\ UNCHANGED <<second, circuit>>

(* assert_provider_available and the call: an open circuit that is old     *)
(* enough is forgotten, failures and all; a younger one refuses. A process *)
(* runs one job at a time.                                                 *)
CallProvider(p) ==
    /\ p \notin calling
    /\ circuit[p].opened => second - circuit[p].at >= OPEN_SECONDS
    /\ calling' = calling \cup {p}
    /\ circuit' = IF circuit[p].opened THEN [circuit EXCEPT ![p] = Closed] ELSE circuit
    /\ UNCHANGED second

(* record_provider_success.                                                *)
ProviderAnswers(p) ==
    /\ p \in calling
    /\ calling' = calling \ {p}
    /\ circuit' = [circuit EXCEPT ![p] = Closed]
    /\ UNCHANGED second

(* Fault: the circuit opens one failure late.                              *)
ProviderFailsLate(p) ==
    /\ p \in calling
    /\ calling' = calling \ {p}
    /\ LET failures == circuit[p].failures + 1 IN
       circuit' = [circuit EXCEPT ![p] =
         IF failures > FAILURE_THRESHOLD THEN [failures |-> failures, opened |-> TRUE, at |-> second]
         ELSE [@ EXCEPT !.failures = failures]]
    /\ UNCHANGED second

(* record_provider_failure.                                                *)
ProviderFails(p) ==
    /\ p \in calling
    /\ calling' = calling \ {p}
    /\ LET failures == circuit[p].failures + 1 IN
       circuit' = [circuit EXCEPT ![p] =
         IF failures >= FAILURE_THRESHOLD THEN [failures |-> failures, opened |-> TRUE, at |-> second]
         ELSE [@ EXCEPT !.failures = failures]]
    /\ UNCHANGED second

(* A job without a site or a credential returns without a call, and one    *)
(* whose error cannot be stored raises: neither tells the breaker.         *)
CallEndsUntold(p) ==
    /\ p \in calling
    /\ calling' = calling \ {p}
    /\ UNCHANGED <<second, circuit>>

(* A process that is started anew knows of no failures.                    *)
ProcessRestarts(p) ==
    /\ calling' = calling \ {p}
    /\ circuit' = [circuit EXCEPT ![p] = Closed]
    /\ UNCHANGED second

BreakerNext ==
    \/ BreakerTick
    \/ \E p \in Processes : \/ CallProvider(p) \/ ProviderAnswers(p) \/ ProviderFails(p)
                            \/ CallEndsUntold(p) \/ ProcessRestarts(p)

BreakerSpec == BreakerInit /\ [][BreakerNext]_breakerVars

----------------------------------------------------------------------------
(* A process asks a failing provider FAILURE_THRESHOLD times and then not  *)
(* until OPEN_SECONDS after the last failure, when it starts to count      *)
(* anew, however calls end and processes restart: never is a call under    *)
(* way in an open circuit, and none opens late (circuit_breaker.py:30-44). *)
NoCallInOpenCircuit ==
    \A p \in Processes :
        /\ circuit[p].failures <= FAILURE_THRESHOLD
        /\ circuit[p].opened <=> circuit[p].failures = FAILURE_THRESHOLD
        /\ circuit[p].opened => p \notin calling
=============================================================================
