------------------------------- MODULE RateLimit ------------------------------
(***************************************************************************)
(* The rate limit of one client: a sliding window in Redis and, once Redis *)
(* has failed a process, in the memory of that process                     *)
(* (reliability/rate_limit.py, observability/middleware.py).               *)
(***************************************************************************)
EXTENDS Naturals, FiniteSets

CONSTANTS
    ApiProcesses,  \* processes that serve requests
    Limit,         \* 300 in the code
    Window,        \* window_seconds, 60 in the code
    LimitSeconds   \* bound: seconds in a behaviour

ASSUME RateLimitAssumption ==
    /\ IsFiniteSet(ApiProcesses) /\ "redis" \notin ApiProcesses
    /\ Limit \in Nat \ {0} /\ Window \in Nat \ {0} /\ LimitSeconds \in Nat

VARIABLES
    time,        \* in seconds
    redis,       \* the bucket of the client in Redis: its entries
    memory,      \* the bucket of the client in each process
    redisFailed, \* processes where Redis has failed once
    accepted     \* requests let through, with the bucket they are entered in

limitVars == <<time, redis, memory, redisFailed, accepted>>

Seconds == 0 .. LimitSeconds
Bucket  == SUBSET [at : Seconds, nr : Nat]
Passed  == [via : ApiProcesses \cup {"redis"}, at : Seconds, nr : Nat]

LimitTypeOK ==
    /\ time \in Seconds
    /\ redisFailed \subseteq ApiProcesses
    /\ redis \in Bucket /\ memory \in [ApiProcesses -> Bucket]
    /\ accepted \subseteq Passed

LimitInit ==
    /\ time = 0
    /\ redisFailed = {}
    /\ redis = {} /\ memory = [p \in ApiProcesses |-> {}] /\ accepted = {}

LimitTick ==
    /\ time < LimitSeconds /\ time' = time + 1
    /\ UNCHANGED <<redis, memory, redisFailed, accepted>>

----------------------------------------------------------------------------
(* Entries not older than the window: of this second and the Window - 1    *)
(* before it.                                                              *)
InWindow(entries) == Cardinality({e \in entries : time < e.at + Window})

(* An entry has a number of its own in its bucket.                         *)
New(bucket) == [at |-> time, nr |-> Cardinality(bucket) + 1]

Accept(via, bucket) ==
    accepted' = accepted \cup {[via |-> via, at |-> New(bucket).at, nr |-> New(bucket).nr]}

(* check_rate_limit in Redis: a refused request is entered too, and counts *)
(* against the next one.                                                   *)
RequestViaRedis(p) ==
    /\ p \notin redisFailed
    /\ Cardinality({e \in redis : e.at = time}) <= Limit   \* bound: refused requests in a second
    /\ redis' = redis \cup {New(redis)}
    /\ IF InWindow(redis) + 1 > Limit THEN UNCHANGED accepted ELSE Accept("redis", redis)
    /\ UNCHANGED <<time, memory, redisFailed>>

(* ... and in memory, where only accepted requests are entered.            *)
RequestInMemory(p) ==
    /\ p \in redisFailed
    /\ InWindow(memory[p]) < Limit
    /\ memory' = [memory EXCEPT ![p] = @ \cup {New(@)}]
    /\ Accept(p, memory[p])
    /\ UNCHANGED <<time, redis, redisFailed>>

(* Redis fails a process: it never asks Redis again, and lets this request *)
(* through its own empty bucket.                                           *)
RedisFails(p) ==
    /\ p \notin redisFailed
    /\ redisFailed' = redisFailed \cup {p}
    /\ memory' = [memory EXCEPT ![p] = @ \cup {New(@)}]
    /\ Accept(p, memory[p])
    /\ UNCHANGED <<time, redis>>

LimitNext ==
    \/ LimitTick
    \/ \E p \in ApiProcesses : \/ RequestViaRedis(p) \/ RequestInMemory(p) \/ RedisFails(p)

LimitSpec == LimitInit /\ [][LimitNext]_limitVars

----------------------------------------------------------------------------
(* In any window a client gets the limit through Redis and once more for   *)
(* each process that Redis has failed.                                     *)
AcceptedBounded == InWindow(accepted) <= Limit * (1 + Cardinality(redisFailed))
=============================================================================
