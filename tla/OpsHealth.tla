------------------------------ MODULE OpsHealth ------------------------------
(***************************************************************************)
(* The health run that looks over the platform once a day, and when an     *)
(* admin asks (ops_maintenance/, jobs/tasks.py). What it looks at is       *)
(* abstracted to job runs that wait, run, end or are lost with their       *)
(* worker, and to a backlog that stands for every other check; the checks  *)
(* are queries made one after the other while the platform goes on.        *)
(***************************************************************************)
EXTENDS Naturals, FiniteSets

CONSTANTS
    OpsJobs,           \* job_runs
    HealthTasks,       \* health runs in progress at a time
    FAILED_JOBS_WARN, FAILED_JOBS_CRITICAL,   \* 3 and 10 in the code
    MaxOpsRetries,     \* max_retries of the task, 2 in the code
    MaxHealthFaults    \* bound: database errors

ASSUME OpsHealthAssumption ==
    /\ IsFiniteSet(OpsJobs) /\ IsFiniteSet(HealthTasks)
    /\ FAILED_JOBS_WARN \in Nat /\ FAILED_JOBS_CRITICAL \in Nat
    /\ MaxOpsRetries \in Nat /\ MaxHealthFaults \in Nat

VARIABLES
    opsJob,     \* job -> status, and which of the two age limits it has passed
    backlog,    \* a sync error, stale draft or pile of work that a check would find
    health,     \* task -> its health run
    dailyRuns,  \* committed scheduled ops_health_runs of today
    beatDue,    \* beat has still to start the task of today
    reported,   \* history: stuck jobs in the digest of a committed run
    healthFaults

opsVars == <<opsJob, backlog, health, dailyRuns, beatDue, reported, healthFaults>>

(* A lost job is "running" in the database.                                *)
JobStatuses == {"none", "queued", "running", "lost", "failed", "succeeded"}
Severities  == {"pass", "warn", "critical"}
Checks      == {"failed", "stuck", "backlog"}
NoHealth    == [pc |-> "idle"]

OpsTypeOK ==
    /\ opsJob \in [OpsJobs -> [status : JobStatuses, late : 0 .. 2]]
    /\ backlog \in BOOLEAN /\ beatDue \in BOOLEAN
    /\ \A h \in HealthTasks :
         health[h] = NoHealth \/
         health[h] \in [pc : {"look", "collect", "flush"}, scheduled : BOOLEAN, today : BOOLEAN,
                        tries : 0 .. MaxOpsRetries, todo : SUBSET Checks, worst : Severities,
                        stuck : SUBSET OpsJobs, broken : BOOLEAN]
    /\ dailyRuns \in 0 .. Cardinality(HealthTasks)
    /\ reported \subseteq OpsJobs
    /\ healthFaults \in 0 .. MaxHealthFaults

OpsInit ==
    /\ opsJob = [j \in OpsJobs |-> [status |-> "none", late |-> 0]]
    /\ backlog = FALSE
    /\ health = [h \in HealthTasks |-> NoHealth]
    /\ dailyRuns = 0 /\ beatDue = TRUE /\ reported = {} /\ healthFaults = 0

-----------------------------------------------------------------------------
(* The platform meanwhile. A job that a dead worker left "running" stays   *)
(* so (jobs/service.py); what has ended leaves the 24 hours looked at.     *)
JobMoves(from, to) ==
    /\ \E j \in OpsJobs :
         /\ opsJob[j].status = from
         /\ opsJob' = [opsJob EXCEPT ![j] = [status |-> to, late |-> 0]]
    /\ UNCHANGED <<backlog, health, dailyRuns, beatDue, reported, healthFaults>>

PlatformMoves ==
    \/ JobMoves("none", "queued") \/ JobMoves("queued", "running")
    \/ JobMoves("running", "succeeded") \/ JobMoves("running", "failed")
    \/ JobMoves("succeeded", "none") \/ JobMoves("failed", "none")

WorkerLost ==
    /\ \E j \in OpsJobs :
         /\ opsJob[j].status = "running"
         /\ opsJob' = [opsJob EXCEPT ![j].status = "lost"]
    /\ UNCHANGED <<backlog, health, dailyRuns, beatDue, reported, healthFaults>>

Ages(j) ==
    /\ opsJob[j].status \in {"queued", "running", "lost"} /\ opsJob[j].late < 2
    /\ opsJob' = [opsJob EXCEPT ![j].late = @ + 1]
    /\ UNCHANGED <<backlog, health, dailyRuns, beatDue, reported, healthFaults>>

BacklogChanges ==
    /\ backlog' = ~backlog
    /\ UNCHANGED <<opsJob, health, dailyRuns, beatDue, reported, healthFaults>>

(* A run belongs to the day on which its transaction began.                *)
Midnight ==
    /\ ~beatDue
    /\ beatDue' = TRUE /\ dailyRuns' = 0
    /\ health' = [h \in HealthTasks |->
         IF health[h] = NoHealth THEN NoHealth ELSE [health[h] EXCEPT !.today = FALSE]]
    /\ UNCHANGED <<opsJob, backlog, reported, healthFaults>>

-----------------------------------------------------------------------------
NewRun(pc, scheduled, tries) ==
    [pc |-> pc, scheduled |-> scheduled, today |-> TRUE, tries |-> tries,
     todo |-> Checks, worst |-> "pass", stuck |-> {}, broken |-> FALSE]

HealthIs(h, run) ==
    /\ health' = [health EXCEPT ![h] = run]
    /\ UNCHANGED <<opsJob, backlog>>

BeatStarts(h) ==
    /\ beatDue /\ health[h] = NoHealth
    /\ beatDue' = FALSE
    /\ HealthIs(h, NewRun("look", TRUE, MaxOpsRetries))
    /\ UNCHANGED <<dailyRuns, reported, healthFaults>>

ManualRun(h) ==
    /\ health[h] = NoHealth
    /\ HealthIs(h, NewRun("collect", FALSE, 0))
    /\ UNCHANGED <<dailyRuns, beatDue, reported, healthFaults>>

(* The task that fails is run again from its start, as long as it may.     *)
AfterFailure(run) ==
    IF run.scheduled /\ run.tries > 0 THEN NewRun("look", TRUE, run.tries - 1) ELSE NoHealth

(* One run of today is enough; the lookup raises when there are two.       *)
LookForToday(h) ==
    /\ health[h].pc = "look"
    /\ HealthIs(h, CASE dailyRuns = 0 -> [health[h] EXCEPT !.pc = "collect", !.today = TRUE]
                     [] dailyRuns = 1 -> NoHealth
                     [] OTHER         -> AfterFailure(health[h]))
    /\ UNCHANGED <<dailyRuns, beatDue, reported, healthFaults>>

FailedJobs == Cardinality({j \in OpsJobs : opsJob[j].status = "failed"})

FailedSeverity ==
    CASE FailedJobs >= FAILED_JOBS_CRITICAL -> "critical"
      [] FailedJobs >= FAILED_JOBS_WARN /\ FailedJobs < FAILED_JOBS_CRITICAL -> "warn"
      [] OTHER -> "pass"

(* Fault: only the queue is looked at. *)
StuckJobsQueued == {j \in OpsJobs : opsJob[j].status = "queued" /\ opsJob[j].late > 0}

StuckJobs == {j \in OpsJobs : opsJob[j].status \in {"queued", "running", "lost"} /\ opsJob[j].late > 0}

StuckSeverity ==
    IF StuckJobs = {} THEN "pass"
    ELSE IF \E j \in StuckJobs : opsJob[j].late = 2 THEN "critical" ELSE "warn"

SeverityOf(check) ==
    CASE check = "failed"  -> FailedSeverity
      [] check = "stuck"   -> StuckSeverity
      [] check = "backlog" -> IF backlog THEN "warn" ELSE "pass"

(* aggregate_run_status.                                                   *)
Worst(found) == IF "critical" \in found THEN "critical" ELSE IF "warn" \in found THEN "warn" ELSE "pass"

(* A check that fails is itself a finding, and so is every check after it, *)
(* for the transaction is aborted.                                         *)
Collect(h) ==
    /\ health[h].pc = "collect"
    /\ \E check \in health[h].todo, fails \in BOOLEAN :
         LET broken == health[h].broken \/ fails
             todo   == health[h].todo \ {check}
         IN  /\ check = "failed" \/ "failed" \notin health[h].todo
             /\ check = "backlog" => todo = {}
             /\ fails => ~health[h].broken /\ healthFaults < MaxHealthFaults
             /\ healthFaults' = IF fails THEN healthFaults + 1 ELSE healthFaults
             /\ HealthIs(h, [health[h] EXCEPT
                  !.pc = IF todo = {} THEN "flush" ELSE "collect", !.todo = todo, !.broken = broken,
                  !.worst = Worst({@, IF broken THEN "critical" ELSE SeverityOf(check)}),
                  !.stuck = IF check = "stuck" /\ ~broken THEN StuckJobs ELSE @])
    /\ UNCHANGED <<dailyRuns, beatDue, reported>>

(* The digest of a run that is not "pass" is sent, then its rows are       *)
(* written: they are lost if the transaction is aborted, or aborts now.    *)
CommitHealth(h) ==
    /\ health[h].pc = "flush" /\ ~health[h].broken
    /\ HealthIs(h, NoHealth)
    /\ dailyRuns' = IF health[h].scheduled /\ health[h].today THEN dailyRuns + 1 ELSE dailyRuns
    /\ reported' = IF health[h].worst = "pass" THEN reported ELSE reported \cup health[h].stuck
    /\ UNCHANGED <<beatDue, healthFaults>>

FlushFails(h) ==
    /\ health[h].pc = "flush"
    /\ \/ health[h].broken /\ UNCHANGED healthFaults
       \/ healthFaults < MaxHealthFaults /\ healthFaults' = healthFaults + 1
    /\ HealthIs(h, AfterFailure(health[h]))
    /\ UNCHANGED <<dailyRuns, beatDue, reported>>

HealthStep(h) == LookForToday(h) \/ Collect(h) \/ CommitHealth(h) \/ FlushFails(h)

OpsNext ==
    \/ PlatformMoves \/ WorkerLost \/ BacklogChanges \/ Midnight
    \/ \E j \in OpsJobs : Ages(j)
    \/ \E h \in HealthTasks : BeatStarts(h) \/ ManualRun(h) \/ HealthStep(h)

OpsSpec == OpsInit /\ [][OpsNext]_opsVars

-----------------------------------------------------------------------------
(* No path requeues the job of a dead worker (jobs/service.py:120); a      *)
(* daily run does report it, whatever check or run fails on the way.       *)
LostIsReported == \A j \in OpsJobs : opsJob[j].status = "lost" ~> j \in reported
=============================================================================
