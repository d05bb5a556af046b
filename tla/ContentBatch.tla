---------------------------- MODULE ContentBatch ----------------------------
(***************************************************************************)
(* Scheduled content generation of one site: the content schedule, the     *)
(* batch that beat (jobs/tasks.py) or the content.scheduled_batch job      *)
(* starts, and the batch a user starts (content/schedule_service.py,       *)
(* content/schedule_priority.py).                                          *)
(*                                                                         *)
(* Beat and job treat the enabled schedules of all sites in one            *)
(* transaction, which lasts as long as their articles take to write, past  *)
(* midnight if need be. The row of this site is loaded at its beginning,   *)
(* used at the turn of the site and committed at its end.                  *)
(***************************************************************************)
EXTENDS Naturals, FiniteSets

CONSTANTS
    Batches,      \* concurrent batches
    Candidates,   \* candidates that match the filter, named by rank_score order
    NoContent,    \* those whose action type generates no content
    WeekDays,     \* weekdays a user may choose
    PerWeek,      \* articles_per_week a user may choose; 0 only when updating
    OtherSites,   \* there are schedules of other sites, before and after this one
    MaxDay,       \* bound: days in a behaviour
    MaxBatches,   \* bound: batches that load the schedule or a manual request
    MaxUpdates    \* bound: changes of the schedule

ASSUME BatchAssumption ==
    /\ Candidates \subseteq Nat /\ NoContent \subseteq Candidates
    /\ WeekDays \subseteq 0 .. 6 /\ PerWeek \subseteq 0 .. 20
    /\ OtherSites \in BOOLEAN
    /\ MaxDay \in Nat /\ MaxBatches \in Nat /\ MaxUpdates \in Nat

Days  == 0 .. MaxDay        \* day 0 is a Monday
Never == MaxDay + 1         \* last_run_at is null

VARIABLES
    schedule,   \* the committed row; last_run_at as a day
    approved,   \* candidates whose decision_status is approved
    runs,       \* content_generation_runs: candidate, batch, day of the turn
    batch,      \* the batches
    today,
    started,    \* batches begun so far
    updates     \* changes of the schedule so far

vars == <<schedule, approved, runs, batch, today, started, updates>>

Schedule == [enabled : BOOLEAN, perWeek : PerWeek, days : SUBSET WeekDays, lastRun : Days \cup {Never}]

(* day: of the load and, from the turn of the site on, of that turn.       *)
Batch == [pc : {"begun", "loaded", "picked", "written"}, kind : {"beat", "manual"},
          at : 1 .. MaxBatches, day : Days, seen : Schedule, count : 0 .. 20,
          picked : SUBSET Candidates, ended : Days]

Idle == [pc |-> "idle"]

TypeOK ==
    /\ schedule \in Schedule
    /\ approved \subseteq Candidates
    /\ runs \subseteq [candidate : Candidates, kind : {"beat", "manual"}, at : 1 .. MaxBatches, day : Days]
    /\ batch \in [Batches -> {Idle} \cup Batch]
    /\ \A b \in Batches : batch[b].pc \notin {"idle", "begun"} => batch[b].count > 0
    /\ today \in Days /\ started \in 0 .. MaxBatches /\ updates \in 0 .. MaxUpdates

Init ==
    /\ schedule \in {s \in Schedule : s.perWeek > 0 /\ s.lastRun = Never}
    /\ approved = {}
    /\ runs = {}
    /\ batch = [b \in Batches |-> Idle]
    /\ today = 0 /\ started = 0 /\ updates = 0

----------------------------------------------------------------------------
Finished(b) == batch' = [batch EXCEPT ![b] = Idle]
WeekDay(d)  == d % 7

(* schedule_days_json or ["mon", "thu"]: no days means the default days.   *)
DaysOf(s) == IF s.days = {} THEN {0, 3} ELSE s.days

(* Fault: one article too many where the week divides evenly.              *)
ArticlesPerScheduledRunOffByOne(perWeek, days) ==
    (perWeek + Cardinality(days)) \div Cardinality(days)

(* articles_per_scheduled_run.                                             *)
ArticlesPerScheduledRun(perWeek, days) ==
    IF perWeek = 0 THEN 1 ELSE (perWeek + Cardinality(days) - 1) \div Cardinality(days)

NextDay ==
    /\ today < MaxDay
    /\ today' = today + 1
    /\ UNCHANGED <<schedule, approved, runs, batch, started, updates>>

(* record_decision approves a candidate; nothing takes that away.          *)
ApproveCandidate ==
    /\ \E c \in Candidates \ approved : approved' = approved \cup {c}
    /\ UNCHANGED <<schedule, runs, batch, today, started, updates>>

(* upsert_schedule and update_schedule leave last_run_at alone; updating    *)
(* does not check the number.                                              *)
UpdateSchedule ==
    /\ updates < MaxUpdates
    /\ updates' = updates + 1
    /\ \E enabled \in BOOLEAN, perWeek \in PerWeek, days \in SUBSET WeekDays :
         schedule' = [schedule EXCEPT !.enabled = enabled, !.perWeek = perWeek, !.days = days]
    /\ UNCHANGED <<approved, runs, batch, today, started>>

Start(b, pc, kind, count) ==
    /\ batch[b].pc = "idle" /\ started < MaxBatches
    /\ started' = started + 1
    /\ batch' = [batch EXCEPT ![b] = [pc |-> pc, kind |-> kind, at |-> started', day |-> today,
                    seen |-> schedule, count |-> count, picked |-> {}, ended |-> today]]
    /\ UNCHANGED <<schedule, approved, runs, today, updates>>

(* execute_scheduled_batch and run_content_scheduled_batch load all        *)
(* enabled schedules, ...                                                  *)
LoadSchedules(b) == schedule.enabled /\ Start(b, "begun", "beat", 0)

(* batch_generate: a user asks for a number of articles on any day.        *)
BatchGenerate(b) == \E count \in PerWeek \ {0} : Start(b, "loaded", "manual", count)

(* ... and the turn of this one comes, perhaps on a later day. The beat    *)
(* task asks for the weekday before the first site, the job at each.       *)
Due(b) ==
    /\ batch[b].pc = "begun"
    /\ today = batch[b].day \/ OtherSites
    /\ \E asked \in {batch[b].day, today} : WeekDay(asked) \in DaysOf(batch[b].seen)

Take(b) ==
    /\ batch' = [batch EXCEPT ![b].pc = "loaded", ![b].day = today,
         ![b].count = ArticlesPerScheduledRun(batch[b].seen.perWeek, DaysOf(batch[b].seen))]
    /\ UNCHANGED <<schedule, approved, runs, today, started, updates>>

(* A schedule that is due and did not run today takes its turn.            *)
TakeTurn(b) == Due(b) /\ batch[b].seen.lastRun # today /\ Take(b)

(* _pick_approved_candidates: the first of the ranking, of any type.       *)
PickApproved(b) ==
    /\ batch[b].pc = "loaded"
    /\ batch' = [batch EXCEPT ![b].pc = "picked",
         ![b].picked = {c \in approved : Cardinality({d \in approved : d < c}) < batch[b].count}]
    /\ UNCHANGED <<schedule, approved, runs, today, started, updates>>

Write(b, written) ==
    /\ batch' = [batch EXCEPT ![b].pc = "written", ![b].picked = written, ![b].ended = today]
    /\ UNCHANGED <<schedule, approved, runs, today, started, updates>>

(* The loop of trigger_batch_generation; articles that fail are skipped.   *)
WriteArticles(b) ==
    /\ batch[b].pc = "picked"
    /\ \E written \in SUBSET (batch[b].picked \ NoContent) : Write(b, written)

RunsOf(b) ==
    {[candidate |-> c, kind |-> batch[b].kind, at |-> batch[b].at, day |-> batch[b].day] : c \in batch[b].picked}

(* The commit after the last site. The day counts as run, whatever failed. *)
CommitBatch(b) ==
    /\ batch[b].pc = "written"
    /\ today = batch[b].ended \/ OtherSites
    /\ runs' = runs \cup RunsOf(b)
    /\ schedule' = [schedule EXCEPT !.lastRun = batch[b].ended]
    /\ Finished(b)
    /\ UNCHANGED <<approved, today, started, updates>>

(* Nothing is due; or a failed statement leaves the session unusable, the  *)
(* commit fails, the worker dies: no run remains, last_run_at is as before. *)
AbortBatch(b) ==
    /\ batch[b].pc # "idle"
    /\ Finished(b)
    /\ UNCHANGED <<schedule, approved, runs, today, started, updates>>

Next ==
    \/ NextDay \/ ApproveCandidate \/ UpdateSchedule
    \/ \E b \in Batches : \/ LoadSchedules(b) \/ BatchGenerate(b) \/ TakeTurn(b) \/ PickApproved(b)
                          \/ WriteArticles(b) \/ CommitBatch(b) \/ AbortBatch(b)

Spec == Init /\ [][Next]_vars

----------------------------------------------------------------------------
Scheduled == {r \in runs : r.kind = "beat"}

(* One batch at a time: all articles that scheduled batches begin on one   *)
(* day are of one batch, whatever fails, restarts, is edited or waits past *)
(* midnight for other sites.                                               *)
OneScheduledBatchADay ==
    \A r, s \in Scheduled : r.day = s.day => r.at = s.at

(* ... so that without other sites, and while nobody edits the schedule, a *)
(* week takes fewer articles over articles_per_week than it has days.      *)
WeeklyOvershootBounded ==
    \A week \in 0 .. MaxDay \div 7 :
        Cardinality({r \in Scheduled : r.day \div 7 = week})
            <= schedule.perWeek + Cardinality(DaysOf(schedule)) - 1

(* The query takes candidates of any type, the loop only those it can      *)
(* write: an article is about an approved candidate that asks for content. *)
OnlyApprovedContent == \A r \in runs : r.candidate \in approved \ NoContent
=============================================================================
