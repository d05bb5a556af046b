----------------------------- MODULE BeatChecks -----------------------------
(***************************************************************************)
(* The tasks of Celery Beat that enqueue a check for every site: sitemap   *)
(* health, published noindex, coverage (jobs/tasks.py, jobs/celery_app.py, *)
(* jobs/service.py). One task enqueues for all its sites in one session,   *)
(* under a key of the site and the day or week, and commits at the end; an *)
(* error of one site is written down and the next one is tried. Beat, or a *)
(* broker that delivers again, may have the same task at work twice. What  *)
(* a run does is modelled in JobQueue: here it is queued until it has      *)
(* ended.                                                                  *)
(***************************************************************************)
EXTENDS Naturals, Sequences, FiniteSets

CONSTANTS
    DueSites,     \* sites with a credential of Search Console, or live content
    BeatTasks,    \* deliveries of the task of one day or week
    MaxRetries    \* max_retries

ASSUME BeatAssumption == MaxRetries \in Nat

VARIABLES
    beat,      \* the deliveries of the task
    check,     \* committed job_runs of the key: site -> [id, status]
    message    \* execute_job_run messages: [site, run]

beatVars == <<beat, check, message>>

NoCheck  == [id |-> <<>>, status |-> "none"]
Orders   == {o \in [1 .. Cardinality(DueSites) -> DueSites] : \A s \in DueSites : \E i \in DOMAIN o : o[i] = s}
Self(t)  == <<t, beat[t].tries>>

BeatTypeOK ==
    /\ \A t \in BeatTasks :
         /\ beat[t].pc \in {"idle", "at work", "done", "given up"} /\ beat[t].tries \in 0 .. MaxRetries + 1
         /\ beat[t].added \cap beat[t].requeued = {} /\ (beat[t].added \cup beat[t].requeued \subseteq DueSites)
         /\ beat[t].broken => beat[t].added \cup beat[t].requeued = {}
    /\ \A t, u \in BeatTasks : t # u => beat[t].added \cap beat[u].added = {}
    /\ \A s \in DueSites :
         check[s] # NoCheck => check[s].status \in {"queued", "succeeded", "failed"}

Session(pc, tries, order) ==
    [pc |-> pc, tries |-> tries, todo |-> order, added |-> {}, requeued |-> {}, counted |-> {}, broken |-> FALSE]

BeatInit ==
    /\ beat = [t \in BeatTasks |-> Session("idle", 0, <<>>)]
    /\ check = [s \in DueSites |-> NoCheck]
    /\ message = {}

(* The query of the sites has no order.                                    *)
BeatStart(t) ==
    /\ beat[t].pc = "idle"
    /\ \E order \in Orders : beat' = [beat EXCEPT ![t] = Session("at work", @.tries, order)]
    /\ UNCHANGED <<check, message>>

Turn(t, s) == beat[t].pc = "at work" /\ beat[t].todo # <<>> /\ s = Head(beat[t].todo)
Tried(t)    == [beat[t] EXCEPT !.todo = Tail(@)]
Send(t, s, run) == message' = message \cup {[site |-> s, run |-> run]}

(* The key has a run that did not fail: it is counted and left alone.      *)
EnqueueExisting(t, s) ==
    /\ Turn(t, s) /\ ~beat[t].broken
    /\ check[s] # NoCheck /\ check[s].status # "failed"
    /\ beat' = [beat EXCEPT ![t] = [Tried(t) EXCEPT !.counted = @ \cup {s}]]
    /\ UNCHANGED <<check, message>>

(* A failed one is queued again; the UPDATE waits for another's. When the  *)
(* broker does not take the message the row is written all the same, and   *)
(* the run waits with no message of its own.                               *)
EnqueueFailed(t, s) ==
    /\ Turn(t, s) /\ ~beat[t].broken
    /\ check[s] # NoCheck /\ check[s].status = "failed" /\ \A u \in BeatTasks : s \notin beat[u].requeued
    /\ \/ /\ beat' = [beat EXCEPT ![t] = [Tried(t) EXCEPT !.requeued = @ \cup {s}, !.counted = @ \cup {s}]]
          /\ Send(t, s, check[s].id)
       \/ beat' = [beat EXCEPT ![t] = [Tried(t) EXCEPT !.requeued = @ \cup {s}]] /\ UNCHANGED message
    /\ UNCHANGED check

(* A new run; the INSERT waits for another's of the same key. When the     *)
(* broker does not take the message the row stays, and is no longer counted. *)
EnqueueNew(t, s) ==
    /\ Turn(t, s) /\ ~beat[t].broken
    /\ check[s] = NoCheck /\ \A u \in BeatTasks : s \notin beat[u].added
    /\ \/ /\ beat' = [beat EXCEPT ![t] = [Tried(t) EXCEPT !.added = @ \cup {s}, !.counted = @ \cup {s}]]
          /\ Send(t, s, Self(t))
       \/ beat' = [beat EXCEPT ![t] = [Tried(t) EXCEPT !.added = @ \cup {s}]] /\ UNCHANGED message
    /\ UNCHANGED check

(* Fault: the handler of the error rolls the session back, so that it goes *)
(* on without the runs it has counted.                                     *)
EnqueueRefusedRolledBack(t, s) ==
    /\ Turn(t, s) /\ ~beat[t].broken
    /\ beat' = [beat EXCEPT ![t] = [Tried(t) EXCEPT !.added = {}, !.requeued = {}]]
    /\ UNCHANGED <<check, message>>

(* The database refuses a flush: the key was committed since it was looked *)
(* for, or two tasks wait for each other. All that was flushed is rolled   *)
(* back, and the session takes nothing any more. The message of a run that *)
(* was to be queued again is sent before its row is flushed.               *)
EnqueueRefused(t, s) ==
    /\ Turn(t, s) /\ ~beat[t].broken
    /\ beat' = [beat EXCEPT ![t] = [Tried(t) EXCEPT !.added = {}, !.requeued = {}, !.broken = TRUE]]
    /\ \/ UNCHANGED message
       \/ check[s] # NoCheck /\ check[s].status = "failed" /\ Send(t, s, check[s].id)
    /\ UNCHANGED check

(* The queue of the workspace is full, or the session is broken.           *)
EnqueueSkipped(t, s) ==
    /\ Turn(t, s)
    /\ beat' = [beat EXCEPT ![t] = Tried(t)]
    /\ UNCHANGED <<check, message>>

CommitBeat(t) ==
    /\ beat[t].pc = "at work" /\ beat[t].todo = <<>> /\ ~beat[t].broken
    /\ check' = [s \in DueSites |-> IF s \in beat[t].added    THEN [id |-> Self(t), status |-> "queued"]
                               ELSE IF s \in beat[t].requeued THEN [check[s] EXCEPT !.status = "queued"]
                               ELSE check[s]]
    /\ beat' = [beat EXCEPT ![t].pc = "done", ![t].added = {}, ![t].requeued = {}]
    /\ UNCHANGED message

(* The commit of a broken session raises, as any other may: the task is    *)
(* retried, max_retries times at most.                                     *)
BeatFails(t) ==
    /\ beat[t].pc = "at work" /\ beat[t].todo = <<>>
    /\ beat' = [beat EXCEPT ![t] = Session(IF @.tries < MaxRetries THEN "idle" ELSE "given up", @.tries + 1, <<>>)]
    /\ UNCHANGED <<check, message>>

(* A worker takes a message before or after the task commits: a run that   *)
(* is not there yet is left alone for good, and a row that is being queued *)
(* again is waited for.                                                    *)
ReceiveCheck(m) ==
    /\ \A t \in BeatTasks : m.site \notin beat[t].requeued
    /\ message' = message \ {m}
    /\ \/ check[m.site].id = m.run /\ \E ended \in {"succeeded", "failed"} : check' = [check EXCEPT ![m.site].status = ended]
       \/ check[m.site].id # m.run /\ UNCHANGED check
    /\ UNCHANGED beat

BeatNext ==
    \/ \E t \in BeatTasks : BeatStart(t) \/ CommitBeat(t) \/ BeatFails(t)
    \/ \E t \in BeatTasks, s \in DueSites :
          EnqueueExisting(t, s) \/ EnqueueFailed(t, s) \/ EnqueueNew(t, s) \/ EnqueueRefused(t, s) \/ EnqueueSkipped(t, s)
    \/ \E m \in message : ReceiveCheck(m)

BeatSpec == BeatInit /\ [][BeatNext]_beatVars

----------------------------------------------------------------------------
(* What a task that ended well says it has enqueued has a committed run,   *)
(* whatever was refused on the way and whoever else was at work.           *)
CountedIsThere == \A t \in BeatTasks : beat[t].pc = "done" => \A s \in beat[t].counted : check[s] # NoCheck
=============================================================================
