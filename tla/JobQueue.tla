------------------------------ MODULE JobQueue ------------------------------
(***************************************************************************)
(* The job plane: API and scheduler transactions call enqueue_job          *)
(* (jobs/service.py), the Redis broker carries execute_job_run messages,   *)
(* Celery workers execute them, and Postgres (READ COMMITTED) keeps the    *)
(* rows of job_runs and usage_events.                                      *)
(*                                                                         *)
(* A database transaction is a slot of Txns: it reads committed rows, and  *)
(* what it has flushed is seen by nobody else before its commit.  The call *)
(* of send_task is not part of the transaction: the message is in the      *)
(* broker at once.                                                         *)
(***************************************************************************)
EXTENDS Naturals, FiniteSets

CONSTANTS
    Txns,           \* concurrent database transactions that call enqueue_job
    Workers,        \* Celery worker processes (each runs one task at a time)
    Runs,           \* ids of job_runs rows (uuid4, never reused)
    Workspaces,
    Keys,           \* idempotency keys
    NoKey,          \* enqueue_job called without an idempotency key
    NoRun,
    NoCall,
    Calls,          \* the calls of enqueue_job the callers make
    MaxQueued,      \* MAX_QUEUED_JOBS_PER_WORKSPACE
    QuotaLimit,     \* the monthly limit of the metric of a metered job type
    MaxRetries,     \* max_retries of the Celery task
    MaxCalls,       \* bound: calls of enqueue_job in a behaviour
    MaxCrashes,     \* bound: worker processes killed
    MaxDuplicates,  \* bound: messages the broker delivers twice
    MaxDbErrors     \* bound: database errors met by a worker

ASSUME JobQueueAssumption ==
    /\ IsFiniteSet(Txns) /\ Txns # {}
    /\ IsFiniteSet(Runs)
    /\ NoKey \notin Keys
    /\ NoRun \notin Runs
    /\ NoCall \notin Calls
    /\ Keys \cap Runs = {}
    /\ Calls \subseteq [ws : Workspaces, key : Keys \cup {NoKey}, metered : BOOLEAN]
    /\ MaxQueued \in Nat /\ QuotaLimit \in Nat /\ MaxRetries \in Nat
    /\ MaxCalls \in Nat /\ MaxCrashes \in Nat
    /\ MaxDuplicates \in Nat /\ MaxDbErrors \in Nat

VARIABLES
    job,        \* job_runs: what each row holds (job[r].status says who sees it)
    usage,      \* committed usage_events: one record per idempotency key
    msgs,       \* the broker: copies of each message <<run, retries>>
    txn,        \* the transactions
    worker,     \* the workers
    replies,    \* history: the runs that committed keyed calls returned
    started,    \* history: the runs some worker has marked running
    spent       \* what the bounds count

db     == <<job, usage>>
ghosts == <<replies, started>>
vars   == <<job, usage, msgs, txn, worker, replies, started, spent>>

----------------------------------------------------------------------------
(* Rows.  A row is "unborn" until its id is generated, "uncommitted" while *)
(* only its own transaction sees it, and "rolledback" when that            *)
(* transaction did not commit.                                             *)

Hidden    == {"unborn", "uncommitted", "rolledback"}
Terminal  == {"succeeded", "failed"}
Active    == {"queued", "running"}
Committed == Active \cup Terminal

Row     == [status : Hidden \cup Committed, call : Calls \cup {NoCall}]
Tries   == 0 .. MaxRetries
Message == Runs \X Tries

TxnPc    == {"idle", "find", "quota", "capacity", "insert", "send", "sent",
             "resend", "flush", "requeued"}
WorkerPc == {"idle", "loaded", "running"}
Counted  == {"calls", "crashes", "duplicates", "dbErrors"}

IsCommitted(r) == job[r].status \in Committed

(* Definitions whose names end in a word such as Unguarded or Late are     *)
(* faulty variants of the definition that follows them: no action uses     *)
(* them, and each breaks a property of this module.                        *)

(* Fault: the event of a keyless run falls back on no key.                 *)
UsageKeyMissing(r) == job[r].call.key

(* The idempotency key of the usage event of a run (service.py:100).       *)
UsageKey(r) == IF job[r].call.key = NoKey THEN r ELSE job[r].call.key

(* count_monthly_usage of the metric, and the rows assert_queue_capacity   *)
(* counts, as a statement of a transaction sees them.                      *)
Used(ws)    == {u \in usage : u.ws = ws}
Pending(ws) == {r \in Runs : job[r].status \in Active /\ job[r].call.ws = ws}

(* The row _find_job_by_idempotency_key finds.                             *)
Existing(c) == {r \in Runs : /\ IsCommitted(r)
                             /\ c.key # NoKey
                             /\ job[r].call.key = c.key
                             /\ job[r].call.ws = c.ws}

(* The unique index on job_runs.idempotency_key spans the workspaces.      *)
KeyTaken(k) == \E r \in Runs : IsCommitted(r) /\ job[r].call.key = k
KeyHeld(k)  == \E r \in Runs : job[r].status = "uncommitted" /\ job[r].call.key = k

(* The row lock of a flushed UPDATE, held until commit or rollback.        *)
RowLocked(r) == \E t \in Txns : txn[t].pc = "requeued" /\ txn[t].run = r

IdleTxn    == [pc |-> "idle", call |-> NoCall, run |-> NoRun]
IdleWorker == [pc |-> "idle", run |-> NoRun, tries |-> 0, seen |-> "unborn"]

TypeOK ==
    /\ job \in [Runs -> Row]
    /\ usage \subseteq [ws : Workspaces, key : Keys \cup Runs]
    /\ msgs \in [Message -> Nat]
    /\ txn \in [Txns -> [pc : TxnPc, call : Calls \cup {NoCall}, run : Runs \cup {NoRun}]]
    /\ worker \in [Workers -> [pc : WorkerPc, run : Runs \cup {NoRun}, tries : Tries,
                               seen : Committed \cup {"unborn"}]]
    /\ replies \subseteq [ws : Workspaces, key : Keys, run : Runs]
    /\ started \subseteq Runs
    /\ spent \in [Counted -> Nat]

Init ==
    /\ job = [r \in Runs |-> [status |-> "unborn", call |-> NoCall]]
    /\ usage = {}
    /\ msgs = [m \in Message |-> 0]
    /\ txn = [t \in Txns |-> IdleTxn]
    /\ worker = [w \in Workers |-> IdleWorker]
    /\ replies = {}
    /\ started = {}
    /\ spent = [what \in Counted |-> 0]

----------------------------------------------------------------------------
(* enqueue_job, statement by statement.                                    *)

GotoWith(t, pc, r) == txn' = [txn EXCEPT ![t] = [pc |-> pc, call |-> txn[t].call, run |-> r]]
Goto(t, pc)        == GotoWith(t, pc, txn[t].run)
Close(t)           == txn' = [txn EXCEPT ![t] = IdleTxn]
Send(m)            == msgs' = [msgs EXCEPT ![m] = @ + 1]
Write(r, status)   == job' = [job EXCEPT ![r] = [status |-> status, call |-> job[r].call]]
Count(what)        == spent' = [spent EXCEPT ![what] = @ + 1]

(* What the caller of a keyed call is told once its transaction is over.   *)
Reply(t, r) ==
    replies' = IF txn[t].call.key = NoKey THEN replies
               ELSE replies \cup {[ws |-> txn[t].call.ws, key |-> txn[t].call.key, run |-> r]}

BeginCall(t) ==
    /\ txn[t].pc = "idle"
    /\ spent["calls"] < MaxCalls
    /\ \E c \in Calls : txn' = [txn EXCEPT ![t] = [pc |-> "find", call |-> c, run |-> NoRun]]
    /\ Count("calls")
    /\ UNCHANGED <<db, msgs, worker, ghosts>>

(* No key, or no row with it: a new row is wanted.                         *)
FindNone(t) ==
    /\ txn[t].pc = "find"
    /\ Existing(txn[t].call) = {}
    /\ Goto(t, IF txn[t].call.metered THEN "quota" ELSE "capacity")
    /\ UNCHANGED <<db, msgs, worker, ghosts, spent>>

(* A row that is not failed is returned as it is.                          *)
ReturnExisting(t) ==
    /\ txn[t].pc = "find"
    /\ \E r \in Existing(txn[t].call) :
          /\ job[r].status # "failed"
          /\ Reply(t, r)
    /\ Close(t)
    /\ UNCHANGED <<db, msgs, worker, started, spent>>

(* A failed row is requeued: loaded here ...                               *)
FindFailed(t) ==
    /\ txn[t].pc = "find"
    /\ \E r \in Existing(txn[t].call) :
          /\ job[r].status = "failed"
          /\ GotoWith(t, "resend", r)
    /\ UNCHANGED <<db, msgs, worker, ghosts, spent>>

(* ... sent by _requeue_existing_run before its UPDATE is flushed ...      *)
SendRequeued(t) ==
    /\ txn[t].pc = "resend"
    /\ Send(<<txn[t].run, 0>>)
    /\ Goto(t, "flush")
    /\ UNCHANGED <<db, worker, ghosts, spent>>

(* ... and flushed, which waits for the row lock of another requeue.       *)
FlushRequeued(t) ==
    /\ txn[t].pc = "flush"
    /\ ~RowLocked(txn[t].run)
    /\ Goto(t, "requeued")
    /\ UNCHANGED <<db, msgs, worker, ghosts, spent>>

CheckQuota(t) ==
    /\ txn[t].pc = "quota"
    /\ Cardinality(Used(txn[t].call.ws)) + 1 <= QuotaLimit
    /\ Goto(t, "capacity")
    /\ UNCHANGED <<db, msgs, worker, ghosts, spent>>

(* Fault: the limit itself is let through.                                 *)
AssertQueueCapacityOffByOne(t) ==
    /\ txn[t].pc = "capacity"
    /\ Cardinality(Pending(txn[t].call.ws)) <= MaxQueued
    /\ Goto(t, "insert")
    /\ UNCHANGED <<db, msgs, worker, ghosts, spent>>

AssertQueueCapacity(t) ==
    /\ txn[t].pc = "capacity"
    /\ Cardinality(Pending(txn[t].call.ws)) < MaxQueued
    /\ Goto(t, "insert")
    /\ UNCHANGED <<db, msgs, worker, ghosts, spent>>

(* QUOTA_EXCEEDED, QUEUE_BACKPRESSURE, or the IntegrityError of a key that *)
(* was committed after FindNone looked (or belongs to another workspace).  *)
RejectCall(t) ==
    /\ \/ /\ txn[t].pc = "quota"
          /\ Cardinality(Used(txn[t].call.ws)) + 1 > QuotaLimit
       \/ /\ txn[t].pc = "capacity"
          /\ Cardinality(Pending(txn[t].call.ws)) >= MaxQueued
       \/ /\ txn[t].pc = "insert"
          /\ txn[t].call.key # NoKey
          /\ KeyTaken(txn[t].call.key)
    /\ Close(t)
    /\ UNCHANGED <<db, msgs, worker, ghosts, spent>>

(* Fault: no unique index stops a second row with the key.                 *)
InsertRunUnguarded(t) ==
    /\ txn[t].pc = "insert"
    /\ \E r \in Runs :
          /\ job[r].status = "unborn"
          /\ job' = [job EXCEPT ![r] = [status |-> "uncommitted", call |-> txn[t].call]]
          /\ GotoWith(t, "send", r)
    /\ UNCHANGED <<usage, msgs, worker, ghosts, spent>>

(* INSERT of the run and of its usage event, flushed.  The INSERT waits    *)
(* while another open transaction has inserted the same key.               *)
InsertRun(t) ==
    /\ txn[t].pc = "insert"
    /\ txn[t].call.key = NoKey \/ (~KeyTaken(txn[t].call.key) /\ ~KeyHeld(txn[t].call.key))
    /\ \E r \in Runs :
          /\ job[r].status = "unborn"
          /\ job' = [job EXCEPT ![r] = [status |-> "uncommitted", call |-> txn[t].call]]
          /\ GotoWith(t, "send", r)
    /\ UNCHANGED <<usage, msgs, worker, ghosts, spent>>

SendNew(t) ==
    /\ txn[t].pc = "send"
    /\ Send(<<txn[t].run, 0>>)
    /\ Goto(t, "sent")
    /\ UNCHANGED <<db, worker, ghosts, spent>>

(* The caller commits a new run together with its usage event.             *)
CommitNew(t) ==
    /\ txn[t].pc = "sent"
    /\ LET r == txn[t].run
           event == [ws |-> job[r].call.ws, key |-> UsageKey(r)]
       IN  /\ Write(r, "queued")
           /\ usage' = IF job[r].call.metered /\ ~(\E u \in usage : u.key = event.key)
                       THEN usage \cup {event} ELSE usage
           /\ Reply(t, r)
    /\ Close(t)
    /\ UNCHANGED <<msgs, worker, started, spent>>

(* Fault: a requeue charges the run again, under its id.                   *)
CommitRequeuedCharging(t) ==
    /\ txn[t].pc = "requeued"
    /\ Write(txn[t].run, "queued")
    /\ usage' = IF job[txn[t].run].call.metered
                THEN usage \cup {[ws |-> job[txn[t].run].call.ws, key |-> txn[t].run]} ELSE usage
    /\ Reply(t, txn[t].run)
    /\ Close(t)
    /\ UNCHANGED <<msgs, worker, started, spent>>

(* The caller commits a requeue: "queued" overwrites whatever a worker has *)
(* written to the row since FindFailed read it.                            *)
CommitRequeued(t) ==
    /\ txn[t].pc = "requeued"
    /\ Write(txn[t].run, "queued")
    /\ Reply(t, txn[t].run)
    /\ Close(t)
    /\ UNCHANGED <<usage, msgs, worker, started, spent>>

(* The caller raises later in the request, or its process dies: the        *)
(* transaction rolls back, a message already sent stays.                   *)
Abort(t) ==
    /\ txn[t].pc # "idle"
    /\ IF txn[t].pc \in {"send", "sent"}
       THEN Write(txn[t].run, "rolledback") ELSE UNCHANGED job
    /\ Close(t)
    /\ UNCHANGED <<usage, msgs, worker, ghosts, spent>>

----------------------------------------------------------------------------
(* The Celery worker: execute_job_run and _execute_job_run_async.          *)

Rest(w) == worker' = [worker EXCEPT ![w] = IdleWorker]

(* Fault: the message is still in the broker while the task runs.          *)
ReceiveLateAck(w) ==
    /\ worker[w].pc = "idle"
    /\ \E m \in Message :
          /\ msgs[m] > 0
          /\ IF IsCommitted(m[1])
             THEN worker' = [worker EXCEPT ![w] =
                     [pc |-> "loaded", run |-> m[1], tries |-> m[2], seen |-> job[m[1]].status]]
             ELSE UNCHANGED worker
    /\ UNCHANGED <<db, msgs, txn, ghosts, spent>>

(* The message is acknowledged when the task starts (no acks_late).  A run *)
(* that is not there (yet) ends the task silently; any other is loaded,    *)
(* whatever its status.                                                    *)
Receive(w) ==
    /\ worker[w].pc = "idle"
    /\ \E m \in Message :
          /\ msgs[m] > 0
          /\ msgs' = [msgs EXCEPT ![m] = @ - 1]
          /\ IF IsCommitted(m[1])
             THEN worker' = [worker EXCEPT ![w] =
                     [pc |-> "loaded", run |-> m[1], tries |-> m[2], seen |-> job[m[1]].status]]
             ELSE UNCHANGED worker
    /\ UNCHANGED <<db, txn, ghosts, spent>>

(* status = running, committed.  The ORM leaves the column out of the      *)
(* UPDATE when the loaded row already said running.                        *)
MarkRunning(w) ==
    /\ worker[w].pc = "loaded"
    /\ ~RowLocked(worker[w].run)
    /\ IF worker[w].seen = "running" THEN UNCHANGED job ELSE Write(worker[w].run, "running")
    /\ worker' = [worker EXCEPT ![w] = [pc |-> "running", run |-> worker[w].run,
                                        tries |-> worker[w].tries, seen |-> "running"]]
    /\ started' = started \cup {worker[w].run}
    /\ UNCHANGED <<usage, msgs, txn, replies, spent>>

(* The handler has run: finalize_job_run, or the except clause, decides    *)
(* the final status and the last commit writes it.                         *)
FinishRun(w) ==
    /\ worker[w].pc = "running"
    /\ ~RowLocked(worker[w].run)
    /\ \E outcome \in Terminal : Write(worker[w].run, outcome)
    /\ Rest(w)
    /\ UNCHANGED <<usage, msgs, txn, ghosts, spent>>

(* Fault: the task fails without asking for a retry.                       *)
WorkerDbErrorNoRetry(w) ==
    /\ worker[w].pc \in {"loaded", "running"}
    /\ spent["dbErrors"] < MaxDbErrors
    /\ Count("dbErrors")
    /\ Rest(w)
    /\ UNCHANGED <<db, msgs, txn, ghosts>>

(* A commit of the worker raises (the database is away, or an error in the *)
(* handler has left the session unusable): the task asks for a retry, and  *)
(* gives up after the last one.  The row keeps its status.                 *)
WorkerDbError(w) ==
    /\ worker[w].pc \in {"loaded", "running"}
    /\ spent["dbErrors"] < MaxDbErrors
    /\ Count("dbErrors")
    /\ IF worker[w].tries < MaxRetries
       THEN Send(<<worker[w].run, worker[w].tries + 1>>) ELSE UNCHANGED msgs
    /\ Rest(w)
    /\ UNCHANGED <<db, txn, ghosts>>

(* The worker process dies; the acknowledged message is gone.              *)
WorkerCrash(w) ==
    /\ worker[w].pc # "idle"
    /\ spent["crashes"] < MaxCrashes
    /\ Count("crashes")
    /\ Rest(w)
    /\ UNCHANGED <<db, msgs, txn, ghosts>>

(* A prefetched message outlives the visibility timeout of the broker and  *)
(* is delivered again.                                                     *)
Redeliver(m) ==
    /\ msgs[m] > 0
    /\ spent["duplicates"] < MaxDuplicates
    /\ Count("duplicates")
    /\ Send(m)
    /\ UNCHANGED <<db, txn, worker, ghosts>>

----------------------------------------------------------------------------
TxnStep(t) ==
    \/ FindNone(t) \/ ReturnExisting(t) \/ FindFailed(t) \/ SendRequeued(t)
    \/ FlushRequeued(t) \/ CheckQuota(t) \/ AssertQueueCapacity(t) \/ RejectCall(t)
    \/ InsertRun(t) \/ SendNew(t) \/ CommitNew(t) \/ CommitRequeued(t)

WorkerStep(w) == Receive(w) \/ MarkRunning(w) \/ FinishRun(w)

Next ==
    \/ \E t \in Txns : BeginCall(t) \/ TxnStep(t) \/ Abort(t)
    \/ \E w \in Workers : WorkerStep(w) \/ WorkerDbError(w) \/ WorkerCrash(w)
    \/ \E m \in Message : Redeliver(m)

Spec == Init /\ [][Next]_vars

(* A request that has begun goes on until it is answered or aborted, and a *)
(* worker that is up keeps taking messages and finishing tasks.  New calls,*)
(* aborts and faults are never owed.                                       *)
Fairness == /\ \A t \in Txns : WF_vars(TxnStep(t))
            /\ \A w \in Workers : WF_vars(WorkerStep(w))
FairSpec == Spec /\ Fairness

----------------------------------------------------------------------------
(* What the job plane promises.                                            *)

(* Two callers that use the same idempotency key in a workspace, at the    *)
(* same time or one after the other, requeueing or not, are told of the    *)
(* same run, and that run is committed under that key.                     *)
IdempotentReply ==
    /\ \A p, q \in replies : (p.ws = q.ws /\ p.key = q.key) => p.run = q.run
    /\ \A p \in replies : /\ IsCommitted(p.run)
                          /\ job[p.run].call.ws = p.ws
                          /\ job[p.run].call.key = p.key

(* A metered run is charged when it is committed, once, to its own         *)
(* workspace, and nothing else is: not a lost race for a key, a rolled     *)
(* back request, a requeue, a retry or a second execution.                 *)
ChargedOnce ==
    /\ \A r \in Runs : (IsCommitted(r) /\ job[r].call.metered) =>
          [ws |-> job[r].call.ws, key |-> UsageKey(r)] \in usage
    /\ \A u \in usage : \E r \in Runs : /\ IsCommitted(r)
                                        /\ job[r].call.metered
                                        /\ u = [ws |-> job[r].call.ws, key |-> UsageKey(r)]
    /\ \A r, q \in Runs : (IsCommitted(r) /\ IsCommitted(q) /\ UsageKey(r) = UsageKey(q)) => r = q

(* assert_queue_capacity counts before it inserts and cannot see the rows  *)
(* of open transactions: the backlog of a workspace (runs that wait for    *)
(* their first execution) may exceed the limit, but never by more than the *)
(* number of transactions that were open at once.                          *)
Backlog(ws) == {r \in Runs : /\ job[r].status = "queued"
                             /\ r \notin started
                             /\ job[r].call.ws = ws}
BacklogBound ==
    \A ws \in Workspaces :
        Cardinality(Backlog(ws)) + 1 <= MaxQueued + Cardinality(Txns)

(* The same for check_quota and the usage events of the month.             *)
QuotaBound ==
    \A ws \in Workspaces :
        Cardinality(Used(ws)) + 1 <= QuotaLimit + Cardinality(Txns)

(* Both checks look before they insert; by how much they can be wrong.     *)
ExcessIsBounded == BacklogBound /\ QuotaBound

(* Messages for a run come from its own transaction, from requeues, from   *)
(* retries and from the broker.  A run without a key is never requeued, so *)
(* of its message, the workers that hold it and the send still to come     *)
(* there are never more than the broker made copies.                       *)
Holders(r)  == {w \in Workers : worker[w].pc # "idle" /\ worker[w].run = r}
Senders(r)  == {t \in Txns : txn[t].pc = "send" /\ txn[t].run = r}
InBroker(r) == UNION {{i} \X (1 .. msgs[<<r, i>>]) : i \in Tries}
UnkeyedRunsAlone ==
    \A r \in Runs : job[r].call # NoCall /\ job[r].call.key = NoKey =>
        Cardinality(Holders(r)) + Cardinality(Senders(r)) + Cardinality(InBroker(r))
            <= 1 + spent["duplicates"]

(* A committed run whose message is still in the broker reaches a terminal *)
(* status, as long as no worker dies and the database errors are fewer     *)
(* than the retries.                                                       *)
DeliveredRunsFinish ==
    \A r \in Runs :
        (IsCommitted(r) /\ InBroker(r) # {}) ~> (job[r].status \in Terminal)

(* The acceptance criterion of the development plan: a job can be retried  *)
(* and recovered.  A committed run does not stay queued for ever.          *)
QueuedRunsFinish ==
    \A r \in Runs : (job[r].status = "queued") ~> (job[r].status \in Terminal)

(* The job plane implements the ledger its callers rely on (JobLedger): a  *)
(* commit of a new run is one entry, one charge and one answer at once; a  *)
(* requeue or a lookup repeats an answer; and no abort, crash, retry,      *)
(* redelivery or worker touches any of the three.                          *)
Ledger == INSTANCE JobLedger WITH
    ledger  <- {[run |-> r, call |-> job[r].call] : r \in {q \in Runs : IsCommitted(q)}},
    charged <- usage,
    answers <- replies

ImplementsLedger == Ledger!LedgerSpec

----------------------------------------------------------------------------
(* The inductive invariant behind the safety properties.                   *)

Inserting  == {"send", "sent"}
Requeueing == {"resend", "flush", "requeued"}

(* An inserting transaction alone owns its uncommitted row; a requeueing   *)
(* one holds a committed row of its key that was executed before.          *)
TxnOK ==
    \A t \in Txns :
        /\ txn[t].pc # "idle" => txn[t].call \in Calls
        /\ txn[t].pc \in Inserting =>
              /\ txn[t].run \in Runs
              /\ job[txn[t].run] = [status |-> "uncommitted", call |-> txn[t].call]
              /\ \A u \in Txns : (txn[u].pc \in Inserting /\ txn[u].run = txn[t].run) => u = t
        /\ txn[t].pc \in Requeueing =>
              /\ txn[t].run \in Runs
              /\ IsCommitted(txn[t].run)
              /\ txn[t].run \in started
              /\ txn[t].call.key # NoKey
              /\ job[txn[t].run].call.key = txn[t].call.key
              /\ job[txn[t].run].call.ws = txn[t].call.ws

WorkerOK ==
    \A w \in Workers : worker[w].pc # "idle" =>
        /\ worker[w].run \in Runs
        /\ IsCommitted(worker[w].run)
        /\ worker[w].pc = "running" => worker[w].run \in started

RowsOK ==
    \A r \in Runs :
        /\ job[r].status # "unborn" => job[r].call \in Calls
        /\ job[r].status \in {"running"} \cup Terminal => r \in started

Live(r) == IsCommitted(r) \/ job[r].status = "uncommitted"
KeysUnique ==
    \A r, q \in Runs :
        (Live(r) /\ Live(q) /\ job[r].call.key # NoKey /\ job[r].call.key = job[q].call.key) => r = q

Structure == TypeOK /\ TxnOK /\ WorkerOK /\ RowsOK /\ KeysUnique

(* A transaction past a check has a claim on the limit it checked.         *)
QueueClaims(ws) ==
    {t \in Txns : txn[t].pc \in {"insert"} \cup Inserting /\ txn[t].call.ws = ws}
QuotaClaims(ws) ==
    {t \in Txns : /\ txn[t].pc \in {"capacity", "insert"} \cup Inserting
                  /\ txn[t].call.ws = ws
                  /\ txn[t].call.metered}
Limits ==
    /\ IsFiniteSet(usage)
    /\ \A ws \in Workspaces :
          /\ Cardinality(Backlog(ws)) + Cardinality(QueueClaims(ws)) + 1
                <= MaxQueued + Cardinality(Txns)
          /\ Cardinality(Used(ws)) + Cardinality(QuotaClaims(ws)) + 1
                <= QuotaLimit + Cardinality(Txns)

Inductive == Structure /\ IdempotentReply /\ ChargedOnce /\ Limits
=============================================================================
