----------------------------- MODULE ExecutionJobs -----------------------------
(***************************************************************************)
(* One execution job (execution/service.py, execution/dispatcher.py): work *)
(* an adapter plans or an article is written for, executed, cancelled and  *)
(* tried again by requests. A request reads the row, and its UPDATE sets   *)
(* the columns it changed, and only those.                                 *)
(***************************************************************************)
EXTENDS Naturals

CONSTANTS
    ExecTxns,         \* requests open at a time
    MaxExecRequests   \* bound: requests begun

ASSUME ExecAssumption == MaxExecRequests \in Nat

VARIABLES
    adapter,     \* of its action or type, and what it makes of its input_json
    job,         \* execution_jobs
    published,   \* history: the article of the job went out
    execTxn, execBegun

execVars == <<adapter, job, published, execTxn, execBegun>>

ExecStatuses == {"queued", "completed", "failed", "cancelled"}
NoRequest    == [op |-> "none"]
Columns      == [status : ExecStatuses, started : BOOLEAN, ended : BOOLEAN, error : BOOLEAN,
                 output : {"none", "plan", "post"}]

ExecTypeOK ==
    /\ adapter \in {"accepts", "refuses", "missing"} /\ published \in BOOLEAN
    /\ job \in Columns
    /\ \A t \in ExecTxns : execTxn[t] = NoRequest \/ execTxn[t].op \in {"update", "publish"}
    /\ execBegun \in 0 .. MaxExecRequests

ExecInit ==
    /\ adapter \in {"accepts", "refuses", "missing"} /\ published = FALSE
    /\ job = [status |-> "queued", started |-> FALSE, ended |-> FALSE, error |-> FALSE, output |-> "none"]
    /\ execTxn = [t \in ExecTxns |-> NoRequest] /\ execBegun = 0

(* SQLAlchemy's unit of work: what is assigned and differs. A time is now. *)
Changed(assigned) ==
    [c \in {d \in DOMAIN assigned : assigned[d] # job[d] \/ (d \in {"started", "ended"} /\ assigned[d])}
        |-> assigned[c]]

BeginExec(t, op, assigned) ==
    /\ execTxn[t] = NoRequest /\ execBegun < MaxExecRequests
    /\ execBegun' = execBegun + 1
    /\ execTxn' = [execTxn EXCEPT ![t] = [op |-> op, sets |-> Changed(assigned)]]
    /\ UNCHANGED <<adapter, job, published>>

-----------------------------------------------------------------------------
(* dispatch_execution_job: the adapters are functions of the input, which  *)
(* no request changes. Fault: a missing adapter is no error.               *)
DispatchedAnyhow == [status |-> "completed", started |-> TRUE, ended |-> TRUE]

Dispatched ==
    CASE adapter = "accepts" ->
           [status |-> "completed", started |-> TRUE, ended |-> TRUE, error |-> FALSE, output |-> "plan"]
      [] adapter = "refuses" ->
           [status |-> "failed", started |-> TRUE, ended |-> TRUE, error |-> TRUE, output |-> "none"]
      [] adapter = "missing" -> [status |-> "failed", ended |-> TRUE, error |-> TRUE]

Execute(t) ==
    /\ job.status \in {"queued", "failed", "cancelled"}
    /\ BeginExec(t, "update", Dispatched)

(* Fault: a job that has ended is cancelled too. *)
CancelAny(t) ==
    BeginExec(t, "update", [status |-> "cancelled", ended |-> TRUE])

Cancel(t) ==
    /\ job.status \notin {"completed", "failed", "cancelled"}
    /\ BeginExec(t, "update", [status |-> "cancelled", ended |-> TRUE])

Retry(t) ==
    /\ job.status \in {"failed", "cancelled"}
    /\ BeginExec(t, "update", [status |-> "queued", error |-> FALSE, started |-> FALSE, ended |-> FALSE])

(* A publish completes the job whatever became of it meanwhile, and leaves *)
(* its times and its error as they are.                                    *)
Publish(t) == BeginExec(t, "publish", [status |-> "completed", output |-> "post"])

CommitExec(t) ==
    /\ execTxn[t] # NoRequest
    /\ job' = [c \in DOMAIN job |-> IF c \in DOMAIN execTxn[t].sets THEN execTxn[t].sets[c] ELSE job[c]]
    /\ published' = (published \/ execTxn[t].op = "publish")
    /\ execTxn' = [execTxn EXCEPT ![t] = NoRequest]
    /\ UNCHANGED <<adapter, execBegun>>

ExecNext ==
    \E t \in ExecTxns : Execute(t) \/ Cancel(t) \/ Retry(t) \/ Publish(t) \/ CommitExec(t)

ExecSpec == ExecInit /\ [][ExecNext]_execVars

-----------------------------------------------------------------------------
(* However requests overlap, a job is completed only if an adapter made a  *)
(* plan of its input or its article went out: a retry of a job that was    *)
(* refused is refused again (dispatcher.py:46, content/service.py:509).    *)
CompletedIsEarned == job.status = "completed" => adapter = "accepts" \/ published

(* Requests one after the other: a queued job shows nothing of the last    *)
(* attempt, neither its times nor its error (service.py:58).               *)
QueuedIsFresh == job.status = "queued" => ~job.started /\ ~job.ended /\ ~job.error

(* ... and no request undoes a completion (service.py:49).                 *)
HistoryIsKept ==
    [][/\ QueuedIsFresh'
       /\ job.status = "completed" => job'.status = "completed"]_execVars
=============================================================================
