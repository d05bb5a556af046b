--------------------------- MODULE JobQueue_proofs ---------------------------
(***************************************************************************)
(* Proofs about JobQueue, for every number of transactions, workers, rows, *)
(* workspaces and keys and every value of the limits and the bounds.       *)
(***************************************************************************)
EXTENDS JobQueue, Counting, TLAPS

(* The structure of the state is inductive: the type of every variable,    *)
(* which rows transactions and workers hold, and one live row per key.     *)
LEMMA StructureInit == Init => Structure
BY JobQueueAssumption DEF Init, Structure, TypeOK, TxnOK, WorkerOK, RowsOK, KeysUnique, Live,
   IsCommitted, Row, Hidden, Committed, Active, Terminal, TxnPc, WorkerPc, Tries, IdleTxn,
   IdleWorker, Counted, Inserting, Requeueing

(* What a write of a status does to the rows.                              *)
LEMMA WriteEffect ==
  ASSUME TypeOK, NEW r \in Runs, NEW s \in Hidden \cup Committed, Write(r, s)
  PROVE  /\ job' \in [Runs -> Row]
         /\ job'[r] = [status |-> s, call |-> job[r].call]
         /\ job'[r].status = s
         /\ \A q \in Runs : job'[q].call = job[q].call
         /\ \A q \in Runs : q # r => job'[q] = job[q]
BY DEF TypeOK, Write, Row

(* What the end of a transaction does to the transactions.                 *)
LEMMA CloseEffect ==
  ASSUME TypeOK, NEW t \in Txns, Close(t)
  PROVE  /\ txn' \in [Txns -> [pc : TxnPc, call : Calls \cup {NoCall}, run : Runs \cup {NoRun}]]
         /\ txn'[t].pc = "idle"
         /\ \A u \in Txns : u # t => txn'[u] = txn[u]
BY DEF TypeOK, Close, IdleTxn, TxnPc

(* What the end of a task does to the workers.                             *)
LEMMA RestEffect ==
  ASSUME TypeOK, NEW w \in Workers, Rest(w)
  PROVE  /\ worker' \in [Workers -> [pc : WorkerPc, run : Runs \cup {NoRun}, tries : Tries,
                                     seen : Committed \cup {"unborn"}]]
         /\ worker'[w].pc = "idle"
         /\ \A v \in Workers : v # w => worker'[v] = worker[v]
BY JobQueueAssumption DEF TypeOK, Rest, IdleWorker, WorkerPc, Tries

(* A reply names the workspace and the key of its call.                    *)
LEMMA ReplyEffect ==
  ASSUME TypeOK, TxnOK, NEW t \in Txns, txn[t].pc # "idle", NEW r \in Runs, Reply(t, r)
  PROVE  /\ replies' \subseteq [ws : Workspaces, key : Keys, run : Runs]
         /\ txn[t].call.key = NoKey => replies' = replies
         /\ txn[t].call.key # NoKey =>
               replies' = replies \cup {[ws |-> txn[t].call.ws, key |-> txn[t].call.key, run |-> r]}
<1>1. txn[t].call \in Calls
  BY DEF TxnOK
<1>2. txn[t].call.ws \in Workspaces /\ txn[t].call.key \in Keys \cup {NoKey}
  BY <1>1, JobQueueAssumption
<1> QED
  BY <1>2 DEF TypeOK, Reply

(* Every action of a request, of a worker or of the broker keeps it.       *)
LEMMA StructureStep == Structure /\ [Next]_vars => Structure'
<1> SUFFICES ASSUME Structure, [Next]_vars PROVE Structure'
  OBVIOUS
<1> USE JobQueueAssumption
    DEF db, ghosts, GotoWith, Goto, Close, Send, Write, Count, IdleTxn, IdleWorker, Counted,
        TxnPc, WorkerPc
<1>0. TypeOK /\ TxnOK /\ WorkerOK /\ RowsOK /\ KeysUnique
  BY DEF Structure
<1>1. ASSUME NEW t \in Txns, BeginCall(t) PROVE Structure'
  <2>1. TypeOK'
    BY <1>0, <1>1 DEF TypeOK, BeginCall
  <2>2. TxnOK'
    BY <1>0, <1>1 DEF TypeOK, TxnOK, BeginCall, Inserting, Requeueing, IsCommitted
  <2>3. WorkerOK'
    BY <1>0, <1>1 DEF TypeOK, WorkerOK, BeginCall, IsCommitted
  <2>4. RowsOK'
    BY <1>0, <1>1 DEF TypeOK, RowsOK, BeginCall
  <2>5. KeysUnique'
    BY <1>0, <1>1 DEF TypeOK, KeysUnique, Live, BeginCall, IsCommitted
  <2> QED
    BY <2>1, <2>2, <2>3, <2>4, <2>5 DEF Structure
<1>2. ASSUME NEW t \in Txns, FindNone(t) PROVE Structure'
  <2>1. TypeOK'
    BY <1>0, <1>2 DEF TypeOK, FindNone
  <2>2. TxnOK'
    BY <1>0, <1>2 DEF TypeOK, TxnOK, FindNone, Inserting, Requeueing, IsCommitted
  <2>3. WorkerOK'
    BY <1>0, <1>2 DEF TypeOK, WorkerOK, FindNone, IsCommitted
  <2>4. RowsOK'
    BY <1>0, <1>2 DEF TypeOK, RowsOK, FindNone
  <2>5. KeysUnique'
    BY <1>0, <1>2 DEF TypeOK, KeysUnique, Live, FindNone, IsCommitted
  <2> QED
    BY <2>1, <2>2, <2>3, <2>4, <2>5 DEF Structure
<1>3. ASSUME NEW t \in Txns, ReturnExisting(t) PROVE Structure'
  <2>a. PICK r \in Runs : Reply(t, r)
    BY <1>3 DEF ReturnExisting, Existing
  <2>b. Close(t) /\ UNCHANGED <<job, usage, msgs, worker, started, spent>> /\ txn[t].pc = "find"
    BY <1>3 DEF ReturnExisting
  <2>c. /\ \A u \in Txns : u # t => txn'[u] = txn[u]
        /\ txn'[t].pc = "idle"
    BY <1>0, <2>b, CloseEffect
  <2>1. TypeOK'
    BY <1>0, <2>a, <2>b, ReplyEffect, CloseEffect DEF TypeOK
  <2>2. TxnOK'
    BY <1>0, <2>b, <2>c DEF TxnOK, IsCommitted, Inserting, Requeueing
  <2>3. WorkerOK' /\ RowsOK' /\ KeysUnique'
    BY <1>0, <2>b DEF WorkerOK, RowsOK, KeysUnique, Live, IsCommitted
  <2> QED
    BY <2>1, <2>2, <2>3 DEF Structure
<1>4. ASSUME NEW t \in Txns, FindFailed(t) PROVE Structure'
  <2>1. TypeOK'
    BY <1>0, <1>4 DEF TypeOK, FindFailed, Existing
  <2>2. TxnOK'
    BY <1>0, <1>4 DEF TypeOK, TxnOK, FindFailed, Inserting, Requeueing, IsCommitted, Existing, RowsOK, Terminal
  <2>3. WorkerOK'
    BY <1>0, <1>4 DEF TypeOK, WorkerOK, FindFailed, IsCommitted
  <2>4. RowsOK'
    BY <1>0, <1>4 DEF TypeOK, RowsOK, FindFailed
  <2>5. KeysUnique'
    BY <1>0, <1>4 DEF TypeOK, KeysUnique, Live, FindFailed, IsCommitted
  <2> QED
    BY <2>1, <2>2, <2>3, <2>4, <2>5 DEF Structure
<1>5. ASSUME NEW t \in Txns, SendRequeued(t) PROVE Structure'
  <2>a. txn[t].run \in Runs
    BY <1>0, <1>5 DEF TxnOK, SendRequeued, Requeueing
  <2>b. <<txn[t].run, 0>> \in Message
    BY <2>a DEF Message, Tries
  <2>c. msgs' \in [Message -> Nat]
    BY <1>0, <1>5, <2>b DEF TypeOK, SendRequeued
  <2>1. TypeOK'
    BY <1>0, <1>5, <2>c DEF TypeOK, SendRequeued
  <2>2. TxnOK'
    BY <1>0, <1>5 DEF TypeOK, TxnOK, SendRequeued, Inserting, Requeueing, IsCommitted
  <2>3. WorkerOK' /\ RowsOK' /\ KeysUnique'
    BY <1>0, <1>5 DEF SendRequeued, WorkerOK, RowsOK, KeysUnique, Live, IsCommitted
  <2> QED
    BY <2>1, <2>2, <2>3 DEF Structure
<1>6. ASSUME NEW t \in Txns, FlushRequeued(t) PROVE Structure'
  <2>1. TypeOK'
    BY <1>0, <1>6 DEF TypeOK, FlushRequeued
  <2>2. TxnOK'
    BY <1>0, <1>6 DEF TypeOK, TxnOK, FlushRequeued, Inserting, Requeueing, IsCommitted
  <2>3. WorkerOK'
    BY <1>0, <1>6 DEF TypeOK, WorkerOK, FlushRequeued, IsCommitted
  <2>4. RowsOK'
    BY <1>0, <1>6 DEF TypeOK, RowsOK, FlushRequeued
  <2>5. KeysUnique'
    BY <1>0, <1>6 DEF TypeOK, KeysUnique, Live, FlushRequeued, IsCommitted
  <2> QED
    BY <2>1, <2>2, <2>3, <2>4, <2>5 DEF Structure
<1>7. ASSUME NEW t \in Txns, CheckQuota(t) PROVE Structure'
  <2>1. TypeOK'
    BY <1>0, <1>7 DEF TypeOK, CheckQuota
  <2>2. TxnOK'
    BY <1>0, <1>7 DEF TypeOK, TxnOK, CheckQuota, Inserting, Requeueing, IsCommitted
  <2>3. WorkerOK'
    BY <1>0, <1>7 DEF TypeOK, WorkerOK, CheckQuota, IsCommitted
  <2>4. RowsOK'
    BY <1>0, <1>7 DEF TypeOK, RowsOK, CheckQuota
  <2>5. KeysUnique'
    BY <1>0, <1>7 DEF TypeOK, KeysUnique, Live, CheckQuota, IsCommitted
  <2> QED
    BY <2>1, <2>2, <2>3, <2>4, <2>5 DEF Structure
<1>8. ASSUME NEW t \in Txns, AssertQueueCapacity(t) PROVE Structure'
  <2>1. TypeOK'
    BY <1>0, <1>8 DEF TypeOK, AssertQueueCapacity
  <2>2. TxnOK'
    BY <1>0, <1>8 DEF TypeOK, TxnOK, AssertQueueCapacity, Inserting, Requeueing, IsCommitted
  <2>3. WorkerOK'
    BY <1>0, <1>8 DEF TypeOK, WorkerOK, AssertQueueCapacity, IsCommitted
  <2>4. RowsOK'
    BY <1>0, <1>8 DEF TypeOK, RowsOK, AssertQueueCapacity
  <2>5. KeysUnique'
    BY <1>0, <1>8 DEF TypeOK, KeysUnique, Live, AssertQueueCapacity, IsCommitted
  <2> QED
    BY <2>1, <2>2, <2>3, <2>4, <2>5 DEF Structure
<1>9. ASSUME NEW t \in Txns, RejectCall(t) PROVE Structure'
  <2>1. TypeOK'
    BY <1>0, <1>9 DEF TypeOK, RejectCall
  <2>2. TxnOK'
    BY <1>0, <1>9 DEF TypeOK, TxnOK, RejectCall, Inserting, Requeueing, IsCommitted
  <2>3. WorkerOK'
    BY <1>0, <1>9 DEF TypeOK, WorkerOK, RejectCall, IsCommitted
  <2>4. RowsOK'
    BY <1>0, <1>9 DEF TypeOK, RowsOK, RejectCall
  <2>5. KeysUnique'
    BY <1>0, <1>9 DEF TypeOK, KeysUnique, Live, RejectCall, IsCommitted
  <2> QED
    BY <2>1, <2>2, <2>3, <2>4, <2>5 DEF Structure
<1>10. ASSUME NEW t \in Txns, InsertRun(t) PROVE Structure'
  <2>a. PICK r \in Runs : /\ job[r].status = "unborn"
                         /\ job' = [job EXCEPT ![r] = [status |-> "uncommitted", call |-> txn[t].call]]
                         /\ GotoWith(t, "send", r)
    BY <1>10 DEF InsertRun
  <2>b. /\ txn[t].call \in Calls /\ txn[t].pc = "insert"
        /\ UNCHANGED <<usage, msgs, worker, replies, started, spent>>
    BY <1>0, <1>10 DEF TxnOK, InsertRun
  <2>c. /\ job' \in [Runs -> Row]
        /\ job'[r] = [status |-> "uncommitted", call |-> txn[t].call]
        /\ \A q \in Runs : q # r => job'[q] = job[q]
    BY <1>0, <2>a, <2>b DEF TypeOK, Row, Hidden
  <2>d. /\ txn' \in [Txns -> [pc : TxnPc, call : Calls \cup {NoCall}, run : Runs \cup {NoRun}]]
        /\ txn'[t] = [pc |-> "send", call |-> txn[t].call, run |-> r]
        /\ \A u \in Txns : u # t => txn'[u] = txn[u]
    BY <1>0, <2>a DEF TypeOK
  <2>e. ~IsCommitted(r)
    BY <2>a DEF IsCommitted, Committed, Active, Terminal
  <2>1. TypeOK'
    BY <1>0, <2>b, <2>c, <2>d DEF TypeOK
  <2>2. TxnOK'
    <3>1. \A u \in Txns : (u # t /\ txn[u].pc \in Inserting) => txn[u].run # r
      <4> SUFFICES ASSUME NEW u \in Txns, txn[u].pc \in Inserting PROVE txn[u].run # r
        OBVIOUS
      <4>1. job[txn[u].run] = [status |-> "uncommitted", call |-> txn[u].call]
        BY <1>0 DEF TxnOK
      <4>2. job[r].status # "uncommitted"
        BY <2>a
      <4> QED
        BY <4>1, <4>2
    <3>2. \A u \in Txns : (u # t /\ txn[u].pc \in Requeueing) => txn[u].run # r
      BY <1>0, <2>e DEF TxnOK
    <3> QED
      BY <1>0, <2>b, <2>c, <2>d, <3>1, <3>2 DEF TxnOK, Inserting, Requeueing, IsCommitted
  <2>3. WorkerOK'
    BY <1>0, <2>b, <2>c, <2>e DEF WorkerOK, IsCommitted
  <2>4. RowsOK'
    BY <1>0, <2>b, <2>c DEF RowsOK, Terminal
  <2>5. KeysUnique'
    BY <1>0, <1>10, <2>b, <2>c DEF KeysUnique, Live, IsCommitted, InsertRun, KeyTaken, KeyHeld
  <2> QED
    BY <2>1, <2>2, <2>3, <2>4, <2>5 DEF Structure
<1>11. ASSUME NEW t \in Txns, SendNew(t) PROVE Structure'
  <2>a. txn[t].run \in Runs
    BY <1>0, <1>11 DEF TxnOK, SendNew, Inserting
  <2>b. <<txn[t].run, 0>> \in Message
    BY <2>a DEF Message, Tries
  <2>c. msgs' \in [Message -> Nat]
    BY <1>0, <1>11, <2>b DEF TypeOK, SendNew
  <2>1. TypeOK'
    BY <1>0, <1>11, <2>c DEF TypeOK, SendNew
  <2>2. TxnOK'
    BY <1>0, <1>11 DEF TypeOK, TxnOK, SendNew, Inserting, Requeueing, IsCommitted
  <2>3. WorkerOK' /\ RowsOK' /\ KeysUnique'
    BY <1>0, <1>11 DEF SendNew, WorkerOK, RowsOK, KeysUnique, Live, IsCommitted
  <2> QED
    BY <2>1, <2>2, <2>3 DEF Structure
<1>12. ASSUME NEW t \in Txns, CommitNew(t) PROVE Structure'
  <2> DEFINE r == txn[t].run
  <2>a. /\ r \in Runs /\ job[r] = [status |-> "uncommitted", call |-> txn[t].call]
        /\ txn[t].call \in Calls
        /\ \A u \in Txns : (txn[u].pc \in Inserting /\ txn[u].run = r) => u = t
    BY <1>0, <1>12 DEF TxnOK, CommitNew, Inserting
  <2>b. /\ Write(r, "queued") /\ Reply(t, r) /\ Close(t) /\ txn[t].pc = "sent"
        /\ UNCHANGED <<msgs, worker, started, spent>>
        /\ usage' \in {usage, usage \cup {[ws |-> job[r].call.ws, key |-> UsageKey(r)]}}
    BY <1>12 DEF CommitNew
  <2>c. [ws |-> job[r].call.ws, key |-> UsageKey(r)] \in [ws : Workspaces, key : Keys \cup Runs]
    BY <2>a DEF UsageKey
  <2> HIDE DEF r
  <2>d. /\ job' \in [Runs -> Row]
        /\ job'[r] = [status |-> "queued", call |-> job[r].call]
        /\ \A q \in Runs : q # r => job'[q] = job[q]
    BY <1>0, <2>a, <2>b, WriteEffect DEF Hidden, Committed, Active, Terminal
  <2>e. /\ txn' \in [Txns -> [pc : TxnPc, call : Calls \cup {NoCall}, run : Runs \cup {NoRun}]]
        /\ txn'[t].pc = "idle"
        /\ \A u \in Txns : u # t => txn'[u] = txn[u]
    BY <1>0, <2>b, CloseEffect
  <2>1. TypeOK'
    BY <1>0, <2>a, <2>b, <2>c, <2>d, <2>e, ReplyEffect DEF TypeOK
  <2>2. TxnOK'
    BY <1>0, <2>a, <2>b, <2>d, <2>e DEF TxnOK, Inserting, Requeueing, IsCommitted, Committed, Active
  <2>3. WorkerOK'
    BY <1>0, <2>b, <2>d DEF WorkerOK, IsCommitted, Committed, Active
  <2>4. RowsOK'
    BY <1>0, <2>a, <2>b, <2>d DEF RowsOK, Terminal
  <2>5. KeysUnique'
    BY <1>0, <2>a, <2>d DEF KeysUnique, Live, IsCommitted, Committed, Active
  <2> QED
    BY <2>1, <2>2, <2>3, <2>4, <2>5 DEF Structure
<1>13. ASSUME NEW t \in Txns, CommitRequeued(t) PROVE Structure'
  <2> DEFINE r == txn[t].run
  <2>a. r \in Runs /\ IsCommitted(r) /\ r \in started
    BY <1>0, <1>13 DEF TxnOK, CommitRequeued, Requeueing
  <2>b. /\ Write(r, "queued") /\ Reply(t, r) /\ Close(t) /\ txn[t].pc = "requeued"
        /\ UNCHANGED <<usage, msgs, worker, started, spent>>
    BY <1>13 DEF CommitRequeued
  <2> HIDE DEF r
  <2>d. /\ job' \in [Runs -> Row]
        /\ job'[r] = [status |-> "queued", call |-> job[r].call]
        /\ \A q \in Runs : q # r => job'[q] = job[q]
    BY <1>0, <2>a, <2>b, WriteEffect DEF Hidden, Committed, Active, Terminal
  <2>e. /\ txn' \in [Txns -> [pc : TxnPc, call : Calls \cup {NoCall}, run : Runs \cup {NoRun}]]
        /\ txn'[t].pc = "idle"
        /\ \A u \in Txns : u # t => txn'[u] = txn[u]
    BY <1>0, <2>b, CloseEffect
  <2>1. TypeOK'
    BY <1>0, <2>a, <2>b, <2>d, <2>e, ReplyEffect DEF TypeOK
  <2>2. TxnOK'
    BY <1>0, <2>a, <2>b, <2>d, <2>e
    DEF TypeOK, Row, TxnOK, Inserting, Requeueing, IsCommitted, Committed, Active, Terminal
  <2>3. WorkerOK'
    BY <1>0, <2>b, <2>d DEF WorkerOK, IsCommitted, Committed, Active
  <2>4. RowsOK'
    BY <1>0, <2>a, <2>b, <2>d DEF RowsOK, Terminal, IsCommitted, Committed, Active
  <2>5. KeysUnique'
    BY <1>0, <2>a, <2>d DEF KeysUnique, Live, IsCommitted, Committed, Active
  <2> QED
    BY <2>1, <2>2, <2>3, <2>4, <2>5 DEF Structure
<1>14. ASSUME NEW t \in Txns, Abort(t) PROVE Structure'
  <2>0. Close(t) /\ UNCHANGED <<usage, msgs, worker, replies, started, spent>>
    BY <1>14 DEF Abort
  <2>e. /\ txn' \in [Txns -> [pc : TxnPc, call : Calls \cup {NoCall}, run : Runs \cup {NoRun}]]
        /\ txn'[t].pc = "idle"
        /\ \A u \in Txns : u # t => txn'[u] = txn[u]
    BY <1>0, <2>0, CloseEffect
  <2>x. CASE txn[t].pc \in Inserting
    <3> DEFINE r == txn[t].run
    <3>a. /\ r \in Runs /\ job[r] = [status |-> "uncommitted", call |-> txn[t].call]
          /\ txn[t].call \in Calls
          /\ \A u \in Txns : (txn[u].pc \in Inserting /\ txn[u].run = r) => u = t
      BY <1>0, <2>x DEF TxnOK, Inserting
    <3>b. Write(r, "rolledback")
      BY <1>14, <2>x DEF Abort, Inserting
    <3> HIDE DEF r
    <3>d. /\ job' \in [Runs -> Row]
          /\ job'[r] = [status |-> "rolledback", call |-> job[r].call]
          /\ \A q \in Runs : q # r => job'[q] = job[q]
      BY <1>0, <3>a, <3>b, WriteEffect DEF Hidden
    <3>n. ~IsCommitted(r)
      BY <3>a DEF IsCommitted, Committed, Active, Terminal
    <3>1. TypeOK'
      BY <1>0, <2>0, <2>e, <3>d DEF TypeOK
    <3>2. TxnOK'
      BY <1>0, <2>0, <2>e, <3>a, <3>d, <3>n DEF TxnOK, Inserting, Requeueing, IsCommitted
    <3>3. WorkerOK'
      BY <1>0, <2>0, <3>d, <3>n DEF WorkerOK, IsCommitted
    <3>4. RowsOK'
      BY <1>0, <2>0, <3>a, <3>d DEF RowsOK, Terminal
    <3>5. KeysUnique'
      BY <1>0, <3>d DEF KeysUnique, Live, IsCommitted, Committed, Active, Terminal
    <3> QED
      BY <3>1, <3>2, <3>3, <3>4, <3>5 DEF Structure
  <2>y. CASE txn[t].pc \notin Inserting
    <3>1. job' = job
      BY <1>14, <2>y DEF Abort, Inserting
    <3>2. TypeOK' /\ WorkerOK' /\ RowsOK' /\ KeysUnique'
      BY <1>0, <2>0, <2>e, <3>1 DEF TypeOK, WorkerOK, RowsOK, KeysUnique, Live, IsCommitted
    <3>3. TxnOK'
      BY <1>0, <2>0, <2>e, <3>1 DEF TxnOK, Inserting, Requeueing, IsCommitted
    <3> QED
      BY <3>2, <3>3 DEF Structure
  <2> QED
    BY <2>x, <2>y
<1>15. ASSUME NEW w \in Workers, Receive(w) PROVE Structure'
  <2>a. PICK m \in Message :
          /\ msgs[m] > 0 /\ msgs' = [msgs EXCEPT ![m] = @ - 1]
          /\ IF IsCommitted(m[1])
             THEN worker' = [worker EXCEPT ![w] =
                     [pc |-> "loaded", run |-> m[1], tries |-> m[2], seen |-> job[m[1]].status]]
             ELSE UNCHANGED worker
    BY <1>15 DEF Receive
  <2>b. UNCHANGED <<job, usage, txn, replies, started, spent>>
    BY <1>15 DEF Receive
  <2>c. m[1] \in Runs /\ m[2] \in Tries
    BY DEF Message
  <2>1. TypeOK'
    BY <1>0, <2>a, <2>b, <2>c DEF TypeOK, IsCommitted, Committed, Active, Terminal
  <2>2. TxnOK' /\ RowsOK' /\ KeysUnique'
    BY <1>0, <2>b DEF TxnOK, RowsOK, KeysUnique, Live, IsCommitted
  <2>3. WorkerOK'
    <3>1. CASE IsCommitted(m[1])
      BY <1>0, <2>a, <2>b, <2>c, <3>1 DEF TypeOK, WorkerOK, IsCommitted
    <3>2. CASE ~IsCommitted(m[1])
      BY <1>0, <2>a, <2>b, <3>2 DEF WorkerOK, IsCommitted
    <3> QED
      BY <3>1, <3>2
  <2> QED
    BY <2>1, <2>2, <2>3 DEF Structure
<1>16. ASSUME NEW w \in Workers, MarkRunning(w) PROVE Structure'
  <2>1. TypeOK'
    BY <1>0, <1>16 DEF TypeOK, MarkRunning, Row, Hidden, Committed, Active, Terminal, WorkerOK
  <2>2. TxnOK'
    BY <1>0, <1>16 DEF TypeOK, TxnOK, MarkRunning, Inserting, Requeueing, IsCommitted, Row, Hidden, Committed, Active, Terminal, WorkerOK
  <2>3. WorkerOK'
    BY <1>0, <1>16 DEF TypeOK, WorkerOK, MarkRunning, IsCommitted, Row, Hidden, Committed, Active, Terminal
  <2>4. RowsOK'
    BY <1>0, <1>16 DEF TypeOK, RowsOK, MarkRunning, Row, Hidden, Committed, Active, Terminal, WorkerOK, IsCommitted
  <2>5. KeysUnique'
    BY <1>0, <1>16 DEF TypeOK, KeysUnique, Live, MarkRunning, IsCommitted, Row, Hidden, Committed, Active, Terminal, WorkerOK
  <2> QED
    BY <2>1, <2>2, <2>3, <2>4, <2>5 DEF Structure
<1>17. ASSUME NEW w \in Workers, FinishRun(w) PROVE Structure'
  <2> DEFINE r == worker[w].run
  <2>a. r \in Runs /\ IsCommitted(r) /\ r \in started
    BY <1>0, <1>17 DEF WorkerOK, FinishRun
  <2>b. PICK outcome \in Terminal : Write(r, outcome)
    BY <1>17 DEF FinishRun
  <2>c. Rest(w) /\ UNCHANGED <<usage, msgs, txn, replies, started, spent>>
    BY <1>17 DEF FinishRun
  <2> HIDE DEF r
  <2>d. /\ job' \in [Runs -> Row]
        /\ job'[r] = [status |-> outcome, call |-> job[r].call]
        /\ \A q \in Runs : q # r => job'[q] = job[q]
    BY <1>0, <2>a, <2>b, WriteEffect DEF Committed
  <2>e. job'[r].status \in Committed
    BY <2>d DEF Committed
  <2>f. /\ \A q \in Runs : IsCommitted(q) => IsCommitted(q)'
        /\ \A q \in Runs : job'[q].call = job[q].call
        /\ \A q \in Runs : job[q].status = "uncommitted" => job'[q] = job[q]
    BY <2>a, <2>d, <2>e DEF IsCommitted, Committed, Active, Terminal
  <2>1. TypeOK'
    BY <1>0, <2>c, <2>d, RestEffect DEF TypeOK
  <2>2. TxnOK'
    BY <1>0, <2>c, <2>f DEF TxnOK
  <2>3. WorkerOK'
    BY <1>0, <2>c, <2>f, RestEffect DEF WorkerOK
  <2>4. RowsOK'
    BY <1>0, <2>a, <2>c, <2>d DEF RowsOK, IsCommitted, Committed, Active, Terminal
  <2>5. KeysUnique'
    BY <1>0, <2>a, <2>d DEF KeysUnique, Live, IsCommitted
  <2> QED
    BY <2>1, <2>2, <2>3, <2>4, <2>5 DEF Structure
<1>18. ASSUME NEW w \in Workers, WorkerDbError(w) PROVE Structure'
  <2>a. /\ Rest(w) /\ spent["dbErrors"] < MaxDbErrors /\ Count("dbErrors")
        /\ UNCHANGED <<job, usage, txn, replies, started>>
    BY <1>18 DEF WorkerDbError
  <2>b. worker[w].run \in Runs
    BY <1>0, <1>18 DEF WorkerOK, WorkerDbError
  <2>c. msgs' \in [Message -> Nat]
    <3>1. CASE worker[w].tries < MaxRetries
      <4>1. worker[w].tries + 1 \in Tries
        BY <1>0, <3>1 DEF TypeOK, Tries
      <4>2. <<worker[w].run, worker[w].tries + 1>> \in Message
        BY <2>b, <4>1 DEF Message
      <4>3. Send(<<worker[w].run, worker[w].tries + 1>>)
        BY <1>18, <3>1 DEF WorkerDbError
      <4> QED
        BY <1>0, <4>2, <4>3 DEF TypeOK
    <3>2. CASE ~(worker[w].tries < MaxRetries)
      BY <1>0, <1>18, <3>2 DEF TypeOK, WorkerDbError
    <3> QED
      BY <3>1, <3>2
  <2>1. TypeOK'
    BY <1>0, <2>a, <2>c, RestEffect DEF TypeOK
  <2>2. TxnOK' /\ RowsOK' /\ KeysUnique'
    BY <1>0, <2>a DEF TxnOK, RowsOK, KeysUnique, Live, IsCommitted
  <2>3. WorkerOK'
    BY <1>0, <2>a, RestEffect DEF WorkerOK, IsCommitted
  <2> QED
    BY <2>1, <2>2, <2>3 DEF Structure
<1>19. ASSUME NEW w \in Workers, WorkerCrash(w) PROVE Structure'
  <2>a. /\ Rest(w) /\ spent["crashes"] < MaxCrashes /\ Count("crashes")
        /\ UNCHANGED <<job, usage, msgs, txn, replies, started>>
    BY <1>19 DEF WorkerCrash
  <2>1. TypeOK'
    BY <1>0, <2>a, RestEffect DEF TypeOK
  <2>2. TxnOK' /\ RowsOK' /\ KeysUnique'
    BY <1>0, <2>a DEF TxnOK, RowsOK, KeysUnique, Live, IsCommitted
  <2>3. WorkerOK'
    BY <1>0, <2>a, RestEffect DEF WorkerOK, IsCommitted
  <2> QED
    BY <2>1, <2>2, <2>3 DEF Structure
<1>20. ASSUME NEW m \in Message, Redeliver(m) PROVE Structure'
  <2>1. TypeOK'
    BY <1>0, <1>20 DEF TypeOK, Redeliver, Row, Hidden, Committed, Active, Terminal
  <2>2. TxnOK'
    BY <1>0, <1>20 DEF TypeOK, TxnOK, Redeliver, Inserting, Requeueing, IsCommitted, Row, Hidden, Committed, Active, Terminal
  <2>3. WorkerOK'
    BY <1>0, <1>20 DEF TypeOK, WorkerOK, Redeliver, IsCommitted, Row, Hidden, Committed, Active, Terminal
  <2>4. RowsOK'
    BY <1>0, <1>20 DEF TypeOK, RowsOK, Redeliver, Row, Hidden, Committed, Active, Terminal
  <2>5. KeysUnique'
    BY <1>0, <1>20 DEF TypeOK, KeysUnique, Live, Redeliver, IsCommitted, Row, Hidden, Committed, Active, Terminal
  <2> QED
    BY <2>1, <2>2, <2>3, <2>4, <2>5 DEF Structure
<1>21. CASE UNCHANGED vars
  BY <1>0, <1>21 DEF vars, Structure, TypeOK, TxnOK, WorkerOK, RowsOK, KeysUnique, Live, IsCommitted
<1> QED
  BY <1>1, <1>2, <1>3, <1>4, <1>5, <1>6, <1>7, <1>8, <1>9, <1>10, <1>11, <1>12, <1>13, <1>14, <1>15, <1>16, <1>17, <1>18, <1>19, <1>20, <1>21 DEF Next, TxnStep, WorkerStep

(* The structure holds in every reachable state: an inserting request owns *)
(* its row alone, and no two live rows of job_runs share a key.            *)
THEOREM StructureAlways == Spec => []Structure
BY StructureInit, StructureStep, PTL DEF Spec

(* The state always has its type: rows, messages, transactions, workers.   *)
THEOREM TypeCorrect == Spec => []TypeOK
<1>1. Structure => TypeOK
  BY DEF Structure
<1> QED
  BY <1>1, StructureAlways, PTL

----------------------------------------------------------------------------
(* Every step keeps the calls of committed rows and leaves them committed. *)
LEMMA CommittedStays ==
  ASSUME Structure, [Next]_vars, NEW r \in Runs, IsCommitted(r)
  PROVE  job'[r].status \in Committed /\ job'[r].call = job[r].call
<1>0. TypeOK /\ TxnOK /\ WorkerOK
  BY DEF Structure
<1>1. SUFFICES ASSUME job' # job
               PROVE  job'[r].status \in Committed /\ job'[r].call = job[r].call
  BY DEF IsCommitted
<1>2. ASSUME NEW t \in Txns, InsertRun(t) PROVE job'[r] = job[r]
  BY <1>0, <1>2 DEF InsertRun, TypeOK, IsCommitted, Committed, Active, Terminal
<1>3. ASSUME NEW t \in Txns, CommitNew(t)
      PROVE  job'[r].status \in Committed /\ job'[r].call = job[r].call
  <2>1. txn[t].run \in Runs /\ Write(txn[t].run, "queued")
    BY <1>0, <1>3 DEF TxnOK, CommitNew, Inserting
  <2> QED
    BY <1>0, <2>1, WriteEffect DEF IsCommitted, Committed, Active
<1>4. ASSUME NEW t \in Txns, CommitRequeued(t)
      PROVE  job'[r].status \in Committed /\ job'[r].call = job[r].call
  <2>1. txn[t].run \in Runs /\ Write(txn[t].run, "queued")
    BY <1>0, <1>4 DEF TxnOK, CommitRequeued, Requeueing
  <2> QED
    BY <1>0, <2>1, WriteEffect DEF IsCommitted, Committed, Active
<1>5. ASSUME NEW t \in Txns, Abort(t) PROVE job'[r] = job[r]
  <2>1. txn[t].run \in Runs /\ Write(txn[t].run, "rolledback")
    BY <1>0, <1>1, <1>5 DEF TxnOK, Abort, Inserting
  <2>2. job[txn[t].run].status = "uncommitted"
    <3>1. txn[t].pc \in Inserting
      BY <1>1, <1>5 DEF Abort, Inserting
    <3>2. job[txn[t].run] = [status |-> "uncommitted", call |-> txn[t].call]
      BY <1>0, <3>1 DEF TxnOK
    <3> QED
      BY <3>2
  <2>3. r # txn[t].run
    BY <2>2 DEF IsCommitted, Committed, Active, Terminal
  <2> QED
    BY <1>0, <2>1, <2>3, WriteEffect DEF Hidden
<1>6. ASSUME NEW w \in Workers, MarkRunning(w)
      PROVE  job'[r].status \in Committed /\ job'[r].call = job[r].call
  <2>1. worker[w].run \in Runs /\ Write(worker[w].run, "running")
    BY <1>0, <1>1, <1>6 DEF WorkerOK, MarkRunning
  <2> QED
    BY <1>0, <2>1, WriteEffect DEF IsCommitted, Committed, Active
<1>7. ASSUME NEW w \in Workers, FinishRun(w)
      PROVE  job'[r].status \in Committed /\ job'[r].call = job[r].call
  <2>1. worker[w].run \in Runs
    BY <1>0, <1>7 DEF WorkerOK, FinishRun
  <2>2. PICK outcome \in Terminal : Write(worker[w].run, outcome)
    BY <1>7 DEF FinishRun
  <2>3. outcome \in Hidden \cup Committed /\ outcome \in Committed
    BY DEF Committed
  <2>4. /\ job'[worker[w].run].status = outcome
        /\ \A q \in Runs : job'[q].call = job[q].call
        /\ \A q \in Runs : q # worker[w].run => job'[q] = job[q]
    BY <1>0, <2>1, <2>2, <2>3, WriteEffect
  <2> QED
    BY <2>3, <2>4 DEF IsCommitted
<1> QED
  BY <1>1, <1>2, <1>3, <1>4, <1>5, <1>6, <1>7
  DEF Next, TxnStep, WorkerStep, vars, db, BeginCall, FindNone, ReturnExisting, FindFailed,
      SendRequeued, FlushRequeued, CheckQuota, AssertQueueCapacity, RejectCall, SendNew,
      Receive, WorkerDbError, WorkerCrash, Redeliver, IsCommitted

(* A new reply names a row that the step leaves committed under the key.   *)
LEMMA RepliesGrow ==
  ASSUME Structure, [Next]_vars, NEW p \in replies', p \notin replies
  PROVE  /\ p.run \in Runs
         /\ p.key # NoKey
         /\ job'[p.run].status \in Committed
         /\ job'[p.run].call.ws = p.ws
         /\ job'[p.run].call.key = p.key
<1>0. TypeOK /\ TxnOK
  BY DEF Structure
<1>1. ASSUME NEW t \in Txns, NEW r \in Runs, Reply(t, r), txn[t].pc # "idle"
      PROVE  p.run = r /\ p.key = txn[t].call.key /\ p.ws = txn[t].call.ws /\ p.key # NoKey
  BY <1>0, <1>1, ReplyEffect
<1>2. ASSUME NEW t \in Txns, ReturnExisting(t)
      PROVE  /\ p.run \in Runs /\ p.key # NoKey /\ IsCommitted(p.run)
             /\ job[p.run].call.ws = p.ws /\ job[p.run].call.key = p.key
  BY <1>1, <1>2 DEF ReturnExisting, Existing
<1>3. ASSUME NEW t \in Txns, CommitNew(t)
      PROVE  /\ p.run \in Runs /\ p.key # NoKey /\ job'[p.run].status \in Committed
             /\ job'[p.run].call.ws = p.ws /\ job'[p.run].call.key = p.key
  <2>1. /\ txn[t].run \in Runs /\ Write(txn[t].run, "queued") /\ Reply(t, txn[t].run)
        /\ txn[t].pc # "idle" /\ job[txn[t].run] = [status |-> "uncommitted", call |-> txn[t].call]
    BY <1>0, <1>3 DEF TxnOK, CommitNew, Inserting
  <2>2. /\ job'[txn[t].run].status = "queued"
        /\ job'[txn[t].run].call = job[txn[t].run].call
    BY <1>0, <2>1, WriteEffect DEF Committed, Active
  <2>3. p.run = txn[t].run /\ p.key = txn[t].call.key /\ p.ws = txn[t].call.ws /\ p.key # NoKey
    BY <1>1, <2>1
  <2> QED
    BY <2>1, <2>2, <2>3 DEF Committed, Active
<1>4. ASSUME NEW t \in Txns, CommitRequeued(t)
      PROVE  /\ p.run \in Runs /\ p.key # NoKey /\ job'[p.run].status \in Committed
             /\ job'[p.run].call.ws = p.ws /\ job'[p.run].call.key = p.key
  <2>1. /\ txn[t].run \in Runs /\ Write(txn[t].run, "queued") /\ Reply(t, txn[t].run)
        /\ txn[t].pc # "idle"
        /\ job[txn[t].run].call.key = txn[t].call.key
        /\ job[txn[t].run].call.ws = txn[t].call.ws
    BY <1>0, <1>4 DEF TxnOK, CommitRequeued, Requeueing
  <2>2. /\ job'[txn[t].run].status = "queued"
        /\ job'[txn[t].run].call = job[txn[t].run].call
    BY <1>0, <2>1, WriteEffect DEF Committed, Active
  <2>3. p.run = txn[t].run /\ p.key = txn[t].call.key /\ p.ws = txn[t].call.ws /\ p.key # NoKey
    BY <1>1, <2>1
  <2> QED
    BY <2>1, <2>2, <2>3 DEF Committed, Active
<1>5. CASE \E t \in Txns : ReturnExisting(t)
  BY <1>2, <1>5, CommittedStays DEF IsCommitted
<1>6. CASE ~ \E t \in Txns : ReturnExisting(t) \/ CommitNew(t) \/ CommitRequeued(t)
  BY <1>6
  DEF Next, TxnStep, WorkerStep, vars, ghosts, BeginCall, FindNone, FindFailed,
      SendRequeued, FlushRequeued, CheckQuota, AssertQueueCapacity, RejectCall, InsertRun,
      SendNew, Abort, Receive, MarkRunning, FinishRun, WorkerDbError, WorkerCrash, Redeliver
<1> QED
  BY <1>3, <1>4, <1>5, <1>6

(* enqueue_job is idempotent: whoever uses a key in a workspace is told of *)
(* one and the same run, however requests, requeues and workers interleave.*)
THEOREM IdempotentEnqueue == Spec => []IdempotentReply
<1>1. Init => IdempotentReply
  BY DEF Init, IdempotentReply
<1>2. ASSUME Structure, IdempotentReply, [Next]_vars PROVE IdempotentReply'
  <2>0. TypeOK /\ Structure'
    BY <1>2, StructureStep DEF Structure
  <2>1. \A p \in replies' : /\ p.run \in Runs
                            /\ p.key # NoKey
                            /\ job'[p.run].status \in Committed
                            /\ job'[p.run].call.ws = p.ws
                            /\ job'[p.run].call.key = p.key
    <3> SUFFICES ASSUME NEW p \in replies'
                 PROVE  /\ p.run \in Runs
                        /\ p.key # NoKey
                        /\ job'[p.run].status \in Committed
                        /\ job'[p.run].call.ws = p.ws
                        /\ job'[p.run].call.key = p.key
      OBVIOUS
    <3>1. CASE p \in replies
      <4>1. p.run \in Runs /\ p.key # NoKey
        BY <2>0, <3>1, JobQueueAssumption DEF TypeOK
      <4>2. IsCommitted(p.run) /\ job[p.run].call.ws = p.ws /\ job[p.run].call.key = p.key
        BY <1>2, <3>1 DEF IdempotentReply
      <4> QED
        BY <1>2, <4>1, <4>2, CommittedStays
    <3>2. CASE p \notin replies
      BY <1>2, <3>2, RepliesGrow
    <3> QED
      BY <3>1, <3>2
  <2>2. \A r, q \in Runs :
           (/\ job'[r].status \in Committed /\ job'[q].status \in Committed
            /\ job'[r].call.key # NoKey /\ job'[r].call.key = job'[q].call.key) => r = q
    BY <2>0 DEF Structure, KeysUnique, Live, IsCommitted
  <2> QED
    BY <2>1, <2>2 DEF IdempotentReply, IsCommitted
<1> QED
  BY <1>1, <1>2, StructureAlways, PTL DEF Spec

----------------------------------------------------------------------------
(* Only the commit of a new run makes a row committed.                     *)
LEMMA BecomesCommitted ==
  ASSUME Structure, [Next]_vars, NEW r \in Runs, ~IsCommitted(r), job'[r].status \in Committed
  PROVE  \E t \in Txns : CommitNew(t) /\ r = txn[t].run
<1>0. TypeOK /\ TxnOK /\ WorkerOK
  BY DEF Structure
<1>1. job' # job
  BY DEF IsCommitted
<1>2. ASSUME NEW t \in Txns, InsertRun(t) PROVE FALSE
  <2>1. \A q \in Runs : job'[q] = job[q] \/ job'[q].status = "uncommitted"
    BY <1>0, <1>2 DEF InsertRun, TypeOK
  <2> QED
    BY <2>1 DEF IsCommitted, Committed, Active, Terminal
<1>3. ASSUME NEW t \in Txns, CommitNew(t) PROVE r = txn[t].run
  <2>1. txn[t].run \in Runs /\ Write(txn[t].run, "queued")
    BY <1>0, <1>3 DEF TxnOK, CommitNew, Inserting
  <2>2. \A q \in Runs : q # txn[t].run => job'[q] = job[q]
    BY <1>0, <2>1, WriteEffect DEF Committed, Active
  <2> QED
    BY <2>2 DEF IsCommitted
<1>4. ASSUME NEW t \in Txns, CommitRequeued(t) PROVE FALSE
  <2>1. /\ txn[t].run \in Runs /\ IsCommitted(txn[t].run) /\ Write(txn[t].run, "queued")
    BY <1>0, <1>4 DEF TxnOK, CommitRequeued, Requeueing
  <2>2. \A q \in Runs : q # txn[t].run => job'[q] = job[q]
    BY <1>0, <2>1, WriteEffect DEF Committed, Active
  <2> QED
    BY <2>1, <2>2 DEF IsCommitted
<1>5. ASSUME NEW t \in Txns, Abort(t) PROVE FALSE
  <2>1. txn[t].run \in Runs /\ Write(txn[t].run, "rolledback")
    BY <1>0, <1>1, <1>5 DEF TxnOK, Abort, Inserting
  <2>2. /\ \A q \in Runs : q # txn[t].run => job'[q] = job[q]
        /\ job'[txn[t].run].status = "rolledback"
    BY <1>0, <2>1, WriteEffect DEF Hidden
  <2> QED
    BY <2>2 DEF IsCommitted, Committed, Active, Terminal
<1>6. ASSUME NEW w \in Workers, MarkRunning(w) PROVE FALSE
  <2>1. worker[w].run \in Runs /\ IsCommitted(worker[w].run) /\ Write(worker[w].run, "running")
    BY <1>0, <1>1, <1>6 DEF WorkerOK, MarkRunning
  <2>2. \A q \in Runs : q # worker[w].run => job'[q] = job[q]
    BY <1>0, <2>1, WriteEffect DEF Committed, Active
  <2> QED
    BY <2>1, <2>2 DEF IsCommitted
<1>7. ASSUME NEW w \in Workers, FinishRun(w) PROVE FALSE
  <2>1. worker[w].run \in Runs /\ IsCommitted(worker[w].run)
    BY <1>0, <1>7 DEF WorkerOK, FinishRun
  <2>2. PICK outcome \in Terminal : Write(worker[w].run, outcome)
    BY <1>7 DEF FinishRun
  <2>3. outcome \in Hidden \cup Committed
    BY DEF Committed
  <2>4. \A q \in Runs : q # worker[w].run => job'[q] = job[q]
    BY <1>0, <2>1, <2>2, <2>3, WriteEffect
  <2> QED
    BY <2>1, <2>4 DEF IsCommitted
<1> QED
  BY <1>1, <1>2, <1>3, <1>4, <1>5, <1>6, <1>7
  DEF Next, TxnStep, WorkerStep, vars, db, BeginCall, FindNone, ReturnExisting, FindFailed,
      SendRequeued, FlushRequeued, CheckQuota, AssertQueueCapacity, RejectCall, SendNew,
      Receive, WorkerDbError, WorkerCrash, Redeliver

(* Only the commit of a new run charges.                                   *)
LEMMA UsageSteady ==
  ASSUME [Next]_vars, ~ \E t \in Txns : CommitNew(t)
  PROVE  usage' = usage
BY DEF Next, TxnStep, WorkerStep, vars, db, BeginCall, FindNone, ReturnExisting, FindFailed,
   SendRequeued, FlushRequeued, CheckQuota, AssertQueueCapacity, RejectCall, InsertRun, SendNew,
   CommitRequeued, Abort, Receive, MarkRunning, FinishRun, WorkerDbError, WorkerCrash, Redeliver

(* Usage is charged once per committed metered run, never for a lost race, *)
(* a rolled back request, a requeue, a retry or a second execution.        *)
THEOREM ChargedExactlyOnce == Spec => []ChargedOnce
<1>1. Init => ChargedOnce
  BY DEF Init, ChargedOnce, IsCommitted, Committed, Active, Terminal
<1>2. ASSUME Structure, ChargedOnce, [Next]_vars PROVE ChargedOnce'
  <2> DEFINE Event(r) == [ws |-> job[r].call.ws, key |-> UsageKey(r)]
  <2>0. TypeOK /\ TxnOK /\ Structure'
    BY <1>2, StructureStep DEF Structure
  <2>1. \A r \in Runs : IsCommitted(r) =>
           job'[r].status \in Committed /\ job'[r].call = job[r].call
    BY <1>2, CommittedStays
  <2>2. ASSUME NEW t \in Txns, CommitNew(t)
        PROVE  /\ txn[t].run \in Runs
               /\ job'[txn[t].run].status \in Committed
               /\ job'[txn[t].run].call = job[txn[t].run].call
               /\ job[txn[t].run].call.metered => usage' = usage \cup {Event(txn[t].run)}
               /\ ~job[txn[t].run].call.metered => usage' = usage
    <3>1. /\ txn[t].run \in Runs /\ Write(txn[t].run, "queued")
          /\ job[txn[t].run] = [status |-> "uncommitted", call |-> txn[t].call]
          /\ txn[t].call \in Calls
      BY <2>0, <2>2 DEF TxnOK, CommitNew, Inserting
    <3>2. /\ job'[txn[t].run].status \in Committed
          /\ job'[txn[t].run].call = job[txn[t].run].call
      BY <2>0, <3>1, WriteEffect DEF Committed, Active
    <3>3. ASSUME NEW u \in usage, u.key = UsageKey(txn[t].run) PROVE FALSE
      <4>1. PICK q \in Runs : IsCommitted(q) /\ u.key = UsageKey(q)
        BY <1>2, <3>3 DEF ChargedOnce
      <4>2. ~IsCommitted(txn[t].run)
        BY <3>1 DEF IsCommitted, Committed, Active, Terminal
      <4>3. job[q].call \in Calls
        BY <1>2, <4>1 DEF Structure, RowsOK, IsCommitted, Committed, Active, Terminal
      <4>4. job[q].call.key \in Keys \cup {NoKey} /\ txn[t].call.key \in Keys \cup {NoKey}
        BY <3>1, <4>3, JobQueueAssumption
      <4>5. UsageKey(q) = UsageKey(txn[t].run)
        BY <3>3, <4>1
      <4>6. job[txn[t].run].call.key = txn[t].call.key /\ job[txn[t].run].status = "uncommitted"
        BY <3>1
      <4>7. CASE job[q].call.key = NoKey \/ txn[t].call.key = NoKey
        BY <3>1, <4>1, <4>2, <4>4, <4>5, <4>6, <4>7, JobQueueAssumption DEF UsageKey
      <4>8. CASE job[q].call.key # NoKey /\ txn[t].call.key # NoKey
        <5>1. job[q].call.key = job[txn[t].run].call.key
          BY <4>5, <4>6, <4>8 DEF UsageKey
        <5>2. Live(q) /\ Live(txn[t].run)
          BY <4>1, <4>6 DEF Live
        <5> QED
          BY <1>2, <3>1, <4>1, <4>2, <4>8, <5>1, <5>2 DEF Structure, KeysUnique
      <4> QED
        BY <4>7, <4>8
    <3> QED
      BY <2>2, <3>1, <3>2, <3>3 DEF CommitNew
  <2>3. ASSUME NEW r \in Runs, IsCommitted(r)', job'[r].call.metered
        PROVE  [ws |-> job[r].call.ws, key |-> UsageKey(r)]' \in usage'
    <3>1. CASE IsCommitted(r)
      <4>1. Event(r)' = Event(r) /\ job[r].call.metered
        BY <2>1, <2>3, <3>1 DEF UsageKey
      <4>2. Event(r) \in usage
        BY <1>2, <3>1, <4>1 DEF ChargedOnce
      <4>3. usage \subseteq usage'
        BY <1>2, <2>2, UsageSteady
      <4> QED
        BY <4>1, <4>2, <4>3
    <3>2. CASE ~IsCommitted(r)
      <4>1. PICK t \in Txns : CommitNew(t) /\ r = txn[t].run
        BY <1>2, <2>3, <3>2, BecomesCommitted DEF IsCommitted
      <4>2. Event(r)' = Event(r) /\ job[r].call.metered /\ Event(r) \in usage'
        BY <2>2, <2>3, <4>1 DEF UsageKey
      <4> QED
        BY <4>2
    <3> QED
      BY <3>1, <3>2
  <2>4. ASSUME NEW u \in usage'
        PROVE  \E r \in Runs : /\ job'[r].status \in Committed
                               /\ job'[r].call.metered
                               /\ u = [ws |-> job[r].call.ws, key |-> UsageKey(r)]'
    <3>1. CASE u \in usage
      <4>1. PICK r \in Runs : IsCommitted(r) /\ job[r].call.metered /\ u = Event(r)
        BY <1>2, <3>1 DEF ChargedOnce
      <4> QED
        BY <2>1, <4>1 DEF UsageKey
    <3>2. CASE u \notin usage
      <4>1. PICK t \in Txns : CommitNew(t)
        BY <1>2, <2>4, <3>2, UsageSteady
      <4>2. job[txn[t].run].call.metered /\ u = Event(txn[t].run)
        BY <2>2, <2>4, <3>2, <4>1
      <4>3. PICK r \in Runs : r = txn[t].run
        BY <2>2, <4>1
      <4> QED
        BY <2>2, <4>1, <4>2, <4>3 DEF UsageKey
    <3> QED
      BY <3>1, <3>2
  <2>5. \A r, q \in Runs :
           (IsCommitted(r)' /\ IsCommitted(q)' /\ UsageKey(r)' = UsageKey(q)') => r = q
    <3> SUFFICES ASSUME NEW r \in Runs, NEW q \in Runs, IsCommitted(r)', IsCommitted(q)',
                        UsageKey(r)' = UsageKey(q)'
                 PROVE  r = q
      OBVIOUS
    <3>1. job'[r].call \in Calls /\ job'[q].call \in Calls
      BY <2>0 DEF Structure, RowsOK, IsCommitted, Committed, Active, Terminal
    <3>2. job'[r].call.key \in Keys \cup {NoKey} /\ job'[q].call.key \in Keys \cup {NoKey}
      BY <3>1, JobQueueAssumption
    <3>3. CASE job'[r].call.key = NoKey \/ job'[q].call.key = NoKey
      BY <3>2, <3>3, JobQueueAssumption DEF UsageKey
    <3>4. CASE job'[r].call.key # NoKey /\ job'[q].call.key # NoKey
      <4>1. job'[r].call.key = job'[q].call.key
        BY <3>4 DEF UsageKey
      <4>2. Live(r)' /\ Live(q)'
        BY DEF Live
      <4> QED
        BY <2>0, <3>4, <4>1, <4>2 DEF Structure, KeysUnique
    <3> QED
      BY <3>3, <3>4
  <2> QED
    BY <2>3, <2>4, <2>5 DEF ChargedOnce, IsCommitted
<1> QED
  BY <1>1, <1>2, StructureAlways, PTL DEF Spec

----------------------------------------------------------------------------
(* How a transaction comes to have a claim on a limit: it checked it in    *)
(* this very step, or it had the claim before.                             *)
LEMMA ClaimsOrigin ==
  ASSUME Structure, [Next]_vars, NEW u \in Txns,
         txn'[u].pc \in {"capacity", "insert"} \cup Inserting
  PROVE  /\ txn'[u].call = txn[u].call
         /\ \/ txn'[u].pc = "capacity" /\ (CheckQuota(u) \/ txn[u].pc = "capacity" \/ ~txn[u].call.metered)
            \/ txn'[u].pc = "insert" /\ (txn[u].pc = "insert" \/ AssertQueueCapacity(u))
            \/ txn'[u].pc \in Inserting /\ txn[u].pc \in {"insert"} \cup Inserting
<1> DEFINE Goal == /\ txn'[u].call = txn[u].call
                   /\ \/ txn'[u].pc = "capacity" /\ (CheckQuota(u) \/ txn[u].pc = "capacity" \/ ~txn[u].call.metered)
                      \/ txn'[u].pc = "insert" /\ (txn[u].pc = "insert" \/ AssertQueueCapacity(u))
                      \/ txn'[u].pc \in Inserting /\ txn[u].pc \in {"insert"} \cup Inserting
<1>0. TypeOK
  BY DEF Structure
<1>1. CASE txn'[u] = txn[u]
  BY <1>1 DEF Inserting
<1>2. ASSUME NEW t \in Txns, NEW pc, NEW r, GotoWith(t, pc, r), t # u PROVE txn'[u] = txn[u]
  BY <1>0, <1>2 DEF TypeOK, GotoWith
<1>3. ASSUME NEW t \in Txns, Close(t) PROVE txn'[u] = txn[u]
  BY <1>0, <1>3, CloseEffect DEF Inserting
<1>4. ASSUME NEW pc, NEW r, GotoWith(u, pc, r) PROVE txn'[u].pc = pc /\ txn'[u].call = txn[u].call
  BY <1>0, <1>4 DEF TypeOK, GotoWith
<1>5. ASSUME NEW t \in Txns, BeginCall(t) PROVE txn'[u] = txn[u]
  BY <1>0, <1>5 DEF TypeOK, BeginCall, Inserting
<1>6. ASSUME NEW t \in Txns, TxnStep(t) PROVE Goal
  <2>1. CASE FindNone(t)
    <3>1. CASE t = u
      BY <1>4, <2>1, <3>1 DEF FindNone, Goto, Inserting
    <3> QED
      BY <1>1, <1>2, <2>1, <3>1 DEF FindNone, Goto
  <2>2. CASE ReturnExisting(t) \/ RejectCall(t) \/ CommitNew(t) \/ CommitRequeued(t)
    BY <1>1, <1>3, <2>2 DEF ReturnExisting, RejectCall, CommitNew, CommitRequeued
  <2>3. CASE FindFailed(t) \/ SendRequeued(t) \/ FlushRequeued(t)
    BY <1>1, <1>2, <1>4, <2>3 DEF FindFailed, SendRequeued, FlushRequeued, Goto, Inserting
  <2>4. CASE CheckQuota(t)
    BY <1>1, <1>2, <1>4, <2>4 DEF CheckQuota, Goto
  <2>5. CASE AssertQueueCapacity(t)
    BY <1>1, <1>2, <1>4, <2>5 DEF AssertQueueCapacity, Goto
  <2>6. CASE InsertRun(t)
    BY <1>1, <1>2, <1>4, <2>6 DEF InsertRun, Inserting
  <2>7. CASE SendNew(t)
    BY <1>1, <1>2, <1>4, <2>7 DEF SendNew, Goto, Inserting
  <2> QED
    BY <1>6, <2>1, <2>2, <2>3, <2>4, <2>5, <2>6, <2>7 DEF TxnStep
<1>7. ASSUME NEW t \in Txns, Abort(t) PROVE txn'[u] = txn[u]
  BY <1>3, <1>7 DEF Abort
<1> HIDE DEF Goal
<1>8. Goal
  <2>1. CASE \E t \in Txns : BeginCall(t) \/ TxnStep(t) \/ Abort(t)
    BY <1>1, <1>5, <1>6, <1>7, <2>1 DEF Goal
  <2>2. CASE ~ \E t \in Txns : BeginCall(t) \/ TxnStep(t) \/ Abort(t)
    <3>1. txn' = txn
      BY <2>2 DEF Next, WorkerStep, vars, Receive, MarkRunning, FinishRun, WorkerDbError,
                  WorkerCrash, Redeliver
    <3> QED
      BY <1>1, <3>1 DEF Goal
  <2> QED
    BY <2>1, <2>2
<1> QED
  BY <1>8 DEF Goal

(* Only the commit of a new run adds to the backlog.                       *)
LEMMA BacklogOrigin ==
  ASSUME Structure, [Next]_vars, NEW r \in Runs, job'[r].status = "queued", r \notin started'
  PROVE  /\ job'[r].call = job[r].call
         /\ \/ job[r].status = "queued" /\ r \notin started
            \/ \E t \in Txns : CommitNew(t) /\ r = txn[t].run
<1>0. TypeOK /\ TxnOK /\ WorkerOK /\ RowsOK
  BY DEF Structure
<1>1. r \notin started
  BY DEF Next, TxnStep, WorkerStep, vars, ghosts, BeginCall, FindNone, ReturnExisting, FindFailed,
     SendRequeued, FlushRequeued, CheckQuota, AssertQueueCapacity, RejectCall, InsertRun, SendNew,
     CommitNew, CommitRequeued, Abort, Receive, MarkRunning, FinishRun, WorkerDbError,
     WorkerCrash, Redeliver
<1>2. CASE ~IsCommitted(r)
  <2>1. PICK t \in Txns : CommitNew(t) /\ r = txn[t].run
    BY <1>2, BecomesCommitted DEF Committed, Active
  <2>2. txn[t].run \in Runs /\ Write(txn[t].run, "queued")
    BY <1>0, <2>1 DEF TxnOK, CommitNew, Inserting
  <2> QED
    BY <1>0, <2>1, <2>2, WriteEffect DEF Committed, Active
<1>3. CASE IsCommitted(r)
  <2>1. job[r].status = "queued"
    BY <1>0, <1>1, <1>3 DEF RowsOK, IsCommitted, Committed, Active
  <2> QED
    BY <1>1, <1>3, <2>1, CommittedStays
<1> QED
  BY <1>2, <1>3

(* The sets that are counted are finite.                                   *)
LEMMA CountedSets ==
  ASSUME TypeOK, IsFiniteSet(usage), NEW ws \in Workspaces
  PROVE  /\ IsFiniteSet(Backlog(ws)) /\ IsFiniteSet(Pending(ws)) /\ IsFiniteSet(Used(ws))
         /\ IsFiniteSet(QueueClaims(ws)) /\ IsFiniteSet(QuotaClaims(ws))
         /\ Cardinality(QueueClaims(ws)) <= Cardinality(Txns)
         /\ Cardinality(QuotaClaims(ws)) <= Cardinality(Txns)
         /\ Cardinality(Backlog(ws)) <= Cardinality(Pending(ws))
<1>1. /\ QueueClaims(ws) \subseteq Txns /\ QuotaClaims(ws) \subseteq Txns
      /\ Pending(ws) \subseteq Runs /\ Backlog(ws) \subseteq Pending(ws)
      /\ Used(ws) \subseteq usage
  BY DEF QueueClaims, QuotaClaims, Pending, Backlog, Used, Active
<1> QED
  BY <1>1, JobQueueAssumption, FS_Subset

(* The two counts that move together: nothing is added to either; else one *)
(* element is added to the first (AtMostOneMore) and one claim leaves the  *)
(* second (AtLeastOneLess).                                                *)
LEMMA ClaimsShrink ==
  ASSUME NEW A, NEW C, IsFiniteSet(A), IsFiniteSet(C),
         NEW A2 \in SUBSET A, NEW C2 \in SUBSET C, NEW n \in Int,
         Cardinality(A) + Cardinality(C) <= n
  PROVE  /\ IsFiniteSet(A2) /\ IsFiniteSet(C2)
         /\ Cardinality(A2) + Cardinality(C2) <= n
<1>1. /\ IsFiniteSet(A2) /\ Cardinality(A2) <= Cardinality(A)
      /\ IsFiniteSet(C2) /\ Cardinality(C2) <= Cardinality(C)
  BY FS_Subset
<1>2. /\ Cardinality(A2) \in Nat /\ Cardinality(C2) \in Nat
      /\ Cardinality(A) \in Nat /\ Cardinality(C) \in Nat
  BY <1>1, FS_CardinalityType
<1> QED
  BY <1>1, <1>2

(* The backlog and the queue claims: a check finds room for every claim    *)
(* there can be, and otherwise a claim becomes at most one row.            *)
LEMMA BacklogStep ==
  ASSUME Structure, Limits, [Next]_vars, NEW ws \in Workspaces
  PROVE  Cardinality(Backlog(ws))' + Cardinality(QueueClaims(ws))' + 1
            <= MaxQueued + Cardinality(Txns)
<1>0. /\ TypeOK /\ TxnOK /\ IsFiniteSet(usage)
      /\ TypeOK'
      /\ Cardinality(Txns) \in Nat
  BY StructureStep, FS_CardinalityType, JobQueueAssumption DEF Structure, Limits
<1>1. CASE \E t \in Txns : AssertQueueCapacity(t) /\ txn[t].call.ws = ws
  <2>1. Cardinality(Pending(ws)) < MaxQueued
    BY <1>1 DEF AssertQueueCapacity
  <2>2. Backlog(ws)' = Backlog(ws)
    BY <1>1 DEF AssertQueueCapacity, Backlog, db, ghosts
  <2>3. /\ Cardinality(Backlog(ws)) <= Cardinality(Pending(ws))
        /\ Cardinality(Backlog(ws)) \in Nat /\ Cardinality(Pending(ws)) \in Nat
    BY <1>0, CountedSets, FS_CardinalityType
  <2>4. Cardinality(QueueClaims(ws)') <= Cardinality(Txns) /\ Cardinality(QueueClaims(ws)') \in Nat
    <3>1. QueueClaims(ws)' \subseteq Txns
      BY DEF QueueClaims
    <3> QED
      BY <3>1, FS_Subset, FS_CardinalityType, JobQueueAssumption
  <2> QED
    BY <1>0, <2>1, <2>2, <2>3, <2>4, JobQueueAssumption
<1>2. CASE ~ \E t \in Txns : AssertQueueCapacity(t) /\ txn[t].call.ws = ws
  <2>1. QueueClaims(ws)' \subseteq QueueClaims(ws)
    <3> SUFFICES ASSUME NEW u \in Txns, txn'[u].pc \in {"insert"} \cup Inserting,
                        txn'[u].call.ws = ws
                 PROVE  txn[u].pc \in {"insert"} \cup Inserting /\ txn[u].call.ws = ws
      BY DEF QueueClaims
    <3>1. txn'[u].call = txn[u].call
      BY ClaimsOrigin
    <3> QED
      BY <1>2, <3>1, ClaimsOrigin DEF Inserting
  <2>2. CASE \E t \in Txns : CommitNew(t)
    <3>1. PICK t \in Txns : CommitNew(t)
      BY <2>2
    <3>2. /\ txn[t].pc = "sent" /\ txn[t].run \in Runs /\ txn'[t].pc = "idle"
          /\ job[txn[t].run].call = txn[t].call
          /\ \A u \in Txns : (txn[u].pc \in Inserting /\ txn[u].run = txn[t].run) => u = t
      <4>1. txn[t].pc = "sent" /\ Close(t)
        BY <3>1 DEF CommitNew
      <4>2. job[txn[t].run] = [status |-> "uncommitted", call |-> txn[t].call]
        BY <1>0, <4>1 DEF TxnOK, Inserting
      <4> QED
        BY <1>0, <4>1, <4>2, CloseEffect DEF TxnOK, Inserting
    <3>3. \A u \in Txns : (CommitNew(u) /\ txn[u].run = txn[t].run) => u = t
      BY <3>2 DEF CommitNew, Inserting
    <3>4. \A r \in Backlog(ws)' : r \in Backlog(ws) \/ (\E u \in Txns : CommitNew(u) /\ r = txn[u].run)
      BY BacklogOrigin DEF Backlog
    <3>5. ASSUME NEW u \in Txns, CommitNew(u) PROVE u = t
      <4>1. txn'[u].pc = "idle" /\ txn[u].pc # "idle"
        BY <1>0, <3>5, CloseEffect DEF CommitNew
      <4>2. \A v \in Txns : v # t => txn'[v] = txn[v]
        BY <1>0, <3>1, CloseEffect DEF CommitNew
      <4> QED
        BY <4>1, <4>2
    <3>6. Backlog(ws)' \subseteq Backlog(ws) \cup {txn[t].run}
      BY <3>4, <3>5
    <3>7. CASE txn[t].call.ws = ws
      <4>1. t \in QueueClaims(ws)
        BY <3>2, <3>7 DEF QueueClaims, Inserting
      <4>2. t \notin QueueClaims(ws)'
        BY <3>2 DEF QueueClaims, Inserting
      <4>3. QueueClaims(ws)' \subseteq QueueClaims(ws) \ {t}
        BY <2>1, <4>2
      <4>4. Cardinality(Backlog(ws)) + Cardinality(QueueClaims(ws)) <= MaxQueued + Cardinality(Txns) - 1
        BY <1>0, CountedSets, FS_CardinalityType, JobQueueAssumption DEF Limits
      <4>5. /\ IsFiniteSet(Backlog(ws)') /\ IsFiniteSet(QueueClaims(ws)')
            /\ Cardinality(Backlog(ws)') + Cardinality(QueueClaims(ws)') <= MaxQueued + Cardinality(Txns) - 1
        <5>1. IsFiniteSet(Backlog(ws)) /\ IsFiniteSet(QueueClaims(ws))
          BY <1>0, CountedSets
        <5>2. /\ IsFiniteSet(Backlog(ws)')
              /\ Cardinality(Backlog(ws)') <= Cardinality(Backlog(ws)) + 1
          BY <3>6, <5>1, AtMostOneMore
        <5>3. /\ IsFiniteSet(QueueClaims(ws)')
              /\ Cardinality(QueueClaims(ws)') <= Cardinality(QueueClaims(ws)) - 1
          BY <4>1, <4>3, <5>1, AtLeastOneLess
        <5>4. /\ Cardinality(Backlog(ws)') \in Nat /\ Cardinality(QueueClaims(ws)') \in Nat
              /\ Cardinality(Backlog(ws)) \in Nat /\ Cardinality(QueueClaims(ws)) \in Nat
          BY <5>1, <5>2, <5>3, FS_CardinalityType
        <5> QED
          BY <1>0, <4>4, <5>2, <5>3, <5>4, JobQueueAssumption
      <4> QED
        BY <1>0, <4>5, FS_CardinalityType, JobQueueAssumption
    <3>8. CASE txn[t].call.ws # ws
      <4>1. txn[t].run \notin Backlog(ws)'
        <5>1. txn[t].run \in Backlog(ws)' => job'[txn[t].run].call = job[txn[t].run].call
          BY <3>2, BacklogOrigin DEF Backlog
        <5> QED
          BY <3>2, <3>8, <5>1 DEF Backlog
      <4>2. Backlog(ws)' \subseteq Backlog(ws)
        BY <3>6, <4>1
      <4>4. Cardinality(Backlog(ws)) + Cardinality(QueueClaims(ws)) <= MaxQueued + Cardinality(Txns) - 1
        BY <1>0, CountedSets, FS_CardinalityType, JobQueueAssumption DEF Limits
      <4>5. /\ IsFiniteSet(Backlog(ws)') /\ IsFiniteSet(QueueClaims(ws)')
            /\ Cardinality(Backlog(ws)') + Cardinality(QueueClaims(ws)') <= MaxQueued + Cardinality(Txns) - 1
        BY <1>0, <2>1, <4>2, <4>4, CountedSets, ClaimsShrink, JobQueueAssumption
      <4> QED
        BY <1>0, <4>5, FS_CardinalityType, JobQueueAssumption
    <3> QED
      BY <3>7, <3>8
  <2>3. CASE ~ \E t \in Txns : CommitNew(t)
    <3>1. Backlog(ws)' \subseteq Backlog(ws)
      BY <2>3, BacklogOrigin DEF Backlog
    <3>2. Cardinality(Backlog(ws)) + Cardinality(QueueClaims(ws)) <= MaxQueued + Cardinality(Txns) - 1
      BY <1>0, CountedSets, FS_CardinalityType, JobQueueAssumption DEF Limits
    <3>3. /\ IsFiniteSet(Backlog(ws)') /\ IsFiniteSet(QueueClaims(ws)')
          /\ Cardinality(Backlog(ws)') + Cardinality(QueueClaims(ws)') <= MaxQueued + Cardinality(Txns) - 1
      BY <1>0, <2>1, <3>1, <3>2, CountedSets, ClaimsShrink, JobQueueAssumption
    <3> QED
      BY <1>0, <3>3, FS_CardinalityType, JobQueueAssumption
  <2> QED
    BY <2>2, <2>3
<1> QED
  BY <1>1, <1>2

(* The same for the usage events and the quota claims.                     *)
LEMMA QuotaStep ==
  ASSUME Structure, Limits, [Next]_vars, NEW ws \in Workspaces
  PROVE  /\ IsFiniteSet(usage')
         /\ Cardinality(Used(ws))' + Cardinality(QuotaClaims(ws))' + 1
               <= QuotaLimit + Cardinality(Txns)
<1>0. /\ TypeOK /\ TxnOK /\ IsFiniteSet(usage) /\ Cardinality(Txns) \in Nat
  BY FS_CardinalityType, JobQueueAssumption DEF Structure, Limits
<1>1. CASE \E t \in Txns : CheckQuota(t) /\ txn[t].call.ws = ws
  <2>1. Cardinality(Used(ws)) + 1 <= QuotaLimit
    BY <1>1 DEF CheckQuota
  <2>2. Used(ws)' = Used(ws) /\ usage' = usage
    BY <1>1 DEF CheckQuota, Used, db
  <2>3. Cardinality(Used(ws)) \in Nat
    BY <1>0, CountedSets, FS_CardinalityType
  <2>4. Cardinality(QuotaClaims(ws)') <= Cardinality(Txns) /\ Cardinality(QuotaClaims(ws)') \in Nat
    <3>1. QuotaClaims(ws)' \subseteq Txns
      BY DEF QuotaClaims
    <3> QED
      BY <3>1, FS_Subset, FS_CardinalityType, JobQueueAssumption
  <2> QED
    BY <1>0, <2>1, <2>2, <2>3, <2>4, JobQueueAssumption
<1>2. CASE ~ \E t \in Txns : CheckQuota(t) /\ txn[t].call.ws = ws
  <2>1. QuotaClaims(ws)' \subseteq QuotaClaims(ws)
    <3> SUFFICES ASSUME NEW u \in Txns, txn'[u].pc \in {"capacity", "insert"} \cup Inserting,
                        txn'[u].call.ws = ws, txn'[u].call.metered
                 PROVE  /\ txn[u].pc \in {"capacity", "insert"} \cup Inserting
                        /\ txn[u].call.ws = ws /\ txn[u].call.metered
      BY DEF QuotaClaims
    <3>1. txn'[u].call = txn[u].call
      BY ClaimsOrigin
    <3>2. AssertQueueCapacity(u) => txn[u].pc = "capacity"
      BY DEF AssertQueueCapacity
    <3> QED
      BY <1>2, <3>1, <3>2, ClaimsOrigin DEF Inserting
  <2>2. \/ usage' = usage
        \/ \E t \in QuotaClaims(ws) : /\ \E e : usage' = usage \cup {e}
                                      /\ t \notin QuotaClaims(ws)'
        \/ \E e : usage' = usage \cup {e} /\ e.ws # ws
    <3>1. CASE ~ \E t \in Txns : CommitNew(t)
      BY <3>1, UsageSteady
    <3>2. ASSUME NEW t \in Txns, CommitNew(t)
          PROVE  \/ usage' = usage
                 \/ \E c \in QuotaClaims(ws) : /\ \E e : usage' = usage \cup {e}
                                               /\ c \notin QuotaClaims(ws)'
                 \/ \E e : usage' = usage \cup {e} /\ e.ws # ws
      <4> DEFINE e == [ws |-> txn[t].call.ws, key |-> UsageKey(txn[t].run)]
      <4>1. txn[t].pc = "sent" /\ Close(t)
        BY <3>2 DEF CommitNew
      <4>2. job[txn[t].run] = [status |-> "uncommitted", call |-> txn[t].call] /\ txn'[t].pc = "idle"
        BY <1>0, <4>1, CloseEffect DEF TxnOK, Inserting
      <4>3. job[txn[t].run].call = txn[t].call
        BY <4>2
      <4>4. usage' = usage \/ (usage' = usage \cup {e} /\ txn[t].call.metered)
        BY <3>2, <4>3 DEF CommitNew
      <4>5. t \notin QuotaClaims(ws)'
        BY <4>2 DEF QuotaClaims, Inserting
      <4>6. (txn[t].call.metered /\ txn[t].call.ws = ws) => t \in QuotaClaims(ws)
        BY <4>1 DEF QuotaClaims, Inserting
      <4>7. e.ws = txn[t].call.ws
        OBVIOUS
      <4> HIDE DEF e
      <4> QED
        BY <4>4, <4>5, <4>6, <4>7
    <3> QED
      BY <3>1, <3>2
  <2>3. Cardinality(Used(ws)) + Cardinality(QuotaClaims(ws)) <= QuotaLimit + Cardinality(Txns) - 1
    BY <1>0, CountedSets, FS_CardinalityType, JobQueueAssumption DEF Limits
  <2>4. IsFiniteSet(Used(ws)) /\ IsFiniteSet(QuotaClaims(ws))
    BY <1>0, CountedSets
  <2>5. IsFiniteSet(usage')
    BY <1>0, <2>2, FS_AddElement
  <2>6. \/ Used(ws)' \subseteq Used(ws) /\ QuotaClaims(ws)' \subseteq QuotaClaims(ws)
        \/ \E x, c : /\ Used(ws)' \subseteq Used(ws) \cup {x}
                     /\ c \in QuotaClaims(ws)
                     /\ QuotaClaims(ws)' \subseteq QuotaClaims(ws) \ {c}
    BY <2>1, <2>2 DEF Used
  <2>7. /\ IsFiniteSet(Used(ws)') /\ IsFiniteSet(QuotaClaims(ws)')
        /\ Cardinality(Used(ws)') + Cardinality(QuotaClaims(ws)') <= QuotaLimit + Cardinality(Txns) - 1
    <3>1. QuotaLimit + Cardinality(Txns) - 1 \in Int
      BY <1>0, JobQueueAssumption
    <3>2. CASE Used(ws)' \subseteq Used(ws) /\ QuotaClaims(ws)' \subseteq QuotaClaims(ws)
      BY <2>3, <2>4, <3>1, <3>2, ClaimsShrink
    <3>3. ASSUME NEW x, NEW c \in QuotaClaims(ws),
                 Used(ws)' \subseteq Used(ws) \cup {x},
                 QuotaClaims(ws)' \subseteq QuotaClaims(ws) \ {c}
          PROVE  /\ IsFiniteSet(Used(ws)') /\ IsFiniteSet(QuotaClaims(ws)')
                 /\ Cardinality(Used(ws)') + Cardinality(QuotaClaims(ws)')
                       <= QuotaLimit + Cardinality(Txns) - 1
      <4>1. IsFiniteSet(Used(ws)') /\ Cardinality(Used(ws)') <= Cardinality(Used(ws)) + 1
        BY <2>4, <3>3, AtMostOneMore
      <4>2. /\ IsFiniteSet(QuotaClaims(ws)')
            /\ Cardinality(QuotaClaims(ws)') <= Cardinality(QuotaClaims(ws)) - 1
        BY <2>4, <3>3, AtLeastOneLess
      <4>3. /\ Cardinality(Used(ws)') \in Nat /\ Cardinality(QuotaClaims(ws)') \in Nat
            /\ Cardinality(Used(ws)) \in Nat /\ Cardinality(QuotaClaims(ws)) \in Nat
        BY <2>4, <4>1, <4>2, FS_CardinalityType
      <4> QED
        BY <1>0, <2>3, <4>1, <4>2, <4>3, JobQueueAssumption
    <3> QED
      BY <2>6, <3>2, <3>3
  <2> QED
    BY <1>0, <2>5, <2>7, FS_CardinalityType, JobQueueAssumption
<1> QED
  BY <1>1, <1>2

(* Check-then-insert without locks lets a workspace overshoot its limits,  *)
(* by less than the number of transactions open at once.                   *)
LEMMA LimitsAlways == Spec => []Limits
<1>1. Init => Limits
  <2> SUFFICES ASSUME Init PROVE Limits
    OBVIOUS
  <2>1. /\ usage = {} /\ IsFiniteSet({}) /\ Cardinality({}) = 0
        /\ \A ws \in Workspaces : /\ Backlog(ws) = {} /\ QueueClaims(ws) = {}
                                  /\ Used(ws) = {} /\ QuotaClaims(ws) = {}
    BY FS_EmptySet DEF Init, Backlog, QueueClaims, Used, QuotaClaims, Inserting, IdleTxn
  <2>2. Cardinality(Txns) \in Nat /\ Cardinality(Txns) # 0
    BY FS_EmptySet, FS_CardinalityType, JobQueueAssumption
  <2>3. ASSUME NEW ws \in Workspaces
        PROVE  /\ Cardinality(Backlog(ws)) = 0 /\ Cardinality(QueueClaims(ws)) = 0
               /\ Cardinality(Used(ws)) = 0 /\ Cardinality(QuotaClaims(ws)) = 0
    BY <2>1, <2>3
  <2> QED
    BY <2>1, <2>2, <2>3, JobQueueAssumption DEF Limits
<1>2. ASSUME Structure, Limits, [Next]_vars PROVE Limits'
  <2>1. IsFiniteSet(usage')
    <3>1. CASE Workspaces # {}
      BY <1>2, <3>1, QuotaStep
    <3>2. CASE Workspaces = {}
      <4>1. Structure'
        BY <1>2, StructureStep
      <4>2. usage' = {}
        BY <3>2, <4>1 DEF Structure, TypeOK
      <4> QED
        BY <4>2, FS_EmptySet
    <3> QED
      BY <3>1, <3>2
  <2> QED
    BY <1>2, <2>1, BacklogStep, QuotaStep DEF Limits
<1> QED
  BY <1>1, <1>2, StructureAlways, PTL DEF Spec

(* The limits in terms of what a workspace has, whatever is in flight.     *)
LEMMA LimitsBound == Structure /\ Limits => BacklogBound /\ QuotaBound
<1> SUFFICES ASSUME Structure, Limits PROVE BacklogBound /\ QuotaBound
  OBVIOUS
<1>1. ASSUME NEW ws \in Workspaces
      PROVE  /\ Cardinality(Backlog(ws)) \in Nat /\ Cardinality(QueueClaims(ws)) \in Nat
             /\ Cardinality(Used(ws)) \in Nat /\ Cardinality(QuotaClaims(ws)) \in Nat
             /\ Cardinality(Txns) \in Nat
  BY <1>1, CountedSets, FS_CardinalityType, JobQueueAssumption DEF Structure, Limits
<1> QED
  BY <1>1, JobQueueAssumption DEF Limits, BacklogBound, QuotaBound

(* The never-started backlog of a workspace stays below the queue limit    *)
(* plus the number of transactions that can be open at once.               *)
THEOREM BacklogIsBounded == Spec => []BacklogBound
BY LimitsBound, StructureAlways, LimitsAlways, PTL

(* The metered usage of a workspace stays below its quota plus the number  *)
(* of transactions that can be open at once.                               *)
THEOREM QuotaIsBounded == Spec => []QuotaBound
BY LimitsBound, StructureAlways, LimitsAlways, PTL

(* Both at once: looking before the insert, without a lock, is wrong by    *)
(* less than the number of requests, however many there are.               *)
THEOREM ExcessIsAlwaysBounded == Spec => []ExcessIsBounded
<1>1. BacklogBound /\ QuotaBound => ExcessIsBounded
  BY DEF ExcessIsBounded
<1> QED
  BY <1>1, BacklogIsBounded, QuotaIsBounded, PTL

(* The inductive invariant as a whole: what every safety property of the   *)
(* job plane rests on.                                                     *)
THEOREM InductiveAlways == Spec => []Inductive
<1>1. Structure /\ IdempotentReply /\ ChargedOnce /\ Limits => Inductive
  BY DEF Inductive
<1> QED
  BY <1>1, StructureAlways, IdempotentEnqueue, ChargedExactlyOnce, LimitsAlways, PTL

----------------------------------------------------------------------------
(* The refinement. Entries is the ledger as the job plane keeps it.        *)
Entries == {[run |-> r, call |-> job[r].call] : r \in {q \in Runs : IsCommitted(q)}}

(* Only the commit of a new run makes an entry.                            *)
LEMMA EntriesSteady ==
  ASSUME Structure, [Next]_vars, ~ \E t \in Txns : CommitNew(t)
  PROVE  Entries' = Entries
<1>1. \A r \in Runs : IsCommitted(r)' <=> IsCommitted(r)
  BY CommittedStays, BecomesCommitted DEF IsCommitted
<1>2. \A r \in Runs : IsCommitted(r) => job'[r].call = job[r].call
  BY CommittedStays
<1> QED
  BY <1>1, <1>2 DEF Entries

(* ... and a commit of a new run makes one.                                *)
LEMMA EntryMade ==
  ASSUME Structure, NEW t \in Txns, CommitNew(t)
  PROVE  /\ txn[t].run \in Runs /\ txn[t].call \in Calls
         /\ job[txn[t].run] = [status |-> "uncommitted", call |-> txn[t].call]
         /\ Entries' = Entries \cup {[run |-> txn[t].run, call |-> txn[t].call]}
<1>0. TypeOK /\ TxnOK
  BY DEF Structure
<1>1. /\ txn[t].run \in Runs /\ txn[t].call \in Calls
      /\ job[txn[t].run] = [status |-> "uncommitted", call |-> txn[t].call]
      /\ Write(txn[t].run, "queued")
  BY <1>0 DEF TxnOK, CommitNew, Inserting
<1>2. /\ \A q \in Runs : job'[q].call = job[q].call
      /\ \A q \in Runs : q # txn[t].run => job'[q] = job[q]
      /\ job'[txn[t].run].status = "queued"
  BY <1>0, <1>1, WriteEffect DEF Committed, Active
<1>3. ~IsCommitted(txn[t].run)
  BY <1>1 DEF IsCommitted, Committed, Active, Terminal
<1>4. \A q \in Runs : IsCommitted(q)' <=> IsCommitted(q) \/ q = txn[t].run
  BY <1>2, <1>3 DEF IsCommitted, Committed, Active, Terminal
<1>5. job[txn[t].run].call = txn[t].call
  BY <1>1
<1>6. Entries' = {[run |-> r, call |-> job[r].call] : r \in {q \in Runs : IsCommitted(q) \/ q = txn[t].run}}
  BY <1>2, <1>4 DEF Entries
<1> QED
  BY <1>1, <1>5, <1>6 DEF Entries

(* Answers are added by a commit of a new run, and by those of a lookup or *)
(* a requeue, about a run of the caller's key and workspace.               *)
LEMMA AnswersGrow ==
  ASSUME Structure, [Next]_vars, ~ \E t \in Txns : CommitNew(t)
  PROVE  \/ replies' = replies
         \/ \E r \in Runs : /\ IsCommitted(r) /\ job[r].call.key # NoKey
                            /\ replies' = replies \cup {Ledger!Answered(r, job[r].call)}
<1>0. TypeOK /\ TxnOK
  BY DEF Structure
<1>1. ASSUME NEW t \in Txns, ReturnExisting(t)
      PROVE  \E r \in Runs : /\ IsCommitted(r) /\ job[r].call.key # NoKey
                            /\ replies' = replies \cup {Ledger!Answered(r, job[r].call)}
  <2>1. PICK r \in Existing(txn[t].call) : Reply(t, r)
    BY <1>1 DEF ReturnExisting
  <2>2. /\ r \in Runs /\ IsCommitted(r) /\ txn[t].call.key # NoKey
        /\ job[r].call.key = txn[t].call.key /\ job[r].call.ws = txn[t].call.ws
    BY DEF Existing
  <2>3. replies' = replies \cup {[ws |-> txn[t].call.ws, key |-> txn[t].call.key, run |-> r]}
    BY <2>1, <2>2 DEF Reply
  <2> QED
    BY <2>2, <2>3 DEF Ledger!Answered
<1>2. ASSUME NEW t \in Txns, CommitRequeued(t)
      PROVE  \E r \in Runs : /\ IsCommitted(r) /\ job[r].call.key # NoKey
                            /\ replies' = replies \cup {Ledger!Answered(r, job[r].call)}
  <2>1. Reply(t, txn[t].run) /\ txn[t].pc \in Requeueing
    BY <1>2 DEF CommitRequeued, Requeueing
  <2>2. /\ txn[t].run \in Runs /\ IsCommitted(txn[t].run) /\ txn[t].call.key # NoKey
        /\ job[txn[t].run].call.key = txn[t].call.key /\ job[txn[t].run].call.ws = txn[t].call.ws
    BY <1>0, <2>1 DEF TxnOK
  <2>3. replies' = replies \cup {[ws |-> txn[t].call.ws, key |-> txn[t].call.key, run |-> txn[t].run]}
    BY <2>1, <2>2 DEF Reply
  <2> QED
    BY <2>2, <2>3 DEF Ledger!Answered
<1> QED
  BY <1>1, <1>2
  DEF Next, TxnStep, WorkerStep, vars, ghosts, BeginCall, FindNone, FindFailed, SendRequeued,
      FlushRequeued, CheckQuota, AssertQueueCapacity, RejectCall, InsertRun, SendNew, Abort,
      Receive, MarkRunning, FinishRun, WorkerDbError, WorkerCrash, Redeliver

(* The usage event of a run about to be committed is a new one.            *)
LEMMA ChargeIsNew ==
  ASSUME Structure, ChargedOnce, NEW r \in Runs, job[r].status = "uncommitted",
         NEW u \in usage, u.key = UsageKey(r)
  PROVE  FALSE
<1>1. PICK q \in Runs : IsCommitted(q) /\ u.key = UsageKey(q)
  BY DEF ChargedOnce
<1>2. ~IsCommitted(r)
  BY DEF IsCommitted, Committed, Active, Terminal
<1>3. job[q].call \in Calls /\ job[r].call \in Calls
  BY <1>1 DEF Structure, RowsOK, IsCommitted, Committed, Active, Terminal
<1>4. job[q].call.key \in Keys \cup {NoKey} /\ job[r].call.key \in Keys \cup {NoKey}
  BY <1>3, JobQueueAssumption
<1>5. CASE job[q].call.key = NoKey \/ job[r].call.key = NoKey
  BY <1>1, <1>2, <1>4, <1>5, JobQueueAssumption DEF UsageKey
<1>6. CASE job[q].call.key # NoKey /\ job[r].call.key # NoKey
  <2>1. job[q].call.key = job[r].call.key
    BY <1>1, <1>6 DEF UsageKey
  <2>2. Live(q) /\ Live(r)
    BY <1>1 DEF Live
  <2> QED
    BY <1>1, <1>2, <1>6, <2>1, <2>2 DEF Structure, KeysUnique
<1> QED
  BY <1>5, <1>6

(* A commit of a new run is an entry, its charge and its answer.           *)
LEMMA CommitAccepts ==
  ASSUME Structure, ChargedOnce, NEW t \in Txns, CommitNew(t)
  PROVE  Ledger!LedgerNext
<1>0. /\ txn[t].run \in Runs /\ txn[t].call \in Calls
      /\ job[txn[t].run] = [status |-> "uncommitted", call |-> txn[t].call]
      /\ Entries' = Entries \cup {[run |-> txn[t].run, call |-> txn[t].call]}
  BY EntryMade
<1>a. PICK r \in Runs : r = txn[t].run
  BY <1>0
<1>b. PICK c \in Calls : c = txn[t].call
  BY <1>0
<1>1. /\ job[r] = [status |-> "uncommitted", call |-> c]
      /\ Entries' = Entries \cup {[run |-> r, call |-> c]}
  BY <1>0, <1>a, <1>b
<1>2. /\ job[r].call = c /\ job[r].status = "uncommitted"
      /\ ~IsCommitted(r)
  BY <1>1 DEF IsCommitted, Committed, Active, Terminal
<1>3. \A e \in Entries : e.run # r /\ (c.key # NoKey => e.call.key # c.key)
  <2>1. ASSUME NEW q \in Runs, IsCommitted(q), c.key # NoKey, job[q].call.key = c.key
        PROVE  FALSE
    <3>1. Live(q) /\ Live(r)
      BY <1>2, <2>1 DEF Live
    <3> QED
      BY <1>1, <1>2, <2>1, <3>1 DEF Structure, KeysUnique
  <2> QED
    BY <1>2, <2>1 DEF Entries
<1>4. Ledger!Charge(r, c) = [ws |-> job[r].call.ws, key |-> UsageKey(r)]
  BY <1>2 DEF Ledger!Charge, UsageKey
<1>5. \A u \in usage : u.key # UsageKey(r)
  BY <1>1, <1>2, ChargeIsNew
<1>6. Ledger!Charge(r, c) \notin usage
  BY <1>4, <1>5
<1>7. usage' = IF c.metered THEN usage \cup {Ledger!Charge(r, c)} ELSE usage
  BY <1>a, <1>b, <1>2, <1>4, <1>5 DEF CommitNew
<1>8. replies' = IF c.key = NoKey THEN replies ELSE replies \cup {Ledger!Answered(r, c)}
  BY <1>a, <1>b DEF CommitNew, Reply, Ledger!Answered
<1>9. Ledger!Accept(r, c)
  BY <1>1, <1>3, <1>6, <1>7, <1>8 DEF Ledger!Accept, Entries
<1> QED
  BY <1>1, <1>9 DEF Ledger!LedgerNext

(* The job plane implements the ledger of JobLedger, for any number of     *)
(* requests, workers, keys, workspaces and faults: acceptance, charge and  *)
(* answer are one step, and nothing else touches them.                     *)
THEOREM LedgerIsImplemented == Spec => ImplementsLedger
<1>1. Init => Ledger!LedgerInit
  BY DEF Init, Ledger!LedgerInit, IsCommitted, Committed, Active, Terminal
<1>2. ASSUME Structure, ChargedOnce, [Next]_vars
      PROVE  [Ledger!LedgerNext]_(Ledger!ledgerVars)
  <2>1. CASE \E t \in Txns : CommitNew(t)
    BY <1>2, <2>1, CommitAccepts
  <2>2. CASE ~ \E t \in Txns : CommitNew(t)
    <3>1. Entries' = Entries /\ usage' = usage
      BY <1>2, <2>2, EntriesSteady, UsageSteady
    <3>2. CASE replies' = replies
      BY <3>1, <3>2 DEF Entries, Ledger!ledgerVars
    <3>3. ASSUME NEW r \in Runs, IsCommitted(r), job[r].call.key # NoKey,
                 replies' = replies \cup {Ledger!Answered(r, job[r].call)}
          PROVE  Ledger!LedgerNext
      <4> DEFINE e == [run |-> r, call |-> job[r].call]
      <4>1. e \in Entries /\ e.run = r /\ e.call = job[r].call
        BY <3>3 DEF Entries
      <4>2. Ledger!Repeat(e)
        BY <3>1, <3>3, <4>1 DEF Ledger!Repeat, Entries
      <4> QED
        BY <4>1, <4>2 DEF Ledger!LedgerNext, Entries
    <3> QED
      BY <1>2, <2>2, <3>2, <3>3, AnswersGrow
  <2> QED
    BY <2>1, <2>2
<1> QED
  BY <1>1, <1>2, StructureAlways, ChargedExactlyOnce, PTL DEF Spec, ImplementsLedger, Ledger!LedgerSpec

----------------------------------------------------------------------------
(* A run without a key. Who could execute it: the workers that hold it,    *)
(* the transactions that are about to send it, the copies in the broker.   *)
Copies(r) == Cardinality(Holders(r)) + Cardinality(Senders(r)) + Cardinality(InBroker(r))

(* A run that is not born has none; a run without a key has one, and one   *)
(* for each copy the broker made.                                          *)
RunAlone(r) ==
    /\ IsFiniteSet(Holders(r)) /\ IsFiniteSet(Senders(r)) /\ IsFiniteSet(InBroker(r))
    /\ job[r].status = "unborn" =>
          job[r].call = NoCall /\ Holders(r) = {} /\ Senders(r) = {} /\ InBroker(r) = {}
    /\ job[r].call # NoCall /\ job[r].call.key = NoKey => Copies(r) <= 1 + spent["duplicates"]

AllAlone == \A r \in Runs : RunAlone(r)

(* A copy in the broker is a try and a number.                             *)
LEMMA BrokerCopies ==
  ASSUME NEW r
  PROVE  /\ \A i \in Tries : \A k \in 1 .. msgs[<<r, i>>] : <<i, k>> \in InBroker(r)
         /\ \A x \in InBroker(r) : \E i \in Tries : \E k \in 1 .. msgs[<<r, i>>] : x = <<i, k>>
<1>1. ASSUME NEW x
      PROVE  x \in InBroker(r) <=> \E i \in Tries : \E k \in 1 .. msgs[<<r, i>>] : x = <<i, k>>
  <2> DEFINE S(i) == 1 .. msgs[<<r, i>>]
  <2>1. \A i \in Tries : x \in {i} \X S(i) <=> \E k \in S(i) : x = <<i, k>>
    <3> HIDE DEF S
    <3> QED OBVIOUS
  <2>2. x \in InBroker(r) <=> \E i \in Tries : x \in {i} \X S(i)
    BY Zenon DEF InBroker
  <2> QED
    BY <2>1, <2>2
<1> QED
  BY <1>1

LEMMA BrokerCopiesNext ==
  ASSUME NEW r
  PROVE  /\ \A i \in Tries : \A k \in 1 .. msgs'[<<r, i>>] : <<i, k>> \in InBroker(r)'
         /\ \A x \in InBroker(r)' : \E i \in Tries : \E k \in 1 .. msgs'[<<r, i>>] : x = <<i, k>>
<1>1. ASSUME NEW x
      PROVE  x \in InBroker(r)' <=> \E i \in Tries : \E k \in 1 .. msgs'[<<r, i>>] : x = <<i, k>>
  <2> DEFINE S(i) == 1 .. msgs'[<<r, i>>]
  <2>1. \A i \in Tries : x \in {i} \X S(i) <=> \E k \in S(i) : x = <<i, k>>
    <3> HIDE DEF S
    <3> QED OBVIOUS
  <2>2. x \in InBroker(r)' <=> \E i \in Tries : x \in {i} \X S(i)
    BY Zenon DEF InBroker
  <2> QED
    BY <2>1, <2>2
<1> QED
  BY <1>1

(* A message that is sent is one copy more of its run ...                  *)
LEMMA SendEffect ==
  ASSUME TypeOK, NEW q \in Runs, NEW i \in Tries, Send(<<q, i>>)
  PROVE  /\ \E x : InBroker(q)' \subseteq InBroker(q) \cup {x}
         /\ \A r \in Runs \ {q} : InBroker(r)' = InBroker(r)
<1>1. /\ <<q, i>> \in Message /\ msgs \in [Message -> Nat]
      /\ msgs' = [msgs EXCEPT ![<<q, i>>] = @ + 1]
      /\ \A r \in Runs, j \in Tries : <<r, j>> \in Message
  BY DEF TypeOK, Send, Message
<1>2. msgs[<<q, i>>] \in Nat /\ msgs'[<<q, i>>] = msgs[<<q, i>>] + 1
      /\ \A r \in Runs, j \in Tries : <<r, j>> # <<q, i>> => msgs'[<<r, j>>] = msgs[<<r, j>>]
  BY <1>1
<1>3. InBroker(q)' \subseteq InBroker(q) \cup {<<i, msgs[<<q, i>>] + 1>>}
  <2> SUFFICES ASSUME NEW x \in InBroker(q)', x \notin InBroker(q)
               PROVE  x = <<i, msgs[<<q, i>>] + 1>>
    OBVIOUS
  <2>a. PICK j \in Tries : \E k \in 1 .. msgs'[<<q, j>>] : x = <<j, k>>
    BY BrokerCopiesNext
  <2>0. PICK k \in 1 .. msgs'[<<q, j>>] : x = <<j, k>>
    BY <2>a
  <2>1. k \notin 1 .. msgs[<<q, j>>]
    BY <2>0, BrokerCopies
  <2>2. j = i
    BY <1>2, <2>1
  <2>3. k \in 1 .. (msgs[<<q, i>>] + 1) /\ k \notin 1 .. msgs[<<q, i>>]
    BY <1>2, <2>1, <2>2
  <2>4. k = msgs[<<q, i>>] + 1
    BY <1>2, <2>3
  <2> QED
    BY <2>0, <2>2, <2>4
<1>4. \A r \in Runs \ {q} : InBroker(r)' = InBroker(r)
  <2> SUFFICES ASSUME NEW r \in Runs, r # q PROVE InBroker(r)' = InBroker(r)
    OBVIOUS
  <2>1. \A j \in Tries : msgs'[<<r, j>>] = msgs[<<r, j>>]
    BY <1>2
  <2>2. InBroker(r)' \subseteq InBroker(r)
    <3> SUFFICES ASSUME NEW x \in InBroker(r)' PROVE x \in InBroker(r)
      OBVIOUS
    <3>1. PICK j \in Tries : \E k \in 1 .. msgs'[<<r, j>>] : x = <<j, k>>
      BY BrokerCopiesNext
    <3> QED
      BY <2>1, <3>1, BrokerCopies
  <2>3. InBroker(r) \subseteq InBroker(r)'
    <3> SUFFICES ASSUME NEW x \in InBroker(r) PROVE x \in InBroker(r)'
      OBVIOUS
    <3>1. PICK j \in Tries : \E k \in 1 .. msgs[<<r, j>>] : x = <<j, k>>
      BY BrokerCopies
    <3> QED
      BY <2>1, <3>1, BrokerCopiesNext
  <2> QED
    BY <2>2, <2>3
<1> QED
  BY <1>3, <1>4

(* ... and one that is taken is one copy less.                             *)
LEMMA TakeEffect ==
  ASSUME TypeOK, NEW q \in Runs, NEW i \in Tries, msgs[<<q, i>>] > 0,
         msgs' = [msgs EXCEPT ![<<q, i>>] = @ - 1]
  PROVE  /\ \E x \in InBroker(q) : InBroker(q)' \subseteq InBroker(q) \ {x}
         /\ \A r \in Runs \ {q} : InBroker(r)' = InBroker(r)
<1>1. /\ <<q, i>> \in Message /\ msgs \in [Message -> Nat]
      /\ \A r \in Runs, j \in Tries : <<r, j>> \in Message
  BY DEF TypeOK, Message
<1>2. msgs[<<q, i>>] \in Nat /\ msgs'[<<q, i>>] = msgs[<<q, i>>] - 1
      /\ \A r \in Runs, j \in Tries : <<r, j>> # <<q, i>> => msgs'[<<r, j>>] = msgs[<<r, j>>]
  BY <1>1
<1>3. <<i, msgs[<<q, i>>]>> \in InBroker(q)
  <2>1. msgs[<<q, i>>] \in 1 .. msgs[<<q, i>>]
    BY <1>2
  <2> QED
    BY <2>1, BrokerCopies
<1>4. InBroker(q)' \subseteq InBroker(q) \ {<<i, msgs[<<q, i>>]>>}
  <2> SUFFICES ASSUME NEW x \in InBroker(q)' PROVE x \in InBroker(q) /\ x # <<i, msgs[<<q, i>>]>>
    OBVIOUS
  <2>a. PICK j \in Tries : \E k \in 1 .. msgs'[<<q, j>>] : x = <<j, k>>
    BY BrokerCopiesNext
  <2>0. PICK k \in 1 .. msgs'[<<q, j>>] : x = <<j, k>>
    BY <2>a
  <2>1. CASE j = i
    <3>1. k \in 1 .. msgs[<<q, i>>] /\ k # msgs[<<q, i>>]
      BY <1>2, <2>1
    <3> QED
      BY <2>0, <2>1, <3>1, BrokerCopies
  <2>2. CASE j # i
    <3>1. k \in 1 .. msgs[<<q, j>>]
      BY <1>2, <2>2
    <3> QED
      BY <2>0, <2>2, <3>1, BrokerCopies
  <2> QED
    BY <2>1, <2>2
<1>5. \A r \in Runs \ {q} : InBroker(r)' = InBroker(r)
  <2> SUFFICES ASSUME NEW r \in Runs, r # q PROVE InBroker(r)' = InBroker(r)
    OBVIOUS
  <2>1. \A j \in Tries : msgs'[<<r, j>>] = msgs[<<r, j>>]
    BY <1>2
  <2>2. InBroker(r)' \subseteq InBroker(r)
    <3> SUFFICES ASSUME NEW x \in InBroker(r)' PROVE x \in InBroker(r)
      OBVIOUS
    <3>1. PICK j \in Tries : \E k \in 1 .. msgs'[<<r, j>>] : x = <<j, k>>
      BY BrokerCopiesNext
    <3> QED
      BY <2>1, <3>1, BrokerCopies
  <2>3. InBroker(r) \subseteq InBroker(r)'
    <3> SUFFICES ASSUME NEW x \in InBroker(r) PROVE x \in InBroker(r)'
      OBVIOUS
    <3>1. PICK j \in Tries : \E k \in 1 .. msgs[<<r, j>>] : x = <<j, k>>
      BY BrokerCopies
    <3> QED
      BY <2>1, <3>1, BrokerCopiesNext
  <2> QED
    BY <2>2, <2>3
<1> QED
  BY <1>3, <1>4, <1>5

(* No more copies of a run than before, wherever they are now.             *)
LEMMA StaysAlone ==
  ASSUME NEW r \in Runs, RunAlone(r), TypeOK, TypeOK',
         job'[r].call = job[r].call, job'[r].status = "unborn" => job[r].status = "unborn",
         spent["duplicates"] <= spent'["duplicates"],
         Holders(r)' \subseteq Holders(r), Senders(r)' \subseteq Senders(r),
         InBroker(r)' \subseteq InBroker(r)
  PROVE  RunAlone(r)'
<1>1. /\ IsFiniteSet(Holders(r)') /\ Cardinality(Holders(r)') <= Cardinality(Holders(r))
      /\ IsFiniteSet(Senders(r)') /\ Cardinality(Senders(r)') <= Cardinality(Senders(r))
      /\ IsFiniteSet(InBroker(r)') /\ Cardinality(InBroker(r)') <= Cardinality(InBroker(r))
  BY FS_Subset DEF RunAlone
<1>2. /\ Cardinality(Holders(r)) \in Nat /\ Cardinality(Senders(r)) \in Nat
      /\ Cardinality(InBroker(r)) \in Nat /\ Cardinality(Holders(r)') \in Nat
      /\ Cardinality(Senders(r)') \in Nat /\ Cardinality(InBroker(r)') \in Nat
  BY <1>1, FS_CardinalityType DEF RunAlone
<1>3. spent["duplicates"] \in Nat /\ spent'["duplicates"] \in Nat
  BY DEF TypeOK, Counted
<1>4. (Copies(r) <= 1 + spent["duplicates"]) => (Copies(r)' <= 1 + spent'["duplicates"])
  BY <1>1, <1>2, <1>3 DEF Copies
<1> QED
  BY <1>1, <1>4 DEF RunAlone

(* One copy of a run goes, one comes in another place: no more than before.*)
Gains(new, old) == \E x : new \subseteq old \cup {x}
Loses(new, old) == \E x \in old : new \subseteq old \ {x}

LEMMA Traded ==
  ASSUME NEW A, IsFiniteSet(A), NEW B, IsFiniteSet(B), NEW A2, Gains(A2, A), NEW B2, Loses(B2, B)
  PROVE  /\ IsFiniteSet(A2) /\ IsFiniteSet(B2)
         /\ Cardinality(A2) + Cardinality(B2) <= Cardinality(A) + Cardinality(B)
         /\ Cardinality(A2) \in Nat /\ Cardinality(B2) \in Nat
         /\ Cardinality(A) \in Nat /\ Cardinality(B) \in Nat
<1>1. IsFiniteSet(A2) /\ Cardinality(A2) <= Cardinality(A) + 1
  BY AtMostOneMore DEF Gains
<1>2. IsFiniteSet(B2) /\ Cardinality(B2) <= Cardinality(B) - 1
  BY AtLeastOneLess DEF Loses
<1>3. /\ Cardinality(A2) \in Nat /\ Cardinality(B2) \in Nat
      /\ Cardinality(A) \in Nat /\ Cardinality(B) \in Nat
  BY <1>1, <1>2, FS_CardinalityType
<1> QED
  BY <1>1, <1>2, <1>3

(* Who holds and who sends a run changes only for the one that steps.      *)
OnlyWorker(w) == \A v \in Workers \ {w} : worker'[v] = worker[v]
OnlyTxn(t)    == \A u \in Txns \ {t} : txn'[u] = txn[u]

LEMMA HoldersFollow ==
  ASSUME NEW r, NEW w \in Workers, OnlyWorker(w)
  PROVE  /\ (worker'[w].pc = "idle" \/ worker'[w].run # r) => Holders(r)' \subseteq Holders(r) \ {w}
         /\ Holders(r)' \subseteq Holders(r) \cup {w}
BY DEF Holders, OnlyWorker

LEMMA SendersFollow ==
  ASSUME NEW r, NEW t \in Txns, OnlyTxn(t)
  PROVE  /\ (txn'[t].pc # "send" \/ txn'[t].run # r) => Senders(r)' \subseteq Senders(r) \ {t}
         /\ Senders(r)' \subseteq Senders(r) \cup {t}
BY DEF Senders, OnlyTxn

(* The end of a task, a statement of a transaction.                        *)
LEMMA RestFollow ==
  ASSUME TypeOK, NEW r, NEW w \in Workers, Rest(w)
  PROVE  Holders(r)' \subseteq Holders(r) \ {w}
<1>1. OnlyWorker(w) /\ worker'[w].pc = "idle"
  BY RestEffect DEF OnlyWorker
<1> QED
  BY <1>1, HoldersFollow

LEMMA GotoFollow ==
  ASSUME TypeOK, NEW r, NEW t \in Txns, NEW pc, NEW q, GotoWith(t, pc, q)
  PROVE  /\ (pc # "send" \/ q # r) => Senders(r)' \subseteq Senders(r) \ {t}
         /\ Senders(r)' \subseteq Senders(r) \cup {t}
<1>1. OnlyTxn(t) /\ txn'[t].pc = pc /\ txn'[t].run = q
  BY DEF OnlyTxn, GotoWith, TypeOK
<1> QED
  BY <1>1, SendersFollow

(* No step but an insert changes the call of a run.                        *)
LEMMA CallsStay ==
  ASSUME Structure, [Next]_vars, ~ \E t \in Txns : InsertRun(t), NEW r \in Runs
  PROVE  job'[r].call = job[r].call /\ (job'[r].status = "unborn" => job[r].status = "unborn")
<1>1. TypeOK
  BY DEF Structure
<1>2. CASE job' = job
  BY <1>2
<1>3. ASSUME NEW q, NEW s \in (Hidden \cup Committed) \ {"unborn"}, Write(q, s)
      PROVE  job'[r].call = job[r].call /\ (job'[r].status = "unborn" => job[r].status = "unborn")
  BY <1>1, <1>3 DEF Write, TypeOK
<1>4. job' = job \/ \E q : \E s \in (Hidden \cup Committed) \ {"unborn"} : Write(q, s)
  <2>1. /\ "queued" \in (Hidden \cup Committed) \ {"unborn"}
        /\ "running" \in (Hidden \cup Committed) \ {"unborn"}
        /\ "rolledback" \in (Hidden \cup Committed) \ {"unborn"}
        /\ Terminal \subseteq (Hidden \cup Committed) \ {"unborn"}
    BY DEF Hidden, Committed, Active, Terminal
  <2>2. ASSUME NEW t \in Txns, BeginCall(t) \/ TxnStep(t) \/ Abort(t)
        PROVE  job' = job \/ \E q : \E s \in (Hidden \cup Committed) \ {"unborn"} : Write(q, s)
    BY <2>1, <2>2 DEF BeginCall, TxnStep, Abort, FindNone, ReturnExisting, FindFailed, SendRequeued,
       FlushRequeued, CheckQuota, AssertQueueCapacity, RejectCall, SendNew, CommitNew,
       CommitRequeued, db
  <2>3. ASSUME NEW w \in Workers, WorkerStep(w) \/ WorkerDbError(w) \/ WorkerCrash(w)
        PROVE  job' = job \/ \E q : \E s \in (Hidden \cup Committed) \ {"unborn"} : Write(q, s)
    BY <2>1, <2>3 DEF WorkerStep, Receive, MarkRunning, FinishRun, WorkerDbError, WorkerCrash, db
  <2>4. (\E m \in Message : Redeliver(m)) \/ UNCHANGED vars => job' = job
    BY DEF Redeliver, vars, db
  <2> QED
    BY <2>2, <2>3, <2>4 DEF Next
<1> QED
  BY <1>2, <1>3, <1>4

LEMMA AloneInit == Init => AllAlone
<1> SUFFICES ASSUME Init, NEW r \in Runs PROVE RunAlone(r)
  BY DEF AllAlone
<1>1. Holders(r) = {} /\ Senders(r) = {}
  BY DEF Init, Holders, Senders, IdleTxn, IdleWorker
<1>2. InBroker(r) = {}
  <2>1. \A i \in Tries : 1 .. msgs[<<r, i>>] = {}
    <3> SUFFICES ASSUME NEW i \in Tries PROVE 1 .. msgs[<<r, i>>] = {}
      OBVIOUS
    <3>1. msgs[<<r, i>>] = 0
      BY DEF Init, Message
    <3> QED
      BY <3>1
  <2> QED
    BY <2>1, BrokerCopies
<1>3. job[r] = [status |-> "unborn", call |-> NoCall]
  BY DEF Init
<1> QED
  BY <1>1, <1>2, <1>3, FS_EmptySet DEF RunAlone

(* What the broker, the transactions and the workers keep of a run that a  *)
(* step leaves alone.                                                      *)
LEMMA BrokerSame ==
  ASSUME NEW r, msgs' = msgs
  PROVE  InBroker(r)' = InBroker(r)
BY DEF InBroker

LEMMA AloneStep == Structure /\ AllAlone /\ [Next]_vars => AllAlone'
<1> SUFFICES ASSUME Structure, AllAlone, [Next]_vars, NEW r \in Runs PROVE RunAlone(r)'
  BY DEF AllAlone
<1>0. TypeOK /\ TypeOK' /\ TxnOK /\ WorkerOK /\ RowsOK /\ RunAlone(r)
  BY StructureStep DEF Structure, AllAlone
<1>1. \A what \in Counted \ {"duplicates"} : Count(what) => spent'["duplicates"] = spent["duplicates"]
  BY <1>0 DEF TypeOK, Count, Counted
<1>2. spent["duplicates"] \in Nat /\ spent'["duplicates"] \in Nat
  BY <1>0 DEF TypeOK, Counted
<1>3. ASSUME NEW t \in Txns, InsertRun(t) PROVE RunAlone(r)'
  <2>1. PICK q \in Runs : /\ job[q].status = "unborn"
                         /\ job' = [job EXCEPT ![q] = [status |-> "uncommitted", call |-> txn[t].call]]
                         /\ GotoWith(t, "send", q)
    BY <1>3 DEF InsertRun
  <2>2. UNCHANGED <<msgs, worker, spent>>
    BY <1>3 DEF InsertRun, ghosts
  <2>3. InBroker(r)' = InBroker(r) /\ Holders(r)' = Holders(r)
    BY <2>2, BrokerSame DEF Holders
  <2>4. CASE r = q
    <3>1. Holders(r) = {} /\ Senders(r) = {} /\ InBroker(r) = {}
      BY <1>0, <2>1, <2>4 DEF RunAlone
    <3>2. Senders(r)' \subseteq {t}
      BY <1>0, <2>1, <3>1, GotoFollow
    <3>3. job'[r].status = "uncommitted"
      BY <1>0, <2>1, <2>4 DEF TypeOK
    <3>4. IsFiniteSet(Senders(r)') /\ Cardinality(Senders(r)') <= 1 /\ Cardinality(Senders(r)') \in Nat
      <4>1. IsFiniteSet({t}) /\ Cardinality({t}) = 1
        BY FS_Singleton
      <4>2. IsFiniteSet(Senders(r)') /\ Cardinality(Senders(r)') <= Cardinality({t})
        BY <3>2, <4>1, FS_Subset
      <4> QED
        BY <4>1, <4>2, FS_CardinalityType
    <3>5. /\ IsFiniteSet(Holders(r)') /\ Cardinality(Holders(r)') = 0
          /\ IsFiniteSet(InBroker(r)') /\ Cardinality(InBroker(r)') = 0
      BY <2>3, <3>1, FS_EmptySet
    <3>6. Copies(r)' <= 1 + spent'["duplicates"]
      BY <1>2, <3>4, <3>5 DEF Copies
    <3> QED
      BY <3>3, <3>4, <3>5, <3>6 DEF RunAlone
  <2>5. CASE r # q
    <3>1. Senders(r)' \subseteq Senders(r)
      BY <1>0, <2>1, <2>5, GotoFollow
    <3>2. job'[r] = job[r]
      BY <1>0, <2>1, <2>5 DEF TypeOK
    <3>3. spent["duplicates"] <= spent'["duplicates"]
      BY <1>2, <2>2
    <3> QED
      BY <1>0, <2>3, <3>1, <3>2, <3>3, StaysAlone
  <2> QED
    BY <2>4, <2>5
<1>4. CASE ~ \E t \in Txns : InsertRun(t)
  <2>0. job'[r].call = job[r].call /\ (job'[r].status = "unborn" => job[r].status = "unborn")
    BY <1>4, CallsStay
  (* A step that adds no copy. *)
  <2>1. ASSUME spent'["duplicates"] = spent["duplicates"], Holders(r)' \subseteq Holders(r),
               Senders(r)' \subseteq Senders(r), InBroker(r)' \subseteq InBroker(r)
        PROVE  RunAlone(r)'
    <3>1. spent["duplicates"] <= spent'["duplicates"]
      BY <1>2, <2>1
    <3> QED
      BY <1>0, <2>0, <2>1, <3>1, StaysAlone
  (* A statement of a transaction that neither sends nor is about to. *)
  <2>2. ASSUME UNCHANGED <<worker, msgs>>, spent'["duplicates"] = spent["duplicates"],
               \E t \in Txns : OnlyTxn(t) /\ txn'[t].pc # "send"
        PROVE  RunAlone(r)'
    <3>1. Senders(r)' \subseteq Senders(r)
      BY <2>2, SendersFollow
    <3>2. Holders(r)' = Holders(r) /\ InBroker(r)' = InBroker(r)
      BY <2>2, BrokerSame DEF Holders
    <3> QED
      BY <2>1, <2>2, <3>1, <3>2
  <2>3. ASSUME NEW t \in Txns, SendNew(t) \/ SendRequeued(t) PROVE RunAlone(r)'
    <3>1. /\ txn[t].run \in Runs /\ Send(<<txn[t].run, 0>>) /\ 0 \in Tries
          /\ worker' = worker /\ spent' = spent
      <4>1. txn[t].run \in Runs
        BY <1>0, <2>3 DEF TxnOK, Inserting, Requeueing, SendNew, SendRequeued
      <4>2. 0 \in Tries
        BY JobQueueAssumption DEF Tries
      <4> QED
        BY <2>3, <4>1, <4>2 DEF SendNew, SendRequeued
    <3>2. Holders(r)' = Holders(r) /\ Senders(r)' \subseteq Senders(r) \ {t}
      <4>1. \E pc \in {"sent", "flush"} : GotoWith(t, pc, txn[t].run)
        BY <2>3 DEF SendNew, SendRequeued, Goto
      <4>2. Senders(r)' \subseteq Senders(r) \ {t}
        BY <1>0, <4>1, GotoFollow
      <4> QED
        BY <3>1, <4>2 DEF Holders
    <3>3. CASE r # txn[t].run
      <4>1. InBroker(r)' = InBroker(r)
        BY <1>0, <3>1, <3>3, SendEffect
      <4> QED
        BY <2>1, <3>1, <3>2, <4>1
    <3>4. CASE r = txn[t].run
      <4>1. PICK x : InBroker(r)' \subseteq InBroker(r) \cup {x}
        BY <1>0, <3>1, <3>4, SendEffect
      <4>2. CASE txn[t].pc = "send"
        <5>1. t \in Senders(r) /\ Gains(InBroker(r)', InBroker(r)) /\ Loses(Senders(r)', Senders(r))
          BY <3>2, <3>4, <4>1, <4>2 DEF Senders, Gains, Loses
        <5>2. /\ IsFiniteSet(InBroker(r)') /\ IsFiniteSet(Senders(r)')
              /\ Cardinality(InBroker(r)') + Cardinality(Senders(r)')
                    <= Cardinality(InBroker(r)) + Cardinality(Senders(r))
              /\ Cardinality(InBroker(r)') \in Nat /\ Cardinality(Senders(r)') \in Nat
              /\ Cardinality(InBroker(r)) \in Nat /\ Cardinality(Senders(r)) \in Nat
          BY <1>0, <5>1, Traded DEF RunAlone
        <5>3. Cardinality(Holders(r)) \in Nat
          BY <1>0, FS_CardinalityType DEF RunAlone
        <5>4. Copies(r) <= 1 + spent["duplicates"] => Copies(r)' <= 1 + spent'["duplicates"]
          BY <1>2, <3>1, <3>2, <5>2, <5>3 DEF Copies
        <5>5. job[r].status # "unborn"
          BY <1>0, <4>2, <5>1 DEF RunAlone
        <5> QED
          BY <1>0, <2>0, <3>2, <5>2, <5>4, <5>5 DEF RunAlone
      <4>3. CASE txn[t].pc = "resend"
        <5>1. job[r].call.key # NoKey /\ job[r].status # "unborn"
          <6>1. txn[t].pc \in Requeueing
            BY <4>3 DEF Requeueing
          <6>2. IsCommitted(txn[t].run) /\ txn[t].call.key # NoKey /\ job[txn[t].run].call.key = txn[t].call.key
            BY <1>0, <6>1 DEF TxnOK
          <6> QED
            BY <3>4, <6>2 DEF IsCommitted, Committed, Active, Terminal
        <5>2. IsFiniteSet(InBroker(r)')
          BY <1>0, <4>1, AtMostOneMore DEF RunAlone
        <5>3. IsFiniteSet(Senders(r)')
          BY <1>0, <3>2, FS_Subset DEF RunAlone
        <5> QED
          BY <1>0, <2>0, <3>2, <5>1, <5>2, <5>3 DEF RunAlone
      <4> QED
        BY <2>3, <4>2, <4>3 DEF SendNew, SendRequeued
    <3> QED
      BY <3>3, <3>4
  <2>4. ASSUME NEW t \in Txns, BeginCall(t) PROVE RunAlone(r)'
    <3>1. PICK c \in Calls : txn' = [txn EXCEPT ![t] = [pc |-> "find", call |-> c, run |-> NoRun]]
      BY <2>4 DEF BeginCall
    <3>2. UNCHANGED <<worker, msgs>> /\ spent'["duplicates"] = spent["duplicates"]
      BY <1>1, <2>4 DEF BeginCall, Counted
    <3>3. OnlyTxn(t) /\ txn'[t].pc = "find"
      BY <1>0, <3>1 DEF OnlyTxn, TypeOK
    <3> QED
      BY <2>2, <3>2, <3>3
  <2>5. ASSUME NEW t \in Txns, FindNone(t) \/ FlushRequeued(t) \/ CheckQuota(t) \/ AssertQueueCapacity(t)
        PROVE  RunAlone(r)'
    <3>1. PICK pc \in TxnPc \ {"send"} : Goto(t, pc)
      BY <2>5 DEF FindNone, FlushRequeued, CheckQuota, AssertQueueCapacity, TxnPc
    <3>2. UNCHANGED <<worker, msgs>> /\ spent' = spent
      BY <2>5 DEF FindNone, FlushRequeued, CheckQuota, AssertQueueCapacity
    <3>3. OnlyTxn(t) /\ txn'[t].pc = pc
      BY <1>0, <3>1 DEF OnlyTxn, TypeOK, Goto, GotoWith
    <3> QED
      BY <2>2, <3>2, <3>3
  <2>6. ASSUME NEW t \in Txns, FindFailed(t) PROVE RunAlone(r)'
    <3>1. PICK q : GotoWith(t, "resend", q)
      BY <2>6 DEF FindFailed
    <3>2. UNCHANGED <<worker, msgs>> /\ spent' = spent
      BY <2>6 DEF FindFailed
    <3>3. OnlyTxn(t) /\ txn'[t].pc = "resend"
      BY <1>0, <3>1 DEF OnlyTxn, TypeOK, GotoWith
    <3> QED
      BY <2>2, <3>2, <3>3
  <2>7. ASSUME NEW t \in Txns,
               ReturnExisting(t) \/ RejectCall(t) \/ CommitNew(t) \/ CommitRequeued(t) \/ Abort(t)
        PROVE  RunAlone(r)'
    <3>1. Close(t) /\ UNCHANGED <<worker, msgs>> /\ spent' = spent
      BY <2>7 DEF ReturnExisting, RejectCall, CommitNew, CommitRequeued, Abort
    <3>2. OnlyTxn(t) /\ txn'[t].pc = "idle"
      BY <1>0, <3>1, CloseEffect DEF OnlyTxn
    <3> QED
      BY <2>2, <3>1, <3>2
  <2>8. ASSUME NEW w \in Workers, Receive(w) PROVE RunAlone(r)'
    <3>1. PICK m \in Message :
            /\ msgs[m] > 0 /\ msgs' = [msgs EXCEPT ![m] = @ - 1]
            /\ IF IsCommitted(m[1])
               THEN worker' = [worker EXCEPT ![w] =
                       [pc |-> "loaded", run |-> m[1], tries |-> m[2], seen |-> job[m[1]].status]]
               ELSE UNCHANGED worker
      BY <2>8 DEF Receive
    <3>2. PICK q \in Runs, i \in Tries : m = <<q, i>>
      BY DEF Message
    <3>3. Senders(r)' = Senders(r) /\ spent' = spent
      BY <2>8 DEF Receive, Senders
    <3>6. worker' = worker \/ (OnlyWorker(w) /\ worker'[w].run = q)
      <4>1. m[1] = q
        BY <3>2
      <4>2. CASE IsCommitted(q)
        <5>1. worker' = [worker EXCEPT ![w] = [pc |-> "loaded", run |-> q, tries |-> m[2], seen |-> job[q].status]]
          BY <3>1, <4>1, <4>2
        <5>2. worker \in [Workers -> [pc : WorkerPc, run : Runs \cup {NoRun}, tries : Tries,
                                      seen : Committed \cup {"unborn"}]]
          BY <1>0 DEF TypeOK
        <5>3. worker'[w].run = q /\ \A v \in Workers : v # w => worker'[v] = worker[v]
          BY <5>1, <5>2
        <5> QED
          BY <5>3 DEF OnlyWorker
      <4>3. CASE ~IsCommitted(q)
        BY <3>1, <4>1, <4>3
      <4> QED
        BY <4>2, <4>3
    <3>4. CASE r # q
      <4>1. InBroker(r)' = InBroker(r)
        BY <1>0, <3>1, <3>2, <3>4, TakeEffect
      <4>2. Holders(r)' \subseteq Holders(r)
        <5>1. CASE worker' = worker
          BY <5>1 DEF Holders
        <5>2. CASE OnlyWorker(w) /\ worker'[w].run = q
          BY <3>4, <5>2, HoldersFollow
        <5> QED
          BY <3>6, <5>1, <5>2
      <4> QED
        BY <2>1, <3>3, <4>1, <4>2
    <3>5. CASE r = q
      <4>1. PICK x \in InBroker(r) : InBroker(r)' \subseteq InBroker(r) \ {x}
        BY <1>0, <3>1, <3>2, <3>5, TakeEffect
      <4>2. Holders(r)' \subseteq Holders(r) \cup {w}
        BY <3>6, HoldersFollow DEF Holders
      <4>3. /\ IsFiniteSet(Holders(r)') /\ IsFiniteSet(InBroker(r)')
            /\ Cardinality(Holders(r)') + Cardinality(InBroker(r)')
                  <= Cardinality(Holders(r)) + Cardinality(InBroker(r))
            /\ Cardinality(Holders(r)') \in Nat /\ Cardinality(InBroker(r)') \in Nat
            /\ Cardinality(Holders(r)) \in Nat /\ Cardinality(InBroker(r)) \in Nat
        <5>1. Gains(Holders(r)', Holders(r)) /\ Loses(InBroker(r)', InBroker(r))
          BY <4>1, <4>2 DEF Gains, Loses
        <5> QED
          BY <1>0, <5>1, Traded DEF RunAlone
      <4>4. Cardinality(Senders(r)) \in Nat
        BY <1>0, FS_CardinalityType DEF RunAlone
      <4>5. Copies(r) <= 1 + spent["duplicates"] => Copies(r)' <= 1 + spent'["duplicates"]
        BY <1>2, <3>3, <4>3, <4>4 DEF Copies
      <4>6. job[r].status # "unborn"
        BY <1>0, <4>1 DEF RunAlone
      <4> QED
        BY <1>0, <2>0, <3>3, <4>3, <4>5, <4>6 DEF RunAlone
    <3> QED
      BY <3>4, <3>5
  <2>9. ASSUME NEW w \in Workers, MarkRunning(w) PROVE RunAlone(r)'
    <3>1. /\ worker' = [worker EXCEPT ![w] = [pc |-> "running", run |-> worker[w].run,
                                             tries |-> worker[w].tries, seen |-> "running"]]
          /\ worker[w].pc = "loaded" /\ UNCHANGED <<msgs, txn, spent>>
      BY <2>9 DEF MarkRunning
    <3>2. Holders(r)' \subseteq Holders(r)
      <4>1. OnlyWorker(w) /\ worker'[w].run = worker[w].run
        BY <1>0, <3>1 DEF OnlyWorker, TypeOK
      <4>2. w \in Holders(r) \/ worker'[w].run # r
        BY <3>1, <4>1 DEF Holders
      <4>3. Holders(r)' \subseteq Holders(r) \cup {w}
        BY <4>1, HoldersFollow
      <4>4. worker'[w].run # r => Holders(r)' \subseteq Holders(r)
        BY <4>1, HoldersFollow
      <4> QED
        BY <4>2, <4>3, <4>4
    <3>3. Senders(r)' = Senders(r) /\ InBroker(r)' = InBroker(r)
      BY <3>1, BrokerSame DEF Senders
    <3> QED
      BY <2>1, <3>1, <3>2, <3>3
  <2>10. ASSUME NEW w \in Workers, FinishRun(w) \/ WorkerCrash(w) PROVE RunAlone(r)'
    <3>1. Rest(w) /\ UNCHANGED <<msgs, txn>> /\ spent'["duplicates"] = spent["duplicates"]
      BY <1>1, <2>10 DEF FinishRun, WorkerCrash, Counted
    <3>2. Holders(r)' \subseteq Holders(r)
      BY <1>0, <3>1, RestFollow
    <3>3. Senders(r)' = Senders(r) /\ InBroker(r)' = InBroker(r)
      BY <3>1, BrokerSame DEF Senders
    <3> QED
      BY <2>1, <3>1, <3>2, <3>3
  <2>11. ASSUME NEW w \in Workers, WorkerDbError(w) PROVE RunAlone(r)'
    <3>1. /\ Rest(w) /\ txn' = txn /\ spent'["duplicates"] = spent["duplicates"]
          /\ worker[w].pc # "idle" /\ worker[w].run \in Runs
          /\ \/ msgs' = msgs
             \/ worker[w].tries < MaxRetries /\ Send(<<worker[w].run, worker[w].tries + 1>>)
      BY <1>0, <1>1, <2>11 DEF WorkerDbError, Counted, WorkerOK
    <3>2. Holders(r)' \subseteq Holders(r) \ {w} /\ Senders(r)' = Senders(r)
      BY <1>0, <3>1, RestFollow DEF Senders
    <3>3. InBroker(r)' \subseteq InBroker(r)
             \/ (worker[w].run = r /\ \E x : InBroker(r)' \subseteq InBroker(r) \cup {x})
      <4>1. CASE msgs' = msgs
        BY <4>1, BrokerSame
      <4>2. CASE worker[w].tries < MaxRetries /\ Send(<<worker[w].run, worker[w].tries + 1>>)
        <5>1. worker[w].tries + 1 \in Tries
          BY <1>0, <4>2, JobQueueAssumption DEF TypeOK, Tries
        <5> QED
          BY <1>0, <3>1, <4>2, <5>1, SendEffect
      <4> QED
        BY <3>1, <4>1, <4>2
    <3>4. CASE InBroker(r)' \subseteq InBroker(r)
      BY <2>1, <3>1, <3>2, <3>4
    <3>5. CASE worker[w].run = r /\ \E x : InBroker(r)' \subseteq InBroker(r) \cup {x}
      <4>1. w \in Holders(r)
        BY <3>1, <3>5 DEF Holders
      <4>2. PICK x : InBroker(r)' \subseteq InBroker(r) \cup {x}
        BY <3>5
      <4>3. /\ IsFiniteSet(Holders(r)') /\ IsFiniteSet(InBroker(r)')
            /\ Cardinality(InBroker(r)') + Cardinality(Holders(r)')
                  <= Cardinality(InBroker(r)) + Cardinality(Holders(r))
            /\ Cardinality(Holders(r)') \in Nat /\ Cardinality(InBroker(r)') \in Nat
            /\ Cardinality(Holders(r)) \in Nat /\ Cardinality(InBroker(r)) \in Nat
        <5>1. Gains(InBroker(r)', InBroker(r)) /\ Loses(Holders(r)', Holders(r))
          BY <3>2, <4>1, <4>2 DEF Gains, Loses
        <5> QED
          BY <1>0, <5>1, Traded DEF RunAlone
      <4>4. Cardinality(Senders(r)) \in Nat
        BY <1>0, FS_CardinalityType DEF RunAlone
      <4>5. Copies(r) <= 1 + spent["duplicates"] => Copies(r)' <= 1 + spent'["duplicates"]
        BY <1>2, <3>1, <3>2, <4>3, <4>4 DEF Copies
      <4>6. job[r].status # "unborn"
        BY <1>0, <4>1 DEF RunAlone
      <4> QED
        BY <1>0, <2>0, <3>2, <4>3, <4>5, <4>6 DEF RunAlone
    <3> QED
      BY <3>3, <3>4, <3>5
  <2>12. ASSUME NEW m \in Message, Redeliver(m) PROVE RunAlone(r)'
    <3>1. PICK q \in Runs, i \in Tries : m = <<q, i>>
      BY DEF Message
    <3>2. Send(<<q, i>>) /\ msgs[<<q, i>>] > 0 /\ UNCHANGED <<txn, worker>>
          /\ spent'["duplicates"] = spent["duplicates"] + 1
      BY <1>0, <2>12, <3>1 DEF Redeliver, TypeOK, Count, Counted
    <3>3. Holders(r)' = Holders(r) /\ Senders(r)' = Senders(r)
      BY <3>2 DEF Holders, Senders
    <3>4. CASE r # q
      <4>1. InBroker(r)' = InBroker(r)
        BY <1>0, <3>2, <3>4, SendEffect
      <4>2. spent["duplicates"] <= spent'["duplicates"]
        BY <1>2, <3>2
      <4> QED
        BY <1>0, <2>0, <3>3, <4>1, <4>2, StaysAlone
    <3>5. CASE r = q
      <4>1. PICK x : InBroker(r)' \subseteq InBroker(r) \cup {x}
        BY <1>0, <3>2, <3>5, SendEffect
      <4>2. IsFiniteSet(InBroker(r)') /\ Cardinality(InBroker(r)') <= Cardinality(InBroker(r)) + 1
        BY <1>0, <4>1, AtMostOneMore DEF RunAlone
      <4>3. /\ Cardinality(InBroker(r)') \in Nat /\ Cardinality(InBroker(r)) \in Nat
            /\ Cardinality(Holders(r)) \in Nat /\ Cardinality(Senders(r)) \in Nat
        BY <1>0, <4>2, FS_CardinalityType DEF RunAlone
      <4>4. Copies(r) <= 1 + spent["duplicates"] => Copies(r)' <= 1 + spent'["duplicates"]
        BY <1>2, <3>2, <3>3, <4>2, <4>3 DEF Copies
      <4>5. job[r].status # "unborn"
        <5>1. msgs[<<q, i>>] \in 1 .. msgs[<<q, i>>]
          BY <1>0, <3>2 DEF TypeOK, Message
        <5>2. InBroker(r) # {}
          BY <3>5, <5>1, BrokerCopies
        <5> QED
          BY <1>0, <5>2 DEF RunAlone
      <4> QED
        BY <1>0, <2>0, <3>3, <4>2, <4>4, <4>5 DEF RunAlone
    <3> QED
      BY <3>4, <3>5
  <2>13. CASE UNCHANGED vars
    <3>1. UNCHANGED <<msgs, txn, worker, spent>>
      BY <2>13 DEF vars
    <3>2. Holders(r)' = Holders(r) /\ Senders(r)' = Senders(r) /\ InBroker(r)' = InBroker(r)
      BY <3>1, BrokerSame DEF Holders, Senders
    <3> QED
      BY <2>1, <3>1, <3>2
  <2> QED
    BY <1>4, <2>3, <2>4, <2>5, <2>6, <2>7, <2>8, <2>9, <2>10, <2>11, <2>12, <2>13
    DEF Next, TxnStep, WorkerStep
<1> QED
  BY <1>3, <1>4

(* A run without an idempotency key is executed by nobody beside the       *)
(* worker that has its one message: of that message, the workers that hold *)
(* it and the send still to come there are never more than the broker made *)
(* copies, whatever crashes, retries and aborts happen (jobs/service.py,   *)
(* jobs/tasks.py).                                                         *)
THEOREM UnkeyedAlwaysAlone == Spec => []UnkeyedRunsAlone
<1>1. AllAlone => UnkeyedRunsAlone
  BY DEF AllAlone, RunAlone, Copies, UnkeyedRunsAlone
<1>2. Spec => []AllAlone
  BY AloneInit, AloneStep, StructureAlways, PTL DEF Spec
<1> QED
  BY <1>1, <1>2, PTL
=============================================================================
