--------------------------- MODULE OpsHealth_proofs ---------------------------
(***************************************************************************)
(* Proofs about the health runs, for any jobs, tasks and limits: what both *)
(* the background work and the platform need to know of them.              *)
(***************************************************************************)
EXTENDS OpsHealth, Counting, TLAPS

(* The daily health runs: those committed today, and those of today that   *)
(* have looked and found none, are no more than the tasks; a second one of *)
(* them only begins where none is committed.                               *)
HealthRow == [pc : {"look", "collect", "flush"}, scheduled : BOOLEAN, today : BOOLEAN,
              tries : 0 .. MaxOpsRetries, todo : SUBSET Checks, worst : Severities,
              stuck : SUBSET OpsJobs, broken : BOOLEAN]

OfToday(run)  == run.pc \in {"collect", "flush"} /\ run.scheduled = TRUE /\ run.today = TRUE
ToBeCommitted == {h \in HealthTasks : OfToday(health[h])}

OpsCounted ==
    /\ opsJob \in [OpsJobs -> [status : JobStatuses, late : 0 .. 2]]
    /\ backlog \in BOOLEAN /\ beatDue \in BOOLEAN
    /\ reported \subseteq OpsJobs /\ healthFaults \in 0 .. MaxHealthFaults
    /\ health \in [HealthTasks -> HealthRow \cup {NoHealth}]
    /\ dailyRuns \in Nat
    /\ dailyRuns + Cardinality(ToBeCommitted) <= Cardinality(HealthTasks)

LEMMA OpsCountedInit == OpsInit => OpsCounted
<1> SUFFICES ASSUME OpsInit PROVE OpsCounted
  OBVIOUS
<1>1. ToBeCommitted = {}
  BY DEF OpsInit, ToBeCommitted, OfToday, NoHealth
<1>2. Cardinality({}) = 0 /\ Cardinality(HealthTasks) \in Nat
  BY OpsHealthAssumption, FS_EmptySet, FS_CardinalityType
<1>3. dailyRuns + Cardinality(ToBeCommitted) <= Cardinality(HealthTasks)
  BY <1>1, <1>2 DEF OpsInit
<1>4. opsJob \in [OpsJobs -> [status : JobStatuses, late : 0 .. 2]]
  BY DEF OpsInit, JobStatuses
<1>5. health \in [HealthTasks -> HealthRow \cup {NoHealth}]
  BY DEF OpsInit
<1>6. reported \subseteq OpsJobs /\ healthFaults \in 0 .. MaxHealthFaults /\ dailyRuns \in Nat
  BY OpsHealthAssumption DEF OpsInit
<1>7. backlog \in BOOLEAN /\ beatDue \in BOOLEAN
  BY Zenon DEF OpsInit
<1> QED
  BY <1>3, <1>4, <1>5, <1>6, <1>7 DEF OpsCounted

(* The turn of one task.                                                   *)
LEMMA OneTaskTurns ==
  ASSUME OpsCounted, NEW h \in HealthTasks, NEW run \in HealthRow \cup {NoHealth}, HealthIs(h, run),
         beatDue' \in BOOLEAN, reported' \subseteq OpsJobs, healthFaults' \in 0 .. MaxHealthFaults,
         NEW m \in Nat, dailyRuns' = m,
         \/ m = 0
         \/ m = dailyRuns /\ (OfToday(run) => OfToday(health[h]))
         \/ m = dailyRuns + 1 /\ ~OfToday(run) /\ OfToday(health[h])
  PROVE  OpsCounted'
<1>1. health' = [health EXCEPT ![h] = run] /\ UNCHANGED <<opsJob, backlog>>
  BY DEF HealthIs
<1>2. health' \in [HealthTasks -> HealthRow \cup {NoHealth}] /\ health'[h] = run
      /\ \A i \in HealthTasks : i # h => health'[i] = health[i]
  BY <1>1 DEF OpsCounted
<1>3. PICK A, B, n : A = ToBeCommitted /\ B = ToBeCommitted' /\ n = dailyRuns /\ n \in Nat
  BY DEF OpsCounted
<1>4. A \subseteq HealthTasks /\ B \subseteq HealthTasks /\ n + Cardinality(A) <= Cardinality(HealthTasks)
  BY <1>3 DEF OpsCounted, ToBeCommitted
<1>5. (OfToday(run) => OfToday(health[h])) => B \subseteq A
  <2> SUFFICES ASSUME OfToday(run) => OfToday(health[h]), NEW i \in B PROVE i \in A
    OBVIOUS
  <2>1. i \in HealthTasks /\ OfToday(health'[i])
    BY <1>3 DEF ToBeCommitted, OfToday
  <2> QED
    BY <1>2, <1>3, <2>1 DEF ToBeCommitted
<1>6. ~OfToday(run) => B \subseteq A \ {h}
  <2> SUFFICES ASSUME ~OfToday(run), NEW i \in B PROVE i \in A \ {h}
    OBVIOUS
  <2>1. i \in HealthTasks /\ OfToday(health'[i])
    BY <1>3 DEF ToBeCommitted, OfToday
  <2> QED
    BY <1>2, <1>3, <2>1 DEF ToBeCommitted
<1>7. OfToday(health[h]) => h \in A
  BY <1>3 DEF ToBeCommitted
<1>8. \/ m = 0
      \/ m <= n /\ B \subseteq A
      \/ m <= n + 1 /\ \E i \in A : B \subseteq A \ {i}
  BY <1>3, <1>5, <1>6, <1>7
<1>9. m + Cardinality(B) <= Cardinality(HealthTasks)
  BY <1>3, <1>4, <1>8, OpsHealthAssumption, ClaimsKept
<1> QED
  BY <1>1, <1>2, <1>3, <1>9 DEF OpsCounted

LEMMA NewRunIsRow ==
  ASSUME NEW pc \in {"look", "collect"}, NEW scheduled \in BOOLEAN, NEW tries \in 0 .. MaxOpsRetries
  PROVE  /\ NewRun(pc, scheduled, tries) \in HealthRow
         /\ NewRun(pc, scheduled, tries).pc = pc /\ NewRun(pc, scheduled, tries).scheduled = scheduled
BY DEF NewRun, HealthRow, Checks, Severities

LEMMA AfterFailureIsRow ==
  ASSUME NEW run \in HealthRow
  PROVE  AfterFailure(run) \in HealthRow \cup {NoHealth} /\ ~OfToday(AfterFailure(run))
<1>1. CASE run.scheduled /\ run.tries > 0
  <2>1. run.tries - 1 \in 0 .. MaxOpsRetries
    BY <1>1, OpsHealthAssumption DEF HealthRow
  <2>2. AfterFailure(run) = NewRun("look", TRUE, run.tries - 1)
    BY <1>1 DEF AfterFailure
  <2> QED
    BY <2>1, <2>2, NewRunIsRow DEF OfToday
<1>2. CASE ~(run.scheduled /\ run.tries > 0)
  BY <1>2 DEF AfterFailure, OfToday, NoHealth
<1> QED
  BY <1>1, <1>2

LEMMA OpsCountedStep == OpsCounted /\ [OpsNext]_opsVars => OpsCounted'
<1> SUFFICES ASSUME OpsCounted, [OpsNext]_opsVars PROVE OpsCounted'
  OBVIOUS
<1>1. /\ opsJob \in [OpsJobs -> [status : JobStatuses, late : 0 .. 2]]
      /\ backlog \in BOOLEAN /\ beatDue \in BOOLEAN
      /\ reported \subseteq OpsJobs /\ healthFaults \in 0 .. MaxHealthFaults
      /\ health \in [HealthTasks -> HealthRow \cup {NoHealth}] /\ dailyRuns \in Nat
  BY DEF OpsCounted
<1>2. ASSUME NEW h \in HealthTasks, health[h].pc \in {"look", "collect", "flush"}
      PROVE  health[h] \in HealthRow
  BY <1>1, <1>2 DEF NoHealth
<1>3. ~OfToday(NoHealth)
  BY DEF OfToday, NoHealth
<1>4. CASE UNCHANGED opsVars
  BY <1>4 DEF opsVars, OpsCounted, ToBeCommitted
<1>5. ASSUME NEW to \in JobStatuses, NEW from, JobMoves(from, to) PROVE OpsCounted'
  <2>1. PICK j \in OpsJobs : opsJob' = [opsJob EXCEPT ![j] = [status |-> to, late |-> 0]]
    BY <1>5 DEF JobMoves
  <2>2. opsJob' \in [OpsJobs -> [status : JobStatuses, late : 0 .. 2]]
    BY <1>1, <2>1
  <2> QED
    BY <1>5, <2>2 DEF JobMoves, OpsCounted, ToBeCommitted
<1>6. CASE PlatformMoves
  BY <1>5, <1>6 DEF PlatformMoves, JobStatuses
<1>7. ASSUME WorkerLost \/ \E j \in OpsJobs : Ages(j) PROVE OpsCounted'
  <2>1. opsJob' \in [OpsJobs -> [status : JobStatuses, late : 0 .. 2]]
    <3>1. CASE WorkerLost
      <4>1. PICK j \in OpsJobs : opsJob' = [opsJob EXCEPT ![j].status = "lost"]
        BY <3>1 DEF WorkerLost
      <4>2. [opsJob[j] EXCEPT !.status = "lost"] \in [status : JobStatuses, late : 0 .. 2]
        BY <1>1 DEF JobStatuses
      <4> QED
        BY <1>1, <4>1, <4>2
    <3>2. ASSUME NEW j \in OpsJobs, Ages(j) PROVE opsJob' \in [OpsJobs -> [status : JobStatuses, late : 0 .. 2]]
      <4>1. opsJob' = [opsJob EXCEPT ![j].late = @ + 1] /\ opsJob[j].late < 2
        BY <3>2 DEF Ages
      <4>2. [opsJob[j] EXCEPT !.late = @ + 1] \in [status : JobStatuses, late : 0 .. 2]
        BY <1>1, <4>1
      <4> QED
        BY <1>1, <4>1, <4>2
    <3> QED
      BY <1>7, <3>1, <3>2
  <2>2. UNCHANGED <<backlog, health, dailyRuns, beatDue, reported, healthFaults>>
    BY <1>7 DEF WorkerLost, Ages
  <2> QED
    BY <2>1, <2>2 DEF OpsCounted, ToBeCommitted
<1>8. CASE BacklogChanges
  <2>1. backlog' \in BOOLEAN /\ UNCHANGED <<opsJob, health, dailyRuns, beatDue, reported, healthFaults>>
    BY <1>1, <1>8, Zenon DEF BacklogChanges
  <2> QED
    BY <2>1 DEF OpsCounted, ToBeCommitted
<1>9. CASE Midnight
  <2>1. /\ beatDue' = TRUE /\ dailyRuns' = 0 /\ UNCHANGED <<opsJob, backlog, reported, healthFaults>>
        /\ health' = [h \in HealthTasks |->
             IF health[h] = NoHealth THEN NoHealth ELSE [health[h] EXCEPT !.today = FALSE]]
    BY <1>9 DEF Midnight
  <2>2. ASSUME NEW h \in HealthTasks, health[h] # NoHealth
        PROVE  [health[h] EXCEPT !.today = FALSE] \in HealthRow
    BY <1>1, <2>2 DEF HealthRow
  <2>3. health' \in [HealthTasks -> HealthRow \cup {NoHealth}]
    BY <2>1, <2>2
  <2>4. Cardinality(ToBeCommitted') <= Cardinality(HealthTasks)
    <3>1. PICK B : B = ToBeCommitted' /\ B \subseteq HealthTasks
      BY DEF ToBeCommitted
    <3>2. Cardinality(B) <= Cardinality(HealthTasks)
      BY <3>1, OpsHealthAssumption, FS_Subset
    <3> QED
      BY <3>1, <3>2
  <2>5. Cardinality(ToBeCommitted') \in Nat
    <3>1. PICK B : B = ToBeCommitted' /\ B \subseteq HealthTasks
      BY DEF ToBeCommitted
    <3>2. IsFiniteSet(B)
      BY <3>1, OpsHealthAssumption, FS_Subset
    <3> QED
      BY <3>1, <3>2, FS_CardinalityType
  <2> QED
    BY <1>1, <2>1, <2>3, <2>4, <2>5 DEF OpsCounted
<1>10. ASSUME NEW h \in HealthTasks, BeatStarts(h) \/ ManualRun(h) PROVE OpsCounted'
  <2>1. PICK run \in HealthRow : HealthIs(h, run) /\ ~OfToday(run)
    <3>1. MaxOpsRetries \in 0 .. MaxOpsRetries /\ 0 \in 0 .. MaxOpsRetries
      BY OpsHealthAssumption
    <3>2. CASE BeatStarts(h)
      BY <3>1, <3>2, NewRunIsRow DEF BeatStarts, OfToday
    <3>3. CASE ManualRun(h)
      BY <3>1, <3>3, NewRunIsRow DEF ManualRun, OfToday
    <3> QED
      BY <1>10, <3>2, <3>3
  <2>2. beatDue' \in BOOLEAN /\ UNCHANGED <<dailyRuns, reported, healthFaults>>
    BY <1>1, <1>10 DEF BeatStarts, ManualRun
  <2> QED
    BY <1>1, <2>1, <2>2, OneTaskTurns
<1>11. ASSUME NEW h \in HealthTasks, LookForToday(h) PROVE OpsCounted'
  <2>1. health[h] \in HealthRow /\ UNCHANGED <<dailyRuns, beatDue, reported, healthFaults>>
    BY <1>2, <1>11 DEF LookForToday
  <2>2. PICK looked : looked = [health[h] EXCEPT !.pc = "collect", !.today = TRUE] /\ looked \in HealthRow
    <3>1. [health[h] EXCEPT !.pc = "collect", !.today = TRUE] \in HealthRow
      BY <2>1 DEF HealthRow
    <3> QED
      BY <3>1
  <2>3. \/ dailyRuns = 0 /\ HealthIs(h, looked)
        \/ HealthIs(h, NoHealth)
        \/ HealthIs(h, AfterFailure(health[h]))
    BY <1>11, <2>2, Zenon DEF LookForToday
  <2>4. CASE dailyRuns = 0 /\ HealthIs(h, looked)
    BY <1>1, <2>1, <2>2, <2>4, OneTaskTurns
  <2>5. CASE HealthIs(h, NoHealth)
    BY <1>1, <1>3, <2>1, <2>5, OneTaskTurns
  <2>6. CASE HealthIs(h, AfterFailure(health[h]))
    BY <1>1, <2>1, <2>6, AfterFailureIsRow, OneTaskTurns
  <2> QED
    BY <2>3, <2>4, <2>5, <2>6
<1>12. ASSUME NEW h \in HealthTasks, Collect(h) PROVE OpsCounted'
  <2>1. PICK row : row = health[h] /\ row \in HealthRow /\ row.pc = "collect"
    BY <1>2, <1>12 DEF Collect
  <2>2. PICK pc, todo, worst, stuck, broken, run :
          /\ run = [row EXCEPT !.pc = pc, !.todo = todo, !.broken = broken, !.worst = worst, !.stuck = stuck]
          /\ pc \in {"collect", "flush"} /\ todo \subseteq row.todo /\ worst \in Severities
          /\ stuck \in {StuckJobs, row.stuck} /\ broken \in BOOLEAN
          /\ HealthIs(h, run)
    <3>1. PICK check \in health[h].todo, fails \in BOOLEAN :
            HealthIs(h, [health[h] EXCEPT
              !.pc = IF health[h].todo \ {check} = {} THEN "flush" ELSE "collect",
              !.todo = health[h].todo \ {check}, !.broken = health[h].broken \/ fails,
              !.worst = Worst({@, IF health[h].broken \/ fails THEN "critical" ELSE SeverityOf(check)}),
              !.stuck = IF check = "stuck" /\ ~(health[h].broken \/ fails) THEN StuckJobs ELSE @])
      BY <1>12, ZenonT(60) DEF Collect
    <3>2. PICK broken, todo, worst, stuck, pc :
            /\ broken = (row.broken \/ fails) /\ todo = row.todo \ {check}
            /\ worst = Worst({row.worst, IF broken THEN "critical" ELSE SeverityOf(check)})
            /\ stuck = (IF check = "stuck" /\ ~broken THEN StuckJobs ELSE row.stuck)
            /\ pc = IF todo = {} THEN "flush" ELSE "collect"
      OBVIOUS
    <3>3. PICK run : /\ run = [row EXCEPT !.pc = pc, !.todo = todo, !.broken = broken, !.worst = worst, !.stuck = stuck]
                     /\ HealthIs(h, run)
      BY <2>1, <3>1, <3>2, Zenon
    <3>4. broken \in BOOLEAN
      BY <3>2
    <3>5. worst \in Severities
      BY <3>2 DEF Worst, Severities
    <3>6. pc \in {"collect", "flush"} /\ todo \subseteq row.todo
      BY <3>2
    <3>7. stuck \in {StuckJobs, row.stuck}
      BY <3>2, Zenon
    <3> QED
      BY <3>3, <3>4, <3>5, <3>6, <3>7, Zenon
  <2>3. run \in HealthRow /\ (OfToday(run) => OfToday(row))
    <3>1. StuckJobs \subseteq OpsJobs
      BY DEF StuckJobs
    <3> QED
      BY <2>1, <2>2, <3>1 DEF HealthRow, OfToday
  <2>4. healthFaults' \in 0 .. MaxHealthFaults /\ UNCHANGED <<dailyRuns, beatDue, reported>>
    BY <1>1, <1>12, OpsHealthAssumption DEF Collect
  <2> QED
    BY <1>1, <2>1, <2>2, <2>3, <2>4, OneTaskTurns
<1>13. ASSUME NEW h \in HealthTasks, CommitHealth(h) PROVE OpsCounted'
  <2>1. PICK row : row = health[h] /\ row \in HealthRow /\ row.pc = "flush"
    BY <1>2, <1>13 DEF CommitHealth
  <2>2. /\ HealthIs(h, NoHealth) /\ UNCHANGED <<beatDue, healthFaults>>
        /\ reported' \subseteq OpsJobs
    BY <1>1, <1>13, <2>1 DEF CommitHealth, HealthRow
  <2>3. \/ dailyRuns' = dailyRuns
        \/ dailyRuns' = dailyRuns + 1 /\ OfToday(row)
    BY <1>13, <2>1 DEF CommitHealth, OfToday, HealthRow
  <2>4. dailyRuns + 1 \in Nat
    BY <1>1
  <2> QED
    BY <1>1, <1>3, <2>1, <2>2, <2>3, <2>4, OneTaskTurns
<1>14. ASSUME NEW h \in HealthTasks, FlushFails(h) PROVE OpsCounted'
  <2>1. health[h] \in HealthRow
    BY <1>2, <1>14 DEF FlushFails
  <2>2. /\ HealthIs(h, AfterFailure(health[h])) /\ UNCHANGED <<dailyRuns, beatDue, reported>>
        /\ healthFaults' \in 0 .. MaxHealthFaults
    BY <1>1, <1>14, OpsHealthAssumption DEF FlushFails
  <2> QED
    BY <1>1, <2>1, <2>2, AfterFailureIsRow, OneTaskTurns
<1> QED
  BY <1>4, <1>6, <1>7, <1>8, <1>9, <1>10, <1>11, <1>12, <1>13, <1>14 DEF OpsNext, HealthStep

LEMMA OpsCountedTyped == OpsCounted => OpsTypeOK
<1> SUFFICES ASSUME OpsCounted PROVE OpsTypeOK
  OBVIOUS
<1>1. IsFiniteSet(ToBeCommitted)
  BY OpsHealthAssumption, FS_Subset DEF ToBeCommitted
<1>2. Cardinality(ToBeCommitted) \in Nat /\ Cardinality(HealthTasks) \in Nat
  BY <1>1, OpsHealthAssumption, FS_CardinalityType
<1>3. dailyRuns \in 0 .. Cardinality(HealthTasks)
  BY <1>2 DEF OpsCounted
<1>4. \A h \in HealthTasks : health[h] = NoHealth \/ health[h] \in HealthRow
  BY DEF OpsCounted
<1> QED
  BY <1>3, <1>4 DEF OpsCounted, OpsTypeOK, HealthRow
=============================================================================
