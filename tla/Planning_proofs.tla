--------------------------- MODULE Planning_proofs ---------------------------
(***************************************************************************)
(* Proofs about plans and rankings: roadmaps of any length over any pages, *)
(* content batches of any candidates and schedules, clusters of any        *)
(* queries, scores of keywords with any features and signals, and the      *)
(* types of all of them.                                                   *)
(***************************************************************************)
EXTENDS MCPlanning, Counting, TLAPS

----------------------------------------------------------------------------
(* Roadmaps: weeks, risk buckets, dependencies.                            *)
(* The weeks each risk bucket may use.                                     *)
Bucket(risk, type) ==
    IF Urgent(risk, type) THEN 1 .. 2
    ELSE IF risk = "medium" THEN 2 .. Greatest(2, horizon \div 2)
    ELSE Greatest(3, horizon - 2) .. horizon

InBucket ==
    \A k \in DOMAIN items : items[k].week \in Bucket(items[k].risk_level, items[k].action_type)

FixesBefore(k, url) ==
    {j \in 1 .. k - 1 : items[j].action_type = "technical_fix" /\ items[j].url = url}

LastOf(j, fixes) == IF fixes = {} THEN j = 0 ELSE j \in fixes /\ \A i \in fixes : i <= j

(* url_to_item_id names the last technical_fix of each url so far.         *)
FixOfIsLast == \A u \in Urls : LastOf(fixOf[u], FixesBefore(Len(items) + 1, u))

Depends ==
    \A k \in DOMAIN items :
        IF items[k].action_type = "refresh_page" /\ items[k].url \in Urls
        THEN LastOf(items[k].dependency, FixesBefore(k, items[k].url))
        ELSE items[k].dependency = 0

----------------------------------------------------------------------------
(* Whatever the index, a row falls in the bucket of its risk.              *)
LEMMA WeekInBucket ==
  ASSUME horizon \in Horizons, NEW index \in Nat, NEW risk, NEW type
  PROVE  WeekForItem(index, risk, type) \in Bucket(risk, type)
<1>1. index % 2 \in 0 .. 1 /\ index % 3 \in 0 .. 2
  OBVIOUS
<1>2. CASE horizon = 4
  BY <1>1, <1>2 DEF WeekForItem, Bucket, Least, Greatest
<1>3. CASE horizon = 8
  BY <1>1, <1>3 DEF WeekForItem, Bucket, Least, Greatest
<1>4. CASE horizon = 16
  BY <1>1, <1>4 DEF WeekForItem, Bucket, Least, Greatest
<1> QED
  BY <1>2, <1>3, <1>4 DEF Horizons

(* Buckets lie in the horizon and follow one another.                      *)
LEMMA BucketsInOrder ==
  ASSUME horizon \in Horizons
  PROVE  /\ \A risk, type : Bucket(risk, type) \subseteq 1 .. horizon
         /\ 2 <= Greatest(2, horizon \div 2)
         /\ Greatest(2, horizon \div 2) < Greatest(3, horizon - 2)
<1>1. CASE horizon = 4
  BY <1>1 DEF Bucket, Greatest
<1>2. CASE horizon = 8
  BY <1>2 DEF Bucket, Greatest
<1>3. CASE horizon = 16
  BY <1>3 DEF Bucket, Greatest
<1> QED
  BY <1>1, <1>2, <1>3 DEF Horizons

(* One pass of the loop appends one row and leaves the others alone.       *)
LEMMA AddItemEffect ==
  ASSUME PlanTypeOK, NEW c \in CandidateKinds, NEW url \in Urls \cup {NoUrl}, AddItem(c.type, c.risk, url)
  PROVE  /\ PlanTypeOK'
         /\ Len(items) \in Nat /\ Len(items) < MaxRows /\ Len(items') = Len(items) + 1
         /\ DOMAIN items = 1 .. Len(items) /\ DOMAIN items' = 1 .. Len(items) + 1
         /\ \A k \in 1 .. Len(items) : items'[k] = items[k]
         /\ items'[Len(items) + 1].action_type = c.type
         /\ items'[Len(items) + 1].risk_level = c.risk
         /\ items'[Len(items) + 1].url = url
         /\ items'[Len(items) + 1].week = WeekForItem(Len(items), c.risk, c.type)
         /\ items'[Len(items) + 1].dependency = Dependency(c.type, url)
<1> DEFINE item == [action_type |-> c.type, risk_level |-> c.risk, url |-> url,
                    week |-> WeekForItem(Len(items), c.risk, c.type),
                    dependency |-> Dependency(c.type, url)]
<1>1. items' = Append(items, item) /\ Len(items) < MaxRows /\ horizon' = horizon
  BY DEF AddItem
<1>2. horizon \in Horizons /\ items \in Seq(Item) /\ fixOf \in [Urls -> 0 .. MaxRows]
  BY DEF PlanTypeOK
<1>3. Len(items) \in Nat
  BY <1>2
<1>4. WeekForItem(Len(items), c.risk, c.type) \in 1 .. horizon
  BY <1>2, <1>3, WeekInBucket, BucketsInOrder
<1>5. Dependency(c.type, url) \in 0 .. MaxRows
  BY <1>2, RoadmapAssumption DEF Dependency
<1>6. c.type \in ActionTypes /\ c.risk \in Risks
  BY DEF CandidateKinds
<1>7. item \in Item
  BY <1>4, <1>5, <1>6 DEF Item
<1>8. fixOf' \in [Urls -> 0 .. MaxRows]
  BY <1>1, <1>2, <1>3, RoadmapAssumption DEF AddItem, Remember
<1>9. Item' = Item
  BY <1>1 DEF Item
<1> HIDE DEF item
<1>10. items' \in Seq(Item)
  BY <1>1, <1>2, <1>7
<1>11. PlanTypeOK'
  BY <1>1, <1>2, <1>8, <1>9, <1>10 DEF PlanTypeOK
<1>12. /\ Len(items') = Len(items) + 1
       /\ DOMAIN items = 1 .. Len(items) /\ DOMAIN items' = 1 .. Len(items) + 1
       /\ \A k \in 1 .. Len(items) : items'[k] = items[k]
       /\ items'[Len(items) + 1] = item
  BY <1>1, <1>2, <1>3, <1>7
<1>13. /\ item.action_type = c.type /\ item.risk_level = c.risk /\ item.url = url
       /\ item.week = WeekForItem(Len(items), c.risk, c.type)
       /\ item.dependency = Dependency(c.type, url)
  BY DEF item
<1> QED
  BY <1>1, <1>3, <1>11, <1>12, <1>13

(* Every row gets a week of the roadmap's horizon.                         *)
THEOREM WeeksInHorizon == PlanSpec => []PlanTypeOK
<1>1. PlanInit => PlanTypeOK
  BY RoadmapAssumption DEF PlanInit, PlanTypeOK
<1>2. PlanTypeOK /\ [PlanNext]_planVars => PlanTypeOK'
  <2>1. CASE UNCHANGED planVars
    BY <2>1 DEF planVars, PlanTypeOK, Item
  <2> QED
    BY <2>1, AddItemEffect DEF PlanNext
<1> QED
  BY <1>1, <1>2, PTL DEF PlanSpec

(* At every horizon and place in the ranking, what is urgent is due no     *)
(* later than a medium risk, and both before the rest.                     *)
THEOREM BucketsDoNotInterleave == PlanSpec => []RiskBuckets
<1>1. PlanInit => InBucket
  BY DEF PlanInit, InBucket
<1>2. PlanTypeOK /\ InBucket /\ [PlanNext]_planVars => InBucket'
  <2> SUFFICES ASSUME PlanTypeOK, InBucket, [PlanNext]_planVars PROVE InBucket'
    OBVIOUS
  <2>1. ASSUME NEW c \in CandidateKinds, NEW url \in Urls \cup {NoUrl}, AddItem(c.type, c.risk, url)
        PROVE  InBucket'
    <3>1. WeekForItem(Len(items), c.risk, c.type) \in Bucket(c.risk, c.type)
      BY <2>1, AddItemEffect, WeekInBucket DEF PlanTypeOK
    <3>2. horizon' = horizon
      BY <2>1 DEF AddItem
    <3> SUFFICES ASSUME NEW k \in DOMAIN items'
                 PROVE  items'[k].week \in Bucket(items[k].risk_level, items[k].action_type)'
      BY DEF InBucket
    <3>3. /\ Len(items) \in Nat /\ DOMAIN items = 1 .. Len(items) /\ DOMAIN items' = 1 .. Len(items) + 1
          /\ \A i \in 1 .. Len(items) : items'[i] = items[i]
          /\ items'[Len(items) + 1].action_type = c.type /\ items'[Len(items) + 1].risk_level = c.risk
          /\ items'[Len(items) + 1].week = WeekForItem(Len(items), c.risk, c.type)
      BY <2>1, AddItemEffect
    <3>4. CASE k \in 1 .. Len(items)
      <4>1. items'[k] = items[k] /\ items[k].week \in Bucket(items[k].risk_level, items[k].action_type)
        BY <3>3, <3>4 DEF InBucket
      <4> QED
        BY <3>2, <4>1 DEF Bucket
    <3>5. CASE k = Len(items) + 1
      BY <3>1, <3>2, <3>3, <3>5 DEF Bucket
    <3> QED
      BY <3>3, <3>4, <3>5
  <2>2. CASE UNCHANGED planVars
    BY <2>2 DEF planVars, InBucket, Bucket
  <2> QED
    BY <2>1, <2>2 DEF PlanNext
<1>3. PlanTypeOK /\ InBucket => RiskBuckets
  <2> SUFFICES ASSUME PlanTypeOK, InBucket, NEW j \in DOMAIN items, NEW k \in DOMAIN items,
                      ~UrgentItem(items[k])
               PROVE  /\ UrgentItem(items[j]) => items[j].week <= items[k].week
                      /\ (items[k].risk_level # "medium" /\
                            (UrgentItem(items[j]) \/ items[j].risk_level = "medium")) =>
                              items[j].week < items[k].week
    BY DEF RiskBuckets
  <2>1. /\ 2 <= Greatest(2, horizon \div 2)
        /\ Greatest(2, horizon \div 2) < Greatest(3, horizon - 2)
        /\ Greatest(2, horizon \div 2) \in Int /\ Greatest(3, horizon - 2) \in Int
    BY BucketsInOrder DEF PlanTypeOK, Horizons, Greatest
  <2> DEFINE mid == Greatest(2, horizon \div 2)
             tail == Greatest(3, horizon - 2)
  <2>2. ASSUME NEW i \in DOMAIN items
        PROVE  /\ items[i].week \in Int
               /\ UrgentItem(items[i]) => items[i].week <= 2
               /\ ~UrgentItem(items[i]) /\ items[i].risk_level = "medium" =>
                     2 <= items[i].week /\ items[i].week <= mid
               /\ ~UrgentItem(items[i]) /\ items[i].risk_level # "medium" => tail <= items[i].week
    <3>1. items[i].week \in Bucket(items[i].risk_level, items[i].action_type)
      BY DEF InBucket
    <3>2. horizon \in Int
      BY DEF PlanTypeOK, Horizons
    <3> QED
      BY <2>1, <3>1, <3>2 DEF Bucket, UrgentItem
  <2> HIDE DEF mid, tail
  <2>3. 2 <= mid /\ mid < tail /\ mid \in Int /\ tail \in Int
    BY <2>1 DEF mid, tail
  <2> QED
    BY <2>2, <2>3
<1> QED
  BY <1>1, <1>2, <1>3, WeeksInHorizon, PTL DEF PlanSpec

----------------------------------------------------------------------------
(* What one pass adds to the technical fixes of a url, and to fixOf.       *)
LEMMA FixesStep ==
  ASSUME PlanTypeOK, FixOfIsLast, NEW c \in CandidateKinds, NEW url \in Urls \cup {NoUrl},
         AddItem(c.type, c.risk, url), NEW u \in Urls
  PROVE  LastOf(fixOf[u], FixesBefore(Len(items) + 1, u))'
<1> DEFINE n == Len(items)
           before == FixesBefore(n + 1, u)
           after  == FixesBefore(Len(items) + 1, u)'
<1>1. n \in Nat /\ Len(items') = n + 1 /\ n + 1 - 1 = n /\ (n + 1) + 1 - 1 = n + 1
  <2>1. n \in Nat /\ Len(items') = n + 1
    BY AddItemEffect
  <2> QED
    BY <2>1
<1>2. \A j \in 1 .. n : items'[j] = items[j]
  BY AddItemEffect
<1>3. items'[n + 1].action_type = c.type /\ items'[n + 1].url = url
  BY AddItemEffect
<1>4. before = {j \in 1 .. n : items[j].action_type = "technical_fix" /\ items[j].url = u}
  BY <1>1 DEF FixesBefore
<1>5. after = {j \in 1 .. n + 1 : items'[j].action_type = "technical_fix" /\ items'[j].url = u}
  BY <1>1 DEF FixesBefore
<1>6. LastOf(fixOf[u], before)
  BY DEF FixOfIsLast
<1>7. CASE c.type = "technical_fix" /\ url = u
  <2>1. fixOf'[u] = n + 1
    BY <1>7 DEF AddItem, Remember, PlanTypeOK
  <2>2. n + 1 \in after /\ \A j \in after : j <= n + 1
    BY <1>1, <1>3, <1>5, <1>7
  <2> QED
    BY <2>1, <2>2 DEF LastOf
<1>8. CASE ~(c.type = "technical_fix" /\ url = u)
  <2>1. fixOf'[u] = fixOf[u]
    BY <1>8 DEF AddItem, Remember, PlanTypeOK
  <2>2. after = before
    <3> HIDE DEF n
    <3>1. \A j : j \in 1 .. n + 1 <=> j \in 1 .. n \/ j = n + 1
      BY <1>1
    <3>2. \A j \in 1 .. n : items'[j].action_type = items[j].action_type /\ items'[j].url = items[j].url
      BY <1>2
    <3> HIDE DEF before, after
    <3>3. \A j : j \in after <=> j \in before
      BY <1>3, <1>4, <1>5, <1>8, <3>1, <3>2
    <3>4. after \subseteq 1 .. n + 1 /\ before \subseteq 1 .. n
      BY <1>4, <1>5
    <3> QED
      BY <3>3, <3>4
  <2> QED
    BY <1>6, <2>1, <2>2 DEF LastOf
<1> QED
  BY <1>7, <1>8

(* A refresh depends on the last technical_fix of its url that is ranked   *)
(* before it, and on nothing if there is none.                             *)
THEOREM DependenciesAreLastFixes == PlanSpec => []DependencyIsLastFix
<1>1. PlanInit => FixOfIsLast /\ Depends
  <2> SUFFICES ASSUME PlanInit PROVE FixOfIsLast /\ Depends
    OBVIOUS
  <2>1. Len(items) + 1 - 1 = 0
    BY DEF PlanInit
  <2>2. \A u \in Urls : fixOf[u] = 0 /\ FixesBefore(Len(items) + 1, u) = {}
    <3>1. \A j : j \notin 1 .. Len(items) + 1 - 1
      BY <2>1
    <3>2. \A u : FixesBefore(Len(items) + 1, u) = {}
      BY <3>1 DEF FixesBefore
    <3>3. \A u \in Urls : fixOf[u] = 0
      BY DEF PlanInit
    <3> QED
      BY <3>2, <3>3
  <2> QED
    BY <2>2 DEF PlanInit, FixOfIsLast, Depends, LastOf
<1>2. PlanTypeOK /\ FixOfIsLast /\ Depends /\ [PlanNext]_planVars => FixOfIsLast' /\ Depends'
  <2> SUFFICES ASSUME PlanTypeOK, FixOfIsLast, Depends, [PlanNext]_planVars PROVE FixOfIsLast' /\ Depends'
    OBVIOUS
  <2>1. ASSUME NEW c \in CandidateKinds, NEW url \in Urls \cup {NoUrl}, AddItem(c.type, c.risk, url)
        PROVE  FixOfIsLast' /\ Depends'
    <3>1. FixOfIsLast'
      BY <2>1, FixesStep DEF FixOfIsLast
    <3> DEFINE n == Len(items)
    <3>2. /\ n \in Nat /\ DOMAIN items = 1 .. n /\ DOMAIN items' = 1 .. n + 1
          /\ \A k \in 1 .. n : items'[k] = items[k]
      BY <2>1, AddItemEffect
    <3>3. /\ items'[n + 1].action_type = c.type /\ items'[n + 1].url = url
          /\ items'[n + 1].dependency = Dependency(c.type, url)
      BY <2>1, AddItemEffect
    <3>4. \A u : LastOf(fixOf[u], FixesBefore(n + 1, u)) \/ u \notin Urls
      BY DEF FixOfIsLast
    <3> HIDE DEF n
    <3>5. ASSUME NEW k \in 1 .. n + 1, NEW u
          PROVE  {j \in 1 .. k - 1 : items'[j].action_type = "technical_fix" /\ items'[j].url = u}
                   = FixesBefore(k, u)
      <4>1. \A j \in 1 .. k - 1 : j \in 1 .. n
        BY <3>2
      <4>2. \A j \in 1 .. k - 1 : items'[j] = items[j]
        BY <3>2, <4>1
      <4> QED
        BY <4>2 DEF FixesBefore
    <3> SUFFICES ASSUME NEW k \in 1 .. n + 1
                 PROVE  IF items'[k].action_type = "refresh_page" /\ items'[k].url \in Urls
                        THEN LastOf(items'[k].dependency, FixesBefore(k, items'[k].url))
                        ELSE items'[k].dependency = 0
      BY <3>1, <3>2, <3>5 DEF Depends, FixesBefore, LastOf
    <3>6. CASE k \in 1 .. n
      BY <3>2, <3>6 DEF Depends
    <3>7. CASE k = n + 1
      BY <3>3, <3>4, <3>7 DEF Dependency
    <3> QED
      BY <3>2, <3>6, <3>7
  <2>2. CASE UNCHANGED planVars
    BY <2>2 DEF planVars, FixOfIsLast, Depends, LastOf, FixesBefore
  <2> QED
    BY <2>1, <2>2 DEF PlanNext
<1>3. Depends => DependencyIsLastFix
  BY DEF Depends, DependencyIsLastFix, LastOf, FixesBefore
<1> QED
  BY <1>1, <1>2, <1>3, WeeksInHorizon, PTL DEF PlanSpec

----------------------------------------------------------------------------
(* Content batches. The argument reads the fields of a batch, whatever the *)
(* ranges of its values are: it serves some days and a whole week alike.   *)
OneBatch == \A b, c \in Batches : b = c

TurnFields == {"pc", "kind", "at", "day", "seen", "count", "picked", "ended"}

BatchShape ==
    /\ batch = [b \in Batches |-> batch[b]]
    /\ \A b \in Batches : batch[b].pc # "idle" => TurnFields \subseteq DOMAIN batch[b]
    /\ {"enabled", "perWeek", "days", "lastRun"} \subseteq DOMAIN schedule

(* What the batch under way has to do with what is committed: it loaded    *)
(* the present last_run_at, it is newer than every run, and the day of its *)
(* turn is after theirs.                                                   *)
InTurnOf(b) ==
    /\ batch[b].at = started
    /\ batch[b].day \in Nat /\ batch[b].day <= today
    /\ batch[b].seen.lastRun = schedule.lastRun
    /\ batch[b].pc = "written" =>
          batch[b].ended \in Nat /\ batch[b].day <= batch[b].ended /\ batch[b].ended <= today
    /\ runs # {} => schedule.lastRun <= batch[b].day
    /\ \A r \in runs : r.at < started
    /\ batch[b].kind = "beat" /\ batch[b].pc # "begun" => \A r \in runs : r.day < batch[b].day

InTurns ==
    /\ today \in Nat /\ started \in Nat /\ schedule.lastRun \in Nat
    /\ runs # {} => schedule.lastRun <= today
    /\ \A r \in runs : /\ r.at \in Nat /\ r.at <= started
                       /\ r.day \in Nat /\ r.day <= schedule.lastRun
    /\ \A b \in Batches : batch[b].pc # "idle" => InTurnOf(b)
    /\ OneScheduledBatchADay

TurnIInv == BatchShape /\ InTurns

(* The kinds of steps the argument tells apart.                            *)
Quiet ==
    /\ today' \in {today, today + 1}
    /\ UNCHANGED <<runs, batch, started>>
    /\ DOMAIN schedule' = DOMAIN schedule /\ schedule'.lastRun = schedule.lastRun

Begins(b) ==
    /\ batch[b].pc = "idle"
    /\ started' = started + 1
    /\ batch' = [batch EXCEPT ![b] = batch'[b]]
    /\ TurnFields \subseteq DOMAIN batch'[b]
    /\ batch'[b].at = started' /\ batch'[b].day = today /\ batch'[b].seen = schedule
    /\ \/ batch'[b].pc = "begun" /\ batch'[b].kind = "beat"
       \/ batch'[b].pc = "loaded" /\ batch'[b].kind = "manual"
    /\ UNCHANGED <<schedule, runs, today>>

Proceeds(b) ==
    /\ batch[b].pc # "idle"
    /\ batch' = [batch EXCEPT ![b] = batch'[b]]
    /\ TurnFields \subseteq DOMAIN batch'[b]
    /\ batch'[b].pc \notin {"idle", "begun"}
    /\ batch'[b].at = batch[b].at /\ batch'[b].seen = batch[b].seen /\ batch'[b].kind = batch[b].kind
    /\ \/ batch[b].pc # "begun" /\ batch'[b].day = batch[b].day
       \/ batch[b].seen.lastRun # today /\ batch'[b].day = today
    /\ batch'[b].pc = "written" => batch'[b].ended = today
    /\ UNCHANGED <<schedule, runs, today, started>>

Commits(b) ==
    /\ batch[b].pc = "written"
    /\ runs' = runs \cup RunsOf(b)
    /\ schedule' = [schedule EXCEPT !.lastRun = batch[b].ended]
    /\ Finished(b)
    /\ UNCHANGED <<today, started>>

Gives(b) == Finished(b) /\ UNCHANGED <<schedule, runs, today, started>>

TurnStep ==
    Quiet \/ \E b \in Batches : Begins(b) \/ Proceeds(b) \/ Commits(b) \/ Gives(b)

(* A batch takes its turn, picks, writes: whatever the values.             *)
LEMMA TakeProceeds ==
    ASSUME BatchShape, NEW b \in Batches, batch[b].pc = "begun", batch[b].seen.lastRun # today, NEW count,
           batch' = [batch EXCEPT ![b].pc = "loaded", ![b].day = today, ![b].count = count],
           UNCHANGED <<schedule, runs, today, started>>
    PROVE  Proceeds(b)
BY DEF BatchShape, TurnFields, Proceeds

LEMMA PickProceeds ==
    ASSUME BatchShape, NEW b \in Batches, batch[b].pc = "loaded", NEW picked,
           batch' = [batch EXCEPT ![b].pc = "picked", ![b].picked = picked],
           UNCHANGED <<schedule, runs, today, started>>
    PROVE  Proceeds(b)
BY DEF BatchShape, TurnFields, Proceeds

LEMMA WriteProceeds ==
    ASSUME BatchShape, NEW b \in Batches, batch[b].pc = "picked", NEW picked,
           batch' = [batch EXCEPT ![b].pc = "written", ![b].picked = picked, ![b].ended = today],
           UNCHANGED <<schedule, runs, today, started>>
    PROVE  Proceeds(b)
BY DEF BatchShape, TurnFields, Proceeds

LEMMA NextIsTurnStep == BatchShape /\ [Next]_vars => TurnStep
<1> SUFFICES ASSUME BatchShape, [Next]_vars PROVE TurnStep
  OBVIOUS
<1>1. CASE NextDay \/ ApproveCandidate \/ UpdateSchedule \/ UNCHANGED vars
  BY <1>1 DEF NextDay, ApproveCandidate, UpdateSchedule, vars, TurnStep, Quiet, BatchShape
<1>2. ASSUME NEW b \in Batches, LoadSchedules(b) \/ BatchGenerate(b) PROVE TurnStep
  <2>1. PICK pc, kind, count :
            /\ \/ pc = "begun" /\ kind = "beat"
               \/ pc = "loaded" /\ kind = "manual"
            /\ Start(b, pc, kind, count)
    BY <1>2 DEF LoadSchedules, BatchGenerate
  <2>2. batch' = [batch EXCEPT ![b] = [pc |-> pc, kind |-> kind, at |-> started', day |-> today,
                    seen |-> schedule, count |-> count, picked |-> {}, ended |-> today]]
    BY <2>1 DEF Start
  <2>3. batch'[b] = [pc |-> pc, kind |-> kind, at |-> started', day |-> today,
                    seen |-> schedule, count |-> count, picked |-> {}, ended |-> today]
    BY <2>2 DEF BatchShape
  <2>4. TurnFields \subseteq DOMAIN batch'[b]
    BY <2>3 DEF TurnFields
  <2>5. Begins(b)
    <3>1. /\ batch'[b].at = started' /\ batch'[b].day = today /\ batch'[b].seen = schedule
          /\ batch'[b].pc = pc /\ batch'[b].kind = kind
      BY <2>3
    <3>2. batch' = [batch EXCEPT ![b] = batch'[b]]
      BY <2>2, <2>3
    <3> QED
      BY <2>1, <2>4, <3>1, <3>2 DEF Start, Begins
  <2> QED
    BY <2>5 DEF TurnStep
<1>3. ASSUME NEW b \in Batches, TakeTurn(b) \/ PickApproved(b) \/ WriteArticles(b) PROVE TurnStep
  <2>1. CASE TakeTurn(b)
    <3> DEFINE n == ArticlesPerScheduledRun(batch[b].seen.perWeek, DaysOf(batch[b].seen))
    <3>1. /\ batch[b].pc = "begun" /\ batch[b].seen.lastRun # today
          /\ batch' = [batch EXCEPT ![b].pc = "loaded", ![b].day = today, ![b].count = n]
          /\ UNCHANGED <<schedule, runs, today, started>>
      BY <2>1 DEF TakeTurn, Due, Take
    <3> HIDE DEF n
    <3> QED
      BY <3>1, TakeProceeds DEF TurnStep
  <2>2. CASE PickApproved(b)
    <3>1. PICK first : /\ batch[b].pc = "loaded"
                       /\ batch' = [batch EXCEPT ![b].pc = "picked", ![b].picked = first]
                       /\ UNCHANGED <<schedule, runs, today, started>>
      BY <2>2 DEF PickApproved
    <3> QED
      BY <3>1, PickProceeds DEF TurnStep
  <2>3. CASE WriteArticles(b)
    <3>1. PICK written :
              /\ batch[b].pc = "picked"
              /\ batch' = [batch EXCEPT ![b].pc = "written", ![b].picked = written, ![b].ended = today]
              /\ UNCHANGED <<schedule, runs, today, started>>
      BY <2>3 DEF WriteArticles, Write
    <3> QED
      BY <3>1, WriteProceeds DEF TurnStep
  <2> QED
    BY <1>3, <2>1, <2>2, <2>3 DEF TurnStep
<1>4. ASSUME NEW b \in Batches, CommitBatch(b) \/ AbortBatch(b) PROVE TurnStep
  BY <1>4 DEF CommitBatch, AbortBatch, Commits, Gives, TurnStep
<1> QED
  BY <1>1, <1>2, <1>3, <1>4 DEF Next

LEMMA WeekIsTurnStep == BatchShape /\ [Week!Next]_vars => TurnStep
<1> SUFFICES ASSUME BatchShape, [Week!Next]_vars PROVE TurnStep
  OBVIOUS
<1>1. CASE Week!NextDay \/ Week!ApproveCandidate \/ Week!UpdateSchedule \/ UNCHANGED vars
  BY <1>1 DEF Week!NextDay, Week!ApproveCandidate, Week!UpdateSchedule, vars, TurnStep, Quiet, BatchShape
<1>2. ASSUME NEW b \in Batches, Week!LoadSchedules(b) \/ Week!BatchGenerate(b) PROVE TurnStep
  <2>1. PICK pc, kind, count :
            /\ \/ pc = "begun" /\ kind = "beat"
               \/ pc = "loaded" /\ kind = "manual"
            /\ Week!Start(b, pc, kind, count)
    BY <1>2 DEF Week!LoadSchedules, Week!BatchGenerate
  <2>2. batch' = [batch EXCEPT ![b] = [pc |-> pc, kind |-> kind, at |-> started', day |-> today,
                    seen |-> schedule, count |-> count, picked |-> {}, ended |-> today]]
    BY <2>1 DEF Week!Start
  <2>3. batch'[b] = [pc |-> pc, kind |-> kind, at |-> started', day |-> today,
                    seen |-> schedule, count |-> count, picked |-> {}, ended |-> today]
    BY <2>2 DEF BatchShape
  <2>4. TurnFields \subseteq DOMAIN batch'[b]
    BY <2>3 DEF TurnFields
  <2>5. Begins(b)
    <3>1. /\ batch'[b].at = started' /\ batch'[b].day = today /\ batch'[b].seen = schedule
          /\ batch'[b].pc = pc /\ batch'[b].kind = kind
      BY <2>3
    <3>2. batch' = [batch EXCEPT ![b] = batch'[b]]
      BY <2>2, <2>3
    <3> QED
      BY <2>1, <2>4, <3>1, <3>2 DEF Week!Start, Begins
  <2> QED
    BY <2>5 DEF TurnStep
<1>3. ASSUME NEW b \in Batches, Week!TakeTurn(b) \/ Week!PickApproved(b) \/ Week!WriteArticles(b) PROVE TurnStep
  <2>1. CASE Week!TakeTurn(b)
    <3> DEFINE n == Week!ArticlesPerScheduledRun(batch[b].seen.perWeek, Week!DaysOf(batch[b].seen))
    <3>1. /\ batch[b].pc = "begun" /\ batch[b].seen.lastRun # today
          /\ batch' = [batch EXCEPT ![b].pc = "loaded", ![b].day = today, ![b].count = n]
          /\ UNCHANGED <<schedule, runs, today, started>>
      BY <2>1 DEF Week!TakeTurn, Week!Due, Week!Take
    <3> HIDE DEF n
    <3> QED
      BY <3>1, TakeProceeds DEF TurnStep
  <2>2. CASE Week!PickApproved(b)
    <3>1. PICK first : /\ batch[b].pc = "loaded"
                       /\ batch' = [batch EXCEPT ![b].pc = "picked", ![b].picked = first]
                       /\ UNCHANGED <<schedule, runs, today, started>>
      BY <2>2 DEF Week!PickApproved
    <3> QED
      BY <3>1, PickProceeds DEF TurnStep
  <2>3. CASE Week!WriteArticles(b)
    <3>1. PICK written :
              /\ batch[b].pc = "picked"
              /\ batch' = [batch EXCEPT ![b].pc = "written", ![b].picked = written, ![b].ended = today]
              /\ UNCHANGED <<schedule, runs, today, started>>
      BY <2>3 DEF Week!WriteArticles, Week!Write
    <3> QED
      BY <3>1, WriteProceeds DEF TurnStep
  <2> QED
    BY <1>3, <2>1, <2>2, <2>3 DEF TurnStep
<1>4. ASSUME NEW b \in Batches, Week!CommitBatch(b) \/ Week!AbortBatch(b) PROVE TurnStep
  BY <1>4 DEF Week!CommitBatch, Week!AbortBatch, Week!RunsOf, Week!Finished, Week!Idle,
              Commits, Gives, RunsOf, Finished, Idle, TurnStep
<1> QED
  BY <1>1, <1>2, <1>3, <1>4 DEF Week!Next

(* One batch at a time: whatever the kind of step, the turns follow one    *)
(* another.                                                                *)
LEMMA TurnsStep == OneBatch /\ TurnIInv /\ TurnStep => TurnIInv'
<1> SUFFICES ASSUME OneBatch, TurnIInv, TurnStep PROVE TurnIInv'
  OBVIOUS
<1>0. BatchShape /\ InTurns
  BY DEF TurnIInv
<1>1. CASE Quiet
  <2>1. BatchShape'
    BY <1>0, <1>1 DEF Quiet, BatchShape
  <2>2. \A b \in Batches : batch[b].pc # "idle" => InTurnOf(b)'
    BY <1>0, <1>1 DEF Quiet, InTurns, InTurnOf
  <2>3. OneScheduledBatchADay'
    BY <1>0, <1>1 DEF Quiet, InTurns, OneScheduledBatchADay, Scheduled
  <2> QED
    BY <1>0, <1>1, <2>1, <2>2, <2>3 DEF Quiet, InTurns, TurnIInv
<1>2. ASSUME NEW b \in Batches, Begins(b) PROVE TurnIInv'
  <2>1. \A c \in Batches : c = b
    BY DEF OneBatch
  <2>2. BatchShape'
    BY <1>0, <1>2, <2>1 DEF Begins, BatchShape
  <2>3. OneScheduledBatchADay'
    BY <1>0, <1>2 DEF Begins, InTurns, OneScheduledBatchADay, Scheduled
  <2>4. InTurnOf(b)'
    BY <1>0, <1>2 DEF Begins, InTurns, InTurnOf
  <2> QED
    BY <1>0, <1>2, <2>1, <2>2, <2>3, <2>4 DEF Begins, InTurns, TurnIInv
<1>3. ASSUME NEW b \in Batches, Proceeds(b) PROVE TurnIInv'
  <2>1. \A c \in Batches : c = b
    BY DEF OneBatch
  <2>2. BatchShape'
    BY <1>0, <1>3, <2>1 DEF Proceeds, BatchShape
  <2>3. OneScheduledBatchADay'
    BY <1>0, <1>3 DEF Proceeds, InTurns, OneScheduledBatchADay, Scheduled
  <2>4. InTurnOf(b)
    BY <1>0, <1>3 DEF Proceeds, InTurns
  <2>5. InTurnOf(b)'
    BY <1>0, <1>3, <2>4 DEF Proceeds, InTurns, InTurnOf
  <2> QED
    BY <1>0, <1>3, <2>1, <2>2, <2>3, <2>5 DEF Proceeds, InTurns, TurnIInv
<1>4. ASSUME NEW b \in Batches, Commits(b) PROVE TurnIInv'
  <2>1. \A c \in Batches : c = b
    BY DEF OneBatch
  <2>2. /\ batch' = [batch EXCEPT ![b] = [pc |-> "idle"]] /\ batch'[b].pc = "idle"
        /\ schedule' = [schedule EXCEPT !.lastRun = batch[b].ended]
        /\ schedule'.lastRun = batch[b].ended /\ DOMAIN schedule' = DOMAIN schedule
        /\ runs' = runs \cup RunsOf(b) /\ today' = today /\ started' = started
    BY <1>0, <1>4 DEF Commits, Finished, Idle, BatchShape
  <2>3. BatchShape'
    BY <1>0, <2>1, <2>2 DEF BatchShape
  <2>4. /\ batch[b].at = started /\ batch[b].day \in Nat /\ batch[b].ended \in Nat
        /\ batch[b].day <= batch[b].ended /\ batch[b].ended <= today
        /\ \A r \in runs : r.at < started /\ r.day <= batch[b].day
    BY <1>0, <1>4 DEF Commits, InTurns, InTurnOf
  <2>5. \A r \in RunsOf(b) : r.at = started /\ r.day = batch[b].day /\ r.kind = batch[b].kind
    BY <2>4 DEF RunsOf
  <2>6. batch[b].kind = "beat" => \A r \in runs : r.day < batch[b].day
    BY <1>0, <1>4 DEF Commits, InTurns, InTurnOf
  <2>7. OneScheduledBatchADay'
    <3> SUFFICES ASSUME NEW r \in runs', NEW s \in runs', r.kind = "beat", s.kind = "beat", r.day = s.day
                 PROVE  r.at = s.at
      BY DEF OneScheduledBatchADay, Scheduled
    <3>1. CASE r \in runs /\ s \in runs
      BY <1>0, <3>1 DEF InTurns, OneScheduledBatchADay, Scheduled
    <3>2. \A q \in runs : q.day \in Nat
      BY <1>0 DEF InTurns
    <3> QED
      BY <2>2, <2>4, <2>5, <2>6, <3>1, <3>2
  <2>8. \A r \in runs' : r.at \in Nat /\ r.at <= started /\ r.day \in Nat /\ r.day <= batch[b].ended
    BY <1>0, <2>2, <2>4, <2>5 DEF InTurns
  <2> QED
    BY <1>0, <2>1, <2>2, <2>3, <2>4, <2>7, <2>8 DEF InTurns, TurnIInv
<1>5. ASSUME NEW b \in Batches, Gives(b) PROVE TurnIInv'
  <2>1. \A c \in Batches : c = b
    BY DEF OneBatch
  <2>2. BatchShape' /\ batch'[b].pc = "idle"
    BY <1>0, <1>5, <2>1 DEF Gives, Finished, Idle, BatchShape
  <2>3. OneScheduledBatchADay'
    BY <1>0, <1>5 DEF Gives, InTurns, OneScheduledBatchADay, Scheduled
  <2> QED
    BY <1>0, <1>5, <2>1, <2>2, <2>3 DEF Gives, InTurns, TurnIInv
<1> QED
  BY <1>1, <1>2, <1>3, <1>4, <1>5 DEF TurnStep

LEMMA ShapeStep == BatchShape /\ TurnStep => BatchShape'
<1> SUFFICES ASSUME BatchShape, TurnStep PROVE BatchShape'
  OBVIOUS
<1>1. CASE Quiet
  BY <1>1 DEF Quiet, BatchShape
<1>2. ASSUME NEW b \in Batches, Begins(b) \/ Proceeds(b) PROVE BatchShape'
  <2>1. /\ batch' = [batch EXCEPT ![b] = batch'[b]] /\ TurnFields \subseteq DOMAIN batch'[b]
        /\ schedule' = schedule
    BY <1>2 DEF Begins, Proceeds
  <2> QED
    BY <2>1 DEF BatchShape
<1>3. ASSUME NEW b \in Batches, Commits(b) \/ Gives(b) PROVE BatchShape'
  <2>1. batch' = [batch EXCEPT ![b] = [pc |-> "idle"]] /\ DOMAIN schedule' = DOMAIN schedule
    BY <1>3 DEF Commits, Gives, Finished, Idle
  <2> QED
    BY <2>1 DEF BatchShape
<1> QED
  BY <1>1, <1>2, <1>3 DEF TurnStep

LEMMA ShapeInit == Init \/ Week!Init => BatchShape /\ InTurns
BY BatchAssumption, WeekAssumption
   DEF Init, Schedule, Days, Never, Idle, Week!Init, Week!Schedule, Week!Days, Week!Never, Week!Idle,
       BatchShape, InTurns, OneScheduledBatchADay, Scheduled

(* What the loop takes of the candidates it picked.                        *)
Chosen ==
    \A b \in Batches : /\ batch[b].pc = "picked" => batch[b].picked \subseteq approved
                       /\ batch[b].pc = "written" => batch[b].picked \subseteq approved \ NoContent

ApprovedIInv == BatchShape /\ Chosen /\ OnlyApprovedContent

LEMMA ApprovedStep == ApprovedIInv /\ [Next]_vars => ApprovedIInv'
<1> SUFFICES ASSUME ApprovedIInv, [Next]_vars PROVE ApprovedIInv'
  OBVIOUS
<1>0. BatchShape /\ Chosen /\ OnlyApprovedContent
  BY DEF ApprovedIInv
<1>1. BatchShape'
  BY <1>0, NextIsTurnStep, ShapeStep
<1>2. CASE NextDay \/ ApproveCandidate \/ UpdateSchedule \/ UNCHANGED vars
  <2>1. UNCHANGED <<batch, runs>> /\ approved \subseteq approved'
    BY <1>2 DEF NextDay, ApproveCandidate, UpdateSchedule, vars
  <2> QED
    BY <1>0, <1>1, <2>1 DEF ApprovedIInv, Chosen, OnlyApprovedContent
<1>3. ASSUME NEW b \in Batches, UNCHANGED <<approved, runs>>,
             \A c \in Batches \ {b} : batch'[c] = batch[c],
             batch'[b].pc = "picked" => batch'[b].picked \subseteq approved,
             batch'[b].pc = "written" => batch'[b].picked \subseteq approved \ NoContent
      PROVE  ApprovedIInv'
  BY <1>0, <1>1, <1>3 DEF ApprovedIInv, Chosen, OnlyApprovedContent
<1>4. ASSUME NEW b \in Batches, LoadSchedules(b) \/ BatchGenerate(b) \/ TakeTurn(b) \/ AbortBatch(b)
      PROVE  ApprovedIInv'
  <2>1. UNCHANGED <<approved, runs>>
    BY <1>4 DEF LoadSchedules, BatchGenerate, Start, TakeTurn, Due, Take, AbortBatch
  <2>2. /\ \A c \in Batches \ {b} : batch'[c] = batch[c]
        /\ batch'[b].pc \in {"begun", "loaded", "idle"}
    <3>1. CASE LoadSchedules(b) \/ BatchGenerate(b)
      BY <1>0, <3>1 DEF LoadSchedules, BatchGenerate, Start, BatchShape
    <3>2. CASE TakeTurn(b)
      <4>1. PICK n : batch' = [batch EXCEPT ![b].pc = "loaded", ![b].day = today, ![b].count = n]
        BY <3>2 DEF TakeTurn, Take
      <4>2. "pc" \in DOMAIN batch[b]
        BY <1>0, <3>2 DEF TakeTurn, Due, BatchShape, TurnFields
      <4> QED
        BY <1>0, <4>1, <4>2 DEF BatchShape
    <3>3. CASE AbortBatch(b)
      BY <1>0, <3>3 DEF AbortBatch, Finished, Idle, BatchShape
    <3> QED
      BY <1>4, <3>1, <3>2, <3>3
  <2> QED
    BY <1>3, <2>1, <2>2
<1>5. ASSUME NEW b \in Batches, PickApproved(b) PROVE ApprovedIInv'
  <2>1. PICK first : first \subseteq approved /\ batch' = [batch EXCEPT ![b].pc = "picked", ![b].picked = first]
    BY <1>5 DEF PickApproved
  <2>2. TurnFields \subseteq DOMAIN batch[b] /\ UNCHANGED <<approved, runs>>
    BY <1>0, <1>5 DEF PickApproved, BatchShape
  <2>3. /\ \A c \in Batches \ {b} : batch'[c] = batch[c]
        /\ batch'[b].pc = "picked" /\ batch'[b].picked = first
    BY <1>0, <2>1, <2>2 DEF BatchShape, TurnFields
  <2> QED
    BY <1>3, <2>1, <2>2, <2>3
<1>6. ASSUME NEW b \in Batches, WriteArticles(b) PROVE ApprovedIInv'
  <2>1. PICK written :
            /\ written \subseteq batch[b].picked \ NoContent
            /\ batch' = [batch EXCEPT ![b].pc = "written", ![b].picked = written, ![b].ended = today]
    BY <1>6 DEF WriteArticles, Write
  <2>2. TurnFields \subseteq DOMAIN batch[b] /\ batch[b].pc = "picked" /\ UNCHANGED <<approved, runs>>
    BY <1>0, <1>6 DEF WriteArticles, Write, BatchShape
  <2>3. /\ \A c \in Batches \ {b} : batch'[c] = batch[c]
        /\ batch'[b].pc = "written" /\ batch'[b].picked = written
    BY <1>0, <2>1, <2>2 DEF BatchShape, TurnFields
  <2>4. batch[b].picked \subseteq approved
    BY <1>0, <2>2 DEF Chosen
  <2> QED
    BY <1>3, <2>1, <2>2, <2>3, <2>4
<1>7. ASSUME NEW b \in Batches, CommitBatch(b) PROVE ApprovedIInv'
  <2>1. /\ batch' = [batch EXCEPT ![b] = [pc |-> "idle"]] /\ approved' = approved
        /\ runs' = runs \cup RunsOf(b) /\ batch[b].picked \subseteq approved \ NoContent
    BY <1>0, <1>7 DEF CommitBatch, Finished, Idle, Chosen
  <2>2. \A r \in RunsOf(b) : r.candidate \in approved \ NoContent
    BY <2>1 DEF RunsOf
  <2>3. Chosen'
    BY <1>0, <2>1 DEF Chosen, BatchShape
  <2> QED
    BY <1>0, <1>1, <2>1, <2>2, <2>3 DEF ApprovedIInv, OnlyApprovedContent
<1> QED
  BY <1>2, <1>4, <1>5, <1>6, <1>7 DEF Next

(* However batches overlap and candidates are approved meanwhile, articles *)
(* are about approved candidates that ask for content                      *)
(* (content/schedule_service.py:114).                                      *)
THEOREM ArticlesAreApproved == Spec => []OnlyApprovedContent
<1>1. Init => ApprovedIInv
  BY ShapeInit DEF Init, Idle, ApprovedIInv, Chosen, OnlyApprovedContent
<1>2. ApprovedIInv => OnlyApprovedContent
  BY DEF ApprovedIInv
<1> QED
  BY <1>1, <1>2, ApprovedStep, PTL DEF Spec

----------------------------------------------------------------------------
(* The week of a schedule that is on and that nobody edits.                *)
(* The first n of a set of numbers are n at most.                          *)
LEMMA FirstAreFew ==
    ASSUME NEW S, S \subseteq Nat, NEW n \in Nat
    PROVE  LET first == {c \in S : Cardinality({d \in S : d < c}) < n}
           IN  IsFiniteSet(first) /\ Cardinality(first) <= n
<1> DEFINE below(c) == {d \in S : d < c}
           first == {c \in S : Cardinality(below(c)) < n}
           place == [c \in first |-> Cardinality(below(c))]
<1>1. \A c \in S : IsFiniteSet(below(c)) /\ Cardinality(below(c)) \in Nat
  <2> SUFFICES ASSUME NEW c \in S PROVE IsFiniteSet(below(c)) /\ Cardinality(below(c)) \in Nat
    OBVIOUS
  <2>1. c \in Nat /\ \A d \in S : d \in Nat
    OBVIOUS
  <2>2. IsFiniteSet(0 .. c)
    BY <2>1, FS_Interval
  <2>3. below(c) \subseteq 0 .. c
    <3> SUFFICES ASSUME NEW d \in S, d < c PROVE d \in 0 .. c
      OBVIOUS
    <3>1. d \in Nat
      BY <2>1
    <3> QED
      BY <2>1, <3>1
  <2> HIDE DEF below
  <2> QED
    BY <2>2, <2>3, FS_Subset, FS_CardinalityType
<1>2. \A c, e \in S : c < e => Cardinality(below(c)) < Cardinality(below(e))
  <2> SUFFICES ASSUME NEW c \in S, NEW e \in S, c < e PROVE Cardinality(below(c)) < Cardinality(below(e))
    OBVIOUS
  <2>1. below(c) \cup {c} \subseteq below(e) /\ c \notin below(c)
    <3>1. c \in Nat /\ e \in Nat /\ \A d \in S : d \in Nat
      OBVIOUS
    <3>2. \A d \in S : d < c => d < e
      BY <3>1
    <3>3. ~(c < c)
      BY <3>1
    <3> QED
      BY <3>2, <3>3
  <2> HIDE DEF below
  <2>2. Cardinality(below(c) \cup {c}) = Cardinality(below(c)) + 1
    BY <1>1, <2>1, FS_AddElement
  <2>3. Cardinality(below(c) \cup {c}) <= Cardinality(below(e))
    BY <1>1, <2>1, FS_Subset
  <2> QED
    BY <1>1, <2>2, <2>3
<1>3. place \in Injection(first, 0 .. n - 1)
  <2>1. \A c \in first : place[c] \in 0 .. n - 1
    BY <1>1
  <2>2. \A c, e \in first : place[c] = place[e] => c = e
    <3> SUFFICES ASSUME NEW c \in first, NEW e \in first, place[c] = place[e] PROVE c = e
      OBVIOUS
    <3>1. c < e \/ e < c \/ c = e
      OBVIOUS
    <3>2. Cardinality(below(c)) = Cardinality(below(e)) /\ c \in S /\ e \in S
      OBVIOUS
    <3> HIDE DEF below, first, place
    <3> QED
      BY <1>1, <1>2, <3>1, <3>2
  <2> QED
    BY <2>1, <2>2 DEF Injection, IsInjective
<1>4. IsFiniteSet(0 .. n - 1) /\ Cardinality(0 .. n - 1) = n
  BY FS_Interval
<1>5. IsFiniteSet(first) /\ Cardinality(first) <= n
  <2> HIDE DEF first, place
  <2> QED BY <1>3, <1>4, FS_Injection
<1> QED
  BY <1>5

Quota    == ArticlesPerScheduledRun(schedule.perWeek, DaysOf(schedule))
OnDay(d) == {r \in Scheduled : r.day = d}

(* A scheduled batch goes by the schedule, on one of its days.             *)
Keeps(b) ==
    /\ batch[b].seen.perWeek = schedule.perWeek /\ batch[b].seen.days = schedule.days
    /\ batch[b].pc # "begun" => WeekDay(batch[b].day) \in DaysOf(schedule) /\ batch[b].count = Quota
    /\ batch[b].pc \in {"picked", "written"} =>
          IsFiniteSet(batch[b].picked) /\ Cardinality(batch[b].picked) <= Quota

Plan ==
    /\ approved \subseteq Candidates
    /\ schedule.perWeek \in WeekNumbers \ {0} /\ schedule.days \subseteq WeekDays
    /\ updates = 0

Kept ==
    /\ \A b \in Batches : batch[b].pc # "idle" /\ batch[b].kind = "beat" => Keeps(b)
    /\ \A r \in Scheduled : WeekDay(r.day) \in DaysOf(schedule)
    /\ \A d \in Nat : IsFiniteSet(OnDay(d)) /\ Cardinality(OnDay(d)) <= Quota

WeekIInv == TurnIInv /\ Plan /\ Kept

(* The days of a schedule times their articles are less than a day's more  *)
(* than the articles of a week.                                            *)
LEMMA QuotaBound ==
    ASSUME Plan
    PROVE  /\ IsFiniteSet(DaysOf(schedule)) /\ DaysOf(schedule) \subseteq 0 .. 6
           /\ Cardinality(DaysOf(schedule)) \in Nat /\ Quota \in Nat
           /\ Quota * Cardinality(DaysOf(schedule)) <= schedule.perWeek + Cardinality(DaysOf(schedule)) - 1
<1> DEFINE D == DaysOf(schedule)
           k == Cardinality(D)
           n == schedule.perWeek
<1>1. D \subseteq 0 .. 6 /\ D # {}
  <2>1. schedule.days \subseteq 0 .. 6
    BY BatchAssumption DEF Plan
  <2>2. {0, 3} \subseteq 0 .. 6
    OBVIOUS
  <2> QED
    BY <2>1, <2>2 DEF DaysOf
<1>2. IsFiniteSet(0 .. 6) /\ Cardinality(0 .. 6) = 7
  <2>1. 0 \in Int /\ 6 \in Int /\ 6 - 0 + 1 = 7 /\ ~(0 > 6)
    OBVIOUS
  <2> HIDE DEF D, k, n
  <2> QED
    BY <2>1, FS_Interval
<1>3. IsFiniteSet(D) /\ k \in 1 .. 7
  <2>1. IsFiniteSet(D) /\ k <= 7
    BY <1>1, <1>2, FS_Subset
  <2>2. k \in Nat /\ k # 0
    BY <1>1, <2>1, FS_EmptySet, FS_CardinalityType
  <2> QED
    BY <2>1, <2>2
<1>4. n \in 1 .. 20
  <2>1. n \in 0 .. 20 /\ n # 0
    BY WeekAssumption DEF Plan
  <2> HIDE DEF n
  <2> QED
    BY <2>1
<1>5. Quota = (n + k - 1) \div k
  BY <1>4 DEF Quota, ArticlesPerScheduledRun
<1> HIDE DEF D, k, n
<1>6. Quota \in Nat /\ Quota * k <= n + k - 1
  <2>1. CASE k = 1
    BY <1>4, <1>5, <2>1
  <2>2. CASE k = 2
    BY <1>4, <1>5, <2>2
  <2>3. CASE k = 3
    BY <1>4, <1>5, <2>3
  <2>4. CASE k = 4
    BY <1>4, <1>5, <2>4
  <2>5. CASE k = 5
    BY <1>4, <1>5, <2>5
  <2>6. CASE k = 6
    BY <1>4, <1>5, <2>6
  <2>7. CASE k = 7
    BY <1>4, <1>5, <2>7
  <2> QED
    BY <1>3, <2>1, <2>2, <2>3, <2>4, <2>5, <2>6, <2>7
<1> QED
  BY <1>1, <1>3, <1>6 DEF D, k, n

(* Each day of the schedule its articles: in a week the overshoot is less  *)
(* than the days.                                                          *)
LEMMA WeekBound ==
    ASSUME WeekIInv, NEW week \in 0 .. LastDay \div 7
    PROVE  Cardinality({r \in Scheduled : r.day \div 7 = week})
             <= schedule.perWeek + Cardinality(DaysOf(schedule)) - 1
<1> DEFINE T   == {r \in Scheduled : r.day \div 7 = week}
           C   == {d \in 7 * week .. 7 * week + 6 : WeekDay(d) \in DaysOf(schedule)}
           own == [r \in T |-> r.day]
           on  == [d \in C |-> WeekDay(d)]
<1>1. TurnIInv /\ Plan /\ Kept
  BY DEF WeekIInv
<1>2. week \in Nat
  BY WeekAssumption
<1>3. /\ IsFiniteSet(DaysOf(schedule)) /\ Cardinality(DaysOf(schedule)) \in Nat /\ Quota \in Nat
      /\ Quota * Cardinality(DaysOf(schedule)) <= schedule.perWeek + Cardinality(DaysOf(schedule)) - 1
  BY <1>1, QuotaBound
<1>4. \A r \in T : r.day \in C
  <2> SUFFICES ASSUME NEW r \in T PROVE r.day \in C
    OBVIOUS
  <2>1. r.day \in Nat /\ r.day \div 7 = week /\ WeekDay(r.day) \in DaysOf(schedule)
    BY <1>1 DEF Kept, TurnIInv, InTurns, Scheduled
  <2>2. r.day \in 7 * week .. 7 * week + 6
    BY <1>2, <2>1
  <2> QED
    BY <2>1, <2>2
<1>5. on \in Injection(C, DaysOf(schedule))
  <2>1. \A d \in C : on[d] \in DaysOf(schedule)
    OBVIOUS
  <2>2. \A d, e \in C : on[d] = on[e] => d = e
    <3> SUFFICES ASSUME NEW d \in 7 * week .. 7 * week + 6, NEW e \in 7 * week .. 7 * week + 6, d % 7 = e % 7
                 PROVE  d = e
      BY DEF WeekDay
    <3> QED
      BY <1>2
  <2> QED
    BY <2>1, <2>2 DEF Injection, IsInjective
<1>6. IsFiniteSet(C) /\ Cardinality(C) <= Cardinality(DaysOf(schedule))
  <2> HIDE DEF C, on
  <2> QED BY <1>3, <1>5, FS_Injection
<1>7. \A d \in C : {r \in T : own[r] = d} \subseteq OnDay(d) /\ d \in Nat
  BY <1>2 DEF OnDay
<1>8. \A d \in C : IsFiniteSet({r \in T : own[r] = d}) /\ Cardinality({r \in T : own[r] = d}) <= Quota
  <2> SUFFICES ASSUME NEW d \in C
               PROVE  IsFiniteSet({r \in T : own[r] = d}) /\ Cardinality({r \in T : own[r] = d}) <= Quota
    OBVIOUS
  <2> DEFINE R == {r \in T : own[r] = d}
  <2>1. R \subseteq OnDay(d) /\ IsFiniteSet(OnDay(d)) /\ Cardinality(OnDay(d)) <= Quota
    BY <1>1, <1>7 DEF Kept
  <2> HIDE DEF R
  <2>2. IsFiniteSet(R) /\ Cardinality(R) <= Cardinality(OnDay(d))
    BY <2>1, FS_Subset
  <2>3. Cardinality(R) \in Nat /\ Cardinality(OnDay(d)) \in Nat
    BY <2>1, <2>2, FS_CardinalityType
  <2>4. IsFiniteSet(R) /\ Cardinality(R) <= Quota
    BY <1>3, <2>1, <2>2, <2>3
  <2> QED
    BY <2>4 DEF R
<1>9. own \in [T -> C]
  BY <1>4
<1>10. IsFiniteSet(T) /\ Cardinality(T) <= Quota * Cardinality(C)
  <2> HIDE DEF T, C, own
  <2> QED BY <1>3, <1>6, <1>8, <1>9, CountByOwner
<1> HIDE DEF T, C
<1>11. Cardinality(T) \in Nat /\ Cardinality(C) \in Nat /\ schedule.perWeek \in Nat
  <2>1. Cardinality(T) \in Nat /\ Cardinality(C) \in Nat
    BY <1>6, <1>10, FS_CardinalityType
  <2>2. schedule.perWeek \in 0 .. 20
    BY <1>1, WeekAssumption DEF Plan
  <2> QED
    BY <2>1, <2>2
<1>12. Quota * Cardinality(C) <= Quota * Cardinality(DaysOf(schedule))
  BY <1>3, <1>6, <1>11
<1>13. Cardinality(T) <= schedule.perWeek + Cardinality(DaysOf(schedule)) - 1
  BY <1>3, <1>10, <1>11, <1>12
<1> QED
  BY <1>13 DEF T

LEMMA OneCardinality == \A S : Week!Cardinality(S) = Cardinality(S)
BY DEF Week!Cardinality, Cardinality

LEMMA WeekIsBounded == WeekIInv => Week!WeeklyOvershootBounded
<1> SUFFICES ASSUME WeekIInv PROVE Week!WeeklyOvershootBounded
  OBVIOUS
<1>1. \A week \in 0 .. LastDay \div 7 :
        Cardinality({r \in Scheduled : r.day \div 7 = week})
            <= schedule.perWeek + Cardinality(DaysOf(schedule)) - 1
  BY WeekBound
<1> QED
  BY <1>1, OneCardinality DEF Week!WeeklyOvershootBounded, Week!Scheduled, Week!DaysOf, Scheduled, DaysOf

LEMMA OneQuota == Week!ArticlesPerScheduledRun(schedule.perWeek, Week!DaysOf(schedule)) = Quota
BY OneCardinality DEF Week!ArticlesPerScheduledRun, Week!DaysOf, Quota, ArticlesPerScheduledRun, DaysOf

(* A step of the batch alone: no run, and the schedule as it was.          *)
LEMMA KeptLocally ==
    ASSUME OneBatch, BatchShape, Plan, Kept, NEW b \in Batches,
           UNCHANGED <<schedule, runs, approved, updates>>,
           batch'[b].pc # "idle" /\ batch'[b].kind = "beat" => Keeps(b)'
    PROVE  Plan' /\ Kept'
<1>1. \A c \in Batches : c = b
  BY DEF OneBatch
<1>2. Plan' /\ Quota' = Quota /\ DaysOf(schedule)' = DaysOf(schedule) /\ Scheduled' = Scheduled
  BY DEF Plan, Quota, ArticlesPerScheduledRun, DaysOf, Scheduled
<1>3. \A d : OnDay(d)' = OnDay(d)
  BY <1>2 DEF OnDay
<1>4. \A r \in Scheduled' : WeekDay(r.day) \in DaysOf(schedule)'
  BY <1>2 DEF Kept
<1>5. \A d \in Nat : IsFiniteSet(OnDay(d)') /\ Cardinality(OnDay(d)') <= Quota'
  BY <1>2, <1>3 DEF Kept
<1>6. \A c \in Batches : batch'[c].pc # "idle" /\ batch'[c].kind = "beat" => Keeps(c)'
  BY <1>1
<1> QED
  BY <1>2, <1>4, <1>5, <1>6 DEF Kept

(* The fields the steps of a batch leave alone.                            *)
LEMMA KeptTake ==
    ASSUME BatchShape, Plan, Kept, NEW b \in Batches, Week!TakeTurn(b), batch[b].kind = "beat"
    PROVE  Keeps(b)'
<1>1. /\ batch[b].pc = "begun" /\ today = batch[b].day
      /\ UNCHANGED <<schedule, approved, runs, today, started, updates>>
  BY DEF Week!TakeTurn, Week!Due, Week!Take
<1>2. WeekDay(today) \in Week!DaysOf(batch[b].seen)
  BY <1>1 DEF Week!TakeTurn, Week!Due, Week!WeekDay, WeekDay
<1>3. batch[b].seen.perWeek = schedule.perWeek /\ batch[b].seen.days = schedule.days
  BY <1>1 DEF Kept, Keeps
<1>4. Week!DaysOf(batch[b].seen) = Week!DaysOf(schedule) /\ Week!DaysOf(schedule) = DaysOf(schedule)
  BY <1>3 DEF Week!DaysOf, DaysOf
<1>5. batch' = [batch EXCEPT ![b].pc = "loaded", ![b].day = today, ![b].count = Quota]
  BY <1>3, <1>4, OneQuota DEF Week!TakeTurn, Week!Take
<1>6. TurnFields \subseteq DOMAIN batch[b]
  BY <1>1 DEF BatchShape
<1>7. /\ batch'[b].pc = "loaded" /\ batch'[b].day = today /\ batch'[b].count = Quota
      /\ batch'[b].seen = batch[b].seen
  BY <1>5, <1>6 DEF BatchShape, TurnFields
<1>8. Quota' = Quota /\ DaysOf(schedule)' = DaysOf(schedule)
  BY <1>1 DEF Quota, ArticlesPerScheduledRun, DaysOf
<1> QED
  BY <1>1, <1>2, <1>3, <1>4, <1>7, <1>8 DEF Keeps

LEMMA KeptPick ==
    ASSUME BatchShape, Plan, Kept, NEW b \in Batches, Week!PickApproved(b), batch[b].kind = "beat"
    PROVE  Keeps(b)'
<1> DEFINE first == {c \in approved : Cardinality({d \in approved : d < c}) < batch[b].count}
<1>1. batch[b].pc = "loaded" /\ UNCHANGED <<schedule, approved, runs, today, started, updates>>
  BY DEF Week!PickApproved
<1>2. Keeps(b)
  BY <1>1 DEF Kept
<1>3. batch' = [batch EXCEPT ![b].pc = "picked", ![b].picked = first]
  BY OneCardinality DEF Week!PickApproved
<1>4. IsFiniteSet(first) /\ Cardinality(first) <= Quota
  <2>1. approved \subseteq Nat /\ batch[b].count = Quota /\ Quota \in Nat
    BY <1>1, <1>2, BatchAssumption, QuotaBound DEF Plan, Keeps
  <2> QED
    BY <2>1, FirstAreFew
<1>5. TurnFields \subseteq DOMAIN batch[b]
  BY <1>1 DEF BatchShape
<1> HIDE DEF first
<1>6. /\ batch'[b].pc = "picked" /\ batch'[b].picked = first
      /\ batch'[b].seen = batch[b].seen /\ batch'[b].day = batch[b].day /\ batch'[b].count = batch[b].count
  BY <1>3, <1>5 DEF BatchShape, TurnFields
<1>7. Quota' = Quota /\ DaysOf(schedule)' = DaysOf(schedule)
  BY <1>1 DEF Quota, ArticlesPerScheduledRun, DaysOf
<1> QED
  BY <1>1, <1>2, <1>4, <1>6, <1>7 DEF Keeps

LEMMA KeptWrite ==
    ASSUME BatchShape, Plan, Kept, NEW b \in Batches, Week!WriteArticles(b), batch[b].kind = "beat"
    PROVE  Keeps(b)'
<1>1. PICK written :
          /\ written \subseteq batch[b].picked
          /\ batch' = [batch EXCEPT ![b].pc = "written", ![b].picked = written, ![b].ended = today]
          /\ batch[b].pc = "picked" /\ UNCHANGED <<schedule, approved, runs, today, started, updates>>
  BY DEF Week!WriteArticles, Week!Write
<1>2. Keeps(b)
  BY <1>1 DEF Kept
<1>3. IsFiniteSet(batch[b].picked) /\ Cardinality(batch[b].picked) <= Quota /\ Quota \in Nat
  BY <1>1, <1>2, QuotaBound DEF Keeps
<1>4. IsFiniteSet(written) /\ Cardinality(written) <= Quota
  <2>1. IsFiniteSet(written) /\ Cardinality(written) <= Cardinality(batch[b].picked)
    BY <1>1, <1>3, FS_Subset
  <2>2. Cardinality(written) \in Nat /\ Cardinality(batch[b].picked) \in Nat
    BY <1>3, <2>1, FS_CardinalityType
  <2> QED
    BY <1>3, <2>1, <2>2
<1>5. TurnFields \subseteq DOMAIN batch[b]
  BY <1>1 DEF BatchShape
<1>6. /\ batch'[b].pc = "written" /\ batch'[b].picked = written
      /\ batch'[b].seen = batch[b].seen /\ batch'[b].day = batch[b].day /\ batch'[b].count = batch[b].count
  BY <1>1, <1>5 DEF BatchShape, TurnFields
<1>7. Quota' = Quota /\ DaysOf(schedule)' = DaysOf(schedule)
  BY <1>1 DEF Quota, ArticlesPerScheduledRun, DaysOf
<1> QED
  BY <1>1, <1>2, <1>4, <1>6, <1>7 DEF Keeps

(* The day of a scheduled batch that commits had no run before.            *)
LEMMA KeptCommit ==
    ASSUME OneBatch, BatchShape, InTurns, Plan, Kept, NEW b \in Batches, Week!CommitBatch(b)
    PROVE  Plan' /\ Kept'
<1>1. /\ batch[b].pc = "written" /\ runs' = runs \cup RunsOf(b)
      /\ schedule' = [schedule EXCEPT !.lastRun = batch[b].ended]
      /\ batch' = [batch EXCEPT ![b] = [pc |-> "idle"]] /\ UNCHANGED <<approved, updates>>
  BY DEF Week!CommitBatch, Week!RunsOf, Week!Finished, Week!Idle, RunsOf
<1>2. schedule'.perWeek = schedule.perWeek /\ schedule'.days = schedule.days
  BY <1>1 DEF BatchShape
<1>3. Plan' /\ Quota' = Quota /\ DaysOf(schedule)' = DaysOf(schedule)
  BY <1>1, <1>2 DEF Plan, Quota, ArticlesPerScheduledRun, DaysOf
<1>4. \A c \in Batches : batch'[c].pc = "idle"
  BY <1>1 DEF OneBatch, BatchShape
<1>5. \A r \in RunsOf(b) : r.kind = batch[b].kind /\ r.day = batch[b].day
  BY DEF RunsOf
<1>6. CASE batch[b].kind # "beat"
  <2>1. Scheduled' = Scheduled
    BY <1>1, <1>5, <1>6 DEF Scheduled
  <2>2. \A d : OnDay(d)' = OnDay(d)
    BY <2>1 DEF OnDay
  <2> QED
    BY <1>3, <1>4, <2>1, <2>2 DEF Kept
<1>7. CASE batch[b].kind = "beat"
  <2>1. PICK day \in Nat : day = batch[b].day
    BY <1>1 DEF InTurns, InTurnOf
  <2>2. PICK new : new = RunsOf(b)
    OBVIOUS
  <2>3. Keeps(b) /\ \A r \in runs : r.day \in Nat /\ r.day < day
    BY <1>1, <1>7, <2>1 DEF Kept, InTurns, InTurnOf
  <2>4. Scheduled' = Scheduled \cup new
    BY <1>1, <1>5, <1>7, <2>2 DEF Scheduled
  <2>5. \A r \in Scheduled' : WeekDay(r.day) \in DaysOf(schedule)'
    <3>1. WeekDay(day) \in DaysOf(schedule)
      BY <1>1, <2>1, <2>3 DEF Keeps
    <3>2. \A r \in new : r.day = day
      BY <1>5, <2>1, <2>2
    <3> QED
      BY <1>3, <2>4, <3>1, <3>2 DEF Kept
  <2>6. \A d \in Nat : d # day => OnDay(d)' = OnDay(d)
    BY <1>5, <2>1, <2>2, <2>4 DEF OnDay
  <2>7. OnDay(day)' \subseteq new
    <3>1. \A r \in runs : r.day # day
      BY <2>1, <2>3
    <3> QED
      BY <2>4, <3>1 DEF OnDay, Scheduled
  <2>8. IsFiniteSet(new) /\ Cardinality(new) <= Quota
    <3> DEFINE about == [r \in new |-> r.candidate]
    <3>1. about \in Injection(new, batch[b].picked)
      BY <2>2 DEF RunsOf, Injection, IsInjective
    <3>2. IsFiniteSet(batch[b].picked) /\ Cardinality(batch[b].picked) <= Quota
      BY <1>1, <2>3 DEF Keeps
    <3> HIDE DEF about
    <3>3. IsFiniteSet(new) /\ Cardinality(new) <= Cardinality(batch[b].picked)
      BY <3>1, <3>2, FS_Injection
    <3>4. Cardinality(new) \in Nat /\ Cardinality(batch[b].picked) \in Nat /\ Quota \in Nat
      BY <3>2, <3>3, QuotaBound, FS_CardinalityType
    <3> QED
      BY <3>2, <3>3, <3>4
  <2>9. IsFiniteSet(OnDay(day)') /\ Cardinality(OnDay(day)') <= Quota
    <3>1. IsFiniteSet(OnDay(day)') /\ Cardinality(OnDay(day)') <= Cardinality(new)
      BY <2>7, <2>8, FS_Subset
    <3>2. Cardinality(new) \in Nat /\ Cardinality(OnDay(day)') \in Nat /\ Quota \in Nat
      BY <2>8, <3>1, QuotaBound, FS_CardinalityType
    <3> QED
      BY <2>8, <3>1, <3>2
  <2>10. \A d \in Nat : IsFiniteSet(OnDay(d)') /\ Cardinality(OnDay(d)') <= Quota'
    <3> SUFFICES ASSUME NEW d \in Nat PROVE IsFiniteSet(OnDay(d)') /\ Cardinality(OnDay(d)') <= Quota
      BY <1>3
    <3> QED
      BY <2>6, <2>9 DEF Kept
  <2> QED
    BY <1>3, <1>4, <2>5, <2>10 DEF Kept
<1> QED
  BY <1>6, <1>7

LEMMA WeekStep == OneBatch /\ WeekIInv /\ [Week!Next]_vars => WeekIInv'
<1> SUFFICES ASSUME OneBatch, WeekIInv, [Week!Next]_vars PROVE WeekIInv'
  OBVIOUS
<1>0. BatchShape /\ InTurns /\ Plan /\ Kept /\ TurnIInv
  BY DEF WeekIInv, TurnIInv
<1>1. TurnIInv'
  BY <1>0, WeekIsTurnStep, TurnsStep
<1>2. CASE Week!NextDay \/ Week!ApproveCandidate \/ UNCHANGED vars
  <2>1. UNCHANGED <<schedule, batch, runs, updates>> /\ approved' \subseteq Candidates
    BY <1>0, <1>2 DEF Week!NextDay, Week!ApproveCandidate, vars, Plan
  <2>2. Quota' = Quota /\ DaysOf(schedule)' = DaysOf(schedule) /\ Scheduled' = Scheduled /\ Plan'
    BY <1>0, <2>1 DEF Plan, Quota, ArticlesPerScheduledRun, DaysOf, Scheduled
  <2>3. \A d : OnDay(d)' = OnDay(d)
    BY <2>2 DEF OnDay
  <2>4. \A b \in Batches : batch[b].pc # "idle" /\ batch[b].kind = "beat" => Keeps(b)'
    BY <1>0, <2>1, <2>2 DEF Kept, Keeps
  <2>5. Kept'
    BY <1>0, <2>1, <2>2, <2>3, <2>4 DEF Kept
  <2> QED
    BY <1>1, <2>2, <2>5 DEF WeekIInv
<1>3. CASE Week!UpdateSchedule
  BY <1>0, <1>3 DEF Week!UpdateSchedule, Plan
<1>4. ASSUME NEW b \in Batches, Week!LoadSchedules(b) \/ Week!BatchGenerate(b) PROVE WeekIInv'
  <2>1. PICK pc, kind, count :
            /\ \/ pc = "begun" /\ kind = "beat"
               \/ pc = "loaded" /\ kind = "manual"
            /\ Week!Start(b, pc, kind, count)
    BY <1>4 DEF Week!LoadSchedules, Week!BatchGenerate
  <2>2. batch' = [batch EXCEPT ![b] = [pc |-> pc, kind |-> kind, at |-> started', day |-> today,
                    seen |-> schedule, count |-> count, picked |-> {}, ended |-> today]]
    BY <2>1 DEF Week!Start
  <2>3. batch'[b].pc = pc /\ batch'[b].kind = kind /\ batch'[b].seen = schedule
    BY <1>0, <2>2 DEF BatchShape
  <2>4. UNCHANGED <<schedule, runs, approved, updates>>
    BY <2>1 DEF Week!Start
  <2>5. batch'[b].kind = "beat" => Keeps(b)'
    BY <2>1, <2>3, <2>4 DEF Keeps
  <2> QED
    BY <1>0, <1>1, <2>4, <2>5, KeptLocally DEF WeekIInv
<1>5. ASSUME NEW b \in Batches, Week!TakeTurn(b) \/ Week!PickApproved(b) \/ Week!WriteArticles(b) PROVE WeekIInv'
  <2>1. UNCHANGED <<schedule, runs, approved, updates>>
    BY <1>5 DEF Week!TakeTurn, Week!Due, Week!Take, Week!PickApproved, Week!WriteArticles, Week!Write
  <2>2. batch[b].kind = "beat" => Keeps(b)'
    BY <1>0, <1>5, KeptTake, KeptPick, KeptWrite
  <2>3. batch'[b].kind = batch[b].kind
    <3>1. batch[b].pc # "idle"
      BY <1>5 DEF Week!TakeTurn, Week!Due, Week!PickApproved, Week!WriteArticles
    <3>2. "kind" \in DOMAIN batch[b]
      BY <1>0, <3>1 DEF BatchShape, TurnFields
    <3>3. PICK n, first, written :
            \/ batch' = [batch EXCEPT ![b].pc = "loaded", ![b].day = today, ![b].count = n]
            \/ batch' = [batch EXCEPT ![b].pc = "picked", ![b].picked = first]
            \/ batch' = [batch EXCEPT ![b].pc = "written", ![b].picked = written, ![b].ended = today]
      BY <1>5 DEF Week!TakeTurn, Week!Take, Week!PickApproved, Week!WriteArticles, Week!Write
    <3> QED
      BY <1>0, <3>2, <3>3 DEF BatchShape
  <2> QED
    BY <1>0, <1>1, <2>1, <2>2, <2>3, KeptLocally DEF WeekIInv
<1>6. ASSUME NEW b \in Batches, Week!CommitBatch(b) PROVE WeekIInv'
  BY <1>0, <1>1, <1>6, KeptCommit DEF WeekIInv
<1>7. ASSUME NEW b \in Batches, Week!AbortBatch(b) PROVE WeekIInv'
  <2>1. batch'[b].pc = "idle" /\ UNCHANGED <<schedule, runs, approved, updates>>
    BY <1>0, <1>7 DEF Week!AbortBatch, Week!Finished, Week!Idle, BatchShape
  <2> QED
    BY <1>0, <1>1, <2>1, KeptLocally DEF WeekIInv
<1> QED
  BY <1>2, <1>3, <1>4, <1>5, <1>6, <1>7 DEF Week!Next

LEMMA WeekInit == Week!Init => WeekIInv
<1> SUFFICES ASSUME Week!Init PROVE WeekIInv
  OBVIOUS
<1>1. TurnIInv
  BY ShapeInit DEF TurnIInv
<1>2. Plan
  BY WeekAssumption DEF Week!Init, Week!Schedule, Plan
<1>3. Scheduled = {} /\ \A b \in Batches : batch[b].pc = "idle"
  BY DEF Week!Init, Week!Idle, Scheduled
<1>4. \A d \in Nat : OnDay(d) = {}
  BY <1>3 DEF OnDay
<1>5. IsFiniteSet({}) /\ Cardinality({}) = 0 /\ Quota \in Nat
  BY <1>2, FS_EmptySet, QuotaBound
<1>6. \A d \in Nat : IsFiniteSet(OnDay(d)) /\ Cardinality(OnDay(d)) <= Quota
  BY <1>4, <1>5
<1>7. Kept
  BY <1>3, <1>6 DEF Kept
<1> QED
  BY <1>1, <1>2, <1>7 DEF WeekIInv

BatchIInv == TurnIInv /\ (part = "days" => ApprovedIInv) /\ (part = "week" => WeekIInv)

(* One batch at a time: scheduled batches take one turn a day, write about *)
(* approved candidates that ask for content (content/schedule_service.py:114) *)
(* and overshoot the articles of a week by less than the days of the       *)
(* schedule (content/schedule_priority.py:26), for any candidates, numbers *)
(* and days.                                                               *)
THEOREM BatchesAlwaysKeep ==
  ASSUME OneBatch
  PROVE  PlanningSpec => []BatchesKeepToSchedule
<1>1. PlanningInit => BatchIInv
  <2> SUFFICES ASSUME PlanningInit PROVE BatchIInv
    OBVIOUS
  <2>1. CASE part = "week"
    BY <2>1, WeekInit DEF PlanningInit, BatchIInv, WeekIInv
  <2>2. CASE part # "week"
    <3>1. Init
      BY <2>2 DEF PlanningInit
    <3>2. ApprovedIInv /\ TurnIInv
      BY <3>1, ShapeInit DEF Init, Idle, ApprovedIInv, TurnIInv, Chosen, OnlyApprovedContent
    <3> QED
      BY <2>2, <3>2 DEF BatchIInv
  <2> QED
    BY <2>1, <2>2
<1>2. BatchIInv /\ [PlanningNext]_<<part, vars, planVars, scoreVars, clusterVars>> => BatchIInv'
  <2> SUFFICES ASSUME BatchIInv, [PlanningNext]_<<part, vars, planVars, scoreVars, clusterVars>>
               PROVE  BatchIInv'
    OBVIOUS
  <2>0. BatchShape /\ TurnIInv /\ part' = part
    BY DEF BatchIInv, TurnIInv, PlanningNext
  <2>1. CASE part = "days" /\ [Next]_vars
    <3>1. ApprovedIInv'
      BY <2>1, ApprovedStep DEF BatchIInv
    <3>2. TurnIInv'
      BY <2>0, <2>1, NextIsTurnStep, TurnsStep
    <3> QED
      BY <2>0, <2>1, <3>1, <3>2 DEF BatchIInv
  <2>2. CASE part = "week" /\ [Week!Next]_vars
    <3>1. WeekIInv'
      BY <2>2, WeekStep DEF BatchIInv
    <3> QED
      BY <2>0, <2>2, <3>1 DEF BatchIInv, WeekIInv
  <2>3. CASE part \notin {"days", "week"} /\ UNCHANGED vars
    <3>1. TurnIInv'
      BY <2>0, <2>3, NextIsTurnStep, TurnsStep
    <3> QED
      BY <2>0, <2>3, <3>1 DEF BatchIInv
  <2>4. \/ part = "days" /\ [Next]_vars
        \/ part = "week" /\ [Week!Next]_vars
        \/ part \notin {"days", "week"} /\ UNCHANGED vars
    BY DEF PlanningNext
  <2> QED
    BY <2>1, <2>2, <2>3, <2>4
<1>3. BatchIInv => BatchesKeepToSchedule
  BY WeekIsBounded DEF BatchIInv, TurnIInv, InTurns, ApprovedIInv, BatchesKeepToSchedule
<1> QED
  BY <1>1, <1>2, <1>3, PTL DEF PlanningSpec

----------------------------------------------------------------------------
(* Clusters of the topic graph: the union-find, for any queries, pages and *)
(* words. R gives every node its root; a step that unites two trees says   *)
(* so in R.                                                                *)
AllPairs == SearchPairs \cup ResultPairs

(* S is a side of a cut that no pair crosses.                              *)
Uncrossed(S) == \A pair \in AllPairs : pair \subseteq S \/ pair \cap S = {}

Forest ==
    /\ parent \in [Known -> Known] /\ rank \in [Known -> Nat]
    /\ \A q \in Known : parent[q] # q => rank[q] < rank[parent[q]]

RootsAre(R) ==
    /\ R \in [Known -> Known]
    /\ \A q \in Known : /\ R[parent[q]] = R[q] /\ parent[R[q]] = R[q]
                        /\ parent[q] = q => R[q] = q
                        /\ q # R[q] => rank[q] < rank[R[q]]

(* A root of rank r has more than r nodes below it.                        *)
TreesAreLarge(R) ==
    \A r \in Known : parent[r] = r => rank[r] < Cardinality({q \in Known : R[q] = r})

(* Trees do not cross a cut, and what is united is in one tree.            *)
NoTreeCrosses == \A S : Uncrossed(S) => \A q \in Known : q \in S <=> parent[q] \in S

UnitedSoFar(R) ==
    outcome # "raised" =>
        \A pair \in AllPairs \ todo : pair \subseteq Known /\ \A a, b \in pair : R[a] = R[b]

UnionIInv ==
    /\ words \in WordChoices /\ outcome \in {"running", "built", "raised"}
    /\ todo \subseteq AllPairs /\ (outcome = "built" => todo = {})
    /\ Forest /\ NoTreeCrosses
    /\ \E R : RootsAre(R) /\ TreesAreLarge(R) /\ UnitedSoFar(R)

(* The path of a node is the least set that holds it and its parents.      *)
LEMMA PathIsLeast ==
    ASSUME Forest, NEW n \in Known
    PROVE  /\ n \in Path(n) /\ Path(n) \subseteq Known
           /\ \A m \in Path(n) : parent[m] \in Path(n)
           /\ \A T \in SUBSET Known : n \in T /\ (\A m \in T : parent[m] \in T) => Path(n) \subseteq T
<1> DEFINE Up(T) == n \in T /\ \A m \in T : parent[m] \in T
           least == {m \in Known : \A T \in SUBSET Known : Up(T) => m \in T}
           Is(S) == /\ n \in S /\ \A m \in S : parent[m] \in S
                    /\ \A T \in SUBSET S : n \in T /\ (\A m \in T : parent[m] \in T) => T = S
<1>1. DOMAIN parent = Known /\ \A m \in Known : parent[m] \in Known
  BY DEF Forest
<1>2. least \in SUBSET DOMAIN parent /\ n \in least
  BY <1>1
<1>3. \A m \in least : parent[m] \in least
  BY <1>1
<1>4. \A T \in SUBSET least : Up(T) => T = least
  BY <1>1
<1>5. Path(n) \in SUBSET DOMAIN parent /\ Is(Path(n))
  <2>1. Is(least)
    BY <1>2, <1>3, <1>4
  <2>2. \E S \in SUBSET DOMAIN parent : Is(S)
    <3> HIDE DEF least, Is
    <3> QED BY <1>2, <2>1
  <2> QED
    BY <2>2 DEF Path
<1>6. ASSUME NEW T \in SUBSET Known, Up(T) PROVE Path(n) \subseteq T
  <2>1. Up(T \cap Path(n))
    BY <1>5, <1>6
  <2>2. T \cap Path(n) = Path(n)
    BY <1>5, <2>1
  <2> QED
    BY <2>2
<1> QED
  BY <1>1, <1>5, <1>6

(* Ranks rise along a path, so it ends, in the root: find returns R.       *)
LEMMA FindIsRoot ==
    ASSUME Forest, NEW R, RootsAre(R), NEW n \in Known
    PROVE  R[n] \in Path(n) /\ Root(n) = R[n]
<1>1. /\ n \in Path(n) /\ Path(n) \subseteq Known
      /\ \A m \in Path(n) : parent[m] \in Path(n)
  BY PathIsLeast
<1>2. \A m \in Path(n) : R[m] = R[n]
  <2> DEFINE T == {m \in Known : R[m] = R[n]}
  <2>1. T \in SUBSET Known /\ n \in T /\ \A m \in T : parent[m] \in T
    BY DEF RootsAre, Forest
  <2>2. Path(n) \subseteq T
    <3> HIDE DEF T
    <3> QED BY <2>1, PathIsLeast
  <2> QED
    BY <2>2
<1>3. R[n] \in Path(n)
  <2> SUFFICES ASSUME R[n] \notin Path(n) PROVE FALSE
    OBVIOUS
  <2> DEFINE N == rank[R[n]]
             D == {N - rank[m] : m \in Path(n)}
  <2>1. N \in Nat /\ \A m \in Path(n) : rank[m] \in Nat /\ rank[m] < N /\ parent[m] # m
    BY <1>1, <1>2 DEF RootsAre, Forest
  <2>2. D \in SUBSET Nat /\ N - rank[n] \in D
    <3> HIDE DEF N
    <3> QED BY <1>1, <2>1
  <2>3. PICK d \in D : \A e \in D : d <= e
    <3> HIDE DEF D
    <3> QED BY <2>2, LeastNumber
  <2>4. PICK m \in Path(n) : d = N - rank[m]
    BY <2>3
  <2>5. parent[m] \in Path(n) /\ rank[m] < rank[parent[m]]
    BY <1>1, <2>1, <2>4 DEF Forest
  <2>6. N - rank[m] <= N - rank[parent[m]]
    BY <2>3, <2>4, <2>5
  <2> HIDE DEF N, D
  <2> QED
    BY <2>1, <2>4, <2>5, <2>6
<1>4. parent[R[n]] = R[n]
  BY DEF RootsAre
<1>5. Root(n) \in Path(n) /\ parent[Root(n)] = Root(n)
  BY <1>3, <1>4 DEF Root
<1>6. R[Root(n)] = Root(n) /\ R[Root(n)] = R[n]
  BY <1>1, <1>2, <1>5 DEF RootsAre
<1> QED
  BY <1>3, <1>6

(* A cut separates a node from its root no more than from its parent.      *)
LEMMA RootOnSameSide ==
    ASSUME Forest, NoTreeCrosses, NEW R, RootsAre(R), NEW S, Uncrossed(S), NEW n \in Known
    PROVE  n \in S <=> R[n] \in S
<1> DEFINE T == {m \in Known : m \in S <=> n \in S}
<1>1. T \in SUBSET Known /\ n \in T /\ \A m \in T : parent[m] \in T
  BY DEF NoTreeCrosses, Forest
<1>2. Path(n) \subseteq T
  <2> HIDE DEF T
  <2> QED BY <1>1, PathIsLeast
<1>3. R[n] \in T
  BY <1>2, FindIsRoot
<1> QED
  BY <1>3

(* Path compression hangs a node under its root or leaves it.              *)
LEMMA CompressedTrees ==
    ASSUME Forest, NEW R, RootsAre(R), NEW a \in Known, NEW b \in Known
    PROVE  /\ Compressed(a, b) \in [Known -> Known]
           /\ \A n \in Known : Compressed(a, b)[n] \in {R[n], parent[n]}
<1>1. DOMAIN parent = Known /\ Root(a) = R[a] /\ Root(b) = R[b]
  BY FindIsRoot DEF Forest
<1>2. ASSUME NEW c \in Known, NEW n \in Path(c) PROVE R[n] = R[c]
  <2> DEFINE T == {m \in Known : R[m] = R[c]}
  <2>1. T \in SUBSET Known /\ c \in T /\ \A m \in T : parent[m] \in T
    BY DEF RootsAre, Forest
  <2>2. Path(c) \subseteq T
    <3> HIDE DEF T
    <3> QED BY <2>1, PathIsLeast
  <2> QED
    BY <2>2
<1>3. \A n \in Known : Compressed(a, b)[n] \in {R[n], parent[n]}
  BY <1>1, <1>2 DEF Compressed
<1>4. \A n \in Known : R[n] \in Known /\ parent[n] \in Known
  BY DEF RootsAre, Forest
<1> QED
  BY <1>1, <1>3, <1>4 DEF Compressed

(* The step that hangs the root under under the root over, R the roots     *)
(* before it, C the compressed trees, NR the roots after it.               *)
Hangs(R, C, under, over, NR) ==
    /\ Forest /\ NoTreeCrosses /\ RootsAre(R) /\ TreesAreLarge(R)
    /\ UNCHANGED <<rows, words, top>>
    /\ C \in [Known -> Known] /\ \A n \in Known : C[n] \in {R[n], parent[n]}
    /\ {under, over} \subseteq Known /\ under # over /\ R[under] = under /\ R[over] = over
    /\ \A S : Uncrossed(S) => (under \in S <=> over \in S)
    /\ parent' = [C EXCEPT ![under] = over]
    /\ rank[under] <= rank[over]
    /\ rank' = IF rank[over] = rank[under] THEN [rank EXCEPT ![over] = @ + 1] ELSE rank
    /\ NR = [q \in Known |-> IF R[q] = under THEN over ELSE R[q]]

(* One root under another: the trees are those of R with one less.         *)
LEMMA HangStep ==
    ASSUME NEW R, NEW C, NEW under, NEW over, NEW NR, Hangs(R, C, under, over, NR)
    PROVE  Forest' /\ NoTreeCrosses' /\ RootsAre(NR)' /\ TreesAreLarge(NR)'
<1>0. /\ Forest /\ NoTreeCrosses /\ RootsAre(R) /\ TreesAreLarge(R) /\ UNCHANGED <<rows, words, top>>
      /\ C \in [Known -> Known] /\ \A n \in Known : C[n] \in {R[n], parent[n]}
      /\ under \in Known /\ over \in Known /\ under # over /\ R[under] = under /\ R[over] = over
      /\ \A S : Uncrossed(S) => (under \in S <=> over \in S)
      /\ parent' = [C EXCEPT ![under] = over] /\ rank[under] <= rank[over]
      /\ rank' = IF rank[over] = rank[under] THEN [rank EXCEPT ![over] = @ + 1] ELSE rank
      /\ NR = [q \in Known |-> IF R[q] = under THEN over ELSE R[q]]
  BY DEF Hangs
<1>1. Known' = Known /\ \A S : Uncrossed(S)' <=> Uncrossed(S)
  <2>1. Known' = Known
    BY <1>0 DEF Known
  <2>2. AllPairs' = AllPairs
    BY <1>0, <2>1 DEF AllPairs, SearchPairs, ResultPairs, PairsOf, AlikeBySearch, OnePage, OnePrefix, Similarity,
                ResultsOverlap
  <2> QED
    BY <1>0, <2>1, <2>2 DEF Uncrossed
<1>2. /\ parent \in [Known -> Known] /\ rank \in [Known -> Nat] /\ R \in [Known -> Known]
      /\ \A n \in Known : parent[n] # n => rank[n] < rank[parent[n]]
      /\ \A n \in Known : /\ R[parent[n]] = R[n] /\ parent[R[n]] = R[n]
                          /\ parent[n] = n => R[n] = n
                          /\ n # R[n] => rank[n] < rank[R[n]]
  BY <1>0 DEF Forest, RootsAre
<1>3. \A n \in Known : R[R[n]] = R[n]
  BY <1>0, <1>2
<1>4. /\ parent' \in [Known -> Known] /\ parent'[under] = over
      /\ \A n \in Known : n # under => parent'[n] \in {R[n], parent[n]}
  BY <1>0
<1>5. NR \in [Known -> Known] /\ \A n \in Known : NR[n] = IF R[n] = under THEN over ELSE R[n]
  BY <1>0, <1>2
<1>6. /\ rank' \in [Known -> Nat] /\ \A n \in Known \ {over} : rank'[n] = rank[n]
      /\ rank[over] <= rank'[over] /\ rank[under] < rank'[over] /\ rank'[over] <= rank[over] + 1
  <2>1. rank[over] \in Nat /\ rank[under] \in Nat
    BY <1>0, <1>2
  <2>2. CASE rank[over] = rank[under]
    BY <1>0, <1>2, <2>1, <2>2
  <2>3. CASE rank[over] # rank[under]
    <3>1. rank' = rank
      BY <1>0, <2>3
    <3>2. rank[under] < rank[over] /\ rank[over] <= rank[over] /\ rank[over] <= rank[over] + 1
      BY <1>0, <2>1, <2>3
    <3> QED
      BY <1>0, <1>2, <3>1, <3>2
  <2> QED
    BY <1>0, <2>2, <2>3
<1>7. parent[over] = over /\ parent[under] = under
  BY <1>0, <1>2
<1>8. Forest'
  <2> SUFFICES ASSUME NEW n \in Known, parent'[n] # n PROVE rank'[n] < rank'[parent'[n]]
    BY <1>0, <1>1, <1>4, <1>6 DEF Forest
  <2>1. CASE n = under
    BY <1>0, <1>4, <1>6, <2>1
  <2>2. CASE n # under
    <3>1. n # over
      BY <1>0, <1>4, <1>7
    <3>2. rank[n] < rank[parent'[n]] /\ parent'[n] \in Known
      BY <1>0, <1>2, <1>4, <2>2
    <3>3. rank[parent'[n]] <= rank'[parent'[n]] /\ rank[n] \in Nat /\ rank[parent'[n]] \in Nat
          /\ rank'[parent'[n]] \in Nat
      BY <1>0, <1>2, <1>6, <3>2
    <3> QED
      BY <1>0, <1>6, <3>1, <3>2, <3>3
  <2> QED
    BY <1>0, <2>1, <2>2
<1>9. RootsAre(NR)'
  <2>1. \A n \in Known : NR[parent'[n]] = NR[n]
    <3> SUFFICES ASSUME NEW n \in Known PROVE NR[parent'[n]] = NR[n]
      OBVIOUS
    <3>1. CASE n = under
      BY <1>0, <1>4, <1>5, <3>1
    <3>2. CASE n # under
      <4>1. R[parent'[n]] = R[n] /\ parent'[n] \in Known
        BY <1>0, <1>2, <1>3, <1>4, <3>2
      <4> QED
        BY <1>0, <1>5, <4>1
    <3> QED
      BY <1>0, <3>1, <3>2
  <2>2. \A n \in Known : parent'[NR[n]] = NR[n]
    <3> SUFFICES ASSUME NEW n \in Known PROVE parent'[NR[n]] = NR[n]
      OBVIOUS
    <3>1. NR[n] \in Known /\ NR[n] # under /\ R[NR[n]] = NR[n] /\ parent[NR[n]] = NR[n]
      BY <1>0, <1>2, <1>3, <1>5, <1>7
    <3> QED
      BY <1>0, <1>4, <3>1
  <2>3. \A n \in Known : parent'[n] = n => NR[n] = n
    BY <1>0, <1>2, <1>4, <1>5
  <2>4. \A n \in Known : n # NR[n] => rank'[n] < rank'[NR[n]]
    <3> SUFFICES ASSUME NEW n \in Known, n # NR[n] PROVE rank'[n] < rank'[NR[n]]
      OBVIOUS
    <3>1. rank[n] \in Nat /\ rank[under] \in Nat /\ rank'[over] \in Nat /\ rank[over] \in Nat
      BY <1>0, <1>2, <1>6
    <3>2. CASE R[n] = under
      <4>1. n # over /\ NR[n] = over /\ rank'[n] = rank[n]
        BY <1>0, <1>5, <1>6, <3>2
      <4>2. rank[n] <= rank[under]
        BY <1>0, <1>2, <3>1, <3>2
      <4> QED
        BY <1>0, <1>6, <3>1, <4>1, <4>2
    <3>3. CASE R[n] # under
      <4>1. n # over /\ NR[n] = R[n] /\ rank'[n] = rank[n] /\ rank[n] < rank[R[n]] /\ R[n] \in Known
        BY <1>0, <1>2, <1>5, <1>6, <3>3
      <4>2. rank[R[n]] \in Nat /\ rank'[R[n]] \in Nat /\ rank[R[n]] <= rank'[R[n]]
        BY <1>0, <1>2, <1>6, <4>1
      <4> QED
        BY <1>0, <3>1, <4>1, <4>2
    <3> QED
      BY <1>0, <3>2, <3>3
  <2> QED
    BY <1>0, <1>1, <1>5, <2>1, <2>2, <2>3, <2>4 DEF RootsAre
<1>10. NoTreeCrosses'
  <2> SUFFICES ASSUME NEW S, Uncrossed(S), NEW n \in Known PROVE n \in S <=> parent'[n] \in S
    BY <1>0, <1>1 DEF NoTreeCrosses
  <2>1. CASE n = under
    BY <1>0, <1>4, <2>1
  <2>2. CASE n # under
    <3>1. (n \in S <=> R[n] \in S) /\ (n \in S <=> parent[n] \in S)
      BY <1>0, RootOnSameSide DEF NoTreeCrosses
    <3> QED
      BY <1>0, <1>4, <2>2, <3>1
  <2> QED
    BY <1>0, <2>1, <2>2
<1>11. TreesAreLarge(NR)'
  <2> SUFFICES ASSUME NEW r \in Known, parent'[r] = r
               PROVE  rank'[r] < Cardinality({q \in Known : NR[q] = r})
    BY <1>0, <1>1 DEF TreesAreLarge
  <2> DEFINE Old == {q \in Known : R[q] = r}
             NewTree == {q \in Known : NR[q] = r}
  <2>1. IsFiniteSet(Old) /\ IsFiniteSet(NewTree) /\ Cardinality(Old) \in Nat /\ Cardinality(NewTree) \in Nat
    <3>1. IsFiniteSet(Known)
      BY <1>0, ClusterAssumption, FS_Subset DEF Known
    <3> QED
      BY <1>0, <3>1, FS_Subset, FS_CardinalityType
  <2>2. r # under /\ parent[r] = r
    BY <1>0, <1>2, <1>4
  <2>3. rank[r] < Cardinality(Old)
    BY <1>0, <2>2 DEF TreesAreLarge
  <2>4. CASE r = over
    <3>1. Old \cup {under} \subseteq NewTree /\ under \notin Old
      BY <1>0, <1>5, <2>4
    <3> HIDE DEF Old, NewTree
    <3>2. Cardinality(Old \cup {under}) = Cardinality(Old) + 1
      BY <1>0, <2>1, <3>1, FS_AddElement
    <3>3. Cardinality(Old \cup {under}) <= Cardinality(NewTree)
      BY <1>0, <2>1, <3>1, FS_Subset
    <3>4. rank[over] \in Nat /\ rank'[over] \in Nat
      BY <1>0, <1>2, <1>6
    <3>5. rank'[r] < Cardinality(NewTree)
      BY <1>0, <1>6, <2>1, <2>3, <2>4, <3>2, <3>3, <3>4
    <3> QED
      BY <1>0, <3>5 DEF NewTree
  <2>5. CASE r # over
    <3>1. Old = NewTree
      BY <1>0, <1>5, <2>2, <2>5
    <3> QED
      BY <1>0, <1>6, <2>3, <2>5, <3>1
  <2> QED
    BY <1>0, <2>4, <2>5
<1> QED
  BY <1>0, <1>8, <1>9, <1>10, <1>11

(* Two nodes of a pair are linked: their trees are one, the others as      *)
(* they were.                                                              *)
LEMMA LinkStep ==
    ASSUME Forest, NoTreeCrosses, NEW R, RootsAre(R), TreesAreLarge(R), UNCHANGED <<rows, words, top>>,
           NEW a \in Known, NEW b \in Known, \A S : Uncrossed(S) => (a \in S <=> b \in S), Link(a, b)
    PROVE  /\ Forest' /\ NoTreeCrosses'
           /\ \E Q : /\ RootsAre(Q)' /\ TreesAreLarge(Q)' /\ Q[a] = Q[b]
                     /\ \A m, n \in Known : R[m] = R[n] => Q[m] = Q[n]
<1>1. Root(a) = R[a] /\ Root(b) = R[b]
  BY FindIsRoot
<1>2. PICK C \in [Known -> Known] :
        C = Compressed(a, b) /\ \A n \in Known : C[n] \in {R[n], parent[n]}
  BY CompressedTrees
<1>3. R[a] \in Known /\ R[b] \in Known /\ R[R[a]] = R[a] /\ R[R[b]] = R[b] /\ R \in [Known -> Known]
  BY DEF RootsAre
<1>4. \A S : Uncrossed(S) => (R[a] \in S <=> R[b] \in S)
  BY RootOnSameSide
<1>5. CASE R[a] = R[b]
  <2>1. parent' = C /\ rank' = rank /\ Known' = Known
    BY <1>1, <1>2, <1>5 DEF Link, Known
  <2>2. AllPairs' = AllPairs
    BY <2>1 DEF AllPairs, SearchPairs, ResultPairs, PairsOf, AlikeBySearch, OnePage, OnePrefix, Similarity,
                ResultsOverlap
  <2>3. \A n \in Known : /\ R[parent[n]] = R[n] /\ parent[R[n]] = R[n] /\ R[R[n]] = R[n]
                         /\ parent[n] = n => R[n] = n
                         /\ n # R[n] => rank[n] < rank[R[n]]
    BY DEF RootsAre
  <2>4. Forest'
    BY <1>2, <2>1, <2>3 DEF Forest
  <2>5. RootsAre(R)'
    <3>1. \A n \in Known : R[C[n]] = R[n] /\ C[R[n]] = R[n] /\ (C[n] = n => R[n] = n)
      BY <1>2, <1>3, <2>3 DEF RootsAre
    <3> QED
      BY <1>3, <2>1, <2>3, <3>1 DEF RootsAre
  <2>6. NoTreeCrosses'
    <3> SUFFICES ASSUME NEW S, Uncrossed(S), NEW n \in Known PROVE n \in S <=> C[n] \in S
      BY <2>1, <2>2 DEF NoTreeCrosses, Uncrossed
    <3>1. (n \in S <=> R[n] \in S) /\ (n \in S <=> parent[n] \in S)
      BY RootOnSameSide DEF NoTreeCrosses
    <3> QED
      BY <1>2, <3>1
  <2>7. TreesAreLarge(R)'
    BY <1>2, <2>1, <2>3 DEF TreesAreLarge
  <2> QED
    BY <1>5, <2>4, <2>5, <2>6, <2>7
<1>6. CASE R[a] # R[b]
  <2> DEFINE u == IF rank[R[a]] < rank[R[b]] THEN R[a] ELSE R[b]
             o == IF u = R[a] THEN R[b] ELSE R[a]
  <2>1. PICK under, over : under = u /\ over = o
    OBVIOUS
  <2>2. /\ <<under, over>> \in {<<R[a], R[b]>>, <<R[b], R[a]>>}
        /\ under \in Known /\ over \in Known /\ under # over /\ R[under] = under /\ R[over] = over
    BY <1>3, <1>6, <2>1
  <2>3. rank[under] <= rank[over]
    <3>1. rank[R[a]] \in Nat /\ rank[R[b]] \in Nat
      BY <1>3 DEF Forest
    <3> QED
      BY <1>6, <2>1, <3>1
  <2>4. /\ parent' = [C EXCEPT ![under] = over]
        /\ rank' = IF rank[over] = rank[under] THEN [rank EXCEPT ![over] = @ + 1] ELSE rank
    BY <1>1, <1>2, <1>6, <2>1 DEF Link
  <2>5. \A S : Uncrossed(S) => (under \in S <=> over \in S)
    BY <1>4, <2>2
  <2>6. PICK Q : Q = [q \in Known |-> IF R[q] = under THEN over ELSE R[q]]
    OBVIOUS
  <2> HIDE DEF u, o
  <2>7. Forest' /\ NoTreeCrosses' /\ RootsAre(Q)' /\ TreesAreLarge(Q)'
    <3>1. Hangs(R, C, under, over, Q)
      BY <1>2, <2>2, <2>3, <2>4, <2>5, <2>6 DEF Hangs
    <3> QED
      BY <3>1, HangStep
  <2>8. Q[a] = Q[b] /\ \A m, n \in Known : R[m] = R[n] => Q[m] = Q[n]
    BY <2>2, <2>6
  <2> QED
    BY <2>7, <2>8
<1> QED
  BY <1>5, <1>6

LEMMA UnionInit == ClusterInit => UnionIInv
<1> SUFFICES ASSUME ClusterInit PROVE UnionIInv
  OBVIOUS
<1> DEFINE Q == [q \in Known |-> q]
<1>1. /\ parent = Q /\ rank = [q \in Known |-> 0] /\ todo = AllPairs /\ words \in WordChoices
      /\ outcome = "running"
  BY DEF ClusterInit, AllPairs
<1>2. Forest /\ NoTreeCrosses /\ RootsAre(Q)
  BY <1>1 DEF Forest, NoTreeCrosses, RootsAre
<1>3. TreesAreLarge(Q)
  <2> SUFFICES ASSUME NEW r \in Known PROVE 0 < Cardinality({q \in Known : Q[q] = r})
    BY <1>1 DEF TreesAreLarge
  <2>1. {q \in Known : Q[q] = r} = {r}
    OBVIOUS
  <2> HIDE DEF Q
  <2>2. Cardinality({q \in Known : Q[q] = r}) = 1
    BY <2>1, FS_Singleton
  <2> QED
    BY <2>2
<1>4. UnitedSoFar(Q)
  BY <1>1 DEF UnitedSoFar
<1> HIDE DEF Q
<1> QED
  BY <1>1, <1>2, <1>3, <1>4 DEF UnionIInv

LEMMA UnionStep == UnionIInv /\ [ClusterNext]_clusterVars => UnionIInv'
<1> SUFFICES ASSUME UnionIInv, [ClusterNext]_clusterVars PROVE UnionIInv'
  OBVIOUS
<1>0. /\ words \in WordChoices /\ outcome \in {"running", "built", "raised"}
      /\ todo \subseteq AllPairs /\ (outcome = "built" => todo = {}) /\ Forest /\ NoTreeCrosses
  BY DEF UnionIInv
<1>1. PICK R : RootsAre(R) /\ TreesAreLarge(R) /\ UnitedSoFar(R)
  BY DEF UnionIInv
<1>2. Known' = Known /\ AllPairs' = AllPairs /\ UNCHANGED <<rows, words, top>>
  <2>1. UNCHANGED <<rows, words, top>>
    BY DEF ClusterNext, Union, Finish, clusterVars
  <2> QED
    BY <2>1 DEF Known, AllPairs, SearchPairs, ResultPairs, PairsOf, AlikeBySearch, OnePage, OnePrefix,
                Similarity, ResultsOverlap
<1>3. ASSUME UNCHANGED <<parent, rank>> PROVE Forest' /\ NoTreeCrosses' /\ RootsAre(R)' /\ TreesAreLarge(R)'
  BY <1>0, <1>1, <1>2, <1>3 DEF Forest, NoTreeCrosses, Uncrossed, RootsAre, TreesAreLarge
<1>4. ASSUME outcome = "running", NEW pair \in todo, todo' = todo \ {pair},
             NEW a \in pair, NEW b \in pair, a # b, pair \subseteq Known, Link(a, b), outcome' = outcome
      PROVE  UnionIInv'
  <2>1. pair = {a, b}
    <3>1. \E S : pair \in PairsOf(S)
      BY <1>0, <1>4 DEF AllPairs, SearchPairs, ResultPairs
    <3> QED
      BY <1>4, <3>1 DEF PairsOf
  <2>2. \A S : Uncrossed(S) => (a \in S <=> b \in S)
    BY <1>0, <1>4 DEF Uncrossed
  <2>3. PICK Q : /\ Forest' /\ NoTreeCrosses' /\ RootsAre(Q)' /\ TreesAreLarge(Q)' /\ Q[a] = Q[b]
                 /\ \A m, n \in Known : R[m] = R[n] => Q[m] = Q[n]
    BY <1>0, <1>1, <1>2, <1>4, <2>2, LinkStep
  <2>4. UnitedSoFar(Q)'
    <3> SUFFICES ASSUME NEW p \in AllPairs \ (todo \ {pair})
                 PROVE  p \subseteq Known /\ \A m, n \in p : Q[m] = Q[n]
      BY <1>2, <1>4 DEF UnitedSoFar
    <3>1. CASE p = pair
      BY <1>4, <2>1, <2>3, <3>1
    <3>2. CASE p \in AllPairs \ todo
      BY <1>1, <1>4, <2>3, <3>2 DEF UnitedSoFar
    <3> QED
      BY <3>1, <3>2
  <2> QED
    BY <1>0, <1>2, <1>4, <2>3, <2>4 DEF UnionIInv
<1>5. CASE Union
  <2>1. PICK pair \in todo :
          /\ outcome = "running" /\ todo' = todo \ {pair}
          /\ IF pair \subseteq DOMAIN parent
               THEN (\E a, b \in pair : a # b /\ Link(a, b)) /\ UNCHANGED outcome
               ELSE outcome' = "raised" /\ UNCHANGED <<parent, rank>>
    BY <1>5 DEF Union
  <2>2. CASE pair \subseteq DOMAIN parent
    BY <1>0, <1>4, <2>1, <2>2 DEF Forest
  <2>3. CASE ~(pair \subseteq DOMAIN parent)
    <3>1. outcome' = "raised" /\ UnitedSoFar(R)'
      BY <2>1, <2>3 DEF UnitedSoFar
    <3> QED
      BY <1>0, <1>2, <1>3, <2>1, <2>3, <3>1 DEF UnionIInv
  <2> QED
    BY <2>2, <2>3
<1>6. CASE Finish \/ UNCHANGED clusterVars
  <2>1. /\ UNCHANGED <<parent, rank, todo>> /\ outcome' \in {outcome, "built"}
        /\ outcome' # outcome => outcome = "running" /\ todo = {}
    BY <1>6 DEF Finish, clusterVars
  <2>2. UnitedSoFar(R)'
    BY <1>1, <1>2, <2>1 DEF UnitedSoFar
  <2> QED
    BY <1>0, <1>2, <1>3, <2>1, <2>2 DEF UnionIInv
<1> QED
  BY <1>5, <1>6 DEF ClusterNext

(* Ranks are less than the number of queries.                              *)
LEMMA UnionTyped == UnionIInv => ClusterTypeOK
<1> SUFFICES ASSUME UnionIInv PROVE ClusterTypeOK
  OBVIOUS
<1>1. PICK R : RootsAre(R) /\ TreesAreLarge(R)
  BY DEF UnionIInv
<1>2. IsFiniteSet(Known) /\ Cardinality(Known) \in Nat
  BY ClusterAssumption, FS_Subset, FS_CardinalityType DEF Known
<1>3. ASSUME NEW q \in Known PROVE rank[q] \in 0 .. Cardinality(Known)
  <2> DEFINE T == {n \in Known : R[n] = R[q]}
  <2>1. R[q] \in Known /\ parent[R[q]] = R[q] /\ (q # R[q] => rank[q] < rank[R[q]])
    BY <1>1 DEF RootsAre
  <2>2. rank[q] \in Nat /\ rank[R[q]] \in Nat
    BY <2>1 DEF UnionIInv, Forest
  <2>3. rank[R[q]] < Cardinality(T)
    BY <1>1, <2>1 DEF TreesAreLarge
  <2>4. Cardinality(T) <= Cardinality(Known) /\ Cardinality(T) \in Nat
    BY <1>2, FS_Subset, FS_CardinalityType
  <2> HIDE DEF T
  <2> QED
    BY <1>2, <2>1, <2>2, <2>3, <2>4
<1> QED
  BY <1>3 DEF UnionIInv, Forest, ClusterTypeOK

(* In any order of the unions, ranks rise to the roots and are less than   *)
(* the number of queries: every find ends (topics/graph_builder.py:23-50). *)
THEOREM FindsAlwaysEnd == ClusterSpec => []ClusterTypeOK
BY UnionInit, UnionStep, UnionTyped, PTL DEF ClusterSpec

(* A graph that is built has one cluster for all the queries that the      *)
(* signals connect, and for no others, and two queries that compete share  *)
(* one (topics/graph_builder.py:100-158, cannibalization.py:75).           *)
THEOREM ClustersAlwaysGroup == ClusterSpec => []ClustersAreGroups
<1>1. ASSUME UnionIInv, outcome = "built", NEW R, RootsAre(R), UnitedSoFar(R)
      PROVE  /\ \A q \in Known : Root(q) = R[q]
             /\ \A pair \in AllPairs : pair \subseteq Known /\ \A a, b \in pair : R[a] = R[b]
  <2>1. todo = {} /\ Forest
    BY <1>1 DEF UnionIInv
  <2> QED
    BY <1>1, <2>1, FindIsRoot DEF UnitedSoFar
<1>2. UnionIInv => GroupsAreComponents
  <2> SUFFICES ASSUME UnionIInv, outcome = "built", NEW a \in Known, NEW b \in Known
               PROVE  (Root(a) = Root(b)) <=> ~Apart(a, b)
    BY DEF GroupsAreComponents
  <2>1. PICK R : RootsAre(R) /\ UnitedSoFar(R)
    BY DEF UnionIInv
  <2>2. /\ Root(a) = R[a] /\ Root(b) = R[b]
        /\ \A pair \in AllPairs : pair \subseteq Known /\ \A m, n \in pair : R[m] = R[n]
    BY <1>1, <2>1
  <2>3. ASSUME R[a] = R[b], Apart(a, b) PROVE FALSE
    <3>1. PICK S : a \in S /\ b \notin S /\ Uncrossed(S)
      BY <2>3 DEF Apart, Uncrossed, AllPairs
    <3>2. (a \in S <=> R[a] \in S) /\ (b \in S <=> R[b] \in S)
      BY <2>1, <3>1, RootOnSameSide DEF UnionIInv
    <3> QED
      BY <2>3, <3>1, <3>2
  <2>4. ASSUME R[a] # R[b] PROVE Apart(a, b)
    <3> DEFINE S == {q \in Known : R[q] = R[a]}
    <3>1. S \in SUBSET (Known \cup Keywords) /\ a \in S /\ b \notin S
      BY <2>4
    <3>2. \A pair \in AllPairs : pair \subseteq S \/ pair \cap S = {}
      BY <2>2
    <3> HIDE DEF S
    <3> QED
      BY <3>1, <3>2 DEF Apart, AllPairs
  <2> QED
    BY <2>2, <2>3, <2>4
<1>3. UnionIInv => RivalsShareACluster
  <2> SUFFICES ASSUME UnionIInv, outcome = "built", NEW a \in Known, NEW b \in Known, a # b, Paired(a, b)
               PROVE  Root(a) = Root(b)
    BY DEF RivalsShareACluster
  <2>1. PICK R : RootsAre(R) /\ UnitedSoFar(R)
    BY DEF UnionIInv
  <2>2. Similarity(a, b, 55)
    <3> DEFINE both   == Cardinality(words[a] \cap words[b])
               either == Cardinality(words[a] \cup words[b])
    <3>1. IsFiniteSet(words[a]) /\ IsFiniteSet(words[b])
      BY ClusterAssumption DEF UnionIInv, Known
    <3>2. both \in Nat /\ either \in Nat
      BY <3>1, FS_Union, FS_Intersection, FS_CardinalityType
    <3>3. words[a] # {} /\ words[b] # {} /\ 100 * both >= 70 * either
      BY DEF Paired, Similarity
    <3> HIDE DEF both, either
    <3>4. 100 * both >= 55 * either
      BY <3>2, <3>3
    <3> QED
      BY <3>3, <3>4 DEF both, either, Similarity
  <2>3. {a, b} \in PairsOf(Known)
    <3>1. <<a, b>> \in {p \in Known \X Known : p[1] # p[2]}
      OBVIOUS
    <3> QED
      BY <3>1 DEF PairsOf
  <2>4. {a, b} \in AllPairs
    BY <2>2, <2>3 DEF AllPairs, SearchPairs, AlikeBySearch
  <2> QED
    BY <1>1, <2>1, <2>4
<1>4. UnionIInv => ClustersAreGroups
  BY <1>2, <1>3 DEF ClustersAreGroups
<1> QED
  BY <1>4, UnionInit, UnionStep, PTL DEF ClusterSpec

----------------------------------------------------------------------------
(* The scores, for any features, signals, searches and competitors.        *)
LEMMA MinOfTwo == \A a, b \in Int : Min({a, b}) = IF a <= b THEN a ELSE b
<1> SUFFICES ASSUME NEW a \in Int, NEW b \in Int PROVE Min({a, b}) = IF a <= b THEN a ELSE b
  OBVIOUS
<1> QED BY DEF Min

LEMMA MaxOfTwo == \A a, b \in Int : Max({a, b}) = IF a <= b THEN b ELSE a
<1> SUFFICES ASSUME NEW a \in Int, NEW b \in Int PROVE Max({a, b}) = IF a <= b THEN b ELSE a
  OBVIOUS
<1> QED BY DEF Max

LEMMA CrowdValue == \A n \in Nat :
    CrowdPenalty(n) = IF n >= 8 THEN -5 ELSE IF n >= 5 THEN -3 ELSE IF n <= 2 THEN 2 ELSE 0
  BY DEF CrowdPenalty

LEMMA AuthorityPenaltyValue == \A da \in Nat :
    AuthorityPenalty(da) = IF da >= 60 THEN -4 ELSE IF da >= 40 THEN -2 ELSE IF da <= 20 THEN 2 ELSE 0
  BY DEF AuthorityPenalty

LEMMA VolumeValue == \A n \in Nat :
    VolumeFactor(n) = IF n >= 3000 THEN 20 ELSE IF n >= 1000 THEN 17 ELSE IF n >= 300 THEN 13
                      ELSE IF n >= 100 THEN 8 ELSE IF n >= 10 THEN 4 ELSE 1
<1> SUFFICES ASSUME NEW n \in Nat
             PROVE  VolumeFactor(n) = IF n >= 3000 THEN 20 ELSE IF n >= 1000 THEN 17
                      ELSE IF n >= 300 THEN 13 ELSE IF n >= 100 THEN 8 ELSE IF n >= 10 THEN 4 ELSE 1
  OBVIOUS
<1>1. CASE n >= 3000
  <2>1. ~(n >= 1000 /\ n < 3000) /\ ~(n >= 300 /\ n < 1000) /\ ~(n >= 100 /\ n < 300) /\ ~(n >= 10 /\ n < 100)
    BY <1>1
  <2> QED
    BY <1>1, <2>1, SMTT(60) DEF VolumeFactor
<1>2. CASE n >= 1000 /\ n < 3000
  <2>1. ~(n >= 3000) /\ ~(n >= 300 /\ n < 1000) /\ ~(n >= 100 /\ n < 300) /\ ~(n >= 10 /\ n < 100)
    BY <1>2
  <2> QED
    BY <1>2, <2>1, SMTT(60) DEF VolumeFactor
<1>3. CASE n >= 300 /\ n < 1000
  <2>1. ~(n >= 3000) /\ ~(n >= 1000 /\ n < 3000) /\ ~(n >= 100 /\ n < 300) /\ ~(n >= 10 /\ n < 100)
    BY <1>3
  <2> QED
    BY <1>3, <2>1, SMTT(60) DEF VolumeFactor
<1>4. CASE n >= 100 /\ n < 300
  <2>1. ~(n >= 3000) /\ ~(n >= 1000 /\ n < 3000) /\ ~(n >= 300 /\ n < 1000) /\ ~(n >= 10 /\ n < 100)
    BY <1>4
  <2> QED
    BY <1>4, <2>1, SMTT(60) DEF VolumeFactor
<1>5. CASE n >= 10 /\ n < 100
  <2>1. ~(n >= 3000) /\ ~(n >= 1000 /\ n < 3000) /\ ~(n >= 300 /\ n < 1000) /\ ~(n >= 100 /\ n < 300)
    BY <1>5
  <2> QED
    BY <1>5, <2>1, SMTT(60) DEF VolumeFactor
<1>6. CASE n < 10
  <2>1. ~(n >= 3000) /\ ~(n >= 1000 /\ n < 3000) /\ ~(n >= 300 /\ n < 1000) /\ ~(n >= 100 /\ n < 300) /\ ~(n >= 10 /\ n < 100)
    BY <1>6
  <2> QED
    BY <1>6, <2>1, SMTT(60) DEF VolumeFactor
<1> QED
  BY <1>1, <1>2, <1>3, <1>4, <1>5, <1>6

(* What a SERP says of the authority of its domains. *)
Estimate(count, strong) ==
    (IF count <= 2 THEN 15 ELSE IF count <= 5 THEN 30 ELSE IF count <= 8 THEN 45 ELSE 60)
        + IF strong THEN 20 ELSE 0

LEMMA EstimateValue == \A n \in Nat, s \in BOOLEAN : EstimateAuthority(n, s) = Estimate(n, s)
<1> SUFFICES ASSUME NEW n \in Nat, NEW s \in BOOLEAN PROVE EstimateAuthority(n, s) = Estimate(n, s)
  OBVIOUS
<1> DEFINE da == CASE n <= 2 -> 15 [] n \in 3 .. 5 -> 30 [] n \in 6 .. 8 -> 45 [] OTHER -> 60
<1>1. da = IF n <= 2 THEN 15 ELSE IF n <= 5 THEN 30 ELSE IF n <= 8 THEN 45 ELSE 60
  OBVIOUS
<1>2. EstimateAuthority(n, s) = IF s THEN Min({80, da + 20}) ELSE da
  BY DEF EstimateAuthority
<1> HIDE DEF da
<1>3. da \in {15, 30, 45, 60}
  BY <1>1
<1>4. Min({80, da + 20}) = da + 20
  BY <1>3, MinOfTwo
<1> QED
  BY <1>1, <1>2, <1>3, <1>4 DEF Estimate

LEMMA InputFields ==
  ASSUME NEW k \in KeywordInputs
  PROVE  /\ k.volume \in Nat /\ k.count \in Nat /\ k.strong \in BOOLEAN /\ k.da \in {-1, 10, 30, 70}
         /\ k.position \in {15, 99} /\ k.features \in SUBSET Features /\ k.signals \in SUBSET Signals
         /\ k.coverage \in {20, 50, 80, 95} /\ k.pillarHasPage \in BOOLEAN
  BY ScoreAssumption DEF KeywordInputs, Estimated, Unranked

LEMMA AuthorityValue ==
  ASSUME NEW k \in KeywordInputs
  PROVE  /\ Authority(k) = IF k.da = -1 THEN Estimate(k.count, k.strong) ELSE k.da
         /\ Authority(k) \in Nat
<1>1. /\ k.count \in Nat /\ k.strong \in BOOLEAN /\ k.da \in {-1, 10, 30, 70}
  BY InputFields
<1>2. Authority(k) = IF k.da = -1 THEN Estimate(k.count, k.strong) ELSE k.da
  BY <1>1, EstimateValue DEF Authority, Estimated
<1>3. Estimate(k.count, k.strong) \in Nat
  BY <1>1 DEF Estimate
<1> QED
  BY <1>1, <1>2, <1>3

(* ... so that no limit of the formula is ever reached.                    *)
LEMMA FeasibilityValue ==
  ASSUME NEW k \in KeywordInputs
  PROVE  /\ Feasibility(k) = IF k.position = 15 THEN 15
                             ELSE 14 + CrowdPenalty(k.count) + AuthorityPenalty(Authority(k))
                                     - (IF k.strong THEN 3 ELSE 0)
         /\ Feasibility(k) \in 2 .. 18
<1> DEFINE crowd == CrowdPenalty(k.count)
           links == AuthorityPenalty(Authority(k))
           strong == IF k.strong THEN 3 ELSE 0
           sum == 14 + crowd + links - strong
<1>1. k.count \in Nat /\ k.strong \in BOOLEAN /\ k.position \in {15, 99} /\ Authority(k) \in Nat
  BY InputFields, AuthorityValue
<1>2. crowd \in {-5, -3, 2, 0} /\ links \in {-4, -2, 2, 0} /\ strong \in {0, 3}
  BY <1>1, CrowdValue, AuthorityPenaltyValue
<1>3. Feasibility(k) = CASE k.position <= 10 -> 19 [] k.position \in 11 .. 20 -> 15
                         [] OTHER -> Max({1, Min({20, sum})})
  BY DEF Feasibility
<1> HIDE DEF crowd, links, strong
<1>4. sum \in 2 .. 18
  BY <1>2
<1> HIDE DEF sum
<1>5. Max({1, Min({20, sum})}) = sum
  BY <1>4, MinOfTwo, MaxOfTwo
<1>6. Feasibility(k) = IF k.position = 15 THEN 15 ELSE sum
  <2>1. CASE k.position = 15
    BY <1>3, <2>1
  <2>2. CASE k.position = 99
    BY <1>3, <1>5, <2>2
  <2> QED BY <1>1, <2>1, <2>2
<1> QED
  BY <1>4, <1>6 DEF sum, crowd, links, strong

(* More that speaks for a keyword weighs more.                             *)
LEMMA TotalGrows ==
  ASSUME NEW X, NEW weight \in [X -> 1 .. 6], NEW S, S \subseteq X, IsFiniteSet(S), NEW R, R \subseteq S
  PROVE  /\ TotalWeight(weight, S) \in Nat /\ TotalWeight(weight, R) \in Nat
         /\ TotalWeight(weight, R) <= TotalWeight(weight, S)
<1> DEFINE Over(w, T) == Cardinality({x \in T : weight[x] >= w})
<1>1. ASSUME NEW w \in 1 .. 6
      PROVE  Over(w, R) \in Nat /\ Over(w, S) \in Nat /\ Over(w, R) <= Over(w, S)
  <2>1. /\ {x \in R : weight[x] >= w} \subseteq {x \in S : weight[x] >= w}
        /\ {x \in S : weight[x] >= w} \subseteq S
    OBVIOUS
  <2>2. IsFiniteSet({x \in S : weight[x] >= w})
    BY <2>1, FS_Subset
  <2>3. /\ IsFiniteSet({x \in R : weight[x] >= w})
        /\ Cardinality({x \in R : weight[x] >= w}) <= Cardinality({x \in S : weight[x] >= w})
    BY <2>1, <2>2, FS_Subset
  <2> QED
    BY <2>2, <2>3, FS_CardinalityType
<1>2. /\ TotalWeight(weight, R) = Over(1, R) + Over(2, R) + Over(3, R) + Over(4, R) + Over(5, R) + Over(6, R)
      /\ TotalWeight(weight, S) = Over(1, S) + Over(2, S) + Over(3, S) + Over(4, S) + Over(5, S) + Over(6, S)
  BY DEF TotalWeight
<1> HIDE DEF Over
<1> QED
  BY <1>1, <1>2

(* Anything present weighs one at least, and what weighs two does.         *)
LEMMA TotalAtLeast ==
  ASSUME NEW X, NEW weight \in [X -> 1 .. 6], NEW S, S \subseteq X, IsFiniteSet(S), NEW f \in S
  PROVE  /\ TotalWeight(weight, S) \in Nat /\ TotalWeight(weight, S) >= 1
         /\ weight[f] >= 2 => TotalWeight(weight, S) >= 2
<1> DEFINE Over(w) == Cardinality({x \in S : weight[x] >= w})
<1>1. ASSUME NEW w \in 1 .. 6
      PROVE  Over(w) \in Nat /\ (weight[f] >= w => Over(w) >= 1)
  <2>1. {x \in S : weight[x] >= w} \subseteq S
    OBVIOUS
  <2>2. IsFiniteSet({x \in S : weight[x] >= w})
    BY <2>1, FS_Subset
  <2>3. Over(w) \in Nat /\ (Over(w) = 0 <=> {x \in S : weight[x] >= w} = {})
    BY <2>2, FS_CardinalityType, FS_EmptySet
  <2>4. weight[f] >= w => f \in {x \in S : weight[x] >= w}
    OBVIOUS
  <2> QED
    BY <2>3, <2>4
<1>2. TotalWeight(weight, S) = Over(1) + Over(2) + Over(3) + Over(4) + Over(5) + Over(6)
  BY DEF TotalWeight
<1>3. weight[f] \in 1 .. 6
  OBVIOUS
<1> HIDE DEF Over
<1>4. /\ Over(1) \in Nat /\ Over(2) \in Nat /\ Over(3) \in Nat /\ Over(4) \in Nat /\ Over(5) \in Nat
      /\ Over(6) \in Nat /\ Over(1) >= 1 /\ (weight[f] >= 2 => Over(2) >= 1)
  BY <1>1, <1>3
<1> QED
  BY <1>2, <1>4

LEMMA WeightsTyped ==
    SlotWeight \in [Features -> 1 .. 6] /\ SignalWeight \in [Signals -> 1 .. 6]
<1>1. ASSUME NEW f \in Features PROVE SlotWeight[f] \in 1 .. 6
  <2>1. SlotWeight[f] \in {6, 4, 5, 3, 2, 1}
    BY DEF SlotWeight
  <2> QED BY <2>1
<1>2. ASSUME NEW s \in Signals PROVE SignalWeight[s] \in 1 .. 6
  <2>1. SignalWeight[s] \in {6, 5, 4, 3, 2, 1}
    BY DEF SignalWeight
  <2> QED BY <2>1
<1>3. SlotWeight = [f \in Features |-> SlotWeight[f]] /\ SignalWeight = [s \in Signals |-> SignalWeight[s]]
  BY DEF SlotWeight, SignalWeight
<1> QED
  BY <1>1, <1>2, <1>3

LEMMA DiversityValue ==
  ASSUME NEW k \in KeywordInputs
  PROVE  /\ Diversity(k) \in 1 .. 20
         /\ Diversity(k) = IF k.features = {} THEN 2 ELSE Min({20, TotalWeight(SlotWeight, k.features)})
<1>1. k.features \in SUBSET Features
  BY InputFields
<1>2. Diversity(k) = IF k.features = {} THEN 2 ELSE Min({20, TotalWeight(SlotWeight, k.features)})
  BY <1>1 DEF Diversity, DiversityOf
<1>3. IsFiniteSet(k.features)
  BY <1>1, ScoreAssumption, FS_Subset
<1>4. ASSUME k.features # {} PROVE Diversity(k) \in 1 .. 20
  <2>1. PICK f : f \in k.features
    BY <1>4
  <2>2. TotalWeight(SlotWeight, k.features) \in Nat /\ TotalWeight(SlotWeight, k.features) >= 1
    BY <1>1, <1>3, <2>1, WeightsTyped, TotalAtLeast
  <2> QED
    BY <1>2, <1>4, <2>2, MinOfTwo
<1> QED
  BY <1>2, <1>4

LEMMA CitationValue ==
  ASSUME NEW k \in KeywordInputs
  PROVE  /\ Citation(k) \in 2 .. 20
         /\ SignalsOf[k.signals] = TotalWeight(SignalWeight, k.signals)
         /\ SignalsOf[k.signals] \in Nat
<1>1. k.signals \in SUBSET Signals
  BY InputFields
<1>2. IsFiniteSet(k.signals)
  BY <1>1, ScoreAssumption, FS_Subset
<1>3. SignalsOf[k.signals] = TotalWeight(SignalWeight, k.signals)
  BY <1>1 DEF SignalsOf
<1>4. SignalsOf[k.signals] \in Nat
  BY <1>1, <1>2, <1>3, WeightsTyped, TotalGrows
<1>5. PICK n \in Nat : n = SignalsOf[k.signals]
  BY <1>4
<1>6. Citation(k) = Min({20, 2 + (IF "ai_overview" \in k.features THEN 6 ELSE 0) + n})
  BY <1>5 DEF Citation
<1>7. Citation(k) \in 2 .. 20
  <2>1. CASE "ai_overview" \in k.features
    BY <1>6, <2>1, MinOfTwo
  <2>2. CASE "ai_overview" \notin k.features
    BY <1>6, <2>2, MinOfTwo
  <2> QED BY <2>1, <2>2
<1> QED
  BY <1>3, <1>4, <1>7

(* What is new about a keyword in its cluster.                             *)
News(k) ==
    (IF k.node # "pillar" THEN 0 ELSE IF k.pillarHasPage THEN 4 ELSE 7)
        + IF k.coverage = 20 THEN 4 ELSE IF k.coverage = 50 THEN 2 ELSE IF k.coverage = 95 THEN -2 ELSE 0

LEMMA ContributionValue ==
  ASSUME NEW k \in KeywordInputs
  PROVE  /\ Contribution(k) = Min({20, 10 + News(k)})
         /\ News(k) \in -2 .. 11 /\ Contribution(k) \in 8 .. 20
<1> DEFINE gap == CASE k.coverage < 30 -> 4 [] k.coverage \in 30 .. 59 -> 2 [] k.coverage >= 90 -> -2 [] OTHER -> 0
           pillar == IF k.node # "pillar" THEN 0 ELSE IF k.pillarHasPage THEN 4 ELSE 7
<1>1. k.coverage \in {20, 50, 80, 95}
  BY InputFields
<1>2. gap = IF k.coverage = 20 THEN 4 ELSE IF k.coverage = 50 THEN 2 ELSE IF k.coverage = 95 THEN -2 ELSE 0
  <2>1. CASE k.coverage = 20
    BY <2>1
  <2>2. CASE k.coverage = 50
    BY <2>2
  <2>3. CASE k.coverage = 80
    BY <2>3
  <2>4. CASE k.coverage = 95
    BY <2>4
  <2> QED BY <1>1, <2>1, <2>2, <2>3, <2>4
<1>3. Contribution(k) = Min({20, 10 + pillar + gap})
  BY DEF Contribution
<1>4. gap \in {4, 2, -2, 0}
  BY <1>1, <1>2
<1>5. pillar \in {0, 4, 7}
  OBVIOUS
<1>6. News(k) = pillar + gap
  BY <1>2 DEF News
<1> HIDE DEF gap, pillar
<1>7. News(k) \in -2 .. 11 /\ Contribution(k) = Min({20, 10 + News(k)})
  <2>1. 10 + pillar + gap = 10 + News(k)
    BY <1>4, <1>5, <1>6
  <2> QED BY <1>3, <1>4, <1>5, <1>6, <2>1
<1> HIDE DEF News
<1> QED
  BY <1>7, MinOfTwo

LEMMA TimesGrows ==
  ASSUME NEW a \in Nat, NEW b \in Nat, NEW c \in Nat, NEW d \in Nat, a <= c, b <= d
  PROVE  a * b \in Nat /\ c * d \in Nat /\ a * b <= c * d
<1>1. PICK i \in Nat, j \in Nat : c = a + i /\ d = b + j
  <2>1. c - a \in Nat /\ d - b \in Nat /\ c = a + (c - a) /\ d = b + (d - b)
    OBVIOUS
  <2> QED BY <2>1
<1>2. a * b \in Nat /\ a * j \in Nat /\ i * b \in Nat /\ i * j \in Nat
  OBVIOUS
<1>3. (a + i) * (b + j) = a * b + a * j + i * b + i * j
  OBVIOUS
<1> QED
  BY <1>1, <1>2, <1>3

LEMMA FactorsTyped ==
  ASSUME NEW k \in KeywordInputs
  PROVE  /\ VolumeFactor(k.volume) \in 1 .. 20 /\ Feasibility(k) \in 2 .. 18 /\ Diversity(k) \in 1 .. 20
         /\ Citation(k) \in 2 .. 20 /\ Contribution(k) \in 8 .. 20
<1>1. k.volume \in Nat
  BY InputFields
<1>2. VolumeFactor(k.volume) \in 1 .. 20
  BY <1>1, VolumeValue
<1> QED
  BY <1>2, FeasibilityValue, DiversityValue, CitationValue, ContributionValue

(* Five factors that are no smaller have a product that is no smaller.     *)
LEMMA FiveGrow ==
  ASSUME NEW a1 \in Nat, NEW a2 \in Nat, NEW a3 \in Nat, NEW a4 \in Nat, NEW a5 \in Nat,
         NEW b1x \in Nat, NEW b2 \in Nat, NEW b3 \in Nat, NEW b4 \in Nat, NEW b5 \in Nat,
         a1 <= b1x, a2 <= b2, a3 <= b3, a4 <= b4, a5 <= b5
  PROVE  /\ a1 * a2 * a3 * a4 * a5 \in Nat /\ b1x * b2 * b3 * b4 * b5 \in Nat
         /\ a1 * a2 * a3 * a4 * a5 <= b1x * b2 * b3 * b4 * b5
<1>1. a1 * a2 \in Nat /\ b1x * b2 \in Nat /\ a1 * a2 <= b1x * b2
  BY TimesGrows
<1>2. PICK p2 \in Nat, q2 \in Nat : p2 = a1 * a2 /\ q2 = b1x * b2
  BY <1>1
<1>3. p2 * a3 \in Nat /\ q2 * b3 \in Nat /\ p2 * a3 <= q2 * b3
  BY <1>1, <1>2, TimesGrows
<1>4. PICK p3 \in Nat, q3 \in Nat : p3 = p2 * a3 /\ q3 = q2 * b3
  BY <1>3
<1>5. p3 * a4 \in Nat /\ q3 * b4 \in Nat /\ p3 * a4 <= q3 * b4
  BY <1>3, <1>4, TimesGrows
<1>6. PICK p4 \in Nat, q4 \in Nat : p4 = p3 * a4 /\ q4 = q3 * b4
  BY <1>5
<1>7. p4 * a5 \in Nat /\ q4 * b5 \in Nat /\ p4 * a5 <= q4 * b5
  BY <1>5, <1>6, TimesGrows
<1>8. a1 * a2 * a3 * a4 * a5 = p4 * a5 /\ b1x * b2 * b3 * b4 * b5 = q4 * b5
  BY <1>2, <1>4, <1>6
<1> QED
  BY <1>7, <1>8

LEMMA ProductGrows ==
  ASSUME NEW k \in KeywordInputs, NEW l \in KeywordInputs,
         VolumeFactor(k.volume) <= VolumeFactor(l.volume), Feasibility(k) <= Feasibility(l),
         Diversity(k) <= Diversity(l), Citation(k) <= Citation(l), Contribution(k) <= Contribution(l)
  PROVE  Product(k) \in Nat /\ Product(l) \in Nat /\ Product(k) <= Product(l)
<1>1. PICK a1 \in Nat, a2 \in Nat, a3 \in Nat, a4 \in Nat, a5 \in Nat :
        a1 = VolumeFactor(k.volume) /\ a2 = Feasibility(k) /\ a3 = Diversity(k)
          /\ a4 = Citation(k) /\ a5 = Contribution(k)
  <2>1. /\ VolumeFactor(k.volume) \in Nat /\ Feasibility(k) \in Nat /\ Diversity(k) \in Nat
        /\ Citation(k) \in Nat /\ Contribution(k) \in Nat
    BY FactorsTyped
  <2> QED BY <2>1
<1>2. PICK c1 \in Nat, c2 \in Nat, c3 \in Nat, c4 \in Nat, c5 \in Nat :
        c1 = VolumeFactor(l.volume) /\ c2 = Feasibility(l) /\ c3 = Diversity(l)
          /\ c4 = Citation(l) /\ c5 = Contribution(l)
  <2>1. /\ VolumeFactor(l.volume) \in Nat /\ Feasibility(l) \in Nat /\ Diversity(l) \in Nat
        /\ Citation(l) \in Nat /\ Contribution(l) \in Nat
    BY FactorsTyped
  <2> QED BY <2>1
<1>3. /\ a1 * a2 * a3 * a4 * a5 \in Nat /\ c1 * c2 * c3 * c4 * c5 \in Nat
      /\ a1 * a2 * a3 * a4 * a5 <= c1 * c2 * c3 * c4 * c5
  BY <1>1, <1>2, FiveGrow
<1>4. Product(k) = a1 * a2 * a3 * a4 * a5 /\ Product(l) = c1 * c2 * c3 * c4 * c5
  BY <1>1, <1>2 DEF Product
<1> QED
  BY <1>3, <1>4

(* A factor of a to n.                                                     *)
LEMMA TimesBounds ==
  ASSUME NEW p \in Nat, NEW n \in Nat, NEW a \in Nat, a <= n
  PROVE  p * a \in Nat /\ p * a <= p * n /\ (a >= 1 => p <= p * a)
<1>1. p * a \in Nat /\ p * a <= p * n
  BY TimesGrows
<1>2. ASSUME a >= 1 PROVE p <= p * a
  <2>1. p * 1 <= p * a
    BY <1>2, TimesGrows
  <2> QED BY <2>1
<1> QED
  BY <1>1, <1>2

LEMMA ProductTyped ==
  ASSUME NEW k \in KeywordInputs
  PROVE  Product(k) \in 2 .. MaxProduct
<1>1. /\ VolumeFactor(k.volume) \in 1 .. 20 /\ Feasibility(k) \in 2 .. 18 /\ Diversity(k) \in 1 .. 20
      /\ Citation(k) \in 2 .. 20 /\ Contribution(k) \in 8 .. 20
  BY FactorsTyped
<1>2. PICK a1 \in 1 .. 20 : a1 = VolumeFactor(k.volume)
  BY <1>1
<1>3. PICK a2 \in 1 .. 20 : a2 = Feasibility(k)
  BY <1>1
<1>4. PICK a3 \in 1 .. 20 : a3 = Diversity(k)
  BY <1>1
<1>5. PICK a4 \in 2 .. 20 : a4 = Citation(k)
  BY <1>1
<1>6. PICK a5 \in 1 .. 20 : a5 = Contribution(k)
  BY <1>1
<1>7. Product(k) = a1 * a2 * a3 * a4 * a5
  BY <1>2, <1>3, <1>4, <1>5, <1>6, Zenon DEF Product
<1>8. a1 * a2 \in Nat /\ a1 * a2 <= a1 * 20 /\ a1 <= a1 * a2
  BY TimesBounds
<1>9. PICK p2 \in Nat : p2 = a1 * a2 /\ p2 <= 400 /\ 1 <= p2
  BY <1>8
<1>10. p2 * a3 \in Nat /\ p2 * a3 <= p2 * 20 /\ p2 <= p2 * a3
  BY TimesBounds
<1>11. PICK p3 \in Nat : p3 = p2 * a3 /\ p3 <= 8000 /\ 1 <= p3
  BY <1>9, <1>10
<1>12. p3 * a4 \in Nat /\ p3 * a4 <= p3 * 20 /\ p3 * 2 <= p3 * a4
  BY TimesBounds, TimesGrows
<1>13. PICK p4 \in Nat : p4 = p3 * a4 /\ p4 <= 8000 * 20 /\ 2 <= p4
  BY <1>11, <1>12
<1>14. p4 * a5 \in Nat /\ p4 * a5 <= p4 * 20 /\ p4 <= p4 * a5
  BY TimesBounds
<1>15. PICK p5 \in Nat : p5 = p4 * a5 /\ p5 <= 8000 * 20 * 20 /\ 2 <= p5
  BY <1>13, <1>14
<1>16. Product(k) = p5
  <2>1. p2 = a1 * a2 /\ p3 = p2 * a3 /\ p4 = p3 * a4 /\ p5 = p4 * a5
    BY <1>9, <1>11, <1>13, <1>15
  <2> QED
    BY <1>7, <2>1, Zenon
<1>17. p5 <= MaxProduct /\ MaxProduct \in Nat
  BY <1>15 DEF MaxProduct
<1> QED
  BY <1>15, <1>16, <1>17

(* The tier of a keyword, worst last.                                      *)
LEMMA TierValue ==
  ASSUME NEW k \in KeywordInputs
  PROVE  /\ Tier(k) = IF Feasibility(k) >= 14 /\ Product(k) >= 7712 THEN 1
                      ELSE IF Feasibility(k) >= 8 /\ ~FallsShort(k) /\ Product(k) >= 239 THEN 2 ELSE 3
         /\ Tier(k) \in 1 .. 3
<1> DEFINE first == Feasibility(k) >= 14 /\ Product(k) >= 7712
           second == Feasibility(k) >= 8 /\ ~FallsShort(k) /\ Product(k) >= 239
<1>1. Tier(k) = CASE first -> 1 [] second /\ ~first -> 2 [] OTHER -> 3
  BY SMT DEF Tier
<1> HIDE DEF first, second
<1>2. Tier(k) = IF first THEN 1 ELSE IF second THEN 2 ELSE 3
  BY <1>1
<1>3. Tier(k) \in 1 .. 3
  BY <1>2
<1> QED
  BY <1>2, <1>3 DEF first, second

(* A keyword that is less feasible and worth less, or whose sum falls short *)
(* again, is in no better tier.                                            *)
LEMMA TierOfWorse ==
  ASSUME NEW k \in KeywordInputs, NEW l \in KeywordInputs,
         Feasibility(l) <= Feasibility(k), Product(l) <= Product(k),
         FallsShort(k) => FallsShort(l) \/ Feasibility(l) < 8
  PROVE  Tier(l) >= Tier(k)
<1>1. PICK fk \in Int, fl \in Int, pk \in Int, pl \in Int :
        fk = Feasibility(k) /\ fl = Feasibility(l) /\ pk = Product(k) /\ pl = Product(l)
  <2>1. Feasibility(k) \in Int /\ Feasibility(l) \in Int /\ Product(k) \in Int /\ Product(l) \in Int
    BY FactorsTyped, ProductTyped
  <2> QED BY <2>1
<1>2. fl <= fk /\ pl <= pk
  BY <1>1
<1>3. /\ Tier(k) = IF fk >= 14 /\ pk >= 7712 THEN 1 ELSE IF fk >= 8 /\ ~FallsShort(k) /\ pk >= 239 THEN 2 ELSE 3
      /\ Tier(l) = IF fl >= 14 /\ pl >= 7712 THEN 1 ELSE IF fl >= 8 /\ ~FallsShort(l) /\ pl >= 239 THEN 2 ELSE 3
  BY <1>1, TierValue
<1>4. FallsShort(k) => fk = 8
  BY <1>1 DEF FallsShort
<1>5. FallsShort(k) => FallsShort(l) \/ fl < 8
  BY <1>1
<1>6. CASE FallsShort(k)
  BY <1>2, <1>3, <1>4, <1>5, <1>6
<1>7. CASE ~FallsShort(k)
  BY <1>2, <1>3, <1>7
<1> QED
  BY <1>6, <1>7

(* Two scorings that agree but for these fields.                           *)
SameButCompetition(k, l) ==
    /\ k.volume = l.volume /\ k.position = l.position /\ k.features = l.features /\ k.signals = l.signals
    /\ k.node = l.node /\ k.coverage = l.coverage /\ k.pillarHasPage = l.pillarHasPage

SameButCluster(k, l) ==
    /\ k.volume = l.volume /\ k.position = l.position /\ k.features = l.features /\ k.signals = l.signals
    /\ k.node = l.node /\ k.count = l.count /\ k.strong = l.strong /\ k.da = l.da

SameButSignals(k, l) ==
    /\ k.position = l.position /\ k.node = l.node /\ k.count = l.count /\ k.strong = l.strong
    /\ k.da = l.da /\ k.coverage = l.coverage /\ k.pillarHasPage = l.pillarHasPage

LEMMA MoreCompetition ==
  ASSUME NEW k \in KeywordInputs, NEW l \in KeywordInputs, SameButCompetition(k, l),
         k.count <= l.count, k.strong => l.strong, k.da = l.da \/ (k.da >= 0 /\ k.da <= l.da)
  PROVE  Tier(l) >= Tier(k)
<1>1. /\ k.count \in Nat /\ k.strong \in BOOLEAN /\ k.da \in {-1, 10, 30, 70} /\ k.position \in {15, 99}
      /\ l.count \in Nat /\ l.strong \in BOOLEAN /\ l.da \in {-1, 10, 30, 70}
  BY InputFields
<1>2. PICK ak \in Nat, al \in Nat : ak = Authority(k) /\ al = Authority(l)
  BY AuthorityValue
<1>3. ak <= al
  <2>1. Estimate(k.count, k.strong) \in Nat /\ Estimate(l.count, l.strong) \in Nat
        /\ Estimate(k.count, k.strong) <= Estimate(l.count, l.strong)
    BY <1>1 DEF Estimate
  <2>2. /\ ak = IF k.da = -1 THEN Estimate(k.count, k.strong) ELSE k.da
        /\ al = IF l.da = -1 THEN Estimate(l.count, l.strong) ELSE l.da
    BY <1>2, AuthorityValue
  <2> QED
    BY <1>1, <2>1, <2>2
<1>4. PICK ck \in {-5, -3, 2, 0}, cl \in {-5, -3, 2, 0} :
        ck = CrowdPenalty(k.count) /\ cl = CrowdPenalty(l.count)
  BY <1>1, CrowdValue
<1>5. PICK pk \in {-4, -2, 2, 0}, pl \in {-4, -2, 2, 0} :
        pk = AuthorityPenalty(ak) /\ pl = AuthorityPenalty(al)
  BY AuthorityPenaltyValue
<1>6. cl <= ck
  BY <1>1, <1>4, CrowdValue
<1>7. pl <= pk
  BY <1>3, <1>5, AuthorityPenaltyValue
<1>8. k.position = l.position
  BY DEF SameButCompetition
<1>9. PICK fk \in Int, fl \in Int : fk = Feasibility(k) /\ fl = Feasibility(l)
  <2>1. Feasibility(k) \in Int /\ Feasibility(l) \in Int
    BY FactorsTyped
  <2> QED BY <2>1
<1>10. /\ fk = IF k.position = 15 THEN 15 ELSE 14 + ck + pk - (IF k.strong THEN 3 ELSE 0)
       /\ fl = IF k.position = 15 THEN 15 ELSE 14 + cl + pl - (IF l.strong THEN 3 ELSE 0)
  BY <1>2, <1>4, <1>5, <1>8, <1>9, FeasibilityValue
<1>11. fl <= fk
  BY <1>1, <1>6, <1>7, <1>10
<1>12. FallsShort(k) => FallsShort(l) \/ fl < 8
  <2> SUFFICES ASSUME FallsShort(k), ~(fl < 8) PROVE FallsShort(l)
    OBVIOUS
  <2>1. k.position > 20 /\ k.strong /\ fk = 8 /\ k.count >= 5
    BY <1>9 DEF FallsShort
  <2>2. fl = 8 /\ l.strong /\ l.count >= 5 /\ l.position > 20
    BY <1>1, <1>8, <1>11, <2>1, <1>9, FactorsTyped
  <2> QED
    BY <1>9, <2>2 DEF FallsShort
<1>13. /\ VolumeFactor(l.volume) = VolumeFactor(k.volume) /\ Diversity(l) = Diversity(k)
       /\ Citation(l) = Citation(k) /\ Contribution(l) = Contribution(k)
  BY DEF SameButCompetition, Diversity, Citation, Contribution
<1>14. /\ VolumeFactor(l.volume) <= VolumeFactor(k.volume) /\ Diversity(l) <= Diversity(k)
       /\ Citation(l) <= Citation(k) /\ Contribution(l) <= Contribution(k)
       /\ Feasibility(l) <= Feasibility(k)
  BY <1>9, <1>11, <1>13, FactorsTyped
<1>15. Product(l) <= Product(k)
  BY <1>14, ProductGrows
<1> QED
  BY <1>9, <1>12, <1>14, <1>15, TierOfWorse

LEMMA FullerCluster ==
  ASSUME NEW k \in KeywordInputs, NEW l \in KeywordInputs, SameButCluster(k, l),
         k.coverage <= l.coverage, k.pillarHasPage => l.pillarHasPage
  PROVE  Tier(l) >= Tier(k)
<1>1. /\ k.coverage \in {20, 50, 80, 95} /\ l.coverage \in {20, 50, 80, 95}
      /\ k.pillarHasPage \in BOOLEAN /\ l.pillarHasPage \in BOOLEAN
  BY InputFields
<1>2. PICK nk \in -2 .. 11, nl \in -2 .. 11 : nk = News(k) /\ nl = News(l)
  BY ContributionValue
<1>3. nl <= nk
  <2>1. PICK pk \in {0, 4, 7}, pl \in {0, 4, 7} :
          /\ pk = IF k.node # "pillar" THEN 0 ELSE IF k.pillarHasPage THEN 4 ELSE 7
          /\ pl = IF l.node # "pillar" THEN 0 ELSE IF l.pillarHasPage THEN 4 ELSE 7
    OBVIOUS
  <2>2. pl <= pk
    BY <2>1 DEF SameButCluster
  <2>3. PICK gk \in {4, 2, -2, 0}, gl \in {4, 2, -2, 0} :
          /\ gk = IF k.coverage = 20 THEN 4 ELSE IF k.coverage = 50 THEN 2 ELSE IF k.coverage = 95 THEN -2 ELSE 0
          /\ gl = IF l.coverage = 20 THEN 4 ELSE IF l.coverage = 50 THEN 2 ELSE IF l.coverage = 95 THEN -2 ELSE 0
    OBVIOUS
  <2>4. gl <= gk
    BY <1>1, <2>3
  <2>5. nk = pk + gk /\ nl = pl + gl
    BY <1>2, <2>1, <2>3 DEF News
  <2> QED
    BY <2>2, <2>4, <2>5
<1>4. Contribution(l) <= Contribution(k)
  <2>1. Contribution(k) = Min({20, 10 + nk}) /\ Contribution(l) = Min({20, 10 + nl})
    BY <1>2, ContributionValue
  <2>2. Min({20, 10 + nk}) = (IF 20 <= 10 + nk THEN 20 ELSE 10 + nk)
    BY MinOfTwo
  <2>3. Min({20, 10 + nl}) = (IF 20 <= 10 + nl THEN 20 ELSE 10 + nl)
    BY MinOfTwo
  <2> QED
    BY <1>3, <2>1, <2>2, <2>3
<1>5. Feasibility(l) = Feasibility(k)
  BY DEF SameButCluster, Feasibility, Authority
<1>6. FallsShort(k) => FallsShort(l)
  BY <1>5 DEF FallsShort, SameButCluster
<1>7. /\ VolumeFactor(l.volume) = VolumeFactor(k.volume) /\ Diversity(l) = Diversity(k)
      /\ Citation(l) = Citation(k)
  BY DEF SameButCluster, Diversity, Citation
<1>8. /\ VolumeFactor(l.volume) <= VolumeFactor(k.volume) /\ Diversity(l) <= Diversity(k)
      /\ Citation(l) <= Citation(k) /\ Feasibility(l) <= Feasibility(k)
  BY <1>5, <1>7, FactorsTyped
<1>9. Product(l) <= Product(k)
  BY <1>4, <1>8, ProductGrows
<1> QED
  BY <1>6, <1>8, <1>9, TierOfWorse

LEMMA MoreSignals ==
  ASSUME NEW k \in KeywordInputs, NEW l \in KeywordInputs, SameButSignals(k, l), ~BelowBaseline(k, l),
         k.volume <= l.volume, k.features \subseteq l.features, k.signals \subseteq l.signals
  PROVE  Tier(k) >= Tier(l)
<1>1. /\ k.volume \in Nat /\ l.volume \in Nat
      /\ l.features \in SUBSET Features /\ l.signals \in SUBSET Signals
  BY InputFields
<1>2. IsFiniteSet(l.features) /\ IsFiniteSet(l.signals)
  BY <1>1, ScoreAssumption, FS_Subset
<1>3. VolumeFactor(k.volume) <= VolumeFactor(l.volume)
  BY <1>1, VolumeValue
<1>4. Diversity(k) <= Diversity(l)
  <2>1. /\ TotalWeight(SlotWeight, l.features) \in Nat /\ TotalWeight(SlotWeight, k.features) \in Nat
        /\ TotalWeight(SlotWeight, k.features) <= TotalWeight(SlotWeight, l.features)
    BY <1>1, <1>2, WeightsTyped, TotalGrows
  <2>2. PICK tk \in Nat, tl \in Nat :
          tk = TotalWeight(SlotWeight, k.features) /\ tl = TotalWeight(SlotWeight, l.features)
    BY <2>1
  <2>3. tk <= tl
    BY <2>1, <2>2
  <2>4. CASE k.features = {} /\ l.features # {}
    <3>1. Diversity(k) \in 1 .. 20 /\ Diversity(l) \in 1 .. 20
      BY DiversityValue, Zenon
    <3>2. ~(Diversity(l) < Diversity(k))
      BY <2>4 DEF BelowBaseline
    <3> QED
      BY <3>1, <3>2
  <2>5. /\ Diversity(k) = IF k.features = {} THEN 2 ELSE Min({20, tk})
        /\ Diversity(l) = IF l.features = {} THEN 2 ELSE Min({20, tl})
    BY <2>2, DiversityValue
  <2>6. Min({20, tk}) = (IF 20 <= tk THEN 20 ELSE tk) /\ Min({20, tl}) = IF 20 <= tl THEN 20 ELSE tl
    BY MinOfTwo
  <2>7. l.features = {} => k.features = {}
    OBVIOUS
  <2>8. CASE ~(k.features = {} /\ l.features # {})
    BY <2>3, <2>5, <2>6, <2>7, <2>8
  <2> QED
    BY <2>4, <2>8
<1>5. Citation(k) <= Citation(l)
  <2>1. /\ TotalWeight(SignalWeight, l.signals) \in Nat /\ TotalWeight(SignalWeight, k.signals) \in Nat
        /\ TotalWeight(SignalWeight, k.signals) <= TotalWeight(SignalWeight, l.signals)
    BY <1>1, <1>2, WeightsTyped, TotalGrows
  <2>2. PICK tk \in Nat, tl \in Nat : tk = SignalsOf[k.signals] /\ tl = SignalsOf[l.signals]
    BY CitationValue
  <2>3. tk <= tl
    BY <2>1, <2>2, CitationValue
  <2>4. PICK ok \in {0, 6}, ol \in {0, 6} :
          /\ ok = IF "ai_overview" \in k.features THEN 6 ELSE 0
          /\ ol = IF "ai_overview" \in l.features THEN 6 ELSE 0
    OBVIOUS
  <2>5. ok <= ol
    BY <2>4
  <2>6. Citation(k) = Min({20, 2 + ok + tk}) /\ Citation(l) = Min({20, 2 + ol + tl})
    BY <2>2, <2>4 DEF Citation
  <2>7. /\ Min({20, 2 + ok + tk}) = IF 20 <= 2 + ok + tk THEN 20 ELSE 2 + ok + tk
        /\ Min({20, 2 + ol + tl}) = IF 20 <= 2 + ol + tl THEN 20 ELSE 2 + ol + tl
    BY MinOfTwo
  <2> QED
    BY <2>3, <2>5, <2>6, <2>7
<1>6. Feasibility(l) = Feasibility(k) /\ Contribution(l) = Contribution(k)
  BY DEF SameButSignals, Feasibility, Authority, Contribution
<1>7. Feasibility(k) <= Feasibility(l) /\ Contribution(k) <= Contribution(l)
  BY <1>6, FactorsTyped
<1>8. FallsShort(l) => FallsShort(k)
  BY <1>6 DEF FallsShort, SameButSignals
<1>9. Product(k) <= Product(l)
  BY <1>3, <1>4, <1>5, <1>7, ProductGrows
<1> QED
  BY <1>7, <1>8, <1>9, TierOfWorse

(* No score reaches 45 percent: confidence is at most nine tenths, and     *)
(* where an estimate is above 0.7, confidence is less.                     *)
LEMMA RuleBounds ==
  ASSUME NEW r \in Rules
  PROVE  /\ r[1] \in 1 .. 90 /\ Max({r[2], 7}) \in {7, 9} /\ Max({r[3], 7}) \in {7, 8}
         /\ \/ Max({r[2], 7}) = 7 /\ Max({r[3], 7}) = 7
            \/ Max({r[2], 7}) = 7 /\ r[1] <= 70
            \/ r[1] <= 60
<1>1. CASE r \in {<<c, 7, 7>> : c \in {60, 70, 75, 80, 85, 90}}
  <2>1. PICK c \in {60, 70, 75, 80, 85, 90} : r = <<c, 7, 7>>
    BY <1>1
  <2>2. r[1] = c /\ r[2] = 7 /\ r[3] = 7
    BY <2>1
  <2>3. Max({7, 7}) = 7
    BY MaxOfTwo
  <2> QED
    BY <2>2, <2>3
<1>2. CASE r = <<70, 3, 8>>
  <2>1. r[1] = 70 /\ r[2] = 3 /\ r[3] = 8
    BY <1>2
  <2>2. Max({3, 7}) = 7 /\ Max({8, 7}) = 8
    BY MaxOfTwo
  <2> QED
    BY <2>1, <2>2
<1>3. CASE r = <<60, 9, 8>>
  <2>1. r[1] = 60 /\ r[2] = 9 /\ r[3] = 8
    BY <1>3
  <2>2. Max({9, 7}) = 9 /\ Max({8, 7}) = 8
    BY MaxOfTwo
  <2> QED
    BY <2>1, <2>2
<1> QED
  BY <1>1, <1>2, <1>3 DEF Rules

LEMMA RuleFactor ==
  ASSUME NEW x \in 1 .. 90, NEW y \in {7, 9}, NEW z \in {7, 8},
         (y = 7 /\ z = 7) \/ (y = 7 /\ x <= 70) \/ x <= 60
  PROVE  x * y * z \in Nat /\ x * y * z <= 4410
<1>1. CASE y = 7 /\ z = 7
  BY <1>1
<1>2. CASE y = 7 /\ z = 8
  BY <1>2
<1>3. CASE y = 9 /\ z = 7
  BY <1>3
<1>4. CASE y = 9 /\ z = 8
  BY <1>4
<1> QED
  BY <1>1, <1>2, <1>3, <1>4

(* ... so that the two upper priorities are out of reach.                  *)
LEMMA PriorityTyped ==
  ASSUME NEW o \in OpportunityInputs
  PROVE  Priority(o) \in {"low", "medium"}
<1>1. /\ o.fit \in 0 .. 10 /\ o.demand \in 0 .. 10 /\ o.slots \in 0 .. 5 /\ o.rule \in Rules
  <2>1. o.fit \in {0, 3, 10} /\ o.demand \in Demands /\ o.slots \in 0 .. 5 /\ o.rule \in Rules
    BY DEF OpportunityInputs
  <2>2. o.fit \in 0 .. 10
    BY <2>1
  <2>3. o.demand \in 0 .. 10
    BY <2>1, ScoreAssumption
  <2> QED
    BY <2>1, <2>2, <2>3, Zenon
<1>2. PICK a1 \in 0 .. 10 : a1 = o.fit
  BY <1>1
<1>3. PICK a2 \in 0 .. 10 : a2 = o.demand
  BY <1>1
<1>4. PICK a3 \in 0 .. 10 : a3 = RankTenths(o)
  <2>1. RankTenths(o) \in {3, 2, 10, 8, 6, 4}
    BY Zenon DEF RankTenths
  <2> QED BY <2>1
<1>5. PICK a4 \in 0 .. 4 : a4 = SlotQuarters(o)
  BY <1>1, MinOfTwo DEF SlotQuarters
<1>6. PICK a5 \in 0 .. 10 : a5 = TopicTenths(o)
  <2>1. TopicTenths(o) \in {10, 8, 6, 5}
    BY Zenon DEF TopicTenths
  <2> QED BY <2>1
<1>7. PICK r \in Rules : r = o.rule
  BY <1>1
<1>81. PICK x \in 1 .. 90 : x = r[1]
  BY RuleBounds
<1>82. PICK y \in {7, 9} : y = Max({r[2], 7})
  BY RuleBounds
<1>83. PICK z \in {7, 8} : z = Max({r[3], 7})
  BY RuleBounds
<1>84. (y = 7 /\ z = 7) \/ (y = 7 /\ x <= 70) \/ x <= 60
  BY <1>81, <1>82, <1>83, RuleBounds
<1>85. x * y * z \in Nat /\ x * y * z <= 4410
  BY <1>84, RuleFactor
<1>8. PICK c \in Nat : c = x * y * z /\ c <= 4410
  BY <1>85
<1>9. ScoreProduct(o) = a1 * a2 * a3 * a4 * a5 * r[1] * Max({r[2], 7}) * Max({r[3], 7})
  BY <1>2, <1>3, <1>4, <1>5, <1>6, <1>7, Zenon DEF ScoreProduct
<1>10. a1 * a2 \in Nat /\ a1 * a2 <= a1 * 10
  BY TimesBounds
<1>11. PICK p2 \in Nat : p2 = a1 * a2 /\ p2 <= 100
  BY <1>10
<1>12. p2 * a3 \in Nat /\ p2 * a3 <= p2 * 10
  BY TimesBounds
<1>13. PICK p3 \in Nat : p3 = p2 * a3 /\ p3 <= 1000
  BY <1>11, <1>12
<1>14. p3 * a4 \in Nat /\ p3 * a4 <= p3 * 4
  BY TimesBounds
<1>15. PICK p4 \in Nat : p4 = p3 * a4 /\ p4 <= 4000
  BY <1>13, <1>14
<1>16. p4 * a5 \in Nat /\ p4 * a5 <= p4 * 10
  BY TimesBounds
<1>17. PICK p5 \in Nat : p5 = p4 * a5 /\ p5 <= 4000 * 10
  BY <1>15, <1>16
<1>18. p5 * c \in Nat /\ p5 * c <= p5 * 4410
  BY <1>8, TimesBounds
<1>19. PICK p \in Nat : p = p5 * c /\ p < 45 * OnePercent
  BY <1>17, <1>18, SMT DEF OnePercent
<1>20. ScoreProduct(o) = p
  <2>1. p2 = a1 * a2 /\ p3 = p2 * a3 /\ p4 = p3 * a4 /\ p5 = p4 * a5 /\ p = p5 * c /\ c = x * y * z
    BY <1>8, <1>11, <1>13, <1>15, <1>17, <1>19
  <2>2. ScoreProduct(o) = p5 * x * y * z
    BY <1>9, <1>81, <1>82, <1>83, <2>1, Zenon
  <2>3. p5 * x * y * z = p5 * (x * y * z)
    OBVIOUS
  <2> QED
    BY <2>1, <2>2, <2>3, Zenon
<1>21. ~(p >= 75 * OnePercent) /\ ~(p >= 55 * OnePercent)
  BY <1>19, SMT DEF OnePercent
<1> QED
  BY <1>20, <1>21, Zenon DEF Priority

ScoreTyped == keyword \in KeywordInputs /\ opportunity \in OpportunityInputs

LEMMA NothingTyped == NoKeyword \in KeywordInputs /\ NoOpportunity \in OpportunityInputs
<1>1. NoKeyword \in KeywordInputs
  BY ScoreAssumption DEF NoKeyword, KeywordInputs, Estimated, Unranked, NodeTypes
<1>2. <<80, 7, 7>> \in Rules
  BY DEF Rules
<1>3. NoOpportunity \in OpportunityInputs
  BY <1>2, ScoreAssumption DEF NoOpportunity, OpportunityInputs, NoPosition
<1> QED
  BY <1>1, <1>3

LEMMA ScoreTypesFollow == ScoreTyped => ScoreTypeOK
  BY TierValue, ProductTyped, PriorityTyped DEF ScoreTyped, ScoreTypeOK

LEMMA CompetitionStep ==
  ASSUME keyword \in KeywordInputs, CompetitorsAppear
  PROVE  keyword' \in KeywordInputs /\ Tier(keyword)' >= Tier(keyword)
<1>1. PICK k \in KeywordInputs : k = keyword
  OBVIOUS
<1>2. k.count \in Nat /\ k.strong \in BOOLEAN /\ k.da \in {-1, 10, 30, 70}
  BY InputFields
<1>3. PICK l : l = keyword'
  OBVIOUS
<1>4. /\ l \in KeywordInputs /\ SameButCompetition(k, l) /\ k.count <= l.count
      /\ (k.strong => l.strong) /\ (k.da = l.da \/ (k.da >= 0 /\ k.da <= l.da))
  <2>1. ASSUME NEW n \in Counts, n > k.count, l = [k EXCEPT !.count = n] PROVE <1>4
    <3>1. n \in Nat
      BY ScoreAssumption
    <3>2. l \in KeywordInputs
      BY <2>1 DEF KeywordInputs
    <3>3. SameButCompetition(k, l) /\ l.count = n /\ l.strong = k.strong /\ l.da = k.da
      BY <2>1 DEF KeywordInputs, SameButCompetition
    <3>4. k.count <= l.count
      BY <1>2, <2>1, <3>1, <3>3
    <3> QED
      BY <3>2, <3>3, <3>4, Zenon
  <2>2. ASSUME l = [k EXCEPT !.strong = TRUE] PROVE <1>4
    <3>1. l \in KeywordInputs
      BY <2>2 DEF KeywordInputs
    <3>2. SameButCompetition(k, l) /\ l.count = k.count /\ l.strong = TRUE /\ l.da = k.da
      BY <2>2 DEF KeywordInputs, SameButCompetition
    <3>3. k.count <= l.count
      BY <1>2, <3>2
    <3> QED
      BY <3>1, <3>2, <3>3, Zenon
  <2>3. ASSUME NEW d \in {30, 70}, k.da \in {10, 30}, d > k.da, l = [k EXCEPT !.da = d] PROVE <1>4
    <3>1. l \in KeywordInputs
      BY <2>3 DEF KeywordInputs
    <3>2. SameButCompetition(k, l) /\ l.count = k.count /\ l.strong = k.strong /\ l.da = d
      BY <2>3 DEF KeywordInputs, SameButCompetition
    <3>3. k.count <= l.count /\ k.da >= 0 /\ k.da <= l.da
      BY <1>2, <2>3, <3>2
    <3> QED
      BY <3>1, <3>2, <3>3, Zenon
  <2> QED
    BY <1>1, <1>3, <2>1, <2>2, <2>3, Zenon DEF CompetitorsAppear
<1>5. Tier(l) >= Tier(k)
  BY <1>4, MoreCompetition
<1> QED
  BY <1>1, <1>3, <1>4, <1>5, Zenon

LEMMA ClusterScoreStep ==
  ASSUME keyword \in KeywordInputs, ClusterFillsUp
  PROVE  keyword' \in KeywordInputs /\ Tier(keyword)' >= Tier(keyword)
<1>1. PICK k \in KeywordInputs : k = keyword
  OBVIOUS
<1>2. k.coverage \in {20, 50, 80, 95} /\ k.pillarHasPage \in BOOLEAN
  BY InputFields
<1>3. PICK l : l = keyword'
  OBVIOUS
<1>4. /\ l \in KeywordInputs /\ SameButCluster(k, l) /\ k.coverage <= l.coverage
      /\ (k.pillarHasPage => l.pillarHasPage)
  <2>1. ASSUME NEW c \in {50, 80, 95}, c > k.coverage, l = [k EXCEPT !.coverage = c] PROVE <1>4
    <3>1. l \in KeywordInputs
      BY <2>1 DEF KeywordInputs
    <3>2. SameButCluster(k, l) /\ l.coverage = c /\ l.pillarHasPage = k.pillarHasPage
      BY <2>1 DEF KeywordInputs, SameButCluster
    <3>3. k.coverage <= l.coverage
      BY <1>2, <2>1, <3>2
    <3> QED
      BY <3>1, <3>2, <3>3, Zenon
  <2>2. ASSUME l = [k EXCEPT !.pillarHasPage = TRUE] PROVE <1>4
    <3>1. l \in KeywordInputs
      BY <2>2 DEF KeywordInputs
    <3>2. SameButCluster(k, l) /\ l.coverage = k.coverage /\ l.pillarHasPage = TRUE
      BY <2>2 DEF KeywordInputs, SameButCluster
    <3>3. k.coverage <= l.coverage
      BY <1>2, <3>2
    <3> QED
      BY <3>1, <3>2, <3>3, Zenon
  <2> QED
    BY <1>1, <1>3, <2>1, <2>2, Zenon DEF ClusterFillsUp
<1>5. Tier(l) >= Tier(k)
  BY <1>4, FullerCluster
<1> QED
  BY <1>1, <1>3, <1>4, <1>5, Zenon

LEMMA SignalStep ==
  ASSUME keyword \in KeywordInputs, SignalAppears
  PROVE  keyword' \in KeywordInputs /\ (~BelowBaseline(keyword, keyword') => Tier(keyword)' <= Tier(keyword))
<1>1. PICK k \in KeywordInputs : k = keyword
  OBVIOUS
<1>2. k.features \in SUBSET Features /\ k.signals \in SUBSET Signals /\ k.volume \in Nat
  BY InputFields
<1>3. PICK l : l = keyword'
  OBVIOUS
<1>4. /\ l \in KeywordInputs /\ SameButSignals(k, l) /\ k.volume <= l.volume
      /\ k.features \subseteq l.features /\ k.signals \subseteq l.signals
  <2>1. ASSUME NEW f \in Features, l = [k EXCEPT !.features = @ \cup {f}] PROVE <1>4
    <3>1. l \in KeywordInputs
      BY <1>2, <2>1 DEF KeywordInputs
    <3>2. /\ SameButSignals(k, l) /\ l.volume = k.volume /\ l.features = k.features \cup {f}
          /\ l.signals = k.signals
      BY <2>1 DEF KeywordInputs, SameButSignals
    <3>3. k.volume <= l.volume
      BY <1>2, <3>2
    <3> QED
      BY <3>1, <3>2, <3>3, Zenon
  <2>2. ASSUME NEW s \in Signals, l = [k EXCEPT !.signals = @ \cup {s}] PROVE <1>4
    <3>1. l \in KeywordInputs
      BY <1>2, <2>2 DEF KeywordInputs
    <3>2. /\ SameButSignals(k, l) /\ l.volume = k.volume /\ l.features = k.features
          /\ l.signals = k.signals \cup {s}
      BY <2>2 DEF KeywordInputs, SameButSignals
    <3>3. k.volume <= l.volume
      BY <1>2, <3>2
    <3> QED
      BY <3>1, <3>2, <3>3, Zenon
  <2>3. ASSUME NEW n \in Volumes, n > k.volume, l = [k EXCEPT !.volume = n] PROVE <1>4
    <3>1. l \in KeywordInputs
      BY <2>3 DEF KeywordInputs
    <3>2. SameButSignals(k, l) /\ l.volume = n /\ l.features = k.features /\ l.signals = k.signals
      BY <2>3 DEF KeywordInputs, SameButSignals
    <3>3. k.volume <= l.volume
      BY <1>2, <2>3, <3>2, ScoreAssumption
    <3> QED
      BY <3>1, <3>2, <3>3, Zenon
  <2> QED
    BY <1>1, <1>3, <2>1, <2>2, <2>3, Zenon DEF SignalAppears
<1>5. ASSUME ~BelowBaseline(k, l) PROVE Tier(l) <= Tier(k)
  <2>1. Tier(k) >= Tier(l)
    BY <1>4, <1>5, MoreSignals
  <2>2. Tier(k) \in 1 .. 3 /\ Tier(l) \in 1 .. 3
    BY <1>4, TierValue
  <2> QED
    BY <2>1, <2>2
<1> QED
  BY <1>1, <1>3, <1>4, <1>5, Zenon

LEMMA ScoreStep == ScoreTyped /\ [ScoreNext]_scoreVars => ScoreTyped'
<1> SUFFICES ASSUME ScoreTyped, [ScoreNext]_scoreVars PROVE ScoreTyped'
  OBVIOUS
<1>1. CASE ScoreNext
  BY <1>1, CompetitionStep, ClusterScoreStep, SignalStep DEF ScoreNext, ScoreTyped
<1>2. CASE UNCHANGED scoreVars
  BY <1>2 DEF scoreVars, ScoreTyped
<1> QED
  BY <1>1, <1>2

LEMMA ScoreInitTyped == ScoreInit => ScoreTyped
  BY NothingTyped DEF ScoreInit, ScoreTyped

(* The tiers of keywords, whatever is scored again and in whichever order: *)
(* competition and coverage never raise one, and no feature, signal or     *)
(* search lowers one, but for the first list of results of a keyword, when *)
(* it weighs less than none (strategy/keyword_scorer.py:240).              *)
THEOREM TiersFollowChange == ScoreSpec => TierFollowsChange
<1>1. ScoreTyped /\ [ScoreNext]_scoreVars =>
        [/\ CompetitorsAppear \/ ClusterFillsUp => Tier(keyword)' >= Tier(keyword)
         /\ SignalAppears /\ ~BelowBaseline(keyword, keyword') => Tier(keyword)' <= Tier(keyword)]_scoreVars
  BY CompetitionStep, ClusterScoreStep, SignalStep DEF ScoreTyped
<1> QED
  BY <1>1, ScoreInitTyped, ScoreStep, PTL DEF ScoreSpec, TierFollowsChange


----------------------------------------------------------------------------
(* The types of the plans, whichever part a behaviour is of. Those of the  *)
(* content batches depend on the numbers P a user may choose and on the    *)
(* bounds of the days D, of the batches N and of the changes U only.       *)
ScheduleRows(P, D) ==
    [enabled : BOOLEAN, perWeek : P, days : SUBSET WeekDays, lastRun : (0 .. D) \cup {D + 1}]

BatchRows(P, D, N) ==
    [pc : {"begun", "loaded", "picked", "written"}, kind : {"beat", "manual"}, at : 1 .. N, day : 0 .. D,
     seen : ScheduleRows(P, D), count : 0 .. 20, picked : SUBSET Candidates, ended : 0 .. D]

RunRows(D, N) == [candidate : Candidates, kind : {"beat", "manual"}, at : 1 .. N, day : 0 .. D]

Counted == \A b \in Batches : batch[b].pc \notin {"idle", "begun"} => batch[b].count > 0

BatchTyped(P, D, N, U) ==
    /\ schedule \in ScheduleRows(P, D)
    /\ approved \subseteq Candidates
    /\ runs \subseteq RunRows(D, N)
    /\ batch \in [Batches -> {Idle} \cup BatchRows(P, D, N)]
    /\ Counted
    /\ today \in 0 .. D /\ started \in 0 .. N /\ updates \in 0 .. U

(* The kinds of steps that matter to them.                                 *)
PlainMove(P, D, U) ==
    /\ schedule' \in ScheduleRows(P, D) /\ approved' \subseteq Candidates
    /\ today' \in 0 .. D /\ updates' \in 0 .. U
    /\ UNCHANGED <<runs, batch, started>>

BeginMove(N) ==
    /\ started < N /\ started' = started + 1
    /\ \E b \in Batches, pc \in {"begun", "loaded"}, kind \in {"beat", "manual"}, count \in 0 .. 20 :
         /\ pc = "begun" \/ count > 0
         /\ batch' = [batch EXCEPT ![b] = [pc |-> pc, kind |-> kind, at |-> started', day |-> today,
                         seen |-> schedule, count |-> count, picked |-> {}, ended |-> today]]
    /\ UNCHANGED <<schedule, approved, runs, today, updates>>

TakeMove ==
    /\ \E b \in Batches, n \in 1 .. 20 :
         /\ batch[b].pc = "begun"
         /\ batch' = [batch EXCEPT ![b].pc = "loaded", ![b].day = today, ![b].count = n]
    /\ UNCHANGED <<schedule, approved, runs, today, started, updates>>

PickMove ==
    /\ \E b \in Batches, first \in SUBSET Candidates :
         /\ batch[b].pc = "loaded"
         /\ batch' = [batch EXCEPT ![b].pc = "picked", ![b].picked = first]
    /\ UNCHANGED <<schedule, approved, runs, today, started, updates>>

WriteMove ==
    /\ \E b \in Batches, written \in SUBSET Candidates :
         /\ batch[b].pc = "picked"
         /\ batch' = [batch EXCEPT ![b].pc = "written", ![b].picked = written, ![b].ended = today]
    /\ UNCHANGED <<schedule, approved, runs, today, started, updates>>

CommitMove ==
    /\ \E b \in Batches :
         /\ batch[b].pc = "written" /\ runs' = runs \cup RunsOf(b)
         /\ schedule' = [schedule EXCEPT !.lastRun = batch[b].ended]
         /\ Finished(b)
    /\ UNCHANGED <<approved, today, started, updates>>

AbortMove ==
    /\ \E b \in Batches : Finished(b)
    /\ UNCHANGED <<schedule, approved, runs, today, started, updates>>

BatchMove(P, D, N, U) ==
    PlainMove(P, D, U) \/ BeginMove(N) \/ TakeMove \/ PickMove \/ WriteMove \/ CommitMove \/ AbortMove

LEMMA MovesKeepTypes ==
  ASSUME NEW P, NEW D \in Nat, NEW N \in Nat, NEW U,
         BatchTyped(P, D, N, U), BatchMove(P, D, N, U)
  PROVE  BatchTyped(P, D, N, U)'
<1> DEFINE S == ScheduleRows(P, D)
           R == BatchRows(P, D, N)
<1>0. /\ schedule \in S /\ approved \subseteq Candidates /\ runs \subseteq RunRows(D, N)
      /\ batch \in [Batches -> {Idle} \cup R] /\ Counted
      /\ today \in 0 .. D /\ started \in 0 .. N /\ updates \in 0 .. U
  BY DEF BatchTyped
<1>1. ASSUME NEW b \in Batches, batch[b].pc # "idle" PROVE batch[b] \in R
  BY <1>0, <1>1 DEF Idle
<1>2. ASSUME NEW b \in Batches, NEW w, w \in R, w.pc = "begun" \/ w.count > 0, batch' = [batch EXCEPT ![b] = w]
      PROVE  batch' \in [Batches -> {Idle} \cup R] /\ Counted'
  <2>1. batch' \in [Batches -> {Idle} \cup R]
    BY <1>0, <1>2
  <2>2. ASSUME NEW c \in Batches PROVE batch'[c] = IF c = b THEN w ELSE batch[c]
    BY <1>0, <1>2
  <2>3. Counted'
    BY <1>0, <1>2, <2>2 DEF Counted
  <2> QED
    BY <2>1, <2>3
<1>3. ASSUME UNCHANGED <<schedule, approved, runs, today, updates>>, started' \in 0 .. N,
             batch' \in [Batches -> {Idle} \cup R], Counted'
      PROVE  BatchTyped(P, D, N, U)'
  BY <1>0, <1>3 DEF BatchTyped
<1>4. ASSUME NEW b \in Batches, Finished(b) PROVE batch' \in [Batches -> {Idle} \cup R] /\ Counted'
  <2>1. batch' = [batch EXCEPT ![b] = Idle]
    BY <1>4 DEF Finished
  <2>2. \A c \in Batches : batch'[c] = IF c = b THEN Idle ELSE batch[c]
    BY <1>0, <2>1
  <2>3. Counted'
    BY <1>0, <2>2 DEF Counted, Idle
  <2> QED
    BY <1>0, <2>1, <2>3
<1>5. CASE PlainMove(P, D, U)
  BY <1>0, <1>5 DEF PlainMove, BatchTyped, Counted
<1>6. CASE BeginMove(N)
  <2>1. PICK b \in Batches, pc \in {"begun", "loaded"}, kind \in {"beat", "manual"}, count \in 0 .. 20 :
         /\ pc = "begun" \/ count > 0
         /\ batch' = [batch EXCEPT ![b] = [pc |-> pc, kind |-> kind, at |-> started', day |-> today,
                         seen |-> schedule, count |-> count, picked |-> {}, ended |-> today]]
    BY <1>6 DEF BeginMove
  <2>2. PICK w : w = [pc |-> pc, kind |-> kind, at |-> started', day |-> today,
                      seen |-> schedule, count |-> count, picked |-> {}, ended |-> today]
    OBVIOUS
  <2>3. started' \in 1 .. N /\ UNCHANGED <<schedule, approved, runs, today, updates>>
    BY <1>0, <1>6 DEF BeginMove
  <2>4. w \in R /\ (w.pc = "begun" \/ w.count > 0)
    BY <1>0, <2>1, <2>2, <2>3 DEF BatchRows
  <2>5. batch' = [batch EXCEPT ![b] = w]
    BY <2>1, <2>2
  <2>6. started' \in 0 .. N
    BY <2>3
  <2> HIDE DEF R
  <2> QED
    BY <1>2, <1>3, <2>3, <2>4, <2>5, <2>6
<1>7. CASE TakeMove
  <2>1. PICK b \in Batches, n \in 1 .. 20 :
          /\ batch[b].pc = "begun"
          /\ batch' = [batch EXCEPT ![b].pc = "loaded", ![b].day = today, ![b].count = n]
    BY <1>7, Zenon DEF TakeMove
  <2>2. PICK w : w = [batch[b] EXCEPT !.pc = "loaded", !.day = today, !.count = n]
    OBVIOUS
  <2>3. w \in R /\ w.count > 0
    <3>1. PICK r \in R : r = batch[b]
      BY <1>1, <2>1
    <3>2. w = [r EXCEPT !.pc = "loaded", !.day = today, !.count = n]
      BY <2>2, <3>1
    <3>3. n \in 0 .. 20 /\ n > 0
      OBVIOUS
    <3>4. w \in R
      BY <1>0, <3>2, <3>3 DEF BatchRows
    <3>5. w.count = n
      BY <3>2 DEF BatchRows
    <3> QED
      BY <3>3, <3>4, <3>5
  <2>4. batch' = [batch EXCEPT ![b] = w]
    BY <1>0, <2>1, <2>2
  <2>5. UNCHANGED <<schedule, approved, runs, today, started, updates>>
    BY <1>7 DEF TakeMove
  <2> HIDE DEF R
  <2>6. w.pc = "begun" \/ w.count > 0
    BY <2>3
  <2>7. batch' \in [Batches -> {Idle} \cup R] /\ Counted'
    BY <1>2, <2>3, <2>4, <2>6
  <2>8. started' \in 0 .. N
    BY <1>0, <2>5
  <2> QED
    BY <1>3, <2>5, <2>7, <2>8
<1>8. CASE PickMove
  <2>1. PICK b \in Batches, first \in SUBSET Candidates :
          /\ batch[b].pc = "loaded"
          /\ batch' = [batch EXCEPT ![b].pc = "picked", ![b].picked = first]
    BY <1>8 DEF PickMove
  <2>2. PICK w : w = [batch[b] EXCEPT !.pc = "picked", !.picked = first]
    OBVIOUS
  <2>3. w \in R /\ w.count > 0
    BY <1>0, <1>1, <2>1, <2>2 DEF BatchRows, Counted
  <2>4. batch' = [batch EXCEPT ![b] = w]
    BY <1>0, <2>1, <2>2
  <2>5. UNCHANGED <<schedule, approved, runs, today, started, updates>>
    BY <1>8 DEF PickMove
  <2> HIDE DEF R
  <2>6. w.pc = "begun" \/ w.count > 0
    BY <2>3
  <2>7. batch' \in [Batches -> {Idle} \cup R] /\ Counted'
    BY <1>2, <2>3, <2>4, <2>6
  <2>8. started' \in 0 .. N
    BY <1>0, <2>5
  <2> QED
    BY <1>3, <2>5, <2>7, <2>8
<1>9. CASE WriteMove
  <2>1. PICK b \in Batches, written \in SUBSET Candidates :
          /\ batch[b].pc = "picked"
          /\ batch' = [batch EXCEPT ![b].pc = "written", ![b].picked = written, ![b].ended = today]
    BY <1>9, Zenon DEF WriteMove
  <2>2. PICK w : w = [batch[b] EXCEPT !.pc = "written", !.picked = written, !.ended = today]
    OBVIOUS
  <2>3. w \in R /\ w.count > 0
    <3>1. PICK r \in R : r = batch[b]
      BY <1>1, <2>1
    <3>2. w = [r EXCEPT !.pc = "written", !.picked = written, !.ended = today]
      BY <2>2, <3>1
    <3>3. r.count > 0
      BY <1>0, <2>1, <3>1 DEF Counted
    <3>4. w \in R
      BY <1>0, <3>2 DEF BatchRows
    <3>5. w.count = r.count
      BY <3>2 DEF BatchRows
    <3> QED
      BY <3>3, <3>4, <3>5
  <2>4. batch' = [batch EXCEPT ![b] = w]
    BY <1>0, <2>1, <2>2
  <2>5. UNCHANGED <<schedule, approved, runs, today, started, updates>>
    BY <1>9 DEF WriteMove
  <2> HIDE DEF R
  <2>6. w.pc = "begun" \/ w.count > 0
    BY <2>3
  <2>7. batch' \in [Batches -> {Idle} \cup R] /\ Counted'
    BY <1>2, <2>3, <2>4, <2>6
  <2>8. started' \in 0 .. N
    BY <1>0, <2>5
  <2> QED
    BY <1>3, <2>5, <2>7, <2>8
<1>10. CASE CommitMove
  <2>1. PICK b \in Batches : /\ batch[b].pc = "written" /\ runs' = runs \cup RunsOf(b)
                             /\ schedule' = [schedule EXCEPT !.lastRun = batch[b].ended]
                             /\ Finished(b)
    BY <1>10 DEF CommitMove
  <2>2. batch[b] \in R
    BY <1>1, <2>1
  <2>3. runs' \subseteq RunRows(D, N)
    BY <1>0, <2>1, <2>2 DEF BatchRows, RunRows, RunsOf
  <2>4. schedule' \in S
    BY <1>0, <2>1, <2>2 DEF BatchRows, ScheduleRows
  <2>5. batch' \in [Batches -> {Idle} \cup R] /\ Counted'
    BY <1>4, <2>1
  <2>6. UNCHANGED <<approved, today, started, updates>>
    BY <1>10 DEF CommitMove
  <2> QED
    BY <1>0, <2>3, <2>4, <2>5, <2>6 DEF BatchTyped
<1>11. CASE AbortMove
  <2>1. PICK b \in Batches : Finished(b)
    BY <1>11 DEF AbortMove
  <2>2. UNCHANGED <<schedule, approved, runs, today, started, updates>>
    BY <1>11 DEF AbortMove
  <2> QED
    BY <1>0, <1>3, <1>4, <2>1, <2>2
<1> QED
  BY <1>5, <1>6, <1>7, <1>8, <1>9, <1>10, <1>11 DEF BatchMove

(* The days of a schedule are some of a week: a run takes from one to      *)
(* twenty articles of a schedule.                                          *)
LEMMA CountTyped ==
  ASSUME NEW n \in 0 .. 20, NEW D \in SUBSET (0 .. 6), D # {}
  PROVE  ArticlesPerScheduledRun(n, D) \in 1 .. 20
<1> DEFINE k == Cardinality(D)
<1>1. IsFiniteSet(0 .. 6) /\ Cardinality(0 .. 6) = 7
  <2>1. 0 \in Int /\ 6 \in Int /\ 6 - 0 + 1 = 7 /\ ~(0 > 6)
    OBVIOUS
  <2> HIDE DEF k
  <2> QED
    BY <2>1, FS_Interval
<1>2. k \in 1 .. 7
  <2>0. PICK I : I = 0 .. 6
    OBVIOUS
  <2>1. IsFiniteSet(D) /\ k <= 7
    <3>1. IsFiniteSet(I) /\ Cardinality(I) = 7 /\ D \subseteq I
      BY <1>1, <2>0
    <3>2. Cardinality(D) <= Cardinality(I)
      BY <3>1, FS_Subset
    <3>3. IsFiniteSet(D)
      BY <3>1, FS_Subset
    <3> QED
      BY <3>1, <3>2, <3>3
  <2>2. k \in Nat /\ k # 0
    BY <2>1, FS_EmptySet, FS_CardinalityType
  <2> QED
    BY <2>1, <2>2
<1>3. ArticlesPerScheduledRun(n, D) = IF n = 0 THEN 1 ELSE (n + k - 1) \div k
  BY DEF ArticlesPerScheduledRun
<1> HIDE DEF k
<1>4. CASE n = 0
  BY <1>3, <1>4
<1>5. ASSUME n # 0 PROVE (n + k - 1) \div k \in 1 .. 20
  <2>1. CASE k = 1
    BY <1>5, <2>1
  <2>2. CASE k = 2
    BY <1>5, <2>2
  <2>3. CASE k = 3
    BY <1>5, <2>3
  <2>4. CASE k = 4
    BY <1>5, <2>4
  <2>5. CASE k = 5
    BY <1>5, <2>5
  <2>6. CASE k = 6
    BY <1>5, <2>6
  <2>7. CASE k = 7
    BY <1>5, <2>7
  <2> QED
    BY <1>2, <2>1, <2>2, <2>3, <2>4, <2>5, <2>6, <2>7
<1> QED
  BY <1>3, <1>4, <1>5

LEMMA DaysTyped ==
  ASSUME NEW s, s.days \in SUBSET WeekDays
  PROVE  DaysOf(s) \in SUBSET (0 .. 6) /\ DaysOf(s) # {}
<1>1. {0, 3} \subseteq 0 .. 6
  OBVIOUS
<1> QED
  BY <1>1, BatchAssumption DEF DaysOf

(* What the batch that is under way loaded.                                *)
LEMMA SeenTyped ==
  ASSUME NEW P, NEW D, NEW N, NEW U, BatchTyped(P, D, N, U), NEW b \in Batches, batch[b].pc # "idle"
  PROVE  batch[b].seen.perWeek \in P /\ batch[b].seen.days \in SUBSET WeekDays
<1>1. batch[b] \in BatchRows(P, D, N)
  BY DEF BatchTyped, Idle
<1> QED
  BY <1>1 DEF BatchRows, ScheduleRows

LEMMA NextIsMove ==
  ASSUME BatchTyped(PerWeek, MaxDay, MaxBatches, MaxUpdates), Next
  PROVE  BatchMove(PerWeek, MaxDay, MaxBatches, MaxUpdates)
<1>0. /\ schedule \in ScheduleRows(PerWeek, MaxDay) /\ approved \subseteq Candidates
      /\ today \in 0 .. MaxDay /\ started \in 0 .. MaxBatches /\ updates \in 0 .. MaxUpdates
      /\ MaxDay \in Nat /\ MaxBatches \in Nat /\ MaxUpdates \in Nat /\ PerWeek \subseteq 0 .. 20
  BY BatchAssumption DEF BatchTyped
<1>1. CASE NextDay
  <2>1. today' \in 0 .. MaxDay
    BY <1>0, <1>1 DEF NextDay
  <2> QED
    BY <1>0, <1>1, <2>1 DEF NextDay, PlainMove, BatchMove
<1>2. CASE ApproveCandidate
  BY <1>0, <1>2 DEF ApproveCandidate, PlainMove, BatchMove
<1>3. CASE UpdateSchedule
  <2>1. updates' \in 0 .. MaxUpdates
    BY <1>0, <1>3 DEF UpdateSchedule
  <2>2. schedule' \in ScheduleRows(PerWeek, MaxDay)
    BY <1>0, <1>3 DEF UpdateSchedule, ScheduleRows
  <2> QED
    BY <1>0, <1>3, <2>1, <2>2 DEF UpdateSchedule, PlainMove, BatchMove
<1>4. ASSUME NEW b \in Batches, LoadSchedules(b) PROVE BeginMove(MaxBatches)
  <2>1. Start(b, "begun", "beat", 0)
    BY <1>4 DEF LoadSchedules
  <2>2. 0 \in 0 .. 20
    OBVIOUS
  <2> QED
    BY <2>1, <2>2 DEF Start, BeginMove
<1>5. ASSUME NEW b \in Batches, BatchGenerate(b) PROVE BeginMove(MaxBatches)
  <2>1. PICK count \in PerWeek \ {0} : Start(b, "loaded", "manual", count)
    BY <1>5 DEF BatchGenerate
  <2>2. count \in 0 .. 20 /\ count > 0
    BY <1>0
  <2> QED
    BY <2>1, <2>2 DEF Start, BeginMove
<1>6. ASSUME NEW b \in Batches, TakeTurn(b) PROVE TakeMove
  <2>1. batch[b].pc = "begun" /\ Take(b)
    BY <1>6 DEF TakeTurn, Due
  <2>2. batch[b].seen.perWeek \in 0 .. 20 /\ batch[b].seen.days \in SUBSET WeekDays
    BY <1>0, <2>1, SeenTyped
  <2>3. DaysOf(batch[b].seen) \in SUBSET (0 .. 6) /\ DaysOf(batch[b].seen) # {}
    BY <2>2, DaysTyped
  <2>4. PICK n \in 1 .. 20 : n = ArticlesPerScheduledRun(batch[b].seen.perWeek, DaysOf(batch[b].seen))
    BY <2>2, <2>3, CountTyped
  <2> QED
    BY <2>1, <2>4, Zenon DEF Take, TakeMove
<1>7. ASSUME NEW b \in Batches, PickApproved(b) PROVE PickMove
  <2>1. PICK first : first = {c \in approved : Cardinality({d \in approved : d < c}) < batch[b].count}
    OBVIOUS
  <2>2. first \in SUBSET Candidates
    BY <1>0, <2>1
  <2> QED
    BY <1>7, <2>1, <2>2, Zenon DEF PickApproved, PickMove
<1>8. ASSUME NEW b \in Batches, WriteArticles(b) PROVE WriteMove
  <2>1. batch[b].pc = "picked"
    BY <1>8 DEF WriteArticles
  <2>2. batch[b].picked \in SUBSET Candidates
    <3>1. batch[b] \in BatchRows(PerWeek, MaxDay, MaxBatches)
      BY <2>1 DEF BatchTyped, Idle
    <3> QED
      BY <3>1 DEF BatchRows
  <2>3. PICK written \in SUBSET (batch[b].picked \ NoContent) : Write(b, written)
    BY <1>8 DEF WriteArticles
  <2>4. written \in SUBSET Candidates
    BY <2>2
  <2> QED
    BY <2>1, <2>3, <2>4, Zenon DEF Write, WriteMove
<1>9. ASSUME NEW b \in Batches, CommitBatch(b) PROVE CommitMove
  BY <1>9, Zenon DEF CommitBatch, CommitMove
<1>10. ASSUME NEW b \in Batches, AbortBatch(b) PROVE AbortMove
  BY <1>10, Zenon DEF AbortBatch, AbortMove
<1> QED
  BY <1>1, <1>2, <1>3, <1>4, <1>5, <1>6, <1>7, <1>8, <1>9, <1>10 DEF Next, BatchMove

LEMMA WeekIsMove ==
  ASSUME BatchTyped(WeekNumbers, LastDay, WeekBatches, 0), Week!Next
  PROVE  BatchMove(WeekNumbers, LastDay, WeekBatches, 0)
<1>0. /\ schedule \in ScheduleRows(WeekNumbers, LastDay) /\ approved \subseteq Candidates
      /\ today \in 0 .. LastDay /\ started \in 0 .. WeekBatches /\ updates = 0
      /\ LastDay \in Nat /\ WeekBatches \in Nat /\ WeekNumbers \subseteq 0 .. 20
  BY WeekAssumption DEF BatchTyped
<1>1. CASE Week!NextDay
  <2>1. today' \in 0 .. LastDay
    BY <1>0, <1>1 DEF Week!NextDay
  <2> QED
    BY <1>0, <1>1, <2>1 DEF Week!NextDay, PlainMove, BatchMove
<1>2. CASE Week!ApproveCandidate
  BY <1>0, <1>2 DEF Week!ApproveCandidate, PlainMove, BatchMove
<1>3. CASE Week!UpdateSchedule
  BY <1>0, <1>3 DEF Week!UpdateSchedule
<1>4. ASSUME NEW b \in Batches, Week!LoadSchedules(b) PROVE BeginMove(WeekBatches)
  <2>1. Week!Start(b, "begun", "beat", 0)
    BY <1>4 DEF Week!LoadSchedules
  <2>2. 0 \in 0 .. 20
    OBVIOUS
  <2> QED
    BY <2>1, <2>2 DEF Week!Start, BeginMove
<1>5. ASSUME NEW b \in Batches, Week!BatchGenerate(b) PROVE BeginMove(WeekBatches)
  <2>1. PICK count \in WeekNumbers \ {0} : Week!Start(b, "loaded", "manual", count)
    BY <1>5 DEF Week!BatchGenerate
  <2>2. count \in 0 .. 20 /\ count > 0
    BY <1>0
  <2> QED
    BY <2>1, <2>2 DEF Week!Start, BeginMove
<1>6. ASSUME NEW b \in Batches, Week!TakeTurn(b) PROVE TakeMove
  <2>1. batch[b].pc = "begun" /\ Week!Take(b)
    BY <1>6 DEF Week!TakeTurn, Week!Due
  <2>2. batch[b].seen.perWeek \in 0 .. 20 /\ batch[b].seen.days \in SUBSET WeekDays
    BY <1>0, <2>1, SeenTyped
  <2>3. DaysOf(batch[b].seen) \in SUBSET (0 .. 6) /\ DaysOf(batch[b].seen) # {}
    BY <2>2, DaysTyped
  <2>4. Week!ArticlesPerScheduledRun(batch[b].seen.perWeek, Week!DaysOf(batch[b].seen))
          = ArticlesPerScheduledRun(batch[b].seen.perWeek, DaysOf(batch[b].seen))
    <3>1. Week!DaysOf(batch[b].seen) = DaysOf(batch[b].seen)
      BY DEF Week!DaysOf, DaysOf
    <3> QED
      BY <3>1, OneCardinality DEF Week!ArticlesPerScheduledRun, ArticlesPerScheduledRun
  <2>5. PICK n \in 1 .. 20 : n = Week!ArticlesPerScheduledRun(batch[b].seen.perWeek, Week!DaysOf(batch[b].seen))
    BY <2>2, <2>3, <2>4, CountTyped
  <2> QED
    BY <2>1, <2>5, Zenon DEF Week!Take, TakeMove
<1>7. ASSUME NEW b \in Batches, Week!PickApproved(b) PROVE PickMove
  <2>1. PICK first : first = {c \in approved : Week!Cardinality({d \in approved : d < c}) < batch[b].count}
    OBVIOUS
  <2>2. first \in SUBSET Candidates
    BY <1>0, <2>1
  <2> QED
    BY <1>7, <2>1, <2>2, Zenon DEF Week!PickApproved, PickMove
<1>8. ASSUME NEW b \in Batches, Week!WriteArticles(b) PROVE WriteMove
  <2>1. batch[b].pc = "picked"
    BY <1>8 DEF Week!WriteArticles
  <2>2. batch[b].picked \in SUBSET Candidates
    <3>1. batch[b] \in BatchRows(WeekNumbers, LastDay, WeekBatches)
      BY <2>1 DEF BatchTyped, Idle
    <3> QED
      BY <3>1 DEF BatchRows
  <2>3. PICK written \in SUBSET (batch[b].picked \ {}) : Week!Write(b, written)
    BY <1>8 DEF Week!WriteArticles
  <2>4. written \in SUBSET Candidates
    BY <2>2
  <2> QED
    BY <2>1, <2>3, <2>4, Zenon DEF Week!Write, WriteMove
<1>9. ASSUME NEW b \in Batches, Week!CommitBatch(b) PROVE CommitMove
  BY <1>9, Zenon DEF Week!CommitBatch, Week!RunsOf, Week!Finished, Week!Idle, RunsOf, Finished, Idle, CommitMove
<1>10. ASSUME NEW b \in Batches, Week!AbortBatch(b) PROVE AbortMove
  BY <1>10, Zenon DEF Week!AbortBatch, Week!Finished, Week!Idle, Finished, Idle, AbortMove
<1> QED
  BY <1>1, <1>2, <1>3, <1>4, <1>5, <1>6, <1>7, <1>8, <1>9, <1>10 DEF Week!Next, BatchMove

LEMMA BatchTypedSame ==
  ASSUME NEW P, NEW D, NEW N, NEW U, BatchTyped(P, D, N, U), UNCHANGED vars
  PROVE  BatchTyped(P, D, N, U)'
BY Zenon DEF vars, BatchTyped, Counted

(* What the batches promise, of some days and of a whole week.             *)
LEMMA DaysTypeOK == BatchTyped(PerWeek, MaxDay, MaxBatches, MaxUpdates) => TypeOK
BY DEF BatchTyped, ScheduleRows, BatchRows, RunRows, Counted, TypeOK, Schedule, Days, Never, Batch

LEMMA WeekTypeOK == BatchTyped(WeekNumbers, LastDay, WeekBatches, 0) => Week!TypeOK
BY DEF BatchTyped, ScheduleRows, BatchRows, RunRows, Counted, Idle,
       Week!TypeOK, Week!Schedule, Week!Days, Week!Never, Week!Batch, Week!Idle

LEMMA DaysInit == Init => BatchTyped(PerWeek, MaxDay, MaxBatches, MaxUpdates)
<1> SUFFICES ASSUME Init PROVE BatchTyped(PerWeek, MaxDay, MaxBatches, MaxUpdates)
  OBVIOUS
<1>1. schedule \in ScheduleRows(PerWeek, MaxDay)
  BY DEF Init, Schedule, Days, Never, ScheduleRows
<1>2. MaxDay \in Nat /\ MaxBatches \in Nat /\ MaxUpdates \in Nat
  BY BatchAssumption
<1>3. batch \in [Batches -> {Idle} \cup BatchRows(PerWeek, MaxDay, MaxBatches)] /\ Counted
  BY DEF Init, Idle, Counted
<1> QED
  BY <1>1, <1>2, <1>3 DEF Init, BatchTyped

LEMMA WeekInitTyped == Week!Init => BatchTyped(WeekNumbers, LastDay, WeekBatches, 0)
<1> SUFFICES ASSUME Week!Init PROVE BatchTyped(WeekNumbers, LastDay, WeekBatches, 0)
  OBVIOUS
<1>1. schedule \in ScheduleRows(WeekNumbers, LastDay)
  BY DEF Week!Init, Week!Schedule, Week!Days, Week!Never, ScheduleRows
<1>2. LastDay \in Nat /\ WeekBatches \in Nat
  BY WeekAssumption
<1>3. batch \in [Batches -> {Idle} \cup BatchRows(WeekNumbers, LastDay, WeekBatches)] /\ Counted
  BY DEF Week!Init, Week!Idle, Idle, Counted
<1> QED
  BY <1>1, <1>2, <1>3 DEF Week!Init, BatchTyped

(* No cluster is built where a behaviour is of another part.               *)
NoClusters ==
    rows = [q \in Queries |-> {}] /\ parent = <<>> /\ rank = <<>> /\ outcome = "running"

PlanningIInv ==
    /\ IF part = "week" THEN BatchTyped(WeekNumbers, LastDay, WeekBatches, 0)
                        ELSE BatchTyped(PerWeek, MaxDay, MaxBatches, MaxUpdates)
    /\ PlanTypeOK
    /\ part = "scores" => ScoreTyped
    /\ IF part = "clusters" THEN UnionIInv ELSE NoClusters

LEMMA NoClustersTyped == NoClusters => ClusterTypeOK
<1> SUFFICES ASSUME NoClusters PROVE ClusterTypeOK
  OBVIOUS
<1>1. Known = {}
  BY DEF NoClusters, Known
<1>2. DOMAIN parent = {} /\ DOMAIN rank = {} /\ outcome = "running"
  BY DEF NoClusters
<1> QED
  BY <1>1, <1>2, Zenon DEF ClusterTypeOK

LEMMA PlanStepTyped == PlanTypeOK /\ [PlanNext]_planVars => PlanTypeOK'
<1> SUFFICES ASSUME PlanTypeOK, [PlanNext]_planVars PROVE PlanTypeOK'
  OBVIOUS
<1>1. CASE UNCHANGED planVars
  BY <1>1 DEF planVars, PlanTypeOK, Item
<1> QED
  BY <1>1, AddItemEffect DEF PlanNext

LEMMA PlanningInitTyped == PlanningInit => PlanningIInv
<1> SUFFICES ASSUME PlanningInit PROVE PlanningIInv
  OBVIOUS
<1>1. IF part = "week" THEN BatchTyped(WeekNumbers, LastDay, WeekBatches, 0)
                       ELSE BatchTyped(PerWeek, MaxDay, MaxBatches, MaxUpdates)
  BY DaysInit, WeekInitTyped, Zenon DEF PlanningInit
<1>2. PlanTypeOK
  BY RoadmapAssumption DEF PlanningInit, PlanInit, PlanTypeOK
<1>3. part = "scores" => ScoreTyped
  BY ScoreInitTyped, Zenon DEF PlanningInit
<1>4. IF part = "clusters" THEN UnionIInv ELSE NoClusters
  BY UnionInit, Zenon DEF PlanningInit, NoClusters
<1> QED
  BY <1>1, <1>2, <1>3, <1>4, Zenon DEF PlanningIInv

LEMMA PlanningStepTyped ==
  PlanningIInv /\ [PlanningNext]_<<part, vars, planVars, scoreVars, clusterVars>> => PlanningIInv'
<1> SUFFICES ASSUME PlanningIInv, [PlanningNext]_<<part, vars, planVars, scoreVars, clusterVars>>
             PROVE  PlanningIInv'
  OBVIOUS
<1>0. /\ part' = part
      /\ (part = "days" /\ Next) \/ (part = "week" /\ Week!Next) \/ UNCHANGED vars
      /\ PlanNext \/ UNCHANGED planVars
      /\ (part = "scores" /\ ScoreNext) \/ UNCHANGED scoreVars
      /\ (part = "clusters" /\ ClusterNext) \/ UNCHANGED clusterVars
  <2>1. CASE UNCHANGED <<part, vars, planVars, scoreVars, clusterVars>>
    BY <2>1
  <2>2. CASE PlanningNext
    BY <2>2, Zenon DEF PlanningNext
  <2> QED
    BY <2>1, <2>2
<1>1. ASSUME part = "week" PROVE BatchTyped(WeekNumbers, LastDay, WeekBatches, 0)'
  <2>1. BatchTyped(WeekNumbers, LastDay, WeekBatches, 0)
    BY <1>1, Zenon DEF PlanningIInv
  <2>2. LastDay \in Nat /\ WeekBatches \in Nat
    BY WeekAssumption
  <2>3. CASE Week!Next
    BY <2>1, <2>2, <2>3, WeekIsMove, MovesKeepTypes
  <2>4. CASE UNCHANGED vars
    BY <2>1, <2>4, BatchTypedSame
  <2> QED
    BY <1>0, <1>1, <2>3, <2>4
<1>2. ASSUME part # "week" PROVE BatchTyped(PerWeek, MaxDay, MaxBatches, MaxUpdates)'
  <2>1. BatchTyped(PerWeek, MaxDay, MaxBatches, MaxUpdates)
    BY <1>2, Zenon DEF PlanningIInv
  <2>2. MaxDay \in Nat /\ MaxBatches \in Nat
    BY BatchAssumption
  <2>3. CASE Next
    BY <2>1, <2>2, <2>3, NextIsMove, MovesKeepTypes
  <2>4. CASE UNCHANGED vars
    BY <2>1, <2>4, BatchTypedSame
  <2> QED
    BY <1>0, <1>2, <2>3, <2>4
<1>3. PlanTypeOK'
  BY <1>0, PlanStepTyped, Zenon DEF PlanningIInv
<1>4. (part = "scores" => ScoreTyped)'
  BY <1>0, ScoreStep, Zenon DEF PlanningIInv
<1>5. IF part' = "clusters" THEN UnionIInv' ELSE NoClusters'
  <2>1. CASE part = "clusters"
    <3>1. UnionIInv
      BY <2>1, Zenon DEF PlanningIInv
    <3>2. UnionIInv'
      BY <1>0, <3>1, UnionStep
    <3> QED
      BY <1>0, <2>1, <3>2
  <2>2. CASE part # "clusters"
    <3>1. NoClusters /\ UNCHANGED clusterVars
      BY <1>0, <2>2, Zenon DEF PlanningIInv
    <3>2. NoClusters'
      BY <3>1 DEF NoClusters, clusterVars
    <3> QED
      BY <1>0, <2>2, <3>2
  <2> QED
    BY <2>1, <2>2
<1> QED
  BY <1>0, <1>1, <1>2, <1>3, <1>4, <1>5, Zenon DEF PlanningIInv

(* Schedules, batches and the articles they begin, the rows of a roadmap,  *)
(* the inputs of the scores and the forest of the clusters keep the shapes *)
(* and the ranges of the code: a batch that took its turn writes from one  *)
(* to twenty articles (content/schedule_priority.py:26), a row has a week  *)
(* of its horizon (decision/roadmap_builder.py:23).                        *)
THEOREM PlanningTypeCorrect == PlanningSpec => []PlanningTypeOK
<1>1. PlanningIInv => PlanningTypeOK
  BY DaysTypeOK, WeekTypeOK, ScoreTypesFollow, UnionTyped, NoClustersTyped, Zenon DEF PlanningIInv, PlanningTypeOK
<1> QED
  BY <1>1, PlanningInitTyped, PlanningStepTyped, PTL DEF PlanningSpec
=============================================================================
