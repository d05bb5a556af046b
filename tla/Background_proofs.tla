-------------------------- MODULE Background_proofs --------------------------
(***************************************************************************)
(* Proofs about what runs in the background beside the job queue, for any  *)
(* number of jobs and every value of the limits: the sync and its cursor,  *)
(* the checks of a site, the health run, and the writing of an article.    *)
(***************************************************************************)
EXTENDS MCBackground, JobQueue_proofs, OpsHealth_proofs, WellFoundedInduction

----------------------------------------------------------------------------
(* The cursor of a sync never passes a day whose rows are missing. The     *)
(* cursor alone is not inductive: a run carries a cursor it loaded earlier *)
(* and rows it fetched earlier, and commits them when others have moved    *)
(* on. Both stay true because they are older than the lag: no rows appear  *)
(* there any more.                                                         *)

(* A cursor is behind the lag and every day up to it is stored.            *)
Covered(c) ==
    c # NoDay => /\ c \in SyncDay
                 /\ c + Lag <= syncToday
                 /\ \A d \in published : d <= c => d \in stored \/ TooOld(d)

(* Fetched rows are final and leave no gap below the newest of them, but   *)
(* for days too old for the fetch.                                         *)
Reached(rows, from) ==
    /\ rows \subseteq SyncDay /\ from \in SyncDay
    /\ \A r \in rows :
         /\ r + Lag <= syncToday
         /\ \A d \in published : d <= r => d \in stored \cup rows \/ TooOld(d) \/ d + Lag + Backfill < from

RunIsSound(w) ==
    /\ syncRun[w].pc \in {"loaded", "failed", "fetched"} => Covered(syncRun[w].seen.cursor)
    /\ syncRun[w].pc = "fetched" => Reached(syncRun[w].rows, syncRun[w].from)

SyncIsSound ==
    /\ syncToday \in SyncDay /\ asked \in SyncDay
    /\ published \subseteq SyncDay
    /\ "cursor" \in DOMAIN syncState
    /\ Covered(syncState.cursor)
    /\ syncRun = [w \in SyncWorkers |-> syncRun[w]]
    /\ \A w \in SyncWorkers : RunIsSound(w)

(* What Newest returns: the largest member of a set of days.               *)
LEMMA NewestIsLargest ==
    ASSUME NEW days, days \subseteq SyncDay, days # {}
    PROVE  Newest(days) \in days /\ \A e \in days : e <= Newest(days)
<1> DEFINE Mirror == {SyncDays - d : d \in days}
           Less   == {ss \in Nat \X Nat : ss[1] < ss[2]}
<1>1. SyncDays \in Nat /\ \A d \in days : d \in 0 .. SyncDays
  BY DataSyncAssumption DEF SyncDay
<1>2. Mirror \subseteq Nat
  BY <1>1
<1>3. Mirror # {}
  OBVIOUS
<1>4. IsWellFoundedOn(Less, Nat)
  BY NatLessThanWellFounded, Zenon DEF OpToRel
<1>5. PICK m \in Mirror : \A n \in Mirror : ~ (<<n, m>> \in Less)
  <2> HIDE DEF Mirror, Less
  <2> QED BY <1>2, <1>3, <1>4, WFMin
<1>6. PICK d \in days : m = SyncDays - d
  BY <1>5
<1>7. \A e \in days : e <= d
  <2> TAKE e \in days
  <2>1. SyncDays - e \in Mirror
    OBVIOUS
  <2>2. ~ (<<SyncDays - e, m>> \in Less)
    BY <1>5, <2>1
  <2>3. SyncDays - e \in Nat /\ m \in Nat
    BY <1>2, <1>5, <2>1
  <2>4. ~ (SyncDays - e < m)
    BY <2>2, <2>3
  <2> QED BY <1>1, <1>6, <2>4
<1> QED BY <1>6, <1>7 DEF Newest

(* Time and more rows of young days disturb nothing that is behind the lag.*)
LEMMA CoveredStays ==
    ASSUME NEW c, Covered(c), syncToday \in SyncDay, syncToday' \in SyncDay,
           syncToday <= syncToday', stored \subseteq stored',
           asked \in SyncDay, asked' \in SyncDay, asked <= asked',
           \A d \in published' : d \in SyncDay /\ (d \in published \/ syncToday < d + Lag)
    PROVE  Covered(c)'
BY DataSyncAssumption DEF Covered, SyncDay, NoDay, TooOld

LEMMA ReachedStays ==
    ASSUME NEW rows, NEW from, Reached(rows, from), syncToday \in SyncDay, syncToday' \in SyncDay,
           syncToday <= syncToday', stored \subseteq stored',
           asked \in SyncDay, asked' \in SyncDay, asked <= asked',
           \A d \in published' : d \in SyncDay /\ (d \in published \/ syncToday < d + Lag)
    PROVE  Reached(rows, from)'
BY DataSyncAssumption DEF Reached, SyncDay, TooOld

LEMMA RunsStay ==
    ASSUME NEW w, RunIsSound(w), syncRun'[w] = syncRun[w],
           syncToday \in SyncDay, syncToday' \in SyncDay,
           syncToday <= syncToday', stored \subseteq stored',
           asked \in SyncDay, asked' \in SyncDay, asked <= asked',
           \A d \in published' : d \in SyncDay /\ (d \in published \/ syncToday < d + Lag)
    PROVE  RunIsSound(w)'
BY CoveredStays, ReachedStays DEF RunIsSound

LEMMA SyncInit == DataSyncInit => SyncIsSound
BY DataSyncAssumption DEF DataSyncInit, SyncIsSound, RunIsSound, Covered, AtRest, NoState, SyncDay

(* A step of one run leaves what the others hold sound.                    *)
LEMMA OneRunStep ==
    ASSUME SyncIsSound, NEW w \in SyncWorkers, NEW v,
           syncRun' = [syncRun EXCEPT ![w] = v],
           UNCHANGED <<syncToday, published>>, stored \subseteq stored', asked' \in SyncDay, asked <= asked',
           "cursor" \in DOMAIN syncState', Covered(syncState.cursor)',
           v.pc \in {"loaded", "failed", "fetched"} => Covered(v.seen.cursor)',
           v.pc = "fetched" => Reached(v.rows, v.from)'
    PROVE  SyncIsSound'
<1>1. syncToday' = syncToday /\ syncToday \in SyncDay /\ syncToday <= syncToday' /\ asked \in SyncDay
  BY DataSyncAssumption DEF SyncIsSound, SyncDay
<1>2. \A d \in published' : d \in SyncDay /\ (d \in published \/ syncToday < d + Lag)
  BY DEF SyncIsSound
<1>3. syncRun' = [u \in SyncWorkers |-> syncRun'[u]] /\ syncRun'[w] = v
      /\ \A u \in SyncWorkers : u # w => syncRun'[u] = syncRun[u]
  BY DEF SyncIsSound
<1>4. \A u \in SyncWorkers : RunIsSound(u)'
  <2> TAKE u \in SyncWorkers
  <2>1. CASE u = w
    <3>1. syncRun'[u] = v
      BY <1>3, <2>1
    <3> QED BY <3>1 DEF RunIsSound
  <2>2. CASE u # w
    <3>1. RunIsSound(u) /\ syncRun'[u] = syncRun[u]
      BY <1>3, <2>2 DEF SyncIsSound
    <3> QED BY <1>1, <1>2, <3>1, RunsStay
  <2> QED BY <2>1, <2>2
<1> QED BY <1>1, <1>3, <1>4 DEF SyncIsSound

LEMMA SyncStep == SyncIsSound /\ [DataSyncNext]_syncVars => SyncIsSound'
<1> SUFFICES ASSUME SyncIsSound, [DataSyncNext]_syncVars PROVE SyncIsSound'
  OBVIOUS
<1> USE DataSyncAssumption
<1>1. ASSUME SyncNextDay \/ \E d \in SyncDay : Publish(d) PROVE SyncIsSound'
  <2>1. /\ syncToday \in SyncDay /\ syncToday' \in SyncDay /\ syncToday <= syncToday'
        /\ UNCHANGED <<stored, syncState, syncRun, asked>> /\ asked \in SyncDay /\ asked <= asked'
    BY <1>1 DEF SyncIsSound, SyncNextDay, Publish, SyncDay
  <2>2. \A d \in published' : d \in SyncDay /\ (d \in published \/ syncToday < d + Lag)
    BY <1>1 DEF SyncIsSound, SyncNextDay, Publish, SyncDay
  <2>3. Covered(syncState.cursor)'
    <3>1. Covered(syncState.cursor)
      BY DEF SyncIsSound
    <3>2. \A c : Covered(c) => Covered(c)'
      BY <2>1, <2>2, CoveredStays
    <3> QED BY <2>1, <3>1, <3>2 DEF Covered
  <2>4. \A w \in SyncWorkers : RunIsSound(w)'
    BY <2>1, <2>2, RunsStay DEF SyncIsSound
  <2>5. published' \subseteq SyncDay
    BY <2>2
  <2>6. "cursor" \in DOMAIN syncState' /\ syncRun' = [w \in SyncWorkers |-> syncRun'[w]]
    BY <2>1 DEF SyncIsSound
  <2> QED BY <2>1, <2>3, <2>4, <2>5, <2>6 DEF SyncIsSound
<1>2. ASSUME NEW w \in SyncWorkers, LoadState(w) PROVE SyncIsSound'
  <2> PICK v : v = [pc |-> "loaded", seen |-> syncState]
    OBVIOUS
  <2>1. /\ syncRun' = [syncRun EXCEPT ![w] = v] /\ v.pc = "loaded" /\ v.seen = syncState
        /\ UNCHANGED <<syncToday, published, stored, syncState, asked>>
    BY <1>2 DEF LoadState
  <2>2. "cursor" \in DOMAIN syncState' /\ Covered(syncState.cursor)' /\ Covered(v.seen.cursor)'
    BY <2>1 DEF SyncIsSound, Covered, TooOld
  <2>0. asked' \in SyncDay /\ asked <= asked'
    BY <2>1 DEF SyncIsSound, SyncDay
  <2> QED BY <2>0, <2>1, <2>2, OneRunStep
<1>3. ASSUME NEW w \in SyncWorkers, Fetch(w) PROVE SyncIsSound'
  <2> PICK seen : seen = syncRun[w].seen
    OBVIOUS
  <2> PICK rows : rows = {d \in Wanted(seen.cursor, syncToday) : d + Lag <= syncToday}
    OBVIOUS
  <2> PICK v : v = Fetched(seen, rows)
    OBVIOUS
  <2>1. /\ syncRun' = [syncRun EXCEPT ![w] = v] /\ v.pc = "fetched"
        /\ v.seen = seen /\ v.rows = rows /\ v.from = IF seen.cursor = NoDay THEN syncToday ELSE 0
        /\ UNCHANGED <<syncToday, published, stored, syncState, asked>>
    BY <1>3 DEF Fetch, Fetched
  <2>2. Covered(seen.cursor) /\ syncToday \in SyncDay /\ asked \in SyncDay /\ published \subseteq SyncDay
    BY <1>3 DEF Fetch, SyncIsSound, RunIsSound
  <2>3. rows \subseteq published /\ \A r \in rows : r + Lag <= syncToday
    BY DEF Wanted
  <2>4. ASSUME NEW r \in rows, NEW d \in published, d <= r
        PROVE  d \in stored \cup rows \/ TooOld(d) \/ d + Lag + Backfill < v.from
    <3>1. d \in SyncDay /\ r \in SyncDay
      BY <2>2, <2>3
    <3>2. d + Lag <= syncToday /\ d <= syncToday
      BY <2>2, <2>3, <2>4, <3>1 DEF SyncDay
    <3>3. CASE seen.cursor = NoDay
      <4>1. CASE syncToday <= d + Lag + Backfill
        BY <3>2, <3>3, <4>1 DEF Wanted, InWindow
      <4>2. CASE ~(syncToday <= d + Lag + Backfill)
        BY <2>1, <2>2, <3>1, <3>3, <4>2 DEF SyncDay
      <4> QED BY <4>1, <4>2
    <3>4. CASE seen.cursor # NoDay
      <4>1. CASE d > seen.cursor
        BY <3>2, <3>4, <4>1 DEF Wanted
      <4>2. CASE ~(d > seen.cursor)
        BY <2>2, <3>1, <3>4, <4>2 DEF Covered, SyncDay
      <4> QED BY <4>1, <4>2
    <3> QED BY <3>3, <3>4
  <2>5. v.from \in SyncDay /\ rows \subseteq SyncDay
    <3>1. rows \subseteq SyncDay
      BY ONLY <2>2, <2>3
    <3>2. 0 \in SyncDay
      BY DEF SyncDay
    <3>3. v.from \in SyncDay
      BY ONLY <2>1, <2>2, <3>2
    <3> QED BY <3>1, <3>3
  <2>6. Reached(rows, v.from)
    BY <2>3, <2>4, <2>5 DEF Reached
  <2>7. Reached(v.rows, v.from)' /\ Covered(v.seen.cursor)'
    BY <2>1, <2>2, <2>6 DEF Reached, Covered, TooOld
  <2>8. "cursor" \in DOMAIN syncState' /\ Covered(syncState.cursor)'
    BY <2>1 DEF SyncIsSound, Covered, TooOld
  <2>9. asked' \in SyncDay /\ asked <= asked'
    BY <2>1, <2>2 DEF SyncDay
  <2> QED BY <2>1, <2>7, <2>8, <2>9, OneRunStep
<1>4. ASSUME NEW w \in SyncWorkers, FetchFails(w) PROVE SyncIsSound'
  <2> PICK v : v = [pc |-> "failed", seen |-> syncRun[w].seen]
    OBVIOUS
  <2>1. /\ syncRun' = [syncRun EXCEPT ![w] = v] /\ v.pc = "failed" /\ v.seen = syncRun[w].seen
        /\ UNCHANGED <<syncToday, published, stored, syncState, asked>>
    BY <1>4 DEF FetchFails
  <2>2. Covered(syncRun[w].seen.cursor)
    BY <1>4 DEF FetchFails, SyncIsSound, RunIsSound
  <2>3. /\ "cursor" \in DOMAIN syncState' /\ Covered(syncState.cursor)'
        /\ Covered(v.seen.cursor)'
    BY <2>1, <2>2 DEF SyncIsSound, Covered, TooOld
  <2>0. asked' \in SyncDay /\ asked <= asked'
    BY <2>1 DEF SyncIsSound, SyncDay
  <2> QED BY <2>0, <2>1, <2>3, OneRunStep
<1>5. ASSUME NEW w \in SyncWorkers, CommitSync(w) PROVE SyncIsSound'
  <2> PICK rows, from : rows = syncRun[w].rows /\ from = syncRun[w].from
    OBVIOUS
  <2>1. /\ syncRun' = [syncRun EXCEPT ![w] = AtRest] /\ AtRest.pc = "rest"
        /\ UNCHANGED <<syncToday, published>>
        /\ stored' = stored \cup rows
        /\ syncState' = Success(syncRun[w].seen, rows)
        /\ asked' = IF rows # {} /\ from > asked THEN from ELSE asked
    BY <1>5 DEF CommitSync, Commit, AtRest
  <2>2. Reached(rows, from) /\ Covered(syncState.cursor) /\ syncToday \in SyncDay
        /\ published \subseteq SyncDay /\ asked \in SyncDay
    BY <1>5 DEF CommitSync, Commit, SyncIsSound, RunIsSound
  <2>3. /\ "cursor" \in DOMAIN syncState'
        /\ syncState'.cursor = IF rows = {} THEN syncState.cursor ELSE Newest(rows)
    BY <2>1 DEF Success
  <2>0. from \in SyncDay /\ asked' \in SyncDay /\ asked <= asked' /\ (rows # {} => from <= asked')
    BY <2>1, <2>2 DEF Reached, SyncDay
  <2>5. \A d \in SyncDay : TooOld(d) \/ (rows # {} /\ d + Lag + Backfill < from) => TooOld(d)'
    BY <2>0, <2>2 DEF TooOld, SyncDay
  <2>4. Covered(syncState.cursor)'
    <3>1. CASE rows = {}
      BY <2>1, <2>2, <2>3, <2>5, <3>1 DEF Covered
    <3>2. CASE rows # {}
      <4>1. Newest(rows) \in rows /\ rows \subseteq SyncDay
        BY <2>2, <3>2, NewestIsLargest DEF Reached
      <4>2. syncState'.cursor = Newest(rows)
        BY <2>3, <3>2
      <4>3. /\ Newest(rows) + Lag <= syncToday
            /\ \A d \in published : d <= Newest(rows) =>
                  d \in stored \cup rows \/ TooOld(d) \/ d + Lag + Backfill < from
        BY <2>2, <4>1 DEF Reached
      <4>4. \A d \in published : d <= Newest(rows) => d \in stored' \/ TooOld(d)'
        BY <2>1, <2>2, <2>5, <3>2, <4>3
      <4> QED BY <2>1, <4>1, <4>2, <4>3, <4>4 DEF Covered
    <3> QED BY <3>1, <3>2
  <2> QED BY <2>0, <2>1, <2>3, <2>4, OneRunStep
<1>6. ASSUME NEW w \in SyncWorkers, CommitFailure(w) PROVE SyncIsSound'
  <2>1. /\ syncRun' = [syncRun EXCEPT ![w] = AtRest] /\ AtRest.pc = "rest"
        /\ UNCHANGED <<syncToday, published, stored, asked>>
    BY <1>6 DEF CommitFailure, AtRest
  <2>2. /\ "cursor" \in DOMAIN syncState'
        /\ syncState'.cursor = NoDay \/ syncState'.cursor = syncState.cursor
    <3>1. CASE syncState = NoState
      BY <1>6, <3>1 DEF CommitFailure
    <3>2. CASE syncState # NoState
      <4>1. PICK error : syncState' = [syncState EXCEPT !.error = error]
        BY <1>6, <3>2 DEF CommitFailure
      <4> QED BY <4>1 DEF SyncIsSound
    <3> QED BY <3>1, <3>2
  <2>3. Covered(syncState.cursor)'
    BY <2>1, <2>2 DEF SyncIsSound, Covered, TooOld
  <2>0. asked' \in SyncDay /\ asked <= asked'
    BY <2>1 DEF SyncIsSound, SyncDay
  <2> QED BY <2>0, <2>1, <2>2, <2>3, OneRunStep
<1>7. ASSUME NEW w \in SyncWorkers, Refused(w) \/ LoseRun(w) PROVE SyncIsSound'
  <2>1. /\ syncRun' = [syncRun EXCEPT ![w] = AtRest] /\ AtRest.pc = "rest"
        /\ UNCHANGED <<syncToday, published, stored, syncState, asked>>
    BY <1>7 DEF Refused, LoseRun, AtRest
  <2>2. "cursor" \in DOMAIN syncState' /\ Covered(syncState.cursor)'
    BY <2>1 DEF SyncIsSound, Covered, TooOld
  <2>0. asked' \in SyncDay /\ asked <= asked'
    BY <2>1 DEF SyncIsSound, SyncDay
  <2> QED BY <2>0, <2>1, <2>2, OneRunStep
<1>8. CASE UNCHANGED syncVars
  BY <1>8 DEF syncVars, SyncIsSound, RunIsSound, Covered, Reached, TooOld
<1> QED BY <1>1, <1>2, <1>3, <1>4, <1>5, <1>6, <1>7, <1>8 DEF DataSyncNext

THEOREM SyncAlwaysSound == DataSyncSpec => []SyncIsSound
BY SyncInit, SyncStep, PTL DEF DataSyncSpec

(* The cursor of integration_sync_states passes no day whose rows are      *)
(* missing (sync_helpers.py mark_sync_success), whichever syncs of a site  *)
(* overlap, fail, are lost, or commit out of order, but for days before    *)
(* the window of a sync that had no cursor.                                *)
THEOREM CursorPassesNoGap == DataSyncSpec => []NoGapBelowCursor
<1>1. SyncIsSound => NoGapBelowCursor
  BY DEF SyncIsSound, Covered, NoGapBelowCursor
<1> QED BY <1>1, SyncAlwaysSound, PTL

----------------------------------------------------------------------------
(* The writing of an article. Its score is a number from 0 to 100,         *)
(* whatever checks the text passes.                                        *)
LEMMA WeightsAre ==
  /\ SeoChecks = {"meta_title", "meta_description", "h2_structure", "faq_section", "keyword_stuffing"} \cup
                 {"word_count", "internal_links", "schema_readiness", "h3_structure", "keyword_in_h1"}
  /\ \A c \in SeoChecks : Weight[c] \in 1 .. 15
<1>1. SeoChecks = {"meta_title", "meta_description", "h2_structure", "faq_section", "keyword_stuffing"} \cup
                  {"word_count", "internal_links", "schema_readiness", "h3_structure", "keyword_in_h1"}
  BY DEF SeoChecks, Weight
<1>2. /\ Weight["meta_title"] = 10 /\ Weight["meta_description"] = 8 /\ Weight["h2_structure"] = 15
      /\ Weight["faq_section"] = 10 /\ Weight["keyword_stuffing"] = 12 /\ Weight["word_count"] = 10
      /\ Weight["internal_links"] = 8 /\ Weight["schema_readiness"] = 7
      /\ Weight["h3_structure"] = 5 /\ Weight["keyword_in_h1"] = 5
  BY DEF Weight
<1> QED
  BY <1>1, <1>2

LEMMA FiveAreFinite == \A a, b, c, d, e : IsFiniteSet({a, b, c, d, e})
<1> TAKE a, b, c, d, e
<1>1. IsFiniteSet({a})
  BY FS_Singleton
<1>2. IsFiniteSet({a} \cup {b})
  BY <1>1, FS_AddElement
<1>3. IsFiniteSet(({a} \cup {b}) \cup {c})
  BY <1>2, FS_AddElement
<1>4. IsFiniteSet((({a} \cup {b}) \cup {c}) \cup {d})
  BY <1>3, FS_AddElement
<1>5. IsFiniteSet(((({a} \cup {b}) \cup {c}) \cup {d}) \cup {e})
  BY <1>4, FS_AddElement
<1>6. ((({a} \cup {b}) \cup {c}) \cup {d}) \cup {e} = {a, b, c, d, e}
  OBVIOUS
<1> QED
  BY <1>5, <1>6

LEMMA PointsEarned ==
  ASSUME NEW text, text \subseteq SeoChecks
  PROVE  /\ IsFiniteSet(Points(text)) /\ Points(text) \subseteq Points(SeoChecks)
         /\ Earned(text) \in Nat /\ Earned(text) <= Total
<1>1. IsFiniteSet(SeoChecks)
  <2>1. PICK A, B : /\ A = {"meta_title", "meta_description", "h2_structure", "faq_section", "keyword_stuffing"}
                    /\ B = {"word_count", "internal_links", "schema_readiness", "h3_structure", "keyword_in_h1"}
    OBVIOUS
  <2>2. IsFiniteSet(A) /\ IsFiniteSet(B)
    BY <2>1, FiveAreFinite
  <2>3. IsFiniteSet(A \cup B)
    BY <2>2, FS_Union
  <2> QED
    BY <2>1, <2>3, WeightsAre
<1>2. IsFiniteSet(1 .. 15)
  <2>1. \A n \in Nat : IsFiniteSet(1 .. n)
    BY FS_Interval
  <2> QED
    BY <2>1
<1>3. IsFiniteSet(SeoChecks \X (1 .. 15))
  BY <1>1, <1>2, FS_Product
<1>4. Points(SeoChecks) \subseteq SeoChecks \X (1 .. 15)
  <2> SUFFICES ASSUME NEW c \in SeoChecks, NEW point \in {c} \X (1 .. Weight[c])
               PROVE  point \in SeoChecks \X (1 .. 15)
    BY DEF Points
  <2>1. Weight[c] \in 1 .. 15
    BY WeightsAre
  <2> QED
    BY <2>1
<1>5. Points(text) \subseteq Points(SeoChecks)
  BY DEF Points
<1>6. IsFiniteSet(Points(SeoChecks))
  BY <1>3, <1>4, FS_Subset
<1>7. IsFiniteSet(Points(text)) /\ Cardinality(Points(text)) <= Cardinality(Points(SeoChecks))
  BY <1>5, <1>6, FS_Subset
<1> QED
  BY <1>5, <1>7, FS_CardinalityType DEF Earned, Total

LEMMA SomePoints == Total \in Nat \ {0}
<1>1. <<"meta_title", 1>> \in Points(SeoChecks)
  BY DEF Points, SeoChecks, Weight
<1>2. IsFiniteSet(Points(SeoChecks)) /\ Total = Cardinality(Points(SeoChecks)) /\ Total \in Nat
  BY PointsEarned DEF Earned, Total
<1> QED
  BY <1>1, <1>2, FS_EmptySet

LEMMA Percentage ==
  ASSUME NEW n \in Nat, NEW d \in Nat \ {0}, n < 101 * d
  PROVE  n \div d \in 0 .. 100
<1>1. PICK q : q = n \div d /\ q \in Int
  OBVIOUS
<1>2. d * q <= n /\ n < d * (q + 1)
  BY <1>1
<1>3. q <= 100
  <2> SUFFICES ASSUME q >= 101 PROVE FALSE
    BY <1>1
  <2>1. d * q >= d * 101
    BY <1>1
  <2> QED
    BY <1>1, <1>2, <2>1
<1>4. q >= 0
  <2> SUFFICES ASSUME q + 1 <= 0 PROVE FALSE
    BY <1>1
  <2>1. d * (q + 1) <= 0
    BY <1>1
  <2> QED
    BY <1>1, <1>2, <2>1
<1> QED
  BY <1>1, <1>3, <1>4

LEMMA ScoreInRange == \A text \in Texts : Score(text) \in 0 .. 100
<1> SUFFICES ASSUME NEW text \in Texts PROVE Score(text) \in 0 .. 100
  OBVIOUS
<1>1. text \subseteq SeoChecks
  BY DEF Texts
<1>2. PICK e, t : e = Earned(text) /\ t = Total /\ e \in Nat /\ t \in Nat \ {0} /\ e <= t
  BY <1>1, PointsEarned, SomePoints
<1>3. 200 * e + t \in Nat /\ 2 * t \in Nat \ {0} /\ 200 * e + t < 101 * (2 * t)
  BY <1>2
<1>4. (200 * e + t) \div (2 * t) \in 0 .. 100
  BY <1>3, Percentage
<1> QED
  BY <1>2, <1>4 DEF Score

(* The text put out when the run is saved has the score that is saved with *)
(* it. While it is checked, no score was good enough yet; the best of them *)
(* and the body that earned it are kept.                                   *)
Drafting == {"write", "faq", "meta", "check", "fix", "save"}

ArtShape ==
    /\ llm \in BOOLEAN /\ fellBack \in BOOLEAN
    /\ art \in [pc : Places, todo : 0 .. Sections, used : 0 .. CallLimit + Sections + 2, mode : Modes,
                text : Texts, best : 0 .. 100, bestText : Texts, retries : 0 .. SEO_MAX_RETRIES,
                passed : SUBSET SeoChecks]
    /\ saved = Unsaved \/ saved \in [score : 0 .. 100, checks : SUBSET SeoChecks, text : Texts, mode : Modes]
    /\ scored \subseteq [text : Texts, score : 0 .. 100]

Budget ==
    /\ art.pc = "write" => art.used + art.todo <= Sections
    /\ art.pc = "meta" => art.used <= Sections + 1
    /\ art.pc \in {"write", "meta", "check", "fix"} => art.retries < SEO_MAX_RETRIES

ByTheLlm(mode) == mode = "grounded_llm" => llm /\ ~fellBack

NoneBetter == \A s \in scored : s.score <= art.best

(* The text of art would be reported truly with the best score.            *)
Deserved ==
    \E s \in scored :
        /\ s.score = art.best
        /\ s.text \ MetaChecks = art.text \ MetaChecks
        /\ art.best >= SEO_PASS_THRESHOLD => s.text = art.text /\ art.passed = art.text
        /\ art.retries = 0 => s.text = art.text

(* The run's row holds what art has of it.                                 *)
Recorded ==
    /\ saved.score = art.best /\ saved.mode = art.mode /\ saved.checks = art.passed
    /\ Normalised(art.text, saved.text)
    /\ art.retries = 0 => saved.text = art.text

ArtIInv ==
    /\ ArtShape /\ Budget
    /\ ByTheLlm(art.mode)
    /\ art.pc \in Drafting => saved = Unsaved
    /\ saved # Unsaved => Recorded
    /\ NoneBetter
    /\ art.best > 0 => \E s \in scored : s.score = art.best /\ s.text = art.bestText
    /\ art.pc \in {"write", "meta", "check", "fix"} => \A s \in scored : s.score < SEO_PASS_THRESHOLD
    /\ art.pc \in {"save", "claim", "done"} => Deserved
    /\ art.pc \in {"claim", "done"} => saved # Unsaved

LEMMA AlwaysIsText == Always \in Texts
BY DEF Texts, Always

LEMMA UnsavedIsNone ==
  ASSUME NEW r \in [score : 0 .. 100, checks : SUBSET SeoChecks, text : Texts, mode : Modes]
  PROVE  r # Unsaved
<1>1. Unsaved.score = -1 /\ r.score \in 0 .. 100
  BY DEF Unsaved
<1> QED
  BY <1>1

LEMMA ArtIInvInit == ArtInit => ArtIInv
<1> SUFFICES ASSUME ArtInit PROVE ArtIInv
  OBVIOUS
<1>1. /\ art.pc = "write" /\ art.todo = Sections /\ art.used = 0 /\ art.best = 0 /\ art.retries = 0
      /\ art.mode = (IF llm THEN "grounded_llm" ELSE "grounded_template")
      /\ saved = Unsaved /\ scored = {} /\ fellBack = FALSE
  BY DEF ArtInit
<1>2. ArtShape
  <2>1. PICK m : m = art.mode /\ m \in Modes
    BY <1>1 DEF Modes
  <2>2. art = [pc |-> "write", todo |-> Sections, used |-> 0, mode |-> m, text |-> Always,
               best |-> 0, bestText |-> Always, retries |-> 0, passed |-> {}]
    BY <1>1, <2>1 DEF ArtInit
  <2>3. /\ Sections \in 0 .. Sections /\ 0 \in 0 .. CallLimit + Sections + 2 /\ 0 \in 0 .. SEO_MAX_RETRIES
        /\ 0 \in 0 .. 100
    BY ArticleAssumption
  <2>4. art \in [pc : Places, todo : 0 .. Sections, used : 0 .. CallLimit + Sections + 2, mode : Modes,
                 text : Texts, best : 0 .. 100, bestText : Texts, retries : 0 .. SEO_MAX_RETRIES,
                 passed : SUBSET SeoChecks]
    BY <2>1, <2>2, <2>3, AlwaysIsText DEF Places
  <2> QED
    BY <1>1, <2>4 DEF ArtInit, ArtShape
<1>3. Budget
  BY <1>1, ArticleAssumption DEF Budget
<1>4. ByTheLlm(art.mode)
  BY <1>1 DEF ByTheLlm
<1> QED
  BY <1>1, <1>2, <1>3, <1>4 DEF ArtIInv, NoneBetter

(* Each step of the pipeline. Those that write the text leave the run's    *)
(* row and what was checked alone.                                         *)
ArtRow == [pc : Places, todo : 0 .. Sections, used : 0 .. CallLimit + Sections + 2, mode : Modes,
           text : Texts, best : 0 .. 100, bestText : Texts, retries : 0 .. SEO_MAX_RETRIES,
           passed : SUBSET SeoChecks]

LEMMA RowOf ==
  ASSUME NEW a \in ArtRow, NEW b, DOMAIN b = DOMAIN a, b = [c \in DOMAIN b |-> b[c]],
         b.pc \in Places, b.todo \in 0 .. Sections, b.used \in 0 .. CallLimit + Sections + 2,
         b.mode \in Modes, b.text \in Texts, b.best \in 0 .. 100, b.bestText \in Texts,
         b.retries \in 0 .. SEO_MAX_RETRIES, b.passed \subseteq SeoChecks
  PROVE  b \in ArtRow
BY DEF ArtRow

LEMMA WritesOn ==
  ASSUME ArtIInv, art.pc \in {"write", "meta", "fix"}, UNCHANGED <<llm, saved, scored>>,
         art' \in ArtRow, fellBack' \in BOOLEAN, art'.best = art.best, art'.bestText = art.bestText,
         art'.retries = art.retries, art'.pc \in {"write", "meta", "check", "failed"},
         art'.pc = "write" => art'.used + art'.todo <= Sections,
         art'.pc = "meta" => art'.used <= Sections + 1,
         art'.mode = "grounded_llm" => llm' /\ ~fellBack'
  PROVE  ArtIInv'
<1>1. ArtShape'
  BY DEF ArtIInv, ArtShape, ArtRow
<1>2. Budget'
  BY DEF ArtIInv, Budget
<1>3. saved = Unsaved /\ saved' = Unsaved
  BY DEF ArtIInv, Drafting
<1>4. NoneBetter'
  BY DEF ArtIInv, NoneBetter
<1>5. art'.best > 0 => \E s \in scored' : s.score = art'.best /\ s.text = art'.bestText
  BY DEF ArtIInv
<1>6. \A s \in scored' : s.score < SEO_PASS_THRESHOLD
  BY DEF ArtIInv
<1>7. ByTheLlm(art.mode)'
  BY DEF ByTheLlm
<1> QED
  BY <1>1, <1>2, <1>3, <1>4, <1>5, <1>6, <1>7 DEF ArtIInv

LEMMA WriteSectionKeeps == ArtIInv /\ WriteSection => ArtIInv'
<1> SUFFICES ASSUME ArtIInv, WriteSection PROVE ArtIInv'
  OBVIOUS
<1>1. PICK answered \in BOOLEAN :
        /\ art' = [art EXCEPT !.todo = @ - 1, !.used = IF llm THEN @ + 1 ELSE @,
                              !.mode = IF answered THEN @ ELSE "grounded_template"]
        /\ fellBack' = (fellBack \/ ~answered)
  <2>1. (IF llm THEN Answered ELSE {TRUE}) \subseteq BOOLEAN
    BY DEF Answered
  <2> QED
    BY <2>1, Zenon DEF WriteSection
<1>2. art.pc = "write" /\ art.todo > 0 /\ UNCHANGED <<llm, saved, scored>>
  BY DEF WriteSection
<1>3. PICK a, b : a = art /\ b = art' /\ a \in ArtRow
  BY DEF ArtIInv, ArtShape, ArtRow
<1>4. PICK used, mode : /\ used = (IF llm THEN a.used + 1 ELSE a.used)
                        /\ mode = IF answered THEN a.mode ELSE "grounded_template"
  OBVIOUS
<1>5. b = [a EXCEPT !.todo = a.todo - 1, !.used = used, !.mode = mode]
  BY <1>1, <1>3, <1>4
<1>6. /\ b.pc = "write" /\ b.todo = a.todo - 1 /\ b.used = used /\ b.mode = mode
      /\ b.best = a.best /\ b.bestText = a.bestText /\ b.retries = a.retries /\ b.text = a.text
  BY <1>2, <1>3, <1>5 DEF ArtRow
<1>7. a.used + a.todo <= Sections /\ a.used \in Nat /\ a.todo \in Nat /\ a.todo > 0
  BY <1>2, <1>3 DEF ArtIInv, Budget, ArtRow
<1>8. used + (a.todo - 1) <= Sections /\ used \in 0 .. CallLimit + Sections + 2 /\ a.todo - 1 \in 0 .. Sections
  BY <1>4, <1>7, ArticleAssumption
<1>9. mode \in Modes
  <2>1. a.mode \in Modes
    BY <1>3 DEF ArtRow
  <2> QED
    BY <1>4, <2>1 DEF Modes
<1>10. b \in ArtRow
  <2>1. DOMAIN b = DOMAIN a /\ b = [c \in DOMAIN b |-> b[c]] /\ b.passed = a.passed
    BY <1>3, <1>5 DEF ArtRow
  <2>2. /\ b.pc \in Places /\ a.text \in Texts /\ a.bestText \in Texts /\ a.best \in 0 .. 100
        /\ a.retries \in 0 .. SEO_MAX_RETRIES /\ a.passed \subseteq SeoChecks
    BY <1>3, <1>6 DEF ArtRow, Places
  <2> QED
    BY <1>3, <1>6, <1>8, <1>9, <2>1, <2>2, RowOf
<1>11. llm \in BOOLEAN /\ fellBack \in BOOLEAN /\ ByTheLlm(a.mode)
  BY <1>3 DEF ArtIInv, ArtShape
<1>12. fellBack' \in BOOLEAN /\ (answered => (fellBack' <=> fellBack))
  BY <1>1, <1>11
<1>13. b.mode = "grounded_llm" => llm' /\ ~fellBack'
  BY <1>2, <1>4, <1>6, <1>11, <1>12 DEF ByTheLlm
<1> QED
  BY <1>2, <1>3, <1>6, <1>8, <1>10, <1>12, <1>13, WritesOn

TextBecomes(pc, text, used) == art' = [art EXCEPT !.pc = pc, !.text = text, !.used = used]

LEMMA WritesText ==
  ASSUME ArtIInv, art.pc \in {"write", "meta", "fix"}, UNCHANGED <<llm, saved, scored, fellBack>>,
         NEW pc \in {"meta", "check", "failed"}, NEW text \in Texts, NEW used \in Nat,
         used <= IF pc = "meta" THEN Sections + 1 ELSE CallLimit + Sections + 2,
         TextBecomes(pc, text, used)
  PROVE  ArtIInv'
<1>1. PICK a, b : a = art /\ b = art' /\ a \in ArtRow
  BY DEF ArtIInv, ArtShape, ArtRow
<1>2. b = [a EXCEPT !.pc = pc, !.text = text, !.used = used]
  BY <1>1 DEF TextBecomes
<1>3. /\ b.pc = pc /\ b.text = text /\ b.used = used /\ b.todo = a.todo /\ b.mode = a.mode
      /\ b.best = a.best /\ b.bestText = a.bestText /\ b.retries = a.retries /\ b.passed = a.passed
      /\ DOMAIN b = DOMAIN a /\ b = [c \in DOMAIN b |-> b[c]]
  BY <1>1, <1>2 DEF ArtRow
<1>4. /\ a.todo \in 0 .. Sections /\ a.mode \in Modes /\ a.best \in 0 .. 100 /\ a.bestText \in Texts
      /\ a.retries \in 0 .. SEO_MAX_RETRIES /\ a.passed \subseteq SeoChecks
  BY <1>1 DEF ArtRow
<1>5. pc \in Places /\ used \in 0 .. CallLimit + Sections + 2
  <2>1. used <= CallLimit + Sections + 2
    BY ArticleAssumption
  <2> QED
    BY <2>1, ArticleAssumption DEF Places
<1>6. b \in ArtRow
  BY <1>1, <1>3, <1>4, <1>5, RowOf
<1>7. fellBack' \in BOOLEAN /\ (b.mode = "grounded_llm" => llm' /\ ~fellBack')
  BY <1>1, <1>3 DEF ArtIInv, ArtShape, ByTheLlm
<1>8. b.pc \in {"write", "meta", "check", "failed"} /\ b.pc # "write" /\ (b.pc = "meta" => b.used <= Sections + 1)
  BY <1>3
<1> QED
  BY <1>1, <1>3, <1>6, <1>7, <1>8, WritesOn

LEMMA OtherWritesKeep == ArtIInv /\ (WriteFaq \/ WriteMeta \/ ApplyFixes) => ArtIInv'
<1> SUFFICES ASSUME ArtIInv, WriteFaq \/ WriteMeta \/ ApplyFixes PROVE ArtIInv'
  OBVIOUS
<1>1. PICK a : a = art /\ a \in ArtRow
  BY DEF ArtIInv, ArtShape, ArtRow
<1>2. a = [c \in DOMAIN a |-> a[c]] /\ {"pc", "text", "used"} \subseteq DOMAIN a
      /\ a.text \in Texts /\ a.used \in Nat /\ a.used <= CallLimit + Sections + 2
  <2>1. a.used \in 0 .. CallLimit + Sections + 2 /\ a.text \in Texts /\ a = [c \in DOMAIN a |-> a[c]]
        /\ {"pc", "text", "used"} \subseteq DOMAIN a
    BY <1>1 DEF ArtRow
  <2> QED
    BY <2>1, ArticleAssumption
<1>3. CASE WriteFaq
  <2>1. a.pc = "write" /\ a.todo = 0 /\ UNCHANGED <<llm, saved, scored, fellBack>>
    BY <1>1, <1>3, Zenon DEF WriteFaq
  <2>2. a.used <= Sections
    BY <1>1, <1>2, <2>1, ArticleAssumption DEF ArtIInv, Budget
  <2>3. PICK pc \in {"meta", "failed"}, used \in {a.used, a.used + 1} :
          art' = [a EXCEPT !.pc = pc, !.used = used]
    <3>1. CASE art' = [art EXCEPT !.pc = "meta"]
      <4>1. [a EXCEPT !.pc = "meta"] = [a EXCEPT !.pc = "meta", !.used = a.used]
        BY <1>2
      <4> QED
        BY <1>1, <3>1, <4>1
    <3>2. CASE \E answered \in IF llm THEN Answered ELSE {TRUE} :
                 art' = [art EXCEPT !.pc = IF answered THEN "meta" ELSE "failed",
                                    !.used = IF llm THEN @ + 1 ELSE @]
      <4>1. PICK answered : art' = [art EXCEPT !.pc = IF answered THEN "meta" ELSE "failed",
                                               !.used = IF llm THEN art.used + 1 ELSE art.used]
        BY <3>2, Zenon
      <4>2. PICK pc, used : /\ pc = (IF answered THEN "meta" ELSE "failed")
                            /\ used = IF llm THEN a.used + 1 ELSE a.used
        OBVIOUS
      <4>3. art' = [a EXCEPT !.pc = pc, !.used = used]
        BY <1>1, <4>1, <4>2
      <4>4. pc \in {"meta", "failed"} /\ used \in {a.used, a.used + 1}
        BY <4>2
      <4> QED
        BY <4>3, <4>4
    <3> QED
      BY <1>3, <3>1, <3>2, Zenon DEF WriteFaq
  <2>4. [a EXCEPT !.pc = pc, !.used = used] = [a EXCEPT !.pc = pc, !.text = a.text, !.used = used]
    BY <1>2
  <2>5. used \in Nat /\ used <= IF pc = "meta" THEN Sections + 1 ELSE CallLimit + Sections + 2
    BY <1>2, <2>2, <2>3, ArticleAssumption
  <2>6. TextBecomes(pc, a.text, used)
    BY <1>1, <2>3, <2>4 DEF TextBecomes
  <2> QED
    BY <1>1, <1>2, <2>1, <2>3, <2>5, <2>6, WritesText
<1>4. CASE WriteMeta
  <2>1. PICK text \in Texts : art' = [art EXCEPT !.pc = "check", !.text = text, !.used = IF llm THEN @ + 1 ELSE @]
    BY <1>4, Zenon DEF WriteMeta
  <2>2. a.pc = "meta" /\ UNCHANGED <<llm, saved, scored, fellBack>>
    BY <1>1, <1>4, Zenon DEF WriteMeta
  <2>3. PICK used : used = IF llm THEN a.used + 1 ELSE a.used
    OBVIOUS
  <2>4. a.used <= Sections + 1
    BY <1>1, <2>2 DEF ArtIInv, Budget
  <2>5. used \in Nat /\ used <= CallLimit + Sections + 2
    BY <1>2, <2>3, <2>4, ArticleAssumption
  <2>6. TextBecomes("check", text, used)
    BY <1>1, <2>1, <2>3 DEF TextBecomes
  <2> QED
    BY <1>1, <2>2, <2>5, <2>6, WritesText
<1>5. CASE ApplyFixes
  <2>1. PICK text \in Texts : art' = [art EXCEPT !.pc = "check", !.text = text]
    BY <1>5, Zenon DEF ApplyFixes
  <2>2. a.pc = "fix" /\ UNCHANGED <<llm, saved, scored, fellBack>>
    BY <1>1, <1>5, Zenon DEF ApplyFixes
  <2>3. [a EXCEPT !.pc = "check", !.text = text] = [a EXCEPT !.pc = "check", !.text = text, !.used = a.used]
    BY <1>2
  <2>4. TextBecomes("check", text, a.used)
    BY <1>1, <2>1, <2>3 DEF TextBecomes
  <2> QED
    BY <1>1, <1>2, <2>2, <2>4, WritesText
<1> QED
  BY <1>3, <1>4, <1>5

(* What a check makes of the row: a, its score, and what comes of it.      *)
Rechecked(a, b, score) ==
    /\ DOMAIN b = DOMAIN a /\ b = [c \in DOMAIN b |-> b[c]]
    /\ b.todo = a.todo /\ b.used = a.used /\ b.mode = a.mode /\ b.passed = a.text
    /\ \/ score > a.best /\ b.best = score /\ b.bestText = a.text
       \/ score <= a.best /\ b.best = a.best /\ b.bestText = a.bestText
    /\ \/ score >= SEO_PASS_THRESHOLD /\ b.pc = "save" /\ b.retries = a.retries /\ b.text = a.text
       \/ /\ score < SEO_PASS_THRESHOLD /\ b.retries = a.retries + 1
          /\ \/ b.retries < SEO_MAX_RETRIES /\ b.pc = "fix" /\ b.text = a.text
             \/ /\ b.pc = "save"
                /\ b.text = IF b.best = 0 THEN a.text
                            ELSE (b.bestText \ MetaChecks) \cup (a.text \cap MetaChecks)

SetTwo(b, r, pc, n) == b = [r EXCEPT !.pc = pc, !.retries = n]

LEMMA TwoSet ==
  ASSUME NEW r, r = [c \in DOMAIN r |-> r[c]], {"pc", "retries"} \subseteq DOMAIN r, NEW pc, NEW n,
         NEW b, SetTwo(b, r, pc, n)
  PROVE  /\ DOMAIN b = DOMAIN r /\ b = [c \in DOMAIN b |-> b[c]] /\ b.pc = pc /\ b.retries = n
         /\ b.passed = r.passed /\ b.best = r.best /\ b.bestText = r.bestText /\ b.todo = r.todo
         /\ b.used = r.used /\ b.mode = r.mode /\ b.text = r.text
<1>1. DOMAIN b = DOMAIN r
  BY DEF SetTwo
<1>2. b = [c \in DOMAIN b |-> b[c]]
  BY <1>1 DEF SetTwo
<1>3. b.pc = pc /\ b.retries = n
  BY DEF SetTwo
<1>4. /\ b.passed = r.passed /\ b.best = r.best /\ b.bestText = r.bestText /\ b.todo = r.todo
      /\ b.used = r.used /\ b.mode = r.mode /\ b.text = r.text
  BY DEF SetTwo
<1> QED
  BY <1>1, <1>2, <1>3, <1>4

LEMMA SeoCheckEffect ==
  ASSUME ArtIInv, SeoCheck
  PROVE  /\ Rechecked(art, art', Score(art.text)) /\ Score(art.text) \in 0 .. 100
         /\ scored' = scored \cup {[text |-> art.text, score |-> Score(art.text)]}
         /\ art.pc = "check" /\ UNCHANGED <<llm, saved, fellBack>>
<1>1. PICK a : a = art /\ a \in ArtRow
  BY DEF ArtIInv, ArtShape, ArtRow
<1>2. PICK score : score = Score(a.text) /\ score \in 0 .. 100
  BY <1>1, ScoreInRange DEF ArtRow
<1>3. PICK best, bestText : /\ best = (IF score > a.best THEN score ELSE a.best)
                            /\ bestText = IF score > a.best THEN a.text ELSE a.bestText
  OBVIOUS
<1>4. PICK checked : checked = [a EXCEPT !.passed = a.text, !.best = best, !.bestText = bestText]
  OBVIOUS
<1>5. PICK fix, last : /\ fix = [checked EXCEPT !.pc = "fix", !.retries = @ + 1]
                       /\ last = [checked EXCEPT !.pc = "save", !.retries = @ + 1]
  OBVIOUS
<1>6. PICK put : put = [last EXCEPT !.text = (last.bestText \ MetaChecks) \cup (last.text \cap MetaChecks)]
  OBVIOUS
<1>7. /\ art' = IF score >= SEO_PASS_THRESHOLD THEN [checked EXCEPT !.pc = "save"]
                ELSE IF a.retries + 1 < SEO_MAX_RETRIES THEN fix
                ELSE IF last.best = 0 THEN last ELSE put
      /\ scored' = scored \cup {[text |-> a.text, score |-> score]}
      /\ a.pc = "check" /\ UNCHANGED <<llm, saved, fellBack>>
  BY <1>1, <1>2, <1>3, <1>4, <1>5, <1>6, ZenonT(60) DEF SeoCheck
<1>8. /\ checked = [c \in DOMAIN checked |-> checked[c]] /\ DOMAIN checked = DOMAIN a
      /\ checked.passed = a.text /\ checked.best = best /\ checked.bestText = bestText
      /\ checked.todo = a.todo /\ checked.used = a.used /\ checked.mode = a.mode
      /\ checked.text = a.text /\ checked.retries = a.retries
      /\ {"pc", "text", "retries"} \subseteq DOMAIN checked
  BY <1>1, <1>4 DEF ArtRow
<1>9. a.best \in 0 .. 100 /\ a.retries \in Nat
  BY <1>1 DEF ArtRow
<1>10. \/ score > a.best /\ best = score /\ bestText = a.text
       \/ score <= a.best /\ best = a.best /\ bestText = a.bestText
  <2>1. CASE score > a.best
    BY <1>3, <2>1
  <2>2. CASE ~(score > a.best)
    <3>1. score <= a.best
      BY <1>2, <1>9, <2>2
    <3>2. best = a.best /\ bestText = a.bestText
      BY <1>3, <2>2
    <3> QED
      BY <3>1, <3>2
  <2> QED
    BY <2>1, <2>2
<1>11. PICK n : n = a.retries + 1
  OBVIOUS
<1>12. SetTwo(fix, checked, "fix", n) /\ SetTwo(last, checked, "save", n)
  BY <1>5, <1>8, <1>11 DEF SetTwo
<1>13. CASE score >= SEO_PASS_THRESHOLD
  <2>1. PICK b : b = art' /\ b = [checked EXCEPT !.pc = "save"]
    BY <1>7, <1>13
  <2>2. /\ b.pc = "save" /\ b.retries = a.retries /\ b.text = a.text /\ b.best = best /\ b.bestText = bestText
        /\ b.todo = a.todo /\ b.used = a.used /\ b.mode = a.mode /\ b.passed = a.text
        /\ DOMAIN b = DOMAIN a /\ b = [c \in DOMAIN b |-> b[c]]
    BY <1>8, <2>1
  <2>3. Rechecked(a, b, score)
    BY <1>10, <1>13, <2>2 DEF Rechecked
  <2> QED
    BY <1>1, <1>2, <1>7, <2>1, <2>3
<1>14. CASE ~(score >= SEO_PASS_THRESHOLD) /\ a.retries + 1 < SEO_MAX_RETRIES
  <2>1. PICK b : b = art' /\ SetTwo(b, checked, "fix", n)
    BY <1>7, <1>14, <1>12
  <2>2. /\ b.pc = "fix" /\ b.retries = n /\ b.text = a.text /\ b.best = best /\ b.bestText = bestText
        /\ b.todo = a.todo /\ b.used = a.used /\ b.mode = a.mode /\ b.passed = a.text
        /\ DOMAIN b = DOMAIN a /\ b = [c \in DOMAIN b |-> b[c]]
    BY <1>8, <2>1, TwoSet
  <2>3. score < SEO_PASS_THRESHOLD
    BY <1>2, <1>14, ArticleAssumption
  <2>4. Rechecked(a, b, score)
    BY <1>10, <1>14, <1>11, <2>2, <2>3 DEF Rechecked
  <2> QED
    BY <1>1, <1>2, <1>7, <2>1, <2>4
<1>15. CASE ~(score >= SEO_PASS_THRESHOLD) /\ ~(a.retries + 1 < SEO_MAX_RETRIES)
  <2>1. /\ last.pc = "save" /\ last.retries = n /\ last.text = a.text
        /\ last.best = best /\ last.bestText = bestText
        /\ last.todo = a.todo /\ last.used = a.used /\ last.mode = a.mode /\ last.passed = a.text
        /\ DOMAIN last = DOMAIN a /\ last = [c \in DOMAIN last |-> last[c]]
    BY <1>8, <1>12, TwoSet
  <2>2. PICK text : text = (bestText \ MetaChecks) \cup (a.text \cap MetaChecks)
    OBVIOUS
  <2>3. put = [last EXCEPT !.text = text]
    BY <1>6, <2>1, <2>2
  <2>4. /\ put.pc = "save" /\ put.retries = n /\ put.text = text
        /\ put.best = best /\ put.bestText = bestText
        /\ put.todo = a.todo /\ put.used = a.used /\ put.mode = a.mode /\ put.passed = a.text
        /\ DOMAIN put = DOMAIN a /\ put = [c \in DOMAIN put |-> put[c]]
    <3>1. "text" \in DOMAIN last
      BY <1>8, <2>1
    <3> QED
      BY <2>1, <2>3, <3>1
  <2>5. PICK b : b = art' /\ b = IF best = 0 THEN last ELSE put
    BY <1>7, <1>15, <2>1
  <2>6. score < SEO_PASS_THRESHOLD
    BY <1>2, <1>15, ArticleAssumption
  <2>7. Rechecked(a, b, score)
    <3>1. CASE best = 0
      BY <1>10, <1>11, <2>1, <2>5, <2>6, <3>1 DEF Rechecked
    <3>2. CASE best # 0
      BY <1>10, <1>11, <2>2, <2>4, <2>5, <2>6, <3>2 DEF Rechecked
    <3> QED
      BY <3>1, <3>2
  <2> QED
    BY <1>1, <1>2, <1>7, <2>5, <2>7
<1> QED
  BY <1>13, <1>14, <1>15

LEMMA SeoCheckKeeps == ArtIInv /\ SeoCheck => ArtIInv'
<1> SUFFICES ASSUME ArtIInv, SeoCheck PROVE ArtIInv'
  OBVIOUS
<1>1. PICK a, b, score, new :
        /\ a = art /\ b = art' /\ score = Score(art.text)
        /\ new = [text |-> art.text, score |-> Score(art.text)]
  OBVIOUS
<1>2. /\ Rechecked(a, b, score) /\ score \in 0 .. 100 /\ scored' = scored \cup {new}
      /\ a.pc = "check" /\ UNCHANGED <<llm, saved, fellBack>> /\ a \in ArtRow
  BY <1>1, SeoCheckEffect DEF ArtIInv, ArtShape, ArtRow
<1>3. score \in 0 .. 100
  BY <1>2
<1>4. new.text = a.text /\ new.score = score /\ new \in [text : Texts, score : 0 .. 100]
  BY <1>1, <1>2 DEF ArtRow
<1>5. /\ a.text \in Texts /\ a.bestText \in Texts /\ a.best \in 0 .. 100 /\ a.retries \in Nat
      /\ a.todo \in 0 .. Sections /\ a.used \in 0 .. CallLimit + Sections + 2 /\ a.mode \in Modes
      /\ a.passed \subseteq SeoChecks
  BY <1>2 DEF ArtRow
<1>6. a.retries < SEO_MAX_RETRIES
  BY <1>1, <1>2 DEF ArtIInv, Budget
<1>7. \A s \in scored : s.score \in 0 .. 100 /\ s.score <= a.best /\ s.score < SEO_PASS_THRESHOLD
  BY <1>1, <1>2 DEF ArtIInv, ArtShape, NoneBetter
<1>8. a.best > 0 => \E s \in scored : s.score = a.best /\ s.text = a.bestText
  BY <1>1 DEF ArtIInv
<1>9. /\ DOMAIN b = DOMAIN a /\ b = [c \in DOMAIN b |-> b[c]]
      /\ b.todo = a.todo /\ b.used = a.used /\ b.mode = a.mode /\ b.passed = a.text
  BY <1>2 DEF Rechecked
<1>10. \/ /\ score > a.best /\ b.best = score /\ b.bestText = a.text
       \/ /\ score <= a.best /\ b.best = a.best /\ b.bestText = a.bestText
  BY <1>2, Zenon DEF Rechecked
<1>11. \/ /\ score >= SEO_PASS_THRESHOLD /\ b.pc = "save" /\ b.retries = a.retries /\ b.text = a.text
       \/ /\ score < SEO_PASS_THRESHOLD /\ b.retries = a.retries + 1 /\ b.retries < SEO_MAX_RETRIES
          /\ b.pc = "fix" /\ b.text = a.text
       \/ /\ score < SEO_PASS_THRESHOLD /\ b.retries = a.retries + 1 /\ b.pc = "save"
          /\ b.text = IF b.best = 0 THEN a.text ELSE (b.bestText \ MetaChecks) \cup (a.text \cap MetaChecks)
  BY <1>2, Zenon DEF Rechecked
<1>12. b.best \in 0 .. 100 /\ b.bestText \in Texts
  BY <1>2, <1>5, <1>10
<1>13. b.text \in Texts
  <2>1. (b.bestText \ MetaChecks) \cup (a.text \cap MetaChecks) \in Texts
    BY <1>5, <1>12 DEF Texts
  <2> QED
    BY <1>5, <1>11, <2>1
<1>14. b \in ArtRow
  <2>1. b.retries \in 0 .. SEO_MAX_RETRIES
    BY <1>5, <1>6, <1>11, ArticleAssumption
  <2>2. b.pc \in Places
    BY <1>11 DEF Places
  <2>3. b.passed \subseteq SeoChecks
    BY <1>5, <1>9 DEF Texts
  <2> QED
    BY <1>2, <1>5, <1>9, <1>12, <1>13, <2>1, <2>2, <2>3, RowOf
<1>15. scored' \subseteq [text : Texts, score : 0 .. 100]
  BY <1>2, <1>4 DEF ArtIInv, ArtShape
<1>16. ArtShape'
  BY <1>1, <1>2, <1>14, <1>15 DEF ArtIInv, ArtShape, ArtRow
<1>17. Budget'
  BY <1>1, <1>11 DEF Budget
<1>18. \A s \in scored' : s.score <= b.best
  <2>1. score <= b.best /\ a.best <= b.best
    <3>1. PICK best : best = a.best /\ best \in 0 .. 100
      BY <1>5
    <3>2. CASE score > best /\ b.best = score
      BY <1>3, <3>1, <3>2
    <3>3. CASE score <= best /\ b.best = best
      BY <1>3, <3>1, <3>3
    <3> QED
      BY <1>10, <3>1, <3>2, <3>3
  <2>2. ASSUME NEW s \in scored PROVE s.score <= b.best
    <3>1. PICK x, y, z : x = s.score /\ y = a.best /\ z = b.best
      OBVIOUS
    <3>2. x \in Int /\ x <= y
      BY <1>7, <3>1
    <3>3. y \in Int /\ z \in Int /\ y <= z
      BY <1>5, <1>12, <2>1, <3>1
    <3> QED
      BY <3>1, <3>2, <3>3
  <2> QED
    BY <1>2, <1>4, <2>1, <2>2
<1>19. b.best > 0 => \E s \in scored' : s.score = b.best /\ s.text = b.bestText
  BY <1>2, <1>4, <1>8, <1>10
<1>20. saved = Unsaved /\ saved' = Unsaved /\ ByTheLlm(a.mode)
  BY <1>1, <1>2 DEF ArtIInv, Drafting
<1>21. b.pc = "fix" => \A s \in scored' : s.score < SEO_PASS_THRESHOLD
  BY <1>2, <1>4, <1>7, <1>11, ArticleAssumption
<1>22. b.pc = "save" => \E s \in scored' : /\ s.score = b.best /\ s.text \ MetaChecks = b.text \ MetaChecks
                                           /\ b.best >= SEO_PASS_THRESHOLD => s.text = b.text /\ b.passed = b.text
                                           /\ b.retries = 0 => s.text = b.text
  <2>1. CASE score >= SEO_PASS_THRESHOLD
    <3>1. b.text = a.text
      BY <1>2, <1>11, <2>1, ArticleAssumption
    <3>2. b.best = score
      <4> SUFFICES ASSUME score <= a.best PROVE FALSE
        BY <1>10
      <4>1. a.best > 0
        BY <1>5, <1>3, <2>1, ArticleAssumption
      <4>2. a.best < SEO_PASS_THRESHOLD
        BY <1>7, <1>8, <4>1
      <4>3. PICK best : best = a.best
        OBVIOUS
      <4>4. best \in Int /\ score \in Int /\ score <= best
        BY <1>3, <1>5, <4>3
      <4>5. best < SEO_PASS_THRESHOLD /\ score >= SEO_PASS_THRESHOLD /\ SEO_PASS_THRESHOLD \in Int
        BY <2>1, <4>2, <4>3, ArticleAssumption
      <4> QED
        BY <4>4, <4>5
    <3> QED
      BY <1>2, <1>4, <1>9, <3>1, <3>2
  <2>2. CASE score < SEO_PASS_THRESHOLD /\ b.best = 0 /\ b.pc = "save"
    <3>1. b.text = a.text
      BY <1>2, <1>11, <2>2, ArticleAssumption
    <3>2. score = 0
      BY <1>2, <1>5, <1>10, <2>2
    <3> QED
      BY <1>2, <1>4, <1>9, <2>2, <3>1, <3>2
  <2>3. CASE score < SEO_PASS_THRESHOLD /\ b.best # 0 /\ b.pc = "save"
    <3>1. b.text = (b.bestText \ MetaChecks) \cup (a.text \cap MetaChecks)
      BY <1>2, <1>11, <2>3, ArticleAssumption
    <3>2. PICK s \in scored' : s.score = b.best /\ s.text = b.bestText
      BY <1>12, <1>19, <2>3
    <3>3. s.text \ MetaChecks = b.text \ MetaChecks
      BY <3>1, <3>2
    <3>4. b.best < SEO_PASS_THRESHOLD
      BY <1>2, <1>4, <1>7, <2>3, <3>2
    <3>5. ~ (b.best >= SEO_PASS_THRESHOLD)
      <4>1. PICK best : best = b.best /\ best \in Int
        BY <1>12
      <4> QED
        BY <3>4, <4>1, ArticleAssumption
    <3>6. b.retries # 0
      BY <1>5, <1>11, <2>3, <3>1, <1>3, ArticleAssumption
    <3> QED
      BY <3>2, <3>3, <3>5, <3>6
  <2>4. score >= SEO_PASS_THRESHOLD \/ score < SEO_PASS_THRESHOLD
    BY <1>3, ArticleAssumption
  <2> QED
    BY <2>1, <2>2, <2>3, <2>4
<1>23. b.pc \in {"save", "fix"}
  BY <1>11
<1> QED
  BY <1>1, <1>2, <1>9, <1>16, <1>17, <1>18, <1>19, <1>20, <1>21, <1>22, <1>23
     DEF ArtIInv, ByTheLlm, NoneBetter, Deserved

LEMMA SaveKeeps == ArtIInv /\ Save => ArtIInv'
<1> SUFFICES ASSUME ArtIInv, Save PROVE ArtIInv'
  OBVIOUS
<1>1. PICK a, b : a = art /\ b = art' /\ a \in ArtRow
  BY DEF ArtIInv, ArtShape, ArtRow
<1>2. PICK text \in Texts : /\ saved' = [score |-> a.best, checks |-> a.passed, text |-> text, mode |-> a.mode]
                            /\ Normalised(a.text, text) /\ (a.retries = 0 => text = a.text)
  BY <1>1, Zenon DEF Save
<1>3. a.pc = "save" /\ b = [a EXCEPT !.pc = "claim"] /\ UNCHANGED <<llm, scored, fellBack>>
  BY <1>1, Zenon DEF Save
<1>4. /\ b.pc = "claim" /\ b.todo = a.todo /\ b.used = a.used /\ b.mode = a.mode /\ b.passed = a.passed
      /\ b.text = a.text /\ b.best = a.best /\ b.bestText = a.bestText /\ b.retries = a.retries
      /\ b \in ArtRow
  BY <1>1, <1>3 DEF ArtRow, Places
<1>5. saved' \in [score : 0 .. 100, checks : SUBSET SeoChecks, text : Texts, mode : Modes]
      /\ saved'.score = a.best /\ saved'.mode = a.mode /\ saved'.checks = a.passed /\ saved'.text = text
  BY <1>1, <1>2 DEF ArtRow
<1>6. saved' # Unsaved
  BY <1>5, UnsavedIsNone
<1>7. ArtShape'
  BY <1>1, <1>3, <1>4, <1>5 DEF ArtIInv, ArtShape, ArtRow
<1>8. Budget'
  BY <1>1, <1>4 DEF Budget
<1>9. Deserved'
  BY <1>1, <1>3, <1>4 DEF ArtIInv, Deserved
<1>10. NoneBetter' /\ (b.best > 0 => \E s \in scored' : s.score = b.best /\ s.text = b.bestText)
  BY <1>1, <1>3, <1>4 DEF ArtIInv, NoneBetter
<1>11. ByTheLlm(art.mode)'
  BY <1>1, <1>3, <1>4 DEF ArtIInv, ByTheLlm
<1>12. Recorded'
  BY <1>1, <1>2, <1>4, <1>5 DEF Recorded, Normalised
<1> QED
  BY <1>1, <1>4, <1>6, <1>7, <1>8, <1>9, <1>10, <1>11, <1>12 DEF ArtIInv, Drafting

LEMMA VerifyKeeps == ArtIInv /\ VerifyClaims => ArtIInv'
<1> SUFFICES ASSUME ArtIInv, VerifyClaims PROVE ArtIInv'
  OBVIOUS
<1>1. PICK a, b : a = art /\ b = art' /\ a \in ArtRow
  BY DEF ArtIInv, ArtShape, ArtRow
<1>2. PICK pc \in {"done", "failed"} : b = [a EXCEPT !.pc = pc]
  BY <1>1, Zenon DEF VerifyClaims
<1>3. a.pc = "claim" /\ UNCHANGED <<llm, saved, scored, fellBack>>
  BY <1>1, Zenon DEF VerifyClaims
<1>4. /\ b.pc = pc /\ b.todo = a.todo /\ b.used = a.used /\ b.mode = a.mode /\ b.passed = a.passed
      /\ b.text = a.text /\ b.best = a.best /\ b.bestText = a.bestText /\ b.retries = a.retries
      /\ b \in ArtRow
  BY <1>1, <1>2 DEF ArtRow, Places
<1>5. ArtShape'
  BY <1>1, <1>3, <1>4 DEF ArtIInv, ArtShape, ArtRow
<1>6. Budget'
  BY <1>1, <1>4 DEF Budget
<1>7. Deserved' /\ saved' # Unsaved /\ Recorded'
  BY <1>1, <1>3, <1>4 DEF ArtIInv, Deserved, Recorded, Normalised
<1>8. NoneBetter' /\ (b.best > 0 => \E s \in scored' : s.score = b.best /\ s.text = b.bestText)
  BY <1>1, <1>3, <1>4 DEF ArtIInv, NoneBetter
<1>9. ByTheLlm(art.mode)'
  BY <1>1, <1>3, <1>4 DEF ArtIInv, ByTheLlm
<1> QED
  BY <1>1, <1>2, <1>4, <1>5, <1>6, <1>7, <1>8, <1>9 DEF ArtIInv, Drafting

LEMMA ArtIInvStep == ArtIInv /\ [ArtStep]_artVars => ArtIInv'
<1> SUFFICES ASSUME ArtIInv, [ArtStep]_artVars PROVE ArtIInv'
  OBVIOUS
<1>1. CASE UNCHANGED artVars
  <2>1. art' = art /\ saved' = saved /\ scored' = scored /\ llm' = llm /\ fellBack' = fellBack
    BY <1>1 DEF artVars
  <2> QED
    BY <2>1 DEF ArtIInv, ArtShape, Budget, ByTheLlm, NoneBetter, Deserved, Recorded
<1>2. CASE ArtStep
  BY <1>2, WriteSectionKeeps, OtherWritesKeep, SeoCheckKeeps, SaveKeeps, VerifyKeeps DEF ArtStep
<1> QED
  BY <1>1, <1>2

LEMMA ArtIInvShows == ArtIInv => ArtTypeOK /\ ReportIsHonest
<1> SUFFICES ASSUME ArtIInv PROVE ArtTypeOK /\ ReportIsHonest
  OBVIOUS
<1>1. ArtTypeOK
  BY DEF ArtIInv, ArtShape, ArtTypeOK
<1>2. ModeIsHonest
  BY DEF ArtIInv, ByTheLlm, Recorded, ModeIsHonest
<1>3. BestIsReported
  <2> SUFFICES ASSUME art.pc \in {"claim", "done"} PROVE BestIsReported
    BY DEF BestIsReported
  <2>1. Recorded /\ NoneBetter /\ Deserved
    BY DEF ArtIInv
  <2>2. \A s \in scored : s.score <= saved.score
    BY <2>1 DEF NoneBetter, Recorded
  <2>3. PICK s \in scored :
          /\ s.score = art.best /\ s.text \ MetaChecks = art.text \ MetaChecks
          /\ art.best >= SEO_PASS_THRESHOLD => s.text = art.text /\ art.passed = art.text
          /\ art.retries = 0 => s.text = art.text
    BY <2>1 DEF Deserved
  <2>4. Normalised(art.text \ MetaChecks, saved.text \ MetaChecks)
    BY <2>1 DEF Recorded, Normalised
  <2>5. Normalised(s.text \ MetaChecks, saved.text \ MetaChecks)
    BY <2>3, <2>4
  <2>6. /\ s.score = saved.score
        /\ saved.score >= SEO_PASS_THRESHOLD => saved.checks = s.text /\ Normalised(s.text, saved.text)
        /\ art.retries = 0 => saved.text = s.text
    BY <2>1, <2>3 DEF Recorded
  <2> QED
    BY <2>2, <2>5, <2>6 DEF BestIsReported
<1> QED
  BY <1>1, <1>2, <1>3 DEF ReportIsHonest

(* What is reported of an article is true of it, for any outline, any      *)
(* limit of calls, any threshold and number of retries, and whatever fails:*)
(* the score saved is the best of all checks and was earned by the body    *)
(* saved with it, as it was before it was normalised, above the threshold  *)
(* with the meta and the list of checks saved too; and a run that used a   *)
(* template does not pass for one written by the LLM                       *)
(* (orchestrator.py:188-211, 303-323, writing_agent.py:256).               *)
THEOREM ReportsAreHonest == ArtSpec => []ReportIsHonest
BY ArtIInvInit, ArtIInvStep, ArtIInvShows, PTL DEF ArtSpec

----------------------------------------------------------------------------
(* The rows of the background, whatever fails and overlaps.                *)

(* A sync: what a run has seen is a row or none, and the newest day it     *)
(* fetched is a day.                                                       *)
SyncRow == {AtRest} \cup [pc : {"loaded", "failed"}, seen : State \cup {NoState}]
           \cup [pc : {"fetched"}, seen : State \cup {NoState}, rows : SUBSET SyncDay, from : SyncDay]

LEMMA OneRunTyped ==
  ASSUME SyncIsSound, DataSyncTypeOK, NEW w \in SyncWorkers, NEW v \in SyncRow,
         syncRun' = [syncRun EXCEPT ![w] = v],
         syncToday' \in SyncDay, published' \subseteq SyncDay, stored' \subseteq SyncDay, asked' \in SyncDay,
         syncState' \in State \cup {NoState}, syncErrors' \in 0 .. MaxSyncErrors
  PROVE  DataSyncTypeOK'
<1>1. \A u \in SyncWorkers : syncRun'[u] = IF u = w THEN v ELSE syncRun[u]
  BY DEF SyncIsSound
<1>2. \A u \in SyncWorkers : syncRun'[u] \in SyncRow
  BY <1>1 DEF DataSyncTypeOK, SyncRow
<1> QED
  BY <1>2 DEF DataSyncTypeOK, SyncRow

LEMMA SyncTypedInit == DataSyncInit => DataSyncTypeOK
BY DataSyncAssumption DEF DataSyncInit, DataSyncTypeOK, SyncDay

LEMMA SyncTypedStep == SyncIsSound /\ DataSyncTypeOK /\ [DataSyncNext]_syncVars => DataSyncTypeOK'
<1> SUFFICES ASSUME SyncIsSound, DataSyncTypeOK, [DataSyncNext]_syncVars PROVE DataSyncTypeOK'
  OBVIOUS
<1> USE DataSyncAssumption
<1>0. asked' \in SyncDay
  BY SyncStep DEF SyncIsSound
<1>1. /\ syncToday \in SyncDay /\ published \subseteq SyncDay /\ stored \subseteq SyncDay
      /\ syncState \in State \cup {NoState} /\ syncErrors \in 0 .. MaxSyncErrors
      /\ \A w \in SyncWorkers : syncRun[w] \in SyncRow
  BY DEF DataSyncTypeOK, SyncRow
<1>2. ASSUME NEW w \in SyncWorkers, syncRun[w].pc = "loaded"
      PROVE  syncRun[w].seen \in State \cup {NoState}
  BY <1>1, <1>2 DEF SyncRow, AtRest
<1>3. ASSUME NEW w \in SyncWorkers, syncRun[w].pc \in {"failed", "fetched"}
      PROVE  /\ syncRun[w].seen \in State \cup {NoState}
             /\ syncRun[w].pc = "fetched" => syncRun[w].rows \subseteq SyncDay
  BY <1>1, <1>3 DEF SyncRow, AtRest
<1>4. AtRest \in SyncRow
  BY DEF SyncRow
<1>5. ASSUME SyncNextDay \/ \E d \in SyncDay : Publish(d) PROVE DataSyncTypeOK'
  <2>1. syncToday' \in SyncDay
    BY <1>1, <1>5 DEF SyncNextDay, Publish, SyncDay
  <2>2. published' \subseteq SyncDay
    BY <1>1, <1>5 DEF SyncNextDay, Publish
  <2>3. UNCHANGED <<stored, syncState, syncRun, syncErrors>>
    BY <1>5 DEF SyncNextDay, Publish
  <2> QED
    BY <1>0, <1>1, <2>1, <2>2, <2>3 DEF DataSyncTypeOK, SyncRow
<1>6. ASSUME NEW w \in SyncWorkers, LoadState(w) \/ FetchFails(w) PROVE DataSyncTypeOK'
  <2>1. PICK v \in SyncRow : syncRun' = [syncRun EXCEPT ![w] = v]
    <3>1. CASE LoadState(w)
      <4>1. [pc |-> "loaded", seen |-> syncState] \in SyncRow
        BY <1>1 DEF SyncRow
      <4> QED
        BY <3>1, <4>1 DEF LoadState
    <3>2. CASE FetchFails(w)
      <4>1. [pc |-> "failed", seen |-> syncRun[w].seen] \in SyncRow
        BY <1>2, <3>2 DEF SyncRow, FetchFails
      <4> QED
        BY <3>2, <4>1 DEF FetchFails
    <3> QED
      BY <1>6, <3>1, <3>2
  <2>2. /\ UNCHANGED <<syncToday, published, stored, syncState>>
        /\ syncErrors' \in 0 .. MaxSyncErrors
    BY <1>1, <1>6 DEF LoadState, FetchFails
  <2> QED
    BY <1>0, <1>1, <2>1, <2>2, OneRunTyped
<1>7. ASSUME NEW w \in SyncWorkers, Fetch(w) PROVE DataSyncTypeOK'
  <2>1. PICK seen, rows : /\ seen = syncRun[w].seen
                          /\ rows = {d \in Wanted(seen.cursor, syncToday) : d + Lag <= syncToday}
    OBVIOUS
  <2>2. PICK from : from = (IF seen.cursor = NoDay THEN syncToday ELSE 0) /\ from \in SyncDay
    BY <1>1 DEF SyncDay
  <2>3. PICK v : v = [pc |-> "fetched", seen |-> seen, rows |-> rows, from |-> from]
    OBVIOUS
  <2>4. rows \in SUBSET SyncDay /\ seen \in State \cup {NoState}
    BY <1>1, <1>2, <1>7, <2>1 DEF Fetch, Wanted
  <2>5. v \in SyncRow
    BY <2>2, <2>3, <2>4 DEF SyncRow
  <2>6. syncRun' = [syncRun EXCEPT ![w] = v] /\ UNCHANGED <<syncToday, published, stored, syncState, syncErrors>>
    BY <1>7, <2>1, <2>2, <2>3 DEF Fetch, Fetched
  <2> QED
    BY <1>0, <1>1, <2>5, <2>6, OneRunTyped
<1>8. ASSUME NEW w \in SyncWorkers, CommitSync(w) PROVE DataSyncTypeOK'
  <2>1. PICK seen, rows : seen = syncRun[w].seen /\ rows = syncRun[w].rows
    OBVIOUS
  <2>2. seen \in State \cup {NoState} /\ rows \subseteq SyncDay
    BY <1>3, <1>8, <2>1 DEF CommitSync, Commit
  <2>3. PICK cursor : /\ cursor = IF rows = {} THEN syncState.cursor ELSE Newest(rows)
                      /\ cursor \in SyncDay \cup {NoDay}
    <3>1. syncState.cursor \in SyncDay \cup {NoDay}
      BY <1>1 DEF State, NoState
    <3>2. rows # {} => Newest(rows) \in SyncDay
      BY <2>2, NewestIsLargest
    <3> QED
      BY <3>1, <3>2
  <2>4. PICK error : /\ error = IF seen # NoState /\ ~seen.error /\ syncState # NoState
                                THEN syncState.error ELSE FALSE
                     /\ error \in BOOLEAN
    <3>1. syncState # NoState => syncState.error \in BOOLEAN
      BY <1>1 DEF State
    <3> QED
      BY <3>1
  <2>5. PICK state : state = [cursor |-> cursor, success |-> syncToday, error |-> error] /\ state \in State
    <3>1. PICK today : today = syncToday /\ today \in SyncDay \cup {NoDay}
      BY <1>1
    <3>2. [cursor |-> cursor, success |-> today, error |-> error] \in State
      BY <2>3, <2>4, <3>1 DEF State
    <3> QED
      BY <3>1, <3>2
  <2>6. syncState' = state
    BY <1>8, <2>1, <2>3, <2>4, <2>5 DEF CommitSync, Commit, Success
  <2>7. stored' \subseteq SyncDay /\ UNCHANGED <<syncToday, published, syncErrors>>
        /\ syncRun' = [syncRun EXCEPT ![w] = AtRest]
    BY <1>1, <1>8, <2>1, <2>2 DEF CommitSync, Commit
  <2> QED
    BY <1>0, <1>1, <1>4, <2>5, <2>6, <2>7, OneRunTyped
<1>9. ASSUME NEW w \in SyncWorkers, CommitFailure(w) PROVE DataSyncTypeOK'
  <2>1. UNCHANGED <<syncToday, published, stored, syncErrors>> /\ syncRun' = [syncRun EXCEPT ![w] = AtRest]
    BY <1>9 DEF CommitFailure
  <2>2. CASE syncState = NoState
    <3>1. syncState' = [cursor |-> NoDay, success |-> NoDay, error |-> TRUE]
      BY <1>9, <2>2 DEF CommitFailure
    <3>2. syncState' \in State
      BY <3>1 DEF State
    <3> QED
      BY <1>0, <1>1, <1>4, <2>1, <3>2, OneRunTyped
  <2>3. CASE syncState # NoState
    <3>1. syncState \in State /\ syncState.error \in BOOLEAN
      BY <1>1, <2>3 DEF State
    <3>2. PICK error \in BOOLEAN : syncState' = [syncState EXCEPT !.error = error]
      BY <1>9, <2>3, <3>1 DEF CommitFailure
    <3>3. syncState' \in State
      BY <3>1, <3>2 DEF State
    <3> QED
      BY <1>0, <1>1, <1>4, <2>1, <3>3, OneRunTyped
  <2> QED
    BY <2>2, <2>3
<1>10. ASSUME NEW w \in SyncWorkers, Refused(w) \/ LoseRun(w) PROVE DataSyncTypeOK'
  <2>1. /\ UNCHANGED <<syncToday, published, stored, syncState>>
        /\ syncErrors' \in 0 .. MaxSyncErrors /\ syncRun' = [syncRun EXCEPT ![w] = AtRest]
    BY <1>1, <1>10 DEF Refused, LoseRun
  <2> QED
    BY <1>0, <1>1, <1>4, <2>1, OneRunTyped
<1>11. ASSUME UNCHANGED syncVars PROVE DataSyncTypeOK'
  BY <1>11 DEF syncVars, DataSyncTypeOK
<1> QED
  BY <1>5, <1>6, <1>7, <1>8, <1>9, <1>10, <1>11 DEF DataSyncNext

(* The issues of a site: the open rows of a key, and the jobs that are to  *)
(* insert one, are no more than the jobs.                                  *)
JobRow == {Waiting} \cup [pc : {"looked"}, kind : {"sitemap", "pages"}, report : SUBSET Faults]
          \cup [pc : {"matched"}, add : SUBSET Faults, gone : [SitemapFaults -> Nat]]

Adding(f) == {j \in IssueJobs : issueJob[j].pc = "matched" /\ f \in issueJob[j].add}

IssuesCounted ==
    /\ faulty \subseteq Faults /\ changes \in 0 .. MaxChanges /\ issueAborts \in 0 .. MaxIssueAborts
    /\ openRows \in [Faults -> Nat]
    /\ issueJob \in [IssueJobs -> JobRow]
    /\ \A f \in Faults : openRows[f] + Cardinality(Adding(f)) <= Cardinality(IssueJobs)

LEMMA IssuesCountedInit == IssuesInit => IssuesCounted
<1> SUFFICES ASSUME IssuesInit PROVE IssuesCounted
  OBVIOUS
<1>1. \A f \in Faults : openRows[f] = 0 /\ Adding(f) = {}
  BY DEF IssuesInit, Adding, Waiting
<1>2. Cardinality({}) = 0 /\ Cardinality(IssueJobs) \in Nat
  BY TechnicalIssuesAssumption, FS_EmptySet, FS_CardinalityType
<1>3. \A f \in Faults : openRows[f] + Cardinality(Adding(f)) <= Cardinality(IssueJobs)
  BY <1>1, <1>2
<1>4. issueJob \in [IssueJobs -> JobRow] /\ openRows \in [Faults -> Nat]
  BY DEF IssuesInit, JobRow
<1> QED
  BY <1>3, <1>4, TechnicalIssuesAssumption DEF IssuesInit, IssuesCounted

(* The turn of one job, which may leave one row more of what it was to     *)
(* insert, and is to insert one only where there was none.                 *)
LEMMA OneJobTurns ==
  ASSUME IssuesCounted, NEW j \in IssueJobs, NEW v \in JobRow, issueJob' = [issueJob EXCEPT ![j] = v],
         openRows' \in [Faults -> Nat], UNCHANGED <<faulty, changes>>, issueAborts' \in 0 .. MaxIssueAborts,
         \A f \in Faults :
            \/ openRows'[f] = 0
            \/ /\ openRows'[f] <= openRows[f]
               /\ v.pc = "matched" => f \notin v.add
            \/ /\ openRows'[f] <= openRows[f] + 1
               /\ v = Waiting /\ j \in Adding(f)
  PROVE  IssuesCounted'
<1>1. issueJob' \in [IssueJobs -> JobRow] /\ issueJob'[j] = v
      /\ \A i \in IssueJobs : i # j => issueJob'[i] = issueJob[i]
  BY DEF IssuesCounted
<1>2. ASSUME NEW f \in Faults
      PROVE  openRows'[f] + Cardinality(Adding(f)') <= Cardinality(IssueJobs)
  <2>1. PICK A, B, n, m : /\ A = Adding(f) /\ B = Adding(f)' /\ n = openRows[f] /\ m = openRows'[f]
                          /\ n \in Nat /\ m \in Nat
    BY DEF IssuesCounted
  <2>2. A \subseteq IssueJobs /\ B \subseteq IssueJobs /\ n + Cardinality(A) <= Cardinality(IssueJobs)
    BY <2>1 DEF IssuesCounted, Adding
  <2>3. ~(v.pc = "matched" /\ f \in v.add) => B \subseteq A \ {j}
    BY <1>1, <2>1 DEF Adding
  <2>4. \/ m = 0
        \/ m <= n /\ B \subseteq A
        \/ m <= n + 1 /\ \E i \in A : B \subseteq A \ {i}
    BY <2>1, <2>3 DEF Waiting
  <2>5. m + Cardinality(B) <= Cardinality(IssueJobs)
    BY <2>1, <2>2, <2>4, TechnicalIssuesAssumption, ClaimsKept
  <2> QED
    BY <2>1, <2>5
<1> QED
  BY <1>1, <1>2 DEF IssuesCounted

LEMMA IssuesCountedStep == IssuesCounted /\ [IssuesNext]_issueVars => IssuesCounted'
<1> SUFFICES ASSUME IssuesCounted, [IssuesNext]_issueVars PROVE IssuesCounted'
  OBVIOUS
<1>1. /\ faulty \subseteq Faults /\ issueAborts \in 0 .. MaxIssueAborts
      /\ openRows \in [Faults -> Nat] /\ issueJob \in [IssueJobs -> JobRow]
  BY DEF IssuesCounted
<1>2. CASE UNCHANGED issueVars
  BY <1>2 DEF issueVars, IssuesCounted, Adding
<1>3. ASSUME NEW f \in Faults, SiteChanges(f) PROVE IssuesCounted'
  <2>1. UNCHANGED <<openRows, issueJob, issueAborts>> /\ faulty' \subseteq Faults /\ changes' \in 0 .. MaxChanges
    BY <1>3, TechnicalIssuesAssumption DEF SiteChanges, IssuesCounted
  <2> QED
    BY <2>1 DEF IssuesCounted, Adding
<1>4. ASSUME NEW j \in IssueJobs, LookAtSitemap(j) \/ LookAtPages(j) PROVE IssuesCounted'
  <2>1. PICK kind \in {"sitemap", "pages"}, report \in SUBSET Faults : Look(j, kind, report)
    BY <1>1, <1>4 DEF LookAtSitemap, LookAtPages
  <2>2. PICK v : v = [pc |-> "looked", kind |-> kind, report |-> report]
    OBVIOUS
  <2>3. v \in JobRow /\ v.pc = "looked"
    BY <2>2 DEF JobRow
  <2>4. issueJob' = [issueJob EXCEPT ![j] = v] /\ UNCHANGED <<faulty, changes, openRows, issueAborts>>
    BY <2>1, <2>2 DEF Look
  <2>5. \A f \in Faults : openRows'[f] <= openRows[f]
    BY <1>1, <2>4
  <2> QED
    BY <1>1, <2>3, <2>4, <2>5, OneJobTurns
<1>5. ASSUME NEW j \in IssueJobs, NEW add \in SUBSET Faults, NEW gone \in [SitemapFaults -> Nat],
             Matched(j, add, gone), \A f \in add : openRows[f] = 0
      PROVE  IssuesCounted'
  <2>1. PICK v : v = [pc |-> "matched", add |-> add, gone |-> gone]
    OBVIOUS
  <2>2. v \in JobRow /\ v.add = add
    BY <2>1 DEF JobRow
  <2>3. issueJob' = [issueJob EXCEPT ![j] = v] /\ UNCHANGED <<faulty, changes, openRows, issueAborts>>
    BY <1>5, <2>1 DEF Matched
  <2>4. \A f \in Faults : openRows'[f] = 0 \/ (openRows'[f] <= openRows[f] /\ f \notin v.add)
    BY <1>1, <1>5, <2>2, <2>3
  <2> QED
    BY <1>1, <2>2, <2>3, <2>4, OneJobTurns
<1>6. ASSUME NEW j \in IssueJobs, UpsertIssues(j) \/ UpsertFindsTwo(j) \/ Resolve(j) \/ PagesFine(j)
      PROVE  IssuesCounted'
  <2>1. issueJob[j].report \subseteq Faults
    BY <1>1, <1>6 DEF UpsertIssues, UpsertFindsTwo, Resolve, PagesFine, JobRow, Waiting
  <2>2. NoneGone \in [SitemapFaults -> Nat] /\ [f \in SitemapFaults |-> openRows[f]] \in [SitemapFaults -> Nat]
    BY <1>1 DEF NoneGone, Faults
  <2>3. \E add \in SUBSET Faults, gone \in [SitemapFaults -> Nat] :
           Matched(j, add, gone) /\ \A f \in add : openRows[f] = 0
    <3>1. CASE UpsertIssues(j)
      <4>1. {f \in issueJob[j].report : openRows[f] = 0} \in SUBSET Faults
        BY <2>1
      <4> QED
        BY <2>2, <3>1, <4>1 DEF UpsertIssues
    <3>2. CASE UpsertFindsTwo(j)
      <4>1. PICK before : /\ before \subseteq issueJob[j].report
                          /\ Matched(j, {f \in before : openRows[f] = 0}, NoneGone)
        BY <3>2 DEF UpsertFindsTwo
      <4>2. {f \in before : openRows[f] = 0} \in SUBSET Faults
        BY <2>1, <4>1
      <4> QED
        BY <2>2, <4>1, <4>2
    <3>3. CASE Resolve(j) \/ PagesFine(j)
      BY <2>2, <3>3 DEF Resolve, PagesFine
    <3> QED
      BY <1>6, <3>1, <3>2, <3>3
  <2> QED
    BY <1>5, <2>3
<1>7. ASSUME NEW j \in IssueJobs, CommitIssues(j) PROVE IssuesCounted'
  <2>1. PICK add, gone : add = issueJob[j].add /\ gone = issueJob[j].gone
    OBVIOUS
  <2>2. gone \in [SitemapFaults -> Nat] /\ issueJob[j].pc = "matched"
    BY <1>1, <1>7, <2>1 DEF CommitIssues, JobRow, Waiting
  <2>3. /\ openRows' = [f \in Faults |->
             openRows[f] - (IF f \in SitemapFaults THEN Least(gone[f], openRows[f]) ELSE 0)
               + (IF f \in add THEN 1 ELSE 0)]
        /\ issueJob' = [issueJob EXCEPT ![j] = Waiting] /\ UNCHANGED <<faulty, changes, issueAborts>>
    BY <1>7, <2>1 DEF CommitIssues
  <2>4. ASSUME NEW f \in Faults
        PROVE  /\ openRows'[f] \in Nat /\ openRows'[f] <= openRows[f] + 1
               /\ f \notin add => openRows'[f] <= openRows[f]
    <3>1. PICK g, n : /\ n = openRows[f] /\ n \in Nat
                      /\ g = IF f \in SitemapFaults THEN Least(gone[f], n) ELSE 0
      BY <1>1
    <3>2. g \in 0 .. n
      <4>1. \A a, b \in Nat : Least(a, b) \in 0 .. b
        BY DEF Least
      <4>2. f \in SitemapFaults => gone[f] \in Nat
        BY <2>2
      <4> QED
        BY <3>1, <4>1, <4>2
    <3>3. openRows'[f] = n - g + (IF f \in add THEN 1 ELSE 0)
      BY <2>3, <3>1
    <3> QED
      BY <3>1, <3>2, <3>3
  <2>5. openRows' \in [Faults -> Nat]
    BY <2>3, <2>4
  <2>6. \A f \in Faults : \/ openRows'[f] <= openRows[f]
                          \/ openRows'[f] <= openRows[f] + 1 /\ j \in Adding(f)
    BY <2>1, <2>2, <2>4 DEF Adding
  <2>7. Waiting \in JobRow /\ Waiting.pc = "waiting"
    BY DEF JobRow, Waiting
  <2> QED
    BY <1>1, <2>3, <2>5, <2>6, <2>7, OneJobTurns
<1>8. ASSUME NEW j \in IssueJobs, AbortIssues(j) PROVE IssuesCounted'
  <2>1. /\ issueJob' = [issueJob EXCEPT ![j] = Waiting] /\ UNCHANGED <<faulty, changes, openRows>>
        /\ issueAborts' \in 0 .. MaxIssueAborts
    BY <1>1, <1>8, TechnicalIssuesAssumption DEF AbortIssues
  <2>2. Waiting \in JobRow /\ Waiting.pc = "waiting"
    BY DEF JobRow, Waiting
  <2>3. \A f \in Faults : openRows'[f] <= openRows[f]
    BY <1>1, <2>1
  <2> QED
    BY <1>1, <2>1, <2>2, <2>3, OneJobTurns
<1> QED
  BY <1>2, <1>3, <1>4, <1>6, <1>7, <1>8 DEF IssuesNext

LEMMA IssuesCountedTyped == IssuesCounted => IssuesTypeOK
<1> SUFFICES ASSUME IssuesCounted PROVE IssuesTypeOK
  OBVIOUS
<1>1. ASSUME NEW f \in Faults PROVE openRows[f] \in 0 .. Cardinality(IssueJobs)
  <2>1. IsFiniteSet(Adding(f))
    BY TechnicalIssuesAssumption, FS_Subset DEF Adding
  <2>2. Cardinality(Adding(f)) \in Nat /\ Cardinality(IssueJobs) \in Nat
    BY <2>1, TechnicalIssuesAssumption, FS_CardinalityType
  <2> QED
    BY <2>2 DEF IssuesCounted
<1>2. openRows \in [Faults -> 0 .. Cardinality(IssueJobs)]
  BY <1>1 DEF IssuesCounted
<1>3. \A j \in IssueJobs : issueJob[j] \in JobRow
  BY DEF IssuesCounted
<1> QED
  BY <1>2, <1>3 DEF IssuesCounted, IssuesTypeOK, JobRow

(* What runs in the background, taken together: each component keeps what  *)
(* it needs, and the others stay as they began.                            *)
BackgroundIInv ==
    Structure /\ SyncIsSound /\ DataSyncTypeOK /\ IssuesCounted /\ OpsCounted /\ ArtIInv

LEMMA BackgroundIInvInit == BackgroundInit => BackgroundIInv
<1> SUFFICES ASSUME BackgroundInit PROVE BackgroundIInv
  OBVIOUS
<1>1. Init /\ DataSyncInit /\ IssuesInit /\ OpsInit /\ ArtInit
  BY DEF BackgroundInit
<1> QED
  BY <1>1, StructureInit, SyncInit, SyncTypedInit, IssuesCountedInit, OpsCountedInit, ArtIInvInit
     DEF BackgroundIInv

LEMMA BackgroundIInvStep ==
  BackgroundIInv /\ [BackgroundNext]_<<part, vars, syncVars, issueVars, opsVars, artVars>> => BackgroundIInv'
<1> SUFFICES ASSUME BackgroundIInv,
                    [BackgroundNext]_<<part, vars, syncVars, issueVars, opsVars, artVars>>
             PROVE  BackgroundIInv'
  OBVIOUS
<1>1. /\ [Next]_vars /\ [DataSyncNext]_syncVars /\ [IssuesNext]_issueVars
      /\ [OpsNext]_opsVars /\ [ArtStep]_artVars
  BY DEF BackgroundNext
<1> QED
  BY <1>1, StructureStep, SyncStep, SyncTypedStep, IssuesCountedStep, OpsCountedStep, ArtIInvStep
     DEF BackgroundIInv

(* The rows of every part keep the shapes the code gives them: open rows   *)
(* of an issue are no more than the jobs of the site (technical_issues.py),*)
(* health runs committed today no more than the tasks (jobs/tasks.py).     *)
THEOREM BackgroundTypeCorrect == BackgroundSpec => []BackgroundTypeOK
<1>1. BackgroundIInv => BackgroundTypeOK
  <2> SUFFICES ASSUME BackgroundIInv PROVE BackgroundTypeOK
    OBVIOUS
  <2>1. TypeOK
    BY DEF BackgroundIInv, Structure
  <2> QED
    BY <2>1, IssuesCountedTyped, OpsCountedTyped, ArtIInvShows DEF BackgroundIInv, BackgroundTypeOK
<1> QED
  BY <1>1, BackgroundIInvInit, BackgroundIInvStep, PTL DEF BackgroundSpec
=============================================================================
