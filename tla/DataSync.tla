------------------------------ MODULE DataSync ------------------------------
(***************************************************************************)
(* Incremental ingestion of one provider (gsc, ga4, bing_webmaster) for    *)
(* one site: the cursor in integration_sync_states and the rows it stands  *)
(* for (integrations/sync_helpers.py, jobs/handlers/gsc_sync.py,           *)
(* ga4_sync.py, bing_sync.py). The provider is external: the rows of a day *)
(* are final when the day is Lag days old.                                 *)
(***************************************************************************)
EXTENDS Naturals, FiniteSets

CONSTANTS
    SyncWorkers,    \* workers that may run a sync of the site at once
    Lag,            \* days a provider takes: 3 for gsc, 1 for ga4, 2 for bing
    Backfill,       \* days a sync without a cursor reaches back: 480, 30 and 30
    SyncDays,       \* bound: days in a behaviour
    MaxSyncErrors   \* bound: failed fetches and lost runs

ASSUME DataSyncAssumption == {Lag, Backfill, SyncDays, MaxSyncErrors} \subseteq Nat

VARIABLES
    syncToday,
    published,   \* external: days the provider has rows of
    stored,      \* days whose rows are in the table: the unique key makes a row one
    syncState,   \* the committed row of integration_sync_states
    syncRun,     \* what each worker is doing
    asked,       \* history: the latest day on which a sync without a cursor asked, of those that brought rows
    syncErrors   \* failures so far

syncVars == <<syncToday, published, stored, syncState, syncRun, asked, syncErrors>>

SyncDay == 0 .. SyncDays
NoDay   == SyncDays + 1
State   == [cursor : SyncDay \cup {NoDay}, success : SyncDay \cup {NoDay}, error : BOOLEAN]
NoState == [cursor |-> NoDay, success |-> NoDay]
AtRest  == [pc |-> "rest"]

DataSyncTypeOK ==
    /\ syncToday \in SyncDay
    /\ published \subseteq SyncDay /\ stored \subseteq SyncDay
    /\ syncState \in State \cup {NoState}
    /\ \A w \in SyncWorkers : syncRun[w] \in {AtRest}
         \cup [pc : {"loaded", "failed"}, seen : State \cup {NoState}]
         \cup [pc : {"fetched"}, seen : State \cup {NoState}, rows : SUBSET SyncDay, from : SyncDay]
    /\ asked \in SyncDay
    /\ syncErrors \in 0 .. MaxSyncErrors

DataSyncInit ==
    /\ syncToday = 0
    /\ published = {} /\ stored = {}
    /\ syncState = NoState
    /\ syncRun = [w \in SyncWorkers |-> AtRest]
    /\ asked = 0 /\ syncErrors = 0

----------------------------------------------------------------------------
SyncNextDay ==
    /\ syncToday < SyncDays
    /\ syncToday' = syncToday + 1
    /\ UNCHANGED <<published, stored, syncState, syncRun, asked, syncErrors>>

(* External: rows of a day appear while it is younger than the lag; a day  *)
(* without traffic never has any.                                          *)
Publish(d) ==
    /\ d <= syncToday /\ syncToday < d + Lag /\ d \notin published
    /\ published' = published \cup {d}
    /\ UNCHANGED <<syncToday, stored, syncState, syncRun, asked, syncErrors>>

(* get_or_create_sync_state: the row, or a new one that is committed with  *)
(* the run. The credential is there and the circuit closed.                *)
LoadState(w) ==
    /\ syncRun[w] = AtRest
    /\ syncRun' = [syncRun EXCEPT ![w] = [pc |-> "loaded", seen |-> syncState]]
    /\ UNCHANGED <<syncToday, published, stored, syncState, asked, syncErrors>>

(* fetch_incremental, fetch_page_metrics, fetch_query_stats: from the day  *)
(* after the cursor, or Backfill days back if there is none, up to a day.  *)
InWindow(d)          == syncToday <= d + Lag + Backfill
Wanted(cursor, last) == {d \in published : d <= last /\ IF cursor = NoDay THEN InWindow(d) ELSE d > cursor}

Fetched(seen, rows) ==
    [pc |-> "fetched", seen |-> seen, rows |-> rows, from |-> IF seen.cursor = NoDay THEN syncToday ELSE 0]

(* Fault: today is fetched too, with the rows it has so far.               *)
FetchWithoutLag(w) ==
    /\ syncRun[w].pc = "loaded"
    /\ LET seen == syncRun[w].seen
       IN  syncRun' = [syncRun EXCEPT ![w] = Fetched(seen, Wanted(seen.cursor, syncToday))]
    /\ UNCHANGED <<syncToday, published, stored, syncState, asked, syncErrors>>

(* The last day asked for is Lag days ago; nothing if there is none.       *)
Fetch(w) ==
    /\ syncRun[w].pc = "loaded"
    /\ LET seen == syncRun[w].seen
       IN  syncRun' = [syncRun EXCEPT ![w] = Fetched(seen, {d \in Wanted(seen.cursor, syncToday) : d + Lag <= syncToday})]
    /\ UNCHANGED <<syncToday, published, stored, syncState, asked, syncErrors>>

(* The provider refuses, the answer cannot be read: the handler goes on.   *)
FetchFails(w) ==
    /\ syncRun[w].pc = "loaded" /\ syncErrors < MaxSyncErrors
    /\ syncRun' = [syncRun EXCEPT ![w] = [pc |-> "failed", seen |-> syncRun[w].seen]]
    /\ syncErrors' = syncErrors + 1
    /\ UNCHANGED <<syncToday, published, stored, syncState, asked>>

(* uq_sync_state: a new row is refused when another run made it first.     *)
Fits(seen) == seen = NoState => syncState = NoState

Newest(days) == CHOOSE d \in days : \A e \in days : e <= d

(* A session writes the cursor only if it differs from the one it loaded,  *)
(* and an error only if it loads another.                                  *)
Success(seen, rows) ==
    [cursor  |-> IF rows = {} THEN syncState.cursor ELSE Newest(rows),
     success |-> syncToday,
     error   |-> IF seen # NoState /\ ~seen.error /\ syncState # NoState THEN syncState.error ELSE FALSE]

Commit(w, state) ==
    /\ syncRun[w].pc = "fetched" /\ Fits(syncRun[w].seen)
    /\ stored' = stored \cup syncRun[w].rows
    /\ syncState' = state
    /\ asked' = IF syncRun[w].rows # {} /\ syncRun[w].from > asked THEN syncRun[w].from ELSE asked
    /\ syncRun' = [syncRun EXCEPT ![w] = AtRest]
    /\ UNCHANGED <<syncToday, published, syncErrors>>

(* Fault: the cursor moves to today, rows or not; a day whose rows came in *)
(* after the fetch began is skipped.                                       *)
CommitSyncCursorToday(w) ==
    Commit(w, [Success(syncRun[w].seen, syncRun[w].rows) EXCEPT !.cursor = syncToday])

(* upsert_*_rows, mark_sync_success and the commit of the run.             *)
CommitSync(w) == Commit(w, Success(syncRun[w].seen, syncRun[w].rows))

(* mark_sync_failure: the cursor stays; the error is not written if it is  *)
(* the one that was loaded.                                                *)
CommitFailure(w) ==
    /\ syncRun[w].pc = "failed" /\ Fits(syncRun[w].seen)
    /\ IF syncState = NoState
       THEN syncState' = [cursor |-> NoDay, success |-> NoDay, error |-> TRUE]
       ELSE \E error \in {TRUE} \cup (IF syncRun[w].seen.error THEN {syncState.error} ELSE {}) :
              syncState' = [syncState EXCEPT !.error = error]
    /\ syncRun' = [syncRun EXCEPT ![w] = AtRest]
    /\ UNCHANGED <<syncToday, published, stored, asked, syncErrors>>

(* The index refuses the new row: the whole run is rolled back.            *)
Refused(w) ==
    /\ syncRun[w].pc \in {"fetched", "failed"} /\ ~Fits(syncRun[w].seen)
    /\ syncRun' = [syncRun EXCEPT ![w] = AtRest]
    /\ UNCHANGED <<syncToday, published, stored, syncState, asked, syncErrors>>

(* The worker dies or the database does: nothing is committed.             *)
LoseRun(w) ==
    /\ syncRun[w] # AtRest /\ syncErrors < MaxSyncErrors
    /\ syncRun' = [syncRun EXCEPT ![w] = AtRest]
    /\ syncErrors' = syncErrors + 1
    /\ UNCHANGED <<syncToday, published, stored, syncState, asked>>

DataSyncNext ==
    \/ SyncNextDay
    \/ \E d \in SyncDay : Publish(d)
    \/ \E w \in SyncWorkers : \/ LoadState(w) \/ Fetch(w) \/ FetchFails(w) \/ CommitSync(w)
                              \/ CommitFailure(w) \/ Refused(w) \/ LoseRun(w)

DataSyncSpec == DataSyncInit /\ [][DataSyncNext]_syncVars

(* A run goes on to its end if nothing disturbs it. Nothing asks for one by *)
(* itself: syncs are started by people (integrations/router.py).           *)
DataSyncProgress(w) == Fetch(w) \/ CommitSync(w) \/ CommitFailure(w) \/ Refused(w)

----------------------------------------------------------------------------
(* The cursor stands for what is stored: no day up to it that has rows is  *)
(* missing, whichever runs overlap, fail and commit out of order - but for *)
(* days that were too old already when a sync without a cursor asked.      *)
TooOld(d) == d + Lag + Backfill < asked

NoGapBelowCursor ==
    (syncState.cursor # NoDay) => \A d \in published : d <= syncState.cursor => d \in stored \/ TooOld(d)

(* As long as somebody asks for a sync again and again, every final day    *)
(* that has rows is ingested in the end, or gets too old for a first sync. *)
SyncsAreAskedFor == []<>(\E w \in SyncWorkers : syncRun[w].pc = "loaded")

PublishedIsIngested ==
    SyncsAreAskedFor =>
        \A d \in 0 .. SyncDays - Lag :
            (d \in published) ~> (d \in stored \/ TooOld(d) \/ (syncState.cursor = NoDay /\ ~InWindow(d)))
=============================================================================
