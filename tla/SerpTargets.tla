----------------------------- MODULE SerpTargets -----------------------------
(***************************************************************************)
(* What is known of the Google results of one keyword of a site: the slots *)
(* of its latest snapshot, the slot targets people and snapshots set, and  *)
(* the opportunities generated from them (serp/service.py, serp/matrix.py, *)
(* serp/opportunities.py, serp/router.py, jobs/handlers/serp_snapshot.py,  *)
(* connectors/serp/slot_extractor.py). A request or run reads first, and   *)
(* commits only the columns it changed. A keyword shares nothing with      *)
(* another; its country, language and device are not part of a target.     *)
(***************************************************************************)
EXTENDS Naturals, FiniteSets, TLC

CONSTANTS
    SlotTypes,        \* of MATRIX_SLOT_TYPES
    Results,          \* what Google may show: slot type -> owners of its slots
    Urls, NoUrl,      \* pages of the site, and no page at all
    SerpTxns,         \* requests and runs open at a time
    MaxSerpRequests   \* bound: requests and runs begun

ASSUME SerpAssumption ==
    /\ SlotTypes \subseteq {"organic", "featured_snippet", "paa", "image", "video", "product", "ai_overview"}
    /\ \A r \in Results : r \in [SlotTypes -> SUBSET {"own", "competitor", "forum", "other"}]
    /\ NoUrl \notin Urls
    /\ MaxSerpRequests \in Nat

VARIABLES
    latest,       \* the snapshot of the latest captured_at: [captured, shows]
    target,       \* serp_slot_targets: slot type -> [status, owner]
    open,         \* open opportunities: [type, url] -> how many
    search,       \* Search Console and the assets of the keyword's best page
    saidStatus,   \* history: the slot types whose status a person set last
    serpTxn, serpBegun

serpVars == <<latest, target, open, search, saidStatus, serpTxn, serpBegun>>

NoSerpTxn     == [op |-> "none"]
NoTarget      == [status |-> "absent", owner |-> "available"]
Nothing       == [t \in SlotTypes |-> {}]
Manual        == {"blocked", "not_applicable"}
TargetStatus  == Manual \cup {"target", "achieved"}
CellStatus    == {"available", "owned", "competitor", "third_party", "blocked"}
GapTypes      == {"optimize_snippet", "add_faq", "add_image_asset", "add_video_asset", "add_schema"}
Keys          == GapTypes \X (Urls \cup {NoUrl})

SerpTypeOK ==
    /\ latest.captured \in 0 .. MaxSerpRequests /\ latest.shows \in Results \cup {Nothing}
    /\ \A t \in SlotTypes : target[t] = NoTarget \/ target[t] \in [status : TargetStatus, owner : CellStatus]
    /\ open \in [Keys -> 0 .. MaxSerpRequests]
    /\ search \in [url : Urls \cup {NoUrl}, striking : BOOLEAN, assets : SUBSET {"image", "video", "schema"}]
    /\ saidStatus \subseteq SlotTypes
    /\ \A x \in SerpTxns : serpTxn[x].op \in {"none", "snapshot", "patch", "generate"}
    /\ serpBegun \in 0 .. MaxSerpRequests

SerpInit ==
    /\ latest = [captured |-> 0, shows |-> Nothing]
    /\ target = [t \in SlotTypes |-> NoTarget]
    /\ open = [k \in Keys |-> 0]
    /\ search = [url |-> NoUrl, striking |-> FALSE, assets |-> {}]
    /\ saidStatus = {}
    /\ serpTxn = [x \in SerpTxns |-> NoSerpTxn] /\ serpBegun = 0

BeginSerp(x, txn) ==
    /\ serpTxn[x] = NoSerpTxn /\ serpBegun < MaxSerpRequests
    /\ serpBegun' = serpBegun + 1 /\ serpTxn' = [serpTxn EXCEPT ![x] = txn]
    /\ UNCHANGED <<latest, target, open, search, saidStatus>>

EndSerp(x) == serpTxn' = [serpTxn EXCEPT ![x] = NoSerpTxn] /\ UNCHANGED serpBegun

-----------------------------------------------------------------------------
(* extract_slots: questions and the AI overview have no URL and so no owner *)
(* (classify_url_owner).                                                   *)
OwnerOf(t, owner) == IF t \in {"paa", "ai_overview"} THEN "other" ELSE owner

(* slot_matrix_status. *)
SlotMatrixStatus(owner) ==
    CASE owner = "own"        -> "owned"
      [] owner = "competitor" -> "competitor"
      [] owner = "forum"      -> "third_party"
      [] owner = "other"      -> "blocked"

(* build_matrix_from_slots keeps one slot of a type, the last it was given; *)
(* the query of the slots has no order.                                    *)
Cell(shows, t) ==
    IF shows[t] = {} THEN {"available"} ELSE {SlotMatrixStatus(OwnerOf(t, o)) : o \in shows[t]}

Cells(shows) ==
    LET several == {t \in SlotTypes : Cardinality(Cell(shows, t)) > 1}
    IN  {[t \in SlotTypes |-> IF t \in several THEN c[t] ELSE CHOOSE only \in Cell(shows, t) : TRUE] :
            c \in {f \in [several -> CellStatus] : \A t \in several : f[t] \in Cell(shows, t)}}

TargetStatusFromMatrix(cell) == IF cell = "owned" THEN "achieved" ELSE "target"

(* Fault: what a person set is looked at for no more. *)
ShouldSyncAlways(status) == TRUE

ShouldSyncTargetStatus(status) == status \notin Manual

(* An organic result that is not there leaves its target as it is.         *)
LeftAlone(t, cell) == cell = "available" /\ t = "organic"

Synced(row, t, cell) ==
    IF LeftAlone(t, cell)
      THEN row
      ELSE [owner |-> cell,
            status |-> IF ShouldSyncTargetStatus(row.status) THEN TargetStatusFromMatrix(cell) ELSE row.status]

(* run_serp_snapshot: a snapshot of what Google shows, and the targets as  *)
(* they were read and as they are to be.                                   *)
BeginSerpSnapshot(x) ==
    \E r \in Results : \E cells \in Cells(r) :
        BeginSerp(x, [op |-> "snapshot", captured |-> serpBegun + 1, shows |-> r, read |-> target,
                      assigned |-> [t \in SlotTypes |-> Synced(target[t], t, cells[t])]])

IfDiffers(new, read, current) == IF new = read THEN current ELSE new

(* A target that another snapshot created in the meantime breaks            *)
(* uq_serp_slot_target_keyword_slot, and nothing of the snapshot remains.  *)
CommitSerpSnapshot(x) ==
    LET txn == serpTxn[x]
    IN  /\ txn.op = "snapshot"
        /\ \A t \in SlotTypes : txn.read[t] = NoTarget /\ txn.assigned[t] # NoTarget => target[t] = NoTarget
        /\ target' = [t \in SlotTypes |->
               [owner  |-> IfDiffers(txn.assigned[t].owner, txn.read[t].owner, target[t].owner),
                status |-> IfDiffers(txn.assigned[t].status, txn.read[t].status, target[t].status)]]
        /\ latest' = IF txn.captured > latest.captured
                       THEN [captured |-> txn.captured, shows |-> txn.shows] ELSE latest
        /\ saidStatus' = {t \in saidStatus : target'[t].status = target[t].status /\ target[t].status \in Manual}
        /\ EndSerp(x)
        /\ UNCHANGED <<open, search>>

(* update_slot_target: PATCH takes any status.                             *)
BeginSlotTarget(x) ==
    \E t \in SlotTypes, status \in TargetStatus :
        /\ target[t] # NoTarget
        /\ BeginSerp(x, [op |-> "patch", slot |-> t, status |-> status, read |-> target[t].status])

CommitSlotTarget(x) ==
    LET txn == serpTxn[x]
    IN  /\ txn.op = "patch"
        /\ target' = [target EXCEPT ![txn.slot].status = IfDiffers(txn.status, txn.read, @)]
        /\ saidStatus' = saidStatus \cup {txn.slot}
        /\ EndSerp(x)
        /\ UNCHANGED <<latest, open, search>>

-----------------------------------------------------------------------------
(* The rules OG-002, OG-007, OG-008 and OG-009 on the latest snapshot. No  *)
(* question has a URL, so that each counts as one without an answer.       *)
Gaps(cells) ==
    LET shown == {t \in SlotTypes : cells[t] # "available"}
    IN  {type \in GapTypes :
           CASE type = "optimize_snippet" -> /\ search.striking /\ "featured_snippet" \in shown
                                             /\ cells["featured_snippet"] # "owned"
             [] type = "add_faq"          -> "paa" \in shown
             [] type = "add_image_asset"  -> "image" \in shown /\ "image" \notin search.assets
             [] type = "add_video_asset"  -> "video" \in shown /\ "video" \notin search.assets
             [] type = "add_schema"       -> "product" \in shown /\ "schema" \notin search.assets}

(* _existing_opp_keys. *)
Seen(type) == open[<<type, search.url>>] > 0

BeginSerpOpportunities(x) ==
    /\ latest.captured > 0
    /\ \E cells \in Cells(latest.shows) :
         BeginSerp(x, [op |-> "generate", url |-> search.url,
                       types |-> {type \in Gaps(cells) : ~Seen(type)}])

CommitSerpOpportunities(x) ==
    LET txn == serpTxn[x]
    IN  /\ txn.op = "generate"
        /\ open' = [k \in Keys |-> open[k] + IF k[1] \in txn.types /\ k[2] = txn.url THEN 1 ELSE 0]
        /\ EndSerp(x)
        /\ UNCHANGED <<latest, target, search, saidStatus>>

(* Another part of the system accepts, dismisses or completes one.         *)
OpportunityCloses ==
    /\ \E k \in Keys : open[k] > 0 /\ open' = [open EXCEPT ![k] = @ - 1]
    /\ UNCHANGED <<latest, target, search, saidStatus, serpTxn, serpBegun>>

(* A sync of Search Console or of the assets: another page ranks best, the *)
(* keyword enters or leaves the positions 4 to 10 with many impressions.   *)
SearchMoves ==
    /\ \E url \in Urls, striking \in BOOLEAN, assets \in {{}, {"image", "video", "schema"}} :
         search' = [url |-> url, striking |-> striking, assets |-> assets]
    /\ UNCHANGED <<latest, target, open, saidStatus, serpTxn, serpBegun>>

(* The provider fails, a row exists already, or the database refuses.      *)
AbortSerp(x) ==
    /\ serpTxn[x] # NoSerpTxn /\ EndSerp(x)
    /\ UNCHANGED <<latest, target, open, search, saidStatus>>

SerpNext ==
    \/ \E x \in SerpTxns :
         \/ BeginSerpSnapshot(x) \/ CommitSerpSnapshot(x) \/ BeginSlotTarget(x) \/ CommitSlotTarget(x)
         \/ BeginSerpOpportunities(x) \/ CommitSerpOpportunities(x) \/ AbortSerp(x)
    \/ OpportunityCloses \/ SearchMoves

SerpSpec == SerpInit /\ [][SerpNext]_serpVars

-----------------------------------------------------------------------------
(* Runs and requests one after the other: a slot that counts as achieved   *)
(* (exposure/dashboard.py:96) is one where the latest snapshot shows the   *)
(* site itself, unless a person said so. Organic results are left out:     *)
(* when none is shown their target keeps what it said (serp/service.py:94). *)
AchievedIsShown ==
    \A t \in SlotTypes \ {"organic"} :
        target[t].status = "achieved" /\ t \notin saidStatus => "own" \in latest.shows[t]

(* ... a gap of a page is open once, whatever snapshots and searches say   *)
(* in between (serp/service.py:223).                                       *)
SerpGapsOnce == \A k \in Keys : open[k] <= 1

(* ... and a slot a person took out of the work, as blocked or not         *)
(* applicable, stays out until a person says otherwise ("Preserve user-set *)
(* statuses across snapshot syncs", serp/service.py:40).                   *)
SlotsAreKept ==
    [][/\ AchievedIsShown' /\ SerpGapsOnce'
       /\ \A t \in SlotTypes :
            target[t].status \in Manual /\ target'[t].status # target[t].status => t \in saidStatus']_serpVars
=============================================================================
