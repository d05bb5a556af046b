--------------------------- MODULE Platform_proofs ---------------------------
(***************************************************************************)
(* Proofs about the platform around the work of a site, for any number of  *)
(* requests, deliveries, sites and rows: what a Beat task reports, the end *)
(* of a workspace, circuit breakers, notifications, subscriptions, rate    *)
(* limits, and membership.                                                 *)
(***************************************************************************)
EXTENDS MCPlatform, OpsHealth_proofs, Counting, TLAPS

----------------------------------------------------------------------------
(* What a Beat task reports about the checks it enqueued.                  *)
(* The fields of a delivery that the argument reads.                       *)
Whole(b) == {"pc", "added", "counted", "broken"} \subseteq DOMAIN b

(* A session that can still commit counts only what is committed or what   *)
(* it will commit; a broken one is worth nothing, and never commits.       *)
Accounted(b) ==
    /\ b.counted \subseteq DueSites
    /\ b.pc = "at work" /\ ~b.broken => \A s \in b.counted : check[s] # NoCheck \/ s \in b.added
    /\ b.pc = "done" => \A s \in b.counted : check[s] # NoCheck

BooksAreKept ==
    /\ beat = [t \in BeatTasks |-> beat[t]]
    /\ check = [s \in DueSites |-> check[s]]
    /\ \A s \in DueSites : "status" \in DOMAIN check[s]
    /\ \A t \in BeatTasks : Whole(beat[t]) /\ Accounted(beat[t])

LEMMA SessionIsFresh ==
    ASSUME NEW pc, NEW tries, NEW order
    PROVE  /\ Whole(Session(pc, tries, order)) /\ Session(pc, tries, order).pc = pc
           /\ Session(pc, tries, order).counted = {}
BY DEF Whole, Session

LEMMA BooksInit == BeatInit => BooksAreKept
<1> SUFFICES ASSUME BeatInit PROVE BooksAreKept
  OBVIOUS
<1>1. \A t \in BeatTasks : Whole(beat[t]) /\ beat[t].counted = {}
  BY SessionIsFresh DEF BeatInit
<1> QED BY <1>1 DEF BeatInit, BooksAreKept, Accounted, NoCheck

(* A step of one delivery that commits nothing.                            *)
LEMMA OneDelivery ==
    ASSUME BooksAreKept, NEW t \in BeatTasks, NEW b, beat' = [beat EXCEPT ![t] = b],
           UNCHANGED check, Whole(b), Accounted(b)
    PROVE  BooksAreKept'
<1>1. \A u \in BeatTasks : beat'[u] = IF u = t THEN b ELSE beat[u]
  BY DEF BooksAreKept
<1>2. \A u \in BeatTasks : Whole(beat[u])' /\ Accounted(beat[u])'
  BY <1>1 DEF BooksAreKept, Accounted, Whole
<1> QED BY <1>2 DEF BooksAreKept

(* Runs that come or change, and none that goes.                           *)
LEMMA RunsStay ==
    ASSUME BooksAreKept, \A s \in DueSites : check[s] # NoCheck => check'[s] # NoCheck
    PROVE  \A t \in BeatTasks : beat'[t] = beat[t] => Accounted(beat[t])'
BY DEF BooksAreKept, Accounted

LEMMA BooksStep == BooksAreKept /\ [BeatNext]_beatVars => BooksAreKept'
<1> SUFFICES ASSUME BooksAreKept, [BeatNext]_beatVars PROVE BooksAreKept'
  OBVIOUS
<1>1. ASSUME NEW t \in BeatTasks, BeatStart(t) PROVE BooksAreKept'
  <2>1. PICK order : beat' = [beat EXCEPT ![t] = Session("at work", beat[t].tries, order)]
    BY <1>1 DEF BeatStart
  <2>2. PICK b : b = Session("at work", beat[t].tries, order)
    OBVIOUS
  <2>3. Whole(b) /\ b.pc = "at work" /\ b.counted = {}
    BY <2>2, SessionIsFresh
  <2> QED BY <1>1, <2>1, <2>2, <2>3, OneDelivery DEF BeatStart, Accounted
<1>2. ASSUME NEW t \in BeatTasks, NEW s \in DueSites, EnqueueExisting(t, s) PROVE BooksAreKept'
  <2>1. PICK b : b = [Tried(t) EXCEPT !.counted = @ \cup {s}]
    OBVIOUS
  <2>2. /\ Whole(b) /\ b.pc = beat[t].pc /\ b.added = beat[t].added /\ b.broken = beat[t].broken
        /\ b.counted = beat[t].counted \cup {s}
    BY <2>1 DEF BooksAreKept, Whole, Tried
  <2>3. Accounted(b)
    BY <1>2, <2>2 DEF EnqueueExisting, Turn, BooksAreKept, Accounted
  <2> QED BY <1>2, <2>1, <2>2, <2>3, OneDelivery DEF EnqueueExisting
<1>3. ASSUME NEW t \in BeatTasks, NEW s \in DueSites, EnqueueFailed(t, s) PROVE BooksAreKept'
  <2>1. PICK b : /\ beat' = [beat EXCEPT ![t] = b]
                 /\ \/ b = [Tried(t) EXCEPT !.requeued = @ \cup {s}, !.counted = @ \cup {s}]
                    \/ b = [Tried(t) EXCEPT !.requeued = @ \cup {s}]
    BY <1>3 DEF EnqueueFailed
  <2>2. /\ Whole(b) /\ b.pc = beat[t].pc /\ b.added = beat[t].added /\ b.broken = beat[t].broken
        /\ b.counted = beat[t].counted \cup {s} \/ b.counted = beat[t].counted
    BY <2>1 DEF BooksAreKept, Whole, Tried
  <2>3. Accounted(b)
    BY <1>3, <2>2 DEF EnqueueFailed, Turn, BooksAreKept, Accounted
  <2> QED BY <1>3, <2>1, <2>2, <2>3, OneDelivery DEF EnqueueFailed
<1>4. ASSUME NEW t \in BeatTasks, NEW s \in DueSites, EnqueueNew(t, s) PROVE BooksAreKept'
  <2>1. PICK b : /\ beat' = [beat EXCEPT ![t] = b]
                 /\ \/ b = [Tried(t) EXCEPT !.added = @ \cup {s}, !.counted = @ \cup {s}]
                    \/ b = [Tried(t) EXCEPT !.added = @ \cup {s}]
    BY <1>4 DEF EnqueueNew
  <2>2. /\ Whole(b) /\ b.pc = beat[t].pc /\ b.broken = beat[t].broken
        /\ b.added = beat[t].added \cup {s}
        /\ b.counted = beat[t].counted \cup {s} \/ b.counted = beat[t].counted
    BY <2>1 DEF BooksAreKept, Whole, Tried
  <2>3. Accounted(b)
    BY <1>4, <2>2 DEF EnqueueNew, Turn, BooksAreKept, Accounted
  <2> QED BY <1>4, <2>1, <2>2, <2>3, OneDelivery DEF EnqueueNew
<1>5. ASSUME NEW t \in BeatTasks, NEW s \in DueSites, EnqueueRefused(t, s) PROVE BooksAreKept'
  <2>1. PICK b : b = [Tried(t) EXCEPT !.added = {}, !.requeued = {}, !.broken = TRUE]
    OBVIOUS
  <2>2. Whole(b) /\ b.pc = "at work" /\ b.broken = TRUE /\ b.counted = beat[t].counted
    BY <1>5, <2>1 DEF BooksAreKept, Whole, Tried, EnqueueRefused, Turn
  <2>3. Accounted(b)
    BY <2>2 DEF BooksAreKept, Accounted
  <2> QED BY <1>5, <2>1, <2>2, <2>3, OneDelivery DEF EnqueueRefused
<1>6. ASSUME NEW t \in BeatTasks, NEW s \in DueSites, EnqueueSkipped(t, s) PROVE BooksAreKept'
  <2>1. PICK b : b = Tried(t)
    OBVIOUS
  <2>2. /\ Whole(b) /\ b.pc = beat[t].pc /\ b.added = beat[t].added /\ b.broken = beat[t].broken
        /\ b.counted = beat[t].counted
    BY <2>1 DEF BooksAreKept, Whole, Tried
  <2>3. Accounted(b)
    BY <2>2 DEF BooksAreKept, Accounted
  <2> QED BY <1>6, <2>1, <2>2, <2>3, OneDelivery DEF EnqueueSkipped
<1>7. ASSUME NEW t \in BeatTasks, CommitBeat(t) PROVE BooksAreKept'
  <2>1. /\ check' = [s \in DueSites |->
                       IF s \in beat[t].added    THEN [id |-> Self(t), status |-> "queued"]
                  ELSE IF s \in beat[t].requeued THEN [check[s] EXCEPT !.status = "queued"]
                  ELSE check[s]]
        /\ beat' = [beat EXCEPT ![t].pc = "done", ![t].added = {}, ![t].requeued = {}]
        /\ beat[t].pc = "at work" /\ ~beat[t].broken
    BY <1>7 DEF CommitBeat
  <2>2. \A s \in DueSites :
          /\ "status" \in DOMAIN check'[s]
          /\ check[s] # NoCheck \/ s \in beat[t].added => check'[s] # NoCheck
    BY <2>1 DEF BooksAreKept, NoCheck
  <2>3. /\ Whole(beat'[t]) /\ beat'[t].pc = "done" /\ beat'[t].counted = beat[t].counted
        /\ \A u \in BeatTasks : u # t => beat'[u] = beat[u]
    BY <2>1 DEF BooksAreKept, Whole
  <2>4. Accounted(beat[t])'
    BY <2>1, <2>2, <2>3 DEF BooksAreKept, Accounted
  <2>5. \A u \in BeatTasks : Whole(beat'[u]) /\ Accounted(beat[u])'
    BY <2>2, <2>3, <2>4, RunsStay DEF BooksAreKept
  <2>6. beat' = [u \in BeatTasks |-> beat'[u]] /\ check' = [s \in DueSites |-> check'[s]]
    BY <2>1 DEF BooksAreKept
  <2> QED BY <2>2, <2>5, <2>6 DEF BooksAreKept, Whole
<1>8. ASSUME NEW t \in BeatTasks, BeatFails(t) PROVE BooksAreKept'
  <2>1. PICK pc \in {"idle", "given up"} : \E tries : beat' = [beat EXCEPT ![t] = Session(pc, tries, <<>>)]
    BY <1>8 DEF BeatFails
  <2>2. PICK tries : beat' = [beat EXCEPT ![t] = Session(pc, tries, <<>>)]
    BY <2>1
  <2>3. PICK b : b = Session(pc, tries, <<>>)
    OBVIOUS
  <2>4. Whole(b) /\ b.pc = pc /\ b.counted = {}
    BY <2>3, SessionIsFresh
  <2> QED BY <1>8, <2>2, <2>3, <2>4, OneDelivery DEF BeatFails, Accounted
<1>9. ASSUME NEW m \in message, ReceiveCheck(m) PROVE BooksAreKept'
  <2>1. PICK ended \in {"succeeded", "failed"} :
          beat' = beat /\ (check' = check \/ check' = [check EXCEPT ![m.site].status = ended])
    BY <1>9 DEF ReceiveCheck
  <2>2. \A s \in DueSites :
          /\ "status" \in DOMAIN check'[s]
          /\ check[s] # NoCheck => check'[s] # NoCheck
    BY <2>1 DEF BooksAreKept, NoCheck
  <2>3. \A t \in BeatTasks : Accounted(beat[t])'
    BY <2>1, <2>2, RunsStay
  <2>4. check' = [s \in DueSites |-> check'[s]]
    BY <2>1 DEF BooksAreKept
  <2> QED BY <2>1, <2>2, <2>3, <2>4 DEF BooksAreKept
<1>10. CASE UNCHANGED beatVars
  BY <1>10 DEF beatVars, BooksAreKept, Accounted
<1> QED BY <1>1, <1>2, <1>3, <1>4, <1>5, <1>6, <1>7, <1>8, <1>9, <1>10 DEF BeatNext

THEOREM BooksAlwaysKept == BeatSpec => []BooksAreKept
BY BooksInit, BooksStep, PTL DEF BeatSpec

(* A Beat task that ended well has a committed run for every site it says  *)
(* it enqueued a check for (jobs/tasks.py), whatever the database refused  *)
(* and however often the task was delivered.                               *)
THEOREM CountedAlwaysThere == BeatSpec => []CountedIsThere
<1>1. BooksAreKept => CountedIsThere
  BY DEF BooksAreKept, Accounted, CountedIsThere
<1> QED BY <1>1, BooksAlwaysKept, PTL

----------------------------------------------------------------------------
(* The data of a workspace, with requests that overlap or not.             *)
Credential == [status : {"absent", "active", "revoked", "purged"}, secret : BOOLEAN]

WsTyped == WsTypeOK /\ wsTxn = [t \in WsTxns |-> wsTxn[t]]

LEMMA WsTypedInit == WsInit => WsTyped
BY WsAssumption DEF WsInit, WsTyped, WsTypeOK, NoCredential, NoWsTxn, Seat

LEMMA BeginWsTyped ==
    ASSUME WsTyped, NEW t \in WsTxns, NEW o, NEW roles, NEW txn, BeginWs(t, o, roles, txn),
           txn.op \in {"delete", "purge", "rotate", "store", "role", "transfer"}
    PROVE  WsTyped'
<1>1. wsTxn' = [wsTxn EXCEPT ![t] = txn] /\ wsTxn = [u \in WsTxns |-> wsTxn[u]]
  BY DEF BeginWs, WsTyped
<1>2. wsTxn' = [u \in WsTxns |-> wsTxn'[u]] /\ \A u \in WsTxns : wsTxn'[u] = IF u = t THEN txn ELSE wsTxn[u]
  BY <1>1
<1>3. wsBegun' \in 0 .. MaxWsRequests
  BY WsAssumption DEF BeginWs, WsTyped, WsTypeOK
<1>4. beside' \subseteq WsTxns
  BY DEF BeginWs, Underway
<1>5. \A u \in WsTxns : wsTxn'[u].op \in {"none", "delete", "purge", "rotate", "store", "role", "transfer"}
  BY <1>2 DEF WsTyped, WsTypeOK
<1> QED
  BY <1>2, <1>3, <1>4, <1>5 DEF BeginWs, WsTyped, WsTypeOK

LEMMA EndWsTyped ==
    ASSUME WsTyped, NEW t \in WsTxns, EndWs(t),
           seat' \in [Members -> Seat],
           deletion' \in {"active", "pending_deletion", "purged"},
           workspace' \in {"active", "pending_deletion", "deleted"},
           credential' \in [CredentialNames -> Credential]
    PROVE  WsTyped'
<1>1. /\ wsTxn' = [wsTxn EXCEPT ![t] = NoWsTxn] /\ wsTxn = [u \in WsTxns |-> wsTxn[u]] /\ wsBegun' = wsBegun
      /\ beside' \subseteq WsTxns
  BY DEF EndWs, WsTyped, WsTypeOK
<1>2. wsTxn' = [u \in WsTxns |-> wsTxn'[u]] /\ \A u \in WsTxns : wsTxn'[u] = IF u = t THEN NoWsTxn ELSE wsTxn[u]
  BY <1>1
<1>3. \A u \in WsTxns : wsTxn'[u].op \in {"none", "delete", "purge", "rotate", "store", "role", "transfer"}
  BY <1>2 DEF WsTyped, WsTypeOK, NoWsTxn
<1> QED
  BY <1>1, <1>2, <1>3 DEF WsTyped, WsTypeOK, Credential

----------------------------------------------------------------------------
(* A request that nothing was open beside is the only one, and still has   *)
(* the ground it began on: the owner who asks for the deletion is an owner *)
(* still, and what is rotated has its secret.                              *)
Grounded(t) ==
    /\ wsTxn[t].op = "delete" =>
          wsTxn[t].by \in Members /\ seat[wsTxn[t].by].status = "active" /\ seat[wsTxn[t].by].role = "owner"
    /\ wsTxn[t].op = "rotate" =>
          wsTxn[t].name \in CredentialNames /\ credential[wsTxn[t].name].secret

Orderly ==
    /\ WsTyped
    /\ \A t, u \in Underway : t # u => t \in beside
    /\ \A t \in Underway : t \notin beside => Grounded(t)

FinalStep ==
    /\ (PurgeIsPossible /\ ~PurgeIsPossible') =>
          \E t \in WsTxns :
             /\ Ends(t)
             /\ wsTxn[t].op \in {"role", "transfer"} \/ (wsTxn[t].op = "delete" /\ t \in beside)
    /\ \A n \in CredentialNames :
          (credential[n] # NoCredential /\ ~credential[n].secret /\ credential'[n].secret) =>
             \E t \in WsTxns :
                Ends(t) /\ wsTxn[t].op = "rotate" /\ wsTxn[t].name = n /\ t \in beside

LEMMA OrderlyInit == WsInit => Orderly
BY WsTypedInit DEF WsInit, Orderly, Underway, NoWsTxn

(* A request that begins only reads; what is open then is no longer alone. *)
LEMMA BeginOrderly ==
    ASSUME Orderly, NEW t \in WsTxns, NEW o, NEW roles, NEW request, BeginWs(t, o, roles, request),
           request.op \in {"delete", "purge", "rotate", "store", "role", "transfer"},
           request.op = "delete" =>
              request.by \in Members /\ seat[request.by].status = "active" /\ seat[request.by].role = "owner",
           request.op = "rotate" => request.name \in CredentialNames /\ credential[request.name].secret
    PROVE  Orderly' /\ FinalStep
<1>1. /\ UNCHANGED <<seat, deletion, credential>> /\ wsTxn[t] = NoWsTxn
      /\ wsTxn' = [wsTxn EXCEPT ![t] = request] /\ wsTxn = [u \in WsTxns |-> wsTxn[u]]
      /\ beside' = IF Underway = {} THEN {} ELSE Underway \cup {t}
  BY DEF BeginWs, Orderly, WsTyped
<1>2. wsTxn'[t] = request /\ \A u \in WsTxns \ {t} : wsTxn'[u] = wsTxn[u]
  BY <1>1
<1>3. Underway' = Underway \cup {t} /\ t \notin Underway
  BY <1>1, <1>2 DEF Underway, NoWsTxn
<1>4. \A u, v \in Underway' : u # v => u \in beside'
  BY <1>1, <1>3
<1>5. \A u \in Underway' : u \notin beside' => Grounded(u)'
  <2> SUFFICES ASSUME NEW u \in Underway', u \notin beside' PROVE Grounded(u)'
    OBVIOUS
  <2>1. u = t
    BY <1>1, <1>3
  <2> QED BY <1>1, <1>2, <2>1 DEF Grounded
<1>6. WsTyped'
  BY BeginWsTyped DEF Orderly
<1>7. FinalStep
  <2>1. PurgeIsPossible' = PurgeIsPossible
    BY <1>1 DEF PurgeIsPossible
  <2> QED BY <1>1, <2>1 DEF FinalStep
<1> QED BY <1>4, <1>5, <1>6, <1>7 DEF Orderly

(* A request that ends leaves the others as they were: not alone.          *)
LEMMA EndOrderly ==
    ASSUME Orderly, NEW t \in WsTxns, wsTxn[t].op # "none", EndWs(t), WsTyped'
    PROVE  Orderly' /\ Ends(t)
<1>1. /\ wsTxn' = [wsTxn EXCEPT ![t] = NoWsTxn] /\ wsTxn = [u \in WsTxns |-> wsTxn[u]]
      /\ beside' = beside \ {t}
  BY DEF EndWs, Orderly, WsTyped
<1>2. wsTxn'[t] = NoWsTxn /\ \A u \in WsTxns \ {t} : wsTxn'[u] = wsTxn[u]
  BY <1>1
<1>3. Underway' = Underway \ {t} /\ t \in Underway
  BY <1>2 DEF Underway, NoWsTxn
<1>4. \A u, v \in Underway : u # v => u \in beside
  BY DEF Orderly
<1>5. \A u \in Underway' : u \in beside'
  BY <1>1, <1>3, <1>4
<1>6. Ends(t)
  BY <1>2 DEF Ends, NoWsTxn
<1> QED BY <1>5, <1>6 DEF Orderly

LEMMA OrderlyStep ==
    ASSUME Orderly, [WsNext]_wsVars
    PROVE  Orderly' /\ FinalStep
<1>0. /\ seat \in [Members -> Seat]
      /\ deletion \in {"active", "pending_deletion", "purged"}
      /\ workspace \in {"active", "pending_deletion", "deleted"}
      /\ credential \in [CredentialNames -> Credential]
      /\ WsTyped
  BY DEF Orderly, WsTyped, WsTypeOK, Credential
<1>1. ASSUME NEW t \in WsTxns, NEW o \in Members, BeginDeletion(t, o) PROVE Orderly' /\ FinalStep
  <2>1. PICK request : request = [op |-> "delete", by |-> o, deletion |-> deletion, workspace |-> workspace]
    OBVIOUS
  <2>2. BeginWs(t, o, {"owner"}, request) /\ seat[o].status = "active" /\ seat[o].role = "owner"
    BY <1>1, <2>1 DEF BeginDeletion, BeginWs
  <2>3. request.op = "delete" /\ request.by = o
    BY <2>1
  <2> QED BY <2>2, <2>3, BeginOrderly
<1>2. ASSUME NEW t \in WsTxns, NEW o \in Members, BeginPurge(t, o) PROVE Orderly' /\ FinalStep
  <2>1. PICK request : request = [op |-> "purge", workspace |-> workspace]
    OBVIOUS
  <2>2. BeginWs(t, o, {"owner"}, request) /\ request.op = "purge"
    BY <1>2, <2>1 DEF BeginPurge
  <2> QED BY <2>2, BeginOrderly
<1>3. ASSUME NEW t \in WsTxns, NEW o \in Members, BeginHandover(t, o) PROVE Orderly' /\ FinalStep
  <2>1. PICK request : request = [op |-> "transfer"]
    OBVIOUS
  <2>2. BeginWs(t, o, {"owner"}, request) /\ request.op = "transfer"
    BY <1>3, <2>1 DEF BeginHandover
  <2> QED BY <2>2, BeginOrderly
<1>4. ASSUME NEW t \in WsTxns, NEW o \in Members, NEW p \in Members, BeginSeatRole(t, o, p)
      PROVE  Orderly' /\ FinalStep
  <2>1. PICK request : request = [op |-> "role", of |-> p, role |-> seat[p].role]
    OBVIOUS
  <2>2. BeginWs(t, o, Managers, request) /\ request.op = "role"
    BY <1>4, <2>1 DEF BeginSeatRole
  <2> QED BY <2>2, BeginOrderly
<1>5. ASSUME NEW t \in WsTxns, NEW o \in Members, NEW n \in CredentialNames, BeginStore(t, o, n)
      PROVE  Orderly' /\ FinalStep
  <2>1. PICK request : request = [op |-> "store", name |-> n]
    OBVIOUS
  <2>2. BeginWs(t, o, Managers, request) /\ request.op = "store"
    BY <1>5, <2>1 DEF BeginStore
  <2> QED BY <2>2, BeginOrderly
<1>6. ASSUME NEW t \in WsTxns, NEW o \in Members, NEW n \in CredentialNames, BeginRotate(t, o, n)
      PROVE  Orderly' /\ FinalStep
  <2>1. PICK request : request = [op |-> "rotate", name |-> n]
    OBVIOUS
  <2>2. BeginWs(t, o, Managers, request) /\ credential[n].secret
    BY <1>6, <2>1 DEF BeginRotate
  <2>3. request.op = "rotate" /\ request.name = n
    BY <2>1
  <2> QED BY <2>2, <2>3, BeginOrderly
<1>7. ASSUME NEW t \in WsTxns, RequestWorkspaceDeletion(t) PROVE Orderly' /\ FinalStep
  <2>1. /\ seat' = [p \in Members |->
                     IF p = wsTxn[t].by THEN seat[p] ELSE [seat[p] EXCEPT !.status = "revoked"]]
        /\ credential' = [n \in CredentialNames |->
                            IF credential[n] = NoCredential THEN NoCredential
                                                            ELSE [credential[n] EXCEPT !.status = "revoked"]]
        /\ EndWs(t) /\ wsTxn[t].op = "delete"
    BY <1>7 DEF RequestWorkspaceDeletion, Remains
  <2>2. deletion' \in {"active", "pending_deletion", "purged"} /\ workspace' \in {"active", "pending_deletion", "deleted"}
    BY <1>0, <1>7 DEF RequestWorkspaceDeletion, IfChanged
  <2>3. seat' \in [Members -> Seat]
    BY <1>0, <2>1 DEF Seat
  <2>4. credential' \in [CredentialNames -> Credential]
    BY <1>0, <2>1 DEF Credential, NoCredential
  <2>5. Orderly' /\ Ends(t)
    BY <1>0, <2>1, <2>2, <2>3, <2>4, EndWsTyped, EndOrderly
  <2>6. t \in beside \/ PurgeIsPossible'
    <3> SUFFICES ASSUME t \notin beside PROVE PurgeIsPossible'
      OBVIOUS
    <3>1. Grounded(t)
      BY <2>1 DEF Orderly, Underway
    <3>2. PICK o : o = wsTxn[t].by
      OBVIOUS
    <3>3. o \in Members /\ seat[o].status = "active" /\ seat[o].role = "owner"
      BY <2>1, <3>1, <3>2 DEF Grounded
    <3>4. seat'[o] = seat[o]
      BY <2>1, <3>2, <3>3
    <3> QED BY <3>3, <3>4 DEF PurgeIsPossible
  <2>7. \A n \in CredentialNames : ~credential[n].secret => ~credential'[n].secret
    BY <1>0, <2>1 DEF Credential, NoCredential
  <2> QED BY <2>1, <2>5, <2>6, <2>7 DEF FinalStep
<1>8. ASSUME NEW t \in WsTxns, PurgeWorkspaceData(t) PROVE Orderly' /\ FinalStep
  <2>1. /\ credential' = [n \in CredentialNames |->
                            IF credential[n] = NoCredential THEN NoCredential
                                                            ELSE [status |-> "purged", secret |-> FALSE]]
        /\ deletion' = "purged" /\ seat' = seat /\ EndWs(t) /\ wsTxn[t].op = "purge"
    BY <1>8 DEF PurgeWorkspaceData
  <2>2. workspace' \in {"active", "pending_deletion", "deleted"}
    BY <1>0, <1>8 DEF PurgeWorkspaceData, IfChanged
  <2>3. credential' \in [CredentialNames -> Credential] /\ \A n \in CredentialNames : ~credential'[n].secret
    BY <2>1 DEF Credential, NoCredential
  <2>4. Orderly'
    BY <1>0, <2>1, <2>2, <2>3, EndWsTyped, EndOrderly
  <2>5. PurgeIsPossible'
    BY <2>1 DEF PurgeIsPossible
  <2> QED BY <2>3, <2>4, <2>5 DEF FinalStep
<1>9. ASSUME NEW t \in WsTxns, NEW role \in WsRoles, UpdateMemberRole(t, role) PROVE Orderly' /\ FinalStep
  <2>1. /\ seat' = [seat EXCEPT ![wsTxn[t].of].role = IfChanged(role, wsTxn[t].role, @)]
        /\ UNCHANGED <<deletion, workspace, credential>> /\ EndWs(t) /\ wsTxn[t].op = "role"
    BY <1>9 DEF UpdateMemberRole
  <2>2. seat' \in [Members -> Seat]
    BY <1>0, <2>1 DEF Seat, IfChanged
  <2>3. Orderly' /\ Ends(t)
    BY <1>0, <2>1, <2>2, EndWsTyped, EndOrderly
  <2> QED BY <2>1, <2>3 DEF FinalStep
<1>10. ASSUME NEW t \in WsTxns, TransferWorkspace(t) PROVE Orderly' /\ FinalStep
  <2>1. /\ seat' = [p \in Members |-> [seat[p] EXCEPT !.status = "revoked"]]
        /\ UNCHANGED <<deletion, workspace, credential>> /\ EndWs(t) /\ wsTxn[t].op = "transfer"
    BY <1>10 DEF TransferWorkspace
  <2>2. seat' \in [Members -> Seat]
    BY <1>0, <2>1 DEF Seat
  <2>3. Orderly' /\ Ends(t)
    BY <1>0, <2>1, <2>2, EndWsTyped, EndOrderly
  <2> QED BY <2>1, <2>3 DEF FinalStep
<1>11. ASSUME NEW t \in WsTxns, StoreIntegrationCredential(t) PROVE Orderly' /\ FinalStep
  <2>1. /\ credential' = IF credential[wsTxn[t].name] = NoCredential
                           THEN [credential EXCEPT ![wsTxn[t].name] = [status |-> "active", secret |-> TRUE]]
                           ELSE credential
        /\ UNCHANGED <<seat, deletion, workspace>> /\ EndWs(t) /\ wsTxn[t].op = "store"
    BY <1>11 DEF StoreIntegrationCredential
  <2>2. credential' \in [CredentialNames -> Credential]
    BY <1>0, <2>1 DEF Credential
  <2>3. \A n \in CredentialNames : credential[n] # NoCredential => credential'[n] = credential[n]
    BY <1>0, <2>1
  <2>4. Orderly'
    BY <1>0, <2>1, <2>2, EndWsTyped, EndOrderly
  <2>5. PurgeIsPossible' = PurgeIsPossible
    BY <2>1 DEF PurgeIsPossible
  <2> QED BY <2>3, <2>4, <2>5 DEF FinalStep
<1>12. ASSUME NEW t \in WsTxns, RotateIntegrationCredential(t) PROVE Orderly' /\ FinalStep
  <2>1. /\ credential' = [credential EXCEPT ![wsTxn[t].name].secret = TRUE]
        /\ UNCHANGED <<seat, deletion, workspace>> /\ EndWs(t) /\ wsTxn[t].op = "rotate"
    BY <1>12 DEF RotateIntegrationCredential
  <2>2. credential' \in [CredentialNames -> Credential]
    BY <1>0, <2>1 DEF Credential
  <2>3. Orderly' /\ Ends(t)
    BY <1>0, <2>1, <2>2, EndWsTyped, EndOrderly
  <2>4. PurgeIsPossible' = PurgeIsPossible
    BY <2>1 DEF PurgeIsPossible
  <2>5. ASSUME NEW n \in CredentialNames, ~credential[n].secret, credential'[n].secret
        PROVE  wsTxn[t].name = n /\ t \in beside
    <3>1. wsTxn[t].name = n
      BY <1>0, <2>1, <2>5
    <3>2. ~Grounded(t)
      BY <2>1, <2>5, <3>1 DEF Grounded
    <3> QED BY <2>1, <3>1, <3>2 DEF Orderly, Underway
  <2> QED BY <2>1, <2>3, <2>4, <2>5 DEF FinalStep
<1>13. ASSUME NEW t \in WsTxns, AbortWs(t) PROVE Orderly' /\ FinalStep
  <2>1. UNCHANGED <<seat, deletion, workspace, credential>> /\ EndWs(t) /\ wsTxn[t].op # "none"
    BY <1>13 DEF AbortWs
  <2>2. Orderly'
    BY <1>0, <2>1, EndWsTyped, EndOrderly
  <2>3. PurgeIsPossible' = PurgeIsPossible
    BY <2>1 DEF PurgeIsPossible
  <2> QED BY <2>1, <2>2, <2>3 DEF FinalStep
<1>14. CASE UNCHANGED wsVars
  <2>1. Orderly'
    BY <1>14 DEF wsVars, Orderly, WsTyped, WsTypeOK, Grounded, Underway
  <2> QED BY <1>14, <2>1 DEF wsVars, PurgeIsPossible, FinalStep
<1> QED
  BY <1>1, <1>2, <1>3, <1>4, <1>5, <1>6, <1>7, <1>8, <1>9, <1>10, <1>11, <1>12, <1>13, <1>14 DEF WsNext

(* Whatever requests overlap: only a change of roles, a transfer or        *)
(* deletions asked for at once leave a workspace that waits for its        *)
(* deletion with nobody who can purge it, and only a rotation that began   *)
(* before the purge brings a purged secret back                            *)
(* (security/data_deletion.py, credential_rotation.py).                    *)
THEOREM DeletionStaysFinal == WsSpec => DeletionIsFinal
<1>1. Orderly /\ [WsNext]_wsVars => Orderly' /\ [FinalStep]_wsVars
  BY OrderlyStep
<1>2. WsSpec => [][FinalStep]_wsVars
  BY <1>1, OrderlyInit, PTL DEF WsSpec
<1> QED BY <1>2 DEF DeletionIsFinal, FinalStep
----------------------------------------------------------------------------
(* The circuit breaker: while a call is under way its process has failures *)
(* to go before the circuit opens, and an open circuit has just as many as *)
(* it takes.                                                               *)
CircuitShape ==
    circuit \in [Processes -> [failures : 0 .. FAILURE_THRESHOLD, opened : BOOLEAN, at : Nat]]

BreakerIInv == second \in Nat /\ calling \subseteq Processes /\ CircuitShape /\ NoCallInOpenCircuit

LEMMA BreakerStep == BreakerIInv /\ [BreakerNext]_breakerVars => BreakerIInv'
<1> SUFFICES ASSUME BreakerIInv, [BreakerNext]_breakerVars PROVE BreakerIInv'
  OBVIOUS
<1> USE BreakerAssumption DEF BreakerIInv, CircuitShape, NoCallInOpenCircuit
<1>1. CASE BreakerTick
  BY <1>1 DEF BreakerTick
<1>2. ASSUME NEW p \in Processes, CallProvider(p) PROVE BreakerIInv'
  BY <1>2 DEF CallProvider, Closed
<1>3. ASSUME NEW p \in Processes, ProviderAnswers(p) PROVE BreakerIInv'
  BY <1>3 DEF ProviderAnswers, Closed
<1>4. ASSUME NEW p \in Processes, ProviderFails(p) PROVE BreakerIInv'
  <2>1. ~circuit[p].opened /\ circuit[p].failures + 1 \in 0 .. FAILURE_THRESHOLD
    BY <1>4 DEF ProviderFails
  <2> QED
    BY <1>4, <2>1 DEF ProviderFails
<1>5. ASSUME NEW p \in Processes, CallEndsUntold(p) \/ ProcessRestarts(p) PROVE BreakerIInv'
  <2>1. CASE CallEndsUntold(p)
    BY <2>1 DEF CallEndsUntold
  <2>2. CASE ProcessRestarts(p)
    BY <2>2 DEF ProcessRestarts, Closed
  <2> QED
    BY <1>5, <2>1, <2>2
<1>6. CASE UNCHANGED breakerVars
  BY <1>6 DEF breakerVars
<1> QED
  BY <1>1, <1>2, <1>3, <1>4, <1>5, <1>6 DEF BreakerNext

LEMMA BreakerBegins == BreakerInit => BreakerIInv
BY BreakerAssumption DEF BreakerInit, BreakerIInv, CircuitShape, NoCallInOpenCircuit, Closed

(* A process asks a provider that fails FAILURE_THRESHOLD times and no     *)
(* more until the circuit has been open for OPEN_SECONDS (reliability/     *)
(* circuit_breaker.py:39, gsc_sync.py): no call is under way in an open    *)
(* circuit, however calls end and processes restart.                       *)
THEOREM OpenCircuitIsQuiet == BreakerSpec => []NoCallInOpenCircuit
<1>1. BreakerIInv => NoCallInOpenCircuit
  BY DEF BreakerIInv
<1> QED
  BY <1>1, BreakerBegins, BreakerStep, PTL DEF BreakerSpec

----------------------------------------------------------------------------
(* Notifications. A number tells a notification from all others, those     *)
(* included that a transaction has yet to commit.                          *)
Note    == [id : Nat, what : Content, at : Nat, looked : Nat, status : {"unread", "read"}]
Teller  == [pc : {"known", "new"}, what : Content, at : Nat, looked : Nat, id : Nat]
Begun   == [pc : {"begun"}, at : Nat]
Telling == {x \in Notifiers : notifier[x].pc \in {"known", "new"}}

NoteShape ==
    /\ hour \in Nat /\ told \in Nat
    /\ notes \subseteq Note
    /\ notifier \in [Notifiers -> Teller \cup Begun \cup {Silent}]
    /\ \A x \in Notifiers : notifier[x].pc = "begun" => notifier[x].at <= hour
    /\ \A n \in notes : n.id <= told /\ n.at <= n.looked /\ n.looked <= hour
    /\ \A m, n \in notes : m.id = n.id => m = n
    /\ \A x \in Telling : /\ notifier[x].at <= notifier[x].looked /\ notifier[x].looked <= hour
                          /\ notifier[x].id <= told
                          /\ \A n \in notes : n.id # notifier[x].id
                          /\ \A y \in Telling : notifier[y].id = notifier[x].id => x = y

(* News that is kept quiet was told by a notification that is committed.   *)
Told(what, at) ==
    \E n \in notes : SameKind(n.what, what) /\ n.at <= at /\ at <= n.at + DedupeHours[what.type]

Heard(what, at) ==
    \E n \in notes : /\ SameKind(n.what, what) /\ n.at <= at
                     /\ n.looked = at \/ at <= n.at + DedupeHours[what.type]

QuietIsTold ==
    /\ \A e \in news : Heard(e.what, e.at)
    /\ \A x \in Telling : notifier[x].pc = "known" => Told(notifier[x].what, notifier[x].looked)

(* All notifications, committed or to be, and those of a kind whose        *)
(* transactions lie within a window that starts at some hour.              *)
Gist(n) == [id |-> n.id, what |-> n.what, at |-> n.at, looked |-> n.looked]
Pending == {x \in Telling : notifier[x].pc = "new"}
Gists   == {Gist(n) : n \in notes} \cup {Gist(notifier[x]) : x \in Pending}

Repeat(m, what, from) ==
    SameKind(m.what, what) /\ from <= m.at /\ m.looked <= from + DedupeHours[what.type]
Repeats(what, from) == {m \in Gists : Repeat(m, what, from)}

Few(S) == IsFiniteSet(S) /\ Cardinality(S) <= Cardinality(Notifiers)

RepeatsAreFew == \A what \in Content, from \in Nat : Few(Repeats(what, from))

NewsIInv == NoteShape /\ QuietIsTold /\ RepeatsAreFew

LEMMA DedupeIsNumber == \A what \in Content : DedupeHours[what.type] \in Nat
BY NotificationsAssumption DEF Content, Types

LEMMA FewerAreFew ==
    ASSUME NEW S, NEW T, Few(S), T \subseteq S
    PROVE  Few(T)
<1>1. IsFiniteSet(T) /\ Cardinality(T) <= Cardinality(S)
  BY FS_Subset DEF Few
<1>2. Cardinality(T) \in Nat /\ Cardinality(S) \in Nat /\ Cardinality(Notifiers) \in Nat
  BY <1>1, NotificationsAssumption, FS_CardinalityType DEF Few
<1> QED
  BY <1>1, <1>2 DEF Few

(* Transactions that are open have no more notifications than there are    *)
(* transactions.                                                           *)
LEMMA OpenAreFew ==
    ASSUME NEW S \in SUBSET Notifiers, NEW t
    PROVE  Few({Gist(t[x]) : x \in S})
<1> DEFINE f == [x \in S |-> Gist(t[x])]
           T == {Gist(t[x]) : x \in S}
<1>1. f \in Surjection(S, T)
  BY DEF Surjection
<1>2. IsFiniteSet(S) /\ Cardinality(S) <= Cardinality(Notifiers)
  BY NotificationsAssumption, FS_Subset
<1>3. IsFiniteSet(T) /\ Cardinality(T) <= Cardinality(S)
  <2> HIDE DEF f, T
  <2> QED BY <1>1, <1>2, FS_Surjection
<1>4. Cardinality(T) \in Nat /\ Cardinality(S) \in Nat /\ Cardinality(Notifiers) \in Nat
  BY <1>2, <1>3, NotificationsAssumption, FS_CardinalityType
<1> QED
  BY <1>2, <1>3, <1>4 DEF Few

(* Without a notification that is new there are no more repeats.           *)
LEMMA NoNewRepeats ==
    ASSUME RepeatsAreFew, Gists' \subseteq Gists
    PROVE  RepeatsAreFew'
<1> SUFFICES ASSUME NEW what \in Content, NEW from \in Nat PROVE Few(Repeats(what, from))'
  BY DEF RepeatsAreFew
<1>1. Repeats(what, from)' \subseteq Repeats(what, from) /\ Few(Repeats(what, from))
  BY DEF RepeatsAreFew, Repeats, Repeat
<1> QED
  BY <1>1, FewerAreFew DEF Few

(* What the end of a transaction leaves open.                              *)
LEMMA SilenceEffect ==
    ASSUME NoteShape, NEW x \in Notifiers, NEW r \in Begun \cup {Silent}, notifier' = [notifier EXCEPT ![x] = r],
           r = Silent \/ r.at <= hour
    PROVE  /\ notifier' \in [Notifiers -> Teller \cup Begun \cup {Silent}]
           /\ \A y \in Notifiers : notifier'[y].pc = "begun" => notifier'[y].at <= hour
           /\ \A y \in Telling' : y \in Telling \ {x} /\ notifier'[y] = notifier[y]
           /\ Pending' = Pending \ {x}
<1>1. r.pc \notin {"known", "new"} /\ (r.pc = "begun" => r.at <= hour)
  BY DEF Begun, Silent
<1>2. notifier' \in [Notifiers -> Teller \cup Begun \cup {Silent}]
  BY DEF NoteShape
<1>3. \A y \in Notifiers : notifier'[y] = IF y = x THEN r ELSE notifier[y]
  BY DEF NoteShape
<1>4. \A y \in Notifiers : notifier'[y].pc = "begun" => notifier'[y].at <= hour
  BY <1>1, <1>3 DEF NoteShape
<1>5. \A y \in Telling' : y \in Telling \ {x} /\ notifier'[y] = notifier[y]
  BY <1>1, <1>3 DEF Telling
<1>6. \A y \in Telling \ {x} : y \in Telling'
  BY <1>3 DEF Telling
<1> QED
  BY <1>2, <1>4, <1>5, <1>6 DEF Pending

(* What changes with an open transaction alone leaves the rest as it is.   *)
LEMMA OpensOrEnds ==
    ASSUME NewsIInv, NEW x \in Notifiers, NEW r \in Begun \cup {Silent}, notifier' = [notifier EXCEPT ![x] = r],
           r = Silent \/ r.at <= hour, UNCHANGED <<hour, notes, news, told>>
    PROVE  NewsIInv'
<1>1. /\ notifier' \in [Notifiers -> Teller \cup Begun \cup {Silent}]
      /\ \A y \in Notifiers : notifier'[y].pc = "begun" => notifier'[y].at <= hour
      /\ \A y \in Telling' : y \in Telling \ {x} /\ notifier'[y] = notifier[y]
      /\ Pending' = Pending \ {x}
  BY SilenceEffect DEF NewsIInv
<1>2. NoteShape'
  BY <1>1 DEF NewsIInv, NoteShape
<1>3. QuietIsTold'
  BY <1>1 DEF NewsIInv, QuietIsTold, Told, Heard
<1>4. Gists' \subseteq Gists
  <2>1. \A y \in Pending' : y \in Pending /\ notifier'[y] = notifier[y]
    BY <1>1 DEF Pending
  <2> QED
    BY <2>1 DEF Gists
<1> QED
  BY <1>2, <1>3, <1>4, NoNewRepeats DEF NewsIInv

LEMMA NotifyStep ==
    ASSUME NewsIInv, NEW x \in Notifiers, NEW what \in Content, Notify(x, what)
    PROVE  NewsIInv'
<1> USE DEF NewsIInv
<1>0. PICK at : at = notifier[x].at
  OBVIOUS
<1>1. PICK r : r = [pc |-> IF Recent(what) = {} THEN "new" ELSE "known", what |-> what, at |-> at,
                    looked |-> hour, id |-> told + 1]
  OBVIOUS
<1>2. /\ notifier' = [notifier EXCEPT ![x] = r] /\ notifier[x].pc = "begun" /\ told' = told + 1
      /\ UNCHANGED <<hour, notes, news>>
  BY <1>0, <1>1 DEF Notify
<1>10. at \in Nat /\ at <= hour
  <2>1. notifier[x] \in Begun
    BY <1>2 DEF NoteShape, Teller, Silent
  <2> QED
    BY <1>0, <1>2, <2>1 DEF NoteShape, Begun
<1>3. /\ r \in Teller /\ r.pc \in {"known", "new"} /\ r.what = what /\ r.at = at /\ r.looked = hour
      /\ r.id = told + 1
  BY <1>1, <1>10 DEF NoteShape, Teller
<1>4. /\ Telling' = Telling \cup {x} /\ notifier'[x] = r /\ x \notin Telling
      /\ \A y \in Telling : notifier'[y] = notifier[y]
  <2>1. \A y \in Notifiers : notifier'[y] = IF y = x THEN r ELSE notifier[y]
    BY <1>2 DEF NoteShape
  <2> QED
    BY <1>2, <1>3, <2>1 DEF Telling
<1>5. \A n \in notes : n.id \in Nat /\ n.at \in Nat /\ n.looked \in Nat
  BY DEF NoteShape, Note
<1>6. \A y \in Telling : /\ notifier[y] \in Teller /\ notifier[y].id \in Nat
                         /\ notifier[y].at \in Nat /\ notifier[y].looked \in Nat
  BY DEF NoteShape, Telling, Teller, Begun, Silent
<1>7. NoteShape'
  <2>1. notifier' \in [Notifiers -> Teller \cup Begun \cup {Silent}]
    BY <1>2, <1>3 DEF NoteShape
  <2>2. \A y \in Notifiers : notifier'[y].pc = "begun" => notifier'[y].at <= hour
    BY <1>2, <1>3 DEF NoteShape
  <2>3. \A n \in notes : n.id <= told + 1 /\ n.id # told + 1
    BY <1>5 DEF NoteShape
  <2>4. \A y \in Telling : notifier[y].id <= told + 1 /\ notifier[y].id # told + 1
    BY <1>6 DEF NoteShape
  <2> QED
    BY <1>2, <1>3, <1>10, <1>4, <2>1, <2>2, <2>3, <2>4 DEF NoteShape
<1>8. CASE Recent(what) # {}
  <2>1. r.pc = "known" /\ Pending' = Pending
    BY <1>1, <1>4, <1>8 DEF Pending
  <2>2. Told(what, hour)
    <3>1. PICK n \in notes : SameKind(n.what, what) /\ hour <= n.at + DedupeHours[what.type]
      BY <1>8 DEF Recent
    <3>2. n.at <= hour
      BY <1>5 DEF NoteShape
    <3> QED
      BY <3>1, <3>2 DEF Told
  <2>3. QuietIsTold'
    BY <1>2, <1>3, <1>4, <2>2 DEF QuietIsTold, Told, Heard
  <2>4. Gists' = Gists
    BY <1>2, <1>4, <2>1 DEF Gists, Pending
  <2> QED
    BY <1>7, <2>3, <2>4, NoNewRepeats
<1>9. CASE Recent(what) = {}
  <2>1. r.pc = "new" /\ Pending' = Pending \cup {x}
    BY <1>1, <1>4, <1>9 DEF Pending
  <2>2. QuietIsTold'
    BY <1>2, <1>3, <1>4, <2>1 DEF QuietIsTold, Told, Heard
  <2>3. Gists' = Gists \cup {Gist(r)}
    BY <1>2, <1>4, <2>1 DEF Gists, Pending
  <2>4. ASSUME NEW kind \in Content, NEW from \in Nat, Repeat(Gist(r), kind, from),
               NEW m \in Gists', Repeat(m, kind, from)
        PROVE  m \in {Gist(notifier[y]) : y \in Pending}'
    <3>1. \A k \in Gists' : k.what \in Content /\ k.at \in Nat
      BY <1>3, <1>5, <1>6, <2>3 DEF Gists, Gist, Pending, NoteShape, Note, Teller
    <3>2. DedupeHours[kind.type] \in Nat /\ kind.type = what.type /\ m.what.type = what.type
      BY <1>3, <2>4, <3>1, DedupeIsNumber DEF Repeat, SameKind, Gist
    <3>3. SameKind(m.what, what)
      BY <1>3, <2>4 DEF Repeat, SameKind, Gist
    <3>4. hour <= from + DedupeHours[what.type] /\ from <= m.at
      BY <1>3, <2>4, <3>2 DEF Repeat, Gist
    <3>5. hour <= m.at + DedupeHours[what.type]
      <4>1. hour \in Nat /\ m.at \in Nat /\ DedupeHours[what.type] \in Nat
        BY <3>1, <3>2 DEF NoteShape
      <4> QED BY <3>4, <4>1
    <3>6. \A k \in notes : m # Gist(k)
      BY <1>9, <3>3, <3>5 DEF Recent, Gist
    <3> QED
      BY <1>2, <2>3, <3>6 DEF Gists
  <2>5. ASSUME NEW kind \in Content, NEW from \in Nat PROVE Few(Repeats(kind, from)')
    <3>1. CASE Repeat(Gist(r), kind, from)
      <4>1. Repeats(kind, from)' \subseteq {Gist(notifier'[y]) : y \in Pending'}
        BY <2>4, <3>1 DEF Repeats, Repeat
      <4>2. Pending' \in SUBSET Notifiers
        BY DEF Pending, Telling
      <4>3. Few({Gist(notifier'[y]) : y \in Pending'})
        BY <4>2, OpenAreFew
      <4> QED
        BY <4>1, <4>3, FewerAreFew
    <3>2. CASE ~Repeat(Gist(r), kind, from)
      <4>1. Repeats(kind, from)' = Repeats(kind, from)
        BY <2>3, <3>2 DEF Repeats, Repeat
      <4> QED
        BY <4>1 DEF RepeatsAreFew
    <3> QED
      BY <3>1, <3>2
  <2> QED
    BY <1>7, <2>2, <2>5 DEF RepeatsAreFew, Few
<1> QED
  BY <1>8, <1>9

LEMMA CommitNewsStep ==
    ASSUME NewsIInv, NEW x \in Notifiers, CommitNews(x)
    PROVE  NewsIInv'
<1> USE DEF NewsIInv
<1>1. /\ x \in Telling /\ notifier' = [notifier EXCEPT ![x] = Silent]
      /\ news' = news \cup {[what |-> notifier[x].what, at |-> notifier[x].looked]}
      /\ UNCHANGED <<hour, told>>
  BY DEF CommitNews, Telling
<1>2. /\ notifier' \in [Notifiers -> Teller \cup Begun \cup {Silent}]
      /\ \A y \in Notifiers : notifier'[y].pc = "begun" => notifier'[y].at <= hour
      /\ \A y \in Telling' : y \in Telling \ {x} /\ notifier'[y] = notifier[y]
      /\ Pending' = Pending \ {x}
  BY <1>1, SilenceEffect
<1>3. notifier[x] \in Teller
  BY <1>1 DEF NoteShape, Telling, Begun, Silent
<1>4. CASE notifier[x].pc = "known"
  <2>1. notes' = notes
    BY <1>4 DEF CommitNews
  <2>2. NoteShape'
    BY <1>1, <1>2, <2>1 DEF NoteShape
  <2>3. QuietIsTold'
    BY <1>1, <1>2, <1>4, <2>1 DEF QuietIsTold, Told, Heard
  <2>4. Gists' \subseteq Gists
    BY <1>1, <1>2, <2>1 DEF Gists, Pending
  <2> QED
    BY <2>2, <2>3, <2>4, NoNewRepeats
<1>5. CASE notifier[x].pc = "new"
  <2>1. PICK n : n = [id |-> notifier[x].id, what |-> notifier[x].what, at |-> notifier[x].at,
                      looked |-> notifier[x].looked, status |-> "unread"]
    OBVIOUS
  <2>2. notes' = notes \cup {n} /\ n \in Note /\ Gist(n) = Gist(notifier[x]) /\ x \in Pending
    BY <1>1, <1>3, <1>5, <2>1 DEF CommitNews, Note, Teller, Gist, Pending
  <2>3. /\ n.id = notifier[x].id /\ n.what = notifier[x].what
        /\ n.at = notifier[x].at /\ n.looked = notifier[x].looked
    BY <2>1
  <2>4. NoteShape'
    <3>1. n.id <= told /\ n.at <= n.looked /\ n.looked <= hour /\ \A m \in notes : m.id # n.id
      BY <1>1, <2>3 DEF NoteShape
    <3>2. /\ notes' \subseteq Note
          /\ \A m \in notes' : m.id <= told /\ m.at <= m.looked /\ m.looked <= hour
          /\ \A k, m \in notes' : k.id = m.id => k = m
      BY <2>2, <3>1 DEF NoteShape
    <3>3. \A y \in Telling' : /\ notifier'[y].at <= notifier'[y].looked /\ notifier'[y].looked <= hour
                              /\ notifier'[y].id <= told
                              /\ \A m \in notes' : m.id # notifier'[y].id
                              /\ \A z \in Telling' : notifier'[z].id = notifier'[y].id => y = z
      BY <1>1, <1>2, <2>2, <2>3 DEF NoteShape
    <3> QED
      BY <1>1, <1>2, <3>2, <3>3 DEF NoteShape
  <2>5. \A what, at : what = n.what /\ at = n.looked => Heard(what, at)'
    <3>1. n.at <= n.looked
      BY <1>1, <2>3 DEF NoteShape
    <3> QED
      BY <2>2, <3>1 DEF Heard, SameKind
  <2>6. QuietIsTold'
    <3>1. \A what, at : (Told(what, at) => Told(what, at)') /\ (Heard(what, at) => Heard(what, at)')
      BY <2>2 DEF Told, Heard
    <3> QED
      BY <1>1, <1>2, <2>3, <2>5, <3>1 DEF QuietIsTold
  <2>7. Gists' \subseteq Gists
    BY <1>1, <1>2, <2>2 DEF Gists, Pending
  <2> QED
    BY <2>4, <2>6, <2>7, NoNewRepeats
<1> QED
  BY <1>3, <1>4, <1>5 DEF Teller

LEMMA MarkReadStep ==
    ASSUME NewsIInv, NEW n \in notes, MarkRead(n)
    PROVE  NewsIInv'
<1> USE DEF NewsIInv
<1>1. PICK read : read = [n EXCEPT !.status = "read"]
  OBVIOUS
<1>2. read \in Note /\ read.id = n.id /\ read.what = n.what /\ read.at = n.at /\ read.looked = n.looked
  BY <1>1 DEF NoteShape, Note
<1>3. notes' = (notes \ {n}) \cup {read} /\ UNCHANGED <<hour, news, notifier, told>>
  BY <1>1 DEF MarkRead
<1>4. Telling' = Telling /\ Pending' = Pending
  BY <1>3 DEF Telling, Pending
<1>5. NoteShape'
  BY <1>2, <1>3, <1>4 DEF NoteShape
<1>6. \A what, at : (Told(what, at) => Told(what, at)') /\ (Heard(what, at) => Heard(what, at)')
  BY <1>2, <1>3 DEF Told, Heard
<1>7. QuietIsTold'
  BY <1>3, <1>4, <1>6 DEF QuietIsTold
<1>8. Gists' \subseteq Gists
  BY <1>2, <1>3, <1>4 DEF Gists, Gist
<1> QED
  BY <1>5, <1>7, <1>8, NoNewRepeats

LEMMA NewsStep == NewsIInv /\ [NotificationsNext]_noticeVars => NewsIInv'
<1> SUFFICES ASSUME NewsIInv, [NotificationsNext]_noticeVars PROVE NewsIInv'
  OBVIOUS
<1>1. ASSUME UNCHANGED <<notes, news, notifier, told>>, hour' \in {hour, hour + 1}
      PROVE  NewsIInv'
  <2>1. Telling' = Telling /\ Pending' = Pending /\ Gists' = Gists
    BY <1>1 DEF Telling, Pending, Gists
  <2>2. NoteShape'
    <3>1. \A i \in Nat : i <= hour => i <= hour'
      BY <1>1 DEF NewsIInv, NoteShape
    <3>2. \A x \in Notifiers : notifier[x].pc = "begun" => notifier[x].at \in Nat
      BY DEF NewsIInv, NoteShape, Teller, Begun, Silent
    <3>3. /\ \A x \in Telling : notifier[x].looked \in Nat
          /\ \A n \in notes : n.looked \in Nat
      BY DEF NewsIInv, NoteShape, Teller, Note, Begun, Silent, Telling
    <3> QED
      BY <1>1, <2>1, <3>1, <3>2, <3>3 DEF NewsIInv, NoteShape
  <2>3. QuietIsTold'
    BY <1>1, <2>1 DEF NewsIInv, QuietIsTold, Told, Heard
  <2> QED
    BY <2>1, <2>2, <2>3, NoNewRepeats DEF NewsIInv
<1>2. CASE HourPasses
  BY <1>1, <1>2 DEF HourPasses
<1>3. ASSUME NEW x \in Notifiers, AbortNews(x) \/ BeginNews(x) PROVE NewsIInv'
  <2>1. PICK r \in Begun \cup {Silent} : /\ notifier' = [notifier EXCEPT ![x] = r]
                                         /\ r = Silent \/ r.at <= hour
    <3>1. PICK b : b = [pc |-> "begun", at |-> hour]
      OBVIOUS
    <3>2. b \in Begun /\ b.at <= hour
      BY <3>1 DEF Begun, NewsIInv, NoteShape
    <3> QED
      BY <1>3, <3>1, <3>2 DEF AbortNews, BeginNews
  <2>2. UNCHANGED <<hour, notes, news, told>>
    BY <1>3 DEF AbortNews, BeginNews
  <2>3. NewsIInv /\ x \in Notifiers
    BY <1>3
  <2>4. r \in Begun \cup {Silent} /\ notifier' = [notifier EXCEPT ![x] = r] /\ (r = Silent \/ r.at <= hour)
    BY <2>1
  <2> QED
    BY ONLY <2>2, <2>3, <2>4, OpensOrEnds
<1>4. CASE UNCHANGED noticeVars
  BY <1>1, <1>4 DEF noticeVars
<1> QED
  BY <1>2, <1>3, <1>4, NotifyStep, CommitNewsStep, MarkReadStep DEF NotificationsNext

(* News is told and told once (notifications/service.py:32-44), for any    *)
(* number of transactions, however long, and any windows: what is kept     *)
(* quiet was told within the window; and of the transactions that lie      *)
(* within a window's length, no more tell of one kind than can overlap.    *)
THEOREM NewsIsAlwaysToldOnce == NotificationsSpec => []NewsIsToldOnce
<1>1. ASSUME NotificationsInit PROVE NewsIInv
  <2>1. Telling = {} /\ NoteShape /\ QuietIsTold
    BY <1>1 DEF NotificationsInit, NoteShape, QuietIsTold, Telling, Silent
  <2>2. Gists = {}
    BY <1>1, <2>1 DEF NotificationsInit, Gists, Pending
  <2>3. Few({})
    BY FS_EmptySet, FS_CardinalityType, NotificationsAssumption DEF Few
  <2>4. \A what \in Content, from \in Nat : Repeats(what, from) = {}
    BY <2>2 DEF Repeats
  <2> QED
    BY <2>1, <2>3, <2>4, Zenon DEF NewsIInv, RepeatsAreFew
<1>2. ASSUME NewsIInv PROVE NewsIsTold
  <2>1. ASSUME NEW e \in news
        PROVE  \E n \in notes : /\ n.what.type = e.what.type
                                /\ e.what.type = "approval_required" => n.what.subject = e.what.subject
                                /\ n.at <= e.at
                                /\ n.looked = e.at \/ e.at <= n.at + DedupeHours[e.what.type]
    <3>1. Heard(e.what, e.at)
      BY <1>2 DEF NewsIInv, QuietIsTold
    <3>2. PICK n \in notes : /\ SameKind(n.what, e.what) /\ n.at <= e.at
                             /\ n.looked = e.at \/ e.at <= n.at + DedupeHours[e.what.type]
      BY <3>1, Zenon DEF Heard
    <3>3. /\ n.what.type = e.what.type
          /\ e.what.type = "approval_required" => n.what.subject = e.what.subject
      BY <3>2 DEF SameKind
    <3> QED
      BY <3>2, <3>3
  <2> QED
    BY <2>1 DEF NewsIsTold
<1>3. ASSUME NewsIInv, NEW what \in Content, NEW from \in Nat
      PROVE  Cardinality({m \in notes : Repeat(m, what, from)}) <= Cardinality(Notifiers)
  <2> DEFINE S == {m \in notes : Repeat(m, what, from)}
             T == Repeats(what, from)
             f == [m \in S |-> Gist(m)]
  <2>1. Few(T)
    BY <1>3 DEF NewsIInv, RepeatsAreFew
  <2>2. \A m \in S : Gist(m) \in T
    BY DEF Repeats, Repeat, Gist, Gists
  <2>3. \A k, m \in S : Gist(k) = Gist(m) => k = m
    <3>1. \A m \in S : Gist(m).id = m.id
      BY DEF Gist
    <3> QED BY <1>3, <3>1 DEF NewsIInv, NoteShape
  <2>4. f \in Injection(S, T)
    BY <2>2, <2>3 DEF Injection, IsInjective
  <2>5. IsFiniteSet(S) /\ Cardinality(S) <= Cardinality(T)
    <3> HIDE DEF S, T, f
    <3> QED BY <2>1, <2>4, FS_Injection DEF Few
  <2>6. Cardinality(S) \in Nat /\ Cardinality(T) \in Nat /\ Cardinality(Notifiers) \in Nat
    BY <2>1, <2>5, NotificationsAssumption, FS_CardinalityType DEF Few
  <2> QED
    BY <2>1, <2>5, <2>6 DEF Few
<1>4. ASSUME NewsIInv PROVE RepeatsOnlyFromOverlap
  BY <1>3, <1>4 DEF RepeatsOnlyFromOverlap, Repeat, Hours
<1>5. NewsIInv => NewsIsToldOnce
  BY <1>2, <1>4 DEF NewsIsToldOnce
<1> QED
  BY <1>1, <1>5, NewsStep, PTL DEF NotificationsSpec

----------------------------------------------------------------------------
(* The account, with requests and webhooks one after the other. What an    *)
(* open one has read is still so.                                          *)
AnyEvent == [type : {"checkout", "updated", "deleted", "invoice"}, status : Status, nr : Nat]
Txn      == billTxn[x1]

HeldEvent ==
    /\ Txn = [op |-> "event", at |-> Txn.at, event |-> Txn.event, seen |-> Txn.seen, new |-> Txn.new,
              billing |-> Txn.billing]
    /\ Txn.at \in Nat /\ Txn.event \in AnyEvent /\ Txn.seen \in Row
    /\ Txn.new = (rows = {})
    /\ Txn.new => Txn.seen.plan = "starter"
    /\ ~Txn.new => rows = {Txn.seen}
    /\ Txn.billing = billing

Alone ==
    /\ ticks \in Nat /\ stripe.nr \in Nat /\ mail \subseteq AnyEvent
    /\ billTxn = [x \in {x1} |-> billTxn[x]]
    /\ \A r, s \in rows : r = s
    /\ \A r \in rows : r \in Row /\ billing \in {Mapped(r.status), "past_due"}
    /\ rows = {} => billing = "active" /\ ~customer
    /\ \/ Txn = Done
       \/ Txn.op = "starter" /\ Txn.at \in Nat /\ rows = {}
       \/ HeldEvent

(* The one row is as the event says that is applied to it.                 *)
LEMMA AppliedEffect ==
    ASSUME Alone, OneByOne!ApplySubscription(x1)
    PROVE  /\ HeldEvent /\ Txn.event.type # "invoice" /\ Txn' = Done
           /\ \E r \in Row : /\ rows' = {r} /\ r.status = Txn.event.status
                             /\ r.plan = IF Txn.event.type = "deleted" THEN Txn.seen.plan ELSE "paid"
           /\ billing' = Txn.event.status
           /\ billTxn' = [x \in {x1} |-> billTxn'[x]] /\ UNCHANGED <<stripe, mail, ticks>>
<1>1. HeldEvent /\ Txn.event.type # "invoice"
  BY DEF Alone, OneByOne!ApplySubscription, Txn, Done
<1>2. /\ billTxn' = [billTxn EXCEPT ![x1] = Done] /\ UNCHANGED <<stripe, mail, ticks>>
      /\ OneByOne!WriteRow(Txn, Txn.event.status) /\ OneByOne!WriteBilling(Txn, Txn.event.status)
  BY DEF OneByOne!ApplySubscription, OneByOne!Finish, OneByOne!Done, Done, Txn
<1>3. billing' = Txn.event.status
  BY <1>1, <1>2 DEF OneByOne!WriteBilling, HeldEvent
<1>4. Txn' = Done /\ billTxn' = [x \in {x1} |-> billTxn'[x]]
  BY <1>2 DEF Alone, Txn
<1>5. PICK new : new = OneByOne!Written(Txn, Txn.event.status)
  OBVIOUS
<1>6. /\ new \in Row /\ new.status = Txn.event.status
      /\ new.plan = IF Txn.event.type = "deleted" THEN Txn.seen.plan ELSE "paid"
      /\ new.created = Txn.seen.created
  BY <1>1, <1>5 DEF OneByOne!Written, HeldEvent, Row, AnyEvent
<1>7. CASE Txn.new
  BY <1>1, <1>2, <1>3, <1>4, <1>5, <1>6, <1>7 DEF OneByOne!WriteRow, HeldEvent
<1>8. CASE ~Txn.new
  <2>1. PICK r \in rows : rows' = (rows \ {r}) \cup {OneByOne!Merge(r, Txn.seen, new)}
    BY <1>2, <1>5, <1>8 DEF OneByOne!WriteRow
  <2>2. r = Txn.seen /\ rows' = {OneByOne!Merge(r, r, new)} /\ r \in Row
    BY <1>1, <1>8, <2>1 DEF HeldEvent
  <2>3. PICK m : m = OneByOne!Merge(r, r, new)
    OBVIOUS
  <2>4. m \in Row /\ m.status = new.status /\ m.plan = new.plan
    BY <1>6, <2>2, <2>3 DEF OneByOne!Merge, Row
  <2>5. /\ rows' = {m} /\ m \in Row /\ m.status = Txn.event.status
        /\ m.plan = IF Txn.event.type = "deleted" THEN Txn.seen.plan ELSE "paid"
    BY <1>6, <2>2, <2>3, <2>4
  <2> QED
    BY <1>1, <1>2, <1>3, <1>4, <2>5
<1> QED
  BY <1>7, <1>8

LEMMA ReceiveEffect ==
    ASSUME Alone, NEW e, OneByOne!ReceiveEvent(x1, e)
    PROVE  /\ Txn = Done /\ e \in mail /\ mail' = mail \ {e} /\ HeldEvent' /\ Txn'.event = e
           /\ billTxn' = [x \in {x1} |-> billTxn'[x]] /\ ticks' \in Nat
           /\ UNCHANGED <<stripe, rows, billing, customer>>
<1>1. PICK t : t = [op |-> "event", at |-> ticks', event |-> e, new |-> rows = {}, billing |-> billing,
                    seen |-> IF rows = {} THEN OneByOne!Starter(ticks') ELSE OneByOne!LastUpdated]
  OBVIOUS
<1>2. /\ Txn = Done /\ e \in mail /\ mail' = mail \ {e} /\ ticks' = ticks + 1
      /\ billTxn' = [billTxn EXCEPT ![x1] = t] /\ UNCHANGED <<stripe, rows, billing, customer>>
  BY <1>1 DEF OneByOne!ReceiveEvent, Txn, OneByOne!Done, Done
<1>3. Txn' = t /\ billTxn' = [x \in {x1} |-> billTxn'[x]] /\ ticks' \in Nat
  <2>1. ticks' \in Nat
    BY <1>2 DEF Alone
  <2>2. billTxn' = [x \in {x1} |-> t]
    BY <1>2 DEF Alone
  <2> QED
    BY <2>1, <2>2 DEF Txn
<1>4. t.seen \in Row /\ (rows = {} => t.seen.plan = "starter") /\ (rows # {} => rows = {t.seen})
  <2>1. CASE rows = {}
    BY <1>1, <1>3, <2>1 DEF OneByOne!Starter, Row
  <2>2. CASE rows # {}
    <3>1. PICK r \in rows : rows = {r} /\ r.updated <= r.updated
      BY <2>2 DEF Alone, Row
    <3>2. OneByOne!LastUpdated = r
      BY <3>1 DEF OneByOne!LastUpdated
    <3> QED
      BY <1>1, <2>2, <3>1, <3>2 DEF Alone
  <2> QED
    BY <2>1, <2>2
<1>5. HeldEvent'
  BY <1>1, <1>2, <1>3, <1>4 DEF HeldEvent, Alone
<1> QED
  BY <1>1, <1>2, <1>3, <1>5

LEMMA AloneStep ==
    ASSUME Alone, [OneByOne!BillingNext]_billingVars
    PROVE  Alone'
<1>1. CASE OneByOne!StripeChanges
  <2>1. mail' \subseteq AnyEvent /\ stripe'.nr \in Nat /\ UNCHANGED <<rows, billing, customer, billTxn, ticks>>
    BY <1>1 DEF OneByOne!StripeChanges, Alone, AnyEvent, OneByOne!Status, Status
  <2> QED
    BY <2>1 DEF Alone, HeldEvent, Txn
<1>2. CASE OneByOne!Redeliver(x1)
  <2>1. mail' \subseteq AnyEvent /\ UNCHANGED <<stripe, rows, billing, customer, billTxn, ticks>>
    BY <1>2 DEF OneByOne!Redeliver, Alone, HeldEvent, Txn, Done
  <2> QED
    BY <2>1 DEF Alone, HeldEvent, Txn
<1>3. CASE OneByOne!BeginStarter(x1)
  <2>1. /\ rows = {} /\ billTxn' = [billTxn EXCEPT ![x1] = [op |-> "starter", at |-> ticks + 1]]
        /\ ticks' = ticks + 1 /\ UNCHANGED <<stripe, mail, rows, billing, customer>>
    BY <1>3 DEF OneByOne!BeginStarter
  <2>2. billTxn' = [x \in {x1} |-> [op |-> "starter", at |-> ticks + 1]]
    BY <2>1 DEF Alone
  <2>3. Txn'.op = "starter" /\ Txn'.at \in Nat /\ ticks' \in Nat /\ billTxn' = [x \in {x1} |-> billTxn'[x]]
    BY <2>1, <2>2 DEF Alone, Txn
  <2> QED
    BY <2>1, <2>3 DEF Alone
<1>4. CASE OneByOne!CommitStarter(x1)
  <2>1. PICK r : r = [created |-> Txn.at, updated |-> Txn.at, plan |-> "starter", status |-> "trialing"]
    OBVIOUS
  <2>2. /\ rows = {} /\ rows' = {r} /\ Txn.at \in Nat /\ billTxn' = [billTxn EXCEPT ![x1] = Done]
        /\ UNCHANGED <<stripe, mail, billing, customer, ticks>>
    BY <1>4, <2>1 DEF OneByOne!CommitStarter, OneByOne!Starter, OneByOne!Done, Done, Alone, Txn, HeldEvent
  <2>3. Txn' = Done
    BY <2>2 DEF Alone, Txn
  <2>4. r \in Row /\ billing = Mapped(r.status)
    BY <2>1, <2>2 DEF Row, Mapped, Alone
  <2> QED
    BY <2>2, <2>3, <2>4 DEF Alone
<1>5. CASE OneByOne!ApplySubscription(x1)
  <2>1. PICK r \in Row : rows' = {r} /\ r.status = Txn.event.status
    BY <1>5, AppliedEffect
  <2>2. Mapped(Txn.event.status) = Txn.event.status
    BY <1>5, AppliedEffect DEF HeldEvent, AnyEvent, Status, Mapped
  <2> QED
    BY <1>5, <2>1, <2>2, AppliedEffect DEF Alone
<1>6. CASE OneByOne!ApplyInvoice(x1)
  <2>1. /\ HeldEvent /\ Txn.event.type = "invoice" /\ billTxn' = [billTxn EXCEPT ![x1] = Done]
        /\ customer' = customer /\ billing' \in {billing, "past_due"} /\ (~customer => billing' = billing)
        /\ UNCHANGED <<stripe, mail, rows, ticks>>
    <3>1. HeldEvent /\ Txn.event.type = "invoice" /\ customer \in {customer, FALSE}
      BY <1>6 DEF OneByOne!ApplyInvoice, Alone, Txn, Done
    <3>2. billTxn' = [billTxn EXCEPT ![x1] = Done] /\ (customer' <=> customer) /\ UNCHANGED <<stripe, mail, rows, ticks>>
      BY <1>6, <3>1 DEF OneByOne!ApplyInvoice, OneByOne!Finish, OneByOne!Done, Done, Txn
    <3> QED
      BY <1>6, <3>1, <3>2 DEF OneByOne!ApplyInvoice, OneByOne!WriteBilling, HeldEvent, Txn
  <2>2. Txn' = Done
    BY <2>1 DEF Alone, Txn
  <2> QED
    BY <2>1, <2>2 DEF Alone
<1>7. CASE OneByOne!AbortBilling(x1)
  <2>1. /\ billTxn' = [billTxn EXCEPT ![x1] = Done] /\ UNCHANGED <<stripe, rows, billing, customer, ticks>>
        /\ mail' = mail \/ (HeldEvent /\ mail' = mail \cup {Txn.event})
    BY <1>7 DEF OneByOne!AbortBilling, OneByOne!Done, Done, Alone, Txn
  <2>2. Txn' = Done /\ mail' \subseteq AnyEvent
    BY <2>1 DEF Alone, Txn, HeldEvent
  <2> QED
    BY <2>1, <2>2 DEF Alone
<1>8. ASSUME NEW e \in mail, OneByOne!ReceiveEvent(x1, e) PROVE Alone'
  BY <1>8, ReceiveEffect DEF Alone
<1>9. CASE UNCHANGED billingVars
  BY <1>9 DEF billingVars, Alone, HeldEvent, Txn
<1> QED
  BY <1>1, <1>2, <1>3, <1>4, <1>5, <1>6, <1>7, <1>8, <1>9 DEF OneByOne!BillingNext

----------------------------------------------------------------------------
(* The same account when the events come in order as well. Of the changes  *)
(* whose own event is yet to be applied none is missing up to the last;    *)
(* what has been applied is as the last of it says.                        *)
Arriving == mail \cup {e \in {Txn.event} : Txn.op = "event"}
Left(n)  == \E e \in Arriving : e.type # "invoice" /\ e.nr = n

Queue ==
    /\ stripe.nr \in Nat /\ stripe.status \in Status \cup {"none"}
    /\ stripe.nr = 0 <=> stripe.status = "none"
    /\ \A e \in Arriving :
         /\ e \in AnyEvent /\ e.nr >= 1 /\ e.nr <= stripe.nr /\ Left(e.nr)
         /\ e.type # "invoice" => /\ e.nr = stripe.nr => e.status = stripe.status
                                  /\ e.nr = 1 => e.type = "checkout"
    /\ \A n \in Nat : Left(n) => \A m \in n .. stripe.nr : Left(m)

Before(e, f) == e.nr < f.nr \/ (e.nr = f.nr /\ (f.type = "invoice" => e.type = "invoice"))

First == Txn.op = "event" => \A f \in mail : Before(Txn.event, f)

Followed ==
    /\ stripe.nr > 0 /\ ~Left(1) => rows # {} /\ \A r \in rows : r.plan = "paid"
    /\ stripe.nr > 0 /\ ~Left(stripe.nr) =>
         rows # {} /\ billing = stripe.status /\ \A r \in rows : r.status = stripe.status

InSequence == Alone /\ Queue /\ First /\ Followed

(* While none is applied, events stay in their sequence.                   *)
LEMMA SameQueue ==
    ASSUME Queue, UNCHANGED stripe, Arriving' = Arriving
    PROVE  Queue' /\ (UNCHANGED <<rows, billing>> /\ Followed => Followed')
BY DEF Queue, Followed, Left

(* One change more.                                                        *)
LEMMA ChangeInSequence ==
    ASSUME InSequence, InTurn!StripeChanges
    PROVE  InSequence'
<1>1. PICK status \in Status, type \in {"checkout", "updated", "deleted"} :
        /\ type = "checkout" <=> stripe.status = "none"
        /\ stripe' = [status |-> status, nr |-> stripe.nr + 1]
        /\ mail' = mail \cup {[type |-> type, status |-> status, nr |-> stripe'.nr]}
                     \cup {[type |-> t, status |-> "past_due", nr |-> stripe'.nr] :
                             t \in {"invoice" : s \in {status} \cap {"past_due"}}}
  BY DEF InTurn!StripeChanges, InTurn!Status, Status
<1>2. UNCHANGED <<rows, billing, customer, billTxn, ticks>>
  BY DEF InTurn!StripeChanges
<1>3. PICK e : e = [type |-> type, status |-> status, nr |-> stripe.nr + 1]
  OBVIOUS
<1>4. stripe.nr \in Nat /\ stripe'.nr = stripe.nr + 1 /\ stripe'.status = status
  BY <1>1 DEF InSequence, Queue
<1>5. e \in AnyEvent /\ e.type = type /\ e.status = status /\ e.nr = stripe'.nr
  BY <1>1, <1>3, <1>4 DEF AnyEvent
<1>6. /\ mail \subseteq mail' /\ e \in mail'
      /\ \A f \in mail' : f \in mail \/ f = e \/ (f \in AnyEvent /\ f.type = "invoice" /\ f.nr = stripe'.nr)
  BY <1>1, <1>3, <1>4 DEF AnyEvent, Status
<1>7. Arriving' = mail' \cup {f \in {Txn.event} : Txn.op = "event"}
  BY <1>2 DEF Arriving, Txn
<1>8. \A n : Left(n)' <=> Left(n) \/ n = stripe'.nr
  BY <1>1, <1>5, <1>6, <1>7 DEF Left, Arriving
<1>9. Queue'
  <2>1. stripe'.nr \in Nat /\ stripe'.status \in Status /\ stripe'.nr > 0 /\ stripe'.status # "none"
    BY <1>1, <1>4 DEF Status
  <2>2. ASSUME NEW f \in Arriving'
        PROVE  /\ f \in AnyEvent /\ f.nr >= 1 /\ f.nr <= stripe'.nr /\ Left(f.nr)'
               /\ f.type # "invoice" => /\ f.nr = stripe'.nr => f.status = stripe'.status
                                        /\ f.nr = 1 => f.type = "checkout"
    <3>1. CASE f \in Arriving
      BY <1>4, <1>8, <3>1 DEF InSequence, Queue, AnyEvent
    <3>2. CASE f = e
      <4>1. stripe'.nr = 1 => type = "checkout"
        BY <1>1, <1>4 DEF InSequence, Queue
      <4> QED
        BY <1>4, <1>5, <1>8, <3>2, <4>1
    <3>3. CASE f \in AnyEvent /\ f.type = "invoice" /\ f.nr = stripe'.nr
      BY <1>4, <1>8, <3>3
    <3> QED
      BY <1>6, <1>7, <2>2, <3>1, <3>2, <3>3 DEF Arriving
  <2>3. ASSUME NEW n \in Nat, Left(n)', NEW m \in n .. stripe'.nr PROVE Left(m)'
    <3>1. m = stripe'.nr \/ m \in n .. stripe.nr
      BY <1>4, <2>3
    <3>2. CASE Left(n)
      BY <1>8, <3>1, <3>2, <2>3 DEF InSequence, Queue
    <3>3. CASE n = stripe'.nr
      BY <1>4, <1>8, <3>3, <2>3
    <3> QED
      BY <1>8, <2>3, <3>2, <3>3
  <2> QED
    BY <2>1, <2>2, <2>3 DEF Queue
<1>10. Followed'
  <2>1. stripe.nr = 0 => Left(1)'
    BY <1>4, <1>8
  <2> QED
    BY <1>2, <1>4, <1>8, <2>1 DEF InSequence, Followed, Queue
<1>11. First'
  <2>1. Txn.op = "event" => \A f \in mail' : Before(Txn.event, f)
    <3> SUFFICES ASSUME Txn.op = "event", NEW f \in mail' PROVE Before(Txn.event, f)
      OBVIOUS
    <3>1. Txn.event \in Arriving
      BY DEF Arriving
    <3>2. Txn.event.nr < stripe'.nr
      BY <1>4, <3>1 DEF InSequence, Queue, AnyEvent
    <3> QED
      BY <1>5, <1>6, <3>2 DEF InSequence, First, Before
  <2> QED
    BY <1>2, <2>1 DEF First, Txn
<1>12. Alone'
  <2>1. mail' \subseteq AnyEvent
    BY <1>5, <1>6 DEF InSequence, Alone
  <2> QED
    BY <1>2, <1>4, <2>1 DEF InSequence, Alone, HeldEvent, Txn
<1> QED
  BY <1>9, <1>10, <1>11, <1>12 DEF InSequence

(* The first of the events is applied.                                     *)
LEMMA ApplyInSequence ==
    ASSUME InSequence, OneByOne!ApplySubscription(x1), Alone'
    PROVE  InSequence'
<1>1. PICK e : e = Txn.event
  OBVIOUS
<1>2. /\ HeldEvent /\ e.type # "invoice" /\ Txn' = Done /\ billing' = e.status /\ UNCHANGED <<stripe, mail>>
      /\ \E r \in Row : /\ rows' = {r} /\ r.status = e.status
                        /\ r.plan = IF e.type = "deleted" THEN Txn.seen.plan ELSE "paid"
  BY <1>1, AppliedEffect DEF InSequence
<1>3. /\ e \in Arriving /\ Arriving = mail \cup {e} /\ Arriving' = mail
      /\ \A f \in mail : Before(e, f)
  BY <1>1, <1>2 DEF Arriving, HeldEvent, Done, InSequence, First
<1>4. /\ \A n : Left(n) <=> Left(n)' \/ n = e.nr
      /\ \A n : Left(n)' => n >= e.nr
  <2>1. \A f \in mail : f.nr \in Nat /\ e.nr \in Nat
    BY <1>3 DEF InSequence, Queue, AnyEvent
  <2> QED
    BY <1>2, <1>3, <2>1 DEF Left, Before
<1>5. e.nr \in Nat /\ e.nr >= 1 /\ e.nr <= stripe.nr /\ stripe.nr \in Nat
  BY <1>3 DEF InSequence, Queue, AnyEvent
<1>6. Queue'
  <2>1. ASSUME NEW f \in mail PROVE Left(f.nr)'
    <3>1. Left(f.nr) /\ f.nr \in Nat
      BY <1>3 DEF InSequence, Queue, AnyEvent
    <3>2. CASE f.nr = e.nr
      BY <1>2, <1>3, <3>1, <3>2 DEF Before, Left
    <3> QED
      BY <1>4, <3>1, <3>2
  <2>2. ASSUME NEW n \in Nat, Left(n)', NEW m \in n .. stripe.nr PROVE Left(m)'
    <3>1. Left(m)
      BY <1>4, <2>2 DEF InSequence, Queue
    <3>2. m = e.nr => m = n
      BY <1>4, <1>5, <2>2
    <3> QED
      BY <1>4, <2>2, <3>1, <3>2
  <2> QED
    BY <1>2, <1>3, <2>1, <2>2 DEF InSequence, Queue
<1>7. Followed'
  <2>1. PICK r \in Row : /\ rows' = {r} /\ r.status = e.status
                         /\ r.plan = IF e.type = "deleted" THEN Txn.seen.plan ELSE "paid"
    BY <1>2
  <2>2. e.type = "deleted" => Txn.seen.plan = "paid"
    <3> SUFFICES ASSUME e.type = "deleted" PROVE Txn.seen.plan = "paid"
      OBVIOUS
    <3>1. e.nr # 1
      BY <1>2, <1>3 DEF InSequence, Queue
    <3>2. ~Left(1)
      BY <1>4, <1>5, <3>1
    <3>3. rows # {} /\ \A s \in rows : s.plan = "paid"
      BY <1>5, <3>2 DEF InSequence, Followed
    <3> QED
      BY <1>2, <3>3 DEF HeldEvent
  <2>3. r.plan = "paid"
    BY <2>1, <2>2
  <2>4. ~Left(stripe.nr)' => e.status = stripe.status
    <3>1. Left(e.nr) /\ (e.nr = stripe.nr => e.status = stripe.status)
      BY <1>2, <1>3 DEF InSequence, Queue, Left
    <3>2. Left(stripe.nr)
      BY <1>5, <3>1 DEF InSequence, Queue
    <3>3. Left(stripe.nr)' \/ stripe.nr = e.nr
      BY <1>2, <1>4, <3>2 DEF Left
    <3> QED
      BY <3>1, <3>3
  <2> QED
    BY <1>2, <2>1, <2>3, <2>4 DEF Followed, Left
<1>8. First'
  BY <1>2 DEF First, Done
<1> QED
  BY <1>6, <1>7, <1>8 DEF InSequence

LEMMA InSequenceStep ==
    ASSUME InSequence, [InTurn!BillingNext]_billingVars
    PROVE  InSequence'
<1>1. CASE InTurn!StripeChanges
  BY <1>1, ChangeInSequence
<1>2. CASE InTurn!ApplySubscription(x1)
  <2>1. OneByOne!ApplySubscription(x1)
    BY <1>2 DEF InTurn!ApplySubscription, InTurn!WriteRow, InTurn!Written, InTurn!Merge, InTurn!WriteBilling,
       InTurn!Finish, InTurn!Done, OneByOne!ApplySubscription, OneByOne!WriteRow, OneByOne!Written,
       OneByOne!Merge, OneByOne!WriteBilling, OneByOne!Finish, OneByOne!Done
  <2>2. Alone'
    BY <2>1, AloneStep DEF InSequence, OneByOne!BillingNext
  <2> QED
    BY <2>1, <2>2, ApplyInSequence
<1>3. CASE InTurn!BeginStarter(x1)
  <2>1. OneByOne!BeginStarter(x1)
    BY <1>3 DEF InTurn!BeginStarter, InTurn!Done, OneByOne!BeginStarter, OneByOne!Done
  <2>2. Alone'
    BY <2>1, AloneStep DEF InSequence, OneByOne!BillingNext
  <2>3. /\ Txn = Done /\ Txn'.op = "starter" /\ UNCHANGED <<stripe, mail, rows, billing>>
    BY <2>1 DEF OneByOne!BeginStarter, OneByOne!Done, Done, InSequence, Alone, Txn
  <2>4. Arriving' = Arriving /\ First'
    BY <2>3 DEF Arriving, First, Done
  <2> QED
    BY <2>2, <2>3, <2>4, SameQueue DEF InSequence
<1>4. CASE InTurn!CommitStarter(x1)
  <2>1. OneByOne!CommitStarter(x1)
    BY <1>4 DEF InTurn!CommitStarter, InTurn!Starter, InTurn!Done, OneByOne!CommitStarter, OneByOne!Starter,
       OneByOne!Done
  <2>2. Alone'
    BY <2>1, AloneStep DEF InSequence, OneByOne!BillingNext
  <2>3. /\ Txn.op = "starter" /\ Txn' = Done /\ rows = {} /\ UNCHANGED <<stripe, mail, billing>>
    BY <2>1 DEF OneByOne!CommitStarter, OneByOne!Done, Done, InSequence, Alone, Txn, HeldEvent
  <2>4. Arriving' = Arriving /\ First'
    BY <2>3 DEF Arriving, First, Done
  <2>5. Followed'
    BY <2>3, <2>4 DEF InSequence, Followed, Left
  <2> QED
    BY <2>2, <2>3, <2>4, <2>5, SameQueue DEF InSequence
<1>5. CASE InTurn!ApplyInvoice(x1)
  <2>1. OneByOne!ApplyInvoice(x1)
    BY <1>5 DEF InTurn!ApplyInvoice, InTurn!WriteBilling, InTurn!Finish, InTurn!Done, OneByOne!ApplyInvoice,
       OneByOne!WriteBilling, OneByOne!Finish, OneByOne!Done
  <2>2. Alone'
    BY <2>1, AloneStep DEF InSequence, OneByOne!BillingNext
  <2>3. /\ HeldEvent /\ Txn.event.type = "invoice" /\ Txn' = Done /\ UNCHANGED <<stripe, mail, rows>>
    BY <2>1 DEF OneByOne!ApplyInvoice, OneByOne!Finish, OneByOne!Done, Done, InSequence, Alone, Txn
  <2>4. Arriving = mail \cup {Txn.event} /\ Arriving' = mail /\ Txn.event \in Arriving
    BY <2>3 DEF Arriving, HeldEvent, Done
  <2>5. \A n : Left(n)' <=> Left(n)
    BY <2>3, <2>4 DEF Left
  <2>6. Left(stripe.nr)
    <3>1. Left(Txn.event.nr) /\ Txn.event.nr \in Nat /\ stripe.nr \in Txn.event.nr .. stripe.nr
      BY <2>4 DEF InSequence, Queue, AnyEvent
    <3> QED
      BY <3>1 DEF InSequence, Queue
  <2>7. Queue' /\ First' /\ Followed'
    BY <2>3, <2>4, <2>5, <2>6 DEF InSequence, Queue, First, Followed, Done
  <2> QED
    BY <2>2, <2>7 DEF InSequence
<1>6. CASE InTurn!AbortBilling(x1)
  <2>1. OneByOne!AbortBilling(x1)
    BY <1>6 DEF InTurn!AbortBilling, InTurn!Done, OneByOne!AbortBilling, OneByOne!Done
  <2>2. Alone'
    BY <2>1, AloneStep DEF InSequence, OneByOne!BillingNext
  <2>3. /\ Txn' = Done /\ UNCHANGED <<stripe, rows, billing>>
        /\ mail' = IF Txn.op = "event" THEN mail \cup {Txn.event} ELSE mail
    BY <2>1 DEF OneByOne!AbortBilling, OneByOne!Done, Done, InSequence, Alone, Txn
  <2>4. Arriving' = Arriving /\ First'
    BY <2>3 DEF Arriving, First, Done
  <2> QED
    BY <2>2, <2>3, <2>4, SameQueue DEF InSequence
<1>7. ASSUME NEW e \in mail, InTurn!ReceiveEvent(x1, e) PROVE InSequence'
  <2>1. OneByOne!ReceiveEvent(x1, e) /\ \A f \in mail : Before(e, f)
    BY <1>7 DEF InTurn!ReceiveEvent, InTurn!Starter, InTurn!LastUpdated, InTurn!Done, OneByOne!ReceiveEvent,
       OneByOne!Starter, OneByOne!LastUpdated, OneByOne!Done, Before
  <2>2. Alone'
    BY <2>1, AloneStep DEF InSequence, OneByOne!BillingNext
  <2>3. /\ Txn = Done /\ e \in mail /\ mail' = mail \ {e} /\ HeldEvent' /\ Txn'.event = e
        /\ UNCHANGED <<stripe, rows, billing>>
    BY <2>1, ReceiveEffect DEF InSequence
  <2>4. Txn'.op = "event"
    BY <2>3 DEF HeldEvent
  <2>5. Arriving' = Arriving /\ First'
    BY <2>1, <2>3, <2>4 DEF Arriving, First, Done
  <2> QED
    BY <2>2, <2>3, <2>5, SameQueue DEF InSequence
<1>8. ~InTurn!Redeliver(x1)
  BY DEF InTurn!Redeliver
<1>9. CASE UNCHANGED billingVars
  <2>1. Txn' = Txn /\ Arriving' = Arriving /\ UNCHANGED <<stripe, rows, billing, mail>>
    BY <1>9 DEF billingVars, Txn, Arriving
  <2>2. Alone'
    BY <1>9, AloneStep DEF InSequence
  <2> QED
    BY <2>1, <2>2, SameQueue DEF InSequence, First
<1> QED
  BY <1>1, <1>2, <1>3, <1>4, <1>5, <1>6, <1>7, <1>8, <1>9 DEF InTurn!BillingNext

(* Before the first change.                                                *)
LEMMA NothingYet ==
    ASSUME stripe.nr = 0, stripe.status = "none", Arriving = {}, Txn.op = "none"
    PROVE  Queue /\ First /\ Followed
<1>1. \A n : ~Left(n)
  BY DEF Left
<1>2. Queue
  BY <1>1 DEF Queue
<1>3. First
  BY DEF First
<1>4. ~(stripe.nr > 0)
  OBVIOUS
<1>5. Followed
  BY <1>4, Zenon DEF Followed
<1> QED
  BY <1>2, <1>3, <1>5

(* With requests and webhooks one after the other the account is as its    *)
(* subscription says (billing/stripe_service.py), for any number of events *)
(* of any order; when they come in order, nothing is out of date once all  *)
(* have arrived.                                                           *)
THEOREM AccountAlwaysFollows == PlatformSpec => []AccountFollows
<1> DEFINE IInv == /\ part = "billing alone" => Alone
                   /\ part = "billing in turn" => InSequence
<1>1. PlatformInit => IInv
  <2> SUFFICES ASSUME PlatformInit, part \in {"billing alone", "billing in turn"} PROVE InSequence
    BY DEF InSequence
  <2>1. OneByOne!BillingInit
    BY DEF PlatformInit
  <2>2. /\ stripe = [status |-> "none", nr |-> 0] /\ mail = {} /\ rows = {} /\ billing = "active"
        /\ customer = FALSE /\ billTxn = [x \in {x1} |-> Done] /\ ticks = 0
    BY <2>1 DEF OneByOne!BillingInit, OneByOne!Done, Done
  <2>3. Txn = Done /\ Arriving = {}
    BY <2>2 DEF Txn, Arriving, Done
  <2>4. Alone
    BY <2>2, <2>3 DEF Alone
  <2>5. stripe.nr = 0 /\ stripe.status = "none" /\ Txn.op = "none"
    BY <2>2, <2>3 DEF Done
  <2> QED
    BY <2>3, <2>4, <2>5, NothingYet DEF InSequence
<1>2. IInv /\ [PlatformNext]_<<part, tenancyVars, billingVars, breakerVars, limitVars, noticeVars, opsVars,
                              wsVars, beatVars>> => IInv'
  <2> SUFFICES ASSUME IInv, [PlatformNext]_<<part, tenancyVars, billingVars, breakerVars, limitVars, noticeVars,
                                            opsVars, wsVars, beatVars>>
               PROVE  IInv'
    OBVIOUS
  <2>1. part' = part
    BY DEF PlatformNext
  <2>2. part = "billing alone" => [OneByOne!BillingNext]_billingVars
    BY DEF PlatformNext
  <2>3. part = "billing in turn" => [InTurn!BillingNext]_billingVars
    BY DEF PlatformNext
  <2> QED
    BY <2>1, <2>2, <2>3, AloneStep, InSequenceStep
<1>3. ASSUME Alone PROVE OneByOne!BillingFollowsSubscription
  <2> SUFFICES ASSUME rows # {} PROVE billing \in {OneByOne!Mapped(OneByOne!LastUpdated.status), "past_due"}
    BY DEF OneByOne!BillingFollowsSubscription
  <2>1. PICK r \in rows : rows = {r} /\ r.updated <= r.updated
    BY <1>3 DEF Alone, Row
  <2>2. OneByOne!LastUpdated = r
    BY <2>1 DEF OneByOne!LastUpdated
  <2> QED
    BY <1>3, <2>1, <2>2 DEF Alone, Mapped, OneByOne!Mapped
<1>4. ASSUME InSequence PROVE InTurn!QuietMeansCurrent
  <2> SUFFICES ASSUME mail = {}, stripe.nr > 0, billTxn[x1] = Done
               PROVE  /\ InTurn!LastCreated = InTurn!LastUpdated
                      /\ InTurn!LastCreated.status = stripe.status /\ InTurn!LastCreated.plan = "paid"
                      /\ billing = stripe.status
    BY DEF InTurn!QuietMeansCurrent, InTurn!Done, Done
  <2>1. \A n : ~Left(n)
    BY DEF Left, Arriving, Txn, Done
  <2>2. /\ rows # {} /\ billing = stripe.status
        /\ \A r \in rows : r.status = stripe.status /\ r.plan = "paid"
    BY <1>4, <2>1 DEF InSequence, Followed
  <2>3. PICK r \in rows : rows = {r} /\ r.updated <= r.updated /\ r.created <= r.created
    BY <1>4, <2>2 DEF InSequence, Alone, Row
  <2>4. InTurn!LastUpdated = r /\ InTurn!LastCreated = r
    BY <2>3 DEF InTurn!LastUpdated, InTurn!LastCreated
  <2> QED
    BY <2>2, <2>3, <2>4
<1>5. IInv => AccountFollows
  BY <1>3, <1>4 DEF AccountFollows
<1> QED
  BY <1>1, <1>2, <1>5, PTL DEF PlatformSpec

----------------------------------------------------------------------------
(* The rate limit. Requests that are let through are entered in Redis or   *)
(* in the memory of a process that Redis has failed; of each of these the  *)
(* limit counts no more than it allows.                                    *)
Vias        == redisFailed \cup {"redis"}
BucketOf(v) == IF v = "redis" THEN redis ELSE memory[v]
Through(v)  == {a \in accepted : a.via = v /\ time < a.at + Window}

LimitShape ==
    /\ time \in Nat /\ redisFailed \subseteq ApiProcesses
    /\ memory = [p \in ApiProcesses |-> memory[p]]
    /\ \A v \in Vias : IsFiniteSet(BucketOf(v))
    /\ \A p \in ApiProcesses \ redisFailed : memory[p] = {}
    /\ \A a \in accepted : /\ a.via \in Vias /\ a = [via |-> a.via, at |-> a.at, nr |-> a.nr] /\ a.at \in Nat
                           /\ [at |-> a.at, nr |-> a.nr] \in BucketOf(a.via)

EachLimited == \A v \in Vias : IsFiniteSet(Through(v)) /\ Cardinality(Through(v)) <= Limit

LimitIInv == LimitShape /\ EachLimited

(* What is let through in the window is entered in the window.             *)
LEMMA ThroughIsEntered ==
    ASSUME LimitShape, NEW v \in Vias
    PROVE  /\ IsFiniteSet(Through(v)) /\ Cardinality(Through(v)) <= InWindow(BucketOf(v))
           /\ Cardinality(Through(v)) \in Nat /\ InWindow(BucketOf(v)) \in Nat
<1> DEFINE S == Through(v)
           T == {e \in BucketOf(v) : time < e.at + Window}
           f == [a \in S |-> [at |-> a.at, nr |-> a.nr]]
<1>1. IsFiniteSet(T) /\ Cardinality(T) \in Nat
  BY FS_Subset, FS_CardinalityType DEF LimitShape
<1>2. \A a \in S : f[a] \in T
  BY DEF LimitShape, Through
<1>3. \A a, b \in S : f[a] = f[b] => a = b
  <2> SUFFICES ASSUME NEW a \in S, NEW b \in S, f[a] = f[b] PROVE a = b
    OBVIOUS
  <2>1. a.at = b.at /\ a.nr = b.nr /\ a.via = v /\ b.via = v
    BY DEF Through
  <2> QED
    BY <2>1 DEF LimitShape, Through
<1>4. f \in Injection(S, T)
  BY <1>2, <1>3 DEF Injection, IsInjective
<1>5. IsFiniteSet(S) /\ Cardinality(S) <= Cardinality(T)
  <2> HIDE DEF f, S, T
  <2> QED BY <1>1, <1>4, FS_Injection
<1> QED
  BY <1>1, <1>5, FS_CardinalityType DEF InWindow

(* A request that is let through while its bucket is below the limit.      *)
LEMMA AcceptStep ==
    ASSUME LimitShape, LimitShape', EachLimited, NEW v \in Vias', NEW bucket,
           time' = time, Accept(v, bucket), Vias \subseteq Vias',
           v \in Vias => InWindow(BucketOf(v)) + 1 <= Limit,
           \A w \in Vias' : w \in Vias \/ w = v
    PROVE  EachLimited'
<1> SUFFICES ASSUME NEW w \in Vias' PROVE IsFiniteSet(Through(w)') /\ Cardinality(Through(w)') <= Limit
  BY DEF EachLimited
<1>1. PICK a : a = [via |-> v, at |-> New(bucket).at, nr |-> New(bucket).nr]
  OBVIOUS
<1>2. accepted' = accepted \cup {a} /\ a.via = v
  BY <1>1 DEF Accept
<1>3. w # v => Through(w)' = Through(w)
  BY <1>2 DEF Through
<1>4. Through(v)' \subseteq Through(v) \cup {a}
  BY <1>2 DEF Through
<1>5. CASE w # v
  BY <1>3, <1>5 DEF EachLimited
<1>6. CASE w = v /\ v \in Vias
  <2>1. /\ IsFiniteSet(Through(v)) /\ Cardinality(Through(v)) <= InWindow(BucketOf(v))
        /\ Cardinality(Through(v)) \in Nat /\ InWindow(BucketOf(v)) \in Nat
    BY <1>6, ThroughIsEntered
  <2>2. IsFiniteSet(Through(v)') /\ Cardinality(Through(v)') <= Cardinality(Through(v)) + 1
    BY <1>4, <2>1, AtMostOneMore
  <2>3. Cardinality(Through(v)') \in Nat
    BY <2>2, FS_CardinalityType
  <2> QED
    BY <1>6, <2>1, <2>2, <2>3, RateLimitAssumption
<1>7. CASE w = v /\ v \notin Vias
  <2>1. Through(v)' \subseteq {a}
    BY <1>2, <1>7 DEF Through, LimitShape
  <2>2. IsFiniteSet({}) /\ Cardinality({}) = 0
    BY FS_EmptySet
  <2>3. IsFiniteSet(Through(v)') /\ Cardinality(Through(v)') <= 1
    BY <2>1, <2>2, AtMostOneMore
  <2>4. Cardinality(Through(v)') \in Nat
    BY <2>3, FS_CardinalityType
  <2> QED
    BY <1>7, <2>3, <2>4, RateLimitAssumption
<1> QED
  BY <1>5, <1>6, <1>7

LEMMA LimitStep == LimitIInv /\ [LimitNext]_limitVars => LimitIInv'
<1> SUFFICES ASSUME LimitIInv, [LimitNext]_limitVars PROVE LimitIInv'
  OBVIOUS
<1>0. LimitShape /\ EachLimited
  BY DEF LimitIInv
<1>1. ASSUME time' \in {time, time + 1}, UNCHANGED <<redis, memory, redisFailed, accepted>> PROVE LimitIInv'
  <2>1. LimitShape'
    BY <1>0, <1>1 DEF LimitShape, Vias, BucketOf
  <2>2. \A v \in Vias : Through(v)' \subseteq Through(v)
    <3>1. \A a \in accepted : a.at \in Nat
      BY <1>0 DEF LimitShape
    <3>2. \A at \in Nat : time' < at + Window => time < at + Window
      <4>1. time \in Nat /\ time' \in {time, time + 1}
        BY <1>0, <1>1 DEF LimitShape
      <4> QED
        BY <4>1, RateLimitAssumption
    <3> QED
      BY <1>1, <3>1, <3>2 DEF Through
  <2>3. ASSUME NEW v \in Vias PROVE IsFiniteSet(Through(v)') /\ Cardinality(Through(v)') <= Limit
    <3>1. IsFiniteSet(Through(v)) /\ Cardinality(Through(v)) <= Limit
      BY <1>0 DEF EachLimited
    <3>2. IsFiniteSet(Through(v)') /\ Cardinality(Through(v)') <= Cardinality(Through(v))
      BY <2>2, <3>1, FS_Subset
    <3> QED
      BY <3>1, <3>2, FS_CardinalityType, RateLimitAssumption
  <2>4. Vias' = Vias
    BY <1>1 DEF Vias
  <2> QED
    BY <2>1, <2>3, <2>4 DEF LimitIInv, EachLimited
<1>2. ASSUME NEW p \in ApiProcesses, RequestViaRedis(p) PROVE LimitIInv'
  <2>1. Vias' = Vias /\ redis' = redis \cup {New(redis)} /\ UNCHANGED <<time, memory, redisFailed>>
    BY <1>2 DEF RequestViaRedis, Vias
  <2>2. accepted' = accepted \/ (Accept("redis", redis) /\ ~(InWindow(redis) + 1 > Limit))
    BY <1>2 DEF RequestViaRedis
  <2>3. IsFiniteSet(redis \cup {New(redis)})
    BY <1>0, FS_AddElement DEF LimitShape, Vias, BucketOf
  <2>4. \A v \in Vias : IsFiniteSet(BucketOf(v)')
    BY <1>0, <2>1, <2>3 DEF LimitShape, BucketOf
  <2>5. LimitShape'
    <3>1. \A a \in accepted' : a \in accepted \/ a = [via |-> "redis", at |-> time, nr |-> New(redis).nr]
      BY <2>2 DEF Accept, New
    <3>2. [at |-> time, nr |-> New(redis).nr] \in redis'
      BY <2>1 DEF New
    <3>3. ASSUME NEW a \in accepted'
          PROVE  /\ a.via \in Vias /\ a = [via |-> a.via, at |-> a.at, nr |-> a.nr] /\ a.at \in Nat
                 /\ [at |-> a.at, nr |-> a.nr] \in BucketOf(a.via)'
      <4>1. CASE a \in accepted
        BY <1>0, <2>1, <4>1 DEF LimitShape, BucketOf
      <4>2. CASE a = [via |-> "redis", at |-> time, nr |-> New(redis).nr]
        BY <1>0, <3>2, <4>2 DEF LimitShape, BucketOf, Vias
      <4> QED
        BY <3>1, <4>1, <4>2
    <3> QED
      BY <1>0, <2>1, <2>4, <3>3 DEF LimitShape, BucketOf
  <2>6. CASE accepted' = accepted
    BY <1>0, <2>1, <2>5, <2>6 DEF LimitIInv, EachLimited, Through
  <2>7. CASE Accept("redis", redis) /\ ~(InWindow(redis) + 1 > Limit)
    <3>1. "redis" \in Vias /\ BucketOf("redis") = redis
      BY DEF Vias, BucketOf
    <3>2. InWindow(redis) \in Nat
      BY <1>0, <3>1, ThroughIsEntered
    <3>3. InWindow(redis) + 1 <= Limit
      BY <2>7, <3>2, RateLimitAssumption
    <3>4. EachLimited'
      BY <1>0, <2>1, <2>5, <2>7, <3>1, <3>3, AcceptStep
    <3> QED
      BY <2>5, <3>4 DEF LimitIInv
  <2> QED
    BY <2>2, <2>6, <2>7
<1>3. ASSUME NEW p \in ApiProcesses, RequestInMemory(p) \/ RedisFails(p) PROVE LimitIInv'
  <2>1. /\ memory' = [memory EXCEPT ![p] = memory[p] \cup {New(memory[p])}] /\ Accept(p, memory[p])
        /\ redisFailed' = redisFailed \cup {p} /\ UNCHANGED <<time, redis>>
    BY <1>3 DEF RequestInMemory, RedisFails
  <2>2. p # "redis" /\ Vias' = Vias \cup {p}
    BY <2>1, RateLimitAssumption DEF Vias
  <2>3. p \notin Vias => memory[p] = {}
    BY <1>0 DEF LimitShape, Vias
  <2>4. IsFiniteSet(memory[p] \cup {New(memory[p])})
    <3>1. IsFiniteSet(memory[p])
      BY <1>0, <2>2, <2>3, FS_EmptySet DEF LimitShape, BucketOf
    <3> QED
      BY <3>1, FS_AddElement
  <2>5. /\ memory'[p] = memory[p] \cup {New(memory[p])} /\ \A q \in ApiProcesses \ {p} : memory'[q] = memory[q]
        /\ memory' = [q \in ApiProcesses |-> memory'[q]]
    BY <1>0, <2>1 DEF LimitShape
  <2>6. \A v \in Vias' : IsFiniteSet(BucketOf(v)')
    BY <1>0, <2>1, <2>2, <2>4, <2>5 DEF LimitShape, BucketOf, Vias
  <2>7. LimitShape'
    <3>1. \A a \in accepted' : a \in accepted \/ a = [via |-> p, at |-> time, nr |-> New(memory[p]).nr]
      BY <2>1 DEF Accept, New
    <3>2. [at |-> time, nr |-> New(memory[p]).nr] \in memory'[p]
      BY <2>5 DEF New
    <3>3. ASSUME NEW a \in accepted'
          PROVE  /\ a.via \in Vias' /\ a = [via |-> a.via, at |-> a.at, nr |-> a.nr] /\ a.at \in Nat
                 /\ [at |-> a.at, nr |-> a.nr] \in BucketOf(a.via)'
      <4>1. CASE a \in accepted
        <5>1. /\ a.via \in Vias /\ a = [via |-> a.via, at |-> a.at, nr |-> a.nr] /\ a.at \in Nat
              /\ [at |-> a.at, nr |-> a.nr] \in BucketOf(a.via)
          BY <1>0, <4>1 DEF LimitShape
        <5>2. BucketOf(a.via) \subseteq BucketOf(a.via)'
          BY <1>0, <2>1, <2>5, <5>1 DEF BucketOf, LimitShape, Vias
        <5> QED
          BY <2>2, <5>1, <5>2
      <4>2. CASE a = [via |-> p, at |-> time, nr |-> New(memory[p]).nr]
        BY <1>0, <2>2, <3>2, <4>2 DEF LimitShape, BucketOf
      <4> QED
        BY <3>1, <4>1, <4>2
    <3> QED
      BY <1>0, <2>1, <2>5, <2>6, <3>3 DEF LimitShape
  <2>8. p \in Vias => InWindow(memory[p]) + 1 <= Limit
    <3> SUFFICES ASSUME p \in Vias PROVE InWindow(memory[p]) + 1 <= Limit
      OBVIOUS
    <3>1. InWindow(memory[p]) < Limit
      BY <1>3, <2>2 DEF RequestInMemory, RedisFails, Vias
    <3>2. InWindow(memory[p]) \in Nat
      BY <1>0, <2>2, ThroughIsEntered DEF BucketOf
    <3> QED
      BY <3>1, <3>2, RateLimitAssumption
  <2>9. EachLimited'
    BY <1>0, <2>1, <2>2, <2>7, <2>8, AcceptStep DEF BucketOf
  <2> QED
    BY <2>7, <2>9 DEF LimitIInv
<1>4. CASE LimitTick
  BY <1>1, <1>4 DEF LimitTick
<1>5. CASE UNCHANGED limitVars
  BY <1>1, <1>5 DEF limitVars
<1> QED
  BY <1>2, <1>3, <1>4, <1>5 DEF LimitNext

LEMMA LimitBegins == LimitInit => LimitIInv
<1> SUFFICES ASSUME LimitInit PROVE LimitIInv
  OBVIOUS
<1>1. accepted = {} /\ \A v \in Vias : BucketOf(v) = {} /\ Through(v) = {}
  BY DEF LimitInit, Vias, BucketOf, Through
<1>2. IsFiniteSet({}) /\ Cardinality({}) = 0
  BY FS_EmptySet
<1>3. time \in Nat /\ redisFailed \subseteq ApiProcesses /\ memory = [p \in ApiProcesses |-> memory[p]]
  BY DEF LimitInit
<1>4. \A p \in ApiProcesses : memory[p] = {}
  BY DEF LimitInit
<1>5. LimitShape
  BY <1>1, <1>2, <1>3, <1>4 DEF LimitShape
<1>6. EachLimited
  BY <1>1, <1>2, RateLimitAssumption DEF EachLimited
<1> QED
  BY <1>5, <1>6 DEF LimitIInv

LEMMA LimitBounds == LimitIInv => AcceptedBounded
<1> SUFFICES ASSUME LimitIInv PROVE AcceptedBounded
  OBVIOUS
<1> DEFINE T   == {a \in accepted : time < a.at + Window}
           own == [a \in T |-> a.via]
<1>1. own \in [T -> Vias]
  BY DEF LimitIInv, LimitShape
<1>2. \A v \in Vias : {a \in T : own[a] = v} = Through(v)
  BY DEF Through
<1>3. IsFiniteSet(redisFailed) /\ "redis" \notin redisFailed
  BY RateLimitAssumption, FS_Subset DEF LimitIInv, LimitShape
<1>4. /\ IsFiniteSet(Vias) /\ Cardinality(Vias) = Cardinality(redisFailed) + 1
      /\ Cardinality(redisFailed) \in Nat
  BY <1>3, FS_AddElement, FS_CardinalityType DEF Vias
<1>5. Cardinality(T) <= Limit * Cardinality(Vias)
  <2>1. \A v \in Vias : /\ IsFiniteSet({a \in T : own[a] = v})
                        /\ Cardinality({a \in T : own[a] = v}) <= Limit
    BY <1>2 DEF LimitIInv, EachLimited
  <2> HIDE DEF T, own
  <2> QED
    BY <1>1, <1>4, <2>1, CountByOwner, RateLimitAssumption
<1>6. Cardinality(Vias) = 1 + Cardinality(redisFailed)
  BY <1>4
<1> QED
  BY <1>5, <1>6 DEF AcceptedBounded, InWindow

(* In any window a client gets the limit through Redis and once more for   *)
(* each process that Redis has failed (reliability/rate_limit.py), for any *)
(* number of processes and any limit and window.                           *)
THEOREM RequestsAreLimited == LimitSpec => []AcceptedBounded
BY LimitBegins, LimitStep, LimitBounds, PTL DEF LimitSpec

(* A provider that fails is left in peace, and a client that asks too much *)
(* is turned away, in every process (reliability/circuit_breaker.py:39,    *)
(* rate_limit.py), beside all the other parts of the platform.             *)
THEOREM LoadIsAlwaysHeldBack == PlatformSpec => []LoadIsHeldBack
<1>1. PlatformInit => BreakerIInv /\ LimitIInv
  BY BreakerBegins, LimitBegins DEF PlatformInit
<1>2. [PlatformNext]_<<part, tenancyVars, billingVars, breakerVars, limitVars, noticeVars, opsVars, wsVars, beatVars>>
        => [BreakerNext]_breakerVars /\ [LimitNext]_limitVars
  BY DEF PlatformNext
<1>3. BreakerIInv /\ LimitIInv => LoadIsHeldBack
  BY LimitBounds DEF BreakerIInv, LoadIsHeldBack
<1> QED
  BY <1>1, <1>2, <1>3, BreakerStep, LimitStep, PTL DEF PlatformSpec

----------------------------------------------------------------------------
(* Members and sites of a workspace, however requests overlap. Rows of     *)
(* members and invitations never go, so what a request read of them stays. *)
Enrolled == {u \in Users : membership[u] # NoRow}

Believed(x) ==
    /\ tenantTxn[x].op = "role" => tenantTxn[x].of \in Enrolled
    /\ tenantTxn[x].op = "accept" => invitation[tenantTxn[x].of] # NoRow
    /\ tenantTxn[x].op = "transfer" => Founder \in tenantTxn[x].of /\ tenantTxn[x].of \subseteq Enrolled

(* Every member but the founder came by an invitation, each by one.        *)
Seated ==
    /\ Enrolled = {Founder} \cup {invitation[i].user : i \in Accepted}
    /\ \A i \in Accepted : invitation[i].user # Founder
    /\ \A i, j \in Accepted : invitation[i].user = invitation[j].user => i = j

(* The founder is active until the transfer, which every transfer begun    *)
(* includes, and never after it.                                           *)
FounderLeaves == Founder \in ActiveMembers <=> owner = "ours"

TenantIInv == TenancyTypeOK /\ Seated /\ FounderLeaves /\ \A x \in TenantTxns : Believed(x)

LEMMA TenantInit == TenancyInit => TenantIInv
<1> SUFFICES ASSUME TenancyInit PROVE TenantIInv
  OBVIOUS
<1> USE TenancyAssumption
<1>1. PICK a \in [Accounts -> [plan : Plans, active : {TRUE}]] : account = a
  BY DEF TenancyInit
<1>2. TenancyTypeOK
  BY <1>1 DEF TenancyInit, TenancyTypeOK, MemberRow, Roles, Accounts
<1>3. /\ membership[Founder] = [role |-> "owner", status |-> "active"]
      /\ membership[Founder] \in MemberRow
      /\ \A u \in Users \ {Founder} : membership[u] = NoRow
  BY DEF TenancyInit, MemberRow, Roles
<1>4. Enrolled = {Founder} /\ Accepted = {}
  BY <1>3 DEF Enrolled, Accepted, TenancyInit
<1>5. Seated /\ FounderLeaves
  BY <1>3, <1>4 DEF Seated, FounderLeaves, ActiveMembers, TenancyInit
<1>6. \A x \in TenantTxns : Believed(x)
  BY DEF TenancyInit, Believed, Free
<1> QED
  BY <1>2, <1>5, <1>6 DEF TenantIInv

(* What most steps leave as it is: who is in and how they came.            *)
LEMMA SeatsStay ==
  ASSUME TenantIInv, UNCHANGED <<membership, invitation, owner>>, TenancyTypeOK',
         \A x \in TenantTxns : Believed(x)'
  PROVE  TenantIInv' /\ \A u \in Users : Revoked(u) => Revoked(u)'
BY DEF TenantIInv, Seated, FounderLeaves, Enrolled, Accepted, ActiveMembers, Revoked

LEMMA CloseEffect ==
  ASSUME TenantIInv, NEW x \in TenantTxns, Close(x), Enrolled \subseteq Enrolled',
         \A i \in Invitations : invitation[i] # NoRow => invitation'[i] # NoRow
  PROVE  /\ tenantTxn' \in [TenantTxns -> {Free} \cup TenantRequest]
         /\ \A y \in TenantTxns : Believed(y)'
<1>1. /\ tenantTxn \in [TenantTxns -> {Free} \cup TenantRequest]
      /\ tenantTxn' = [tenantTxn EXCEPT ![x] = Free]
  BY DEF TenantIInv, TenancyTypeOK, Close
<1>2. tenantTxn'[x].op = "none" /\ \A y \in TenantTxns \ {x} : tenantTxn'[y] = tenantTxn[y]
  BY <1>1 DEF Free
<1>3. \A y \in TenantTxns \ {x} : tenantTxn[y].op = "accept" => tenantTxn[y].of \in Invitations
  BY <1>1 DEF TenantRequest, Free
<1>4. \A y \in TenantTxns \ {x} : Believed(y)'
  BY <1>2, <1>3 DEF TenantIInv, Believed
<1>5. Believed(x)'
  BY <1>2 DEF Believed
<1> QED
  BY <1>1, <1>4, <1>5

LEMMA OpenEffect ==
  ASSUME TenantIInv, NEW x \in TenantTxns, NEW request \in TenantRequest, Open(x, request),
         request.op = "role" => request.of \in Enrolled,
         request.op = "accept" => invitation[request.of] # NoRow,
         request.op = "transfer" => Founder \in request.of /\ request.of \subseteq Enrolled
  PROVE  TenantIInv' /\ \A u \in Users : Revoked(u) => Revoked(u)'
<1>1. /\ tenantTxn \in [TenantTxns -> {Free} \cup TenantRequest]
      /\ tenantTxn' = [tenantTxn EXCEPT ![x] = request]
      /\ UNCHANGED <<membership, invitation, sites, owner, account>>
  BY DEF TenantIInv, TenancyTypeOK, Open
<1>2. tenantTxn'[x] = request /\ \A y \in TenantTxns \ {x} : tenantTxn'[y] = tenantTxn[y]
  BY <1>1
<1>3. \A y \in TenantTxns : Believed(y)'
  BY <1>1, <1>2 DEF TenantIInv, Believed, Enrolled
<1>4. TenancyTypeOK'
  BY <1>1 DEF TenantIInv, TenancyTypeOK
<1> QED
  BY <1>1, <1>3, <1>4, SeatsStay

LEMMA BeginTenant ==
  ASSUME TenantIInv, NEW x \in TenantTxns,
         \/ BeginInvite(x) \/ BeginSite(x) \/ BeginTransfer(x)
         \/ \E i \in Invitations : BeginAccept(x, i)
         \/ \E u \in Users : BeginRole(x, u)
         \/ \E d \in Domains : BeginDomain(x, d)
  PROVE  TenantIInv' /\ \A u \in Users : Revoked(u) => Revoked(u)'
<1>1. CASE BeginInvite(x)
  <2>1. Open(x, [op |-> "invite"]) /\ [op |-> "invite"] \in TenantRequest
    BY <1>1 DEF BeginInvite, TenantRequest
  <2> QED
    BY <2>1, OpenEffect
<1>2. CASE BeginSite(x)
  <2>1. Open(x, [op |-> "site"]) /\ [op |-> "site"] \in TenantRequest
    BY <1>2 DEF BeginSite, TenantRequest
  <2> QED
    BY <2>1, OpenEffect
<1>3. CASE BeginTransfer(x)
  <2> DEFINE request == [op |-> "transfer", of |-> ActiveMembers]
  <2>1. Open(x, request) /\ request \in TenantRequest
    BY <1>3 DEF BeginTransfer, TenantRequest, ActiveMembers
  <2>2. request.op = "transfer" /\ Founder \in request.of /\ request.of \subseteq Enrolled
    BY <1>3 DEF BeginTransfer, TenantIInv, FounderLeaves, ActiveMembers, Enrolled
  <2> HIDE DEF request
  <2> QED
    BY <2>1, <2>2, OpenEffect
<1>4. ASSUME NEW i \in Invitations, BeginAccept(x, i)
      PROVE  TenantIInv' /\ \A u \in Users : Revoked(u) => Revoked(u)'
  <2> DEFINE request == [op |-> "accept", of |-> i]
  <2>1. Open(x, request) /\ request \in TenantRequest
    BY <1>4 DEF BeginAccept, TenantRequest
  <2>2. request.op = "accept" /\ invitation[request.of] # NoRow
    BY <1>4 DEF BeginAccept
  <2> HIDE DEF request
  <2> QED
    BY <2>1, <2>2, OpenEffect
<1>5. ASSUME NEW u \in Users, BeginRole(x, u)
      PROVE  TenantIInv' /\ \A v \in Users : Revoked(v) => Revoked(v)'
  <2> DEFINE request == [op |-> "role", of |-> u]
  <2>1. Open(x, request) /\ request \in TenantRequest
    BY <1>5 DEF BeginRole, TenantRequest
  <2>2. request.op = "role" /\ request.of \in Enrolled
    BY <1>5 DEF BeginRole, Enrolled
  <2> HIDE DEF request
  <2> QED
    BY <2>1, <2>2, OpenEffect
<1>6. ASSUME NEW d \in Domains, BeginDomain(x, d)
      PROVE  TenantIInv' /\ \A v \in Users : Revoked(v) => Revoked(v)'
  <2> DEFINE request == [op |-> "domain", of |-> d]
  <2>1. Open(x, request) /\ request \in TenantRequest /\ request.op = "domain"
    BY <1>6 DEF BeginDomain, TenantRequest
  <2> HIDE DEF request
  <2> QED
    BY <2>1, OpenEffect
<1> QED
  BY <1>1, <1>2, <1>3, <1>4, <1>5, <1>6

(* An acceptance gives a seat to a user who has none: the invitation was   *)
(* not used before, or its user would have one.                            *)
LEMMA AcceptSeats ==
  ASSUME TenantIInv, NEW x \in TenantTxns, CommitAccept(x)
  PROVE  TenantIInv' /\ \A u \in Users : Revoked(u) => Revoked(u)'
<1> USE TenancyAssumption
<1> DEFINE i == tenantTxn[x].of
           u == invitation[i].user
<1>1. tenantTxn[x] \in {Free} \cup TenantRequest /\ tenantTxn[x].op = "accept"
  BY DEF TenantIInv, TenancyTypeOK, CommitAccept
<1>2. i \in Invitations /\ invitation[i] \in InvitationRow
  <2>1. i \in Invitations
    BY <1>1 DEF TenantRequest, Free
  <2>2. invitation[i] # NoRow
    BY <1>1 DEF TenantIInv, Believed
  <2> QED
    BY <2>1, <2>2 DEF TenantIInv, TenancyTypeOK
<1>3. u \in Users /\ invitation[i].role \in InvitedRoles /\ membership[u] = NoRow
  BY <1>2 DEF InvitationRow, CommitAccept
<1> DEFINE place == [role |-> invitation[i].role, status |-> "active"]
           used == [invitation[i] EXCEPT !.status = "accepted"]
<1>4. /\ membership' = [membership EXCEPT ![u] = place]
      /\ invitation' = [invitation EXCEPT ![i] = used]
      /\ Close(x) /\ UNCHANGED <<sites, owner, account>>
  BY DEF CommitAccept, Join
<1>5. place \in MemberRow /\ place # NoRow /\ place.status = "active"
  BY <1>3 DEF MemberRow, Roles
<1>6. used \in InvitationRow /\ used # NoRow /\ used.status = "accepted" /\ used.user = u
  BY <1>2 DEF InvitationRow
<1>7. /\ membership' \in [Users -> {NoRow} \cup MemberRow] /\ membership'[u] = place
      /\ \A v \in Users \ {u} : membership'[v] = membership[v]
  BY <1>3, <1>4, <1>5 DEF TenantIInv, TenancyTypeOK
<1>8. /\ invitation' \in [Invitations -> {NoRow} \cup InvitationRow] /\ invitation'[i] = used
      /\ \A j \in Invitations \ {i} : invitation'[j] = invitation[j]
  BY <1>2, <1>4, <1>6 DEF TenantIInv, TenancyTypeOK
<1> HIDE DEF place, used
<1>9. Enrolled' = Enrolled \cup {u} /\ u \notin Enrolled
  BY <1>3, <1>5, <1>7 DEF Enrolled
<1>10. i \notin Accepted
  <2>1. i \in Accepted => u \in Enrolled
    BY DEF TenantIInv, Seated
  <2> QED
    BY <1>9, <2>1
<1>11. Accepted' = Accepted \cup {i}
  BY <1>2, <1>6, <1>8 DEF Accepted
<1>12. invitation'[i].user = u /\ \A j \in Accepted : invitation'[j].user = invitation[j].user
  BY <1>6, <1>8, <1>10 DEF Accepted
<1> HIDE DEF i, u
<1>13. Seated'
  <2>1. Seated
    BY DEF TenantIInv
  <2>2. u # Founder /\ \A j \in Accepted : invitation[j].user # u
    BY <1>9, <2>1 DEF Seated
  <2>3. {invitation'[j].user : j \in Accepted'} = {invitation[j].user : j \in Accepted} \cup {u}
    BY <1>11, <1>12
  <2>4. Enrolled' = {Founder} \cup {invitation'[j].user : j \in Accepted'}
    BY <1>9, <2>1, <2>3 DEF Seated
  <2>5. \A j \in Accepted' : invitation'[j].user # Founder
    BY <1>11, <1>12, <2>1, <2>2 DEF Seated
  <2>6. \A j, k \in Accepted' : invitation'[j].user = invitation'[k].user => j = k
    BY <1>11, <1>12, <2>1, <2>2 DEF Seated
  <2> QED
    BY <2>4, <2>5, <2>6 DEF Seated
<1>14. FounderLeaves'
  <2>1. Founder \in Enrolled
    BY DEF TenantIInv, Seated
  <2>2. membership'[Founder] = membership[Founder]
    BY <1>7, <1>9, <2>1
  <2> QED
    BY <1>4, <2>2 DEF TenantIInv, FounderLeaves, ActiveMembers
<1>15. /\ tenantTxn' \in [TenantTxns -> {Free} \cup TenantRequest]
       /\ \A y \in TenantTxns : Believed(y)'
  <2>1. \A j \in Invitations : invitation[j] # NoRow => invitation'[j] # NoRow
    BY <1>6, <1>8
  <2> QED
    BY <1>4, <1>9, <2>1, CloseEffect
<1>16. TenancyTypeOK'
  BY <1>4, <1>7, <1>8, <1>15 DEF TenantIInv, TenancyTypeOK
<1>17. \A v \in Users : Revoked(v) => Revoked(v)'
  BY <1>3, <1>7 DEF Revoked
<1> QED
  BY <1>13, <1>14, <1>15, <1>16, <1>17 DEF TenantIInv

(* A change of role changes the role only, of a row of any status.         *)
LEMMA RoleSeats ==
  ASSUME TenantIInv, NEW x \in TenantTxns, CommitRole(x)
  PROVE  TenantIInv' /\ \A u \in Users : Revoked(u) => Revoked(u)'
<1> USE TenancyAssumption
<1>1. PICK u \in Users, role \in InvitedRoles :
        /\ membership' = [membership EXCEPT ![u].role = role] /\ membership[u] # NoRow
        /\ Close(x) /\ UNCHANGED <<invitation, sites, owner, account>>
  <2>1. tenantTxn[x] \in {Free} \cup TenantRequest /\ tenantTxn[x].op = "role"
    BY DEF TenantIInv, TenancyTypeOK, CommitRole
  <2>2. tenantTxn[x].of \in Users
    BY <2>1 DEF TenantRequest, Free
  <2>3. membership[tenantTxn[x].of] # NoRow
    BY <2>1 DEF TenantIInv, Believed, Enrolled
  <2> QED
    BY <2>2, <2>3 DEF CommitRole
<1>2. membership[u] \in MemberRow
  BY <1>1 DEF TenantIInv, TenancyTypeOK
<1> DEFINE row == [membership[u] EXCEPT !.role = role]
<1>3. row \in MemberRow /\ row # NoRow /\ row.status = membership[u].status
  BY <1>2 DEF MemberRow, Roles
<1>4. /\ membership' \in [Users -> {NoRow} \cup MemberRow] /\ membership'[u] = row
      /\ \A v \in Users \ {u} : membership'[v] = membership[v]
  BY <1>1, <1>3 DEF TenantIInv, TenancyTypeOK
<1> HIDE DEF row
<1>5. Enrolled' = Enrolled /\ ActiveMembers' = ActiveMembers /\ Accepted' = Accepted
  BY <1>1, <1>3, <1>4 DEF Enrolled, ActiveMembers, Accepted
<1>6. /\ tenantTxn' \in [TenantTxns -> {Free} \cup TenantRequest]
      /\ \A y \in TenantTxns : Believed(y)'
  BY <1>1, <1>5, CloseEffect
<1>7. TenancyTypeOK'
  BY <1>1, <1>4, <1>6 DEF TenantIInv, TenancyTypeOK
<1>8. Seated' /\ FounderLeaves'
  BY <1>1, <1>5 DEF TenantIInv, Seated, FounderLeaves
<1>9. \A v \in Users : Revoked(v) => Revoked(v)'
  BY <1>1, <1>3, <1>4 DEF Revoked
<1> QED
  BY <1>6, <1>7, <1>8, <1>9 DEF TenantIInv

(* A transfer revokes rows, the founder's among them.                      *)
LEMMA TransferSeats ==
  ASSUME TenantIInv, NEW x \in TenantTxns, CommitTransfer(x)
  PROVE  TenantIInv' /\ \A u \in Users : Revoked(u) => Revoked(u)'
<1> USE TenancyAssumption
<1> DEFINE of == tenantTxn[x].of
<1>1. Founder \in of /\ of \subseteq Enrolled
  BY DEF TenantIInv, Believed, CommitTransfer
<1>2. /\ owner' = "theirs" /\ Close(x) /\ UNCHANGED <<invitation, sites, account>>
      /\ membership' = [u \in Users |-> IF u \in of THEN [membership[u] EXCEPT !.status = "revoked"]
                                                    ELSE membership[u]]
  BY DEF CommitTransfer
<1>3. \A u \in Users : membership[u] \in {NoRow} \cup MemberRow
  BY DEF TenantIInv, TenancyTypeOK
<1>4. \A u \in of : u \in Users /\ membership[u] # NoRow
  BY <1>1 DEF Enrolled
<1> HIDE DEF of
<1>5. \A u \in of : /\ membership'[u] \in MemberRow /\ membership'[u] # NoRow
                    /\ membership'[u].status = "revoked"
  BY <1>2, <1>3, <1>4 DEF MemberRow
<1>6. \A u \in Users \ of : membership'[u] = membership[u]
  BY <1>2
<1>7. membership' \in [Users -> {NoRow} \cup MemberRow]
  BY <1>2, <1>3, <1>5, <1>6
<1>8. Enrolled' = Enrolled /\ Accepted' = Accepted
  BY <1>2, <1>4, <1>5, <1>6 DEF Enrolled, Accepted
<1>9. /\ tenantTxn' \in [TenantTxns -> {Free} \cup TenantRequest]
      /\ \A y \in TenantTxns : Believed(y)'
  BY <1>2, <1>8, CloseEffect
<1>10. TenancyTypeOK'
  BY <1>2, <1>7, <1>9 DEF TenantIInv, TenancyTypeOK, Accounts
<1>11. Seated' /\ FounderLeaves'
  BY <1>1, <1>2, <1>5, <1>8 DEF TenantIInv, Seated, FounderLeaves, ActiveMembers
<1>12. \A u \in Users : Revoked(u) => Revoked(u)'
  BY <1>5, <1>6 DEF Revoked
<1> QED
  BY <1>9, <1>10, <1>11, <1>12 DEF TenantIInv

(* The steps that leave the seats alone.                                   *)
LEMMA OtherTenant ==
  ASSUME TenantIInv,
         \/ \E i \in Invitations : ExpireInvitation(i)
         \/ \E a \in Accounts : ChangeAccount(a)
         \/ \E x \in TenantTxns : CommitInvite(x) \/ CommitSite(x) \/ CommitDomain(x) \/ AbortTenant(x)
         \/ UNCHANGED tenancyVars
  PROVE  TenantIInv' /\ \A u \in Users : Revoked(u) => Revoked(u)'
<1> USE TenancyAssumption
<1>1. CASE UNCHANGED tenancyVars
  BY <1>1 DEF tenancyVars, TenantIInv, TenancyTypeOK, Seated, FounderLeaves, Believed, Enrolled, Accepted,
     ActiveMembers, Revoked
<1>2. ASSUME NEW a \in Accounts, ChangeAccount(a)
      PROVE  TenantIInv' /\ \A u \in Users : Revoked(u) => Revoked(u)'
  <2>1. PICK plan \in Plans, active \in BOOLEAN :
          account' = [account EXCEPT ![a] = [plan |-> plan, active |-> active]]
    BY <1>2 DEF ChangeAccount
  <2>2. account' \in [Accounts -> [plan : Plans, active : BOOLEAN]]
    BY <2>1 DEF TenantIInv, TenancyTypeOK
  <2>3. TenancyTypeOK' /\ \A x \in TenantTxns : Believed(x)'
    BY <1>2, <2>2 DEF TenantIInv, TenancyTypeOK, ChangeAccount, Believed, Enrolled
  <2> QED
    BY <1>2, <2>3, SeatsStay DEF ChangeAccount
<1>3. ASSUME NEW x \in TenantTxns, CommitSite(x) \/ CommitDomain(x) \/ AbortTenant(x)
      PROVE  TenantIInv' /\ \A u \in Users : Revoked(u) => Revoked(u)'
  <2>1. Close(x) /\ UNCHANGED <<membership, invitation, owner, account>> /\ sites' \subseteq Domains
    BY <1>3 DEF CommitSite, CommitDomain, AbortTenant, TenantIInv, TenancyTypeOK
  <2>2. /\ tenantTxn' \in [TenantTxns -> {Free} \cup TenantRequest]
        /\ \A y \in TenantTxns : Believed(y)'
    <3>1. Enrolled \subseteq Enrolled'
      BY <2>1 DEF Enrolled
    <3> QED
      BY <2>1, <3>1, CloseEffect
  <2>3. TenancyTypeOK'
    BY <2>1, <2>2 DEF TenantIInv, TenancyTypeOK
  <2> QED
    BY <2>1, <2>2, <2>3, SeatsStay
<1>4. ASSUME NEW i \in Invitations, NEW row, invitation' = [invitation EXCEPT ![i] = row],
             row \in InvitationRow,
             \/ invitation[i] = NoRow /\ row.status = "pending"
             \/ /\ invitation[i] \in InvitationRow
                /\ row.status = invitation[i].status /\ row.user = invitation[i].user,
             UNCHANGED <<membership, sites, owner, account>>,
             UNCHANGED tenantTxn \/ \E x \in TenantTxns : Close(x)
      PROVE  TenantIInv' /\ \A u \in Users : Revoked(u) => Revoked(u)'
  <2>1. /\ invitation' \in [Invitations -> {NoRow} \cup InvitationRow] /\ invitation'[i] = row
        /\ \A j \in Invitations \ {i} : invitation'[j] = invitation[j]
    BY <1>4 DEF TenantIInv, TenancyTypeOK
  <2>2. row # NoRow
    BY <1>4
  <2>3. Accepted' = Accepted /\ \A j \in Accepted : invitation'[j].user = invitation[j].user
    BY <1>4, <2>1, <2>2 DEF Accepted
  <2>4. Enrolled' = Enrolled /\ ActiveMembers' = ActiveMembers
    BY <1>4 DEF Enrolled, ActiveMembers
  <2>5. Seated' /\ FounderLeaves'
    <3>1. {invitation'[j].user : j \in Accepted'} = {invitation[j].user : j \in Accepted}
      BY <2>3
    <3> QED
      BY <1>4, <2>3, <2>4, <3>1 DEF TenantIInv, Seated, FounderLeaves
  <2>6. /\ tenantTxn' \in [TenantTxns -> {Free} \cup TenantRequest]
        /\ \A y \in TenantTxns : Believed(y)'
    <3>1. \A j \in Invitations : invitation[j] # NoRow => invitation'[j] # NoRow
      BY <2>1, <2>2
    <3>2. CASE UNCHANGED tenantTxn
      <4>1. \A y \in TenantTxns : tenantTxn[y].op = "accept" => tenantTxn[y].of \in Invitations
        BY DEF TenantIInv, TenancyTypeOK, TenantRequest, Free
      <4> QED
        BY <2>4, <3>1, <3>2, <4>1 DEF TenantIInv, TenancyTypeOK, Believed
    <3>3. CASE \E x \in TenantTxns : Close(x)
      BY <2>4, <3>1, <3>3, CloseEffect
    <3> QED
      BY <1>4, <3>2, <3>3
  <2>7. TenancyTypeOK'
    BY <1>4, <2>1, <2>6 DEF TenantIInv, TenancyTypeOK
  <2>8. \A u \in Users : Revoked(u) => Revoked(u)'
    BY <1>4 DEF Revoked
  <2> QED
    BY <2>5, <2>6, <2>7, <2>8 DEF TenantIInv
<1>5. ASSUME NEW x \in TenantTxns, CommitInvite(x)
      PROVE  TenantIInv' /\ \A u \in Users : Revoked(u) => Revoked(u)'
  <2>1. PICK i \in Invitations, u \in Users, role \in InvitedRoles :
          /\ invitation[i] = NoRow
          /\ invitation' = [invitation EXCEPT ![i] =
                 [user |-> u, role |-> role, status |-> "pending", expired |-> FALSE]]
    BY <1>5 DEF CommitInvite
  <2> DEFINE row == [user |-> u, role |-> role, status |-> "pending", expired |-> FALSE]
  <2>2. row \in InvitationRow /\ row.status = "pending"
    BY DEF InvitationRow
  <2>3. Close(x) /\ UNCHANGED <<membership, sites, owner, account>>
    BY <1>5 DEF CommitInvite
  <2>4. invitation' = [invitation EXCEPT ![i] = row] /\ invitation[i] = NoRow
    BY <2>1
  <2> HIDE DEF row
  <2> QED
    BY <1>4, <2>2, <2>3, <2>4
<1>6. ASSUME NEW i \in Invitations, ExpireInvitation(i)
      PROVE  TenantIInv' /\ \A u \in Users : Revoked(u) => Revoked(u)'
  <2> DEFINE row == [invitation[i] EXCEPT !.expired = TRUE]
  <2>1. invitation[i] \in InvitationRow
    BY <1>6 DEF ExpireInvitation, TenantIInv, TenancyTypeOK
  <2>2. row \in InvitationRow /\ row.status = invitation[i].status /\ row.user = invitation[i].user
    BY <2>1 DEF InvitationRow
  <2>3. /\ invitation' = [invitation EXCEPT ![i] = row]
        /\ UNCHANGED <<membership, sites, owner, account, tenantTxn>>
    BY <1>6 DEF ExpireInvitation
  <2> HIDE DEF row
  <2> QED
    BY <1>4, <2>1, <2>2, <2>3
<1> QED
  BY <1>1, <1>2, <1>3, <1>5, <1>6

LEMMA TenantStep ==
  ASSUME TenantIInv, [TenancyNext]_tenancyVars
  PROVE  TenantIInv' /\ \A u \in Users : Revoked(u) => Revoked(u)'
BY BeginTenant, AcceptSeats, RoleSeats, TransferSeats, OtherTenant DEF TenancyNext

(* One user per accepted invitation, and the founder: the count.           *)
LEMMA SeatsAreCounted == TenantIInv => OneSeatPerInvitation
<1> SUFFICES ASSUME TenantIInv PROVE OneSeatPerInvitation
  OBVIOUS
<1> DEFINE Joined == {invitation[i].user : i \in Accepted}
           place == [i \in Accepted |-> invitation[i].user]
<1>1. /\ Enrolled = {Founder} \cup Joined /\ Founder \notin Joined
      /\ \A i, j \in Accepted : invitation[i].user = invitation[j].user => i = j
  BY DEF TenantIInv, Seated
<1>2. place \in Bijection(Accepted, Joined)
  BY <1>1 DEF Bijection, Injection, Surjection, IsInjective
<1>3. IsFiniteSet(Joined) /\ Joined \subseteq Users
  <2>1. Joined \subseteq Users
    BY <1>1 DEF Enrolled
  <2> QED
    BY <2>1, TenancyAssumption, FS_Subset
<1>4. ExistsBijection(Joined, Accepted)
  <2>1. ExistsBijection(Accepted, Joined)
    BY <1>2 DEF ExistsBijection
  <2> HIDE DEF Joined
  <2> QED
    BY <2>1, Fun_ExistsBijSymmetric
<1> HIDE DEF Joined, place
<1>5. Cardinality(Accepted) = Cardinality(Joined)
  BY <1>3, <1>4, FS_Bijection, FS_CardinalityType
<1>6. Cardinality(Enrolled) = Cardinality(Joined) + 1
  <2>1. Enrolled = Joined \cup {Founder}
    BY <1>1
  <2> QED
    BY <1>1, <1>3, <2>1, FS_AddElement
<1>7. Cardinality(Joined) \in Nat
  BY <1>3, FS_CardinalityType
<1> QED
  BY <1>1, <1>5, <1>6, <1>7 DEF OneSeatPerInvitation, Enrolled, Joined

(* Each request for a site that was let through adds one site at most to   *)
(* those it counted, and there are no more of them than open requests.     *)
Siting == {x \in TenantTxns : tenantTxn[x].op = "site"}

NearLimit ==
    /\ sites \subseteq Domains
    /\ \E p \in Plans :
         Cardinality(sites) + Cardinality(Siting) <= SiteLimit[p] + Cardinality(TenantTxns) - 1

LEMMA SitingIsFinite == IsFiniteSet(Siting) /\ Cardinality(Siting) \in Nat
BY TenancyAssumption, FS_Subset, FS_CardinalityType DEF Siting

LEMMA SitesAreFinite ==
  ASSUME NEW S, S \subseteq Domains
  PROVE  IsFiniteSet(S) /\ Cardinality(S) \in Nat
BY TenancyAssumption, FS_Subset, FS_CardinalityType

(* No more sites and no more of these requests: the bound stays.           *)
LEMMA NoMoreSites ==
  ASSUME NearLimit, sites' \subseteq Domains, Cardinality(sites') <= Cardinality(sites), Siting' \subseteq Siting
  PROVE  NearLimit'
<1>1. /\ Cardinality(Siting') <= Cardinality(Siting)
      /\ Cardinality(Siting) \in Nat /\ Cardinality(Siting') \in Nat
  BY SitingIsFinite, FS_Subset, FS_CardinalityType
<1>2. Cardinality(sites) \in Nat /\ Cardinality(sites') \in Nat
  BY SitesAreFinite DEF NearLimit
<1>3. PICK p \in Plans :
        Cardinality(sites) + Cardinality(Siting) <= SiteLimit[p] + Cardinality(TenantTxns) - 1
  BY DEF NearLimit
<1>4. SiteLimit[p] \in Nat /\ Cardinality(TenantTxns) \in Nat
  BY TenancyAssumption, FS_CardinalityType
<1>5. Cardinality(sites') + Cardinality(Siting') <= SiteLimit[p] + Cardinality(TenantTxns) - 1
  BY <1>1, <1>2, <1>3, <1>4
<1> QED
  BY <1>5 DEF NearLimit

(* The requests besides one that opens or ends.                            *)
LEMMA SitingFollows ==
  ASSUME TenantIInv, NEW x \in TenantTxns
  PROVE  /\ Close(x) => Siting' = Siting \ {x}
         /\ \A request : Open(x, request) =>
              /\ x \notin Siting
              /\ Siting' = IF request.op = "site" THEN Siting \cup {x} ELSE Siting
<1>1. tenantTxn = [y \in TenantTxns |-> tenantTxn[y]]
  BY DEF TenantIInv, TenancyTypeOK
<1> QED
  BY <1>1 DEF Siting, Close, Open, Free

LEMMA NearLimitStep ==
  ASSUME TenantIInv, NearLimit, [TenancyNext]_tenancyVars
  PROVE  NearLimit'
<1>1. CASE UNCHANGED tenancyVars
  BY <1>1 DEF tenancyVars, NearLimit, Siting
<1>2. CASE \/ \E i \in Invitations : ExpireInvitation(i)
           \/ \E a \in Accounts : ChangeAccount(a)
  BY <1>2 DEF ExpireInvitation, ChangeAccount, NearLimit, Siting
<1>3. ASSUME NEW x \in TenantTxns, Close(x), UNCHANGED sites PROVE NearLimit'
  <2>1. Siting' \subseteq Siting
    BY <1>3, SitingFollows
  <2>2. Cardinality(sites') <= Cardinality(sites) /\ sites' \subseteq Domains
    BY <1>3, SitesAreFinite DEF NearLimit
  <2> QED
    BY <2>1, <2>2, NoMoreSites
<1>4. ASSUME NEW x \in TenantTxns, NEW request, Open(x, request), request.op # "site" PROVE NearLimit'
  <2>1. Siting' = Siting
    BY <1>4, SitingFollows
  <2>2. Cardinality(sites') <= Cardinality(sites) /\ sites' \subseteq Domains
    BY <1>4, SitesAreFinite DEF NearLimit, Open
  <2> QED
    BY <2>1, <2>2, NoMoreSites
<1>5. ASSUME NEW x \in TenantTxns, CommitSite(x) PROVE NearLimit'
  <2>1. PICK d \in Domains \ sites : sites' = sites \cup {d}
    BY <1>5 DEF CommitSite
  <2>2. IsFiniteSet(sites) /\ Cardinality(sites) \in Nat /\ sites' \subseteq Domains
    BY <2>1, SitesAreFinite DEF NearLimit
  <2>3. Cardinality(sites') = Cardinality(sites) + 1
    BY <2>1, <2>2, FS_AddElement
  <2>4. x \in Siting /\ Siting' = Siting \ {x}
    BY <1>5, SitingFollows DEF CommitSite, Siting
  <2>5. Cardinality(Siting') = Cardinality(Siting) - 1 /\ Cardinality(Siting) \in Nat
    BY <2>4, SitingIsFinite, FS_RemoveElement
  <2>6. Cardinality(sites') + Cardinality(Siting') = Cardinality(sites) + Cardinality(Siting)
    BY <2>2, <2>3, <2>5
  <2> QED
    BY <2>2, <2>6 DEF NearLimit
<1>6. ASSUME NEW x \in TenantTxns, CommitDomain(x) PROVE NearLimit'
  <2> DEFINE old == tenantTxn[x].of
  <2>1. old \in sites /\ Siting' \subseteq Siting
    BY <1>6, SitingFollows DEF CommitDomain
  <2>2. PICK d \in Domains \ sites : sites' = (sites \ {old}) \cup {d}
    BY <1>6 DEF CommitDomain
  <2> HIDE DEF old
  <2>3. IsFiniteSet(sites) /\ Cardinality(sites) \in Nat /\ sites' \subseteq Domains
    BY <2>2, SitesAreFinite DEF NearLimit
  <2>4. IsFiniteSet(sites \ {old}) /\ Cardinality(sites \ {old}) = Cardinality(sites) - 1
    BY <2>1, <2>3, FS_RemoveElement
  <2>5. Cardinality(sites') = Cardinality(sites)
    <3>1. PICK S : S = sites \ {old}
      OBVIOUS
    <3>2. IsFiniteSet(S) /\ d \notin S /\ Cardinality(S) = Cardinality(sites) - 1
      BY <2>4, <3>1
    <3>3. Cardinality(S \cup {d}) = Cardinality(S) + 1
      BY <3>2, FS_AddElement
    <3> QED
      BY <2>2, <2>3, <3>1, <3>2, <3>3
  <2> QED
    BY <2>1, <2>3, <2>5, NoMoreSites
<1>7. ASSUME NEW x \in TenantTxns, BeginSite(x) PROVE NearLimit'
  <2>1. Open(x, [op |-> "site"]) /\ Cardinality(sites) < SiteLimit[Plan] /\ UNCHANGED sites
    BY <1>7 DEF BeginSite, Open
  <2>2. Plan \in Plans
    BY DEF TenantIInv, TenancyTypeOK, Plan
  <2>3. PICK p \in Plans : p = Plan
    BY <2>2
  <2>4. SiteLimit[p] \in Nat /\ Cardinality(sites) \in Nat /\ Cardinality(sites) <= SiteLimit[p] - 1
    BY <2>1, <2>3, TenancyAssumption, SitesAreFinite DEF NearLimit
  <2>5. /\ Cardinality(Siting') <= Cardinality(TenantTxns) /\ Cardinality(Siting') \in Nat
        /\ Cardinality(TenantTxns) \in Nat
    <3>1. Siting' \subseteq TenantTxns
      BY DEF Siting
    <3> QED
      BY <3>1, TenancyAssumption, FS_Subset, FS_CardinalityType
  <2>6. Cardinality(sites) + Cardinality(Siting') <= SiteLimit[p] + Cardinality(TenantTxns) - 1
    BY <2>4, <2>5
  <2> QED
    BY <2>1, <2>6 DEF NearLimit
<1>8. ASSUME NEW x \in TenantTxns,
             \/ BeginInvite(x) \/ BeginTransfer(x)
             \/ \E i \in Invitations : BeginAccept(x, i)
             \/ \E u \in Users : BeginRole(x, u)
             \/ \E d \in Domains : BeginDomain(x, d)
      PROVE  NearLimit'
  <2>1. CASE BeginInvite(x)
    BY <1>4, <2>1 DEF BeginInvite
  <2>2. CASE BeginTransfer(x)
    BY <1>4, <2>2 DEF BeginTransfer
  <2>3. CASE \E i \in Invitations : BeginAccept(x, i)
    BY <1>4, <2>3 DEF BeginAccept
  <2>4. CASE \E u \in Users : BeginRole(x, u)
    BY <1>4, <2>4 DEF BeginRole
  <2>5. CASE \E d \in Domains : BeginDomain(x, d)
    BY <1>4, <2>5 DEF BeginDomain
  <2> QED
    BY <1>8, <2>1, <2>2, <2>3, <2>4, <2>5
<1>9. ASSUME NEW x \in TenantTxns,
             CommitInvite(x) \/ CommitAccept(x) \/ CommitRole(x) \/ CommitTransfer(x) \/ AbortTenant(x)
      PROVE  NearLimit'
  <2>1. Close(x) /\ UNCHANGED sites
    BY <1>9 DEF CommitInvite, CommitAccept, Join, CommitRole, CommitTransfer, AbortTenant
  <2> QED
    BY <1>3, <2>1
<1> QED
  BY <1>1, <1>2, <1>5, <1>6, <1>7, <1>8, <1>9 DEF TenancyNext

LEMMA NearLimitInit == TenantTxns # {} /\ TenancyInit => NearLimit
<1> SUFFICES ASSUME TenantTxns # {}, TenancyInit PROVE NearLimit
  OBVIOUS
<1>1. sites = {} /\ Siting = {}
  BY DEF TenancyInit, Siting, Free
<1>2. Cardinality(sites) = 0 /\ Cardinality(Siting) = 0
  BY <1>1, FS_EmptySet
<1>3. PICK p \in Plans : TRUE
  <2>1. account["ours"].plan \in Plans
    BY DEF TenancyInit, Accounts
  <2> QED
    BY <2>1
<1>4. Cardinality(TenantTxns) \in Nat /\ Cardinality(TenantTxns) # 0
  BY TenancyAssumption, FS_CardinalityType, FS_EmptySet
<1>5. SiteLimit[p] \in Nat
  BY TenancyAssumption
<1>6. Cardinality(sites) + Cardinality(Siting) <= SiteLimit[p] + Cardinality(TenantTxns) - 1
  BY <1>2, <1>4, <1>5
<1> QED
  BY <1>1, <1>6 DEF NearLimit

LEMMA LimitIsNear == NearLimit => SitesNearLimit
<1> SUFFICES ASSUME NearLimit PROVE SitesNearLimit
  OBVIOUS
<1>1. PICK p \in Plans :
        Cardinality(sites) + Cardinality(Siting) <= SiteLimit[p] + Cardinality(TenantTxns) - 1
  BY DEF NearLimit
<1>2. /\ SiteLimit[p] \in Nat /\ Cardinality(TenantTxns) \in Nat /\ Cardinality(Siting) \in Nat
      /\ Cardinality(sites) \in Nat
  BY TenancyAssumption, FS_CardinalityType, SitingIsFinite, SitesAreFinite DEF NearLimit
<1>3. Cardinality(sites) <= SiteLimit[p] + Cardinality(TenantTxns) - 1
  BY <1>1, <1>2
<1> QED
  BY <1>3 DEF SitesNearLimit

(* However many users, invitations and requests there are, and however     *)
(* they overlap: one seat per accepted invitation, no more sites than the  *)
(* limit and one for each request but the first, and nobody whose access a *)
(* transfer ended comes back.                                              *)
THEOREM MembershipAlwaysHolds == TenantTxns # {} /\ TenancySpec => MembershipHolds
<1> SUFFICES ASSUME TenantTxns # {} PROVE TenancySpec => MembershipHolds
  OBVIOUS
<1>1. TenancyInit => TenantIInv /\ NearLimit
  BY TenantInit, NearLimitInit
<1>2. ASSUME TenantIInv, NearLimit, [TenancyNext]_tenancyVars
      PROVE  /\ TenantIInv' /\ NearLimit'
             /\ [/\ OneSeatPerInvitation' /\ SitesNearLimit' /\ TransferRevokesFounder'
                 /\ \A u \in Users : Revoked(u) => Revoked(u)']_tenancyVars
  <2>1. TenantIInv' /\ NearLimit' /\ \A u \in Users : Revoked(u) => Revoked(u)'
    BY <1>2, TenantStep, NearLimitStep
  <2>2. OneSeatPerInvitation'
    BY <2>1, SeatsAreCounted, PTL
  <2>3. SitesNearLimit'
    BY <2>1, LimitIsNear, PTL
  <2>4. TransferRevokesFounder'
    BY <2>1 DEF TenantIInv, FounderLeaves, TransferRevokesFounder
  <2> QED
    BY <2>1, <2>2, <2>3, <2>4
<1> QED
  BY <1>1, <1>2, PTL DEF TenancySpec, MembershipHolds

----------------------------------------------------------------------------
(* The types of the platform, component by component. The breaker: a       *)
(* circuit opened within the behaviour, and never counts more failures     *)
(* than open it.                                                           *)
BreakerTyped ==
    BreakerIInv /\ second <= BreakerSeconds /\ \A p \in Processes : circuit[p].at <= BreakerSeconds

LEMMA BreakerTypedInit == BreakerInit => BreakerTyped
BY BreakerBegins, BreakerAssumption DEF BreakerInit, BreakerTyped, Closed

LEMMA BreakerTypedStep == BreakerTyped /\ [BreakerNext]_breakerVars => BreakerTyped'
<1> SUFFICES ASSUME BreakerTyped, [BreakerNext]_breakerVars PROVE BreakerTyped'
  OBVIOUS
<1>0. BreakerIInv /\ BreakerIInv'
  BY BreakerStep DEF BreakerTyped
<1> USE BreakerAssumption DEF BreakerTyped, BreakerIInv, CircuitShape
<1>1. CASE BreakerTick
  BY <1>0, <1>1 DEF BreakerTick
<1>2. ASSUME NEW p \in Processes, CallProvider(p) PROVE BreakerTyped'
  BY <1>0, <1>2 DEF CallProvider, Closed
<1>3. ASSUME NEW p \in Processes, ProviderAnswers(p) PROVE BreakerTyped'
  BY <1>0, <1>3 DEF ProviderAnswers, Closed
<1>4. ASSUME NEW p \in Processes, ProviderFails(p) PROVE BreakerTyped'
  BY <1>0, <1>4 DEF ProviderFails
<1>5. ASSUME NEW p \in Processes, CallEndsUntold(p) \/ ProcessRestarts(p) PROVE BreakerTyped'
  BY <1>0, <1>5 DEF CallEndsUntold, ProcessRestarts, Closed
<1>6. CASE UNCHANGED breakerVars
  BY <1>0, <1>6 DEF breakerVars
<1> QED
  BY <1>1, <1>2, <1>3, <1>4, <1>5, <1>6 DEF BreakerNext

LEMMA BreakerTypes == BreakerTyped => BreakerTypeOK
<1> SUFFICES ASSUME BreakerTyped PROVE BreakerTypeOK
  OBVIOUS
<1> USE BreakerAssumption DEF BreakerTyped, BreakerIInv, CircuitShape, NoCallInOpenCircuit
<1>1. circuit \in [Processes -> [failures : Nat, opened : BOOLEAN, at : 0 .. BreakerSeconds]]
  OBVIOUS
<1>2. \A p \in Processes : circuit[p].opened <=> circuit[p].failures >= FAILURE_THRESHOLD
  OBVIOUS
<1> QED
  BY <1>1, <1>2 DEF BreakerTypeOK

(* The rate limit: the number of an entry is that of a finite bucket.      *)
LimitTyped == LimitIInv /\ LimitTypeOK

LEMMA LimitTypedInit == LimitInit => LimitTyped
BY LimitBegins, RateLimitAssumption DEF LimitInit, LimitTyped, LimitTypeOK, Bucket, Passed, Seconds

LEMMA NewIsTyped ==
    ASSUME LimitTypeOK, NEW bucket \in Bucket, IsFiniteSet(bucket)
    PROVE  New(bucket) \in [at : Seconds, nr : Nat]
<1>1. Cardinality(bucket) \in Nat
  BY FS_CardinalityType
<1> QED
  BY <1>1 DEF New, LimitTypeOK

LEMMA LimitTypedStep == LimitTyped /\ [LimitNext]_limitVars => LimitTyped'
<1> SUFFICES ASSUME LimitTyped, [LimitNext]_limitVars PROVE LimitTypeOK'
  BY LimitStep DEF LimitTyped
<1>0. LimitTypeOK /\ LimitShape
  BY DEF LimitTyped, LimitIInv
<1>a. IsFiniteSet(redis) /\ \A p \in ApiProcesses : IsFiniteSet(memory[p])
  <2>1. ASSUME NEW p \in ApiProcesses PROVE IsFiniteSet(memory[p])
    <3>1. CASE p \in redisFailed
      BY <1>0, <3>1, RateLimitAssumption DEF LimitShape, Vias, BucketOf
    <3>2. CASE p \notin redisFailed
      BY <1>0, <3>2, FS_EmptySet DEF LimitShape
    <3> QED BY <3>1, <3>2
  <2> QED BY <1>0, <2>1 DEF LimitShape, Vias, BucketOf
<1>b. ASSUME NEW via \in ApiProcesses \cup {"redis"}, NEW bucket \in Bucket, IsFiniteSet(bucket),
             Accept(via, bucket)
      PROVE  accepted' \subseteq Passed
  <2>1. New(bucket) \in [at : Seconds, nr : Nat]
    BY <1>0, <1>b, NewIsTyped
  <2> HIDE DEF Seconds
  <2>2. [via |-> via, at |-> New(bucket).at, nr |-> New(bucket).nr] \in Passed
    BY <2>1 DEF Passed
  <2> QED BY <1>0, <1>b, <2>2 DEF Accept, LimitTypeOK
<1>c. ASSUME NEW p \in ApiProcesses, Accept(p, memory[p]), memory' = [memory EXCEPT ![p] = @ \cup {New(@)}]
      PROVE  accepted' \subseteq Passed /\ memory' \in [ApiProcesses -> Bucket]
  <2>1. memory[p] \in Bucket
    BY <1>0 DEF LimitTypeOK
  <2>2. New(memory[p]) \in [at : Seconds, nr : Nat]
    BY <1>0, <1>a, <2>1, NewIsTyped
  <2>3. memory[p] \cup {New(memory[p])} \in Bucket
    BY <2>1, <2>2 DEF Bucket
  <2> QED BY <1>0, <1>a, <1>b, <1>c, <2>1, <2>3 DEF LimitTypeOK
<1>1. CASE LimitTick
  BY <1>0, <1>1, RateLimitAssumption DEF LimitTick, LimitTypeOK, Seconds
<1>2. ASSUME NEW p \in ApiProcesses, RequestViaRedis(p) PROVE LimitTypeOK'
  <2>1. New(redis) \in [at : Seconds, nr : Nat]
    BY <1>0, <1>a, NewIsTyped DEF LimitTypeOK
  <2>2. redis' \in Bucket
    BY <1>0, <1>2, <2>1 DEF RequestViaRedis, LimitTypeOK, Bucket
  <2>3. accepted' \subseteq Passed
    BY <1>0, <1>2, <1>a, <1>b DEF RequestViaRedis, LimitTypeOK
  <2> QED BY <1>0, <1>2, <2>2, <2>3 DEF RequestViaRedis, LimitTypeOK
<1>3. ASSUME NEW p \in ApiProcesses, RequestInMemory(p) PROVE LimitTypeOK'
  BY <1>0, <1>3, <1>c DEF RequestInMemory, LimitTypeOK
<1>4. ASSUME NEW p \in ApiProcesses, RedisFails(p) PROVE LimitTypeOK'
  BY <1>0, <1>4, <1>c DEF RedisFails, LimitTypeOK
<1>5. CASE UNCHANGED limitVars
  BY <1>0, <1>5 DEF limitVars, LimitTypeOK
<1> QED
  BY <1>1, <1>2, <1>3, <1>4, <1>5 DEF LimitTyped, LimitNext

(* Notifications: no more than MaxNews of them are ever begun.             *)
LEMMA NotesTypedInit == NotificationsInit => NotificationsTypeOK
BY NotificationsAssumption DEF NotificationsInit, NotificationsTypeOK, Hours

LEMMA NotesTypedStep == NotificationsTypeOK /\ [NotificationsNext]_noticeVars => NotificationsTypeOK'
<1> SUFFICES ASSUME NotificationsTypeOK, [NotificationsNext]_noticeVars PROVE NotificationsTypeOK'
  OBVIOUS
<1> USE NotificationsAssumption
<1>1. CASE HourPasses
  BY <1>1 DEF HourPasses, NotificationsTypeOK, Hours
<1>2. ASSUME NEW n \in notes, MarkRead(n) PROVE NotificationsTypeOK'
  BY <1>2 DEF MarkRead, NotificationsTypeOK
<1>3. ASSUME NEW x \in Notifiers, CommitNews(x) PROVE NotificationsTypeOK'
  <2>1. PICK r : r = notifier[x]
    OBVIOUS
  <2>2. r \in [pc : {"known", "new"}, what : Content, at : Hours, looked : Hours, id : 1 .. MaxNews]
    BY <1>3, <2>1 DEF CommitNews, NotificationsTypeOK, Silent
  <2>3. notifier' \in [Notifiers -> {Silent} \cup [pc : {"begun"}, at : Hours] \cup
          [pc : {"known", "new"}, what : Content, at : Hours, looked : Hours, id : 1 .. MaxNews]]
    BY <1>3 DEF CommitNews, NotificationsTypeOK
  <2>4. /\ notes' \subseteq notes \cup {[id |-> r.id, what |-> r.what, at |-> r.at, looked |-> r.looked,
                                      status |-> "unread"]}
        /\ news' = news \cup {[what |-> r.what, at |-> r.looked]} /\ UNCHANGED <<hour, told>>
    BY <1>3, <2>1 DEF CommitNews
  <2> QED
    BY <2>2, <2>3, <2>4 DEF NotificationsTypeOK
<1>4. ASSUME NEW x \in Notifiers, AbortNews(x) \/ BeginNews(x) PROVE NotificationsTypeOK'
  BY <1>4 DEF AbortNews, BeginNews, NotificationsTypeOK
<1>5. ASSUME NEW x \in Notifiers, NEW what \in Content, Notify(x, what) PROVE NotificationsTypeOK'
  <2>0. PICK at : at = notifier[x].at
    OBVIOUS
  <2>1. PICK r : r = [pc |-> IF Recent(what) = {} THEN "new" ELSE "known", what |-> what, at |-> at,
                      looked |-> hour, id |-> told + 1]
    OBVIOUS
  <2>2. /\ notifier' = [notifier EXCEPT ![x] = r] /\ told' = told + 1 /\ told < MaxNews
        /\ notifier[x].pc = "begun" /\ UNCHANGED <<hour, notes, news>>
    BY <1>5, <2>0, <2>1 DEF Notify
  <2>4. at \in Hours
    BY <2>0, <2>2 DEF NotificationsTypeOK, Silent
  <2>3. r \in [pc : {"known", "new"}, what : Content, at : Hours, looked : Hours, id : 1 .. MaxNews]
    BY <2>1, <2>2, <2>4 DEF NotificationsTypeOK
  <2> QED
    BY <2>2, <2>3 DEF NotificationsTypeOK
<1>6. CASE UNCHANGED noticeVars
  BY <1>6 DEF noticeVars, NotificationsTypeOK
<1> QED
  BY <1>1, <1>2, <1>3, <1>4, <1>5, <1>6 DEF NotificationsNext

(* The checks of Celery Beat. A site whose new run is not committed has no *)
(* run yet, and one that is being queued again has one; so the runs of two *)
(* deliveries that are to be committed are of different sites.             *)
Posted(b) ==
    /\ {"pc", "tries", "todo", "added", "requeued", "counted", "broken"} \subseteq DOMAIN b
    /\ b.pc \in {"idle", "at work", "done", "given up"} /\ b.tries \in 0 .. MaxRetries + 1
    /\ b.pc \in {"idle", "at work"} => b.tries <= MaxRetries
    /\ b.added \subseteq {s \in DueSites : check[s] = NoCheck}
    /\ b.requeued \subseteq {s \in DueSites : check[s] # NoCheck}
    /\ b.broken => b.added = {} /\ b.requeued = {}

Checked(c) ==
    \/ c = NoCheck
    \/ /\ {"id", "status"} \subseteq DOMAIN c
       /\ c.id # <<>> /\ c.status \in {"queued", "succeeded", "failed"}

BeatTyped ==
    /\ beat = [t \in BeatTasks |-> beat[t]] /\ check = [s \in DueSites |-> check[s]]
    /\ \A s \in DueSites : Checked(check[s])
    /\ \A m \in message : m.run # <<>>
    /\ \A t \in BeatTasks : Posted(beat[t])
    /\ \A t, u \in BeatTasks : t # u => beat[t].added \cap beat[u].added = {}

LEMMA PostedSession ==
    ASSUME NEW pc \in {"idle", "at work", "given up"}, NEW tries \in 0 .. MaxRetries + 1, NEW order,
           pc # "given up" => tries <= MaxRetries
    PROVE  Posted(Session(pc, tries, order)) /\ Session(pc, tries, order).added = {}
<1>1. PICK b : b = Session(pc, tries, order)
  OBVIOUS
<1>2. /\ DOMAIN b = {"pc", "tries", "todo", "added", "requeued", "counted", "broken"}
      /\ b.pc = pc /\ b.tries = tries /\ b.added = {} /\ b.requeued = {} /\ b.broken = FALSE
  BY <1>1 DEF Session
<1> QED
  BY <1>1, <1>2 DEF Posted

LEMMA BeatTypedInit == BeatInit => BeatTyped
<1> SUFFICES ASSUME BeatInit PROVE BeatTyped
  OBVIOUS
<1>0. 0 \in 0 .. MaxRetries + 1 /\ 0 <= MaxRetries
  BY BeatAssumption
<1>1. \A t \in BeatTasks : Posted(beat[t]) /\ beat[t].added = {}
  BY <1>0, PostedSession DEF BeatInit
<1> QED BY <1>1 DEF BeatInit, BeatTyped, Checked

(* A step of one delivery that commits nothing.                            *)
LEMMA DeliveryTyped ==
    ASSUME BeatTyped, NEW t \in BeatTasks, NEW b, beat' = [beat EXCEPT ![t] = b], UNCHANGED check,
           Posted(b), \A u \in BeatTasks : u # t => b.added \cap beat[u].added = {},
           \A m \in message' : m.run # <<>>
    PROVE  BeatTyped'
<1>1. \A u \in BeatTasks : beat'[u] = IF u = t THEN b ELSE beat[u]
  BY DEF BeatTyped
<1>2. \A u \in BeatTasks : Posted(beat[u])'
  BY <1>1 DEF BeatTyped, Posted
<1>3. \A u, v \in BeatTasks : u # v => beat'[u].added \cap beat'[v].added = {}
  BY <1>1 DEF BeatTyped
<1>4. beat' = [u \in BeatTasks |-> beat'[u]]
  BY DEF BeatTyped
<1> QED BY <1>2, <1>3, <1>4 DEF BeatTyped

LEMMA RunHasName == ASSUME NEW t, NEW n PROVE <<t, n>> # <<>>
OBVIOUS

LEMMA BeatTypedStep == BeatTyped /\ [BeatNext]_beatVars => BeatTyped'
<1> SUFFICES ASSUME BeatTyped, [BeatNext]_beatVars PROVE BeatTyped'
  OBVIOUS
<1>0. /\ \A t \in BeatTasks : Posted(beat[t])
      /\ \A s \in DueSites : Checked(check[s])
      /\ \A m \in message : m.run # <<>>
      /\ \A t, u \in BeatTasks : t # u => beat[t].added \cap beat[u].added = {}
  BY DEF BeatTyped
<1>1. ASSUME NEW t \in BeatTasks, BeatStart(t) PROVE BeatTyped'
  <2>1. PICK order : beat' = [beat EXCEPT ![t] = Session("at work", beat[t].tries, order)]
    BY <1>1 DEF BeatStart
  <2>2. PICK b : b = Session("at work", beat[t].tries, order)
    OBVIOUS
  <2>3. beat[t].tries \in 0 .. MaxRetries + 1 /\ beat[t].tries <= MaxRetries
    BY <1>0, <1>1 DEF BeatStart, Posted
  <2>4. Posted(b) /\ b.added = {}
    BY <2>2, <2>3, PostedSession
  <2>5. UNCHANGED check /\ \A m \in message' : m.run # <<>>
    BY <1>0, <1>1 DEF BeatStart
  <2>6. \A u \in BeatTasks : u # t => b.added \cap beat[u].added = {}
    BY <2>4
  <2>7. beat' = [beat EXCEPT ![t] = b]
    BY <2>1, <2>2
  <2> QED BY <2>4, <2>5, <2>6, <2>7, DeliveryTyped
<1>2. ASSUME NEW t \in BeatTasks, NEW b, beat' = [beat EXCEPT ![t] = b], UNCHANGED check,
             \A m \in message' : m.run # <<>>,
             \E order, counted : b = [beat[t] EXCEPT !.todo = order, !.counted = counted]
      PROVE  BeatTyped'
  <2>1. PICK order : \E counted : b = [beat[t] EXCEPT !.todo = order, !.counted = counted]
    BY <1>2
  <2>2. PICK counted : b = [beat[t] EXCEPT !.todo = order, !.counted = counted]
    BY <2>1
  <2>3. Posted(b) /\ b.added = beat[t].added
    BY <1>0, <2>2 DEF Posted
  <2>4. \A u \in BeatTasks : u # t => b.added \cap beat[u].added = {}
    BY <1>0, <2>3
  <2> QED BY <1>2, <2>3, <2>4, DeliveryTyped
<1>3. ASSUME NEW t \in BeatTasks, NEW s \in DueSites, EnqueueExisting(t, s) PROVE BeatTyped'
  <2>1. beat' = [beat EXCEPT ![t] = [Tried(t) EXCEPT !.counted = @ \cup {s}]]
    BY <1>3 DEF EnqueueExisting
  <2>2. PICK b : b = [Tried(t) EXCEPT !.counted = @ \cup {s}]
    OBVIOUS
  <2>3. {"todo", "counted"} \subseteq DOMAIN beat[t]
    BY <1>0 DEF Posted
  <2>4. b = [beat[t] EXCEPT !.todo = Tail(beat[t].todo), !.counted = beat[t].counted \cup {s}]
    BY <2>2, <2>3 DEF Tried
  <2>5. UNCHANGED check /\ \A m \in message' : m.run # <<>>
    BY <1>0, <1>3 DEF EnqueueExisting
  <2> QED BY <1>2, <2>1, <2>2, <2>4, <2>5
<1>4. ASSUME NEW t \in BeatTasks, NEW s \in DueSites, EnqueueSkipped(t, s) PROVE BeatTyped'
  <2>1. beat' = [beat EXCEPT ![t] = Tried(t)]
    BY <1>4 DEF EnqueueSkipped
  <2>2. PICK b : b = Tried(t)
    OBVIOUS
  <2>3. b = [beat[t] EXCEPT !.todo = Tail(beat[t].todo), !.counted = beat[t].counted]
    BY <2>2 DEF Tried
  <2>4. UNCHANGED check /\ \A m \in message' : m.run # <<>>
    BY <1>0, <1>4 DEF EnqueueSkipped
  <2> QED BY <1>2, <2>1, <2>2, <2>3, <2>4
<1>5. ASSUME NEW t \in BeatTasks, NEW s \in DueSites, EnqueueFailed(t, s) PROVE BeatTyped'
  <2>1. PICK b : /\ beat' = [beat EXCEPT ![t] = b]
                 /\ \/ b = [Tried(t) EXCEPT !.requeued = @ \cup {s}, !.counted = @ \cup {s}]
                    \/ b = [Tried(t) EXCEPT !.requeued = @ \cup {s}]
                 /\ message' = message \/ Send(t, s, check[s].id)
    BY <1>5 DEF EnqueueFailed
  <2>2. beat' = [beat EXCEPT ![t] = b] /\ UNCHANGED check /\ check[s] # NoCheck /\ ~beat[t].broken
    BY <1>5, <2>1 DEF EnqueueFailed
  <2>3. /\ DOMAIN b = DOMAIN beat[t] /\ b.pc = beat[t].pc /\ b.tries = beat[t].tries /\ b.added = beat[t].added
        /\ b.broken = beat[t].broken
    BY <1>0, <2>1 DEF Posted, Tried
  <2>4. b.requeued = beat[t].requeued \cup {s}
    BY <1>0, <2>1 DEF Posted, Tried
  <2>5. Posted(b)
    BY <1>0, <2>2, <2>3, <2>4 DEF Posted
  <2>6. PICK m : m = [site |-> s, run |-> check[s].id]
    OBVIOUS
  <2>7. message' \subseteq message \cup {m}
    BY <2>1, <2>6 DEF Send
  <2>8. check[s].id # <<>> /\ m.run = check[s].id
    BY <1>0, <2>2, <2>6 DEF Checked
  <2>9. \A n \in message' : n.run # <<>>
    BY <1>0, <2>7, <2>8
  <2>10. \A u \in BeatTasks : u # t => b.added \cap beat[u].added = {}
    BY <1>0, <2>3
  <2> QED BY <2>2, <2>5, <2>9, <2>10, DeliveryTyped
<1>6. ASSUME NEW t \in BeatTasks, NEW s \in DueSites, EnqueueNew(t, s) PROVE BeatTyped'
  <2>1. PICK b : /\ beat' = [beat EXCEPT ![t] = b]
                 /\ \/ b = [Tried(t) EXCEPT !.added = @ \cup {s}, !.counted = @ \cup {s}]
                    \/ b = [Tried(t) EXCEPT !.added = @ \cup {s}]
                 /\ message' = message \/ Send(t, s, Self(t))
    BY <1>6 DEF EnqueueNew
  <2>2. /\ UNCHANGED check /\ check[s] = NoCheck /\ ~beat[t].broken
        /\ \A u \in BeatTasks : s \notin beat[u].added
    BY <1>6 DEF EnqueueNew
  <2>3. /\ DOMAIN b = DOMAIN beat[t] /\ b.pc = beat[t].pc /\ b.tries = beat[t].tries
        /\ b.requeued = beat[t].requeued /\ b.broken = beat[t].broken
    BY <1>0, <2>1 DEF Posted, Tried
  <2>4. b.added = beat[t].added \cup {s}
    BY <1>0, <2>1 DEF Posted, Tried
  <2>5. Posted(b)
    BY <1>0, <2>2, <2>3, <2>4 DEF Posted
  <2>6. PICK m : m = [site |-> s, run |-> Self(t)]
    OBVIOUS
  <2>7. message' \subseteq message \cup {m}
    BY <2>1, <2>6 DEF Send
  <2>8. m.run # <<>>
    BY <2>6, RunHasName DEF Self
  <2>9. \A n \in message' : n.run # <<>>
    BY <1>0, <2>7, <2>8
  <2>10. \A u \in BeatTasks : u # t => b.added \cap beat[u].added = {}
    BY <1>0, <2>2, <2>4
  <2> QED BY <2>1, <2>2, <2>5, <2>9, <2>10, DeliveryTyped
<1>7. ASSUME NEW t \in BeatTasks, NEW s \in DueSites, EnqueueRefused(t, s) PROVE BeatTyped'
  <2>1. PICK b : b = [Tried(t) EXCEPT !.added = {}, !.requeued = {}, !.broken = TRUE]
    OBVIOUS
  <2>2. /\ beat' = [beat EXCEPT ![t] = b] /\ UNCHANGED check
        /\ message' = message \/ (check[s] # NoCheck /\ Send(t, s, check[s].id))
    BY <1>7, <2>1 DEF EnqueueRefused
  <2>3. /\ DOMAIN b = DOMAIN beat[t] /\ b.pc = beat[t].pc /\ b.tries = beat[t].tries
        /\ b.added = {} /\ b.requeued = {}
    BY <1>0, <2>1 DEF Posted, Tried
  <2>4. Posted(b)
    BY <1>0, <2>3 DEF Posted
  <2>5. PICK m : m = [site |-> s, run |-> check[s].id]
    OBVIOUS
  <2>6. message' = message \/ (check[s] # NoCheck /\ message' = message \cup {m} /\ m.run = check[s].id)
    BY <2>2, <2>5 DEF Send
  <2>7. /\ \A n \in message' : n.run # <<>>
        /\ \A u \in BeatTasks : u # t => b.added \cap beat[u].added = {}
    BY <1>0, <2>3, <2>6 DEF Checked
  <2> QED BY <2>2, <2>4, <2>7, DeliveryTyped
<1>8. ASSUME NEW t \in BeatTasks, BeatFails(t) PROVE BeatTyped'
  <2>1. beat[t].tries \in 0 .. MaxRetries + 1 /\ beat[t].tries <= MaxRetries
    BY <1>0, <1>8 DEF BeatFails, Posted
  <2>2. beat[t].tries + 1 \in 0 .. MaxRetries + 1 /\ (beat[t].tries < MaxRetries => beat[t].tries + 1 <= MaxRetries)
    BY <2>1, BeatAssumption
  <2>3. PICK pc : /\ pc = IF beat[t].tries < MaxRetries THEN "idle" ELSE "given up"
    OBVIOUS
  <2>4. PICK b : b = Session(pc, beat[t].tries + 1, <<>>)
    OBVIOUS
  <2>5. beat' = [beat EXCEPT ![t] = b] /\ UNCHANGED <<check, message>>
    BY <1>8, <2>3, <2>4 DEF BeatFails
  <2>6. pc \in {"idle", "at work", "given up"} /\ (pc # "given up" => beat[t].tries + 1 <= MaxRetries)
    BY <2>2, <2>3
  <2>7. Posted(b) /\ b.added = {}
    BY <2>2, <2>4, <2>6, PostedSession
  <2>8. /\ \A n \in message' : n.run # <<>>
        /\ \A u \in BeatTasks : u # t => b.added \cap beat[u].added = {}
    BY <1>0, <2>5, <2>7
  <2> QED BY <2>5, <2>7, <2>8, DeliveryTyped
<1>9. ASSUME NEW t \in BeatTasks, CommitBeat(t) PROVE BeatTyped'
  <2>1. /\ check' = [s \in DueSites |->
                       IF s \in beat[t].added    THEN [id |-> Self(t), status |-> "queued"]
                  ELSE IF s \in beat[t].requeued THEN [check[s] EXCEPT !.status = "queued"]
                  ELSE check[s]]
        /\ beat' = [beat EXCEPT ![t].pc = "done", ![t].added = {}, ![t].requeued = {}]
        /\ message' = message
    BY <1>9 DEF CommitBeat
  <2>2. ASSUME NEW s \in DueSites
        PROVE  Checked(check'[s]) /\ (s \notin beat[t].added => (check'[s] = NoCheck <=> check[s] = NoCheck))
    <3>1. CASE s \in beat[t].added
      <4>1. PICK c : c = [id |-> Self(t), status |-> "queued"]
        OBVIOUS
      <4>2. check'[s] = c
        BY <2>1, <3>1, <4>1
      <4>3. {"id", "status"} \subseteq DOMAIN c /\ c.id # <<>> /\ c.status = "queued"
        BY <4>1, RunHasName DEF Self
      <4> QED BY <3>1, <4>2, <4>3 DEF Checked
    <3>2. CASE s \notin beat[t].added /\ s \in beat[t].requeued
      <4>1. PICK c : c = [check[s] EXCEPT !.status = "queued"]
        OBVIOUS
      <4>2. check'[s] = c
        BY <2>1, <3>2, <4>1
      <4>3. check[s] # NoCheck
        BY <1>0, <3>2 DEF Posted
      <4>4. {"id", "status"} \subseteq DOMAIN c /\ c.id # <<>> /\ c.status = "queued"
        BY <1>0, <4>1, <4>3 DEF Checked
      <4>5. c # NoCheck
        BY <4>4 DEF NoCheck
      <4> QED BY <4>2, <4>3, <4>4, <4>5 DEF Checked
    <3>3. CASE s \notin beat[t].added /\ s \notin beat[t].requeued
      BY <1>0, <2>1, <3>3
    <3> QED BY <3>1, <3>2, <3>3
  <2>3. /\ DOMAIN beat'[t] = DOMAIN beat[t] /\ beat'[t].pc = "done" /\ beat'[t].tries = beat[t].tries
        /\ beat'[t].added = {} /\ beat'[t].requeued = {}
        /\ \A u \in BeatTasks : u # t => beat'[u] = beat[u]
    BY <1>0, <2>1 DEF BeatTyped, Posted
  <2>4. Posted(beat[t])'
    BY <1>0, <2>3 DEF Posted
  <2>5. ASSUME NEW u \in BeatTasks, u # t PROVE Posted(beat[u])'
    <3>1. beat'[u] = beat[u] /\ Posted(beat[u]) /\ beat[t].added \cap beat[u].added = {}
      BY <1>0, <2>3, <2>5
    <3>2. \A s \in beat[u].requeued : s \notin beat[t].added
      BY <1>0, <3>1 DEF Posted
    <3> QED BY <2>2, <3>1, <3>2 DEF Posted
  <2>6. \A u, v \in BeatTasks : u # v => beat'[u].added \cap beat'[v].added = {}
    BY <1>0, <2>3
  <2>7. beat' = [u \in BeatTasks |-> beat'[u]] /\ check' = [s \in DueSites |-> check'[s]]
    BY <2>1 DEF BeatTyped
  <2> QED BY <1>0, <2>1, <2>2, <2>4, <2>5, <2>6, <2>7 DEF BeatTyped
<1>10. ASSUME NEW m \in message, ReceiveCheck(m) PROVE BeatTyped'
  <2>1. PICK ended \in {"succeeded", "failed"} :
          /\ beat' = beat /\ message' \subseteq message
          /\ check' = check \/ (check' = [check EXCEPT ![m.site].status = ended] /\ check[m.site].id = m.run)
    BY <1>10 DEF ReceiveCheck
  <2>2. ASSUME NEW s \in DueSites PROVE Checked(check'[s]) /\ (check'[s] = NoCheck <=> check[s] = NoCheck)
    <3>1. CASE check'[s] = check[s]
      BY <1>0, <3>1
    <3>2. CASE check'[s] # check[s]
      <4>1. PICK c : c = [check[s] EXCEPT !.status = ended]
        OBVIOUS
      <4>2. check'[s] = c /\ m.site = s /\ check[s].id = m.run
        BY <2>1, <3>2, <4>1 DEF BeatTyped
      <4>3. check[s] # NoCheck
        BY <1>0, <4>2 DEF NoCheck
      <4>4. {"id", "status"} \subseteq DOMAIN c /\ c.id # <<>> /\ c.status = ended
        BY <1>0, <4>1, <4>3 DEF Checked
      <4>5. c # NoCheck
        BY <4>4 DEF NoCheck
      <4> QED BY <4>2, <4>3, <4>4, <4>5 DEF Checked
    <3> QED BY <3>1, <3>2
  <2>3. \A t \in BeatTasks : Posted(beat[t])'
    BY <1>0, <2>1, <2>2 DEF Posted
  <2>4. beat' = [u \in BeatTasks |-> beat'[u]] /\ check' = [s \in DueSites |-> check'[s]]
    BY <2>1 DEF BeatTyped
  <2> QED BY <1>0, <2>1, <2>2, <2>3, <2>4 DEF BeatTyped
<1>11. CASE UNCHANGED beatVars
  BY <1>11 DEF beatVars, BeatTyped, Posted
<1> QED BY <1>1, <1>3, <1>4, <1>5, <1>6, <1>7, <1>8, <1>9, <1>10, <1>11 DEF BeatNext

LEMMA BeatTypes == BeatTyped => BeatTypeOK
<1> SUFFICES ASSUME BeatTyped PROVE BeatTypeOK
  OBVIOUS
<1>1. ASSUME NEW t \in BeatTasks
      PROVE  /\ beat[t].pc \in {"idle", "at work", "done", "given up"} /\ beat[t].tries \in 0 .. MaxRetries + 1
             /\ beat[t].added \cap beat[t].requeued = {} /\ (beat[t].added \cup beat[t].requeued \subseteq DueSites)
             /\ beat[t].broken => beat[t].added \cup beat[t].requeued = {}
  <2>1. Posted(beat[t])
    BY DEF BeatTyped
  <2> QED BY <2>1 DEF Posted
<1>2. \A s \in DueSites : check[s] # NoCheck => check[s].status \in {"queued", "succeeded", "failed"}
  BY DEF BeatTyped, Checked
<1> QED BY <1>1, <1>2 DEF BeatTyped, BeatTypeOK

(* The account, for T requests and webhooks and ME changes at Stripe. Who  *)
(* finds no row makes one, dated by the time it began; no two are dated    *)
(* the same, and the rows there are and those to be made are no more than  *)
(* the requests: rows are only made by those that overlap the first.       *)
BillEvents(ME) == [type : {"checkout", "updated", "deleted", "invoice"}, status : Status, nr : 1 .. ME]
StarterTxn     == [op : {"starter"}, at : Nat]
EventTxn(ME)   ==
    [op : {"event"}, at : Nat, event : BillEvents(ME), seen : Row, new : BOOLEAN, billing : Status]

Makes(t)  == t.op = "starter" \/ (t.op = "event" /\ t.new)
Making(T) == {x \in T : Makes(billTxn[x])}

BillShape(T, ME) ==
    /\ stripe \in [status : Status \cup {"none"}, nr : 0 .. ME]
    /\ mail \subseteq BillEvents(ME) /\ redelivered \in 0 .. MaxRedeliver
    /\ rows \subseteq Row /\ billing \in Status /\ customer \in BOOLEAN /\ ticks \in Nat
    /\ billTxn \in [T -> {Done} \cup StarterTxn \cup EventTxn(ME)]

BillTimes(T) ==
    /\ \A r \in rows : r.created <= ticks /\ r.updated <= ticks
    /\ \A r, s \in rows : r.created = s.created => r = s
    /\ \A x \in T : billTxn[x] # Done => billTxn[x].at <= ticks
    /\ \A x, y \in T : billTxn[x] # Done /\ billTxn[y] # Done /\ billTxn[x].at = billTxn[y].at => x = y
    /\ \A x \in Making(T) : /\ billTxn[x].op = "event" => billTxn[x].seen.created = billTxn[x].at
                            /\ \A r \in rows : r.created # billTxn[x].at

BillClaims(T) == IsFiniteSet(rows) /\ Cardinality(rows) + Cardinality(Making(T)) <= Cardinality(T)

BillTyped(T, ME) == BillShape(T, ME) /\ BillTimes(T) /\ BillClaims(T)

LEMMA MakersAreOpen == \A t : Makes(t) => t # Done
BY DEF Makes, Done

LEMMA StillBefore == \A m, n \in Nat : m <= n => m <= n + 1
OBVIOUS

LEMMA OneReplaced ==
    ASSUME NEW S, IsFiniteSet(S), NEW r \in S, NEW m, NEW R, R = (S \ {r}) \cup {m}
    PROVE  IsFiniteSet(R) /\ Cardinality(R) <= Cardinality(S) /\ Cardinality(R) \in Nat
<1>1. PICK D : D = S \ {r}
  OBVIOUS
<1>2. IsFiniteSet(D) /\ Cardinality(D) <= Cardinality(S) - 1
  BY <1>1, AtLeastOneLess
<1>3. IsFiniteSet(R) /\ Cardinality(R) <= Cardinality(D) + 1
  BY <1>1, <1>2, AtMostOneMore
<1> QED BY <1>2, <1>3, FS_CardinalityType

(* Stripe changes or sends again: the account stays.                       *)
LEMMA StripeTyped ==
    ASSUME NEW T, NEW ME \in Nat, BillTyped(T, ME),
           stripe' \in [status : Status \cup {"none"}, nr : 0 .. ME], mail' \subseteq BillEvents(ME),
           redelivered' \in 0 .. MaxRedeliver, UNCHANGED <<rows, billing, customer, billTxn, ticks>>
    PROVE  BillTyped(T, ME)'
<1>1. BillShape(T, ME)'
  BY DEF BillTyped, BillShape
<1>2. Making(T)' = Making(T)
  BY DEF Making
<1> QED BY <1>1, <1>2 DEF BillTyped, BillTimes, BillClaims

(* A request begins.                                                       *)
LEMMA OpenTyped ==
    ASSUME NEW T, IsFiniteSet(T), NEW ME \in Nat, BillTyped(T, ME), NEW x \in T, NEW t \in StarterTxn \cup EventTxn(ME),
           billTxn[x] = Done, billTxn' = [billTxn EXCEPT ![x] = t], t.at = ticks + 1, ticks' = ticks + 1,
           Makes(t) => rows = {}, Makes(t) /\ t.op = "event" => t.seen.created = t.at,
           mail' \subseteq mail, UNCHANGED <<stripe, redelivered, rows, billing, customer>>
    PROVE  BillTyped(T, ME)'
<1>0. t # Done /\ \A y \in T : billTxn'[y] = IF y = x THEN t ELSE billTxn[y]
  BY DEF BillTyped, BillShape, StarterTxn, EventTxn, Done
<1>1. BillShape(T, ME)'
  BY DEF BillTyped, BillShape
<1>2. \A y \in T : billTxn[y] # Done => billTxn[y].at \in Nat
  BY DEF BillTyped, BillShape, StarterTxn, EventTxn
<1>3. ticks \in Nat /\ rows \subseteq Row
  BY DEF BillTyped, BillShape
<1>4. \A y \in T : billTxn[y] # Done => billTxn[y].at <= ticks /\ billTxn[y].at < ticks'
  BY <1>2, <1>3 DEF BillTyped, BillTimes
<1>5. ASSUME NEW r \in rows PROVE r.created <= ticks + 1 /\ r.updated <= ticks + 1
  <2>1. r.created \in Nat /\ r.updated \in Nat /\ r.created <= ticks /\ r.updated <= ticks
    BY <1>3 DEF BillTyped, BillTimes, Row
  <2> QED BY <1>3, <2>1, StillBefore
<1>6. ASSUME NEW y \in T, billTxn'[y] # Done PROVE billTxn'[y].at <= ticks'
  <2>1. CASE y = x
    BY <1>0, <1>3, <2>1
  <2>2. CASE y # x
    <3>1. billTxn[y].at \in Nat /\ billTxn[y].at <= ticks
      BY <1>0, <1>2, <1>4, <1>6, <2>2
    <3> QED BY <1>0, <1>3, <2>2, <3>1, StillBefore
  <2> QED BY <2>1, <2>2
<1>7. \A y, z \in T : billTxn'[y] # Done /\ billTxn'[z] # Done /\ billTxn'[y].at = billTxn'[z].at => y = z
  BY <1>0, <1>2, <1>3, <1>4 DEF BillTyped, BillTimes
<1>8. ASSUME NEW y \in Making(T)'
      PROVE  /\ billTxn'[y].op = "event" => billTxn'[y].seen.created = billTxn'[y].at
             /\ \A r \in rows' : r.created # billTxn'[y].at
  BY <1>0, <1>8 DEF Making, BillTyped, BillTimes
<1>9. BillTimes(T)'
  BY <1>5, <1>6, <1>7, <1>8 DEF BillTyped, BillTimes
<1>10. Makes(billTxn[x]) = FALSE
  BY DEF Makes, Done
<1>11. BillClaims(T)'
  <2>1. CASE ~Makes(t)
    <3>1. Making(T)' = Making(T)
      BY <1>0, <1>10, <2>1 DEF Making
    <3> QED BY <3>1 DEF BillTyped, BillClaims
  <2>2. CASE Makes(t)
    <3>1. rows' = {} /\ IsFiniteSet(rows') /\ Cardinality(rows') = 0
      BY <2>2, FS_EmptySet
    <3>2. Making(T)' \subseteq T
      BY DEF Making
    <3>3. Cardinality(Making(T)') <= Cardinality(T) /\ Cardinality(Making(T)') \in Nat
      BY <3>2, FS_Subset, FS_CardinalityType
    <3> QED BY <3>1, <3>3 DEF BillClaims
  <2> QED BY <2>1, <2>2
<1> QED BY <1>1, <1>9, <1>11 DEF BillTyped

(* A request ends: its row is new, or one that was there is written.       *)
LEMMA CloseTyped ==
    ASSUME NEW T, IsFiniteSet(T), NEW ME \in Nat, BillTyped(T, ME), NEW x \in T,
           billTxn[x] # Done, billTxn' = [billTxn EXCEPT ![x] = Done], UNCHANGED <<stripe, redelivered, ticks>>,
           mail' \subseteq BillEvents(ME), billing' \in Status, customer' \in BOOLEAN,
           \/ rows' = rows
           \/ Makes(billTxn[x]) /\ \E r \in Row : /\ r.created = billTxn[x].at /\ r.updated <= ticks
                                                  /\ rows' = rows \cup {r}
           \/ \E r \in rows, m \in Row : /\ m.created = r.created /\ m.updated <= ticks
                                         /\ rows' = (rows \ {r}) \cup {m}
    PROVE  BillTyped(T, ME)'
<1>0. \A y \in T : billTxn'[y] = IF y = x THEN Done ELSE billTxn[y]
  BY DEF BillTyped, BillShape
<1>1. BillShape(T, ME)'
  BY DEF BillTyped, BillShape
<1>2. ticks \in Nat /\ ticks' = ticks /\ rows \subseteq Row /\ BillTimes(T) /\ BillClaims(T)
  BY DEF BillTyped, BillShape
<1>3. /\ Making(T)' \subseteq Making(T) /\ x \notin Making(T)' /\ (Makes(billTxn[x]) => x \in Making(T))
      /\ \A y \in Making(T)' : y # x /\ billTxn'[y] = billTxn[y]
  BY <1>0 DEF Making, Makes, Done
<1>4. /\ \A y \in T : billTxn'[y] # Done => billTxn'[y].at <= ticks'
      /\ \A y, z \in T : billTxn'[y] # Done /\ billTxn'[z] # Done /\ billTxn'[y].at = billTxn'[z].at => y = z
      /\ \A y \in Making(T)' : billTxn'[y].op = "event" => billTxn'[y].seen.created = billTxn'[y].at
  BY <1>0, <1>2, <1>3 DEF BillTimes
<1>5. Making(T) \subseteq T /\ Making(T)' \subseteq T
  BY DEF Making
<1>6. Cardinality(rows) \in Nat
  BY <1>2, FS_CardinalityType DEF BillClaims
<1>7. CASE rows' = rows
  <2>1. BillTimes(T)'
    BY <1>2, <1>3, <1>4, <1>7 DEF BillTimes
  <2>2. BillClaims(T)'
    BY <1>2, <1>3, <1>5, <1>6, <1>7, ClaimsKept DEF BillClaims
  <2> QED BY <1>1, <2>1, <2>2 DEF BillTyped
<1>8. ASSUME NEW r \in Row, Makes(billTxn[x]), r.created = billTxn[x].at, r.updated <= ticks, rows' = rows \cup {r}
      PROVE  BillTyped(T, ME)'
  <2>1. /\ r.created <= ticks /\ \A q \in rows : q.created # r.created
        /\ \A y \in Making(T)' : r.created # billTxn'[y].at
    BY <1>2, <1>3, <1>8, MakersAreOpen DEF BillTimes, Making
  <2>2. \A q \in rows' : q.created <= ticks' /\ q.updated <= ticks'
    BY <1>2, <1>8, <2>1 DEF BillTimes
  <2>3. \A q, s \in rows' : q.created = s.created => q = s
    BY <1>2, <1>8, <2>1 DEF BillTimes
  <2>4. \A y \in Making(T)' : \A q \in rows' : q.created # billTxn'[y].at
    BY <1>2, <1>3, <1>8, <2>1 DEF BillTimes
  <2>5. BillTimes(T)'
    BY <1>4, <2>2, <2>3, <2>4 DEF BillTimes
  <2>6. IsFiniteSet(rows') /\ Cardinality(rows') <= Cardinality(rows) + 1 /\ Cardinality(rows') \in Nat
    BY <1>2, <1>8, AtMostOneMore, FS_CardinalityType DEF BillClaims
  <2>7. x \in Making(T) /\ Making(T)' \subseteq Making(T) \ {x}
    BY <1>3, <1>8
  <2>8. BillClaims(T)'
    BY <1>2, <1>5, <1>6, <2>6, <2>7, ClaimsKept DEF BillClaims
  <2> QED BY <1>1, <2>5, <2>8 DEF BillTyped
<1>9. ASSUME NEW r \in rows, NEW m \in Row, m.created = r.created, m.updated <= ticks,
             rows' = (rows \ {r}) \cup {m}
      PROVE  BillTyped(T, ME)'
  <2>1. /\ m.created <= ticks /\ \A q \in rows \ {r} : q.created # m.created
        /\ \A y \in Making(T)' : m.created # billTxn'[y].at
    BY <1>2, <1>3, <1>9 DEF BillTimes
  <2>2. \A q \in rows' : q.created <= ticks' /\ q.updated <= ticks'
    BY <1>2, <1>9, <2>1 DEF BillTimes
  <2>3. \A q, s \in rows' : q.created = s.created => q = s
    BY <1>2, <1>9, <2>1 DEF BillTimes
  <2>4. \A y \in Making(T)' : \A q \in rows' : q.created # billTxn'[y].at
    BY <1>2, <1>3, <1>9, <2>1 DEF BillTimes
  <2>5. BillTimes(T)'
    BY <1>4, <2>2, <2>3, <2>4 DEF BillTimes
  <2>6. IsFiniteSet(rows)
    BY <1>2 DEF BillClaims
  <2>7. IsFiniteSet(rows') /\ Cardinality(rows') <= Cardinality(rows) /\ Cardinality(rows') \in Nat
    <3>1. PICK R : R = (rows \ {r}) \cup {m}
      OBVIOUS
    <3>2. IsFiniteSet(R) /\ Cardinality(R) <= Cardinality(rows) /\ Cardinality(R) \in Nat
      BY ONLY <2>6, <3>1, r \in rows, OneReplaced
    <3> QED BY ONLY <1>9, <3>1, <3>2
  <2>8. BillClaims(T)'
    BY <1>2, <1>3, <1>5, <1>6, <2>7, ClaimsKept DEF BillClaims
  <2> QED BY <1>1, <2>5, <2>8 DEF BillTyped
<1> QED BY <1>7, <1>8, <1>9

(* The steps of the account, for T and ME and whatever the order and the   *)
(* number of the requests.                                                 *)
StripeMove(ME) ==
    /\ stripe.nr < ME
    /\ \E status \in Status, type \in {"checkout", "updated", "deleted"} :
         /\ stripe' = [status |-> status, nr |-> stripe.nr + 1]
         /\ mail' = mail \cup {[type |-> type, status |-> status, nr |-> stripe'.nr]}
                      \cup {[type |-> t, status |-> "past_due", nr |-> stripe'.nr] :
                              t \in {"invoice" : s \in {status} \cap {"past_due"}}}
    /\ UNCHANGED <<redelivered, rows, billing, customer, billTxn, ticks>>

RedeliverMove(x) ==
    /\ redelivered < MaxRedeliver /\ redelivered' = redelivered + 1
    /\ billTxn[x].op = "event" /\ mail' = mail \cup {billTxn[x].event}
    /\ UNCHANGED <<stripe, rows, billing, customer, billTxn, ticks>>

BeginMove(x) ==
    /\ rows = {} /\ billTxn[x] = Done
    /\ billTxn' = [billTxn EXCEPT ![x] = [op |-> "starter", at |-> ticks + 1]]
    /\ ticks' = ticks + 1
    /\ UNCHANGED <<stripe, mail, redelivered, rows, billing, customer>>

ReceiveMove(x, e) ==
    /\ billTxn[x] = Done /\ e \in mail
    /\ ticks' = ticks + 1
    /\ billTxn' = [billTxn EXCEPT ![x] =
         [op |-> "event", at |-> ticks + 1, event |-> e, seen |-> IF rows = {} THEN Starter(ticks + 1) ELSE LastUpdated,
          new |-> rows = {}, billing |-> billing]]
    /\ mail' = mail \ {e}
    /\ UNCHANGED <<stripe, redelivered, rows, billing, customer>>

BillMove(T, ME) ==
    \/ StripeMove(ME)
    \/ \E x \in T : \/ RedeliverMove(x) \/ BeginMove(x) \/ CommitStarter(x)
                    \/ ApplySubscription(x) \/ ApplyInvoice(x) \/ AbortBilling(x)
                    \/ \E e \in mail : ReceiveMove(x, e)

LEMMA LastIsThere ==
    ASSUME NEW T, BillTimes(T), rows \subseteq Row, ticks \in Nat, rows # {}
    PROVE  LastUpdated \in rows
<1> DEFINE D == {ticks - r.updated : r \in rows}
<1>0. \A r \in rows : r.updated \in Nat /\ r.updated <= ticks
  BY DEF BillTimes, Row
<1>1. D \subseteq Nat /\ D # {}
  BY <1>0
<1>2. PICK d \in D : \A e \in D : d <= e
  BY <1>1, LeastNumber
<1>3. PICK r \in rows : d = ticks - r.updated
  BY <1>2
<1>4. ASSUME NEW s \in rows PROVE s.updated <= r.updated
  <2>1. ticks - r.updated <= ticks - s.updated
    BY <1>2, <1>3
  <2>2. s.updated \in Nat /\ r.updated \in Nat
    BY <1>0
  <2> QED BY <2>1, <2>2
<1> QED BY <1>4 DEF LastUpdated

(* An open event, and the row it writes.                                   *)
LEMMA WrittenIsRow ==
    ASSUME NEW ME, NEW t \in EventTxn(ME), t.event.type # "invoice"
    PROVE  /\ Written(t, t.event.status) \in Row
           /\ Written(t, t.event.status).created = t.seen.created /\ Written(t, t.event.status).updated = t.at
<1>1. PICK s : s = t.seen
  OBVIOUS
<1>2. s \in Row /\ t.event.status \in Status /\ t.at \in Nat
  BY <1>1 DEF EventTxn, BillEvents
<1>3. PICK n : n = [s EXCEPT !.status = t.event.status, !.plan = IF t.event.type = "deleted" THEN @ ELSE "paid",
                             !.updated = t.at]
  OBVIOUS
<1>4. n \in Row /\ n.created = s.created /\ n.updated = t.at
  BY <1>2, <1>3 DEF Row
<1> QED BY <1>1, <1>3, <1>4 DEF Written

LEMMA MergeIsRow ==
    ASSUME NEW current \in Row, NEW seen \in Row, NEW new \in Row
    PROVE  /\ Merge(current, seen, new) \in Row /\ Merge(current, seen, new).created = current.created
           /\ Merge(current, seen, new).updated \in {current.updated, new.updated}
<1>1. PICK m : m = Merge(current, seen, new)
  OBVIOUS
<1>2. m \in Row /\ m.created = current.created /\ m.updated \in {current.updated, new.updated}
  BY <1>1 DEF Merge, Row
<1> QED BY <1>1, <1>2

LEMMA MoveTyped ==
    ASSUME NEW T, IsFiniteSet(T), NEW ME \in Nat, BillTyped(T, ME), BillMove(T, ME)
    PROVE  BillTyped(T, ME)'
<1>0. /\ BillTimes(T) /\ rows \subseteq Row /\ ticks \in Nat /\ mail \subseteq BillEvents(ME)
      /\ billing \in Status /\ customer \in BOOLEAN
      /\ stripe \in [status : Status \cup {"none"}, nr : 0 .. ME] /\ redelivered \in 0 .. MaxRedeliver
      /\ \A x \in T : billTxn[x] = Done \/ billTxn[x] \in StarterTxn \/ billTxn[x] \in EventTxn(ME)
  BY DEF BillTyped, BillShape
<1>a. ASSUME NEW x \in T, billTxn[x].op = "event"
      PROVE  billTxn[x] \in EventTxn(ME) /\ billTxn[x] # Done /\ billTxn[x].event \in BillEvents(ME)
  BY <1>0, <1>a DEF EventTxn, StarterTxn, Done
<1>1. CASE StripeMove(ME)
  <2>1. PICK status \in Status, type \in {"checkout", "updated", "deleted"} :
         /\ stripe' = [status |-> status, nr |-> stripe.nr + 1]
         /\ mail' = mail \cup {[type |-> type, status |-> status, nr |-> stripe'.nr]}
                      \cup {[type |-> t, status |-> "past_due", nr |-> stripe'.nr] :
                              t \in {"invoice" : s \in {status} \cap {"past_due"}}}
    BY <1>1 DEF StripeMove
  <2>2. PICK n : n = stripe.nr + 1
    OBVIOUS
  <2>3. n \in 1 .. ME
    BY <1>0, <1>1, <2>2 DEF StripeMove
  <2>4. stripe' \in [status : Status \cup {"none"}, nr : 0 .. ME] /\ stripe'.nr = n
    BY <2>1, <2>2, <2>3
  <2>5. [type |-> type, status |-> status, nr |-> n] \in BillEvents(ME)
    BY <2>3 DEF BillEvents
  <2>6. [type |-> "invoice", status |-> "past_due", nr |-> n] \in BillEvents(ME)
    BY <2>3 DEF BillEvents, Status
  <2>7. mail' \subseteq BillEvents(ME)
    BY <1>0, <2>1, <2>4, <2>5, <2>6
  <2> QED BY <1>0, <1>1, <2>4, <2>7, StripeTyped DEF StripeMove
<1>2. ASSUME NEW x \in T, RedeliverMove(x) PROVE BillTyped(T, ME)'
  <2>1. redelivered' \in 0 .. MaxRedeliver /\ mail' \subseteq BillEvents(ME)
    BY <1>0, <1>2, <1>a, BillingAssumption DEF RedeliverMove
  <2> QED BY <1>0, <1>2, <2>1, StripeTyped DEF RedeliverMove
<1>3. ASSUME NEW x \in T, BeginMove(x) PROVE BillTyped(T, ME)'
  <2>1. PICK t : t = [op |-> "starter", at |-> ticks + 1]
    OBVIOUS
  <2>2. t \in StarterTxn /\ t.op # "event" /\ t.at = ticks + 1
    BY <1>0, <2>1 DEF StarterTxn
  <2> QED BY <1>3, <2>1, <2>2, OpenTyped DEF BeginMove
<1>4. ASSUME NEW x \in T, NEW e \in mail, ReceiveMove(x, e) PROVE BillTyped(T, ME)'
  <2>1. PICK s : s = IF rows = {} THEN Starter(ticks + 1) ELSE LastUpdated
    OBVIOUS
  <2>2. s \in Row /\ (rows = {} => s.created = ticks + 1)
    BY <1>0, <2>1, LastIsThere DEF Starter, Row
  <2>3. PICK t : t = [op |-> "event", at |-> ticks + 1, event |-> e, seen |-> s, new |-> rows = {}, billing |-> billing]
    OBVIOUS
  <2>4. t \in EventTxn(ME) /\ t.at = ticks + 1 /\ t.op = "event" /\ t.seen = s
    BY <1>0, <2>2, <2>3 DEF EventTxn
  <2>5. t.new => rows = {}
    BY <2>3
  <2>6. Makes(t) => rows = {} /\ t.seen.created = t.at
    BY <2>2, <2>4, <2>5 DEF Makes
  <2>7. /\ billTxn[x] = Done /\ billTxn' = [billTxn EXCEPT ![x] = t] /\ ticks' = ticks + 1 /\ mail' \subseteq mail
        /\ UNCHANGED <<stripe, redelivered, rows, billing, customer>>
    BY <1>4, <2>1, <2>3 DEF ReceiveMove
  <2> QED BY <2>4, <2>6, <2>7, OpenTyped
<1>5. ASSUME NEW x \in T, CommitStarter(x) PROVE BillTyped(T, ME)'
  <2>1. billTxn[x] \in StarterTxn /\ billTxn[x] # Done /\ Makes(billTxn[x])
    BY <1>0, <1>5 DEF CommitStarter, StarterTxn, EventTxn, Done, Makes
  <2>2. PICK r : r = Starter(billTxn[x].at)
    OBVIOUS
  <2>3. r \in Row /\ r.created = billTxn[x].at /\ r.updated = billTxn[x].at
    BY <2>1, <2>2 DEF Starter, Row, StarterTxn
  <2>4. r.updated <= ticks
    BY <1>0, <2>1, <2>3 DEF BillTimes
  <2>5. /\ rows' = rows \cup {r} /\ billTxn' = [billTxn EXCEPT ![x] = Done]
        /\ mail' = mail /\ billing' = billing /\ customer' = customer /\ UNCHANGED <<stripe, redelivered, ticks>>
    BY <1>5, <2>2 DEF CommitStarter
  <2>6. mail' \subseteq BillEvents(ME) /\ billing' \in Status /\ customer' \in BOOLEAN
    BY <1>0, <2>5
  <2>7. \E q \in Row : q.created = billTxn[x].at /\ q.updated <= ticks /\ rows' = rows \cup {q}
    BY <2>3, <2>4, <2>5
  <2> QED BY <2>1, <2>5, <2>6, <2>7, CloseTyped
<1>6. ASSUME NEW x \in T, AbortBilling(x) PROVE BillTyped(T, ME)'
  <2>1. mail' \subseteq BillEvents(ME) /\ billing' \in Status /\ customer' \in BOOLEAN /\ rows' = rows
    BY <1>0, <1>6, <1>a DEF AbortBilling
  <2> QED BY <1>6, <2>1, CloseTyped DEF AbortBilling
<1>b. ASSUME NEW x \in T, Finish(x) PROVE customer' \in BOOLEAN /\ mail' = mail
  BY <1>0, <1>b DEF Finish
<1>7. ASSUME NEW x \in T, ApplyInvoice(x) PROVE BillTyped(T, ME)'
  <2>1. /\ billTxn[x].op = "event" /\ Finish(x) /\ rows' = rows
        /\ \E status \in {"past_due", billTxn[x].billing} : WriteBilling(billTxn[x], status)
    BY <1>7 DEF ApplyInvoice
  <2>2. billing' \in Status
    BY <1>0, <1>a, <2>1 DEF WriteBilling, EventTxn, Status
  <2>3. customer' \in BOOLEAN /\ mail' \subseteq BillEvents(ME)
    BY <1>0, <1>b, <2>1
  <2> QED BY <1>a, <2>1, <2>2, <2>3, CloseTyped DEF Finish
<1>8. ASSUME NEW x \in T, ApplySubscription(x) PROVE BillTyped(T, ME)'
  <2>0. PICK t : t = billTxn[x]
    OBVIOUS
  <2>1. /\ t.op = "event" /\ Finish(x) /\ t.event.type # "invoice" /\ t \in EventTxn(ME) /\ t # Done
        /\ WriteBilling(t, t.event.status) /\ WriteRow(t, t.event.status)
    BY <1>8, <1>a, <2>0 DEF ApplySubscription
  <2>2. t.event.status \in Status /\ t.seen \in Row /\ t.at <= ticks
    BY <1>0, <2>0, <2>1 DEF EventTxn, BillEvents, BillTimes
  <2>3. billing' \in Status
    BY <1>0, <2>1, <2>2 DEF WriteBilling
  <2>4. PICK n : n = Written(t, t.event.status)
    OBVIOUS
  <2>5. n \in Row /\ n.created = t.seen.created /\ n.updated = t.at
    BY <2>1, <2>4, WrittenIsRow
  <2>6. \/ Makes(t) /\ \E r \in Row : r.created = t.at /\ r.updated <= ticks /\ rows' = rows \cup {r}
        \/ \E r \in rows, m \in Row : m.created = r.created /\ m.updated <= ticks /\ rows' = (rows \ {r}) \cup {m}
    <3>1. CASE t.new
      <4>1. Makes(t) /\ rows' = rows \cup {n}
        BY <2>1, <2>4, <3>1 DEF Makes, WriteRow
      <4>2. t.seen.created = t.at
        BY <1>0, <2>0, <2>1, <4>1 DEF BillTimes, Making
      <4> QED BY <2>2, <2>5, <4>1, <4>2
    <3>2. CASE ~t.new
      <4>1. PICK r \in rows : rows' = (rows \ {r}) \cup {Merge(r, t.seen, n)}
        BY <2>1, <2>4, <3>2 DEF WriteRow
      <4>2. PICK m : m = Merge(r, t.seen, n)
        OBVIOUS
      <4>3. m \in Row /\ m.created = r.created /\ m.updated \in {r.updated, n.updated}
        BY <1>0, <2>2, <2>5, <4>2, MergeIsRow
      <4>4. m.updated <= ticks
        BY <1>0, <2>2, <2>5, <4>3 DEF BillTimes
      <4> QED BY <4>1, <4>2, <4>3, <4>4
    <3> QED BY <3>1, <3>2
  <2>7. customer' \in BOOLEAN /\ mail' \subseteq BillEvents(ME)
    BY <1>0, <1>b, <2>1
  <2>8. billTxn' = [billTxn EXCEPT ![x] = Done] /\ UNCHANGED <<stripe, redelivered, ticks>>
    BY <2>1 DEF Finish
  <2> QED BY <2>0, <2>1, <2>3, <2>6, <2>7, <2>8, CloseTyped
<1> QED BY <1>1, <1>2, <1>3, <1>4, <1>5, <1>6, <1>7, <1>8 DEF BillMove

(* The three ways the account is taken make no other steps.                *)
LEMMA OverlapMoves == BillingNext => BillMove(BillTxns, MaxEvents)
<1> SUFFICES ASSUME BillingNext PROVE BillMove(BillTxns, MaxEvents)
  OBVIOUS
<1>1. StripeChanges => StripeMove(MaxEvents)
  BY DEF StripeChanges, StripeMove
<1>2. \A x : Redeliver(x) => RedeliverMove(x)
  BY DEF Redeliver, RedeliverMove
<1>3. \A x : BeginStarter(x) => BeginMove(x)
  BY DEF BeginStarter, BeginMove
<1>4. \A x, e : ReceiveEvent(x, e) => ReceiveMove(x, e)
  BY DEF ReceiveEvent, ReceiveMove
<1> QED BY <1>1, <1>2, <1>3, <1>4 DEF BillingNext, BillMove

LEMMA AloneMoves == OneByOne!BillingNext => BillMove({x1}, AloneEvents)
<1> SUFFICES ASSUME OneByOne!BillingNext PROVE BillMove({x1}, AloneEvents)
  OBVIOUS
<1>0. OneByOne!Done = Done /\ OneByOne!Status = Status /\ OneByOne!LastUpdated = LastUpdated
  BY DEF OneByOne!Done, Done, OneByOne!Status, Status, OneByOne!LastUpdated, LastUpdated
<1>1. OneByOne!StripeChanges => StripeMove(AloneEvents)
  BY DEF OneByOne!StripeChanges, StripeMove, OneByOne!Status, Status
<1>2. \A x : OneByOne!Redeliver(x) => RedeliverMove(x)
  BY DEF OneByOne!Redeliver, RedeliverMove
<1>3. \A x : OneByOne!BeginStarter(x) => BeginMove(x)
  BY <1>0 DEF OneByOne!BeginStarter, BeginMove
<1>4. \A x, e : OneByOne!ReceiveEvent(x, e) => ReceiveMove(x, e)
  BY <1>0 DEF OneByOne!ReceiveEvent, ReceiveMove, OneByOne!Starter, Starter
<1>5. \A x : OneByOne!Finish(x) => Finish(x)
  BY <1>0 DEF OneByOne!Finish, Finish
<1>6. /\ \A t, status : OneByOne!WriteRow(t, status) => WriteRow(t, status)
      /\ \A t, status : OneByOne!WriteBilling(t, status) => WriteBilling(t, status)
  <2>1. \A t, status : OneByOne!Written(t, status) = Written(t, status)
    BY ONLY DEF OneByOne!Written, Written
  <2>2. \A current, seen, new : OneByOne!Merge(current, seen, new) = Merge(current, seen, new)
    BY ONLY DEF OneByOne!Merge, Merge
  <2>3. \A t, status : OneByOne!WriteRow(t, status) => WriteRow(t, status)
    BY ONLY <2>1, <2>2 DEF OneByOne!WriteRow, WriteRow
  <2>4. \A t, status : OneByOne!WriteBilling(t, status) => WriteBilling(t, status)
    BY ONLY DEF OneByOne!WriteBilling, WriteBilling
  <2> QED BY <2>3, <2>4
<1>7. \A x : OneByOne!CommitStarter(x) => CommitStarter(x)
  BY <1>0 DEF OneByOne!CommitStarter, CommitStarter, OneByOne!Starter, Starter
<1>8. \A x : OneByOne!ApplySubscription(x) => ApplySubscription(x)
  BY <1>5, <1>6 DEF OneByOne!ApplySubscription, ApplySubscription
<1>9. \A x : OneByOne!ApplyInvoice(x) => ApplyInvoice(x)
  BY <1>5, <1>6 DEF OneByOne!ApplyInvoice, ApplyInvoice
<1>10. \A x : OneByOne!AbortBilling(x) => AbortBilling(x)
  BY <1>0 DEF OneByOne!AbortBilling, AbortBilling
<1> QED BY <1>1, <1>2, <1>3, <1>4, <1>7, <1>8, <1>9, <1>10 DEF OneByOne!BillingNext, BillMove

LEMMA InTurnMoves == InTurn!BillingNext => BillMove({x1}, AloneEvents)
<1> SUFFICES ASSUME InTurn!BillingNext PROVE BillMove({x1}, AloneEvents)
  OBVIOUS
<1>0. InTurn!Done = Done /\ InTurn!Status = Status /\ InTurn!LastUpdated = LastUpdated
  BY DEF InTurn!Done, Done, InTurn!Status, Status, InTurn!LastUpdated, LastUpdated
<1>1. InTurn!StripeChanges => StripeMove(AloneEvents)
  BY DEF InTurn!StripeChanges, StripeMove, InTurn!Status, Status
<1>2. \A x : InTurn!Redeliver(x) => RedeliverMove(x)
  BY DEF InTurn!Redeliver, RedeliverMove
<1>3. \A x : InTurn!BeginStarter(x) => BeginMove(x)
  BY <1>0 DEF InTurn!BeginStarter, BeginMove
<1>4. \A x, e : InTurn!ReceiveEvent(x, e) => ReceiveMove(x, e)
  BY <1>0 DEF InTurn!ReceiveEvent, ReceiveMove, InTurn!Starter, Starter
<1>5. \A x : InTurn!Finish(x) => Finish(x)
  BY <1>0 DEF InTurn!Finish, Finish
<1>6. /\ \A t, status : InTurn!WriteRow(t, status) => WriteRow(t, status)
      /\ \A t, status : InTurn!WriteBilling(t, status) => WriteBilling(t, status)
  <2>1. \A t, status : InTurn!Written(t, status) = Written(t, status)
    BY ONLY DEF InTurn!Written, Written
  <2>2. \A current, seen, new : InTurn!Merge(current, seen, new) = Merge(current, seen, new)
    BY ONLY DEF InTurn!Merge, Merge
  <2>3. \A t, status : InTurn!WriteRow(t, status) => WriteRow(t, status)
    BY ONLY <2>1, <2>2 DEF InTurn!WriteRow, WriteRow
  <2>4. \A t, status : InTurn!WriteBilling(t, status) => WriteBilling(t, status)
    BY ONLY DEF InTurn!WriteBilling, WriteBilling
  <2> QED BY <2>3, <2>4
<1>7. \A x : InTurn!CommitStarter(x) => CommitStarter(x)
  BY <1>0 DEF InTurn!CommitStarter, CommitStarter, InTurn!Starter, Starter
<1>8. \A x : InTurn!ApplySubscription(x) => ApplySubscription(x)
  BY <1>5, <1>6 DEF InTurn!ApplySubscription, ApplySubscription
<1>9. \A x : InTurn!ApplyInvoice(x) => ApplyInvoice(x)
  BY <1>5, <1>6 DEF InTurn!ApplyInvoice, ApplyInvoice
<1>10. \A x : InTurn!AbortBilling(x) => AbortBilling(x)
  BY <1>0 DEF InTurn!AbortBilling, AbortBilling
<1> QED BY <1>1, <1>2, <1>3, <1>4, <1>7, <1>8, <1>9, <1>10 DEF InTurn!BillingNext, BillMove

LEMMA BillTypedInit ==
    ASSUME NEW T, IsFiniteSet(T), NEW ME \in Nat, stripe = [status |-> "none", nr |-> 0], mail = {}, redelivered = 0,
           rows = {}, billing = "active", customer = FALSE, billTxn = [x \in T |-> Done], ticks = 0
    PROVE  BillTyped(T, ME)
<1>0. /\ stripe \in [status : Status \cup {"none"}, nr : 0 .. ME] /\ redelivered \in 0 .. MaxRedeliver
      /\ billing \in Status
  BY BillingAssumption DEF Status
<1>1. BillShape(T, ME)
  BY <1>0 DEF BillShape
<1>2. Making(T) = {} /\ rows = {}
  BY DEF Making, Makes, Done
<1>3. BillTimes(T)
  BY <1>2 DEF BillTimes, Done
<1>4. Cardinality(T) \in Nat /\ IsFiniteSet({}) /\ Cardinality({}) = 0
  BY FS_CardinalityType, FS_EmptySet
<1>5. BillClaims(T)
  BY <1>2, <1>4 DEF BillClaims
<1> QED BY <1>1, <1>3, <1>5 DEF BillTyped

LEMMA BillCounts ==
    ASSUME NEW T, IsFiniteSet(T), BillClaims(T)
    PROVE  Cardinality(rows) <= Cardinality(T)
<1>1. Making(T) \subseteq T
  BY DEF Making
<1>2. Cardinality(Making(T)) \in Nat /\ Cardinality(rows) \in Nat /\ Cardinality(T) \in Nat
  BY <1>1, FS_Subset, FS_CardinalityType DEF BillClaims
<1> QED BY <1>2 DEF BillClaims

LEMMA OverlapTypes == BillTyped(BillTxns, MaxEvents) => BillingTypeOK
<1> SUFFICES ASSUME BillTyped(BillTxns, MaxEvents) PROVE BillingTypeOK
  OBVIOUS
<1>1. Cardinality(rows) <= Cardinality(BillTxns)
  BY BillCounts, BillingAssumption DEF BillTyped
<1>2. Event = BillEvents(MaxEvents)
  BY DEF Event, BillEvents
<1>3. \A r, s \in rows : r.created = s.created => r = s
  BY DEF BillTyped, BillTimes
<1>4. \A x \in BillTxns :
        billTxn[x] \in {Done} \cup [op : {"starter"}, at : Nat]
          \cup [op : {"event"}, at : Nat, event : Event, seen : Row, new : BOOLEAN, billing : Status]
  BY <1>2 DEF BillTyped, BillShape, StarterTxn, EventTxn
<1> QED BY <1>1, <1>2, <1>3, <1>4 DEF BillTyped, BillShape, BillingTypeOK

LEMMA AloneCardinality == \A S : OneByOne!Cardinality(S) = Cardinality(S)
BY DEF OneByOne!Cardinality, Cardinality

LEMMA AloneTypes == BillTyped({x1}, AloneEvents) => OneByOne!BillingTypeOK
<1> SUFFICES ASSUME BillTyped({x1}, AloneEvents) PROVE OneByOne!BillingTypeOK
  OBVIOUS
<1>0. IsFiniteSet({x1})
  BY FS_Singleton
<1>1. OneByOne!Cardinality(rows) <= OneByOne!Cardinality({x1})
  BY <1>0, BillCounts, AloneCardinality DEF BillTyped
<1>2. /\ OneByOne!Event = BillEvents(AloneEvents) /\ OneByOne!Row = Row /\ OneByOne!Status = Status
      /\ OneByOne!Done = Done
  BY DEF OneByOne!Event, BillEvents, OneByOne!Row, Row, OneByOne!Status, Status, OneByOne!Done, Done
<1>3. \A r, s \in rows : r.created = s.created => r = s
  BY DEF BillTyped, BillTimes
<1>4. \A x \in {x1} :
        billTxn[x] \in {OneByOne!Done} \cup [op : {"starter"}, at : Nat]
          \cup [op : {"event"}, at : Nat, event : OneByOne!Event, seen : OneByOne!Row, new : BOOLEAN,
                billing : OneByOne!Status]
  BY <1>2 DEF BillTyped, BillShape, StarterTxn, EventTxn
<1> QED BY <1>1, <1>2, <1>3, <1>4 DEF BillTyped, BillShape, OneByOne!BillingTypeOK

(* The components share no state, and each keeps its types.                *)
AccountTyped ==
    IF part \in {"billing alone", "billing in turn"} THEN BillTyped({x1}, AloneEvents)
                                                     ELSE BillTyped(BillTxns, MaxEvents)

PlatformIInv ==
    TenantIInv /\ BreakerTyped /\ LimitTyped /\ NotificationsTypeOK /\ OpsCounted /\ Orderly /\ BeatTyped /\ AccountTyped

LEMMA AccountTypedInit == PlatformInit => AccountTyped
<1> SUFFICES ASSUME PlatformInit PROVE AccountTyped
  OBVIOUS
<1>0. IsFiniteSet({x1})
  BY FS_Singleton
<1>1. CASE part \in {"billing alone", "billing in turn"}
  <2>1. OneByOne!BillingInit
    BY <1>1 DEF PlatformInit
  <2>2. BillTyped({x1}, AloneEvents)
    BY <1>0, <2>1, BillTypedInit, AloneAssumption DEF OneByOne!BillingInit, OneByOne!Done, Done
  <2> QED BY <1>1, <2>2 DEF AccountTyped
<1>2. CASE part \notin {"billing alone", "billing in turn"}
  <2>1. BillingInit
    BY <1>2 DEF PlatformInit
  <2>2. BillTyped(BillTxns, MaxEvents)
    BY <2>1, BillTypedInit, BillingAssumption DEF BillingInit
  <2> QED BY <1>2, <2>2 DEF AccountTyped
<1> QED BY <1>1, <1>2

LEMMA BillStays ==
    ASSUME NEW T, NEW ME, BillTyped(T, ME), UNCHANGED billingVars
    PROVE  BillTyped(T, ME)'
BY DEF billingVars, BillTyped, BillShape, BillTimes, BillClaims, Making

LEMMA AccountTypedStep ==
    ASSUME AccountTyped, UNCHANGED part,
           \/ part = "billing" /\ BillingNext
           \/ part = "billing alone" /\ OneByOne!BillingNext
           \/ part = "billing in turn" /\ InTurn!BillingNext
           \/ UNCHANGED billingVars
    PROVE  AccountTyped'
<1>1. CASE part = "billing" /\ BillingNext
  <2>1. BillTyped(BillTxns, MaxEvents)
    BY <1>1 DEF AccountTyped
  <2>2. BillTyped(BillTxns, MaxEvents)'
    BY <1>1, <2>1, OverlapMoves, MoveTyped, BillingAssumption
  <2> QED BY <1>1, <2>2 DEF AccountTyped
<1>2. CASE part \in {"billing alone", "billing in turn"} /\ (OneByOne!BillingNext \/ InTurn!BillingNext)
  <2>1. BillTyped({x1}, AloneEvents) /\ IsFiniteSet({x1})
    BY <1>2, FS_Singleton DEF AccountTyped
  <2>2. BillTyped({x1}, AloneEvents)'
    BY <1>2, <2>1, AloneMoves, InTurnMoves, MoveTyped, AloneAssumption
  <2> QED BY <1>2, <2>2 DEF AccountTyped
<1>3. CASE UNCHANGED billingVars
  BY <1>3, BillStays DEF AccountTyped
<1> QED BY <1>1, <1>2, <1>3

(* Every part of the platform keeps the shapes and the ranges the code     *)
(* gives its rows and counters, for any number of users, requests,         *)
(* processes and sites: an account has no more subscriptions than requests *)
(* that can overlap, however often they look (billing/service.py), no two  *)
(* of them of one time; a circuit is open exactly from its threshold on    *)
(* (circuit_breaker.py:39); the runs that two deliveries of a Beat task    *)
(* have yet to commit are of different sites (jobs/service.py).            *)
THEOREM PlatformTypeCorrect == PlatformSpec => []PlatformTypeOK
<1> DEFINE v == <<part, tenancyVars, billingVars, breakerVars, limitVars, noticeVars, opsVars, wsVars, beatVars>>
<1>1. PlatformInit => PlatformIInv
  <2> SUFFICES ASSUME PlatformInit PROVE PlatformIInv
    OBVIOUS
  <2>1. /\ TenancyInit /\ BreakerInit /\ LimitInit /\ NotificationsInit /\ OpsInit /\ WsInit /\ BeatInit
    BY DEF PlatformInit
  <2> QED
    BY <2>1, TenantInit, BreakerTypedInit, LimitTypedInit, NotesTypedInit, OpsCountedInit, OrderlyInit, BeatTypedInit,
       AccountTypedInit DEF PlatformIInv
<1>2. PlatformIInv /\ [PlatformNext]_v => PlatformIInv'
  <2> SUFFICES ASSUME PlatformIInv, [PlatformNext]_v PROVE PlatformIInv'
    OBVIOUS
  <2>1. /\ [TenancyNext]_tenancyVars /\ [BreakerNext]_breakerVars /\ [LimitNext]_limitVars
        /\ [NotificationsNext]_noticeVars /\ [OpsNext]_opsVars /\ [WsNext]_wsVars /\ [BeatNext]_beatVars
        /\ UNCHANGED part
        /\ \/ part = "billing" /\ BillingNext
           \/ part = "billing alone" /\ OneByOne!BillingNext
           \/ part = "billing in turn" /\ InTurn!BillingNext
           \/ UNCHANGED billingVars
    BY DEF PlatformNext
  <2>2. TenantIInv' /\ BreakerTyped' /\ LimitTyped' /\ NotificationsTypeOK' /\ Orderly' /\ BeatTyped'
    BY <2>1, TenantStep, BreakerTypedStep, LimitTypedStep, NotesTypedStep, OrderlyStep, BeatTypedStep DEF PlatformIInv
  <2>3. OpsCounted'
    BY <2>1, OpsCountedStep DEF PlatformIInv
  <2>4. AccountTyped'
    BY <2>1, AccountTypedStep DEF PlatformIInv
  <2> QED BY <2>2, <2>3, <2>4 DEF PlatformIInv
<1>3. PlatformIInv => PlatformTypeOK
  <2> SUFFICES ASSUME PlatformIInv PROVE PlatformTypeOK
    OBVIOUS
  <2>1. TenancyTypeOK /\ BreakerTypeOK /\ LimitTypeOK /\ NotificationsTypeOK /\ OpsTypeOK /\ WsTypeOK /\ BeatTypeOK
    BY BreakerTypes, OpsCountedTyped, BeatTypes DEF PlatformIInv, TenantIInv, LimitTyped, Orderly, WsTyped
  <2>2. IF part \in {"billing alone", "billing in turn"} THEN OneByOne!BillingTypeOK ELSE BillingTypeOK
    BY OverlapTypes, AloneTypes DEF PlatformIInv, AccountTyped
  <2> QED BY <2>1, <2>2 DEF PlatformTypeOK
<1> QED
  BY <1>1, <1>2, <1>3, PTL DEF PlatformSpec, v
=============================================================================
