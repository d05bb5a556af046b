-------------------------- MODULE Decisions_proofs --------------------------
(***************************************************************************)
(* Proofs about what decides the work of a site, for any number of         *)
(* requests and jobs, queries, clusters, sources and facts: the way from   *)
(* findings to roadmap items, execution jobs, the topic graph, the         *)
(* knowledge base, the slots of Google's results, the strategy, and the    *)
(* rows that only a look before the insert keeps apart, in all of them.    *)
(***************************************************************************)
EXTENDS MCDecisions, Counting, TLAPS

----------------------------------------------------------------------------
(* Opportunities, candidates, decisions and roadmaps: two properties that  *)
(* hold however transactions overlap, and those that hold if they do not.  *)
Active(q)   == req[q].pc # "idle"
Inserted(q) == At(q, "ready", {"generate", "sitemap"})

(* What the rows of a transaction name depends on its operation.           *)
RowsOf(op) == IF op \in Decisions THEN CandIds ELSE IF op = "roadmap" THEN Decided ELSE OppIds

Typed == TypeOK /\ \A q \in Requests : req[q].rows \subseteq RowsOf(req[q].op)

(* What a transaction opens has a name that no row has, and no transaction *)
(* that is still under way shares its name with another.                   *)
Fresh ==
    /\ \A o \in opps : o.id.at <= clock
    /\ \A c \in cands : c.id.opp.at <= clock
    /\ \A q \in Requests : Active(q) =>
         /\ req[q].at <= clock
         /\ \A o \in opps : o.id.at # req[q].at
         /\ \A c \in cands : c.id.opp.at # req[q].at
         /\ \A r \in Requests : Active(r) /\ req[r].at = req[q].at => r = q

(* Candidates that are inserted and not committed are for opportunities of *)
(* the table that have no candidate, and no two transactions insert one    *)
(* for the same opportunity.                                               *)
InsertsDisjoint ==
    \A q \in Requests : Inserted(q) =>
        /\ \A o \in req[q].rows : \E p \in opps : p.id = o
        /\ \A c \in cands : c.id.opp \notin req[q].rows
        /\ \A r \in Requests \ {q} : Inserted(r) => req[r].rows \cap req[q].rows = {}

(* A decision a roadmap may schedule.                                      *)
Approval(d) ==
    /\ d \in decisions
    /\ d.decision = "approve"
    /\ \E c \in cands : c.id = d.cand /\ c.status # "pending"

(* What a roadmap build has read and not yet committed is approvals.       *)
BuildsApprovals ==
    \A q \in Requests : At(q, "ready", {"roadmap"}) => \A d \in req[q].rows : Approval(d)

----------------------------------------------------------------------------
(* A transaction that ends (commit or rollback) keeps the types.           *)
LEMMA FinishedEffect ==
  ASSUME Typed, NEW q \in Requests, Finished(q)
  PROVE  /\ req' \in [Requests -> Request]
         /\ \A r \in Requests : req'[r].rows \subseteq RowsOf(req'[r].op)
         /\ req'[q].pc = "idle"
         /\ \A r \in Requests \ {q} : req'[r] = req[r]
<1>1. Idle \in Request /\ Idle.rows = {} /\ Idle.pc = "idle"
  BY DecisionAssumption DEF Idle, Request, Ops, Times
<1> QED
  BY <1>1 DEF Finished, Typed, TypeOK

(* A transaction that starts takes the next name.                          *)
LEMMA BeginEffect ==
  ASSUME Typed, NEW q \in Requests, Begin(q)
  PROVE  /\ clock \in Nat /\ clock' = clock + 1 /\ clock' \in Times
         /\ req' \in [Requests -> Request]
         /\ \A r \in Requests : req'[r].rows \subseteq RowsOf(req'[r].op)
         /\ req'[q].pc = "begun" /\ req'[q].at = clock'
         /\ \A r \in Requests \ {q} : req'[r] = req[r]
<1>1. clock \in Nat /\ clock' = clock + 1 /\ clock' \in Times
  BY DecisionAssumption DEF Begin, Typed, TypeOK, Times
<1>2. PICK op \in Ops :
        req' = [req EXCEPT ![q] = [Idle EXCEPT !.pc = "begun", !.op = op, !.at = clock']]
  BY DEF Begin
<1> DEFINE new == [Idle EXCEPT !.pc = "begun", !.op = op, !.at = clock']
<1>3. new \in Request /\ new.rows = {} /\ new.pc = "begun" /\ new.at = clock'
  BY <1>1 DEF Idle, Request
<1>4. req' = [req EXCEPT ![q] = new]
  BY <1>2
<1> HIDE DEF new
<1> QED
  BY <1>1, <1>3, <1>4 DEF Typed, TypeOK

(* A statement whose result goes to rows keeps the types.                  *)
LEMMA RowsEffect ==
  ASSUME Typed, NEW q \in Requests, NEW pc \in {"scanned", "read", "ready"},
         NEW rows \in SUBSET Refs, rows \subseteq RowsOf(req[q].op),
         req' = [req EXCEPT ![q].pc = pc, ![q].rows = rows]
  PROVE  /\ req' \in [Requests -> Request]
         /\ \A r \in Requests : req'[r].rows \subseteq RowsOf(req'[r].op)
         /\ req'[q].pc = pc /\ req'[q].op = req[q].op /\ req'[q].at = req[q].at
         /\ req'[q].rows = rows
         /\ \A r \in Requests \ {q} : req'[r] = req[r]
<1>1. PICK p : p = [req[q] EXCEPT !.pc = pc, !.rows = rows]
  OBVIOUS
<1>2. req[q] \in Request /\ req \in [Requests -> Request]
  BY DEF Typed, TypeOK
<1>3. p \in Request /\ p.pc = pc /\ p.op = req[q].op /\ p.at = req[q].at /\ p.rows = rows
  BY <1>1, <1>2 DEF Request
<1>4. req' = [req EXCEPT ![q] = p]
  BY <1>1, <1>2
<1>5. \A r \in Requests : req'[r] = IF r = q THEN p ELSE req[r]
  BY <1>2, <1>4
<1>6. req' \in [Requests -> Request]
  BY <1>2, <1>3, <1>4
<1> QED BY <1>3, <1>5, <1>6 DEF Typed

(* A statement whose result goes to seen keeps the types.                  *)
LEMMA SeenEffect ==
  ASSUME Typed, NEW q \in Requests, NEW pc \in {"scanned", "read", "ready"},
         NEW seen \in SUBSET Refs,
         req' = [req EXCEPT ![q].pc = pc, ![q].seen = seen]
  PROVE  /\ req' \in [Requests -> Request]
         /\ \A r \in Requests : req'[r].rows \subseteq RowsOf(req'[r].op)
         /\ req'[q].pc = pc /\ req'[q].op = req[q].op /\ req'[q].at = req[q].at
         /\ \A r \in Requests \ {q} : req'[r] = req[r]
<1>1. PICK p : p = [req[q] EXCEPT !.pc = pc, !.seen = seen]
  OBVIOUS
<1>2. req[q] \in Request /\ req \in [Requests -> Request]
  BY DEF Typed, TypeOK
<1>3. p \in Request /\ p.pc = pc /\ p.op = req[q].op /\ p.at = req[q].at /\ p.rows = req[q].rows
  BY <1>1, <1>2 DEF Request
<1>4. req' = [req EXCEPT ![q] = p]
  BY <1>1, <1>2
<1>5. \A r \in Requests : req'[r] = IF r = q THEN p ELSE req[r]
  BY <1>2, <1>4
<1>6. req' \in [Requests -> Request]
  BY <1>2, <1>3, <1>4
<1> QED BY <1>3, <1>5, <1>6 DEF Typed

(* A scan that notes what it will open keeps the types.                    *)
LEMMA NewEffect ==
  ASSUME Typed, NEW q \in Requests, NEW pc \in {"scanned", "read", "ready"},
         NEW new \in SUBSET Findings,
         req' = [req EXCEPT ![q].pc = pc, ![q].new = new]
  PROVE  /\ req' \in [Requests -> Request]
         /\ \A r \in Requests : req'[r].rows \subseteq RowsOf(req'[r].op)
         /\ req'[q].pc = pc /\ req'[q].op = req[q].op /\ req'[q].at = req[q].at
         /\ \A r \in Requests \ {q} : req'[r] = req[r]
<1>1. PICK p : p = [req[q] EXCEPT !.pc = pc, !.new = new]
  OBVIOUS
<1>2. req[q] \in Request /\ req \in [Requests -> Request]
  BY DEF Typed, TypeOK
<1>3. p \in Request /\ p.pc = pc /\ p.op = req[q].op /\ p.at = req[q].at /\ p.rows = req[q].rows
  BY <1>1, <1>2 DEF Request
<1>4. req' = [req EXCEPT ![q] = p]
  BY <1>1, <1>2
<1>5. \A r \in Requests : req'[r] = IF r = q THEN p ELSE req[r]
  BY <1>2, <1>4
<1>6. req' \in [Requests -> Request]
  BY <1>2, <1>3, <1>4
<1> QED BY <1>3, <1>5, <1>6 DEF Typed

(* The rows a commit writes have the types of their tables.                *)
LEMMA OpeningType ==
  ASSUME Typed, NEW q \in Requests
  PROVE  Opened(q) \subseteq OppIds /\ Opening(q) \subseteq Opp
BY DEF Typed, TypeOK, Request, Opened, Opening, OppIds, Opp

(* Open opportunities are named like opportunities.                        *)
LEMMA OpenOppsType == Typed => OpenOpps \subseteq OppIds
BY DEF Typed, TypeOK, OpenOpps, Opp

(* The statements that read leave the request well typed.                  *)
LEMMA TypedReads ==
  ASSUME Typed, NEW q \in Requests,
         ReadOpenKeys(q) \/ LoadOpenSitemap(q) \/ LoadBlocked(q) \/ ReadCandidates(q) \/ InsertCandidates(q)
           \/ LoadCandidate(q) \/ ReadScheduled(q) \/ ReadApproved(q)
  PROVE  /\ Typed'
         /\ req'[q].op = req[q].op /\ req'[q].at = req[q].at
         /\ req[q].pc # "idle" /\ req'[q].pc # "idle"
         /\ \A r \in Requests \ {q} : req'[r] = req[r]
         /\ UNCHANGED <<opps, cands, decisions, items, clock>>
<1>a. req[q].pc # "idle" /\ UNCHANGED <<opps, cands, decisions, items, clock>>
  BY DEF ReadOpenKeys, LoadOpenSitemap, LoadBlocked, ReadCandidates, InsertCandidates, LoadCandidate,
     ReadScheduled, ReadApproved, At
<1> SUFFICES /\ req' \in [Requests -> Request]
             /\ \A r \in Requests : req'[r].rows \subseteq RowsOf(req'[r].op)
             /\ req'[q].op = req[q].op /\ req'[q].at = req[q].at /\ req'[q].pc # "idle"
             /\ \A r \in Requests \ {q} : req'[r] = req[r]
  BY <1>a DEF Typed, TypeOK
<1>1. CASE ReadOpenKeys(q)
  <2>1. PICK new \in SUBSET Findings : req' = [req EXCEPT ![q].pc = "scanned", ![q].new = new]
    BY <1>1, DecisionAssumption DEF ReadOpenKeys
  <2> QED
    BY <2>1, NewEffect
<1>2. CASE LoadOpenSitemap(q)
  <2>1. PICK rows : rows = {o \in OpenOpps : o.finding \in SitemapFindings}
    OBVIOUS
  <2>2. rows \in SUBSET Refs /\ rows \subseteq RowsOf(req[q].op)
    BY <1>2, <2>1, OpenOppsType DEF LoadOpenSitemap, At, RowsOf, Decisions, Refs
  <2>3. req' = [req EXCEPT ![q].pc = "ready", ![q].rows = rows]
    BY <1>2, <2>1 DEF LoadOpenSitemap
  <2> QED
    BY <2>2, <2>3, RowsEffect
<1>3. CASE LoadBlocked(q)
  <2>1. PICK rows \in SUBSET OpenOpps : req' = [req EXCEPT ![q].pc = "ready", ![q].rows = rows]
    BY <1>3 DEF LoadBlocked
  <2>2. rows \in SUBSET Refs /\ rows \subseteq RowsOf(req[q].op)
    BY <1>3, <2>1, OpenOppsType DEF LoadBlocked, At, RowsOf, Decisions, Refs
  <2> QED
    BY <2>1, <2>2, RowsEffect
<1>8. CASE ReadCandidates(q)
  <2>1. PICK seen : seen = {c.id.opp : c \in cands}
    OBVIOUS
  <2>2. seen \in SUBSET Refs
    BY <2>1 DEF Typed, TypeOK, Cand, CandIds, Refs
  <2>3. req' = [req EXCEPT ![q].pc = "read", ![q].seen = seen]
    BY <1>8, <2>1 DEF ReadCandidates
  <2> QED
    BY <2>2, <2>3, SeenEffect
<1>4. CASE InsertCandidates(q)
  <2>1. PICK rows : rows = OpenOpps \ req[q].seen
    OBVIOUS
  <2>2. rows \in SUBSET Refs /\ rows \subseteq RowsOf(req[q].op)
    BY <1>4, <2>1, OpenOppsType DEF InsertCandidates, At, RowsOf, Decisions, Refs
  <2>3. req' = [req EXCEPT ![q].pc = "ready", ![q].rows = rows]
    BY <1>4, <2>1 DEF InsertCandidates
  <2> QED
    BY <2>2, <2>3, RowsEffect
<1>5. CASE LoadCandidate(q)
  <2>1. PICK c \in cands : req' = [req EXCEPT ![q].pc = "ready", ![q].rows = {c.id}]
    BY <1>5 DEF LoadCandidate
  <2>2. PICK rows : rows = {c.id}
    OBVIOUS
  <2>3. rows \in SUBSET Refs /\ rows \subseteq RowsOf(req[q].op)
    BY <1>5, <2>1, <2>2 DEF LoadCandidate, At, RowsOf, Refs, Typed, TypeOK, Cand
  <2>4. req' = [req EXCEPT ![q].pc = "ready", ![q].rows = rows]
    BY <2>1, <2>2
  <2> QED
    BY <2>3, <2>4, RowsEffect
<1>6. CASE ReadScheduled(q)
  <2>1. PICK seen : seen = {i.decision : i \in items}
    OBVIOUS
  <2>2. seen \in SUBSET Refs
    BY <2>1 DEF Typed, TypeOK, Refs
  <2>3. req' = [req EXCEPT ![q].pc = "read", ![q].seen = seen]
    BY <1>6, <2>1 DEF ReadScheduled
  <2> QED
    BY <2>2, <2>3, SeenEffect
<1>7. CASE ReadApproved(q)
  <2>1. PICK rows : rows = {d \in decisions : d.decision = "approve" /\ d.cand \in ApprovedCands} \ req[q].seen
    OBVIOUS
  <2>2. rows \in SUBSET Refs /\ rows \subseteq RowsOf(req[q].op)
    BY <1>7, <2>1 DEF ReadApproved, At, RowsOf, Decisions, Refs, Typed, TypeOK
  <2>3. req' = [req EXCEPT ![q].pc = "ready", ![q].rows = rows]
    BY <1>7, <2>1 DEF ReadApproved
  <2> QED
    BY <2>2, <2>3, RowsEffect
<1> QED
  BY <1>1, <1>2, <1>3, <1>4, <1>5, <1>6, <1>7, <1>8

(* The type invariant, with what the rows of a request name.               *)
LEMMA TypedStep == Typed /\ [Next]_vars => Typed'
<1> SUFFICES ASSUME Typed, [Next]_vars PROVE Typed'
  OBVIOUS
<1>1. ASSUME NEW q \in Requests, Begin(q) PROVE Typed'
  BY <1>1, BeginEffect DEF Begin, Typed, TypeOK
<1>2. ASSUME NEW q \in Requests, CommitScan(q) PROVE Typed'
  BY <1>2, FinishedEffect, OpeningType DEF CommitScan, Typed, TypeOK
<1>3. ASSUME NEW q \in Requests, CommitResolve(q) PROVE Typed'
  <2>1. ClosedAs[req[q].op] \in {"completed", "rejected"}
    BY <1>3 DEF CommitResolve, At, ClosedAs
  <2>2. opps' \subseteq Opp
    BY <1>3, <2>1 DEF CommitResolve, Typed, TypeOK, Opp
  <2> QED
    BY <1>3, <2>2, FinishedEffect DEF CommitResolve, Typed, TypeOK
<1>4. ASSUME NEW q \in Requests, CommitGenerate(q) PROVE Typed'
  <2>1. req[q].rows \cup Opened(q) \subseteq OppIds
    BY <1>4, OpeningType DEF CommitGenerate, At, Typed, RowsOf, Decisions
  <2>2. cands' \subseteq Cand
    BY <1>4, <2>1 DEF CommitGenerate, Typed, TypeOK, Request, Cand, CandIds
  <2> QED
    BY <1>4, <2>2, FinishedEffect, OpeningType DEF CommitGenerate, Typed, TypeOK
<1>5. ASSUME NEW q \in Requests, RecordDecision(q) PROVE Typed'
  <2>1. req[q].rows \subseteq CandIds /\ req[q].op \in Decisions /\ req[q].at \in Times
    BY <1>5 DEF RecordDecision, At, Typed, TypeOK, RowsOf, Request
  <2>2. StatusMap[req[q].op] \in {"approved", "rejected", "deferred"}
    BY <2>1 DEF StatusMap, Decisions
  <2>3. cands' \subseteq Cand
    BY <1>5, <2>2 DEF RecordDecision, Typed, TypeOK, Cand
  <2>4. decisions' \subseteq Decided
    BY <1>5, <2>1 DEF RecordDecision, Typed, TypeOK, Decided
  <2> QED
    BY <1>5, <2>3, <2>4, FinishedEffect DEF RecordDecision, Typed, TypeOK
<1>6. ASSUME NEW q \in Requests, CommitRoadmap(q) PROVE Typed'
  <2>1. req[q].rows \subseteq Decided /\ req[q].at \in Times
    BY <1>6 DEF CommitRoadmap, At, Typed, TypeOK, RowsOf, Decisions, Request
  <2> QED
    BY <1>6, <2>1, FinishedEffect DEF CommitRoadmap, Typed, TypeOK
<1>7. ASSUME NEW q \in Requests, Abort(q) PROVE Typed'
  BY <1>7, FinishedEffect DEF Abort, Typed, TypeOK
<1>8. CASE UNCHANGED vars
  BY <1>8 DEF vars, Typed, TypeOK
<1> QED
  BY <1>1, <1>2, <1>3, <1>4, <1>5, <1>6, <1>7, <1>8, TypedReads DEF Next

----------------------------------------------------------------------------
(* The names of transactions that are under way stay apart from each other *)
(* and from those in the tables.                                           *)
LEMMA FreshStep == Typed /\ Fresh /\ InsertsDisjoint /\ [Next]_vars => Fresh'
<1> SUFFICES ASSUME Typed, Fresh, InsertsDisjoint, [Next]_vars PROVE Fresh'
  OBVIOUS
<1>1. ASSUME NEW q \in Requests, Begin(q) PROVE Fresh'
  <2>1. /\ clock \in Nat /\ clock' = clock + 1
        /\ req'[q].at = clock' /\ \A r \in Requests \ {q} : req'[r] = req[r]
        /\ UNCHANGED <<opps, cands>>
    BY <1>1, BeginEffect DEF Begin
  <2>2. /\ \A o \in opps : o.id.at \in Nat
        /\ \A c \in cands : c.id.opp.at \in Nat
        /\ \A r \in Requests : req[r].at \in Nat
    BY DecisionAssumption DEF Typed, TypeOK, Opp, Cand, CandIds, OppIds, Times, Request
  <2> QED
    BY <2>1, <2>2 DEF Fresh, Active
<1>2. ASSUME NEW q \in Requests, Active(q),
             req'[q].pc = "idle", \A r \in Requests \ {q} : req'[r] = req[r], clock' = clock,
             \A o \in opps' : \/ \E p \in opps : p.id = o.id
                              \/ o.id.at = req[q].at,
             \A c \in cands' : \/ \E d \in cands : d.id = c.id
                               \/ c.id.opp.at = req[q].at
                               \/ \E p \in opps : p.id = c.id.opp
      PROVE  Fresh'
  BY <1>2 DEF Fresh, Active
<1>3. ASSUME NEW q \in Requests, CommitScan(q) PROVE Fresh'
  <2>1. \A o \in Opening(q) : o.id.at = req[q].at
    BY DEF Opening, Opened
  <2> QED
    BY <1>2, <1>3, <2>1, FinishedEffect DEF CommitScan, At, Active
<1>4. ASSUME NEW q \in Requests, CommitResolve(q) PROVE Fresh'
  <2>1. \A o \in opps' : \E p \in opps : p.id = o.id
    BY <1>4 DEF CommitResolve, Typed, TypeOK, Opp
  <2> QED
    BY <1>2, <1>4, <2>1, FinishedEffect DEF CommitResolve, At, Active
<1>5. ASSUME NEW q \in Requests, CommitGenerate(q) PROVE Fresh'
  <2>1. \A o \in opps' : o \in opps \/ o.id.at = req[q].at
    BY <1>5 DEF CommitGenerate, Opening, Opened
  <2>2. \A c \in cands' : \/ c \in cands
                         \/ c.id.opp \in req[q].rows
                         \/ c.id.opp.at = req[q].at
    BY <1>5 DEF CommitGenerate, Opened
  <2>3. \A o \in req[q].rows : \E p \in opps : p.id = o
    BY <1>5 DEF CommitGenerate, At, InsertsDisjoint, Inserted
  <2> QED
    BY <1>2, <1>5, <2>1, <2>2, <2>3, FinishedEffect DEF CommitGenerate, At, Active
<1>6. ASSUME NEW q \in Requests, RecordDecision(q) PROVE Fresh'
  <2>1. \A c \in cands' : \E d \in cands : d.id = c.id
    BY <1>6 DEF RecordDecision, Typed, TypeOK, Cand
  <2> QED
    BY <1>2, <1>6, <2>1, FinishedEffect DEF RecordDecision, At, Active
<1>7. ASSUME NEW q \in Requests, CommitRoadmap(q) PROVE Fresh'
  BY <1>2, <1>7, FinishedEffect DEF CommitRoadmap, At, Active
<1>8. ASSUME NEW q \in Requests, Abort(q) PROVE Fresh'
  BY <1>2, <1>8, FinishedEffect DEF Abort, Active
<1>9. ASSUME NEW q \in Requests,
             ReadOpenKeys(q) \/ LoadOpenSitemap(q) \/ LoadBlocked(q) \/ ReadCandidates(q) \/ InsertCandidates(q)
               \/ LoadCandidate(q) \/ ReadScheduled(q) \/ ReadApproved(q)
      PROVE  Fresh'
  <2>1. /\ req'[q].at = req[q].at /\ req[q].pc # "idle" /\ req'[q].pc # "idle"
        /\ \A r \in Requests \ {q} : req'[r] = req[r]
        /\ UNCHANGED <<opps, cands, clock>>
    BY <1>9, TypedReads
  <2> QED
    BY <2>1 DEF Fresh, Active
<1>10. CASE UNCHANGED vars
  BY <1>10 DEF vars, Fresh, Active
<1> QED
  BY <1>1, <1>3, <1>4, <1>5, <1>6, <1>7, <1>8, <1>9, <1>10 DEF Next

(* Inserted candidates stay without rivals until they are committed.       *)
LEMMA InsertsStep ==
  Typed /\ Fresh /\ InsertsDisjoint /\ [Next]_vars => InsertsDisjoint'
<1> SUFFICES ASSUME Typed, Fresh, InsertsDisjoint, [Next]_vars PROVE InsertsDisjoint'
  OBVIOUS
<1>1. ASSUME NEW q \in Requests, ~Inserted(q)', \A r \in Requests \ {q} : req'[r] = req[r],
             \A o \in opps : \E p \in opps' : p.id = o.id,
             \A c \in cands' : \/ \E d \in cands : d.id = c.id
                               \/ c.id.opp.at = req[q].at /\ Active(q)
                               \/ c.id.opp \in req[q].rows /\ Inserted(q)
      PROVE  InsertsDisjoint'
  <2> SUFFICES ASSUME NEW s \in Requests, Inserted(s)'
               PROVE  /\ \A o \in req'[s].rows : \E p \in opps' : p.id = o
                      /\ \A c \in cands' : c.id.opp \notin req'[s].rows
                      /\ \A r \in Requests \ {s} : Inserted(r)' => req'[r].rows \cap req'[s].rows = {}
    BY DEF InsertsDisjoint
  <2>1. s # q /\ req'[s] = req[s] /\ Inserted(s)
    BY <1>1 DEF Inserted, At
  <2>2. \A o \in req[s].rows : \E p \in opps : p.id = o
    BY <2>1 DEF InsertsDisjoint
  <2>3. \A o \in req'[s].rows : \E p \in opps' : p.id = o
    BY <1>1, <2>1, <2>2
  <2>4. ASSUME NEW c \in cands' PROVE c.id.opp \notin req'[s].rows
    <3>1. CASE \E d \in cands : d.id = c.id
      BY <2>1, <3>1 DEF InsertsDisjoint
    <3>2. CASE c.id.opp.at = req[q].at /\ Active(q)
      BY <2>1, <2>2, <3>2 DEF Fresh
    <3>3. CASE c.id.opp \in req[q].rows /\ Inserted(q)
      BY <2>1, <3>3 DEF InsertsDisjoint
    <3> QED
      BY <1>1, <3>1, <3>2, <3>3
  <2>5. \A r \in Requests \ {s} : Inserted(r)' => req'[r].rows \cap req'[s].rows = {}
    BY <1>1, <2>1 DEF InsertsDisjoint, Inserted, At
  <2> QED
    BY <2>3, <2>4, <2>5
<1>2. ASSUME NEW q \in Requests, Begin(q) PROVE InsertsDisjoint'
  BY <1>1, <1>2, BeginEffect DEF Begin, Inserted, At
<1>3. ASSUME NEW q \in Requests, CommitScan(q) PROVE InsertsDisjoint'
  BY <1>1, <1>3, FinishedEffect DEF CommitScan, Inserted, At
<1>4. ASSUME NEW q \in Requests, CommitResolve(q) PROVE InsertsDisjoint'
  <2>1. \A o \in opps : \E p \in opps' : p.id = o.id
    <3> TAKE o \in opps
    <3> DEFINE p == [o EXCEPT !.status = IF o.id \in req[q].rows THEN ClosedAs[req[q].op] ELSE @]
    <3>1. p \in opps' /\ p.id = o.id
      BY <1>4 DEF CommitResolve, Typed, TypeOK, Opp
    <3> QED
      BY <3>1
  <2> QED
    BY <1>1, <1>4, <2>1, FinishedEffect DEF CommitResolve, Inserted, At
<1>5. ASSUME NEW q \in Requests, CommitGenerate(q) PROVE InsertsDisjoint'
  <2>1. \A c \in cands' : \/ c \in cands
                         \/ c.id.opp \in req[q].rows
                         \/ c.id.opp.at = req[q].at
    BY <1>5 DEF CommitGenerate, Opened
  <2> QED
    BY <1>1, <1>5, <2>1, FinishedEffect DEF CommitGenerate, Inserted, At, Active
<1>6. ASSUME NEW q \in Requests, RecordDecision(q) PROVE InsertsDisjoint'
  <2>1. \A c \in cands' : \E d \in cands : d.id = c.id
    BY <1>6 DEF RecordDecision, Typed, TypeOK, Cand
  <2> QED
    BY <1>1, <1>6, <2>1, FinishedEffect DEF RecordDecision, Inserted, At
<1>7. ASSUME NEW q \in Requests, CommitRoadmap(q) PROVE InsertsDisjoint'
  BY <1>1, <1>7, FinishedEffect DEF CommitRoadmap, Inserted, At
<1>8. ASSUME NEW q \in Requests, Abort(q) PROVE InsertsDisjoint'
  BY <1>1, <1>8, FinishedEffect DEF Abort, Inserted, At
<1>9. ASSUME NEW q \in Requests, InsertCandidates(q) PROVE InsertsDisjoint'
  <2> DEFINE rows == OpenOpps \ req[q].seen
  <2>1. /\ \A c \in cands : c.id.opp \notin rows
        /\ \A r \in Requests \ {q} : Inserted(r) => req[r].rows \cap rows = {}
        /\ req' = [req EXCEPT ![q].pc = "ready", ![q].rows = rows]
        /\ UNCHANGED <<opps, cands>>
    BY <1>9 DEF InsertCandidates, Inserted
  <2>2. \A o \in rows : \E p \in opps : p.id = o
    BY DEF OpenOpps
  <2>3. req'[q].rows = rows /\ \A r \in Requests \ {q} : req'[r] = req[r]
    BY <2>1 DEF Typed, TypeOK, Request
  <2> HIDE DEF rows
  <2>4. SUFFICES ASSUME NEW s \in Requests, Inserted(s)'
                 PROVE  /\ \A o \in req'[s].rows : \E p \in opps' : p.id = o
                        /\ \A c \in cands' : c.id.opp \notin req'[s].rows
                        /\ \A r \in Requests \ {s} : Inserted(r)' => req'[r].rows \cap req'[s].rows = {}
    BY DEF InsertsDisjoint
  <2>5. \A r \in Requests \ {q} : Inserted(r)' => Inserted(r) /\ req'[r].rows = req[r].rows
    BY <2>3 DEF Inserted, At
  <2>6. CASE s = q
    BY <2>1, <2>2, <2>3, <2>5, <2>6
  <2>7. CASE s # q
    <3>1. /\ \A o \in req[s].rows : \E p \in opps : p.id = o
          /\ \A c \in cands : c.id.opp \notin req[s].rows
          /\ \A r \in Requests \ {s} : Inserted(r) => req[r].rows \cap req[s].rows = {}
      BY <2>4, <2>5, <2>7 DEF InsertsDisjoint
    <3>2. \A r \in Requests \ {s} : Inserted(r)' => req'[r].rows \cap req'[s].rows = {}
      BY <2>1, <2>3, <2>4, <2>5, <2>7, <3>1
    <3> QED
      BY <2>1, <2>4, <2>5, <2>7, <3>1, <3>2
  <2> QED
    BY <2>6, <2>7
<1>10. ASSUME NEW q \in Requests,
              ReadOpenKeys(q) \/ LoadOpenSitemap(q) \/ LoadBlocked(q) \/ ReadCandidates(q)
                \/ LoadCandidate(q) \/ ReadScheduled(q) \/ ReadApproved(q)
       PROVE  InsertsDisjoint'
  <2>1. ~Inserted(q)'
    <3>1. req'[q].op = req[q].op
      BY <1>10, TypedReads
    <3>2. CASE LoadOpenSitemap(q) \/ LoadBlocked(q) \/ LoadCandidate(q) \/ ReadApproved(q)
      BY <3>1, <3>2 DEF LoadOpenSitemap, LoadBlocked, LoadCandidate, ReadApproved, Inserted, At, Decisions
    <3>3. CASE ReadOpenKeys(q) \/ ReadCandidates(q) \/ ReadScheduled(q)
      <4>1. req'[q].pc \in {"scanned", "read"}
        BY <3>3 DEF ReadOpenKeys, ReadCandidates, ReadScheduled, Typed, TypeOK, Request
      <4> QED
        BY <4>1 DEF Inserted, At
    <3> QED
      BY <1>10, <3>2, <3>3
  <2>2. (\A r \in Requests \ {q} : req'[r] = req[r]) /\ UNCHANGED <<opps, cands>>
    BY <1>10, TypedReads
  <2> QED
    BY <1>1, <2>1, <2>2
<1>11. CASE UNCHANGED vars
  BY <1>11 DEF vars, InsertsDisjoint, Inserted, At
<1> QED
  BY <1>2, <1>3, <1>4, <1>5, <1>6, <1>7, <1>8, <1>9, <1>10, <1>11 DEF Next

(* No step gives an opportunity a second candidate.                        *)
LEMMA OneCandidateStep ==
  Typed /\ Fresh /\ InsertsDisjoint /\ OneCandidatePerOpportunity /\ [Next]_vars
    => OneCandidatePerOpportunity'
<1> SUFFICES ASSUME Typed, Fresh, InsertsDisjoint, OneCandidatePerOpportunity, [Next]_vars
             PROVE  OneCandidatePerOpportunity'
  OBVIOUS
<1>1. ASSUME NEW q \in Requests, CommitGenerate(q) PROVE OneCandidatePerOpportunity'
  <2> DEFINE made == {[id |-> [opp |-> o, at |-> req[q].at], status |-> "pending"] :
                        o \in req[q].rows \cup Opened(q)}
  <2>1. cands' = cands \cup made
    BY <1>1 DEF CommitGenerate
  <2>2. \A c, d \in made : c.id.opp = d.id.opp => c = d
    OBVIOUS
  <2>3. \A c \in cands : c.id.opp \notin req[q].rows
    BY <1>1 DEF CommitGenerate, At, InsertsDisjoint, Inserted
  <2>4. \A c \in cands : c.id.opp \notin Opened(q)
    BY <1>1 DEF CommitGenerate, At, Fresh, Active, Opened
  <2>5. \A c \in cands, d \in made : c.id.opp # d.id.opp
    BY <2>3, <2>4
  <2> HIDE DEF made
  <2> QED
    BY <2>1, <2>2, <2>5 DEF OneCandidatePerOpportunity
<1>2. ASSUME NEW q \in Requests, RecordDecision(q) PROVE OneCandidatePerOpportunity'
  BY <1>2 DEF RecordDecision, OneCandidatePerOpportunity, Typed, TypeOK, Cand
<1>3. CASE UNCHANGED cands
  BY <1>3 DEF OneCandidatePerOpportunity
<1>4. ASSUME NEW q \in Requests, ~CommitGenerate(q), ~RecordDecision(q),
             Begin(q) \/ ReadOpenKeys(q) \/ CommitScan(q) \/ LoadOpenSitemap(q) \/ LoadBlocked(q) \/ CommitResolve(q)
               \/ ReadCandidates(q) \/ InsertCandidates(q) \/ LoadCandidate(q)
               \/ ReadScheduled(q) \/ ReadApproved(q) \/ CommitRoadmap(q) \/ Abort(q)
      PROVE  UNCHANGED cands
  BY <1>4 DEF Begin, ReadOpenKeys, CommitScan, LoadOpenSitemap, LoadBlocked, CommitResolve, ReadCandidates,
     InsertCandidates, LoadCandidate, ReadScheduled, ReadApproved, CommitRoadmap, Abort
<1> QED
  BY <1>1, <1>2, <1>3, <1>4 DEF Next, vars

(* However generators overlap, an opportunity of a site has at most one    *)
(* action candidate: generate_action_candidates reads before it inserts,   *)
(* so this rests on the unique constraint.                                 *)
THEOREM OneCandidate == Spec => []OneCandidatePerOpportunity
<1> DEFINE IInv == Typed /\ Fresh /\ InsertsDisjoint /\ OneCandidatePerOpportunity
<1>1. Init => IInv
  <2>1. Init => Typed
    BY DecisionAssumption DEF Init, Typed, TypeOK, Idle, Request, Ops, Times
  <2>2. Init => Fresh /\ InsertsDisjoint
    BY DEF Init, Fresh, Active, InsertsDisjoint, Inserted, At, Idle
  <2> QED
    BY <2>1, <2>2 DEF Init, OneCandidatePerOpportunity
<1>2. IInv /\ [Next]_vars => IInv'
  BY TypedStep, FreshStep, InsertsStep, OneCandidateStep
<1> QED
  BY <1>1, <1>2, PTL DEF Spec

----------------------------------------------------------------------------
(* What was an approval stays one: decisions are never removed, and no     *)
(* step makes a candidate pending again.                                   *)
LEMMA ApprovalStays ==
  ASSUME Typed, [Next]_vars, NEW d, Approval(d)
  PROVE  Approval(d)'
<1>1. d \in decisions'
  BY DEF Approval, Next, vars, Begin, ReadOpenKeys, CommitScan, LoadOpenSitemap, LoadBlocked, CommitResolve,
     ReadCandidates, InsertCandidates, CommitGenerate, LoadCandidate, RecordDecision,
     ReadScheduled, ReadApproved, CommitRoadmap, Abort
<1>2. PICK c \in cands : c.id = d.cand /\ c.status # "pending"
  BY DEF Approval
<1>3. CASE c \in cands'
  BY <1>1, <1>2, <1>3 DEF Approval
<1>4. ASSUME NEW q \in Requests, RecordDecision(q)
      PROVE  \E e \in cands' : e.id = d.cand /\ e.status # "pending"
  <2> DEFINE e == [c EXCEPT !.status = IF c.id \in req[q].rows THEN StatusMap[req[q].op] ELSE @]
  <2>1. e \in cands'
    BY <1>4 DEF RecordDecision
  <2>2. StatusMap[req[q].op] # "pending"
    BY <1>4 DEF RecordDecision, At, StatusMap, Decisions
  <2>3. e.id = c.id /\ e.status # "pending"
    BY <1>2, <2>2 DEF Typed, TypeOK, Cand
  <2> QED
    BY <1>2, <2>1, <2>3
<1>5. ASSUME ~ \E q \in Requests : RecordDecision(q)
      PROVE  c \in cands'
  BY <1>2, <1>5 DEF Next, vars, Begin, ReadOpenKeys, CommitScan, LoadOpenSitemap, LoadBlocked, CommitResolve,
     ReadCandidates, InsertCandidates, CommitGenerate, LoadCandidate,
     ReadScheduled, ReadApproved, CommitRoadmap, Abort
<1> QED
  BY <1>1, <1>3, <1>4, <1>5 DEF Approval

(* What a build reads is approvals, and remains so until it commits.       *)
LEMMA BuildsStep == Typed /\ BuildsApprovals /\ [Next]_vars => BuildsApprovals'
<1> SUFFICES ASSUME Typed, BuildsApprovals, [Next]_vars,
                    NEW s \in Requests, At(s, "ready", {"roadmap"})', NEW d \in req'[s].rows
             PROVE  Approval(d)'
  BY DEF BuildsApprovals
<1>1. CASE req'[s] = req[s]
  BY <1>1, ApprovalStays DEF BuildsApprovals, At
<1>2. ASSUME NEW q \in Requests, ReadApproved(q) PROVE Approval(d)'
  <2>1. CASE s # q
    <3>1. req'[s] = req[s]
      BY <1>2, <2>1, TypedReads
    <3> QED
      BY <1>1, <3>1
  <2>2. CASE s = q
    <3>1. d \in decisions /\ d.decision = "approve" /\ d.cand \in ApprovedCands
      BY <1>2, <2>2 DEF ReadApproved, Typed, TypeOK, Request
    <3>2. \E c \in cands : c.id = d.cand /\ c.status = "approved"
      BY <3>1 DEF ApprovedCands
    <3> QED
      BY <3>1, <3>2, ApprovalStays DEF Approval
  <2> QED
    BY <2>1, <2>2
<1>3. ASSUME NEW q \in Requests,
             ReadOpenKeys(q) \/ LoadOpenSitemap(q) \/ LoadBlocked(q) \/ ReadCandidates(q) \/ InsertCandidates(q)
               \/ LoadCandidate(q) \/ ReadScheduled(q)
      PROVE  req'[s] = req[s]
  <2>1. /\ req'[q].op = req[q].op
        /\ \A r \in Requests \ {q} : req'[r] = req[r]
    BY <1>3, TypedReads
  <2>2. CASE LoadOpenSitemap(q) \/ LoadBlocked(q) \/ LoadCandidate(q) \/ ReadOpenKeys(q) \/ ReadCandidates(q)
               \/ InsertCandidates(q)
    BY <2>1, <2>2 DEF LoadOpenSitemap, LoadBlocked, LoadCandidate, ReadOpenKeys, ReadCandidates,
       InsertCandidates, At, Decisions
  <2>3. CASE ReadScheduled(q)
    <3>1. req'[q].pc = "read"
      BY <2>3 DEF ReadScheduled, Typed, TypeOK, Request
    <3> QED
      BY <2>1, <3>1 DEF At
  <2> QED
    BY <1>3, <2>2, <2>3
<1>4. ASSUME NEW q \in Requests,
             Begin(q) \/ CommitScan(q) \/ CommitResolve(q) \/ CommitGenerate(q)
               \/ RecordDecision(q) \/ CommitRoadmap(q) \/ Abort(q)
      PROVE  req'[s] = req[s]
  <2>1. req'[q].pc \in {"idle", "begun"} /\ \A r \in Requests \ {q} : req'[r] = req[r]
    BY <1>4, BeginEffect, FinishedEffect DEF CommitScan, CommitResolve, CommitGenerate,
       RecordDecision, CommitRoadmap, Abort
  <2> QED
    BY <2>1 DEF At
<1>5. CASE UNCHANGED vars
  BY <1>1, <1>5 DEF vars
<1> QED
  BY <1>1, <1>2, <1>3, <1>4, <1>5 DEF Next

(* However deciders and builders overlap, every roadmap item stands for a  *)
(* recorded approval of a candidate that is no longer pending.             *)
THEOREM ApprovalsOnly == Spec => []OnlyApprovalsScheduled
<1> DEFINE Items == \A i \in items : Approval(i.decision)
           IInv  == Typed /\ BuildsApprovals /\ Items
<1>1. Init => IInv
  BY DecisionAssumption DEF Init, Typed, TypeOK, Idle, Request, Ops, Times, BuildsApprovals, At
<1>2. IInv /\ [Next]_vars => IInv'
  <2> SUFFICES ASSUME Typed, BuildsApprovals, Items, [Next]_vars PROVE Items'
    BY TypedStep, BuildsStep
  <2> SUFFICES ASSUME NEW i \in items' PROVE Approval(i.decision)'
    OBVIOUS
  <2>1. CASE i \in items
    BY <2>1, ApprovalStays
  <2>2. ASSUME NEW q \in Requests, CommitRoadmap(q), i \notin items PROVE Approval(i.decision)
    BY <2>2 DEF CommitRoadmap, BuildsApprovals
  <2>3. ASSUME ~ \E q \in Requests : CommitRoadmap(q) PROVE i \in items
    BY <2>3 DEF Next, vars, Begin, ReadOpenKeys, CommitScan, LoadOpenSitemap, LoadBlocked, CommitResolve,
       ReadCandidates, InsertCandidates, CommitGenerate, LoadCandidate, RecordDecision,
       ReadScheduled, ReadApproved, Abort
  <2> QED
    BY <2>1, <2>2, <2>3, ApprovalStays
<1>3. IInv => OnlyApprovalsScheduled
  BY DEF Approval, OnlyApprovalsScheduled
<1> QED
  BY <1>1, <1>2, <1>3, PTL DEF Spec

----------------------------------------------------------------------------
(* Requests and jobs one after the other: what a transaction has read is   *)
(* still so. A scan opens nothing that is open, a roadmap build takes what *)
(* is approved and on no roadmap, a decision is on a candidate that is not *)
(* approved.                                                               *)
OneAtATime == \A p, q \in Requests : p = q

StillSo ==
    \A q \in Requests :
        /\ \A f \in req[q].new, o \in OpenOpps : o.finding # f \/ f \in MultiUrlFindings
        /\ At(q, "read", {"roadmap"}) => \A i \in items : i.decision \in req[q].seen
        /\ At(q, "ready", {"roadmap"}) =>
             \A d \in req[q].rows : d.cand \in ApprovedCands /\ \A i \in items : i.decision # d
        /\ At(q, "ready", Decisions) => \A c \in req[q].rows : c \notin ApprovedCands

(* The end of the transaction that is open leaves nothing that was read.   *)
LEMMA NothingRead ==
  ASSUME OneAtATime, Typed, NEW q \in Requests, Finished(q)
  PROVE  \A r \in Requests : req'[r].pc = "idle" /\ req'[r].new = {}
<1>1. req'[q] = Idle
  BY DEF Finished, Typed, TypeOK
<1> QED
  BY <1>1 DEF OneAtATime, Idle

(* The statements that read, and the rows they leave alone.                *)
LEMMA StillSoReads ==
  ASSUME OneAtATime, Typed, StillSo, OneCandidatePerOpportunity, NEW q \in Requests,
         Begin(q) \/ ReadOpenKeys(q) \/ LoadOpenSitemap(q) \/ LoadBlocked(q) \/ ReadCandidates(q)
           \/ InsertCandidates(q) \/ LoadCandidate(q) \/ ReadScheduled(q) \/ ReadApproved(q)
  PROVE  StillSo' /\ UNCHANGED <<opps, cands, items>>
<1>1. UNCHANGED <<opps, cands, items>>
  BY DEF Begin, ReadOpenKeys, LoadOpenSitemap, LoadBlocked, ReadCandidates, InsertCandidates, LoadCandidate,
     ReadScheduled, ReadApproved
<1>2. ApprovedCands' = ApprovedCands /\ OpenOpps' = OpenOpps
  BY <1>1 DEF ApprovedCands, OpenOpps
<1>3. \A r \in Requests : r = q
  BY DEF OneAtATime
<1>4. req \in [Requests -> Request]
  BY DEF Typed, TypeOK
<1> SUFFICES
      /\ \A f \in req'[q].new, o \in OpenOpps : o.finding # f \/ f \in MultiUrlFindings
      /\ At(q, "read", {"roadmap"})' => \A i \in items : i.decision \in req'[q].seen
      /\ At(q, "ready", {"roadmap"})' =>
           \A d \in req'[q].rows : d.cand \in ApprovedCands /\ \A i \in items : i.decision # d
      /\ At(q, "ready", Decisions)' => \A c \in req'[q].rows : c \notin ApprovedCands
  BY <1>1, <1>2, <1>3 DEF StillSo
<1>5. CASE Begin(q)
  <2>1. PICK op \in Ops : req' = [req EXCEPT ![q] = [Idle EXCEPT !.pc = "begun", !.op = op, !.at = clock']]
    BY <1>5 DEF Begin
  <2>2. req'[q] = [Idle EXCEPT !.pc = "begun", !.op = op, !.at = clock']
    BY <1>4, <2>1
  <2>3. req'[q].pc = "begun" /\ req'[q].new = {}
    BY <2>2 DEF Idle
  <2> QED
    BY <2>3 DEF At
<1>6. CASE ReadOpenKeys(q)
  <2> DEFINE Kept(found) == {f \in found : \A o \in OpenOpps : o.finding # f \/ f \in MultiUrlFindings}
  <2>1. PICK found : req' = [req EXCEPT ![q].pc = "scanned", ![q].new = Kept(found)]
    BY <1>6 DEF ReadOpenKeys
  <2>2. req[q] \in Request
    BY <1>4
  <2> HIDE DEF Kept
  <2>3. req'[q].pc = "scanned" /\ req'[q].new = Kept(found)
    BY <1>4, <2>1, <2>2 DEF Request
  <2> QED
    BY <2>3 DEF At, Kept
<1>7. CASE LoadOpenSitemap(q) \/ LoadBlocked(q)
  <2>1. req'[q].op \in {"sitemap_ok", "intake"} /\ req'[q].new = req[q].new
    BY <1>4, <1>7 DEF LoadOpenSitemap, LoadBlocked, At, Request
  <2> QED
    BY <2>1 DEF At, StillSo, Decisions
<1>8. CASE ReadCandidates(q) \/ InsertCandidates(q)
  <2>1. req'[q].op \in {"generate", "sitemap"} /\ req'[q].new = req[q].new
    BY <1>4, <1>8 DEF ReadCandidates, InsertCandidates, At, Request
  <2> QED
    BY <2>1 DEF At, StillSo, Decisions
<1>9. CASE LoadCandidate(q)
  <2>1. PICK c \in cands : /\ c.status = "pending"
                           /\ req' = [req EXCEPT ![q].pc = "ready", ![q].rows = {c.id}]
    BY <1>9 DEF LoadCandidate
  <2>2. c.id \notin ApprovedCands
    BY <2>1 DEF ApprovedCands, OneCandidatePerOpportunity
  <2>3. /\ req'[q].op \in Decisions /\ req'[q].new = req[q].new /\ req'[q].rows = {c.id}
    BY <1>4, <1>9, <2>1 DEF LoadCandidate, At, Request
  <2> QED
    BY <2>2, <2>3 DEF At, StillSo, Decisions
<1>10. CASE ReadScheduled(q)
  <2>1. /\ req'[q].pc = "read" /\ req'[q].new = req[q].new
        /\ req'[q].seen = {i.decision : i \in items}
    BY <1>4, <1>10 DEF ReadScheduled, Request
  <2> QED
    BY <2>1 DEF At, StillSo
<1>11. CASE ReadApproved(q)
  <2>1. /\ req'[q].op = "roadmap" /\ req'[q].pc = "ready" /\ req'[q].new = req[q].new
        /\ req'[q].rows = {d \in decisions : d.decision = "approve" /\ d.cand \in ApprovedCands} \ req[q].seen
        /\ \A i \in items : i.decision \in req[q].seen
    BY <1>4, <1>11 DEF ReadApproved, At, Request, StillSo
  <2> QED
    BY <2>1 DEF At, StillSo, Decisions
<1> QED
  BY <1>5, <1>6, <1>7, <1>8, <1>9, <1>10, <1>11

(* Every step keeps what was read and what was decided.                    *)
LEMMA SoundStep ==
  ASSUME OneAtATime, Typed, StillSo, OneCandidatePerOpportunity, DecisionsAreSound, [Next]_vars
  PROVE  StillSo' /\ DecisionsAreSound'
<1> USE DEF DecisionsAreSound
<1>1. ASSUME UNCHANGED <<opps, cands, items>>
      PROVE  DecisionsAreSound'
  BY <1>1 DEF ScheduledOnce, ScheduledStaysApproved, OpenOncePerFinding, ApprovedCands, OpenOpps
<1>2. ASSUME NEW q \in Requests, Finished(q)
      PROVE  StillSo'
  BY <1>2, NothingRead DEF StillSo, At
<1>3. ASSUME NEW q \in Requests, CommitScan(q) \/ CommitGenerate(q)
      PROVE  DecisionsAreSound'
  <2>1. items' = items /\ Finished(q) /\ opps' \subseteq opps \cup Opening(q)
    BY <1>3 DEF CommitScan, CommitGenerate
  <2>2. cands \subseteq cands'
    BY <1>3 DEF CommitScan, CommitGenerate
  <2>3. ApprovedCands \subseteq ApprovedCands'
    BY <2>2 DEF ApprovedCands
  <2>4. \A o \in OpenOpps' : o \in OpenOpps \/ o \in Opened(q)
    BY <2>1 DEF OpenOpps, Opening
  <2>5. OpenOncePerFinding'
    BY <2>4 DEF OpenOncePerFinding, Opened, StillSo
  <2> QED
    BY <2>1, <2>3, <2>5 DEF ScheduledOnce, ScheduledStaysApproved
<1>4. ASSUME NEW q \in Requests, CommitResolve(q)
      PROVE  DecisionsAreSound'
  <2>1. /\ UNCHANGED <<items, cands>> /\ At(q, "ready", {"sitemap_ok", "intake"})
        /\ opps' = {[o EXCEPT !.status = IF o.id \in req[q].rows THEN ClosedAs[req[q].op] ELSE @] : o \in opps}
    BY <1>4 DEF CommitResolve
  <2>2. \A o \in opps' : \E p \in opps : o.id = p.id /\ (o.status = "open" => p.status = "open")
    <3>1. ClosedAs[req[q].op] # "open"
      BY <2>1 DEF At, ClosedAs
    <3>2. \A p \in opps : p \in Opp
      BY DEF Typed, TypeOK
    <3> QED
      BY <2>1, <3>1, <3>2 DEF Opp
  <2>3. OpenOpps' \subseteq OpenOpps
    BY <2>2 DEF OpenOpps
  <2> QED
    BY <2>1, <2>3 DEF ScheduledOnce, ScheduledStaysApproved, OpenOncePerFinding, ApprovedCands
<1>5. ASSUME NEW q \in Requests, RecordDecision(q)
      PROVE  DecisionsAreSound'
  <2>1. /\ UNCHANGED <<opps, items>> /\ At(q, "ready", Decisions)
        /\ cands' = {[c EXCEPT !.status = IF c.id \in req[q].rows THEN StatusMap[req[q].op] ELSE @] : c \in cands}
    BY <1>5 DEF RecordDecision
  <2>2. \A c \in req[q].rows : c \notin ApprovedCands
    BY <2>1 DEF StillSo
  <2>3. ASSUME NEW c \in cands, c.status = "approved"
        PROVE  c \in cands'
    <3>1. c.id \notin req[q].rows
      BY <2>2, <2>3 DEF ApprovedCands
    <3>2. c \in Cand
      BY DEF Typed, TypeOK
    <3>3. [c EXCEPT !.status = c.status] = c
      BY <3>2 DEF Cand
    <3> QED
      BY <2>1, <3>1, <3>3
  <2>4. ApprovedCands \subseteq ApprovedCands'
    BY <2>3 DEF ApprovedCands
  <2> QED
    BY <2>1, <2>4 DEF ScheduledOnce, ScheduledStaysApproved, OpenOncePerFinding, OpenOpps
<1>6. ASSUME NEW q \in Requests, CommitRoadmap(q)
      PROVE  DecisionsAreSound'
  <2>1. /\ UNCHANGED <<opps, cands>> /\ At(q, "ready", {"roadmap"})
        /\ items' = items \cup {[decision |-> d, at |-> req[q].at] : d \in req[q].rows}
    BY <1>6 DEF CommitRoadmap
  <2>2. \A d \in req[q].rows : d.cand \in ApprovedCands /\ \A i \in items : i.decision # d
    BY <2>1 DEF StillSo
  <2> QED
    BY <2>1, <2>2 DEF ScheduledOnce, ScheduledStaysApproved, OpenOncePerFinding, OpenOpps, ApprovedCands
<1>7. ASSUME NEW q \in Requests, Abort(q)
      PROVE  StillSo' /\ DecisionsAreSound'
  BY <1>1, <1>2, <1>7 DEF Abort
<1>8. CASE UNCHANGED vars
  BY <1>1, <1>8 DEF vars, StillSo, At, OpenOpps, ApprovedCands
<1>9. ASSUME NEW q \in Requests,
             CommitScan(q) \/ CommitGenerate(q) \/ CommitResolve(q) \/ RecordDecision(q) \/ CommitRoadmap(q)
      PROVE  StillSo' /\ DecisionsAreSound'
  BY <1>2, <1>3, <1>4, <1>5, <1>6, <1>9
  DEF CommitScan, CommitGenerate, CommitResolve, RecordDecision, CommitRoadmap
<1>10. ASSUME NEW q \in Requests,
              Begin(q) \/ ReadOpenKeys(q) \/ LoadOpenSitemap(q) \/ LoadBlocked(q) \/ ReadCandidates(q)
                \/ InsertCandidates(q) \/ LoadCandidate(q) \/ ReadScheduled(q) \/ ReadApproved(q)
       PROVE  StillSo' /\ DecisionsAreSound'
  BY <1>1, <1>10, StillSoReads
<1> QED
  BY <1>7, <1>8, <1>9, <1>10 DEF Next

(* One after the other, in any number and any order, whatever fails: an    *)
(* approval is on one roadmap, its candidate stays approved, and a finding *)
(* is open once, but for OG-004.                                           *)
THEOREM DecisionsStaySound == ASSUME OneAtATime PROVE Spec => []DecisionsAreSound
<1>1. Init => Typed /\ StillSo /\ DecisionsAreSound
  BY DecisionAssumption
  DEF Init, Typed, TypeOK, Idle, Request, Ops, Times, StillSo, At, DecisionsAreSound, ScheduledOnce,
      ScheduledStaysApproved, OpenOncePerFinding, OpenOpps, ApprovedCands
<1>2. Typed /\ [Next]_vars => Typed'
  BY TypedStep
<1>3. Typed /\ StillSo /\ OneCandidatePerOpportunity /\ DecisionsAreSound /\ [Next]_vars
        => StillSo' /\ DecisionsAreSound'
  BY SoundStep
<1> QED
  BY <1>1, <1>2, <1>3, OneCandidate, PTL DEF Spec

----------------------------------------------------------------------------
(* Execution jobs: requests that overlap first, then one after the other.  *)
(* A request writes columns of the row, and marks the job completed only   *)
(* if its adapter accepted the input or if it publishes.                   *)
Rightful(t) ==
    /\ execTxn[t].op \in {"update", "publish"}
    /\ "status" \in DOMAIN execTxn[t].sets =>
          (execTxn[t].sets["status"] = "completed" => adapter = "accepts" \/ execTxn[t].op = "publish")

Shape ==
    /\ adapter \in {"accepts", "refuses", "missing"}
    /\ "status" \in DOMAIN job
    /\ execTxn = [t \in ExecTxns |-> execTxn[t]]

Earned ==
    /\ Shape
    /\ CompletedIsEarned
    /\ \A t \in ExecTxns : execTxn[t] = NoRequest \/ Rightful(t)

LEMMA EarnedInit == ExecInit => Earned
BY DEF ExecInit, Earned, Shape, CompletedIsEarned, NoRequest

(* A request that begins assigns "completed" only with reason.             *)
LEMMA BeginEarned ==
  ASSUME Earned, NEW t \in ExecTxns, NEW op \in {"update", "publish"}, NEW assigned,
         "status" \in DOMAIN assigned,
         assigned["status"] = "completed" => adapter = "accepts" \/ op = "publish",
         BeginExec(t, op, assigned)
  PROVE  Earned'
<1>1. Shape' /\ CompletedIsEarned'
  BY DEF Earned, Shape, CompletedIsEarned, BeginExec
<1>2. /\ execTxn'[t].op = op /\ execTxn'[t].sets = Changed(assigned)
      /\ \A u \in ExecTxns \ {t} : execTxn'[u] = execTxn[u]
  BY DEF Earned, Shape, BeginExec
<1>3. "status" \in DOMAIN Changed(assigned) => Changed(assigned)["status"] = assigned["status"]
  BY DEF Changed
<1>4. Rightful(t)'
  BY <1>2, <1>3 DEF Rightful, BeginExec
<1>5. \A u \in ExecTxns \ {t} : (execTxn[u] = NoRequest \/ Rightful(u))'
  BY <1>2 DEF Earned, Rightful, BeginExec
<1> QED
  BY <1>1, <1>4, <1>5 DEF Earned

LEMMA EarnedStep == Earned /\ [ExecNext]_execVars => Earned'
<1> SUFFICES ASSUME Earned, [ExecNext]_execVars PROVE Earned'
  OBVIOUS
<1>1. CASE UNCHANGED execVars
  BY <1>1 DEF execVars, Earned, Shape, CompletedIsEarned, Rightful
<1>2. ASSUME NEW t \in ExecTxns, Execute(t) PROVE Earned'
  <2>1. /\ "status" \in DOMAIN Dispatched
        /\ Dispatched["status"] = "completed" => adapter = "accepts"
    <3>1. CASE adapter = "accepts"
      BY <3>1 DEF Dispatched
    <3>2. CASE adapter = "refuses"
      BY <3>2 DEF Dispatched
    <3>3. CASE adapter = "missing"
      BY <3>3 DEF Dispatched
    <3> QED
      BY <3>1, <3>2, <3>3 DEF Earned, Shape
  <2> QED
    BY <1>2, <2>1, BeginEarned DEF Execute
<1>3. ASSUME NEW t \in ExecTxns, Cancel(t) PROVE Earned'
  BY <1>3, BeginEarned DEF Cancel
<1>4. ASSUME NEW t \in ExecTxns, Retry(t) PROVE Earned'
  BY <1>4, BeginEarned DEF Retry
<1>5. ASSUME NEW t \in ExecTxns, Publish(t) PROVE Earned'
  BY <1>5, BeginEarned DEF Publish
<1>6. ASSUME NEW t \in ExecTxns, CommitExec(t) PROVE Earned'
  <2>1. /\ Rightful(t)
        /\ "status" \in DOMAIN job'
        /\ job'["status"] = IF "status" \in DOMAIN execTxn[t].sets
                            THEN execTxn[t].sets["status"] ELSE job["status"]
    BY <1>6 DEF CommitExec, Earned, Shape
  <2>2. CompletedIsEarned'
    BY <1>6, <2>1 DEF CommitExec, Earned, CompletedIsEarned, Rightful
  <2>3. Shape'
    BY <1>6, <2>1 DEF CommitExec, Earned, Shape
  <2>4. \A u \in ExecTxns : execTxn'[u] = NoRequest \/ execTxn'[u] = execTxn[u]
    BY <1>6 DEF CommitExec, Earned, Shape
  <2> QED
    BY <1>6, <2>2, <2>3, <2>4 DEF CommitExec, Earned, Rightful
<1> QED
  BY <1>1, <1>2, <1>3, <1>4, <1>5, <1>6 DEF ExecNext

(* However requests overlap, a completed job has a plan of an adapter that *)
(* accepts its input, or its article went out.                             *)
THEOREM CompletionIsEarned == ExecSpec => []CompletedIsEarned
<1>1. Earned => CompletedIsEarned
  BY DEF Earned
<1> QED
  BY <1>1, EarnedInit, EarnedStep, PTL DEF ExecSpec

----------------------------------------------------------------------------
(* One request at a time.                                                  *)
OneExecRequest == \A t, u \in ExecTxns : t = u

JobColumns == {"status", "started", "ended", "error"}

(* What an open request has still to write, with the row as it is now: it  *)
(* leaves a fresh row if it queues it, and a completed one completed.      *)
After(t) == [c \in DOMAIN job |-> IF c \in DOMAIN execTxn[t].sets THEN execTxn[t].sets[c] ELSE job[c]]

JobFresh(row)    == row["status"] = "queued" => ~row["started"] /\ ~row["ended"] /\ ~row["error"]
Keeps(t)      == job["status"] = "completed" => After(t)["status"] = "completed"

Kept ==
    /\ adapter \in {"accepts", "refuses", "missing"}
    /\ JobColumns \subseteq DOMAIN job
    /\ execTxn = [t \in ExecTxns |-> execTxn[t]]
    /\ JobFresh(job)
    /\ \A t \in ExecTxns : execTxn[t] = NoRequest \/ (JobFresh(After(t)) /\ Keeps(t))

LEMMA KeptInit == ExecInit => Kept
BY DEF ExecInit, Kept, JobColumns, JobFresh

(* A commit right after the begin writes what was assigned.                *)
LEMMA BeginAfter ==
  ASSUME Kept, NEW t \in ExecTxns, NEW op, NEW assigned, BeginExec(t, op, assigned),
         NEW c \in JobColumns
  PROVE  After(t)'[c] = IF c \in DOMAIN assigned THEN assigned[c] ELSE job[c]
<1>1. execTxn'[t].sets = Changed(assigned) /\ job' = job
  BY DEF Kept, BeginExec
<1>2. After(t)'[c] = IF c \in DOMAIN Changed(assigned) THEN Changed(assigned)[c] ELSE job[c]
  BY <1>1 DEF After, Kept
<1> QED
  BY <1>2 DEF Changed

LEMMA BeginKept ==
  ASSUME Kept, OneExecRequest, NEW t \in ExecTxns, NEW op, NEW assigned, BeginExec(t, op, assigned),
         JobFresh(After(t))', Keeps(t)'
  PROVE  Kept'
<1>1. \A u \in ExecTxns : u = t
  BY DEF OneExecRequest
<1>2. /\ adapter' = adapter /\ job' = job
      /\ execTxn' = [u \in ExecTxns |-> execTxn'[u]]
  BY DEF Kept, BeginExec
<1>3. JobFresh(job)'
  BY <1>2 DEF Kept, JobFresh
<1> QED
  BY <1>1, <1>2, <1>3 DEF Kept

LEMMA KeptStep ==
  ASSUME OneExecRequest
  PROVE  Kept /\ [ExecNext]_execVars =>
           Kept' /\ (job["status"] = "completed" => job'["status"] = "completed")
<1> SUFFICES ASSUME Kept, [ExecNext]_execVars
             PROVE  Kept' /\ (job["status"] = "completed" => job'["status"] = "completed")
  OBVIOUS
<1>1. CASE UNCHANGED execVars
  BY <1>1 DEF execVars, Kept, JobFresh, After, Keeps
<1>2. ASSUME NEW t \in ExecTxns, Execute(t) PROVE Kept' /\ job' = job
  <2>1. BeginExec(t, "update", Dispatched) /\ job' = job
    BY <1>2 DEF Execute, BeginExec
  <2>2. /\ "status" \in DOMAIN Dispatched
        /\ Dispatched["status"] # "queued"
    <3>1. CASE adapter = "accepts"
      BY <3>1 DEF Dispatched
    <3>2. CASE adapter = "refuses"
      BY <3>2 DEF Dispatched
    <3>3. CASE adapter = "missing"
      BY <3>3 DEF Dispatched
    <3> QED
      BY <3>1, <3>2, <3>3 DEF Kept
  <2>3. After(t)'["status"] # "queued" /\ job["status"] # "completed"
    BY <1>2, <2>1, <2>2, BeginAfter DEF Execute, JobColumns
  <2>4. JobFresh(After(t))' /\ Keeps(t)'
    BY <2>1, <2>3 DEF JobFresh, Keeps
  <2> QED
    BY <2>1, <2>4, BeginKept
<1>3. ASSUME NEW t \in ExecTxns, Cancel(t) PROVE Kept' /\ job' = job
  <2> DEFINE assigned == [status |-> "cancelled", ended |-> TRUE]
  <2>1. BeginExec(t, "update", assigned) /\ job' = job
    BY <1>3 DEF Cancel, BeginExec
  <2>2. After(t)'["status"] # "queued" /\ job["status"] # "completed"
    BY <1>3, <2>1, BeginAfter DEF Cancel, JobColumns
  <2>3. JobFresh(After(t))' /\ Keeps(t)'
    BY <2>1, <2>2 DEF JobFresh, Keeps
  <2> QED
    BY <2>1, <2>3, BeginKept
<1>4. ASSUME NEW t \in ExecTxns, Retry(t) PROVE Kept' /\ job' = job
  <2> DEFINE assigned == [status |-> "queued", error |-> FALSE, started |-> FALSE, ended |-> FALSE]
  <2>1. BeginExec(t, "update", assigned) /\ job' = job
    BY <1>4 DEF Retry, BeginExec
  <2>2. /\ ~After(t)'["started"] /\ ~After(t)'["ended"] /\ ~After(t)'["error"]
        /\ job["status"] # "completed"
    BY <1>4, <2>1, BeginAfter DEF Retry, JobColumns
  <2>3. JobFresh(After(t))' /\ Keeps(t)'
    BY <2>1, <2>2 DEF JobFresh, Keeps
  <2> QED
    BY <2>1, <2>3, BeginKept
<1>5. ASSUME NEW t \in ExecTxns, Publish(t) PROVE Kept' /\ job' = job
  <2> DEFINE assigned == [status |-> "completed", output |-> "post"]
  <2>1. BeginExec(t, "publish", assigned) /\ job' = job
    BY <1>5 DEF Publish, BeginExec
  <2>2. After(t)'["status"] = "completed"
    BY <2>1, BeginAfter DEF JobColumns
  <2>3. JobFresh(After(t))' /\ Keeps(t)'
    BY <2>2 DEF JobFresh, Keeps
  <2> QED
    BY <2>1, <2>3, BeginKept
<1>6. ASSUME NEW t \in ExecTxns, CommitExec(t)
      PROVE  Kept' /\ (job["status"] = "completed" => job'["status"] = "completed")
  <2>1. job' = After(t) /\ DOMAIN job' = DOMAIN job
    BY <1>6 DEF CommitExec, After
  <2>2. JobFresh(After(t)) /\ Keeps(t)
    BY <1>6 DEF CommitExec, Kept
  <2>3. \A u \in ExecTxns : execTxn'[u] = NoRequest
    BY <1>6 DEF CommitExec, Kept, OneExecRequest
  <2>4. adapter' = adapter /\ execTxn' = [u \in ExecTxns |-> execTxn'[u]]
    BY <1>6 DEF CommitExec, Kept
  <2>5. JobFresh(job)'
    BY <2>1, <2>2 DEF JobFresh
  <2> QED
    BY <2>1, <2>2, <2>3, <2>4, <2>5 DEF Kept, Keeps
<1> QED
  BY <1>1, <1>2, <1>3, <1>4, <1>5, <1>6 DEF ExecNext, execVars

(* With requests one after the other no request undoes a completion, and a *)
(* job that is queued again is as fresh as a new one.                      *)
THEOREM HistoryAlwaysKept == OneExecRequest /\ ExecSpec => HistoryIsKept
<1> SUFFICES ASSUME OneExecRequest PROVE ExecSpec => HistoryIsKept
  OBVIOUS
<1>1. ASSUME Kept, [ExecNext]_execVars
      PROVE  Kept' /\ [QueuedIsFresh' /\ (job.status = "completed" => job'.status = "completed")]_execVars
  BY <1>1, KeptStep DEF Kept, JobFresh, QueuedIsFresh
<1> QED
  BY <1>1, KeptInit, PTL DEF ExecSpec, HistoryIsKept

----------------------------------------------------------------------------
(* The topic graph.                                                        *)
(* The shape of the nodes, and that a rebuild has deleted no locked one    *)
(* (GoneUnlocked, SweepHolds); what else a transaction has read says       *)
(* nothing about the node it meets when it commits.                        *)
NodesTyped ==
    /\ topicNode \in [Queries -> [cluster : ClusterIds \cup {NoCluster}, locked : BOOLEAN]]
    /\ clusters \subseteq ClusterIds

LEMMA NodesTypedInit == GraphInit => NodesTyped
BY DEF GraphInit, NodesTyped, NoNode

(* What a rebuild leaves: it deletes the nodes it holds and moves those it *)
(* has adopted, to clusters that are fresh.                                *)
RebuiltAs(t, del, found, group) ==
    /\ ~Referenced(del, graphTxn[t].gone)
    /\ graphTxn[t].adopted \subseteq found
    /\ clusters' = (clusters \ del) \cup Range(group)
    /\ topicNode' = [q \in Queries |->
         IF q \in graphTxn[t].adopted THEN [cluster |-> group[q], locked |-> Locked(q)]
         ELSE IF ~(q \in graphTxn[t].gone \/ topicNode[q] = NoNode) THEN topicNode[q]
         ELSE IF q \in found THEN [cluster |-> group[q], locked |-> FALSE] ELSE NoNode]
    /\ pyramid' = [q \in Queries |-> IF pyramid[q] \in del THEN NoCluster ELSE pyramid[q]]

LEMMA RebuildRuns ==
    ASSUME NEW t \in GraphTxns, CommitRebuild(t)
    PROVE  \E found \in SUBSET Queries : \E group \in [found -> FreshIds] :
              RebuiltAs(t, graphTxn[t].del \cap clusters, found, group)
BY DEF CommitRebuild, RebuiltAs

(* No rebuild holds a locked node to delete it, nor does a rebuild wait    *)
(* for the DELETE to end with one it would not look at again.              *)
GoneUnlocked ==
    \A t \in GraphTxns : graphTxn[t].op = "rebuild" /\ graphTxn[t].step = "writing" =>
        \A q \in Queries \cap graphTxn[t].gone : ~Locked(q)

LEMMA RebuildEffect ==
    ASSUME NodesTyped, GoneUnlocked, NEW t \in GraphTxns, CommitRebuild(t)
    PROVE  /\ NodesTyped'
           /\ \A q \in Queries : Locked(q) => /\ topicNode'[q].locked
                                              /\ q \in graphTxn[t].adopted \/ topicNode'[q] = topicNode[q]
<1>10. PICK found \in SUBSET Queries : \E group \in [found -> FreshIds] : RebuiltAs(t, graphTxn[t].del \cap clusters, found, group)
  BY RebuildRuns
<1>1. PICK group \in [found -> FreshIds] : RebuiltAs(t, graphTxn[t].del \cap clusters, found, group)
  BY <1>10
<1>2. Range(group) \subseteq ClusterIds /\ \A q \in found : group[q] \in ClusterIds
  <2>1. FreshIds \subseteq ClusterIds
    BY DEF FreshIds
  <2> QED BY <2>1 DEF Range
<1>3. clusters' \subseteq ClusterIds
  BY <1>1, <1>2 DEF NodesTyped, RebuiltAs
<1>4. PICK gone, adopted : gone = graphTxn[t].gone /\ adopted = graphTxn[t].adopted
  OBVIOUS
<1>5. /\ adopted \subseteq found
      /\ topicNode' = [q \in Queries |->
           IF q \in adopted THEN [cluster |-> group[q], locked |-> topicNode[q].locked]
           ELSE IF ~(q \in gone \/ topicNode[q] = NoNode) THEN topicNode[q]
           ELSE IF q \in found THEN [cluster |-> group[q], locked |-> FALSE] ELSE NoNode]
  BY <1>1, <1>4 DEF RebuiltAs, Locked
<1>6. \A q \in Queries : topicNode[q] \in [cluster : ClusterIds \cup {NoCluster}, locked : BOOLEAN]
  BY DEF NodesTyped
<1>7. topicNode' \in [Queries -> [cluster : ClusterIds \cup {NoCluster}, locked : BOOLEAN]]
  BY <1>2, <1>5, <1>6 DEF NoNode
<1>8. ASSUME NEW q \in Queries, Locked(q)
      PROVE  topicNode'[q].locked /\ (q \in adopted \/ topicNode'[q] = topicNode[q])
  <2>1. q \notin gone /\ topicNode[q] # NoNode /\ topicNode[q].locked
    BY <1>4, <1>8 DEF GoneUnlocked, CommitRebuild, Locked, NoNode
  <2> QED BY <1>5, <2>1
<1> QED BY <1>3, <1>4, <1>7, <1>8 DEF NodesTyped

LEMMA AssignEffect ==
    ASSUME NodesTyped, NEW t \in GraphTxns, CommitAssign(t)
    PROVE  /\ NodesTyped'
           /\ \A q \in Queries : Locked(q) => /\ topicNode'[q].locked
                                              /\ q = graphTxn[t].query \/ topicNode'[q] = topicNode[q]
<1> DEFINE p == graphTxn[t].query
           moved == [cluster |-> graphTxn[t].cluster, locked |-> topicNode[p].locked \/ graphTxn[t].lock]
<1>1. topicNode' = [topicNode EXCEPT ![p] = moved] /\ clusters' = clusters
      /\ graphTxn[t].cluster \in clusters
  BY DEF CommitAssign
<1>2. moved \in [cluster : ClusterIds \cup {NoCluster}, locked : BOOLEAN]
      /\ moved.locked = (topicNode[p].locked \/ graphTxn[t].lock)
  BY <1>1 DEF NodesTyped
<1> HIDE DEF moved, p
<1>3. NodesTyped'
  BY <1>1, <1>2 DEF NodesTyped
<1>4. ASSUME NEW q \in Queries, Locked(q)
      PROVE  topicNode'[q].locked /\ (q = p \/ topicNode'[q] = topicNode[q])
  <2>1. CASE q = p
    BY <1>1, <1>2, <1>4, <2>1 DEF NodesTyped, Locked
  <2>2. CASE q # p
    BY <1>1, <1>4, <2>2 DEF NodesTyped, Locked
  <2> QED BY <2>1, <2>2
<1> QED BY <1>3, <1>4 DEF p

LEMMA LinkEffect ==
    ASSUME NodesTyped, NEW t \in GraphTxns, CommitLink(t)
    PROVE  NodesTyped' /\ \A q \in Queries : Locked(q) => topicNode'[q] = topicNode[q]
<1> DEFINE p == graphTxn[t].query
<1>1. graphTxn[t].insert <=> topicNode[p] = NoNode
  BY DEF CommitLink
<1>2. PICK c \in ClusterIds :
        /\ clusters' = clusters \cup {c}
        /\ topicNode' = [topicNode EXCEPT ![p] =
             IF graphTxn[t].insert THEN [cluster |-> c, locked |-> TRUE] ELSE [@ EXCEPT !.locked = TRUE]]
  BY DEF CommitLink, FreshIds, NodesTyped
<1> HIDE DEF p
<1>3. NodesTyped'
  BY <1>2 DEF NodesTyped
<1>4. ASSUME NEW q \in Queries, Locked(q) PROVE topicNode'[q] = topicNode[q]
  <2>1. CASE q = p
    <3>1. topicNode[p] # NoNode
      BY <1>4, <2>1 DEF Locked, NoNode
    <3>2. topicNode'[p] = [topicNode[p] EXCEPT !.locked = TRUE]
      BY <1>1, <1>2, <2>1, <3>1 DEF NodesTyped
    <3>3. topicNode[p].locked = TRUE /\ topicNode[p] \in [cluster : ClusterIds \cup {NoCluster}, locked : BOOLEAN]
      BY <1>4, <2>1 DEF Locked, NodesTyped
    <3> QED BY <2>1, <3>2, <3>3
  <2>2. CASE q # p
    BY <1>2, <2>2 DEF NodesTyped
  <2> QED BY <2>1, <2>2
<1> QED BY <1>3, <1>4

(* What one step may do to a locked node.                                  *)
KeepsLocked ==
    \A q \in Queries : Locked(q) =>
        /\ topicNode'[q].locked
        /\ \/ topicNode'[q].cluster = topicNode[q].cluster
           \/ \E t \in GraphTxns :
                 /\ graphTxn'[t] = Closed
                 /\ \/ graphTxn[t].op = "assign" /\ graphTxn[t].query = q
                    \/ graphTxn[t].op = "rebuild" /\ q \in graphTxn[t].adopted

GraphTxnsKept == graphTxn = [t \in GraphTxns |-> graphTxn[t]]

LEMMA LockedStep ==
    ASSUME NodesTyped, GoneUnlocked, GraphTxnsKept, [GraphNext]_graphVars
    PROVE  NodesTyped' /\ KeepsLocked
<1>1. ASSUME NEW t \in GraphTxns, CommitRebuild(t) PROVE NodesTyped' /\ KeepsLocked
  <2>1. graphTxn[t].op = "rebuild" /\ graphTxn'[t] = Closed
    BY <1>1 DEF CommitRebuild
  <2> QED BY <1>1, <2>1, RebuildEffect DEF KeepsLocked, Locked
<1>2. ASSUME NEW t \in GraphTxns, CommitAssign(t) PROVE NodesTyped' /\ KeepsLocked
  <2>1. graphTxn[t].op = "assign" /\ graphTxn' = [graphTxn EXCEPT ![t] = Closed]
    BY <1>2 DEF CommitAssign, Close
  <2>2. graphTxn'[t] = Closed
    BY <2>1 DEF GraphTxnsKept
  <2> QED BY <1>2, <2>1, <2>2, AssignEffect DEF KeepsLocked
<1>3. ASSUME NEW t \in GraphTxns, CommitLink(t) PROVE NodesTyped' /\ KeepsLocked
  BY <1>3, LinkEffect DEF KeepsLocked, Locked
<1>4. ASSUME UNCHANGED <<topicNode, clusters>> PROVE NodesTyped' /\ KeepsLocked
  BY <1>4 DEF NodesTyped, KeepsLocked, Locked
<1>5. ASSUME NEW t \in GraphTxns,
             \/ BeginRebuild(t) \/ StartSweep(t) \/ Sweep(t) \/ Adopt(t)
             \/ ReadCases(t) \/ CommitDetect(t) \/ BeginAssign(t)
             \/ BeginLink(t) \/ BeginSnapshot(t) \/ CommitSnapshot(t) \/ AbortGraph(t)
      PROVE  UNCHANGED <<topicNode, clusters>>
  BY <1>5 DEF BeginRebuild, StartSweep, Sweep, Adopt, ReadCases, CommitDetect, BeginAssign, BeginLink,
     BeginSnapshot, CommitSnapshot, AbortGraph
<1>6. CASE UNCHANGED graphVars
  BY <1>4, <1>6 DEF graphVars
<1> QED BY <1>1, <1>2, <1>3, <1>4, <1>5, <1>6 DEF GraphNext

(* The rows a rebuild holds are out of reach of the others: an assignment  *)
(* or a link waits for them, and no rebuild locks a node.                  *)
Sweeping(r) == r.op = "rebuild" => {"op", "step", "gone"} \subseteq DOMAIN r

SweepHolds ==
    /\ GraphTxnsKept /\ GoneUnlocked
    /\ \A t \in GraphTxns : Sweeping(graphTxn[t])

LEMMA SweepHoldsInit == GraphInit => SweepHolds
BY DEF GraphInit, SweepHolds, GraphTxnsKept, GoneUnlocked, Sweeping, Closed

(* A transaction comes to be r, the others stay or hold no more.           *)
LEMMA SweepKept ==
    ASSUME SweepHolds, NEW t \in GraphTxns, NEW r, graphTxn' = [graphTxn EXCEPT ![t] = r], Sweeping(r),
           \A q \in Queries \cap r.gone : r.op = "rebuild" /\ r.step = "writing" => ~Locked(q)',
           \A u \in GraphTxns \ {t} : \A q \in Queries \cap graphTxn[u].gone :
              graphTxn[u].op = "rebuild" /\ graphTxn[u].step = "writing" /\ ~Locked(q) => ~Locked(q)'
    PROVE  SweepHolds'
<1>1. graphTxn = [u \in GraphTxns |-> graphTxn[u]]
  BY DEF SweepHolds, GraphTxnsKept
<1>2. /\ graphTxn' = [u \in GraphTxns |-> graphTxn'[u]] /\ graphTxn'[t] = r
      /\ \A u \in GraphTxns \ {t} : graphTxn'[u] = graphTxn[u]
  BY <1>1
<1>3. \A u \in GraphTxns : Sweeping(graphTxn'[u])
  BY <1>2 DEF SweepHolds
<1>4. GoneUnlocked'
  BY <1>2 DEF SweepHolds, GoneUnlocked
<1> QED BY <1>2, <1>3, <1>4 DEF SweepHolds, GraphTxnsKept, Sweeping

LEMMA SweepStep ==
    ASSUME NodesTyped, SweepHolds, [GraphNext]_graphVars
    PROVE  SweepHolds'
<1>0. \A t \in GraphTxns : Sweeping(graphTxn[t])
  BY DEF SweepHolds
<1>1. CASE UNCHANGED graphVars
  BY <1>1 DEF graphVars, SweepHolds, GraphTxnsKept, GoneUnlocked, Sweeping, Locked
<1>2. ASSUME NEW t \in GraphTxns, NEW a, Open(t, a), UNCHANGED topicNode,
             Sweeping(a), a.op = "rebuild" => a.step # "writing"
      PROVE  SweepHolds'
  <2>1. graphTxn' = [graphTxn EXCEPT ![t] = a]
    BY <1>2 DEF Open
  <2> QED BY <1>2, <2>1, SweepKept DEF Locked
<1>3. ASSUME NEW t \in GraphTxns, Close(t),
             \A u \in GraphTxns \ {t} : \A q \in Queries \cap graphTxn[u].gone :
                graphTxn[u].op = "rebuild" /\ graphTxn[u].step = "writing" /\ ~Locked(q) => ~Locked(q)'
      PROVE  SweepHolds'
  <2>1. graphTxn' = [graphTxn EXCEPT ![t] = Closed]
    BY <1>3 DEF Close
  <2>2. Sweeping(Closed) /\ Closed.op # "rebuild"
    BY DEF Sweeping, Closed
  <2> QED BY <1>3, <2>1, <2>2, SweepKept
<1>4. ASSUME NEW t \in GraphTxns, BeginRebuild(t) PROVE SweepHolds'
  <2>1. PICK n, del, byJob :
          Open(t, [op |-> "rebuild", step |-> "read", newThemes |-> n, del |-> del,
                   byJob |-> byJob, gone |-> {}, adopted |-> {}, opens |-> {}])
    BY <1>4 DEF BeginRebuild
  <2>2. PICK a : a = [op |-> "rebuild", step |-> "read", newThemes |-> n, del |-> del,
                      byJob |-> byJob, gone |-> {}, adopted |-> {}, opens |-> {}]
    OBVIOUS
  <2>3. Sweeping(a) /\ a.step # "writing" /\ Open(t, a) /\ UNCHANGED topicNode
    BY <1>4, <2>1, <2>2 DEF Sweeping, BeginRebuild
  <2> QED BY <1>2, <2>3
<1>5. ASSUME NEW t \in GraphTxns, BeginAssign(t) PROVE SweepHolds'
  <2>1. PICK p, c, lock : Open(t, [op |-> "assign", query |-> p, cluster |-> c, lock |-> lock])
    BY <1>5 DEF BeginAssign
  <2>2. PICK a : a = [op |-> "assign", query |-> p, cluster |-> c, lock |-> lock]
    OBVIOUS
  <2>3. Sweeping(a) /\ a.op # "rebuild" /\ Open(t, a) /\ UNCHANGED topicNode
    BY <1>5, <2>1, <2>2 DEF Sweeping, BeginAssign
  <2> QED BY <1>2, <2>3
<1>6. ASSUME NEW t \in GraphTxns, BeginLink(t) PROVE SweepHolds'
  <2>1. PICK p, n, c, insert : Open(t, [op |-> "link", query |-> p, newThemes |-> n, cluster |-> c, insert |-> insert])
    BY <1>6 DEF BeginLink
  <2>2. PICK a : a = [op |-> "link", query |-> p, newThemes |-> n, cluster |-> c, insert |-> insert]
    OBVIOUS
  <2>3. Sweeping(a) /\ a.op # "rebuild" /\ Open(t, a) /\ UNCHANGED topicNode
    BY <1>6, <2>1, <2>2 DEF Sweeping, BeginLink
  <2> QED BY <1>2, <2>3
<1>7. ASSUME NEW t \in GraphTxns, BeginSnapshot(t) PROVE SweepHolds'
  <2>1. PICK p, c : Open(t, [op |-> "snapshot", query |-> p, cluster |-> c])
    BY <1>7 DEF BeginSnapshot
  <2>2. PICK a : a = [op |-> "snapshot", query |-> p, cluster |-> c]
    OBVIOUS
  <2>3. Sweeping(a) /\ a.op # "rebuild" /\ Open(t, a) /\ UNCHANGED topicNode
    BY <1>7, <2>1, <2>2 DEF Sweeping, BeginSnapshot
  <2> QED BY <1>2, <2>3
<1>8. ASSUME NEW t \in GraphTxns, CommitDetect(t) \/ CommitSnapshot(t) \/ AbortGraph(t) PROVE SweepHolds'
  <2>1. Close(t) /\ UNCHANGED topicNode
    BY <1>8 DEF CommitDetect, CommitSnapshot, AbortGraph
  <2> QED BY <1>3, <2>1 DEF Locked
<1>9. ASSUME NEW t \in GraphTxns, NEW p, NEW row, Close(t), ~Held(t, p), topicNode' = [topicNode EXCEPT ![p] = row]
      PROVE  SweepHolds'
  <2>1. \A q \in Queries : q # p => (Locked(q)' <=> Locked(q))
    BY <1>9 DEF NodesTyped, Locked
  <2> QED BY <1>3, <1>9, <2>1 DEF Held
<1>10. ASSUME NEW t \in GraphTxns, CommitAssign(t) PROVE SweepHolds'
  BY <1>9, <1>10 DEF CommitAssign
<1>11. ASSUME NEW t \in GraphTxns, CommitLink(t) PROVE SweepHolds'
  <2>1. PICK p, row : Close(t) /\ ~Held(t, p) /\ topicNode' = [topicNode EXCEPT ![p] = row]
    BY <1>11 DEF CommitLink
  <2> QED BY <1>9, <2>1
<1>12. ASSUME NEW t \in GraphTxns, StartSweep(t) PROVE SweepHolds'
  <2>1. PICK r, gone : /\ r = [graphTxn[t] EXCEPT !.step = "deleting", !.gone = gone]
                       /\ graphTxn' = [graphTxn EXCEPT ![t] = r]
    BY <1>12 DEF StartSweep
  <2>2. graphTxn[t].op = "rebuild" /\ UNCHANGED topicNode
    BY <1>12 DEF StartSweep
  <2>3. Sweeping(r) /\ r.step = "deleting"
    BY <1>0, <2>1, <2>2 DEF Sweeping
  <2> QED BY <2>1, <2>2, <2>3, SweepKept DEF Locked
<1>13. ASSUME NEW t \in GraphTxns, Sweep(t) PROVE SweepHolds'
  <2>1. PICK r : /\ r = [graphTxn[t] EXCEPT !.step = "writing", !.gone = {q \in @ : ~Locked(q)}]
                 /\ graphTxn' = [graphTxn EXCEPT ![t] = r]
    BY <1>13 DEF Sweep
  <2>2. graphTxn[t].op = "rebuild" /\ UNCHANGED topicNode
    BY <1>13 DEF Sweep
  <2>3. Sweeping(r) /\ \A q \in Queries \cap r.gone : ~Locked(q)
    BY <1>0, <2>1, <2>2 DEF Sweeping
  <2> QED BY <2>1, <2>2, <2>3, SweepKept DEF Locked
<1>14. ASSUME NEW t \in GraphTxns, NEW r, graphTxn' = [graphTxn EXCEPT ![t] = r], UNCHANGED topicNode,
              graphTxn[t].op = "rebuild", Sweeping(r), r.step = graphTxn[t].step, r.gone = graphTxn[t].gone
       PROVE  SweepHolds'
  <2>1. \A q \in Queries \cap r.gone : r.step = "writing" => ~Locked(q)
    BY <1>14 DEF SweepHolds, GoneUnlocked
  <2> QED BY <1>14, <2>1, SweepKept DEF Locked
<1>15. ASSUME NEW t \in GraphTxns, Adopt(t) PROVE SweepHolds'
  <2>1. PICK r, adopted : /\ r = [graphTxn[t] EXCEPT !.adopted = adopted]
                          /\ graphTxn' = [graphTxn EXCEPT ![t] = r]
    BY <1>15 DEF Adopt
  <2>2. graphTxn[t].op = "rebuild" /\ UNCHANGED topicNode
    BY <1>15 DEF Adopt
  <2>3. Sweeping(r) /\ r.step = graphTxn[t].step /\ r.gone = graphTxn[t].gone
    BY <1>0, <2>1, <2>2 DEF Sweeping
  <2> QED BY <1>14, <2>1, <2>2, <2>3
<1>16. ASSUME NEW t \in GraphTxns, ReadCases(t) PROVE SweepHolds'
  <2>0. UNCHANGED topicNode
    BY <1>16 DEF ReadCases
  <2>1. PICK new :
          \/ Open(t, [op |-> "detect", opens |-> new])
          \/ graphTxn[t].op = "rebuild" /\ graphTxn' = [graphTxn EXCEPT ![t].opens = new]
          \/ Close(t)
    BY <1>16 DEF ReadCases
  <2>2. CASE Close(t)
    BY <1>3, <2>0, <2>2 DEF Locked
  <2>3. CASE Open(t, [op |-> "detect", opens |-> new])
    <3>1. PICK a : a = [op |-> "detect", opens |-> new]
      OBVIOUS
    <3>2. Sweeping(a) /\ a.op # "rebuild"
      BY <3>1 DEF Sweeping
    <3> QED BY <1>2, <2>0, <2>3, <3>1, <3>2
  <2>4. CASE graphTxn[t].op = "rebuild" /\ graphTxn' = [graphTxn EXCEPT ![t].opens = new]
    <3>1. PICK r : r = [graphTxn[t] EXCEPT !.opens = new]
      OBVIOUS
    <3>2. Sweeping(r) /\ r.step = graphTxn[t].step /\ r.gone = graphTxn[t].gone
      BY <1>0, <2>4, <3>1 DEF Sweeping
    <3>3. graphTxn' = [graphTxn EXCEPT ![t] = r]
      BY <2>4, <3>1
    <3> QED BY <1>14, <2>0, <2>4, <3>2, <3>3
  <2> QED BY <2>1, <2>2, <2>3, <2>4
<1>17. ASSUME NEW t \in GraphTxns, CommitRebuild(t) PROVE SweepHolds'
  <2>1. graphTxn' = [u \in GraphTxns |-> IF u = t THEN Closed ELSE Left(graphTxn[u], graphTxn[t].gone)]
    BY <1>17 DEF CommitRebuild
  <2>20. PICK found \in SUBSET Queries : \E group \in [found -> FreshIds] : RebuiltAs(t, graphTxn[t].del \cap clusters, found, group)
    BY <1>17, RebuildRuns
  <2>2. PICK group \in [found -> FreshIds] : RebuiltAs(t, graphTxn[t].del \cap clusters, found, group)
    BY <2>20
  <2>3. \A q \in Queries : topicNode'[q].locked => Locked(q)
    BY <2>2 DEF RebuiltAs, Locked, NoNode
  <2>4. ASSUME NEW r, NEW rows, Sweeping(r)
        PROVE  LET l == Left(r, rows)
               IN  Sweeping(l) /\ (l.op = "rebuild" /\ l.step = "writing" => l = r)
    <3>1. CASE Spoiled(r, rows)
      BY <3>1 DEF Left, Sweeping
    <3>2. CASE ~Spoiled(r, rows) /\ r.op = "rebuild" /\ r.step = "deleting"
      <4>1. PICK l : l = [r EXCEPT !.gone = @ \ rows]
        OBVIOUS
      <4>2. l.op = "rebuild" /\ l.step = "deleting" /\ Sweeping(l)
        BY <2>4, <3>2, <4>1 DEF Sweeping
      <4>3. Left(r, rows) = l
        BY <3>2, <4>1 DEF Left
      <4> QED BY <4>2, <4>3
    <3>3. CASE ~Spoiled(r, rows) /\ ~(r.op = "rebuild" /\ r.step = "deleting")
      BY <2>4, <3>3 DEF Left
    <3> QED BY <3>1, <3>2, <3>3
  <2>5. \A u \in GraphTxns \ {t} :
          Sweeping(graphTxn'[u]) /\ (graphTxn'[u].op = "rebuild" /\ graphTxn'[u].step = "writing" => graphTxn'[u] = graphTxn[u])
    BY <1>0, <2>1, <2>4
  <2>6. graphTxn'[t] = Closed /\ Sweeping(Closed) /\ Closed.op # "rebuild"
    BY <2>1 DEF Closed, Sweeping
  <2>7. GoneUnlocked'
    <3> SUFFICES ASSUME NEW u \in GraphTxns, graphTxn'[u].op = "rebuild", graphTxn'[u].step = "writing",
                        NEW q \in Queries \cap graphTxn'[u].gone, topicNode'[q].locked
                 PROVE  FALSE
      BY DEF GoneUnlocked, Locked
    <3>1. u # t /\ graphTxn'[u] = graphTxn[u]
      BY <2>5, <2>6
    <3>2. ~Locked(q) /\ q \in Queries
      BY <3>1 DEF SweepHolds, GoneUnlocked
    <3> QED BY <2>3, <3>2
  <2>8. GraphTxnsKept'
    BY <2>1 DEF GraphTxnsKept
  <2> QED BY <2>5, <2>6, <2>7, <2>8 DEF SweepHolds, Sweeping
<1> QED
  BY <1>1, <1>4, <1>5, <1>6, <1>7, <1>8, <1>10, <1>11, <1>12, <1>13, <1>15, <1>16, <1>17 DEF GraphNext

THEOREM NodesAlwaysTyped == GraphSpec => [](NodesTyped /\ SweepHolds)
<1>1. NodesTyped /\ SweepHolds /\ [GraphNext]_graphVars => NodesTyped' /\ SweepHolds'
  BY LockedStep, SweepStep DEF SweepHolds
<1> QED BY <1>1, NodesTypedInit, SweepHoldsInit, PTL DEF GraphSpec

(* No rebuild, link or snapshot unlocks or deletes a topic node that is    *)
(* locked, and of rebuilds (topics/service.py rebuild_topic_graph) only    *)
(* one that has seen the node unlocked after its own DELETE moves it: one  *)
(* that another rebuild made meanwhile.                                    *)
THEOREM LockedNodesStay == GraphSpec => LockedStays
<1>1. NodesTyped /\ SweepHolds /\ [GraphNext]_graphVars => [KeepsLocked]_graphVars
  BY LockedStep DEF SweepHolds
<1>2. GraphSpec => [][KeepsLocked]_graphVars
  BY <1>1, NodesAlwaysTyped, PTL DEF GraphSpec
<1> QED BY <1>2 DEF LockedStays, KeepsLocked

----------------------------------------------------------------------------
(* The knowledge base: people's requests one after the other, any number   *)
(* of ingest runs beside them.                                             *)
OneKnowRequest == \A t, u \in KnowTxns : t = u

FactRow == [source : Sources, status : KnowStatuses, reviewed : BOOLEAN]

(* Evidence that is enough: two facts, or one of the company's own.        *)
Enough(cited) ==
    \/ Cardinality(cited) >= 2
    \/ \E i \in cited : facts[i].source \in Company

(* A pack cites facts there are, and enough of them unless it asks a human.*)
Stands(p) ==
    /\ p.cited \subseteq DOMAIN facts
    /\ p.status # "needs_human_evidence" => Enough(p.cited)

(* What a request holds. The column an UPDATE leaves out because the read  *)
(* showed it as assigned may only have become "draft", by an ingest run.   *)
Sourcing(t) ==
    /\ knowTxn[t].op = "source" /\ knowTxn[t].id \in Sources
    /\ IF "status" \in DOMAIN knowTxn[t].sets
         THEN knowTxn[t].sets["status"] = knowTxn[t].status
         ELSE sources[knowTxn[t].id]["status"] \in {knowTxn[t].status, "draft"}

Creating(t) == knowTxn[t].op = "create" /\ knowTxn[t].id \in Sources

Reviewing(t) ==
    /\ knowTxn[t].op = "fact" /\ knowTxn[t].id \in DOMAIN facts
    /\ knowTxn[t].status \in KnowStatuses
    /\ DOMAIN knowTxn[t].sets \subseteq {"status"}
    /\ "status" \in DOMAIN knowTxn[t].sets => knowTxn[t].sets["status"] = knowTxn[t].status

Packing(t) == knowTxn[t].op = "pack" /\ Stands(knowTxn[t].row) /\ knowTxn[t].row.vetted

Asking(t) == knowTxn[t] = NoKnowTxn \/ Sourcing(t) \/ Creating(t) \/ Reviewing(t) \/ Packing(t)

KnowShape ==
    /\ sources = [s \in Sources |-> sources[s]]
    /\ \A s \in Sources : "status" \in DOMAIN sources[s]
    /\ said = [s \in Sources |-> said[s]]
    /\ facts \in Seq(FactRow)
    /\ knowTxn = [t \in KnowTxns |-> knowTxn[t]]
    /\ ingest = [w \in IngestTasks |-> ingest[w]]
    /\ \A w \in IngestTasks : ingest[w] = NoKnowTxn \/ (ingest[w].op = "ingest" /\ ingest[w].id \in Sources)

(* Only a person's word approves: a fact after a review, a source last.    *)
ByPeople ==
    /\ \A i \in DOMAIN facts : facts[i].status = "approved" => facts[i].reviewed
    /\ \A s \in Sources : sources[s]["status"] = "approved" => said[s] = "approved"

Vetted ==
    /\ KnowShape
    /\ ByPeople
    /\ \A t \in KnowTxns : Asking(t)
    /\ \A p \in packs : p.vetted /\ Stands(p)
    /\ briefs \subseteq {p \in packs : p.status # "needs_human_evidence"}

(* Facts are only added, and keep their source.                            *)
FactsGrow ==
    /\ DOMAIN facts \subseteq DOMAIN facts'
    /\ \A i \in DOMAIN facts : facts'[i].source = facts[i].source

LEMMA VettedInit == KnowInit => Vetted
<1> SUFFICES ASSUME KnowInit PROVE Vetted
  OBVIOUS
<1>1. PICK f \in [Sources -> [status : {"pending", "draft"}, version : {1}]] : sources = f
  BY DEF KnowInit
<1>2. \A s \in Sources : /\ "status" \in DOMAIN sources[s]
                         /\ sources[s]["status"] # "approved"
  BY <1>1
<1>3. facts = <<>> /\ facts \in Seq(FactRow) /\ DOMAIN facts = {}
  BY DEF KnowInit
<1>4. KnowShape
  BY <1>1, <1>2, <1>3 DEF KnowInit, KnowShape
<1>5. ByPeople
  BY <1>2, <1>3 DEF ByPeople
<1> QED
  BY <1>4, <1>5 DEF KnowInit, Vetted, Asking

LEMMA StandsOn == ASSUME FactsGrow, NEW p, Stands(p) PROVE Stands(p)'
BY DEF FactsGrow, Stands, Enough

LEMMA FactsStay == UNCHANGED facts => FactsGrow
BY DEF FactsGrow

(* The score of a pack is below 50 where the evidence is not enough: at    *)
(* most one fact, which is not the company's own, and the opportunity.     *)
LEMMA ScoreTells ==
  ASSUME KnowShape, NEW cited, cited \subseteq DOMAIN facts, ~ Enough(cited),
         NEW opportunity \in BOOLEAN, NEW risky \in BOOLEAN
  PROVE  Coverage(cited, opportunity, risky) < 50
<1> DEFINE refs == Cardinality(cited) + (IF opportunity THEN 1 ELSE 0)
           kinds == Categories(cited, opportunity)
           points == 20 * refs + (IF "company_owned" \in kinds THEN 20 ELSE 0)
           capped == IF points > 100 THEN 100 ELSE points
<1>1. Cardinality(cited) \in Nat
  <2>1. DOMAIN facts = 1 .. Len(facts) /\ Len(facts) \in Nat
    BY DEF KnowShape
  <2>2. IsFiniteSet(DOMAIN facts)
    BY <2>1, FS_Interval
  <2> QED
    BY <2>2, FS_Subset, FS_CardinalityType
<1>2. Cardinality(cited) < 2 /\ \A i \in cited : facts[i].source \notin Company
  BY <1>1 DEF Enough
<1>3. "company_owned" \notin kinds
  BY <1>2 DEF Categories
<1>4. points <= 40 /\ points \in Nat
  BY <1>1, <1>2, <1>3
<1>5. Coverage(cited, opportunity, risky) = 0 \/ Coverage(cited, opportunity, risky) = points
  <2>1. Coverage(cited, opportunity, risky)
          = IF refs = 0 THEN 0 ELSE IF risky /\ Cardinality(kinds) < 2 /\ capped > 50 THEN 50 ELSE capped
    BY DEF Coverage
  <2>2. capped = points /\ ~ (capped > 50)
    BY <1>4
  <2> QED
    BY <2>1, <2>2
<1> QED
  BY <1>4, <1>5

(* A request that begins takes its place and writes nothing.               *)
LEMMA BeginKnowEffect ==
  ASSUME Vetted, NEW t \in KnowTxns, NEW txn, BeginKnow(t, txn), Asking(t)'
  PROVE  Vetted'
<1>1. /\ UNCHANGED <<sources, facts, packs, briefs, said, ingest>>
      /\ knowTxn' = [u \in KnowTxns |-> knowTxn'[u]]
      /\ \A u \in KnowTxns \ {t} : knowTxn'[u] = knowTxn[u]
  BY DEF BeginKnow, Vetted, KnowShape
<1>2. KnowShape' /\ ByPeople'
  BY <1>1 DEF Vetted, KnowShape, ByPeople
<1>3. \A u \in KnowTxns \ {t} : Asking(u)'
  BY <1>1 DEF Vetted, Asking, Sourcing, Creating, Reviewing, Packing, Stands, Enough
<1>4. \A p \in packs' : (p.vetted /\ Stands(p))'
  BY <1>1 DEF Vetted, Stands, Enough
<1> QED
  BY <1>1, <1>2, <1>3, <1>4 DEF Vetted

(* What a person begins: a change to a source or a fact, or a pack.        *)
LEMMA BeginSourceVetted ==
  ASSUME Vetted, NEW t \in KnowTxns, NEW s \in Sources, NEW assigned,
         "status" \in DOMAIN assigned, BeginSource(t, s, assigned)
  PROVE  Vetted'
<1> DEFINE sets == Dirty(sources[s], assigned)
           txn == [op |-> "source", id |-> s, sets |-> sets, status |-> assigned.status]
<1>1. BeginKnow(t, txn) /\ knowTxn'[t] = txn /\ UNCHANGED <<sources, facts>>
  BY DEF BeginSource, BeginKnow, Vetted, KnowShape
<1>2. IF "status" \in DOMAIN sets THEN sets["status"] = assigned.status
                                  ELSE sources[s]["status"] = assigned.status
  BY DEF Dirty
<1>3. Sourcing(t)'
  BY <1>1, <1>2 DEF Sourcing
<1> QED
  BY <1>1, <1>3, BeginKnowEffect DEF Asking

LEMMA UpdateFactVetted ==
  ASSUME Vetted, NEW t \in KnowTxns, NEW i \in DOMAIN facts, UpdateFact(t, i)
  PROVE  Vetted'
<1>1. PICK status \in {"draft", "approved", "revoked"} :
        BeginKnow(t, [op |-> "fact", id |-> i, sets |-> Dirty(facts[i], [status |-> status]), status |-> status])
  BY DEF UpdateFact
<1> DEFINE sets == Dirty(facts[i], [status |-> status])
           txn == [op |-> "fact", id |-> i, sets |-> sets, status |-> status]
<1>2. knowTxn'[t] = txn /\ UNCHANGED <<sources, facts>>
  BY <1>1 DEF BeginKnow, Vetted, KnowShape
<1>3. DOMAIN sets \subseteq {"status"} /\ ("status" \in DOMAIN sets => sets["status"] = status)
  BY DEF Dirty
<1>4. Reviewing(t)'
  BY <1>2, <1>3 DEF Reviewing, KnowStatuses
<1> QED
  BY <1>1, <1>4, BeginKnowEffect DEF Asking

(* A pack is built of facts usable now: approved, so that a person reviewed*)
(* them, of sources a person approved last.                                *)
LEMMA BuildSourcePackVetted ==
  ASSUME Vetted, NEW t \in KnowTxns, BuildSourcePack(t)
  PROVE  Vetted'
<1>1. PICK cited \in SUBSET Usable, opportunity \in BOOLEAN, risky \in BOOLEAN :
        BeginKnow(t, [op |-> "pack",
            row |-> [cited |-> cited, opportunity |-> opportunity,
                     status |-> IF Coverage(cited, opportunity, risky) < 50 THEN "needs_human_evidence"
                                                                            ELSE "ready",
                     vetted |-> \A i \in cited : facts[i].reviewed /\ said[facts[i].source] = "approved"]])
  BY DEF BuildSourcePack
<1> DEFINE row == [cited |-> cited, opportunity |-> opportunity,
                   status |-> IF Coverage(cited, opportunity, risky) < 50 THEN "needs_human_evidence"
                                                                          ELSE "ready",
                   vetted |-> \A i \in cited : facts[i].reviewed /\ said[facts[i].source] = "approved"]
           txn == [op |-> "pack", row |-> row]
<1>2. knowTxn'[t] = txn /\ UNCHANGED <<sources, facts>>
  BY <1>1 DEF BeginKnow, Vetted, KnowShape
<1>3. cited \subseteq DOMAIN facts
  BY DEF Usable
<1>4. row.vetted
  <2>1. \A i \in cited : facts[i].reviewed /\ said[facts[i].source] = "approved"
    <3> TAKE i \in cited
    <3>1. facts[i] \in FactRow /\ i \in DOMAIN facts
      BY <1>3 DEF Vetted, KnowShape
    <3>2. facts[i].status = "approved" /\ sources[facts[i].source].status = "approved"
      BY DEF Usable
    <3> QED
      BY <3>1, <3>2 DEF Vetted, ByPeople, FactRow
  <2> QED
    BY <2>1
<1>5. Stands(row)
  <2>1. KnowShape
    BY DEF Vetted
  <2>2. CASE Enough(cited)
    BY <1>3, <2>2 DEF Stands
  <2>3. CASE ~ Enough(cited)
    <3>1. Coverage(cited, opportunity, risky) < 50
      BY <1>3, <2>1, <2>3, ScoreTells
    <3> QED
      BY <1>3, <3>1 DEF Stands
  <2> QED
    BY <2>2, <2>3
<1>6. Packing(t)'
  <2>1. PICK r : r = row
    OBVIOUS
  <2>2. knowTxn'[t].op = "pack" /\ knowTxn'[t].row = r
    BY <1>2, <2>1
  <2>3. Stands(r)' /\ r.vetted
    BY <1>2, <1>4, <1>5, <2>1 DEF Stands, Enough
  <2> QED
    BY <2>2, <2>3 DEF Packing
<1> QED
  BY <1>1, <1>6, BeginKnowEffect DEF Asking

(* A commit ends its request.                                              *)
EndsKnow(t) == knowTxn' = [knowTxn EXCEPT ![t] = NoKnowTxn]

LEMMA RequestEnds ==
  ASSUME KnowShape, NEW t \in KnowTxns, EndsKnow(t)
  PROVE  /\ knowTxn' = [u \in KnowTxns |-> knowTxn'[u]]
         /\ knowTxn'[t] = NoKnowTxn
         /\ \A u \in KnowTxns \ {t} : knowTxn'[u] = knowTxn[u]
<1>1. knowTxn = [u \in KnowTxns |-> knowTxn[u]]
  BY DEF KnowShape
<1>2. knowTxn' = [u \in KnowTxns |-> IF u = t THEN NoKnowTxn ELSE knowTxn[u]]
  BY <1>1 DEF EndsKnow
<1> QED
  BY <1>2

LEMMA CommitSourceVetted ==
  ASSUME OneKnowRequest, Vetted, NEW t \in KnowTxns, CommitSource(t)
  PROVE  Vetted'
<1> DEFINE s == knowTxn[t].id
           row == Updated(sources[s], knowTxn[t].sets)
<1>1. KnowShape /\ Sourcing(t)
  BY DEF Vetted, Asking, CommitSource, NoKnowTxn, Creating, Reviewing, Packing
<1>2. /\ s \in Sources
      /\ sources' = [sources EXCEPT ![s] = row] /\ said' = [said EXCEPT ![s] = knowTxn[t].status]
      /\ UNCHANGED <<facts, packs, briefs, ingest>>
      /\ EndsKnow(t)
  BY <1>1 DEF CommitSource, Sourcing, EndsKnow
<1>3. "status" \in DOMAIN row /\ row["status"] \in {knowTxn[t].status, "draft"}
  BY <1>1, <1>2 DEF Updated, Sourcing, KnowShape
<1>4. /\ sources'[s] = row /\ said'[s] = knowTxn[t].status
      /\ \A r \in Sources \ {s} : sources'[r] = sources[r] /\ said'[r] = said[r]
  BY <1>1, <1>2 DEF KnowShape
<1>5. ByPeople'
  BY <1>2, <1>3, <1>4 DEF Vetted, ByPeople
<1>6. KnowShape'
  BY <1>1, <1>2, <1>3, <1>4, RequestEnds DEF KnowShape
<1>7. \A u \in KnowTxns : knowTxn'[u] = NoKnowTxn
  BY <1>1, <1>2, RequestEnds DEF OneKnowRequest
<1>8. \A p \in packs' : (p.vetted /\ Stands(p))'
  BY <1>2, FactsStay, StandsOn DEF Vetted
<1> QED
  BY <1>2, <1>5, <1>6, <1>7, <1>8 DEF Vetted, Asking

(* The rows of facts are only added to or changed in place.                *)
LEMMA FactsChange ==
  ASSUME Vetted, FactsGrow, facts' \in Seq(FactRow),
         \A i \in DOMAIN facts' : facts'[i].status = "approved" => facts'[i].reviewed,
         UNCHANGED <<sources, packs, briefs, said, ingest>>,
         NEW t \in KnowTxns, EndsKnow(t)
  PROVE  Vetted'
<1>1. KnowShape' /\ ByPeople'
  BY RequestEnds DEF Vetted, KnowShape, ByPeople
<1>2. /\ knowTxn'[t] = NoKnowTxn
      /\ \A u \in KnowTxns \ {t} : knowTxn'[u] = knowTxn[u]
  BY RequestEnds DEF Vetted
<1>3. \A u \in KnowTxns : Asking(u)'
  <2> SUFFICES ASSUME NEW u \in KnowTxns \ {t} PROVE Asking(u)'
    BY <1>2 DEF Asking
  <2>1. PICK txn : txn = knowTxn[u]
    OBVIOUS
  <2>2. txn = knowTxn'[u]
    BY <1>2, <2>1
  <2>3. Packing(u) => Packing(u)'
    BY <2>1, <2>2, StandsOn DEF Packing, Stands, Enough, FactsGrow
  <2>4. Sourcing(u) => Sourcing(u)'
    BY <2>1, <2>2 DEF Sourcing
  <2>5. Creating(u) => Creating(u)'
    BY <2>1, <2>2 DEF Creating
  <2>6. Reviewing(u) => Reviewing(u)'
    BY <2>1, <2>2 DEF Reviewing, FactsGrow
  <2> QED
    BY <2>1, <2>2, <2>3, <2>4, <2>5, <2>6 DEF Vetted, Asking
<1>4. \A p \in packs' : (p.vetted /\ Stands(p))'
  BY StandsOn DEF Vetted
<1> QED
  BY <1>1, <1>3, <1>4 DEF Vetted

LEMMA CommitFactVetted ==
  ASSUME Vetted, NEW t \in KnowTxns, CommitFact(t)
  PROVE  Vetted'
<1> DEFINE row == Fact(knowTxn[t].id, "draft", FALSE)
<1>1. facts \in Seq(FactRow) /\ knowTxn[t].id \in Sources
  BY DEF Vetted, KnowShape, Asking, CommitFact, NoKnowTxn, Sourcing, Creating, Reviewing, Packing
<1>2. row \in FactRow /\ row.status = "draft"
  BY <1>1 DEF Fact, FactRow, KnowStatuses
<1>3. facts' = Append(facts, row)
  BY DEF CommitFact
<1> HIDE DEF row
<1>4. /\ facts' \in Seq(FactRow)
      /\ \A i \in DOMAIN facts' : (i \in DOMAIN facts /\ facts'[i] = facts[i]) \/ facts'[i] = row
      /\ \A i \in DOMAIN facts : i \in DOMAIN facts' /\ facts'[i] = facts[i]
  BY <1>1, <1>2, <1>3
<1>5. FactsGrow
  BY <1>4 DEF FactsGrow
<1>6. \A i \in DOMAIN facts' : facts'[i].status = "approved" => facts'[i].reviewed
  BY <1>2, <1>4 DEF Vetted, ByPeople
<1>7. UNCHANGED <<sources, packs, briefs, said, ingest>> /\ EndsKnow(t)
  BY DEF CommitFact, EndsKnow
<1> QED
  BY <1>4, <1>5, <1>6, <1>7, FactsChange

(* A review changes the status of its row, and tells of an approval.       *)
LEMMA ReviewedRow ==
  ASSUME NEW row \in FactRow, NEW sets, DOMAIN sets \subseteq {"status"}, NEW status \in KnowStatuses,
         "status" \in DOMAIN sets => sets["status"] = status
  PROVE  LET new == [Updated(row, sets) EXCEPT !.reviewed = @ \/ status = "approved"]
         IN  /\ new \in FactRow /\ new.source = row.source
             /\ new.status \in {row.status, status}
             /\ new.reviewed = (row.reviewed \/ status = "approved")
<1> DEFINE upd == Updated(row, sets)
           new == [upd EXCEPT !.reviewed = @ \/ status = "approved"]
<1>1. /\ upd = [c \in {"source", "status", "reviewed"} |-> upd[c]]
      /\ upd["source"] = row["source"] /\ upd["reviewed"] = row["reviewed"]
      /\ upd["status"] \in {row["status"], status}
  BY DEF Updated, FactRow
<1>2. row["source"] \in Sources /\ row["status"] \in KnowStatuses /\ row["reviewed"] \in BOOLEAN
  BY DEF FactRow
<1> HIDE DEF upd
<1>3. /\ new = [c \in {"source", "status", "reviewed"} |-> new[c]]
      /\ new["source"] = row["source"] /\ new["reviewed"] = (row["reviewed"] \/ status = "approved")
      /\ new["status"] \in {row["status"], status}
  BY <1>1
<1>4. new \in FactRow
  BY <1>2, <1>3 DEF FactRow
<1> QED
  BY <1>3, <1>4 DEF upd

LEMMA CommitUpdateFactVetted ==
  ASSUME Vetted, NEW t \in KnowTxns, CommitUpdateFact(t)
  PROVE  Vetted'
<1> DEFINE n == knowTxn[t].id
           new == [Updated(facts[n], knowTxn[t].sets) EXCEPT !.reviewed = @ \/ knowTxn[t].status = "approved"]
<1>1. facts \in Seq(FactRow) /\ Reviewing(t)
  BY DEF Vetted, KnowShape, Asking, CommitUpdateFact, NoKnowTxn, Sourcing, Creating, Packing
<1>2. n \in DOMAIN facts /\ facts[n] \in FactRow
  BY <1>1 DEF Reviewing
<1>3. /\ new \in FactRow /\ new.source = facts[n].source
      /\ new.status \in {facts[n].status, knowTxn[t].status}
      /\ new.reviewed = (facts[n].reviewed \/ knowTxn[t].status = "approved")
  BY <1>1, <1>2, ReviewedRow DEF Reviewing
<1>4. facts' = [i \in DOMAIN facts |-> IF i = n THEN new ELSE facts[i]]
  BY <1>2 DEF CommitUpdateFact
<1> HIDE DEF new, n
<1>5. /\ facts' \in Seq(FactRow) /\ DOMAIN facts' = DOMAIN facts
      /\ facts'[n] = new /\ \A i \in DOMAIN facts \ {n} : facts'[i] = facts[i]
  BY <1>1, <1>2, <1>3, <1>4
<1>6. FactsGrow
  BY <1>2, <1>3, <1>5 DEF FactsGrow
<1>7. \A i \in DOMAIN facts : facts[i].status = "approved" => facts[i].reviewed
  BY DEF Vetted, ByPeople
<1>8. new.status = "approved" => new.reviewed
  BY <1>2, <1>3, <1>7
<1>9. \A i \in DOMAIN facts' : facts'[i].status = "approved" => facts'[i].reviewed
  BY <1>5, <1>7, <1>8
<1>10. UNCHANGED <<sources, packs, briefs, said, ingest>> /\ EndsKnow(t)
  BY DEF CommitUpdateFact, EndsKnow
<1> QED
  BY <1>5, <1>6, <1>9, <1>10, FactsChange

LEMMA CommitPackVetted ==
  ASSUME Vetted, NEW t \in KnowTxns, CommitPack(t)
  PROVE  Vetted'
<1>1. Packing(t)
  BY DEF Vetted, Asking, CommitPack, NoKnowTxn, Sourcing, Creating, Reviewing
<1>2. PICK row : row = knowTxn[t].row
  OBVIOUS
<1>3. /\ packs' = packs \cup {row} /\ UNCHANGED <<sources, facts, briefs, said, ingest>>
      /\ EndsKnow(t) /\ KnowShape
  BY <1>2 DEF CommitPack, EndsKnow, Vetted
<1>4. /\ knowTxn'[t] = NoKnowTxn /\ knowTxn' = [u \in KnowTxns |-> knowTxn'[u]]
      /\ \A u \in KnowTxns \ {t} : knowTxn'[u] = knowTxn[u]
  BY <1>3, RequestEnds
<1>5. KnowShape' /\ ByPeople'
  BY <1>3, <1>4 DEF Vetted, KnowShape, ByPeople
<1>6. \A p \in packs' : (p.vetted /\ Stands(p))'
  BY <1>1, <1>2, <1>3 DEF Vetted, Packing, Stands, Enough
<1>7. \A u \in KnowTxns : Asking(u)'
  BY <1>3, <1>4 DEF Vetted, Asking, Sourcing, Creating, Reviewing, Packing, Stands, Enough
<1> QED
  BY <1>3, <1>5, <1>6, <1>7 DEF Vetted

(* An ingest run that ends: "draft" facts behind the others, and a source  *)
(* it saw "pending" is a "draft" now, whatever it became meanwhile.        *)
LEMMA FinishIngestVetted ==
  ASSUME Vetted, NEW w \in IngestTasks, FinishIngest(w)
  PROVE  Vetted'
<1>1. KnowShape /\ ingest[w].id \in Sources
  BY DEF Vetted, KnowShape, FinishIngest, NoKnowTxn
<1>2. PICK n \in 0 .. 2 : facts' = facts \o Extracted(ingest[w].id, n)
  BY DEF FinishIngest
<1> DEFINE more == Extracted(ingest[w].id, n)
<1>3. /\ more \in Seq(FactRow)
      /\ \A i \in DOMAIN more : more[i].status = "draft"
  <2>1. Fact(ingest[w].id, "draft", FALSE) \in FactRow
    BY <1>1 DEF Fact, FactRow, KnowStatuses
  <2>2. more = [i \in 1 .. n |-> Fact(ingest[w].id, "draft", FALSE)]
    BY DEF Extracted
  <2>3. Fact(ingest[w].id, "draft", FALSE).status = "draft"
    BY DEF Fact
  <2>4. DOMAIN more = 1 .. n /\ n \in Nat
    BY <2>2
  <2>5. \A i \in 1 .. n : more[i] = Fact(ingest[w].id, "draft", FALSE)
    BY <2>2
  <2> HIDE DEF more
  <2>6. more \in [1 .. n -> FactRow]
    BY <2>1, <2>2
  <2>7. more \in Seq(FactRow)
    BY <2>4, <2>6
  <2> QED
    BY <2>3, <2>4, <2>5, <2>7
<1>4. facts \in Seq(FactRow)
  BY <1>1 DEF KnowShape
<1> HIDE DEF more
<1>5. facts' \in Seq(FactRow) /\ Len(facts') = Len(facts) + Len(more)
  BY <1>2, <1>3, <1>4 DEF more
<1>6. /\ \A i \in DOMAIN facts : i \in DOMAIN facts' /\ facts'[i] = facts[i]
      /\ \A i \in DOMAIN facts' : i \in DOMAIN facts \/ facts'[i].status = "draft"
  <2>1. \A i \in 1 .. Len(facts') : facts'[i] = IF i <= Len(facts) THEN facts[i] ELSE more[i - Len(facts)]
    BY <1>2, <1>3, <1>4, <1>5 DEF more
  <2>2. \A i \in 1 .. Len(facts') : i \notin DOMAIN facts => i - Len(facts) \in DOMAIN more
    BY <1>3, <1>4, <1>5
  <2> QED
    BY <1>3, <1>4, <1>5, <2>1, <2>2
<1>7. FactsGrow
  BY <1>6 DEF FactsGrow
<1>8. /\ UNCHANGED <<packs, briefs, said, knowTxn>>
      /\ ingest' = [ingest EXCEPT ![w] = NoKnowTxn]
      /\ \/ sources' = sources
         \/ sources' = [sources EXCEPT ![ingest[w].id].status = "draft"]
  BY DEF FinishIngest
<1>9. /\ sources' = [s \in Sources |-> sources'[s]]
      /\ \A s \in Sources : /\ "status" \in DOMAIN sources'[s]
                            /\ sources'[s]["status"] \in {sources[s]["status"], "draft"}
  BY <1>1, <1>8 DEF KnowShape
<1>10. ingest' = [v \in IngestTasks |-> IF v = w THEN NoKnowTxn ELSE ingest[v]]
  <2>1. ingest = [v \in IngestTasks |-> ingest[v]]
    BY <1>1 DEF KnowShape
  <2> QED
    BY <1>8, <2>1
<1>11. KnowShape'
  BY <1>1, <1>5, <1>8, <1>9, <1>10 DEF KnowShape
<1>12. ByPeople'
  BY <1>6, <1>8, <1>9 DEF Vetted, ByPeople
<1>13. \A u \in KnowTxns : Asking(u)'
  <2> SUFFICES ASSUME NEW u \in KnowTxns PROVE Asking(u)'
    OBVIOUS
  <2>1. PICK txn : txn = knowTxn[u]
    OBVIOUS
  <2>2. txn = knowTxn'[u]
    BY <1>8, <2>1
  <2>3. Packing(u) => Packing(u)'
    BY <1>7, <2>1, <2>2, StandsOn DEF Packing, Stands, Enough, FactsGrow
  <2>4. Sourcing(u) => Sourcing(u)'
    BY <1>9, <2>1, <2>2 DEF Sourcing
  <2>5. Creating(u) => Creating(u)'
    BY <2>1, <2>2 DEF Creating
  <2>6. Reviewing(u) => Reviewing(u)'
    BY <1>7, <2>1, <2>2 DEF Reviewing, FactsGrow
  <2> QED
    BY <2>1, <2>2, <2>3, <2>4, <2>5, <2>6 DEF Vetted, Asking
<1>14. \A p \in packs' : (p.vetted /\ Stands(p))'
  BY <1>7, <1>8, StandsOn DEF Vetted
<1> QED
  BY <1>8, <1>11, <1>12, <1>13, <1>14 DEF Vetted

(* The other steps: a run that begins or comes to nothing, and a brief.    *)
LEMMA IngestRestVetted ==
  ASSUME Vetted, NEW w \in IngestTasks,
         (\E s \in Sources : BeginIngest(w, s)) \/ IngestNothing(w)
  PROVE  Vetted'
<1>1. ingest = [v \in IngestTasks |-> ingest[v]]
  BY DEF Vetted, KnowShape
<1>2. PICK new : /\ ingest' = [v \in IngestTasks |-> IF v = w THEN new ELSE ingest[v]]
                 /\ new = NoKnowTxn \/ (new.op = "ingest" /\ new.id \in Sources)
                 /\ UNCHANGED <<sources, facts, packs, briefs, said, knowTxn>>
  <2>1. CASE IngestNothing(w)
    BY <1>1, <2>1 DEF IngestNothing
  <2>2. ASSUME NEW s \in Sources, BeginIngest(w, s)
        PROVE  LET new == [op |-> "ingest", id |-> s, status |-> sources[s].status]
               IN  /\ ingest' = [v \in IngestTasks |-> IF v = w THEN new ELSE ingest[v]]
                   /\ new.op = "ingest" /\ new.id \in Sources
                   /\ UNCHANGED <<sources, facts, packs, briefs, said, knowTxn>>
    BY <1>1, <2>2 DEF BeginIngest
  <2> QED
    BY <2>1, <2>2
<1>3. KnowShape' /\ ByPeople'
  BY <1>2 DEF Vetted, KnowShape, ByPeople
<1> QED
  BY <1>2, <1>3 DEF Vetted, Asking, Sourcing, Creating, Reviewing, Packing, Stands, Enough

LEMMA BuildBriefVetted ==
  ASSUME Vetted, NEW p \in packs, BuildBrief(p)
  PROVE  Vetted'
<1>1. KnowShape' /\ ByPeople'
  BY DEF Vetted, KnowShape, ByPeople, BuildBrief
<1> QED
  BY <1>1 DEF Vetted, BuildBrief, Asking, Sourcing, Creating, Reviewing, Packing, Stands, Enough

LEMMA VettedStep == OneKnowRequest /\ Vetted /\ [KnowNext]_knowVars => Vetted'
<1> SUFFICES ASSUME OneKnowRequest, Vetted, [KnowNext]_knowVars PROVE Vetted'
  OBVIOUS
<1>1. CASE UNCHANGED knowVars
  <2>1. KnowShape' /\ ByPeople'
    BY <1>1 DEF Vetted, KnowShape, ByPeople, knowVars
  <2> QED
    BY <1>1, <2>1 DEF knowVars, Vetted, Asking, Sourcing, Creating, Reviewing, Packing, Stands, Enough
<1>2. ASSUME NEW t \in KnowTxns, NEW s \in Sources,
             ApproveSource(t, s) \/ RevokeSource(t, s) \/ UpdateSource(t, s)
      PROVE  Vetted'
  BY <1>2, BeginSourceVetted DEF ApproveSource, RevokeSource, UpdateSource
<1>3. ASSUME NEW t \in KnowTxns, NEW s \in Sources, CreateFact(t, s) PROVE Vetted'
  <2>1. BeginKnow(t, [op |-> "create", id |-> s])
    BY <1>3 DEF CreateFact
  <2>2. Creating(t)'
    BY <2>1 DEF BeginKnow, Creating, Vetted, KnowShape
  <2> QED
    BY <2>1, <2>2, BeginKnowEffect DEF Asking
<1>4. ASSUME NEW t \in KnowTxns,
             \/ \E i \in DOMAIN facts : UpdateFact(t, i)
             \/ BuildSourcePack(t)
             \/ CommitSource(t) \/ CommitFact(t) \/ CommitUpdateFact(t) \/ CommitPack(t)
      PROVE  Vetted'
  BY <1>4, UpdateFactVetted, BuildSourcePackVetted, CommitSourceVetted, CommitFactVetted,
     CommitUpdateFactVetted, CommitPackVetted
<1>5. ASSUME NEW w \in IngestTasks,
             (\E s \in Sources : BeginIngest(w, s)) \/ FinishIngest(w) \/ IngestNothing(w)
      PROVE  Vetted'
  BY <1>5, FinishIngestVetted, IngestRestVetted
<1>6. ASSUME NEW p \in packs, BuildBrief(p) PROVE Vetted'
  BY <1>6, BuildBriefVetted
<1> QED
  BY <1>1, <1>2, <1>3, <1>4, <1>5, <1>6 DEF KnowNext

(* However many facts, sources and ingest runs there are: a pack cites     *)
(* only facts a person reviewed, of sources whose last word was an         *)
(* approval, and a brief stands on two of them or on one of the company's  *)
(* own.                                                                    *)
THEOREM PacksAlwaysVetted == OneKnowRequest /\ KnowSpec => []PacksAreVetted
<1> SUFFICES ASSUME OneKnowRequest PROVE KnowSpec => []PacksAreVetted
  OBVIOUS
<1>1. KnowInit => Vetted
  BY VettedInit
<1>2. Vetted /\ [KnowNext]_knowVars => Vetted'
  BY VettedStep
<1>3. Vetted => PacksAreVetted
  BY DEF Vetted, PacksAreVetted, EvidenceIsVetted, BriefsHaveEvidence, Stands, Enough
<1> QED
  BY <1>1, <1>2, <1>3, PTL DEF KnowSpec

----------------------------------------------------------------------------
(* The slots of Google's results: runs and requests one after the other.   *)
OneSerpTxn == \A x, y \in SerpTxns : x = y

SlotRow == [status : TargetStatus \cup {"absent"}, owner : CellStatus]

SerpShape ==
    /\ target \in [SlotTypes -> SlotRow]
    /\ open \in [Keys -> Nat]
    /\ serpBegun \in Nat /\ latest.captured \in Nat /\ latest.captured <= serpBegun
    /\ search.url \in Urls \cup {NoUrl}
    /\ serpTxn = [x \in SerpTxns |-> serpTxn[x]]

(* What the run or request at work read is still so when it commits.       *)
Snapping(x) ==
    /\ serpTxn[x].op = "snapshot"
    /\ serpTxn[x].captured \in Nat
    /\ serpTxn[x].captured > latest.captured /\ serpTxn[x].captured <= serpBegun
    /\ serpTxn[x].shows \in Results
    /\ serpTxn[x].read = target
    /\ \E cells \in Cells(serpTxn[x].shows) :
         serpTxn[x].assigned = [t \in SlotTypes |-> Synced(target[t], t, cells[t])]

Patching(x) ==
    /\ serpTxn[x].op = "patch" /\ serpTxn[x].slot \in SlotTypes
    /\ serpTxn[x].status \in TargetStatus /\ serpTxn[x].read = target[serpTxn[x].slot].status

Generating(x) ==
    /\ serpTxn[x].op = "generate" /\ serpTxn[x].url \in Urls \cup {NoUrl}
    /\ \A type \in serpTxn[x].types : type \in GapTypes /\ open[<<type, serpTxn[x].url>>] = 0

Current(x) == serpTxn[x] = NoSerpTxn \/ Snapping(x) \/ Patching(x) \/ Generating(x)

SlotIInv == SerpShape /\ AchievedIsShown /\ SerpGapsOnce /\ \A x \in SerpTxns : Current(x)

(* A slot a person took out of the work stays out, or a person said so.    *)
OutOfWork ==
    \A t \in SlotTypes :
        target[t].status \in Manual /\ target'[t].status # target[t].status => t \in saidStatus'

LEMMA SlotInit == SerpInit => SlotIInv
BY DEF SerpInit, SlotIInv, SerpShape, SlotRow, CellStatus, NoTarget, AchievedIsShown, SerpGapsOnce, Current

(* A cell that is the site's own was shown with a result of the site.      *)
LEMMA OwnedIsShown ==
  ASSUME NEW shows \in Results, NEW cells \in Cells(shows), NEW t \in SlotTypes
  PROVE  /\ cells[t] \in CellStatus
         /\ cells[t] = "owned" => "own" \in shows[t]
<1>1. shows[t] \subseteq {"own", "competitor", "forum", "other"}
  BY SerpAssumption
<1>2. \A o \in shows[t] : /\ SlotMatrixStatus(OwnerOf(t, o)) \in CellStatus
                          /\ SlotMatrixStatus(OwnerOf(t, o)) = "owned" => o = "own"
  BY <1>1 DEF SlotMatrixStatus, OwnerOf, CellStatus
<1>3. /\ Cell(shows, t) # {}
      /\ \A c \in Cell(shows, t) : c \in CellStatus /\ (c = "owned" => "own" \in shows[t])
  BY <1>2 DEF Cell, CellStatus
<1>4. cells[t] \in Cell(shows, t)
  <2> DEFINE several == {u \in SlotTypes : Cardinality(Cell(shows, u)) > 1}
  <2>1. PICK c \in {f \in [several -> CellStatus] : \A u \in several : f[u] \in Cell(shows, u)} :
          cells = [u \in SlotTypes |-> IF u \in several THEN c[u] ELSE CHOOSE only \in Cell(shows, u) : TRUE]
    BY DEF Cells
  <2>2. t \in several => c[t] \in Cell(shows, t)
    BY <2>1
  <2>3. (CHOOSE only \in Cell(shows, t) : TRUE) \in Cell(shows, t)
    BY <1>3
  <2>4. cells[t] = IF t \in several THEN c[t] ELSE CHOOSE only \in Cell(shows, t) : TRUE
    BY <2>1
  <2> HIDE DEF several
  <2> QED
    BY <2>2, <2>3, <2>4
<1> QED
  BY <1>3, <1>4

LEMMA SyncedRow ==
  ASSUME NEW row \in SlotRow, NEW t \in SlotTypes, NEW cell \in CellStatus
  PROVE  /\ Synced(row, t, cell) \in SlotRow
         /\ row.status \in Manual => Synced(row, t, cell).status = row.status
         /\ t # "organic" /\ Synced(row, t, cell).status = "achieved" => cell = "owned"
BY DEF Synced, SlotRow, LeftAlone, ShouldSyncTargetStatus, TargetStatusFromMatrix, Manual, TargetStatus

(* A run or request that begins.                                           *)
LEMMA BeginSerpEffect ==
  ASSUME SlotIInv, NEW x \in SerpTxns, NEW txn, BeginSerp(x, txn), Current(x)'
  PROVE  SlotIInv' /\ OutOfWork
<1>1. /\ UNCHANGED <<latest, target, open, search, saidStatus>>
      /\ serpTxn' = [y \in SerpTxns |-> serpTxn'[y]]
      /\ \A y \in SerpTxns \ {x} : serpTxn'[y] = serpTxn[y]
      /\ serpBegun' = serpBegun + 1
  BY DEF BeginSerp, SlotIInv, SerpShape
<1>2. SerpShape' /\ AchievedIsShown' /\ SerpGapsOnce' /\ OutOfWork
  BY <1>1 DEF SlotIInv, SerpShape, AchievedIsShown, SerpGapsOnce, OutOfWork
<1>3. ASSUME NEW y \in SerpTxns \ {x} PROVE Current(y)'
  <2>1. Snapping(y) => Snapping(y)'
    <3>1. serpTxn'[y] = serpTxn[y] /\ latest' = latest /\ target' = target
      BY <1>1
    <3>2. serpTxn[y].captured \in Nat /\ serpTxn[y].captured <= serpBegun => serpTxn[y].captured <= serpBegun'
      BY <1>1 DEF SlotIInv, SerpShape
    <3> QED
      BY <3>1, <3>2, Zenon DEF Snapping
  <2>2. Patching(y) => Patching(y)'
    BY <1>1 DEF Patching
  <2>3. Generating(y) => Generating(y)'
    BY <1>1 DEF Generating
  <2> QED
    BY <1>1, <2>1, <2>2, <2>3 DEF SlotIInv, Current
<1> QED
  BY <1>2, <1>3 DEF SlotIInv

LEMMA SnapshotBegins ==
  ASSUME SlotIInv, NEW x \in SerpTxns, BeginSerpSnapshot(x)
  PROVE  SlotIInv' /\ OutOfWork
<1>1. PICK r \in Results : \E cells \in Cells(r) :
        BeginSerp(x, [op |-> "snapshot", captured |-> serpBegun + 1, shows |-> r, read |-> target,
                      assigned |-> [t \in SlotTypes |-> Synced(target[t], t, cells[t])]])
  BY DEF BeginSerpSnapshot
<1>2. PICK cells \in Cells(r) :
        BeginSerp(x, [op |-> "snapshot", captured |-> serpBegun + 1, shows |-> r, read |-> target,
                      assigned |-> [t \in SlotTypes |-> Synced(target[t], t, cells[t])]])
  BY <1>1
<1>3. PICK assigned : assigned = [t \in SlotTypes |-> Synced(target[t], t, cells[t])]
  OBVIOUS
<1> DEFINE txn == [op |-> "snapshot", captured |-> serpBegun + 1, shows |-> r, read |-> target,
                   assigned |-> assigned]
<1>4. BeginSerp(x, txn)
  BY <1>2, <1>3
<1>5. /\ serpTxn'[x] = txn /\ UNCHANGED <<latest, target>> /\ serpBegun' = serpBegun + 1
      /\ serpBegun \in Nat /\ latest.captured \in Nat /\ latest.captured <= serpBegun
  BY <1>4 DEF BeginSerp, SlotIInv, SerpShape
<1>6. assigned = [t \in SlotTypes |-> Synced(target'[t], t, cells[t])]
  BY <1>3, <1>5
<1>7. Snapping(x)'
  BY <1>5, <1>6 DEF Snapping
<1> QED
  BY <1>4, <1>7, BeginSerpEffect DEF Current

LEMMA RestBegins ==
  ASSUME SlotIInv, NEW x \in SerpTxns, BeginSlotTarget(x) \/ BeginSerpOpportunities(x)
  PROVE  SlotIInv' /\ OutOfWork
<1>1. CASE BeginSlotTarget(x)
  <2>1. PICK t \in SlotTypes, status \in TargetStatus :
          BeginSerp(x, [op |-> "patch", slot |-> t, status |-> status, read |-> target[t].status])
    BY <1>1 DEF BeginSlotTarget
  <2> DEFINE txn == [op |-> "patch", slot |-> t, status |-> status, read |-> target[t].status]
  <2>2. serpTxn'[x] = txn /\ UNCHANGED target
    BY <2>1 DEF BeginSerp, SlotIInv, SerpShape
  <2>3. Patching(x)'
    BY <2>2 DEF Patching
  <2> QED
    BY <2>1, <2>3, BeginSerpEffect DEF Current
<1>2. CASE BeginSerpOpportunities(x)
  <2>1. PICK cells \in Cells(latest.shows) :
          BeginSerp(x, [op |-> "generate", url |-> search.url, types |-> {type \in Gaps(cells) : ~Seen(type)}])
    BY <1>2 DEF BeginSerpOpportunities
  <2> DEFINE types == {type \in Gaps(cells) : ~Seen(type)}
             txn == [op |-> "generate", url |-> search.url, types |-> types]
  <2>2. serpTxn'[x] = txn /\ UNCHANGED <<open, search>>
    BY <2>1 DEF BeginSerp, SlotIInv, SerpShape
  <2>3. \A type \in types : type \in GapTypes /\ open[<<type, search.url>>] = 0
    <3> SUFFICES ASSUME NEW type \in types PROVE type \in GapTypes /\ open[<<type, search.url>>] = 0
      OBVIOUS
    <3>1. type \in GapTypes /\ ~Seen(type)
      BY DEF Gaps
    <3>2. <<type, search.url>> \in Keys
      BY <3>1 DEF Keys, SlotIInv, SerpShape
    <3>3. open[<<type, search.url>>] \in Nat
      BY <3>2 DEF SlotIInv, SerpShape
    <3> QED
      BY <3>1, <3>3 DEF Seen
  <2> HIDE DEF types
  <2>4. Generating(x)'
    BY <2>2, <2>3 DEF Generating, SlotIInv, SerpShape
  <2> QED
    BY <2>1, <2>4, BeginSerpEffect DEF Current, types
<1> QED
  BY <1>1, <1>2

(* A run or request that ends is the only one.                             *)
LEMMA SerpEnds ==
  ASSUME OneSerpTxn, SerpShape, NEW x \in SerpTxns, EndSerp(x)
  PROVE  /\ serpTxn' = [y \in SerpTxns |-> serpTxn'[y]] /\ UNCHANGED serpBegun
         /\ \A y \in SerpTxns : Current(y)'
<1>1. serpTxn = [y \in SerpTxns |-> serpTxn[y]]
  BY DEF SerpShape
<1>2. serpTxn' = [y \in SerpTxns |-> IF y = x THEN NoSerpTxn ELSE serpTxn[y]] /\ UNCHANGED serpBegun
  BY <1>1 DEF EndSerp
<1>3. \A y \in SerpTxns : serpTxn'[y] = NoSerpTxn
  BY <1>2 DEF OneSerpTxn
<1> QED
  BY <1>2, <1>3 DEF Current

(* The columns a snapshot sets, on the row it read.                        *)
LEMMA SnapshotCommits ==
  ASSUME OneSerpTxn, SlotIInv, NEW x \in SerpTxns, CommitSerpSnapshot(x)
  PROVE  SlotIInv' /\ OutOfWork
<1>1. PICK txn : txn = serpTxn[x]
  OBVIOUS
<1>2. Snapping(x) /\ txn.op = "snapshot"
  BY <1>1 DEF SlotIInv, Current, CommitSerpSnapshot, NoSerpTxn, Patching, Generating
<1>3. PICK cells \in Cells(txn.shows) : txn.assigned = [t \in SlotTypes |-> Synced(target[t], t, cells[t])]
  BY <1>1, <1>2 DEF Snapping
<1>4. txn.shows \in Results /\ txn.read = target /\ txn.captured > latest.captured /\ txn.captured <= serpBegun
      /\ txn.captured \in Nat
  BY <1>1, <1>2 DEF Snapping
<1>5. \A t \in SlotTypes : target[t] \in SlotRow
  BY DEF SlotIInv, SerpShape
<1>6. /\ target' = [t \in SlotTypes |->
             [owner  |-> IfDiffers(txn.assigned[t].owner, txn.read[t].owner, target[t].owner),
              status |-> IfDiffers(txn.assigned[t].status, txn.read[t].status, target[t].status)]]
      /\ latest' = IF txn.captured > latest.captured
                     THEN [captured |-> txn.captured, shows |-> txn.shows] ELSE latest
      /\ saidStatus' = {t \in saidStatus : target'[t].status = target[t].status /\ target[t].status \in Manual}
      /\ EndSerp(x) /\ UNCHANGED <<open, search>>
  BY <1>1 DEF CommitSerpSnapshot
<1>7. latest' = [captured |-> txn.captured, shows |-> txn.shows]
  BY <1>4, <1>6
<1>8. ASSUME NEW t \in SlotTypes
      PROVE  /\ target'[t] \in SlotRow
             /\ target[t].status \in Manual => target'[t].status = target[t].status
             /\ t # "organic" /\ target'[t].status = "achieved" => "own" \in txn.shows[t]
  <2>1. cells[t] \in CellStatus /\ (cells[t] = "owned" => "own" \in txn.shows[t])
    BY <1>3, <1>4, OwnedIsShown
  <2>2. PICK row : row = Synced(target[t], t, cells[t])
    OBVIOUS
  <2>3. /\ row \in SlotRow
        /\ target[t].status \in Manual => row.status = target[t].status
        /\ t # "organic" /\ row.status = "achieved" => cells[t] = "owned"
    BY <1>5, <2>1, <2>2, SyncedRow
  <2>4. txn.assigned[t] = row /\ txn.read[t] = target[t]
    BY <1>3, <1>4, <2>2
  <2>5. target'[t] = [owner |-> row.owner, status |-> row.status]
    BY <1>6, <2>4 DEF IfDiffers
  <2>6. row = [owner |-> row.owner, status |-> row.status]
    BY <2>3 DEF SlotRow
  <2> QED
    BY <2>1, <2>3, <2>5, <2>6
<1>9. target' \in [SlotTypes -> SlotRow]
  <2>1. target' = [t \in SlotTypes |-> target'[t]]
    BY <1>6
  <2> QED
    BY <1>8, <2>1
<1>10. SerpShape /\ SerpGapsOnce
  BY DEF SlotIInv
<1>11. /\ serpTxn' = [y \in SerpTxns |-> serpTxn'[y]] /\ UNCHANGED serpBegun
       /\ \A y \in SerpTxns : Current(y)'
  BY <1>6, <1>10, SerpEnds
<1>12. SerpShape'
  BY <1>4, <1>6, <1>7, <1>9, <1>10, <1>11 DEF SerpShape
<1>13. AchievedIsShown'
  BY <1>7, <1>8 DEF AchievedIsShown
<1>14. SerpGapsOnce' /\ OutOfWork
  BY <1>6, <1>8, <1>10 DEF SerpGapsOnce, OutOfWork
<1> QED
  BY <1>11, <1>12, <1>13, <1>14 DEF SlotIInv

(* A person's word is remembered with the status it sets.                  *)
LEMMA SlotTargetCommits ==
  ASSUME OneSerpTxn, SlotIInv, NEW x \in SerpTxns, CommitSlotTarget(x)
  PROVE  SlotIInv' /\ OutOfWork
<1>1. PICK txn : txn = serpTxn[x]
  OBVIOUS
<1>2. Patching(x) /\ txn.op = "patch"
  BY <1>1 DEF SlotIInv, Current, CommitSlotTarget, NoSerpTxn, Snapping, Generating
<1>3. txn.slot \in SlotTypes /\ txn.status \in TargetStatus
  BY <1>1, <1>2 DEF Patching
<1>4. /\ target' = [target EXCEPT ![txn.slot].status = IfDiffers(txn.status, txn.read, @)]
      /\ saidStatus' = saidStatus \cup {txn.slot}
      /\ EndSerp(x) /\ UNCHANGED <<latest, open, search>>
  BY <1>1 DEF CommitSlotTarget
<1>5. SerpShape /\ SerpGapsOnce /\ AchievedIsShown /\ target \in [SlotTypes -> SlotRow]
  BY DEF SlotIInv, SerpShape
<1>6. PICK status : status = IfDiffers(txn.status, txn.read, target[txn.slot].status)
  OBVIOUS
<1>7. status \in TargetStatus \cup {"absent"}
  BY <1>3, <1>5, <1>6 DEF IfDiffers, SlotRow
<1>8. target' = [target EXCEPT ![txn.slot] = [target[txn.slot] EXCEPT !.status = status]]
  BY <1>4, <1>6
<1>9. [target[txn.slot] EXCEPT !.status = status] \in SlotRow
  BY <1>3, <1>5, <1>7 DEF SlotRow
<1>10. target' \in [SlotTypes -> SlotRow] /\ \A t \in SlotTypes \ {txn.slot} : target'[t] = target[t]
  BY <1>3, <1>5, <1>8, <1>9
<1>11. /\ serpTxn' = [y \in SerpTxns |-> serpTxn'[y]] /\ UNCHANGED serpBegun
       /\ \A y \in SerpTxns : Current(y)'
  BY <1>4, <1>5, SerpEnds
<1>12. SerpShape'
  BY <1>4, <1>5, <1>10, <1>11 DEF SerpShape
<1>13. AchievedIsShown' /\ SerpGapsOnce' /\ OutOfWork
  BY <1>4, <1>5, <1>10 DEF AchievedIsShown, SerpGapsOnce, OutOfWork
<1> QED
  BY <1>11, <1>12, <1>13 DEF SlotIInv

(* What it adds was not open when it was read.                             *)
LEMMA OpportunitiesCommit ==
  ASSUME OneSerpTxn, SlotIInv, NEW x \in SerpTxns, CommitSerpOpportunities(x)
  PROVE  SlotIInv' /\ OutOfWork
<1>1. PICK txn : txn = serpTxn[x]
  OBVIOUS
<1>2. Generating(x) /\ txn.op = "generate"
  BY <1>1 DEF SlotIInv, Current, CommitSerpOpportunities, NoSerpTxn, Snapping, Patching
<1>3. \A type \in txn.types : open[<<type, txn.url>>] = 0
  BY <1>1, <1>2 DEF Generating
<1>4. /\ open' = [k \in Keys |-> open[k] + IF k[1] \in txn.types /\ k[2] = txn.url THEN 1 ELSE 0]
      /\ EndSerp(x) /\ UNCHANGED <<latest, target, search, saidStatus>>
  BY <1>1 DEF CommitSerpOpportunities
<1>5. SerpShape /\ SerpGapsOnce /\ AchievedIsShown
  BY DEF SlotIInv
<1>6. ASSUME NEW k \in Keys PROVE open'[k] \in Nat /\ open'[k] <= 1
  <2>1. open[k] \in Nat /\ open[k] <= 1
    BY <1>5 DEF SerpShape, SerpGapsOnce
  <2>2. k[1] \in txn.types /\ k[2] = txn.url => open[k] = 0
    <3>1. k = <<k[1], k[2]>>
      BY DEF Keys
    <3> QED
      BY <1>3, <3>1
  <2>3. open'[k] = open[k] + IF k[1] \in txn.types /\ k[2] = txn.url THEN 1 ELSE 0
    BY <1>4
  <2> QED
    BY <2>1, <2>2, <2>3
<1>7. open' \in [Keys -> Nat] /\ SerpGapsOnce'
  BY <1>4, <1>6 DEF SerpGapsOnce
<1>8. /\ serpTxn' = [y \in SerpTxns |-> serpTxn'[y]] /\ UNCHANGED serpBegun
      /\ \A y \in SerpTxns : Current(y)'
  BY <1>4, <1>5, SerpEnds
<1>9. SerpShape' /\ AchievedIsShown' /\ OutOfWork
  BY <1>4, <1>5, <1>7, <1>8 DEF SerpShape, AchievedIsShown, OutOfWork
<1> QED
  BY <1>7, <1>8, <1>9 DEF SlotIInv

(* The rest of the world moves: nothing a run believes in is touched.      *)
LEMMA SerpWorldMoves ==
  ASSUME OneSerpTxn, SlotIInv,
         \/ OpportunityCloses \/ SearchMoves \/ UNCHANGED serpVars
         \/ \E x \in SerpTxns : AbortSerp(x)
  PROVE  SlotIInv' /\ OutOfWork
<1>1. CASE UNCHANGED serpVars
  BY <1>1 DEF serpVars, SlotIInv, SerpShape, AchievedIsShown, SerpGapsOnce, OutOfWork, Current, Snapping,
     Patching, Generating
<1>2. ASSUME NEW x \in SerpTxns, AbortSerp(x) PROVE SlotIInv' /\ OutOfWork
  <2>1. /\ serpTxn' = [y \in SerpTxns |-> serpTxn'[y]] /\ UNCHANGED serpBegun
        /\ \A y \in SerpTxns : Current(y)'
    BY <1>2, SerpEnds DEF AbortSerp, SlotIInv
  <2>2. SerpShape' /\ AchievedIsShown' /\ SerpGapsOnce' /\ OutOfWork
    BY <1>2, <2>1 DEF AbortSerp, SlotIInv, SerpShape, AchievedIsShown, SerpGapsOnce, OutOfWork
  <2> QED
    BY <2>1, <2>2 DEF SlotIInv
<1>3. CASE SearchMoves
  <2>1. PICK url \in Urls : search'.url = url /\ UNCHANGED <<latest, target, open, saidStatus, serpTxn, serpBegun>>
    BY <1>3 DEF SearchMoves
  <2>2. SerpShape' /\ AchievedIsShown' /\ SerpGapsOnce' /\ OutOfWork
    BY <2>1 DEF SlotIInv, SerpShape, AchievedIsShown, SerpGapsOnce, OutOfWork
  <2>3. \A x \in SerpTxns : Current(x)'
    BY <2>1 DEF SlotIInv, Current, Snapping, Patching, Generating
  <2> QED
    BY <2>2, <2>3 DEF SlotIInv
<1>4. CASE OpportunityCloses
  <2>1. PICK k \in Keys : open[k] > 0 /\ open' = [open EXCEPT ![k] = @ - 1]
    BY <1>4 DEF OpportunityCloses
  <2>2. UNCHANGED <<latest, target, search, saidStatus, serpTxn, serpBegun>>
    BY <1>4 DEF OpportunityCloses
  <2>3. open' \in [Keys -> Nat] /\ \A j \in Keys : open'[j] <= open[j]
    BY <2>1 DEF SlotIInv, SerpShape
  <2>4. SerpShape' /\ AchievedIsShown' /\ OutOfWork
    BY <2>2, <2>3 DEF SlotIInv, SerpShape, AchievedIsShown, OutOfWork
  <2>5. SerpGapsOnce'
    <3> SUFFICES ASSUME NEW j \in Keys PROVE open'[j] <= 1
      BY DEF SerpGapsOnce
    <3>1. open[j] \in Nat /\ open'[j] \in Nat /\ open[j] <= 1
      BY <2>3 DEF SlotIInv, SerpShape, SerpGapsOnce
    <3> QED
      BY <2>3, <3>1
  <2>6. ASSUME NEW x \in SerpTxns PROVE Current(x)'
    <3>1. Snapping(x) => Snapping(x)'
      BY <2>2 DEF Snapping
    <3>2. Patching(x) => Patching(x)'
      BY <2>2 DEF Patching
    <3>3. Generating(x) => Generating(x)'
      <4> SUFFICES ASSUME Generating(x), NEW type \in serpTxn[x].types PROVE open'[<<type, serpTxn[x].url>>] = 0
        BY <2>2 DEF Generating
      <4>1. <<type, serpTxn[x].url>> \in Keys /\ open[<<type, serpTxn[x].url>>] = 0
        BY DEF Generating, Keys
      <4>2. open'[<<type, serpTxn[x].url>>] <= 0 /\ open'[<<type, serpTxn[x].url>>] \in Nat
        BY <2>3, <4>1
      <4> QED
        BY <4>2
    <3> QED
      BY <2>2, <3>1, <3>2, <3>3 DEF SlotIInv, Current
  <2> QED
    BY <2>4, <2>5, <2>6 DEF SlotIInv
<1> QED
  BY <1>1, <1>2, <1>3, <1>4

(* Whatever Google shows, however often and with whatever people say in    *)
(* between: an achieved slot is one the latest snapshot shows the site in, *)
(* a gap is open once, and what a person took out of the work stays out.   *)
THEOREM SlotsAreAlwaysKept == OneSerpTxn /\ SerpSpec => SlotsAreKept
<1> SUFFICES ASSUME OneSerpTxn PROVE SerpSpec => SlotsAreKept
  OBVIOUS
<1>1. ASSUME SlotIInv, [SerpNext]_serpVars
      PROVE  /\ SlotIInv'
             /\ [/\ AchievedIsShown' /\ SerpGapsOnce'
                 /\ \A t \in SlotTypes :
                      target[t].status \in Manual /\ target'[t].status # target[t].status
                        => t \in saidStatus']_serpVars
  <2>1. SlotIInv' /\ OutOfWork
    BY <1>1, SnapshotBegins, SnapshotCommits, RestBegins, SlotTargetCommits, OpportunitiesCommit,
       SerpWorldMoves DEF SerpNext
  <2> QED
    BY <2>1 DEF SlotIInv, OutOfWork
<1> QED
  BY <1>1, SlotInit, PTL DEF SerpSpec, SlotsAreKept

----------------------------------------------------------------------------
(* The strategy of a site: first what the rows and requests are, however   *)
(* requests overlap.                                                       *)
IntakeRow == [status : {"draft", "approved", "archived"}, current : BOOLEAN, content : Contents]

Applying(a) ==
    /\ {"op", "intake", "content", "archive", "add", "block", "off", "reject"} \subseteq DOMAIN a
    /\ a["intake"] \in DOMAIN intakes /\ a["content"] \in Contents

AsAsked(a) ==
    /\ a.op \in {"draft", "update"} => a.content \in Contents
    /\ a.op = "update" => a.intake \in DOMAIN intakes
    /\ a.op \in {"apply", "impact"} => Applying(a)
    /\ a.op \in {"addNode", "editNode", "deleteNode", "approveNode"} => a.keyword \in Keywords
    /\ a.op \in {"addNode", "editNode"} => a.fit \in Fits
    /\ a.op = "scan" => a.source \in {"gsc", "pyramid"} /\ a.opens \subseteq Keywords

StratTyped ==
    /\ StratTypeOK
    /\ stratTxn = [t \in StratTxns |-> stratTxn[t]]
    /\ \A t \in StratTxns : AsAsked(stratTxn[t])

LEMMA StratTypedInit == StratInit => StratTyped
<1> SUFFICES ASSUME StratInit PROVE StratTyped
  OBVIOUS
<1>1. intakes \in Seq(IntakeRow) /\ DOMAIN intakes = {}
  BY DEF StratInit
<1>2. stratBegun \in 0 .. MaxStratRequests
  BY StrategyAssumption DEF StratInit
<1>3. StratTypeOK
  BY <1>1, <1>2 DEF StratInit, StratTypeOK, IntakeRow, NoRow
<1>4. \A t \in StratTxns : stratTxn[t] = Ended
  BY DEF StratInit
<1>5. AsAsked(Ended)
  BY DEF AsAsked, Ended
<1> QED
  BY <1>3, <1>4, <1>5 DEF StratInit, StratTyped

LEMMA IntakeText ==
  ASSUME StratTyped, NEW i \in DOMAIN intakes
  PROVE  intakes[i] \in IntakeRow /\ intakes[i].content \in Contents
<1>1. intakes \in Seq(IntakeRow)
  BY DEF StratTyped, StratTypeOK, IntakeRow
<1>2. intakes[i] \in IntakeRow
  BY <1>1
<1> QED
  BY <1>2 DEF IntakeRow

(* A step that writes none of the rows, and those that end a request.      *)
LEMMA BeginStratTyped ==
  ASSUME StratTyped, NEW t \in StratTxns, NEW request, BeginStrat(t, request), AsAsked(request)
  PROVE  /\ StratTyped' /\ stratTxn'[t] = request
         /\ \A u \in StratTxns \ {t} : stratTxn'[u] = stratTxn[u]
<1>1. /\ UNCHANGED <<intakes, rules, node, stratOpps, commitments>>
      /\ stratTxn' = [stratTxn EXCEPT ![t] = request]
      /\ stratBegun < MaxStratRequests /\ stratBegun' = stratBegun + 1
      /\ stratBegun \in 0 .. MaxStratRequests
  BY DEF BeginStrat, StratTyped, StratTypeOK
<1>2. stratTxn = [u \in StratTxns |-> stratTxn[u]]
  BY DEF StratTyped
<1>3. /\ stratTxn' = [u \in StratTxns |-> stratTxn'[u]] /\ stratTxn'[t] = request
      /\ \A u \in StratTxns \ {t} : stratTxn'[u] = stratTxn[u]
  BY <1>1, <1>2
<1>4. stratBegun' \in 0 .. MaxStratRequests
  BY <1>1, StrategyAssumption
<1>5. StratTypeOK'
  BY <1>1, <1>4 DEF StratTyped, StratTypeOK
<1>6. \A u \in StratTxns : AsAsked(stratTxn[u])
  BY DEF StratTyped
<1>7. \A u \in StratTxns : AsAsked(stratTxn'[u])
  BY <1>3, <1>6
<1>8. \A u \in StratTxns : AsAsked(stratTxn[u])'
  BY <1>1, <1>7 DEF AsAsked, Applying
<1> QED
  BY <1>3, <1>5, <1>8 DEF StratTyped

(* Rows of intakes are not taken back.                                     *)
LEMMA EndStratTyped ==
  ASSUME StratTyped, NEW t \in StratTxns, End(t), DOMAIN intakes \subseteq DOMAIN intakes'
  PROVE  /\ stratTxn' = [u \in StratTxns |-> stratTxn'[u]] /\ stratTxn'[t] = Ended
         /\ \A u \in StratTxns \ {t} : stratTxn'[u] = stratTxn[u]
         /\ \A u \in StratTxns : AsAsked(stratTxn[u])'
         /\ UNCHANGED stratBegun
<1>1. stratTxn = [u \in StratTxns |-> stratTxn[u]] /\ stratTxn' = [stratTxn EXCEPT ![t] = Ended]
      /\ UNCHANGED stratBegun
  BY DEF StratTyped, End
<1>2. /\ stratTxn' = [u \in StratTxns |-> stratTxn'[u]] /\ stratTxn'[t] = Ended
      /\ \A u \in StratTxns \ {t} : stratTxn'[u] = stratTxn[u]
  BY <1>1
<1>3. AsAsked(stratTxn[t])'
  BY <1>2 DEF AsAsked, Ended
<1>4. ASSUME NEW u \in StratTxns \ {t} PROVE AsAsked(stratTxn[u])'
  <2>1. PICK a : a = stratTxn[u]
    OBVIOUS
  <2>2. AsAsked(a)
    BY <2>1 DEF StratTyped
  <2>3. AsAsked(a)'
    BY <2>2 DEF AsAsked, Applying
  <2> QED
    BY <1>2, <2>1, <2>3
<1> QED
  BY <1>1, <1>2, <1>3, <1>4

LEMMA IntakesBegin ==
  ASSUME StratTyped, NEW t \in StratTxns,
         BeginCreateIntake(t) \/ BeginForkIntake(t) \/ BeginUpdateIntake(t)
  PROVE  \E request : BeginStrat(t, request) /\ AsAsked(request) /\ request.op \in {"draft", "update"}
             /\ (request.op = "update" => request.intake \in Drafts)
<1>1. \A i \in DOMAIN intakes : intakes[i].content \in Contents
  BY IntakeText
<1>2. \A c \in Contents : AsAsked([op |-> "draft", content |-> c])
  BY DEF AsAsked
<1>3. \A i \in Drafts, c \in Contents : AsAsked([op |-> "update", intake |-> i, content |-> c])
  BY DEF AsAsked, Drafts
<1>4. CASE BeginCreateIntake(t)
  BY <1>2, <1>4 DEF BeginCreateIntake
<1>5. CASE BeginForkIntake(t)
  BY <1>1, <1>2, <1>5 DEF BeginForkIntake
<1>6. CASE BeginUpdateIntake(t)
  BY <1>3, <1>6 DEF BeginUpdateIntake
<1> QED
  BY <1>4, <1>5, <1>6

(* An approval or a reapplication reads an intake's text, and the nodes.   *)
Reading(a, i, archive) ==
    /\ a.op = "apply" /\ a.intake = i /\ a.archive = archive /\ a.content = intakes[i].content

LEMMA ApplyBegins ==
  ASSUME StratTyped, NEW t \in StratTxns, NEW i \in DOMAIN intakes, NEW archive, Apply(t, i, archive)
  PROVE  \E a : BeginStrat(t, a) /\ AsAsked(a) /\ Reading(a, i, archive)
<1> DEFINE c == intakes[i].content
           a == [op |-> "apply", intake |-> i, content |-> c, archive |-> archive,
                 add   |-> {k \in c.proposes : node[k] = NoRow},
                 block |-> {k \in c.forbids : node[k].fit \in {"needs_review", "in_scope"}},
                 off |-> {}, reject |-> {}]
<1>1. BeginStrat(t, a)
  BY DEF Apply
<1>2. intakes[i].content \in Contents
  BY IntakeText
<1>3. AsAsked(a)
  BY <1>2 DEF AsAsked, Applying
<1>4. Reading(a, i, archive)
  BY DEF Reading
<1> QED
  BY <1>1, <1>3, <1>4

LEMMA NodesBegin ==
  ASSUME StratTyped, NEW t \in StratTxns, BeginNode(t) \/ BeginApproveNode(t)
  PROVE  \E request : /\ BeginStrat(t, request) /\ AsAsked(request)
                      /\ request.op \in {"addNode", "editNode", "deleteNode", "approveNode"}
                      /\ request.op = "approveNode" =>
                           (request.widen => node[request.keyword].fit \in {"needs_review", "out_of_scope"})
<1>1. CASE BeginApproveNode(t)
  <2>1. PICK k \in Keywords :
          BeginStrat(t, [op |-> "approveNode", keyword |-> k,
                         widen |-> node[k].fit \in {"needs_review", "out_of_scope"}])
    BY <1>1 DEF BeginApproveNode
  <2> DEFINE a == [op |-> "approveNode", keyword |-> k, widen |-> node[k].fit \in {"needs_review", "out_of_scope"}]
  <2>2. AsAsked(a) /\ a.op = "approveNode" /\ (a.widen => node[a.keyword].fit \in {"needs_review", "out_of_scope"})
    BY DEF AsAsked
  <2> QED
    BY <2>1, <2>2
<1>2. ASSUME NEW k \in Keywords, NEW f \in Fits, NEW op \in {"addNode", "editNode"},
             BeginStrat(t, [op |-> op, keyword |-> k, fit |-> f])
      PROVE  \E request : /\ BeginStrat(t, request) /\ AsAsked(request) /\ request.op \in {"addNode", "editNode"}
  <2>1. AsAsked([op |-> op, keyword |-> k, fit |-> f])
    BY DEF AsAsked
  <2> QED
    BY <1>2, <2>1
<1>3. ASSUME NEW k \in Keywords, BeginStrat(t, [op |-> "deleteNode", keyword |-> k])
      PROVE  \E request : /\ BeginStrat(t, request) /\ AsAsked(request) /\ request.op = "deleteNode"
  <2>1. AsAsked([op |-> "deleteNode", keyword |-> k])
    BY DEF AsAsked
  <2> QED
    BY <1>3, <2>1
<1>4. CASE BeginNode(t)
  <2>1. PICK k \in Keywords :
          \/ \E f \in Fits : BeginStrat(t, [op |-> "addNode", keyword |-> k, fit |-> f])
          \/ \E f \in Fits : BeginStrat(t, [op |-> "editNode", keyword |-> k, fit |-> f])
          \/ BeginStrat(t, [op |-> "deleteNode", keyword |-> k])
    BY <1>4 DEF BeginNode, AddedFits
  <2>2. \E request : /\ BeginStrat(t, request) /\ AsAsked(request)
                     /\ request.op \in {"addNode", "editNode", "deleteNode"}
    BY <1>2, <1>3, <2>1
  <2> QED
    BY <2>2
<1> QED
  BY <1>1, <1>4

(* A scan of Search Console opens nothing that is ruled out.               *)
LEMMA ScanBegins ==
  ASSUME StratTyped, NEW t \in StratTxns, BeginScan(t) \/ BeginCommitment(t)
  PROVE  \E request : /\ BeginStrat(t, request) /\ AsAsked(request) /\ request.op \in {"scan", "commitment"}
                      /\ request.op = "scan" /\ request.source = "gsc" => \A k \in request.opens : ~Ruled(k)
<1>1. CASE BeginCommitment(t)
  <2> DEFINE a == [op |-> "commitment", archive |-> commitments, nr |-> stratBegun]
  <2>1. BeginStrat(t, a) /\ a.op = "commitment"
    BY <1>1 DEF BeginCommitment
  <2>2. AsAsked(a)
    BY DEF AsAsked
  <2> HIDE DEF a
  <2> QED
    BY <2>1, <2>2
<1>2. ASSUME NEW found \in SUBSET Keywords,
             BeginStrat(t, [op |-> "scan", source |-> "gsc",
                            opens |-> {k \in found : ~FitBlocks(node[k], Ruled(k))}])
      PROVE  \E request : /\ BeginStrat(t, request) /\ AsAsked(request) /\ request.op = "scan"
                          /\ \A k \in request.opens : ~Ruled(k)
  <2> DEFINE a == [op |-> "scan", source |-> "gsc", opens |-> {k \in found : ~FitBlocks(node[k], Ruled(k))}]
  <2>1. AsAsked(a) /\ a.op = "scan"
    BY DEF AsAsked
  <2>2. \A k \in a.opens : ~Ruled(k)
    BY DEF FitBlocks
  <2> QED
    BY <1>2, <2>1, <2>2
<1>3. CASE BeginStrat(t, [op |-> "scan", source |-> "pyramid",
                          opens |-> {k \in Keywords : node[k] = [fit |-> "in_scope", approved |-> TRUE]}])
  <2> DEFINE a == [op |-> "scan", source |-> "pyramid",
                   opens |-> {k \in Keywords : node[k] = [fit |-> "in_scope", approved |-> TRUE]}]
  <2>1. AsAsked(a) /\ a.op = "scan" /\ a.source = "pyramid"
    BY DEF AsAsked
  <2> QED
    BY <1>3, <2>1
<1> QED
  BY <1>1, <1>2, <1>3 DEF BeginScan

(* Intakes are added, edited in place, and change their status together.   *)
IntakesOK ==
    /\ intakes \in Seq(IntakeRow)
    /\ \A i \in DOMAIN intakes : intakes[i].current <=> intakes[i].status = "approved"

LEMMA TypesApart ==
  StratTypeOK <=>
    /\ IntakesOK
    /\ rules \subseteq (DOMAIN intakes) \X Keywords
    /\ node \in [Keywords -> NodeRows \cup {NoRow}]
    /\ stratOpps \subseteq [keyword : Keywords, source : {"gsc", "pyramid"}]
    /\ stratBegun \in 0 .. MaxStratRequests
BY DEF StratTypeOK, IntakesOK, IntakeRow

LEMMA DraftCommits ==
  ASSUME StratTyped, NEW t \in StratTxns, CommitDraft(t)
  PROVE  /\ StratTyped'
         /\ \E row : row.status = "draft" /\ intakes' = Append(intakes, row)
<1> DEFINE row == NewIntake(stratTxn[t].content)
<1>1. row \in IntakeRow /\ row.status = "draft" /\ ~row.current
  <2>1. stratTxn[t].content \in Contents
    BY DEF StratTyped, AsAsked, CommitDraft
  <2> QED
    BY <2>1 DEF NewIntake, IntakeRow
<1>2. intakes' = Append(intakes, row) /\ End(t) /\ UNCHANGED <<rules, node, stratOpps, commitments>>
  BY DEF CommitDraft
<1> HIDE DEF row
<1>3. IntakesOK
  BY TypesApart DEF StratTyped
<1>4. /\ intakes' \in Seq(IntakeRow) /\ DOMAIN intakes \subseteq DOMAIN intakes'
      /\ \A i \in DOMAIN intakes' : intakes'[i] = row \/ (i \in DOMAIN intakes /\ intakes'[i] = intakes[i])
  BY <1>1, <1>2, <1>3 DEF IntakesOK
<1>5. IntakesOK'
  BY <1>1, <1>3, <1>4 DEF IntakesOK
<1>6. StratTypeOK
  BY DEF StratTyped
<1>7. StratTypeOK'
  <2>1. /\ rules' \subseteq (DOMAIN intakes') \X Keywords /\ stratBegun' \in 0 .. MaxStratRequests
        /\ node' \in [Keywords -> NodeRows \cup {NoRow}]
        /\ stratOpps' \subseteq [keyword : Keywords, source : {"gsc", "pyramid"}]
    BY <1>2, <1>4, <1>6 DEF StratTypeOK, End
  <2> QED
    BY <1>5, <2>1 DEF StratTypeOK, IntakesOK, IntakeRow
<1> QED
  BY <1>1, <1>2, <1>4, <1>7, EndStratTyped DEF StratTyped

LEMMA UpdateIntakeCommits ==
  ASSUME StratTyped, NEW t \in StratTxns, CommitUpdateIntake(t)
  PROVE  /\ StratTyped' /\ stratTxn[t].intake \in DOMAIN intakes
         /\ DOMAIN intakes' = DOMAIN intakes
         /\ \A i \in DOMAIN intakes :
              /\ intakes'[i].status = intakes[i].status /\ intakes'[i].current = intakes[i].current
              /\ i # stratTxn[t].intake => intakes'[i] = intakes[i]
<1> DEFINE n == stratTxn[t].intake
           row == [intakes[n] EXCEPT !.content = stratTxn[t].content]
<1>1. n \in DOMAIN intakes /\ stratTxn[t].content \in Contents
  BY DEF StratTyped, AsAsked, CommitUpdateIntake
<1>2. row \in IntakeRow /\ row.status = intakes[n].status /\ row.current = intakes[n].current
  BY <1>1, IntakeText DEF IntakeRow
<1>3. intakes' = [intakes EXCEPT ![n] = row] /\ End(t) /\ UNCHANGED <<rules, node, stratOpps, commitments>>
  BY DEF CommitUpdateIntake
<1> HIDE DEF row, n
<1>4. IntakesOK
  BY TypesApart DEF StratTyped
<1>5. /\ intakes' \in Seq(IntakeRow) /\ DOMAIN intakes' = DOMAIN intakes
      /\ intakes'[n] = row /\ \A i \in DOMAIN intakes \ {n} : intakes'[i] = intakes[i]
  BY <1>1, <1>2, <1>3, <1>4 DEF IntakesOK
<1>6. IntakesOK'
  BY <1>2, <1>4, <1>5 DEF IntakesOK
<1>7. StratTypeOK
  BY DEF StratTyped
<1>8. StratTypeOK'
  <2>1. /\ rules' \subseteq (DOMAIN intakes') \X Keywords /\ stratBegun' \in 0 .. MaxStratRequests
        /\ node' \in [Keywords -> NodeRows \cup {NoRow}]
        /\ stratOpps' \subseteq [keyword : Keywords, source : {"gsc", "pyramid"}]
    BY <1>3, <1>5, <1>7 DEF StratTypeOK, End
  <2> QED
    BY <1>6, <2>1 DEF StratTypeOK, IntakesOK, IntakeRow
<1>9. StratTyped'
  BY <1>3, <1>5, <1>8, EndStratTyped DEF StratTyped
<1> QED
  BY <1>1, <1>2, <1>5, <1>9 DEF n

(* The second read of an approval or a reapplication.                      *)
LEMMA ImpactReads ==
  ASSUME StratTyped, NEW t \in StratTxns, Impact(t)
  PROVE  LET a == stratTxn[t]
             b == stratTxn'[t]
         IN  /\ StratTyped' /\ UNCHANGED <<intakes, rules, node, stratOpps, commitments>>
             /\ \A u \in StratTxns \ {t} : stratTxn'[u] = stratTxn[u]
             /\ a.op = "apply" /\ b.op = "impact"
             /\ b.intake = a.intake /\ b.content = a.content /\ b.archive = a.archive /\ b.block = a.block
             /\ b.add = a.add /\ b.off = rules
             /\ b.reject = {o \in stratOpps : FitBlocks(node[o.keyword], o.keyword \in a.content.forbids)}
<1>1. PICK a : a = stratTxn[t]
  OBVIOUS
<1>2. PICK off, reject : /\ off = rules
                         /\ reject = {o \in stratOpps : FitBlocks(node[o.keyword], o.keyword \in a.content.forbids)}
  OBVIOUS
<1> DEFINE b == [a EXCEPT !.op = "impact", !.off = off, !.reject = reject]
<1>3. a.op = "apply" /\ Applying(a)
  BY <1>1 DEF StratTyped, AsAsked, Impact
<1>4. /\ b.op = "impact" /\ b.intake = a.intake /\ b.content = a.content /\ b.archive = a.archive
      /\ b.block = a.block /\ b.add = a.add /\ b.off = off /\ b.reject = reject /\ DOMAIN b = DOMAIN a
  BY <1>3 DEF Applying
<1>5. AsAsked(b)
  BY <1>3, <1>4 DEF AsAsked, Applying
<1>6. stratTxn' = [stratTxn EXCEPT ![t] = b] /\ UNCHANGED <<intakes, rules, node, stratOpps, commitments, stratBegun>>
  BY <1>1, <1>2 DEF Impact
<1> HIDE DEF b
<1>7. /\ stratTxn' = [u \in StratTxns |-> stratTxn'[u]] /\ stratTxn'[t] = b
      /\ \A u \in StratTxns \ {t} : stratTxn'[u] = stratTxn[u]
  <2>1. stratTxn = [u \in StratTxns |-> stratTxn[u]]
    BY DEF StratTyped
  <2> QED
    BY <1>6, <2>1
<1>8. StratTypeOK'
  BY <1>6 DEF StratTyped, StratTypeOK
<1>9. \A u \in StratTxns : AsAsked(stratTxn[u])'
  <2>1. \A u \in StratTxns : AsAsked(stratTxn'[u])
    BY <1>5, <1>7 DEF StratTyped
  <2> QED
    BY <1>6, <2>1 DEF AsAsked, Applying
<1>10. StratTyped'
  BY <1>7, <1>8, <1>9 DEF StratTyped
<1> QED
  BY <1>1, <1>2, <1>3, <1>4, <1>6, <1>7, <1>10

(* The writes of an approval or a reapplication: what they make of intakes *)
(* and nodes.                                                              *)
LEMMA ImpactCommits ==
  ASSUME StratTyped, NEW t \in StratTxns, CommitImpact(t)
  PROVE  LET a == stratTxn[t]
         IN  /\ StratTyped' /\ Applying(a)
             /\ DOMAIN intakes' = DOMAIN intakes
             /\ \A i \in DOMAIN intakes : intakes'[i].content = intakes[i].content
             /\ intakes'[a.intake].status = "approved" /\ intakes'[a.intake].current
             /\ \A i \in DOMAIN intakes \ {a.intake} :
                  IF i \in a.archive THEN intakes'[i].status = "archived"
                                     ELSE intakes'[i] = intakes[i]
             /\ \A k \in Keywords : node[k].fit = "blocked" => node'[k].fit = "blocked"
<1>1. PICK a : a = stratTxn[t]
  OBVIOUS
<1>2. a.op = "impact" /\ Applying(a)
  BY <1>1 DEF StratTyped, AsAsked, CommitImpact
<1>3. /\ \A k \in a.block : node[k] # NoRow
      /\ intakes' = [i \in DOMAIN intakes |->
           IF i \in a.archive \ {a.intake} THEN [intakes[i] EXCEPT !.status = "archived", !.current = FALSE]
           ELSE IF i = a.intake THEN [intakes[i] EXCEPT !.status = "approved", !.current = TRUE]
           ELSE intakes[i]]
      /\ rules' = (rules \ a.off) \cup ({a.intake} \X a.content.forbids)
      /\ node' = [k \in Keywords |->
           IF k \in a.block THEN [node[k] EXCEPT !.fit = "blocked"]
           ELSE IF k \in a.add /\ node[k] = NoRow THEN [fit |-> "needs_review", approved |-> FALSE]
           ELSE node[k]]
      /\ stratOpps' = stratOpps \ a.reject /\ End(t)
  BY <1>1 DEF CommitImpact
<1>4. a.intake \in DOMAIN intakes /\ a.content \in Contents
  BY <1>2 DEF Applying
<1>5. IntakesOK
  BY TypesApart DEF StratTyped
<1>6. ASSUME NEW i \in DOMAIN intakes
      PROVE  /\ intakes'[i] \in IntakeRow /\ intakes'[i].content = intakes[i].content
             /\ intakes'[i].current <=> intakes'[i].status = "approved"
             /\ i = a.intake => intakes'[i].status = "approved" /\ intakes'[i].current
             /\ i # a.intake => IF i \in a.archive THEN intakes'[i].status = "archived"
                                                   ELSE intakes'[i] = intakes[i]
  <2>1. intakes[i] \in IntakeRow /\ (intakes[i].current <=> intakes[i].status = "approved")
    BY <1>5, IntakeText DEF IntakesOK
  <2>2. PICK r : r = intakes[i]
    OBVIOUS
  <2>3. CASE i \in a.archive \ {a.intake}
    <3>1. intakes'[i] = [r EXCEPT !.status = "archived", !.current = FALSE]
      BY <1>3, <2>2, <2>3
    <3>2. [r EXCEPT !.status = "archived", !.current = FALSE] \in IntakeRow
      BY <2>1, <2>2 DEF IntakeRow
    <3>3. intakes'[i].status = "archived" /\ intakes'[i].current = FALSE /\ intakes'[i].content = r.content
      BY <2>1, <2>2, <3>1 DEF IntakeRow
    <3> QED
      BY <2>2, <2>3, <3>1, <3>2, <3>3
  <2>4. CASE i = a.intake
    <3>1. intakes'[i] = [r EXCEPT !.status = "approved", !.current = TRUE]
      BY <1>3, <2>2, <2>4
    <3> QED
      BY <2>1, <2>2, <2>4, <3>1 DEF IntakeRow
  <2>5. CASE i \notin a.archive /\ i # a.intake
    <3>1. intakes'[i] = intakes[i]
      BY <1>3, <2>5
    <3> QED
      BY <2>1, <2>5, <3>1 DEF IntakeRow
  <2> QED
    BY <2>3, <2>4, <2>5
<1>7. IntakesOK' /\ DOMAIN intakes' = DOMAIN intakes
  <2>1. DOMAIN intakes' = DOMAIN intakes
    BY <1>3
  <2>2. PICK n \in Nat : DOMAIN intakes = 1 .. n
    <3>1. DOMAIN intakes = 1 .. Len(intakes) /\ Len(intakes) \in Nat
      BY <1>5 DEF IntakesOK
    <3> QED
      BY <3>1
  <2>3. intakes' = [i \in 1 .. n |-> intakes'[i]]
    BY <1>3, <2>2
  <2>4. intakes' \in [1 .. n -> IntakeRow]
    BY <1>6, <2>2, <2>3
  <2>5. intakes' \in Seq(IntakeRow)
    BY <2>4
  <2> QED
    BY <1>6, <2>1, <2>5 DEF IntakesOK
<1>8. /\ node \in [Keywords -> NodeRows \cup {NoRow}]
      /\ rules \subseteq (DOMAIN intakes) \X Keywords
      /\ stratOpps \subseteq [keyword : Keywords, source : {"gsc", "pyramid"}]
      /\ stratBegun \in 0 .. MaxStratRequests
  BY DEF StratTyped, StratTypeOK
<1>9. ASSUME NEW k \in Keywords
      PROVE  node'[k] \in NodeRows \cup {NoRow} /\ (node[k].fit = "blocked" => node'[k].fit = "blocked")
  <2>1. PICK r : r = node[k]
    OBVIOUS
  <2>2. r \in NodeRows \cup {NoRow}
    BY <1>8, <2>1
  <2>3. CASE k \in a.block
    <3>1. r \in NodeRows /\ node'[k] = [r EXCEPT !.fit = "blocked"]
      BY <1>3, <2>1, <2>2, <2>3
    <3> QED
      BY <3>1 DEF NodeRows, Fits
  <2>4. CASE k \notin a.block
    <3>1. \/ node'[k] = r
          \/ node'[k] = [fit |-> "needs_review", approved |-> FALSE] /\ r = NoRow
      BY <1>3, <2>1, <2>4
    <3>2. NoRow.fit # "blocked" /\ [fit |-> "needs_review", approved |-> FALSE] \in NodeRows
      BY DEF NodeRows, Fits, NoRow
    <3> QED
      BY <2>1, <2>2, <3>1, <3>2
  <2> QED
    BY <2>3, <2>4
<1>10. node' \in [Keywords -> NodeRows \cup {NoRow}]
  <2>1. node' = [k \in Keywords |-> node'[k]]
    BY <1>3
  <2> QED
    BY <1>9, <2>1
<1>11. rules' \subseteq (DOMAIN intakes') \X Keywords
  <2>1. a.content.forbids \subseteq Keywords
    BY <1>4 DEF Contents
  <2> QED
    BY <1>3, <1>4, <1>7, <1>8, <2>1
<1>12. StratTypeOK'
  <2>1. /\ stratBegun' \in 0 .. MaxStratRequests
        /\ stratOpps' \subseteq [keyword : Keywords, source : {"gsc", "pyramid"}]
    BY <1>3, <1>8 DEF End
  <2> QED
    BY <1>7, <1>10, <1>11, <2>1 DEF StratTypeOK, IntakesOK, IntakeRow
<1>13. StratTyped'
  BY <1>3, <1>7, <1>12, EndStratTyped DEF StratTyped
<1> QED
  BY <1>1, <1>2, <1>4, <1>6, <1>7, <1>9, <1>13

(* A row of the pyramid is added, edited, approved or deleted.             *)
Row(n, row) ==
    CASE n.op = "addNode"     -> [fit |-> n.fit, approved |-> FALSE]
      [] n.op = "editNode"    -> [row EXCEPT !.fit = n.fit]
      [] n.op = "deleteNode"  -> NoRow
      [] n.op = "approveNode" -> [fit |-> IF n.widen THEN "in_scope" ELSE row.fit, approved |-> TRUE]

LEMMA RowByOp ==
  ASSUME NEW n, NEW row, n.op \in {"addNode", "editNode", "deleteNode", "approveNode"}
  PROVE  \/ n.op = "addNode" /\ Row(n, row) = [fit |-> n.fit, approved |-> FALSE]
         \/ n.op = "editNode" /\ Row(n, row) = [row EXCEPT !.fit = n.fit]
         \/ n.op = "deleteNode" /\ Row(n, row) = NoRow
         \/ n.op = "approveNode" /\ Row(n, row) = [fit |-> IF n.widen THEN "in_scope" ELSE row.fit, approved |-> TRUE]
<1>1. /\ "addNode" # "editNode" /\ "addNode" # "deleteNode" /\ "addNode" # "approveNode"
      /\ "editNode" # "deleteNode" /\ "editNode" # "approveNode" /\ "deleteNode" # "approveNode"
  OBVIOUS
<1>2. CASE n.op = "addNode"
  BY <1>1, <1>2, Zenon DEF Row
<1>3. CASE n.op = "editNode"
  BY <1>1, <1>3, Zenon DEF Row
<1>4. CASE n.op = "deleteNode"
  BY <1>1, <1>4, Zenon DEF Row
<1>5. CASE n.op = "approveNode"
  BY <1>1, <1>5, Zenon DEF Row
<1> QED
  BY <1>2, <1>3, <1>4, <1>5

LEMMA NodeCommits ==
  ASSUME StratTyped, NEW t \in StratTxns, CommitNode(t)
  PROVE  /\ StratTyped' /\ UNCHANGED <<intakes, rules, stratOpps>> /\ stratTxn'[t] = Ended
         /\ \A k \in Keywords : node[k].fit = "blocked" =>
              \/ node'[k].fit = "blocked"
              \/ stratTxn[t].op \in {"editNode", "deleteNode"} /\ stratTxn[t].keyword = k
              \/ stratTxn[t].op = "approveNode" /\ stratTxn[t].widen /\ stratTxn[t].keyword = k
<1>1. PICK n : n = stratTxn[t]
  OBVIOUS
<1>2. n.op \in {"addNode", "editNode", "deleteNode", "approveNode"} /\ AsAsked(n)
  BY <1>1 DEF StratTyped, CommitNode
<1>3. n.keyword \in Keywords /\ (n.op \in {"addNode", "editNode"} => n.fit \in Fits)
  BY <1>2 DEF AsAsked
<1>4. /\ n.op = "addNode" <=> node[n.keyword] = NoRow
      /\ node' = [node EXCEPT ![n.keyword] = Row(n, @)]
      /\ End(t) /\ UNCHANGED <<intakes, rules, stratOpps, commitments>>
  BY <1>1, Zenon DEF CommitNode, Row
<1>5. node \in [Keywords -> NodeRows \cup {NoRow}] /\ StratTypeOK
  BY DEF StratTyped, StratTypeOK
<1>6. PICK old : old = node[n.keyword]
  OBVIOUS
<1>7. old \in NodeRows \cup {NoRow} /\ (n.op # "addNode" => old \in NodeRows)
  BY <1>3, <1>4, <1>5, <1>6
<1>8. PICK new : new = Row(n, old)
  OBVIOUS
<1>9. /\ new \in NodeRows \cup {NoRow}
      /\ old.fit = "blocked" =>
           \/ new.fit = "blocked"
           \/ n.op \in {"editNode", "deleteNode"}
           \/ n.op = "approveNode" /\ n.widen
  <2>1. CASE n.op = "addNode" /\ new = [fit |-> n.fit, approved |-> FALSE]
    <3>1. old = NoRow
      BY <1>4, <1>6, <2>1
    <3> QED
      BY <1>3, <2>1, <3>1 DEF NodeRows, NoRow
  <2>2. CASE n.op = "editNode" /\ new = [old EXCEPT !.fit = n.fit]
    BY <1>3, <1>7, <2>2 DEF NodeRows
  <2>3. CASE n.op = "deleteNode" /\ new = NoRow
    BY <2>3
  <2>4. CASE n.op = "approveNode" /\ new = [fit |-> IF n.widen THEN "in_scope" ELSE old.fit, approved |-> TRUE]
    <3>1. CASE n.widen
      BY <2>4, <3>1 DEF NodeRows, Fits
    <3>2. CASE ~n.widen
      BY <1>7, <2>4, <3>2 DEF NodeRows
    <3> QED
      BY <3>1, <3>2
  <2> QED
    BY <1>2, <1>8, <2>1, <2>2, <2>3, <2>4, RowByOp
<1>10. node' = [node EXCEPT ![n.keyword] = new]
  BY <1>4, <1>6, <1>8
<1>11. node' \in [Keywords -> NodeRows \cup {NoRow}]
  BY <1>5, <1>9, <1>10
<1>12. StratTypeOK'
  BY <1>4, <1>5, <1>11 DEF StratTypeOK, End
<1>13. StratTyped' /\ stratTxn'[t] = Ended
  BY <1>4, <1>12, EndStratTyped DEF StratTyped
<1>14. ASSUME NEW k \in Keywords, node[k].fit = "blocked"
       PROVE  \/ node'[k].fit = "blocked"
              \/ n.op \in {"editNode", "deleteNode"} /\ n.keyword = k
              \/ n.op = "approveNode" /\ n.widen /\ n.keyword = k
  <2>1. CASE k = n.keyword
    <3>1. node'[k] = new /\ old.fit = "blocked"
      BY <1>5, <1>6, <1>10, <1>14, <2>1
    <3> QED
      BY <1>9, <2>1, <3>1
  <2>2. CASE k # n.keyword
    BY <1>5, <1>10, <1>14, <2>2
  <2> QED
    BY <2>1, <2>2
<1> QED
  BY <1>1, <1>4, <1>13, <1>14

(* A scan opens what it found; what is left are steps without rows here.   *)
LEMMA ScanCommits ==
  ASSUME StratTyped, NEW t \in StratTxns, CommitStratScan(t)
  PROVE  /\ StratTyped' /\ UNCHANGED <<intakes, rules, node>> /\ stratTxn'[t] = Ended
         /\ stratTxn[t].op = "scan"
         /\ \A o \in stratOpps' :
              o \in stratOpps \/ (o.source = stratTxn[t].source /\ o.keyword \in stratTxn[t].opens)
<1>1. PICK a : a = stratTxn[t]
  OBVIOUS
<1>2. a.op = "scan" /\ a.source \in {"gsc", "pyramid"} /\ a.opens \subseteq Keywords
  BY <1>1 DEF StratTyped, AsAsked, CommitStratScan
<1>3. /\ stratOpps' = stratOpps \cup [keyword : a.opens, source : {a.source}]
      /\ End(t) /\ UNCHANGED <<intakes, rules, node, commitments>>
  BY <1>1 DEF CommitStratScan
<1>4. [keyword : a.opens, source : {a.source}] \subseteq [keyword : Keywords, source : {"gsc", "pyramid"}]
  BY <1>2
<1>5. StratTypeOK'
  BY <1>3, <1>4 DEF StratTyped, StratTypeOK, End
<1>6. StratTyped' /\ stratTxn'[t] = Ended
  BY <1>3, <1>5, EndStratTyped DEF StratTyped
<1>7. \A o \in stratOpps' : o \in stratOpps \/ (o.source = a.source /\ o.keyword \in a.opens)
  BY <1>3
<1> QED
  BY <1>1, <1>2, <1>3, <1>6, <1>7

LEMMA OthersCommit ==
  ASSUME StratTyped, NEW t \in StratTxns, CommitCommitment(t) \/ AbortStrat(t)
  PROVE  StratTyped' /\ UNCHANGED <<intakes, rules, node, stratOpps>> /\ stratTxn'[t] = Ended
<1>1. End(t) /\ UNCHANGED <<intakes, rules, node, stratOpps>>
  BY DEF CommitCommitment, AbortStrat
<1>2. StratTypeOK'
  BY <1>1 DEF StratTyped, StratTypeOK, End
<1> QED
  BY <1>1, <1>2, EndStratTyped DEF StratTyped

LEMMA NothingWritten ==
  ASSUME StratTyped, UNCHANGED <<intakes, rules, node, stratOpps, stratTxn, stratBegun>>
  PROVE  StratTyped'
<1>1. StratTypeOK'
  BY DEF StratTyped, StratTypeOK
<1>2. \A u \in StratTxns : AsAsked(stratTxn[u])'
  BY DEF StratTyped, AsAsked, Applying
<1> QED
  BY <1>1, <1>2 DEF StratTyped

LEMMA StratTypedStep == StratTyped /\ [StratNext]_stratVars => StratTyped'
<1> SUFFICES ASSUME StratTyped, [StratNext]_stratVars PROVE StratTyped'
  OBVIOUS
<1>1. CASE UNCHANGED stratVars \/ Deactivate
  BY <1>1, NothingWritten DEF stratVars, Deactivate
<1>2. ASSUME NEW t \in StratTxns,
             BeginCreateIntake(t) \/ BeginForkIntake(t) \/ BeginUpdateIntake(t)
      PROVE  StratTyped'
  BY <1>2, IntakesBegin, BeginStratTyped
<1>3. ASSUME NEW t \in StratTxns, BeginApproveIntake(t) \/ BeginReapplyIntake(t)
      PROVE  StratTyped'
  BY <1>3, ApplyBegins, BeginStratTyped DEF BeginApproveIntake, BeginReapplyIntake, Drafts, Currents
<1>4. ASSUME NEW t \in StratTxns, BeginNode(t) \/ BeginApproveNode(t) PROVE StratTyped'
  BY <1>4, NodesBegin, BeginStratTyped
<1>5. ASSUME NEW t \in StratTxns, BeginScan(t) \/ BeginCommitment(t) PROVE StratTyped'
  BY <1>5, ScanBegins, BeginStratTyped
<1>6. ASSUME NEW t \in StratTxns,
             \/ CommitDraft(t) \/ CommitUpdateIntake(t) \/ Impact(t) \/ CommitImpact(t)
             \/ CommitNode(t) \/ CommitStratScan(t) \/ CommitCommitment(t) \/ AbortStrat(t)
      PROVE  StratTyped'
  BY <1>6, DraftCommits, UpdateIntakeCommits, ImpactReads, ImpactCommits, NodeCommits, ScanCommits, OthersCommit
<1> QED
  BY <1>1, <1>2, <1>3, <1>4, <1>5, <1>6 DEF StratNext

(* Requests one after the other. What an open one has read is still so:    *)
(* the intake to be edited is a draft; the one to be applied has the text  *)
(* that was read, and the others that are current will be archived; rules  *)
(* and opportunities are those of the second read; and no rule forbids     *)
(* what a Search Console scan has found.                                   *)
OneStratTxn == \A t, u \in StratTxns : t = u

StillRead(a) ==
    /\ a.op = "update" => a.intake \in Drafts
    /\ a.op \in {"apply", "impact"} =>
         a.content = intakes[a.intake].content /\ Currents \ {a.intake} \subseteq a.archive
    /\ a.op = "impact" =>
         /\ a.off = rules
         /\ \A o \in stratOpps : o.keyword \in a.content.forbids => o \in a.reject
    /\ a.op = "scan" => (a.source = "gsc" => \A k \in a.opens : ~Ruled(k))
    /\ a.op = "approveNode" => (a.widen => node[a.keyword].fit \in {"needs_review", "out_of_scope"})

StratIInv ==
    /\ StratTyped /\ RulesFollowIntake /\ NoOpenForbiddenQuery
    /\ \A t \in StratTxns : StillRead(stratTxn[t])

BlockedStay ==
    \A k \in Keywords : node[k].fit = "blocked" =>
        \/ node'[k].fit = "blocked"
        \/ \E t \in StratTxns :
             stratTxn[t].op \in {"editNode", "deleteNode"} /\ stratTxn[t].keyword = k

LEMMA StratIInvInit == StratInit => StratIInv
<1> SUFFICES ASSUME StratInit PROVE StratIInv
  OBVIOUS
<1>1. RulesFollowIntake /\ NoOpenForbiddenQuery
  BY DEF StratInit, RulesFollowIntake, NoOpenForbiddenQuery, Currents
<1>2. StillRead(Ended)
  BY DEF StillRead, Ended
<1>3. \A t \in StratTxns : stratTxn[t] = Ended
  BY DEF StratInit
<1> QED
  BY <1>1, <1>2, <1>3, StratTypedInit DEF StratIInv

(* The rules and opportunities go with the rows of the intakes.            *)
LEMMA NothingRuled ==
  ASSUME StratIInv, UNCHANGED <<intakes, rules, stratOpps>>
  PROVE  RulesFollowIntake' /\ NoOpenForbiddenQuery'
BY DEF StratIInv, RulesFollowIntake, NoOpenForbiddenQuery, Currents, Ruled

LEMMA BeginKeeps ==
  ASSUME OneStratTxn, StratIInv, NEW t \in StratTxns, NEW request,
         BeginStrat(t, request), AsAsked(request), StillRead(request)
  PROVE  StratIInv' /\ BlockedStay
<1>1. StratTyped' /\ stratTxn'[t] = request
  BY BeginStratTyped DEF StratIInv
<1>2. UNCHANGED <<intakes, rules, node, stratOpps>>
  BY DEF BeginStrat
<1>3. StillRead(request)'
  BY <1>2 DEF StillRead, Drafts, Currents, Ruled
<1>4. \A u \in StratTxns : stratTxn'[u] = request
  BY <1>1 DEF OneStratTxn
<1>5. \A u \in StratTxns : StillRead(stratTxn[u])'
  BY <1>3, <1>4
<1> QED
  BY <1>1, <1>2, <1>5, NothingRuled DEF StratIInv, BlockedStay

LEMMA EndKeeps ==
  ASSUME OneStratTxn, NEW t \in StratTxns, stratTxn'[t] = Ended
  PROVE  \A u \in StratTxns : StillRead(stratTxn[u])'
<1>1. \A u \in StratTxns : stratTxn'[u] = Ended
  BY DEF OneStratTxn
<1>2. StillRead(Ended)'
  BY DEF StillRead, Ended
<1> QED
  BY <1>1, <1>2

(* An approval finds at most one current intake, which it archives; a      *)
(* reapplication finds one, which it applies.                              *)
LEMMA AppliesKeep ==
  ASSUME OneStratTxn, StratIInv, NEW t \in StratTxns, BeginApproveIntake(t) \/ BeginReapplyIntake(t)
  PROVE  StratIInv' /\ BlockedStay
<1>1. PICK i, archive : /\ i \in DOMAIN intakes /\ Apply(t, i, archive)
                       /\ Currents \ {i} \subseteq archive
  <2>1. CASE BeginApproveIntake(t)
    BY <2>1 DEF BeginApproveIntake, Drafts
  <2>2. CASE BeginReapplyIntake(t)
    <3>1. PICK i \in Currents : Apply(t, i, {})
      BY <2>2 DEF BeginReapplyIntake
    <3>2. IsFiniteSet(Currents)
      <4>1. IsFiniteSet(DOMAIN intakes)
        <5>1. DOMAIN intakes = 1 .. Len(intakes) /\ Len(intakes) \in Nat
          BY DEF StratIInv, StratTyped, StratTypeOK
        <5> QED
          BY <5>1, FS_Interval
      <4> QED
        BY <4>1, FS_Subset DEF Currents
    <3>3. \E x : Currents = {x}
      BY <2>2, <3>2, FS_Singleton DEF BeginReapplyIntake
    <3> QED
      BY <3>1, <3>3 DEF Currents
  <2> QED
    BY <2>1, <2>2
<1>2. PICK a : BeginStrat(t, a) /\ AsAsked(a) /\ Reading(a, i, archive)
  BY <1>1, ApplyBegins DEF StratIInv
<1>3. StillRead(a)
  BY <1>1, <1>2 DEF Reading, StillRead
<1> QED
  BY <1>2, <1>3, BeginKeeps

LEMMA ReadsKeep ==
  ASSUME OneStratTxn, StratIInv, NEW t \in StratTxns,
         \/ BeginCreateIntake(t) \/ BeginForkIntake(t) \/ BeginUpdateIntake(t)
         \/ BeginNode(t) \/ BeginApproveNode(t) \/ BeginScan(t) \/ BeginCommitment(t)
  PROVE  StratIInv' /\ BlockedStay
<1>1. StratTyped
  BY DEF StratIInv
<1>2. CASE BeginCreateIntake(t) \/ BeginForkIntake(t) \/ BeginUpdateIntake(t)
  <2>1. PICK a : /\ BeginStrat(t, a) /\ AsAsked(a) /\ a.op \in {"draft", "update"}
                 /\ (a.op = "update" => a.intake \in Drafts)
    BY <1>1, <1>2, IntakesBegin
  <2>2. StillRead(a)
    BY <2>1 DEF StillRead
  <2> QED
    BY <2>1, <2>2, BeginKeeps
<1>3. CASE BeginNode(t) \/ BeginApproveNode(t)
  <2>1. PICK a : /\ BeginStrat(t, a) /\ AsAsked(a)
                 /\ a.op \in {"addNode", "editNode", "deleteNode", "approveNode"}
                 /\ a.op = "approveNode" =>
                      (a.widen => node[a.keyword].fit \in {"needs_review", "out_of_scope"})
    BY <1>1, <1>3, NodesBegin
  <2>2. StillRead(a)
    BY <2>1 DEF StillRead
  <2> QED
    BY <2>1, <2>2, BeginKeeps
<1>4. CASE BeginScan(t) \/ BeginCommitment(t)
  <2>1. PICK a : /\ BeginStrat(t, a) /\ AsAsked(a) /\ a.op \in {"scan", "commitment"}
                 /\ a.op = "scan" /\ a.source = "gsc" => \A k \in a.opens : ~Ruled(k)
    BY <1>1, <1>4, ScanBegins
  <2>2. StillRead(a)
    BY <2>1 DEF StillRead
  <2> QED
    BY <2>1, <2>2, BeginKeeps
<1> QED
  BY <1>2, <1>3, <1>4

LEMMA RulesTheSame ==
  ASSUME StratIInv, UNCHANGED <<rules, stratOpps>>
  PROVE  NoOpenForbiddenQuery'
<1>1. rules \subseteq (DOMAIN intakes) \X Keywords
  BY DEF StratIInv, StratTyped, StratTypeOK
<1>2. ASSUME NEW k, Ruled(k)' PROVE Ruled(k)
  BY <1>1, <1>2 DEF Ruled
<1>3. ASSUME NEW o \in stratOpps, o.source = "gsc" PROVE ~Ruled(o.keyword)'
  <2>1. PICK k : k = o.keyword
    OBVIOUS
  <2>2. ~Ruled(k)
    BY <1>3, <2>1 DEF StratIInv, NoOpenForbiddenQuery
  <2>3. ~Ruled(k)'
    BY <1>2, <2>2
  <2> QED
    BY <2>1, <2>3 DEF Ruled
<1> QED
  BY <1>3 DEF NoOpenForbiddenQuery

LEMMA DraftKeeps ==
  ASSUME OneStratTxn, StratIInv, NEW t \in StratTxns, CommitDraft(t)
  PROVE  StratIInv' /\ BlockedStay
<1>1. PICK row : row.status = "draft" /\ intakes' = Append(intakes, row)
  BY DraftCommits DEF StratIInv
<1>2. StratTyped'
  BY DraftCommits DEF StratIInv
<1>3. UNCHANGED <<rules, node, stratOpps>> /\ End(t)
  BY DEF CommitDraft
<1>4. Currents' = Currents /\ \A i \in Currents : intakes'[i] = intakes[i]
  <2>1. intakes \in Seq(IntakeRow)
    BY DEF StratIInv, StratTyped, StratTypeOK, IntakeRow
  <2>2. /\ DOMAIN intakes' = DOMAIN intakes \cup {Len(intakes) + 1} /\ intakes'[Len(intakes) + 1] = row
        /\ \A i \in DOMAIN intakes : intakes'[i] = intakes[i]
    BY <1>1, <2>1
  <2> QED
    BY <1>1, <2>2 DEF Currents
<1>5. RulesFollowIntake'
  BY <1>3, <1>4 DEF StratIInv, RulesFollowIntake
<1>6. NoOpenForbiddenQuery'
  BY <1>3, RulesTheSame
<1>7. stratTxn'[t] = Ended
  BY <1>3 DEF StratIInv, StratTyped, End
<1> QED
  BY <1>2, <1>3, <1>5, <1>6, <1>7, EndKeeps DEF StratIInv, BlockedStay

LEMMA UpdateKeeps ==
  ASSUME OneStratTxn, StratIInv, NEW t \in StratTxns, CommitUpdateIntake(t)
  PROVE  StratIInv' /\ BlockedStay
<1>1. stratTxn[t].intake \in Drafts
  BY DEF CommitUpdateIntake, StratIInv, StillRead
<1>2. /\ StratTyped' /\ DOMAIN intakes' = DOMAIN intakes
      /\ \A i \in DOMAIN intakes :
           /\ intakes'[i].status = intakes[i].status /\ intakes'[i].current = intakes[i].current
           /\ i # stratTxn[t].intake => intakes'[i] = intakes[i]
  BY UpdateIntakeCommits DEF StratIInv
<1>3. UNCHANGED <<rules, node, stratOpps>> /\ End(t)
  BY DEF CommitUpdateIntake
<1>4. Currents' = Currents
  BY <1>2 DEF Currents
<1>5. \A i \in Currents : intakes'[i] = intakes[i]
  BY <1>1, <1>2 DEF Currents, Drafts
<1>6. RulesFollowIntake'
  BY <1>3, <1>4, <1>5 DEF StratIInv, RulesFollowIntake
<1>7. stratTxn'[t] = Ended
  BY <1>3 DEF StratIInv, StratTyped, End
<1> QED
  BY <1>2, <1>3, <1>6, <1>7, EndKeeps, RulesTheSame DEF StratIInv, BlockedStay

LEMMA ImpactKeeps ==
  ASSUME OneStratTxn, StratIInv, NEW t \in StratTxns, Impact(t)
  PROVE  StratIInv' /\ BlockedStay
<1>1. PICK a, b : a = stratTxn[t] /\ b = stratTxn'[t]
  OBVIOUS
<1>2. /\ StratTyped' /\ UNCHANGED <<intakes, rules, node, stratOpps, commitments>>
      /\ a.op = "apply" /\ b.op = "impact"
      /\ b.intake = a.intake /\ b.content = a.content /\ b.archive = a.archive
      /\ b.off = rules
      /\ b.reject = {o \in stratOpps : FitBlocks(node[o.keyword], o.keyword \in a.content.forbids)}
  BY <1>1, ImpactReads DEF StratIInv
<1>3. StillRead(a)
  BY <1>1 DEF StratIInv
<1>4. StillRead(b)
  BY <1>2, <1>3 DEF StillRead, FitBlocks
<1>5. StillRead(b)'
  BY <1>2, <1>4 DEF StillRead, Currents
<1>6. \A u \in StratTxns : stratTxn'[u] = b
  BY <1>1 DEF OneStratTxn
<1>7. \A u \in StratTxns : StillRead(stratTxn[u])'
  BY <1>5, <1>6
<1> QED
  BY <1>2, <1>7, NothingRuled DEF StratIInv, BlockedStay

(* The rules of an approval replace all others, and the opportunities they *)
(* forbid are rejected with it.                                            *)
LEMMA ImpactCommitKeeps ==
  ASSUME OneStratTxn, StratIInv, NEW t \in StratTxns, CommitImpact(t)
  PROVE  StratIInv' /\ BlockedStay
<1>1. PICK a : a = stratTxn[t]
  OBVIOUS
<1>2. /\ StratTyped' /\ Applying(a)
      /\ DOMAIN intakes' = DOMAIN intakes
      /\ \A i \in DOMAIN intakes : intakes'[i].content = intakes[i].content
      /\ intakes'[a.intake].status = "approved" /\ intakes'[a.intake].current
      /\ \A i \in DOMAIN intakes \ {a.intake} :
           IF i \in a.archive THEN intakes'[i].status = "archived" ELSE intakes'[i] = intakes[i]
      /\ \A k \in Keywords : node[k].fit = "blocked" => node'[k].fit = "blocked"
  BY <1>1, ImpactCommits DEF StratIInv
<1>3. /\ a.op = "impact" /\ rules' = (rules \ a.off) \cup ({a.intake} \X a.content.forbids)
      /\ stratOpps' = stratOpps \ a.reject /\ End(t)
  BY <1>1 DEF CommitImpact
<1>4. /\ a.content = intakes[a.intake].content /\ Currents \ {a.intake} \subseteq a.archive /\ a.off = rules
      /\ \A o \in stratOpps : o.keyword \in a.content.forbids => o \in a.reject
  BY <1>1, <1>3 DEF StratIInv, StillRead
<1>5. a.intake \in DOMAIN intakes
  BY <1>2 DEF Applying
<1>6. Currents' = {a.intake}
  <2>1. ASSUME NEW i \in DOMAIN intakes \ {a.intake}
        PROVE  ~(intakes'[i].current /\ intakes'[i].status = "approved")
    <3>1. CASE i \in a.archive
      BY <1>2, <3>1
    <3>2. CASE i \notin a.archive
      BY <1>2, <1>4, <3>2 DEF Currents
    <3> QED
      BY <3>1, <3>2
  <2> QED
    BY <1>2, <1>5, <2>1 DEF Currents
<1>7. rules' = {a.intake} \X a.content.forbids /\ intakes'[a.intake].content = a.content
  BY <1>2, <1>3, <1>4, <1>5
<1>8. RulesFollowIntake'
  BY <1>6, <1>7 DEF RulesFollowIntake
<1>9. NoOpenForbiddenQuery'
  BY <1>3, <1>4, <1>7 DEF NoOpenForbiddenQuery, Ruled
<1>10. stratTxn'[t] = Ended
  BY <1>3 DEF StratIInv, StratTyped, End
<1> QED
  BY <1>2, <1>8, <1>9, <1>10, EndKeeps DEF StratIInv, BlockedStay

LEMMA NodeKeeps ==
  ASSUME OneStratTxn, StratIInv, NEW t \in StratTxns, CommitNode(t)
  PROVE  StratIInv' /\ BlockedStay
<1>1. /\ StratTyped' /\ UNCHANGED <<intakes, rules, stratOpps>> /\ stratTxn'[t] = Ended
      /\ \A k \in Keywords : node[k].fit = "blocked" =>
           \/ node'[k].fit = "blocked"
           \/ stratTxn[t].op \in {"editNode", "deleteNode"} /\ stratTxn[t].keyword = k
           \/ stratTxn[t].op = "approveNode" /\ stratTxn[t].widen /\ stratTxn[t].keyword = k
  BY NodeCommits DEF StratIInv
<1>2. stratTxn[t].op = "approveNode" /\ stratTxn[t].widen => node[stratTxn[t].keyword].fit # "blocked"
  BY DEF StratIInv, StillRead
<1>3. BlockedStay
  BY <1>1, <1>2 DEF BlockedStay
<1> QED
  BY <1>1, <1>3, EndKeeps, NothingRuled DEF StratIInv

LEMMA ScanKeeps ==
  ASSUME OneStratTxn, StratIInv, NEW t \in StratTxns, CommitStratScan(t)
  PROVE  StratIInv' /\ BlockedStay
<1>1. /\ StratTyped' /\ UNCHANGED <<intakes, rules, node>> /\ stratTxn'[t] = Ended
      /\ stratTxn[t].op = "scan"
      /\ \A o \in stratOpps' :
           o \in stratOpps \/ (o.source = stratTxn[t].source /\ o.keyword \in stratTxn[t].opens)
  BY ScanCommits DEF StratIInv
<1>2. stratTxn[t].source = "gsc" => \A k \in stratTxn[t].opens : ~Ruled(k)
  BY <1>1 DEF StratIInv, StillRead
<1>3. \A o \in stratOpps' : o.source = "gsc" => ~Ruled(o.keyword)
  BY <1>1, <1>2 DEF StratIInv, NoOpenForbiddenQuery
<1>4. NoOpenForbiddenQuery'
  BY <1>1, <1>3 DEF NoOpenForbiddenQuery, Ruled
<1>5. RulesFollowIntake'
  BY <1>1 DEF StratIInv, RulesFollowIntake, Currents
<1> QED
  BY <1>1, <1>4, <1>5, EndKeeps DEF StratIInv, BlockedStay

LEMMA StratIInvStep ==
  ASSUME OneStratTxn, StratIInv, [StratNext]_stratVars
  PROVE  StratIInv' /\ (BlockedStay \/ UNCHANGED stratVars)
<1>1. CASE UNCHANGED stratVars \/ Deactivate
  <2>1. UNCHANGED <<intakes, rules, node, stratOpps, stratTxn, stratBegun>>
    BY <1>1 DEF stratVars, Deactivate
  <2>2. \A t \in StratTxns : StillRead(stratTxn[t])'
    BY <2>1 DEF StratIInv, StillRead, Drafts, Currents, Ruled
  <2> QED
    BY <2>1, <2>2, NothingRuled, NothingWritten DEF StratIInv, BlockedStay
<1>2. ASSUME NEW t \in StratTxns,
             \/ BeginCreateIntake(t) \/ BeginForkIntake(t) \/ BeginUpdateIntake(t)
             \/ BeginNode(t) \/ BeginApproveNode(t) \/ BeginScan(t) \/ BeginCommitment(t)
      PROVE  StratIInv' /\ BlockedStay
  BY <1>2, ReadsKeep
<1>3. ASSUME NEW t \in StratTxns, BeginApproveIntake(t) \/ BeginReapplyIntake(t)
      PROVE  StratIInv' /\ BlockedStay
  BY <1>3, AppliesKeep
<1>4. ASSUME NEW t \in StratTxns,
             \/ CommitDraft(t) \/ CommitUpdateIntake(t) \/ Impact(t) \/ CommitImpact(t)
             \/ CommitNode(t) \/ CommitStratScan(t)
      PROVE  StratIInv' /\ BlockedStay
  BY <1>4, DraftKeeps, UpdateKeeps, ImpactKeeps, ImpactCommitKeeps, NodeKeeps, ScanKeeps
<1>5. ASSUME NEW t \in StratTxns, CommitCommitment(t) \/ AbortStrat(t)
      PROVE  StratIInv' /\ BlockedStay
  BY <1>5, OthersCommit, EndKeeps, NothingRuled DEF StratIInv, BlockedStay
<1> QED
  BY <1>1, <1>2, <1>3, <1>4, <1>5 DEF StratNext

(* Intakes, rules, nodes and opportunities have the shapes of              *)
(* models/strategy.py, and an intake is current if and only if it is       *)
(* approved, however requests overlap.                                     *)
THEOREM StrategyTypeCorrect == StratSpec => []StratTypeOK
<1>1. StratTyped => StratTypeOK
  BY DEF StratTyped
<1> QED
  BY <1>1, StratTypedInit, StratTypedStep, PTL DEF StratSpec

(* When the requests for a site come one after the other, the active rules *)
(* are those of the current intake, no open Search Console opportunity is  *)
(* for a keyword they forbid, and a node that an intake blocked stays      *)
(* blocked until a user edits or deletes it (intake_impact.py:255).        *)
THEOREM ConstraintsAlwaysHold == OneStratTxn /\ StratSpec => ConstraintsHold
<1> SUFFICES ASSUME OneStratTxn PROVE StratSpec => ConstraintsHold
  OBVIOUS
<1>1. StratIInv /\ [StratNext]_stratVars => StratIInv'
  BY StratIInvStep
<1>2. ASSUME StratIInv, StratIInv', [StratNext]_stratVars
      PROVE  [/\ RulesFollowIntake' /\ NoOpenForbiddenQuery'
              /\ \A k \in Keywords : node[k].fit = "blocked" =>
                   \/ node'[k].fit = "blocked"
                   \/ \E t \in StratTxns :
                        stratTxn[t].op \in {"editNode", "deleteNode"} /\ stratTxn[t].keyword = k]_stratVars
  BY <1>2, StratIInvStep DEF StratIInv, BlockedStay
<1> QED
  BY <1>1, <1>2, StratIInvInit, PTL DEF StratSpec, ConstraintsHold

----------------------------------------------------------------------------
(* Rows that only a look before the insert keeps apart, however requests   *)
(* overlap. The rows there are and the requests that are to add one are    *)
(* counted together: one that looks and finds none begins with no more     *)
(* than all requests, and every commit makes a request into a row.         *)

(* AI visibility: open opportunities of a type and prompt.                 *)
AiKeys       == OppTypes \X Prompts
AiOpening(o) == {t \in AiTxns : aiTxn[t].op = "generate" /\ o \in aiTxn[t].opens}

AiCounted ==
    /\ aiOpps \in [AiKeys -> Nat]
    /\ aiTxn = [t \in AiTxns |-> aiTxn[t]]
    /\ \A o \in AiKeys : aiOpps[o] + Cardinality(AiOpening(o)) <= Cardinality(AiTxns)

LEMMA AiCountedInit == AiInit => AiCounted
<1> SUFFICES ASSUME AiInit PROVE AiCounted
  OBVIOUS
<1>1. \A o \in AiKeys : AiOpening(o) = {}
  BY DEF AiInit, AiOpening, NoAiRequest
<1>2. Cardinality({}) = 0 /\ Cardinality(AiTxns) \in Nat
  BY AiAssumption, FS_EmptySet, FS_CardinalityType
<1>3. \A o \in AiKeys : aiOpps[o] + Cardinality(AiOpening(o)) <= Cardinality(AiTxns)
  <2>1. \A o \in AiKeys : aiOpps[o] = 0
    BY DEF AiInit, AiKeys
  <2> QED
    BY <1>1, <1>2, <2>1
<1>4. aiOpps \in [AiKeys -> Nat] /\ aiTxn = [t \in AiTxns |-> aiTxn[t]]
  BY DEF AiInit, AiKeys
<1> QED
  BY <1>3, <1>4 DEF AiCounted

(* What a step does to the rows of a key and to those who open one.        *)
AiKeyKept(o) ==
    \/ aiOpps'[o] = 0
    \/ aiOpps'[o] <= aiOpps[o] /\ AiOpening(o)' \subseteq AiOpening(o)
    \/ aiOpps'[o] <= aiOpps[o] + 1 /\ \E t \in AiOpening(o) : AiOpening(o)' \subseteq AiOpening(o) \ {t}

LEMMA AiKeysKept ==
  ASSUME AiCounted, aiOpps' \in [AiKeys -> Nat], aiTxn' = [t \in AiTxns |-> aiTxn'[t]],
         \A o \in AiKeys : AiKeyKept(o)
  PROVE  AiCounted'
<1> SUFFICES ASSUME NEW o \in AiKeys
             PROVE  aiOpps'[o] + Cardinality(AiOpening(o)') <= Cardinality(AiTxns)
  BY DEF AiCounted
<1>1. PICK A, B : A = AiOpening(o) /\ B = AiOpening(o)'
  OBVIOUS
<1>2. A \subseteq AiTxns /\ B \subseteq AiTxns
  BY <1>1 DEF AiOpening
<1>3. PICK n, m : n = aiOpps[o] /\ m = aiOpps'[o] /\ n \in Nat /\ m \in Nat
  BY DEF AiCounted
<1>4. n + Cardinality(A) <= Cardinality(AiTxns)
  BY <1>1, <1>3 DEF AiCounted
<1>5. \/ m = 0
      \/ m <= n /\ B \subseteq A
      \/ m <= n + 1 /\ \E t \in A : B \subseteq A \ {t}
  BY <1>1, <1>3 DEF AiKeyKept
<1>6. IsFiniteSet(AiTxns)
  BY AiAssumption
<1>7. m + Cardinality(B) <= Cardinality(AiTxns)
  BY <1>2, <1>3, <1>4, <1>5, <1>6, ClaimsKept
<1> QED
  BY <1>1, <1>3, <1>7

LEMMA AiBeginKept ==
  ASSUME AiCounted, NEW t \in AiTxns, NEW request, BeginAi(t, request),
         request.op = "generate" => \A o \in request.opens : aiOpps[o] = 0
  PROVE  AiCounted'
<1>1. /\ aiOpps' = aiOpps /\ aiTxn' = [aiTxn EXCEPT ![t] = request]
      /\ aiTxn = [u \in AiTxns |-> aiTxn[u]] /\ aiOpps \in [AiKeys -> Nat]
  BY DEF BeginAi, AiCounted
<1>2. /\ aiTxn' = [u \in AiTxns |-> aiTxn'[u]] /\ aiTxn'[t] = request
      /\ \A u \in AiTxns \ {t} : aiTxn'[u] = aiTxn[u]
  BY <1>1
<1>3. ASSUME NEW o \in AiKeys PROVE AiKeyKept(o)
  <2>1. CASE request.op = "generate" /\ o \in request.opens
    BY <1>1, <2>1 DEF AiKeyKept
  <2>2. CASE ~(request.op = "generate" /\ o \in request.opens)
    <3>1. AiOpening(o)' \subseteq AiOpening(o)
      BY <1>2, <2>2 DEF AiOpening
    <3> QED
      BY <1>1, <3>1 DEF AiKeyKept
  <2> QED
    BY <2>1, <2>2
<1> QED
  BY <1>1, <1>2, <1>3, AiKeysKept

LEMMA AiEndKept ==
  ASSUME AiCounted, NEW t \in AiTxns, EndAi(t),
         \/ aiOpps' = aiOpps
         \/ aiTxn[t].op = "generate" /\ aiOpps' = [o \in AiKeys |-> aiOpps[o] + IF o \in aiTxn[t].opens THEN 1 ELSE 0]
  PROVE  AiCounted'
<1>1. /\ aiTxn' = [aiTxn EXCEPT ![t] = NoAiRequest]
      /\ aiTxn = [u \in AiTxns |-> aiTxn[u]] /\ aiOpps \in [AiKeys -> Nat]
  BY DEF EndAi, AiCounted
<1>2. /\ aiTxn' = [u \in AiTxns |-> aiTxn'[u]] /\ aiTxn'[t].op # "generate"
      /\ \A u \in AiTxns \ {t} : aiTxn'[u] = aiTxn[u]
  BY <1>1 DEF NoAiRequest
<1>3. aiOpps' \in [AiKeys -> Nat]
  BY <1>1
<1>4. ASSUME NEW o \in AiKeys PROVE AiKeyKept(o)
  <2>1. AiOpening(o)' \subseteq AiOpening(o) \ {t}
    BY <1>2 DEF AiOpening
  <2>2. CASE aiTxn[t].op = "generate" /\ o \in aiTxn[t].opens
    <3>1. t \in AiOpening(o) /\ aiOpps'[o] <= aiOpps[o] + 1
      BY <1>1, <2>2 DEF AiOpening
    <3> QED
      BY <2>1, <3>1 DEF AiKeyKept
  <2>3. CASE ~(aiTxn[t].op = "generate" /\ o \in aiTxn[t].opens)
    <3>1. aiOpps'[o] <= aiOpps[o]
      BY <1>1, <2>3
    <3> QED
      BY <2>1, <3>1 DEF AiKeyKept
  <2> QED
    BY <2>2, <2>3
<1> QED
  BY <1>2, <1>3, <1>4, AiKeysKept

LEMMA AiCountedStep == AiCounted /\ [AiNext]_aiVars => AiCounted'
<1> SUFFICES ASSUME AiCounted, [AiNext]_aiVars PROVE AiCounted'
  OBVIOUS
<1>1. ASSUME UNCHANGED <<aiOpps, aiTxn>> PROVE AiCounted'
  BY <1>1 DEF AiCounted, AiOpening
<1>2. CASE \/ UNCHANGED aiVars \/ RecordAnswer \/ ImportAnswers \/ CompetitorChanges
          \/ CreateBrandEntity \/ UpdateBrandEntity
  BY <1>1, <1>2 DEF aiVars, RecordAnswer, ImportAnswers, CompetitorChanges, CreateBrandEntity, UpdateBrandEntity
<1>3. CASE OppLeaves
  <2>1. PICK p \in AiKeys : aiOpps[p] > 0 /\ aiOpps' = [aiOpps EXCEPT ![p] = @ - 1] /\ aiTxn' = aiTxn
    BY <1>3 DEF OppLeaves, AiKeys
  <2>2. aiOpps \in [AiKeys -> Nat] /\ aiTxn' = [t \in AiTxns |-> aiTxn'[t]]
    BY <2>1 DEF AiCounted
  <2>3. aiOpps' \in [AiKeys -> Nat] /\ \A o \in AiKeys : aiOpps'[o] <= aiOpps[o]
    BY <2>1, <2>2
  <2>4. \A o \in AiKeys : AiKeyKept(o)
    BY <2>1, <2>3 DEF AiKeyKept, AiOpening
  <2> QED
    BY <2>2, <2>3, <2>4, AiKeysKept
<1>4. ASSUME NEW t \in AiTxns, BeginCheck(t) PROVE AiCounted'
  <2>1. PICK score : BeginAi(t, [op |-> "check", nr |-> entity.nr, name |-> entity.name, score |-> score])
    BY <1>4 DEF BeginCheck
  <2>2. PICK request : request = [op |-> "check", nr |-> entity.nr, name |-> entity.name, score |-> score]
    OBVIOUS
  <2>3. BeginAi(t, request) /\ request.op # "generate"
    BY <2>1, <2>2
  <2> QED
    BY <2>3, AiBeginKept
<1>5. ASSUME NEW t \in AiTxns, BeginGenerate(t) PROVE AiCounted'
  <2>1. PICK candidates : BeginAi(t, [op |-> "generate", opens |-> ToOpen(candidates)])
    BY <1>5 DEF BeginGenerate
  <2>2. PICK request : request = [op |-> "generate", opens |-> ToOpen(candidates)]
    OBVIOUS
  <2>3. BeginAi(t, request) /\ \A o \in request.opens : aiOpps[o] = 0
    BY <2>1, <2>2 DEF ToOpen
  <2> QED
    BY <2>3, AiBeginKept
<1>6. ASSUME NEW t \in AiTxns, CommitCheck(t) \/ CommitAiGenerate(t) \/ AbortAi(t) PROVE AiCounted'
  BY <1>6, AiEndKept DEF CommitCheck, CommitAiGenerate, AbortAi, AiKeys
<1> QED
  BY <1>2, <1>3, <1>4, <1>5, <1>6 DEF AiNext

(* Topic graph: themes, and open cases of a keyword.                       *)
MakesTheme(a)   == a.op \in {"rebuild", "link"} /\ a.newThemes = 1
MakesCase(a, q) == a.op \in {"rebuild", "detect"} /\ q \in a.opens

GraphAsked(a) ==
    /\ a.op \in {"rebuild", "link"} => a.newThemes \in {0, 1}
    /\ a.op = "rebuild" => {"op", "newThemes", "opens"} \subseteq DOMAIN a

(* What the others are left with makes no more than they would have made.  *)
OthersMakeNoMore(t) ==
    \A u \in GraphTxns \ {t} :
        /\ GraphAsked(graphTxn'[u])
        /\ MakesTheme(graphTxn'[u]) => MakesTheme(graphTxn[u])
        /\ \A q \in Queries : MakesCase(graphTxn'[u], q) => MakesCase(graphTxn[u], q)

ThemeMakers   == {t \in GraphTxns : MakesTheme(graphTxn[t])}
CaseMakers(q) == {t \in GraphTxns : MakesCase(graphTxn[t], q)}

GraphCounted ==
    /\ themes \in Nat /\ cases \in [Queries -> Nat]
    /\ graphTxn = [t \in GraphTxns |-> graphTxn[t]]
    /\ \A t \in GraphTxns : GraphAsked(graphTxn[t])
    /\ themes + Cardinality(ThemeMakers) <= Cardinality(GraphTxns)
    /\ \A q \in Queries : cases[q] + Cardinality(CaseMakers(q)) <= Cardinality(GraphTxns)

LEMMA GraphCountedInit == GraphInit => GraphCounted
<1> SUFFICES ASSUME GraphInit PROVE GraphCounted
  OBVIOUS
<1>1. \A t \in GraphTxns : graphTxn[t] = Closed
  BY DEF GraphInit
<1>2. GraphAsked(Closed) /\ ~MakesTheme(Closed) /\ \A q : ~MakesCase(Closed, q)
  BY DEF GraphAsked, MakesTheme, MakesCase, Closed
<1>3. ThemeMakers = {} /\ \A q \in Queries : CaseMakers(q) = {}
  BY <1>1, <1>2 DEF ThemeMakers, CaseMakers
<1>4. Cardinality({}) = 0 /\ Cardinality(GraphTxns) \in Nat
  BY TopicGraphAssumption, FS_EmptySet, FS_CardinalityType
<1>5. \A q \in Queries : cases[q] = 0
  BY DEF GraphInit
<1>6. \A q \in Queries : cases[q] + Cardinality(CaseMakers(q)) <= Cardinality(GraphTxns)
  BY <1>3, <1>4, <1>5
<1>7. themes \in Nat /\ cases \in [Queries -> Nat] /\ graphTxn = [t \in GraphTxns |-> graphTxn[t]]
      /\ themes = 0
  BY DEF GraphInit
<1>8. themes + Cardinality(ThemeMakers) <= Cardinality(GraphTxns)
  BY <1>3, <1>4, <1>7
<1> QED
  BY <1>1, <1>2, <1>6, <1>7, <1>8 DEF GraphCounted

(* A transaction comes to hold a, and makes no more than it held.          *)
Made(n, m, held, holds) == m = 0 \/ (m <= n /\ (holds => held)) \/ (m <= n + 1 /\ held /\ ~holds)

LEMMA GraphKept ==
  ASSUME GraphCounted, NEW t \in GraphTxns, NEW a,
         graphTxn' = [u \in GraphTxns |-> graphTxn'[u]], graphTxn'[t] = a, OthersMakeNoMore(t),
         GraphAsked(a), themes' \in Nat, cases' \in [Queries -> Nat],
         Made(themes, themes', MakesTheme(graphTxn[t]), MakesTheme(a)),
         \A q \in Queries : Made(cases[q], cases'[q], MakesCase(graphTxn[t], q), MakesCase(a, q))
  PROVE  GraphCounted'
<1>2. \A u \in GraphTxns \ {t} : /\ MakesTheme(graphTxn'[u]) => MakesTheme(graphTxn[u])
                                 /\ \A q \in Queries : MakesCase(graphTxn'[u], q) => MakesCase(graphTxn[u], q)
  BY DEF OthersMakeNoMore
<1>3. ASSUME NEW u \in GraphTxns PROVE GraphAsked(graphTxn'[u])
  BY DEF OthersMakeNoMore
<1>4. IsFiniteSet(GraphTxns)
  BY TopicGraphAssumption
<1>5. themes' + Cardinality(ThemeMakers') <= Cardinality(GraphTxns)
  <2>1. PICK A, B : /\ A = ThemeMakers /\ B = ThemeMakers'
    OBVIOUS
  <2>2. A \subseteq GraphTxns /\ B \subseteq GraphTxns
    BY <2>1 DEF ThemeMakers
  <2>3. /\ MakesTheme(graphTxn[t]) => t \in A
        /\ (MakesTheme(a) => MakesTheme(graphTxn[t])) => B \subseteq A
        /\ ~MakesTheme(a) => B \subseteq A \ {t}
    <3>1. A = {u \in GraphTxns : MakesTheme(graphTxn[u])} /\ B = {u \in GraphTxns : MakesTheme(graphTxn'[u])}
      BY <2>1 DEF ThemeMakers, MakesTheme
    <3> QED
      BY <1>2, <3>1
  <2>4. PICK n, m : n = themes /\ m = themes' /\ n \in Nat /\ m \in Nat
    BY DEF GraphCounted
  <2>5. n + Cardinality(A) <= Cardinality(GraphTxns)
    BY <2>1, <2>4 DEF GraphCounted
  <2>6. m = 0 \/ (m <= n /\ B \subseteq A) \/ (m <= n + 1 /\ \E u \in A : B \subseteq A \ {u})
    BY <2>3, <2>4 DEF Made
  <2>7. m + Cardinality(B) <= Cardinality(GraphTxns)
    BY <1>4, <2>2, <2>4, <2>5, <2>6, ClaimsKept
  <2> QED
    BY <2>1, <2>4, <2>7
<1>6. ASSUME NEW q \in Queries PROVE cases'[q] + Cardinality(CaseMakers(q)') <= Cardinality(GraphTxns)
  <2>1. PICK A, B : A = CaseMakers(q) /\ B = CaseMakers(q)'
    OBVIOUS
  <2>2. A \subseteq GraphTxns /\ B \subseteq GraphTxns
    BY <2>1 DEF CaseMakers
  <2>3. /\ MakesCase(graphTxn[t], q) => t \in A
        /\ (MakesCase(a, q) => MakesCase(graphTxn[t], q)) => B \subseteq A
        /\ ~MakesCase(a, q) => B \subseteq A \ {t}
    <3>1. A = {u \in GraphTxns : MakesCase(graphTxn[u], q)} /\ B = {u \in GraphTxns : MakesCase(graphTxn'[u], q)}
      BY <2>1 DEF CaseMakers, MakesCase
    <3> QED
      BY <1>2, <3>1
  <2>4. PICK n, m : n = cases[q] /\ m = cases'[q] /\ n \in Nat /\ m \in Nat
    BY DEF GraphCounted
  <2>5. n + Cardinality(A) <= Cardinality(GraphTxns)
    BY <2>1, <2>4 DEF GraphCounted
  <2>6. m = 0 \/ (m <= n /\ B \subseteq A) \/ (m <= n + 1 /\ \E u \in A : B \subseteq A \ {u})
    BY <2>3, <2>4 DEF Made
  <2>7. m + Cardinality(B) <= Cardinality(GraphTxns)
    BY <1>4, <2>2, <2>4, <2>5, <2>6, ClaimsKept
  <2> QED
    BY <2>1, <2>4, <2>7
<1> QED
  BY <1>3, <1>5, <1>6 DEF GraphCounted, GraphAsked

(* Mostly the others are left alone.                                       *)
LEMMA OthersStay ==
  ASSUME GraphCounted, NEW t \in GraphTxns, NEW a, graphTxn' = [graphTxn EXCEPT ![t] = a]
  PROVE  graphTxn' = [u \in GraphTxns |-> graphTxn'[u]] /\ graphTxn'[t] = a /\ OthersMakeNoMore(t)
<1>1. graphTxn = [u \in GraphTxns |-> graphTxn[u]]
  BY DEF GraphCounted
<1>2. /\ graphTxn' = [u \in GraphTxns |-> graphTxn'[u]] /\ graphTxn'[t] = a
      /\ \A u \in GraphTxns \ {t} : graphTxn'[u] = graphTxn[u]
  BY <1>1
<1>3. \A u \in GraphTxns : GraphAsked(graphTxn[u])
  BY DEF GraphCounted
<1> QED
  BY <1>2, <1>3 DEF OthersMakeNoMore

(* A request begins: what it is to make is not there.                      *)
LEMMA GraphBegins ==
  ASSUME GraphCounted, NEW t \in GraphTxns, NEW a, Open(t, a), UNCHANGED <<themes, cases>>, GraphAsked(a),
         MakesTheme(a) => themes = 0, \A q \in Queries : MakesCase(a, q) => cases[q] = 0
  PROVE  GraphCounted'
<1>1. graphTxn' = [graphTxn EXCEPT ![t] = a] /\ themes' = themes /\ cases' = cases
  BY DEF Open
<1>2. themes \in Nat /\ cases \in [Queries -> Nat]
  BY DEF GraphCounted
<1>3. Made(themes, themes', MakesTheme(graphTxn[t]), MakesTheme(a))
  BY <1>1, <1>2 DEF Made
<1>4. \A q \in Queries : Made(cases[q], cases'[q], MakesCase(graphTxn[t], q), MakesCase(a, q))
  BY <1>1, <1>2 DEF Made
<1>5. graphTxn' = [u \in GraphTxns |-> graphTxn'[u]] /\ graphTxn'[t] = a /\ OthersMakeNoMore(t)
  BY <1>1, OthersStay
<1> QED
  BY <1>1, <1>2, <1>3, <1>4, <1>5, GraphKept

(* ... and ends: it makes what it was to make, or nothing.                 *)
LEMMA GraphEnds ==
  ASSUME GraphCounted, NEW t \in GraphTxns,
         graphTxn' = [u \in GraphTxns |-> graphTxn'[u]], graphTxn'[t] = Closed, OthersMakeNoMore(t),
         themes' = themes \/ (graphTxn[t].op \in {"rebuild", "link"} /\ themes' = themes + graphTxn[t].newThemes),
         \/ cases' = cases
         \/ /\ graphTxn[t].op \in {"rebuild", "detect"}
            /\ cases' = [q \in Queries |-> cases[q] + IF q \in graphTxn[t].opens THEN 1 ELSE 0]
  PROVE  GraphCounted'
<1>2. themes \in Nat /\ cases \in [Queries -> Nat] /\ GraphAsked(graphTxn[t])
  BY DEF GraphCounted
<1>3. GraphAsked(Closed) /\ ~MakesTheme(Closed) /\ \A q : ~MakesCase(Closed, q)
  BY DEF GraphAsked, MakesTheme, MakesCase, Closed
<1>4. themes' \in Nat /\ Made(themes, themes', MakesTheme(graphTxn[t]), MakesTheme(Closed))
  <2>1. CASE themes' = themes
    BY <1>2, <1>3, <2>1 DEF Made
  <2>2. CASE graphTxn[t].op \in {"rebuild", "link"} /\ themes' = themes + graphTxn[t].newThemes
    <3>1. graphTxn[t].newThemes \in {0, 1}
      BY <1>2, <2>2 DEF GraphAsked
    <3>2. CASE graphTxn[t].newThemes = 0
      BY <1>2, <1>3, <2>2, <3>2 DEF Made
    <3>3. CASE graphTxn[t].newThemes = 1
      <4>1. MakesTheme(graphTxn[t])
        BY <2>2, <3>3 DEF MakesTheme
      <4> QED
        BY <1>2, <1>3, <2>2, <3>3, <4>1 DEF Made
    <3> QED
      BY <3>1, <3>2, <3>3
  <2> QED
    BY <2>1, <2>2
<1>5. cases' \in [Queries -> Nat]
  BY <1>2
<1>6. ASSUME NEW q \in Queries
      PROVE  Made(cases[q], cases'[q], MakesCase(graphTxn[t], q), MakesCase(Closed, q))
  <2>1. CASE cases' = cases
    BY <1>2, <1>3, <2>1 DEF Made
  <2>2. CASE /\ graphTxn[t].op \in {"rebuild", "detect"}
             /\ cases' = [p \in Queries |-> cases[p] + IF p \in graphTxn[t].opens THEN 1 ELSE 0]
    <3>1. CASE q \in graphTxn[t].opens
      <4>1. MakesCase(graphTxn[t], q) /\ cases'[q] = cases[q] + 1
        BY <2>2, <3>1 DEF MakesCase
      <4> QED
        BY <1>2, <1>3, <4>1 DEF Made
    <3>2. CASE q \notin graphTxn[t].opens
      <4>1. cases'[q] = cases[q] + 0
        BY <2>2, <3>2
      <4> QED
        BY <1>2, <1>3, <4>1 DEF Made
    <3> QED
      BY <3>1, <3>2
  <2> QED
    BY <2>1, <2>2
<1> QED
  BY <1>3, <1>4, <1>5, <1>6, GraphKept

LEMMA ClosesAlone ==
  ASSUME GraphCounted, NEW t \in GraphTxns, Close(t)
  PROVE  graphTxn' = [u \in GraphTxns |-> graphTxn'[u]] /\ graphTxn'[t] = Closed /\ OthersMakeNoMore(t)
BY OthersStay DEF Close

(* A change to what a transaction holds that it makes nothing of.          *)
LEMMA GraphReads ==
  ASSUME GraphCounted, NEW t \in GraphTxns, NEW a, graphTxn' = [graphTxn EXCEPT ![t] = a],
         UNCHANGED <<themes, cases>>, GraphAsked(a),
         MakesTheme(a) => MakesTheme(graphTxn[t]),
         \A q \in Queries : MakesCase(a, q) => cases[q] = 0 \/ MakesCase(graphTxn[t], q)
  PROVE  GraphCounted'
<1>1. themes' = themes /\ cases' = cases /\ themes \in Nat /\ cases \in [Queries -> Nat]
  BY DEF GraphCounted
<1>2. Made(themes, themes', MakesTheme(graphTxn[t]), MakesTheme(a))
  BY <1>1 DEF Made
<1>3. \A q \in Queries : Made(cases[q], cases'[q], MakesCase(graphTxn[t], q), MakesCase(a, q))
  BY <1>1 DEF Made
<1>4. graphTxn' = [u \in GraphTxns |-> graphTxn'[u]] /\ graphTxn'[t] = a /\ OthersMakeNoMore(t)
  BY OthersStay
<1> QED
  BY <1>1, <1>2, <1>3, <1>4, GraphKept

LEMMA ReadsCases ==
  ASSUME GraphCounted, NEW t \in GraphTxns, ReadCases(t)
  PROVE  GraphCounted'
<1>1. UNCHANGED <<themes, cases>>
  BY DEF ReadCases
<1>2. PICK found \in SUBSET Queries :
        \/ Open(t, [op |-> "detect", opens |-> {q \in found : cases[q] = 0}])
        \/ /\ graphTxn[t].op = "rebuild"
           /\ graphTxn' = [graphTxn EXCEPT ![t].opens = {q \in found : cases[q] = 0}]
        \/ Close(t)
  BY DEF ReadCases
<1>3. PICK new : new = {q \in found : cases[q] = 0}
  OBVIOUS
<1>4. CASE Close(t)
  BY <1>1, <1>4, ClosesAlone, GraphEnds
<1>5. CASE Open(t, [op |-> "detect", opens |-> new])
  <2>1. PICK a : a = [op |-> "detect", opens |-> new]
    OBVIOUS
  <2>2. GraphAsked(a) /\ ~MakesTheme(a) /\ \A q : MakesCase(a, q) => q \in new
    BY <2>1 DEF GraphAsked, MakesTheme, MakesCase
  <2> QED
    BY <1>1, <1>3, <1>5, <2>1, <2>2, GraphBegins
<1>6. CASE graphTxn[t].op = "rebuild" /\ graphTxn' = [graphTxn EXCEPT ![t].opens = new]
  <2>1. PICK r : r = graphTxn[t]
    OBVIOUS
  <2>2. GraphAsked(r) /\ r.op = "rebuild" /\ graphTxn = [u \in GraphTxns |-> graphTxn[u]]
    BY <1>6, <2>1 DEF GraphCounted
  <2>3. PICK a : a = [r EXCEPT !.opens = new]
    OBVIOUS
  <2>4. a.op = "rebuild" /\ a.newThemes = r.newThemes /\ a.opens = new /\ DOMAIN a = DOMAIN r
    BY <2>2, <2>3 DEF GraphAsked
  <2>5. GraphAsked(a)
    BY <2>2, <2>4 DEF GraphAsked
  <2>6. graphTxn' = [graphTxn EXCEPT ![t] = a]
    BY <1>6, <2>1, <2>3
  <2>8. MakesTheme(a) => MakesTheme(r)
    BY <2>2, <2>4 DEF MakesTheme
  <2>10. \A q \in Queries : MakesCase(a, q) => cases[q] = 0
    BY <1>3, <2>4 DEF MakesCase
  <2> QED
    BY <1>1, <2>1, <2>5, <2>6, <2>8, <2>10, GraphReads
<1> QED
  BY <1>2, <1>3, <1>4, <1>5, <1>6

LEMMA LeftMakesNoMore ==
  ASSUME NEW r, NEW rows, GraphAsked(r)
  PROVE  LET l == Left(r, rows)
         IN  GraphAsked(l) /\ (MakesTheme(l) => MakesTheme(r)) /\ \A q : MakesCase(l, q) => MakesCase(r, q)
<1>1. CASE Spoiled(r, rows)
  BY <1>1 DEF Left, GraphAsked, MakesTheme, MakesCase
<1>2. CASE ~Spoiled(r, rows) /\ r.op = "rebuild" /\ r.step = "deleting"
  <2>1. PICK l : l = [r EXCEPT !.gone = @ \ rows]
    OBVIOUS
  <2>2. l.op = "rebuild" /\ l.newThemes = r.newThemes /\ l.opens = r.opens /\ DOMAIN l = DOMAIN r
    BY <1>2, <2>1 DEF GraphAsked
  <2>3. Left(r, rows) = l
    BY <1>2, <2>1 DEF Left
  <2> QED
    BY <1>2, <2>2, <2>3 DEF GraphAsked, MakesTheme, MakesCase
<1>3. CASE ~Spoiled(r, rows) /\ ~(r.op = "rebuild" /\ r.step = "deleting")
  BY <1>3 DEF Left
<1> QED
  BY <1>1, <1>2, <1>3

LEMMA NewThemeIsNew == \A n \in NewTheme : n \in {0, 1} /\ (n = 1 => themes = 0)
BY DEF NewTheme

LEMMA GraphCountedStep == GraphCounted /\ [GraphNext]_graphVars => GraphCounted'
<1> SUFFICES ASSUME GraphCounted, [GraphNext]_graphVars PROVE GraphCounted'
  OBVIOUS
<1>1. CASE UNCHANGED graphVars
  BY <1>1 DEF graphVars, GraphCounted, ThemeMakers, CaseMakers
<1>2. ASSUME NEW t \in GraphTxns, BeginRebuild(t) PROVE GraphCounted'
  <2>1. UNCHANGED <<themes, cases>>
    BY <1>2 DEF BeginRebuild
  <2>2. PICK n, del, byJob :
          n \in NewTheme /\ Open(t, [op |-> "rebuild", step |-> "read", newThemes |-> n, del |-> del, byJob |-> byJob,
                      gone |-> {}, adopted |-> {}, opens |-> {}])
    BY <1>2 DEF BeginRebuild
  <2>3. PICK a : a = [op |-> "rebuild", step |-> "read", newThemes |-> n, del |-> del, byJob |-> byJob,
                      gone |-> {}, adopted |-> {}, opens |-> {}]
    OBVIOUS
  <2>4. GraphAsked(a) /\ (MakesTheme(a) => n = 1) /\ \A q : ~MakesCase(a, q)
    BY <2>2, <2>3, NewThemeIsNew DEF GraphAsked, MakesTheme, MakesCase
  <2> QED
    BY <2>1, <2>2, <2>3, <2>4, NewThemeIsNew, GraphBegins
<1>3. ASSUME NEW t \in GraphTxns, BeginLink(t) PROVE GraphCounted'
  <2>1. UNCHANGED <<themes, cases>>
    BY <1>3 DEF BeginLink
  <2>2. PICK q, n, c, insert :
          n \in NewTheme /\ Open(t, [op |-> "link", query |-> q, newThemes |-> n, cluster |-> c, insert |-> insert])
    BY <1>3 DEF BeginLink
  <2>3. PICK a : a = [op |-> "link", query |-> q, newThemes |-> n, cluster |-> c, insert |-> insert]
    OBVIOUS
  <2>4. GraphAsked(a) /\ (MakesTheme(a) => n = 1) /\ \A p : ~MakesCase(a, p)
    BY <2>2, <2>3, NewThemeIsNew DEF GraphAsked, MakesTheme, MakesCase
  <2> QED
    BY <2>1, <2>2, <2>3, <2>4, NewThemeIsNew, GraphBegins
<1>4. ASSUME NEW t \in GraphTxns, BeginAssign(t) \/ BeginSnapshot(t) PROVE GraphCounted'
  <2>1. UNCHANGED <<themes, cases>>
    BY <1>4 DEF BeginAssign, BeginSnapshot
  <2>2. PICK q, c, lock :
          \/ Open(t, [op |-> "assign", query |-> q, cluster |-> c, lock |-> lock])
          \/ Open(t, [op |-> "snapshot", query |-> q, cluster |-> c])
    BY <1>4 DEF BeginAssign, BeginSnapshot
  <2>3. PICK a : /\ Open(t, a)
                 /\ \/ a = [op |-> "assign", query |-> q, cluster |-> c, lock |-> lock]
                    \/ a = [op |-> "snapshot", query |-> q, cluster |-> c]
    BY <2>2
  <2>4. GraphAsked(a) /\ ~MakesTheme(a) /\ \A p : ~MakesCase(a, p)
    BY <2>3 DEF GraphAsked, MakesTheme, MakesCase
  <2> QED
    BY <2>1, <2>3, <2>4, GraphBegins
<1>5. ASSUME NEW t \in GraphTxns,
             CommitDetect(t) \/ CommitAssign(t) \/ CommitLink(t) \/ CommitSnapshot(t) \/ AbortGraph(t)
      PROVE  GraphCounted'
  <2>1. graphTxn' = [u \in GraphTxns |-> graphTxn'[u]] /\ graphTxn'[t] = Closed /\ OthersMakeNoMore(t)
    BY <1>5, ClosesAlone DEF CommitDetect, CommitAssign, CommitLink, CommitSnapshot, AbortGraph
  <2> QED
    BY <1>5, <2>1, GraphEnds DEF CommitDetect, CommitAssign, CommitLink, CommitSnapshot, AbortGraph
<1>6. ASSUME NEW t \in GraphTxns, CommitRebuild(t) PROVE GraphCounted'
  <2>1. graphTxn' = [u \in GraphTxns |-> IF u = t THEN Closed ELSE Left(graphTxn[u], graphTxn[t].gone)]
    BY <1>6 DEF CommitRebuild
  <2>2. graphTxn' = [u \in GraphTxns |-> graphTxn'[u]] /\ graphTxn'[t] = Closed
    BY <2>1
  <2>3. OthersMakeNoMore(t)
    BY <2>1, LeftMakesNoMore DEF OthersMakeNoMore, GraphCounted
  <2> QED
    BY <1>6, <2>2, <2>3, GraphEnds DEF CommitRebuild
<1>7. ASSUME NEW t \in GraphTxns, StartSweep(t) \/ Sweep(t) \/ Adopt(t) PROVE GraphCounted'
  <2>1. graphTxn[t].op = "rebuild" /\ UNCHANGED <<themes, cases>>
    BY <1>7 DEF StartSweep, Sweep, Adopt
  <2>2. PICK r : r = graphTxn[t]
    OBVIOUS
  <2>3. \E a : /\ \/ \E x, y : a = [r EXCEPT !.step = x, !.gone = y]
                  \/ \E z : a = [r EXCEPT !.adopted = z]
               /\ graphTxn' = [graphTxn EXCEPT ![t] = a]
    <3>1. CASE StartSweep(t)
      BY <2>2, <3>1 DEF StartSweep
    <3>2. CASE Sweep(t)
      BY <2>2, <3>2 DEF Sweep
    <3>3. CASE Adopt(t)
      BY <2>2, <3>3 DEF Adopt
    <3> QED
      BY <1>7, <3>1, <3>2, <3>3
  <2>4. PICK a : /\ \/ \E x, y : a = [r EXCEPT !.step = x, !.gone = y]
                    \/ \E z : a = [r EXCEPT !.adopted = z]
                 /\ graphTxn' = [graphTxn EXCEPT ![t] = a]
    BY <2>3
  <2>5. GraphAsked(r) /\ r.op = "rebuild"
    BY <2>1, <2>2 DEF GraphCounted
  <2>6. a.op = "rebuild" /\ a.newThemes = r.newThemes /\ a.opens = r.opens /\ DOMAIN a = DOMAIN r
    BY <2>4, <2>5 DEF GraphAsked
  <2>7. GraphAsked(a) /\ (MakesTheme(a) => MakesTheme(r)) /\ \A q : MakesCase(a, q) => MakesCase(r, q)
    BY <2>5, <2>6 DEF GraphAsked, MakesTheme, MakesCase
  <2> QED
    BY <2>1, <2>2, <2>4, <2>7, GraphReads
<1> QED
  BY <1>1, <1>2, <1>3, <1>4, <1>5, <1>6, <1>7, ReadsCases DEF GraphNext

(* The strategy: drafts, current intakes and active commitments. First     *)
(* what holds of any sets: an image is no larger, and AtMost passes to     *)
(* subsets.                                                                *)
AtMost(S, n) == IsFiniteSet(S) /\ Cardinality(S) <= n

LEMMA FewerStill ==
  ASSUME NEW S, NEW n \in Nat, AtMost(S, n), NEW R, R \subseteq S
  PROVE  AtMost(R, n)
<1>1. IsFiniteSet(R) /\ Cardinality(R) <= Cardinality(S) /\ Cardinality(R) \in Nat /\ Cardinality(S) \in Nat
  BY FS_Subset, FS_CardinalityType DEF AtMost
<1> QED
  BY <1>1 DEF AtMost

Values(f, S) == {f[u] : u \in S}

LEMMA FewValues ==
  ASSUME NEW S, IsFiniteSet(S), NEW f, NEW n \in Nat, Cardinality(S) <= n
  PROVE  AtMost(Values(f, S), n)
<1> DEFINE g == [u \in S |-> f[u]]
<1>1. g \in Surjection(S, Values(f, S))
  BY DEF Surjection, Values
<1>2. IsFiniteSet(Values(f, S)) /\ Cardinality(Values(f, S)) <= Cardinality(S)
  BY <1>1, FS_Surjection
<1>3. Cardinality(Values(f, S)) \in Nat /\ Cardinality(S) \in Nat
  BY <1>2, FS_CardinalityType
<1> QED
  BY <1>2, <1>3 DEF AtMost

LEMMA AndOneMore ==
  ASSUME NEW S, NEW n \in Nat, AtMost(S, n), NEW x, NEW R, R \subseteq S \cup {x}
  PROVE  AtMost(R, n + 1)
<1>1. IsFiniteSet(R) /\ Cardinality(R) <= Cardinality(S) + 1
  BY AtMostOneMore DEF AtMost
<1>2. Cardinality(R) \in Nat /\ Cardinality(S) \in Nat
  BY <1>1, FS_CardinalityType DEF AtMost
<1> QED
  BY <1>1, <1>2 DEF AtMost

(* Current intakes C and approvals O under way, each of an intake of[t]    *)
(* and with those it archives: together n intakes at most, or one approval *)
(* will archive another intake than all those.                             *)
FewCurrent(C, O, of, archives, n) ==
    LET all == C \cup Values(of, O) IN
    \/ AtMost(all, n)
    \/ \E t \in O : \E c \in archives[t] :
         /\ c \notin Values(of, O) /\ of[t] \notin C
         /\ \A u \in O \ {t} : of[u] # of[t]
         /\ AtMost(all \ {c}, n) /\ AtMost(all \ {of[t]}, n)

LEMMA FewCurrentBound ==
  ASSUME NEW C, NEW O, NEW of, NEW archives, NEW n \in Nat, FewCurrent(C, O, of, archives, n)
  PROVE  Cardinality(C) <= n
<1>1. PICK all : all = C \cup Values(of, O)
  OBVIOUS
<1>2. CASE AtMost(all, n)
  <2>1. AtMost(C, n)
    BY <1>1, <1>2, FewerStill
  <2> QED
    BY <2>1 DEF AtMost
<1>3. ASSUME NEW t \in O, of[t] \notin C, AtMost(all \ {of[t]}, n)
      PROVE  Cardinality(C) <= n
  <2>1. C \subseteq all \ {of[t]}
    BY <1>1, <1>3
  <2>2. AtMost(C, n)
    BY <1>3, <2>1, FewerStill
  <2> QED
    BY <2>2 DEF AtMost
<1> QED
  BY <1>1, <1>2, <1>3 DEF FewCurrent

(* An approval begins with one current intake at most.                     *)
LEMMA ApprovalBegins ==
  ASSUME NEW T, IsFiniteSet(T), NEW O, O \subseteq T, NEW t \in O, NEW of, NEW archives,
         NEW C, \A c, d \in C : c = d, archives[t] = C \/ of[t] \in C
  PROVE  FewCurrent(C, O, of, archives, Cardinality(T))
<1>1. PICK n : n = Cardinality(T) /\ n \in Nat
  BY FS_CardinalityType
<1>2. PICK R : R = O \ {t}
  OBVIOUS
<1>3. /\ IsFiniteSet(O) /\ IsFiniteSet(R)
      /\ Cardinality(O) <= n /\ Cardinality(R) <= n - 1
      /\ Cardinality(O) \in Nat /\ Cardinality(R) \in Nat
  <2>1. IsFiniteSet(O) /\ Cardinality(O) <= n
    BY <1>1, FS_Subset
  <2>2. IsFiniteSet(R) /\ Cardinality(R) <= Cardinality(T) - 1
    BY <1>2, AtLeastOneLess
  <2> QED
    BY <1>1, <2>1, <2>2, FS_CardinalityType
<1>4. AtMost(Values(of, O), n)
  BY <1>1, <1>3, FewValues
<1>5. PICK m : m = n - 1 /\ m \in Nat
  BY <1>1, <1>3
<1>6. AtMost(Values(of, R), m)
  BY <1>1, <1>3, <1>5, FewValues
<1>7. Values(of, O) = Values(of, R) \cup {of[t]}
  BY <1>2 DEF Values
<1>8. PICK all : all = C \cup Values(of, O)
  OBVIOUS
<1>9. CASE C \subseteq Values(of, O)
  <2>1. all = Values(of, O)
    BY <1>8, <1>9
  <2> QED
    BY <1>1, <1>4, <1>8, <2>1 DEF FewCurrent
<1>10. ASSUME NEW c \in C, c \notin Values(of, O)
       PROVE  FewCurrent(C, O, of, archives, n)
  <2>1. C = {c} /\ of[t] \notin C /\ c \in archives[t]
    BY <1>7, <1>10
  <2>2. CASE of[t] \in Values(of, R)
    <3>1. all \subseteq Values(of, R) \cup {c}
      BY <1>7, <1>8, <2>1, <2>2
    <3>2. AtMost(all, m + 1)
      BY <1>5, <1>6, <3>1, AndOneMore
    <3>3. AtMost(all, n)
      BY <1>1, <1>5, <3>2
    <3> QED
      BY <1>8, <3>3 DEF FewCurrent
  <2>3. CASE of[t] \notin Values(of, R)
    <3>1. \A u \in O \ {t} : of[u] # of[t]
      BY <1>2, <2>3 DEF Values
    <3>2. AtMost(all \ {c}, n)
      <4>1. all \ {c} \subseteq Values(of, O)
        BY <1>8, <2>1
      <4> QED
        BY <1>1, <1>4, <4>1, FewerStill
    <3>3. AtMost(all \ {of[t]}, n)
      <4>1. all \ {of[t]} \subseteq Values(of, R) \cup {c}
        BY <1>7, <1>8, <2>1
      <4>2. AtMost(all \ {of[t]}, m + 1)
        BY <1>5, <1>6, <4>1, AndOneMore
      <4> QED
        BY <1>1, <1>5, <4>2
    <3> QED
      BY <1>8, <1>10, <2>1, <3>1, <3>2, <3>3 DEF FewCurrent
  <2> QED
    BY <2>2, <2>3
<1> QED
  BY <1>1, <1>9, <1>10

(* An approval ends: it leaves the intakes alone, or its own becomes       *)
(* current in place of those it archives.                                  *)
LEMMA ApprovalEnds ==
  ASSUME NEW n \in Nat, NEW C, NEW O, NEW of, NEW archives, FewCurrent(C, O, of, archives, n),
         NEW t \in O, NEW D, D = C \/ D \subseteq (C \ (archives[t] \ {of[t]})) \cup {of[t]}
  PROVE  FewCurrent(D, O \ {t}, of, archives, n)
<1>1. PICK all, rest : all = C \cup Values(of, O) /\ rest = D \cup Values(of, O \ {t})
  OBVIOUS
<1>2. rest \subseteq all /\ Values(of, O \ {t}) \subseteq Values(of, O) /\ of[t] \in Values(of, O)
  BY <1>1 DEF Values
<1>3. CASE AtMost(rest, n)
  BY <1>1, <1>3 DEF FewCurrent
<1>4. CASE AtMost(all, n)
  BY <1>2, <1>3, <1>4, FewerStill
<1>5. ASSUME NEW v \in O, NEW c \in archives[v],
             c \notin Values(of, O), of[v] \notin C, \A u \in O \ {v} : of[u] # of[v],
             AtMost(all \ {c}, n), AtMost(all \ {of[v]}, n)
      PROVE  FewCurrent(D, O \ {t}, of, archives, n)
  <2>1. CASE v = t /\ D = C
    <3>1. rest \subseteq all \ {of[v]}
      BY <1>1, <1>2, <1>5, <2>1 DEF Values
    <3> QED
      BY <1>3, <1>5, <3>1, FewerStill
  <2>2. CASE v = t /\ D \subseteq (C \ (archives[t] \ {of[t]})) \cup {of[t]}
    <3>1. rest \subseteq all \ {c}
      BY <1>1, <1>2, <1>5, <2>2
    <3> QED
      BY <1>3, <1>5, <3>1, FewerStill
  <2>3. CASE v # t
    <3>1. of[v] # of[t] /\ v \in O \ {t}
      BY <1>5, <2>3
    <3>2. of[v] \notin D /\ c \notin Values(of, O \ {t}) /\ \A u \in (O \ {t}) \ {v} : of[u] # of[v]
      BY <1>2, <1>5, <3>1
    <3>3. AtMost(rest \ {c}, n) /\ AtMost(rest \ {of[v]}, n)
      <4>1. rest \ {c} \subseteq all \ {c} /\ rest \ {of[v]} \subseteq all \ {of[v]}
        BY <1>2
      <4> QED
        BY <1>5, <4>1, FewerStill
    <3> QED
      BY <1>1, <1>5, <3>1, <3>2, <3>3 DEF FewCurrent
  <2> QED
    BY <2>1, <2>2, <2>3
<1> QED
  BY <1>1, <1>4, <1>5 DEF FewCurrent

(* What neither begins nor ends one.                                       *)
LEMMA ApprovalsGoOn ==
  ASSUME NEW n \in Nat, NEW C, NEW O, NEW of, NEW archives, FewCurrent(C, O, of, archives, n),
         NEW D, D \subseteq C, NEW of2, NEW archives2,
         \A t \in O : of2[t] = of[t] /\ archives2[t] = archives[t]
  PROVE  FewCurrent(D, O, of2, archives2, n)
<1>1. PICK all, rest : all = C \cup Values(of, O) /\ rest = D \cup Values(of2, O)
  OBVIOUS
<1>2. Values(of2, O) = Values(of, O) /\ rest \subseteq all
  BY <1>1 DEF Values
<1>3. CASE AtMost(all, n)
  <2>1. AtMost(rest, n)
    BY <1>2, <1>3, FewerStill
  <2> QED
    BY <1>1, <2>1 DEF FewCurrent
<1>4. ASSUME NEW v \in O, NEW c \in archives[v],
             c \notin Values(of, O), of[v] \notin C, \A u \in O \ {v} : of[u] # of[v],
             AtMost(all \ {c}, n), AtMost(all \ {of[v]}, n)
      PROVE  FewCurrent(D, O, of2, archives2, n)
  <2>1. c \in archives2[v] /\ c \notin Values(of2, O) /\ of2[v] \notin D /\ \A u \in O \ {v} : of2[u] # of2[v]
    BY <1>2, <1>4
  <2>2. rest \ {c} \subseteq all \ {c} /\ rest \ {of2[v]} \subseteq all \ {of[v]}
    BY <1>2, <1>4
  <2>3. AtMost(rest \ {c}, n) /\ AtMost(rest \ {of2[v]}, n)
    BY <1>4, <2>2, FewerStill
  <2> QED
    BY <1>1, <2>1, <2>3 DEF FewCurrent
<1> QED
  BY <1>1, <1>3, <1>4 DEF FewCurrent

(* Active commitments C and requests P for one: nr[t] is the number of t,  *)
(* archives[t] what its UPDATE saw. Up to any of them, those that stay     *)
(* with it are n at most.                                                  *)
StayWith(C, P, nr, y, gone) ==
    ({x \in C : x <= y} \ gone) \cup Values(nr, {u \in P : nr[u] <= y})

FewPromised(C, P, nr, archives, n) ==
    /\ \A y \in C : AtMost(StayWith(C, P, nr, y, {}), n)
    /\ \A t \in P : AtMost(StayWith(C, P, nr, nr[t], archives[t]), n)

LEMMA FewPromisedBound ==
  ASSUME NEW C, C \subseteq Nat, NEW b \in Nat, \A x \in C : x <= b,
         NEW P, NEW nr, NEW archives, NEW n \in Nat, FewPromised(C, P, nr, archives, n)
  PROVE  Cardinality(C) <= n
<1>1. CASE C = {}
  BY <1>1, FS_EmptySet
<1>2. CASE C # {}
  <2> DEFINE D == {d \in Nat : \A x \in C : x <= d}
  <2>1. PICK d \in D : \A e \in D : d <= e
    <3>1. D \subseteq Nat /\ b \in D
      OBVIOUS
    <3> HIDE DEF D
    <3> QED
      BY <3>1, LeastNumber
  <2>2. d \in C
    <3> SUFFICES ASSUME d \notin C PROVE FALSE
      OBVIOUS
    <3>1. d \in Nat /\ \A x \in C : x \in Nat /\ x <= d /\ x # d
      BY <2>1
    <3>2. PICK x \in C : TRUE
      BY <1>2
    <3>3. d - 1 \in Nat /\ \A y \in C : y <= d - 1
      BY <3>1, <3>2
    <3>4. d - 1 \in D
      BY <3>3
    <3> QED
      BY <2>1, <3>1, <3>4
  <2>3. C \subseteq StayWith(C, P, nr, d, {})
    BY <2>1 DEF StayWith
  <2>4. AtMost(C, n)
    BY <2>2, <2>3, FewerStill DEF FewPromised
  <2> QED
    BY <2>4 DEF AtMost
<1> QED
  BY <1>1, <1>2

(* A request for one begins with a number above all others.                *)
LEMMA PromiseBegins ==
  ASSUME NEW T, IsFiniteSet(T), NEW P, P \subseteq T, NEW t \in T, NEW C, NEW nr, NEW archives,
         FewPromised(C, P, nr, archives, Cardinality(T)),
         NEW nr2, NEW archives2, \A u \in P : nr2[u] = nr[u] /\ archives2[u] = archives[u],
         t \notin P, archives2[t] = C, nr2[t] \in Nat, C \subseteq Nat, \A x \in C : x < nr2[t],
         \A u \in P : nr[u] \in Nat /\ nr[u] < nr2[t]
  PROVE  FewPromised(C, P \cup {t}, nr2, archives2, Cardinality(T))
<1>1. PICK n : n = Cardinality(T) /\ n \in Nat
  BY FS_CardinalityType
<1>2. ASSUME NEW y, y \in C \/ y \in Values(nr, P)
      PROVE  Values(nr2, {u \in P \cup {t} : nr2[u] <= y}) = Values(nr, {u \in P : nr[u] <= y})
  <2>1. y \in Nat /\ y < nr2[t]
    BY <1>2 DEF Values
  <2>2. {u \in P \cup {t} : nr2[u] <= y} = {u \in P : nr[u] <= y}
    BY <2>1
  <2> QED
    BY <2>2 DEF Values
<1>3. ASSUME NEW y \in C PROVE AtMost(StayWith(C, P \cup {t}, nr2, y, {}), n)
  BY <1>1, <1>2 DEF FewPromised, StayWith
<1>4. ASSUME NEW u \in P PROVE AtMost(StayWith(C, P \cup {t}, nr2, nr2[u], archives2[u]), n)
  <2>1. nr2[u] = nr[u] /\ archives2[u] = archives[u] /\ nr[u] \in Values(nr, P)
    BY DEF Values
  <2>2. AtMost(StayWith(C, P, nr, nr[u], archives[u]), n)
    BY <1>1 DEF FewPromised
  <2>3. StayWith(C, P \cup {t}, nr2, nr2[u], archives2[u]) = StayWith(C, P, nr, nr[u], archives[u])
    BY <1>2, <2>1 DEF StayWith
  <2> QED
    BY <2>2, <2>3
<1>5. AtMost(StayWith(C, P \cup {t}, nr2, nr2[t], archives2[t]), n)
  <2>1. PICK Q : Q = {u \in P \cup {t} : nr2[u] <= nr2[t]}
    OBVIOUS
  <2>2. IsFiniteSet(Q) /\ Cardinality(Q) <= n
    <3>1. Q \subseteq T
      BY <2>1
    <3> QED
      BY <1>1, <3>1, FS_Subset
  <2>3. AtMost(Values(nr2, Q), n)
    BY <1>1, <2>2, FewValues
  <2>4. StayWith(C, P \cup {t}, nr2, nr2[t], archives2[t]) = Values(nr2, Q)
    BY <2>1 DEF StayWith
  <2> QED
    BY <2>3, <2>4
<1> QED
  BY <1>1, <1>3, <1>4, <1>5 DEF FewPromised

(* It ends with its number in place of what it saw, or with nothing; and   *)
(* commitments may go at any time.                                         *)
LEMMA PromiseEnds ==
  ASSUME NEW n \in Nat, NEW C, NEW P, NEW nr, NEW archives, FewPromised(C, P, nr, archives, n),
         NEW t \in P, nr[t] \in Nat, NEW D, D \subseteq C \/ D = (C \ archives[t]) \cup {nr[t]}
  PROVE  FewPromised(D, P \ {t}, nr, archives, n)
<1>1. ASSUME NEW y, NEW gone, D \subseteq C
      PROVE  StayWith(D, P \ {t}, nr, y, gone) \subseteq StayWith(C, P, nr, y, gone)
  BY <1>1 DEF StayWith, Values
<1>2. ASSUME NEW y, NEW gone, D = (C \ archives[t]) \cup {nr[t]}
      PROVE  StayWith(D, P \ {t}, nr, y, gone) \subseteq StayWith(C, P, nr, y, gone)
  <2> SUFFICES ASSUME NEW x \in StayWith(D, P \ {t}, nr, y, gone) PROVE x \in StayWith(C, P, nr, y, gone)
    OBVIOUS
  <2>1. CASE x = nr[t] /\ x <= y
    BY <2>1 DEF StayWith, Values
  <2>2. CASE x \in C /\ x <= y /\ x \notin gone
    BY <2>2 DEF StayWith
  <2>3. CASE x \in Values(nr, {u \in P \ {t} : nr[u] <= y})
    BY <2>3 DEF StayWith, Values
  <2> QED
    BY <1>2, <2>1, <2>2, <2>3 DEF StayWith
<1>3. \A y, gone : StayWith(D, P \ {t}, nr, y, gone) \subseteq StayWith(C, P, nr, y, gone)
  BY <1>1, <1>2
<1>4. ASSUME NEW u \in P \ {t} PROVE AtMost(StayWith(D, P \ {t}, nr, nr[u], archives[u]), n)
  <2>1. AtMost(StayWith(C, P, nr, nr[u], archives[u]), n)
    BY DEF FewPromised
  <2> QED
    BY <1>3, <2>1, FewerStill
<1>5. ASSUME NEW y \in D, y \in C PROVE AtMost(StayWith(D, P \ {t}, nr, y, {}), n)
  <2>1. AtMost(StayWith(C, P, nr, y, {}), n)
    BY <1>5 DEF FewPromised
  <2> QED
    BY <1>3, <2>1, FewerStill
<1>6. ASSUME NEW y \in D, y \notin C PROVE AtMost(StayWith(D, P \ {t}, nr, y, {}), n)
  <2>1. y = nr[t] /\ D = (C \ archives[t]) \cup {nr[t]}
    BY <1>6
  <2>2. AtMost(StayWith(C, P, nr, nr[t], archives[t]), n)
    BY DEF FewPromised
  <2>3. StayWith(D, P \ {t}, nr, y, {}) \subseteq StayWith(C, P, nr, nr[t], archives[t])
    <3> SUFFICES ASSUME NEW x \in StayWith(D, P \ {t}, nr, y, {})
                 PROVE  x \in StayWith(C, P, nr, nr[t], archives[t])
      OBVIOUS
    <3>1. CASE x = nr[t]
      BY <2>1, <3>1 DEF StayWith, Values
    <3>2. CASE x \in C /\ x <= y /\ x \notin archives[t]
      BY <2>1, <3>2 DEF StayWith
    <3>3. CASE x \in Values(nr, {u \in P \ {t} : nr[u] <= y})
      BY <2>1, <3>3 DEF StayWith, Values
    <3> QED
      BY <2>1, <3>1, <3>2, <3>3 DEF StayWith
  <2> QED
    BY <2>2, <2>3, FewerStill
<1> QED
  BY <1>4, <1>5, <1>6 DEF FewPromised

LEMMA PromisesGoOn ==
  ASSUME NEW n \in Nat, NEW C, NEW P, NEW nr, NEW archives, FewPromised(C, P, nr, archives, n),
         NEW D, D \subseteq C, NEW nr2, NEW archives2,
         \A u \in P : nr2[u] = nr[u] /\ archives2[u] = archives[u]
  PROVE  FewPromised(D, P, nr2, archives2, n)
<1>1. ASSUME NEW y, NEW gone PROVE StayWith(D, P, nr2, y, gone) \subseteq StayWith(C, P, nr, y, gone)
  <2>1. Values(nr2, {u \in P : nr2[u] <= y}) = Values(nr, {u \in P : nr[u] <= y})
    BY DEF Values
  <2> QED
    BY <2>1 DEF StayWith
<1>2. ASSUME NEW u \in P PROVE AtMost(StayWith(D, P, nr2, nr2[u], archives2[u]), n)
  <2>1. AtMost(StayWith(C, P, nr, nr[u], archives[u]), n)
    BY DEF FewPromised
  <2>2. StayWith(D, P, nr2, nr2[u], archives2[u]) \subseteq StayWith(C, P, nr, nr[u], archives[u])
    BY <1>1
  <2> QED
    BY <2>1, <2>2, FewerStill
<1>3. ASSUME NEW y \in D PROVE AtMost(StayWith(D, P, nr2, y, {}), n)
  <2>1. AtMost(StayWith(C, P, nr, y, {}), n)
    BY DEF FewPromised
  <2> QED
    BY <1>1, <2>1, FewerStill
<1> QED
  BY <1>2, <1>3 DEF FewPromised

(* What the requests that are open will add.                               *)
Drafting   == {t \in StratTxns : stratTxn[t].op = "draft"}
Approving  == {t \in StratTxns : stratTxn[t].op \in {"apply", "impact"}}
Promising  == {t \in StratTxns : stratTxn[t].op = "commitment"}
IntakeOf   == [t \in StratTxns |-> stratTxn[t].intake]
ArchivedBy == [t \in StratTxns |-> stratTxn[t].archive]
NrOf       == [t \in StratTxns |-> stratTxn[t].nr]

FewDrafts == Cardinality(Drafts) + Cardinality(Drafting) <= Cardinality(StratTxns)

Numbered ==
    /\ commitments \subseteq Nat /\ \A x \in commitments : x < stratBegun
    /\ \A t \in Promising : NrOf[t] \in Nat /\ NrOf[t] < stratBegun

StratCounted ==
    /\ StratTyped /\ FewDrafts /\ Numbered
    /\ FewCurrent(Currents, Approving, IntakeOf, ArchivedBy, Cardinality(StratTxns))
    /\ FewPromised(commitments, Promising, NrOf, ArchivedBy, Cardinality(StratTxns))

LEMMA SizeOfStratTxns == IsFiniteSet(StratTxns) /\ Cardinality(StratTxns) \in Nat
BY StrategyAssumption, FS_CardinalityType

LEMMA StratCountedInit == StratInit => StratCounted
<1> SUFFICES ASSUME StratInit PROVE StratCounted
  OBVIOUS
<1>1. \A t \in StratTxns : stratTxn[t].op = "ended"
  BY DEF StratInit, Ended
<1>2. Drafting = {} /\ Approving = {} /\ Promising = {}
  BY <1>1 DEF Drafting, Approving, Promising
<1>3. Drafts = {} /\ Currents = {} /\ commitments = {}
  BY DEF StratInit, Drafts, Currents
<1>4. PICK n : n = Cardinality(StratTxns) /\ n \in Nat
  BY SizeOfStratTxns
<1>5. AtMost({}, n)
  BY <1>4, FS_EmptySet DEF AtMost
<1>6. Cardinality({}) = 0
  BY FS_EmptySet
<1>7. FewDrafts
  BY <1>2, <1>3, <1>4, <1>6 DEF FewDrafts
<1>8. FewCurrent({}, {}, IntakeOf, ArchivedBy, n)
  BY <1>5 DEF FewCurrent, Values
<1>9. FewPromised({}, {}, NrOf, ArchivedBy, n)
  BY DEF FewPromised
<1>10. Numbered
  BY <1>2, <1>3 DEF Numbered
<1> QED
  BY <1>2, <1>3, <1>4, <1>7, <1>8, <1>9, <1>10, StratTypedInit DEF StratCounted

LEMMA FewDraftsKept ==
  ASSUME StratTyped, StratTyped', FewDrafts,
         \/ Drafts' = {}
         \/ Drafts' \subseteq Drafts /\ Drafting' \subseteq Drafting
         \/ \E x : Drafts' \subseteq Drafts \cup {x} /\ \E t \in Drafting : Drafting' \subseteq Drafting \ {t}
  PROVE  FewDrafts'
<1>1. intakes \in Seq(IntakeRow) /\ intakes' \in Seq(IntakeRow)
  BY DEF StratTyped, StratTypeOK, IntakeRow
<1>2. IsFiniteSet(1 .. Len(intakes)) /\ IsFiniteSet(1 .. Len(intakes'))
  BY <1>1, FS_Interval
<1>3. Drafts \subseteq 1 .. Len(intakes) /\ Drafts' \subseteq 1 .. Len(intakes')
  BY <1>1 DEF Drafts
<1>4. IsFiniteSet(Drafts) /\ IsFiniteSet(Drafts')
  BY <1>2, <1>3, FS_Subset
<1>5. PICK C, D, A, B : C = Drafts /\ D = Drafts' /\ A = Drafting /\ B = Drafting'
  OBVIOUS
<1>6. PICK n, m : n = Cardinality(C) /\ m = Cardinality(D) /\ n \in Nat /\ m \in Nat
  BY <1>4, <1>5, FS_CardinalityType
<1>7. A \subseteq StratTxns /\ B \subseteq StratTxns /\ n + Cardinality(A) <= Cardinality(StratTxns)
  BY <1>5, <1>6 DEF Drafting, FewDrafts
<1>8. CASE D = {}
  <2>1. m = 0
    BY <1>6, <1>8, FS_EmptySet
  <2>2. m + Cardinality(B) <= Cardinality(StratTxns)
    BY <1>6, <1>7, <2>1, SizeOfStratTxns, ClaimsKept
  <2> QED
    BY <1>5, <1>6, <2>2 DEF FewDrafts
<1>9. CASE D \subseteq C /\ B \subseteq A
  <2>1. m <= n
    BY <1>4, <1>5, <1>6, <1>9, FS_Subset
  <2>2. m + Cardinality(B) <= Cardinality(StratTxns)
    BY <1>6, <1>7, <1>9, <2>1, SizeOfStratTxns, ClaimsKept
  <2> QED
    BY <1>5, <1>6, <2>2 DEF FewDrafts
<1>10. ASSUME NEW x, D \subseteq C \cup {x}, NEW t \in A, B \subseteq A \ {t}
       PROVE  FewDrafts'
  <2>1. m <= n + 1
    BY <1>4, <1>5, <1>6, <1>10, AtMostOneMore
  <2>2. m + Cardinality(B) <= Cardinality(StratTxns)
    BY <1>6, <1>7, <1>10, <2>1, SizeOfStratTxns, ClaimsKept
  <2> QED
    BY <1>5, <1>6, <2>2 DEF FewDrafts
<1> QED
  BY <1>5, <1>8, <1>9, <1>10

(* Only the request of t changes: what the others will add stays.          *)
LEMMA OnlyOneChanges ==
  ASSUME NEW t \in StratTxns, NEW a, a = stratTxn'[t],
         \A u \in StratTxns \ {t} : stratTxn'[u] = stratTxn[u]
  PROVE  /\ Drafting' = (Drafting \ {t}) \cup {u \in {t} : a.op = "draft"}
         /\ Approving' = (Approving \ {t}) \cup {u \in {t} : a.op \in {"apply", "impact"}}
         /\ Promising' = (Promising \ {t}) \cup {u \in {t} : a.op = "commitment"}
         /\ \A u \in StratTxns \ {t} : /\ IntakeOf'[u] = IntakeOf[u]
                                       /\ ArchivedBy'[u] = ArchivedBy[u] /\ NrOf'[u] = NrOf[u]
         /\ IntakeOf'[t] = a.intake /\ ArchivedBy'[t] = a.archive /\ NrOf'[t] = a.nr
<1>1. \A u \in StratTxns \ {t} : /\ IntakeOf'[u] = IntakeOf[u]
                                 /\ ArchivedBy'[u] = ArchivedBy[u] /\ NrOf'[u] = NrOf[u]
  BY DEF IntakeOf, ArchivedBy, NrOf
<1>2. IntakeOf'[t] = a.intake /\ ArchivedBy'[t] = a.archive /\ NrOf'[t] = a.nr
  BY DEF IntakeOf, ArchivedBy, NrOf
<1>3. Drafting' = (Drafting \ {t}) \cup {u \in {t} : a.op = "draft"}
  BY DEF Drafting
<1>4. Approving' = (Approving \ {t}) \cup {u \in {t} : a.op \in {"apply", "impact"}}
  BY DEF Approving
<1>5. Promising' = (Promising \ {t}) \cup {u \in {t} : a.op = "commitment"}
  BY DEF Promising
<1> QED
  BY <1>1, <1>2, <1>3, <1>4, <1>5

LEMMA StratBegins ==
  ASSUME StratCounted, NEW t \in StratTxns, NEW request, BeginStrat(t, request), AsAsked(request),
         request.op = "draft" => Drafts = {},
         request.op \in {"apply", "impact"} =>
           /\ \A c, d \in Currents : c = d
           /\ request.archive = Currents \/ request.intake \in Currents,
         request.op = "commitment" => request.nr = stratBegun /\ request.archive = commitments
  PROVE  StratCounted'
<1>1. StratTyped' /\ stratTxn'[t] = request /\ \A u \in StratTxns \ {t} : stratTxn'[u] = stratTxn[u]
  BY BeginStratTyped DEF StratCounted
<1>2. /\ stratTxn[t].op = "ended" /\ stratBegun' = stratBegun + 1
      /\ UNCHANGED <<intakes, rules, node, stratOpps, commitments>>
  BY DEF BeginStrat, Ended
<1>3. t \notin Drafting /\ t \notin Approving /\ t \notin Promising
  BY <1>2 DEF Drafting, Approving, Promising
<1>4. PICK n : n = Cardinality(StratTxns) /\ n \in Nat
  BY SizeOfStratTxns
<1>5. /\ Drafting' = Drafting \cup {u \in {t} : request.op = "draft"}
      /\ Approving' = Approving \cup {u \in {t} : request.op \in {"apply", "impact"}}
      /\ Promising' = Promising \cup {u \in {t} : request.op = "commitment"}
      /\ \A u \in StratTxns \ {t} : /\ IntakeOf'[u] = IntakeOf[u]
                                    /\ ArchivedBy'[u] = ArchivedBy[u] /\ NrOf'[u] = NrOf[u]
      /\ IntakeOf'[t] = request.intake /\ ArchivedBy'[t] = request.archive /\ NrOf'[t] = request.nr
  BY <1>1, <1>3, OnlyOneChanges
<1>6. Drafts' = Drafts /\ Currents' = Currents
  BY <1>2 DEF Drafts, Currents
<1>7. FewDrafts'
  <2>1. CASE request.op = "draft"
    BY <1>1, <1>6, <2>1, FewDraftsKept DEF StratCounted
  <2>2. CASE request.op # "draft"
    BY <1>1, <1>5, <1>6, <2>2, FewDraftsKept DEF StratCounted
  <2> QED
    BY <2>1, <2>2
<1>8. FewCurrent(Currents', Approving', IntakeOf', ArchivedBy', n)
  <2>1. PICK C, O, of, archives, of2, archives2 :
          /\ C = Currents /\ O = Approving /\ of = IntakeOf /\ archives = ArchivedBy
          /\ of2 = IntakeOf' /\ archives2 = ArchivedBy'
    OBVIOUS
  <2>2. O \subseteq StratTxns \ {t} /\ FewCurrent(C, O, of, archives, n)
    BY <1>3, <1>4, <2>1 DEF Approving, StratCounted
  <2>3. CASE request.op \in {"apply", "impact"}
    <3>1. PICK O2 : O2 = O \cup {t}
      OBVIOUS
    <3>2. O2 \subseteq StratTxns /\ t \in O2 /\ (archives2[t] = C \/ of2[t] \in C) /\ \A c, d \in C : c = d
      BY <1>5, <2>1, <2>2, <2>3, <3>1
    <3>3. FewCurrent(C, O2, of2, archives2, n)
      BY <1>4, <3>2, SizeOfStratTxns, ApprovalBegins
    <3>4. Approving' = O2
      BY <1>5, <2>1, <2>3, <3>1
    <3> QED
      BY <1>6, <2>1, <3>3, <3>4
  <2>4. CASE request.op \notin {"apply", "impact"}
    <3>1. \A u \in O : of2[u] = of[u] /\ archives2[u] = archives[u]
      BY <1>5, <2>1, <2>2
    <3>2. FewCurrent(C, O, of2, archives2, n)
      BY <1>4, <2>2, <3>1, ApprovalsGoOn
    <3>3. Approving' = O
      BY <1>5, <2>1, <2>4
    <3> QED
      BY <1>6, <2>1, <3>2, <3>3
  <2> QED
    BY <2>3, <2>4
<1>9. Numbered' /\ FewPromised(commitments', Promising', NrOf', ArchivedBy', n)
  <2>1. PICK C, P, nr, archives, nr2, archives2, b :
          /\ C = commitments /\ P = Promising /\ nr = NrOf /\ archives = ArchivedBy
          /\ nr2 = NrOf' /\ archives2 = ArchivedBy' /\ b = stratBegun
    OBVIOUS
  <2>2. /\ P \subseteq StratTxns \ {t} /\ FewPromised(C, P, nr, archives, n) /\ b \in Nat
        /\ C \subseteq Nat /\ \A x \in C : x < b
        /\ \A u \in P : nr[u] \in Nat /\ nr[u] < b
    BY <1>3, <1>4, <2>1, StrategyAssumption DEF Promising, StratCounted, Numbered, StratTyped, StratTypeOK
  <2>3. \A u \in P : nr2[u] = nr[u] /\ archives2[u] = archives[u]
    BY <1>5, <2>1, <2>2
  <2>4. CASE request.op = "commitment"
    <3>1. nr2[t] = b /\ archives2[t] = C /\ Promising' = P \cup {t}
      BY <1>5, <2>1, <2>4
    <3>2. FewPromised(C, P \cup {t}, nr2, archives2, n)
      <4>1. t \notin P /\ P \subseteq StratTxns
        BY <2>2
      <4>2. FewPromised(C, P, nr, archives, Cardinality(StratTxns))
        BY <1>4, <2>2
      <4>3. FewPromised(C, P \cup {t}, nr2, archives2, Cardinality(StratTxns))
        BY <2>2, <2>3, <3>1, <4>1, <4>2, SizeOfStratTxns, PromiseBegins
      <4> QED
        BY <1>4, <4>3
    <3>3. \A x \in C : x < b + 1
      BY <2>2
    <3>4. \A u \in P \cup {t} : nr2[u] \in Nat /\ nr2[u] < b + 1
      BY <2>2, <2>3, <3>1
    <3> QED
      BY <1>2, <2>1, <2>2, <3>1, <3>2, <3>3, <3>4 DEF Numbered
  <2>5. CASE request.op # "commitment"
    <3>1. Promising' = P
      BY <1>5, <2>1, <2>5
    <3>2. FewPromised(C, P, nr2, archives2, n)
      BY <1>4, <2>2, <2>3, PromisesGoOn
    <3>3. \A x \in C : x < b + 1
      BY <2>2
    <3>4. \A u \in P : nr2[u] \in Nat /\ nr2[u] < b + 1
      BY <2>2, <2>3
    <3> QED
      BY <1>2, <2>1, <2>2, <3>1, <3>2, <3>3, <3>4 DEF Numbered
  <2> QED
    BY <2>4, <2>5
<1> QED
  BY <1>1, <1>4, <1>7, <1>8, <1>9 DEF StratCounted

(* A request ends, with what it adds or with nothing.                      *)
LEMMA StratEnds ==
  ASSUME StratCounted, StratTyped', NEW t \in StratTxns, NEW a, a = stratTxn[t], End(t),
         Drafts' \subseteq Drafts \/ (a.op = "draft" /\ \E x : Drafts' \subseteq Drafts \cup {x}),
         \/ Currents' = Currents
         \/ a.op = "impact" /\ Currents' \subseteq (Currents \ (a.archive \ {a.intake})) \cup {a.intake},
         \/ commitments' = commitments
         \/ a.op = "commitment" /\ commitments' = (commitments \ a.archive) \cup {a.nr}
  PROVE  StratCounted'
<1>1. /\ stratTxn'[t] = Ended /\ stratBegun' = stratBegun
      /\ \A u \in StratTxns \ {t} : stratTxn'[u] = stratTxn[u]
  <2>1. stratTxn = [u \in StratTxns |-> stratTxn[u]]
    BY DEF StratCounted, StratTyped
  <2> QED
    BY <2>1 DEF End
<1>2. Ended.op = "ended"
  BY DEF Ended
<1>3. PICK n : n = Cardinality(StratTxns) /\ n \in Nat
  BY SizeOfStratTxns
<1>4. PICK e : e = Ended /\ e = stratTxn'[t] /\ e.op = "ended"
  BY <1>1, <1>2
<1>5. /\ Drafting' = Drafting \ {t} /\ Approving' = Approving \ {t} /\ Promising' = Promising \ {t}
      /\ \A u \in StratTxns \ {t} : /\ IntakeOf'[u] = IntakeOf[u]
                                    /\ ArchivedBy'[u] = ArchivedBy[u] /\ NrOf'[u] = NrOf[u]
  BY <1>1, <1>4, OnlyOneChanges
<1>6. FewDrafts'
  <2>1. CASE Drafts' \subseteq Drafts
    BY <1>5, <2>1, FewDraftsKept DEF StratCounted
  <2>2. CASE a.op = "draft" /\ \E x : Drafts' \subseteq Drafts \cup {x}
    <3>1. t \in Drafting
      BY <2>2 DEF Drafting
    <3> QED
      BY <1>5, <2>2, <3>1, FewDraftsKept DEF StratCounted
  <2> QED
    BY <2>1, <2>2
<1>7. FewCurrent(Currents', Approving', IntakeOf', ArchivedBy', n)
  <2>1. PICK C, D, O, of, archives, of2, archives2 :
          /\ C = Currents /\ D = Currents' /\ O = Approving /\ of = IntakeOf /\ archives = ArchivedBy
          /\ of2 = IntakeOf' /\ archives2 = ArchivedBy'
    OBVIOUS
  <2>2. FewCurrent(C, O, of, archives, n) /\ O \subseteq StratTxns
    BY <1>3, <2>1 DEF Approving, StratCounted
  <2>3. FewCurrent(D, O \ {t}, of, archives, n)
    <3>1. CASE t \in O
      <4>1. of[t] = a.intake /\ archives[t] = a.archive
        BY <2>1 DEF IntakeOf, ArchivedBy
      <4>2. D = C \/ D \subseteq (C \ (archives[t] \ {of[t]})) \cup {of[t]}
        BY <2>1, <4>1
      <4> QED
        BY <1>3, <2>2, <3>1, <4>2, ApprovalEnds
    <3>2. CASE t \notin O
      <4>1. a.op # "impact"
        BY <2>1, <3>2 DEF Approving
      <4>2. D = C /\ O \ {t} = O
        BY <2>1, <3>2, <4>1
      <4> QED
        BY <2>2, <4>2
    <3> QED
      BY <3>1, <3>2
  <2>4. \A u \in O \ {t} : of2[u] = of[u] /\ archives2[u] = archives[u]
    BY <1>5, <2>1, <2>2
  <2>5. FewCurrent(D, O \ {t}, of2, archives2, n)
    BY <1>3, <2>3, <2>4, ApprovalsGoOn
  <2> QED
    BY <1>5, <2>1, <2>5
<1>8. Numbered' /\ FewPromised(commitments', Promising', NrOf', ArchivedBy', n)
  <2>1. PICK C, D, P, nr, archives, nr2, archives2, b :
          /\ C = commitments /\ D = commitments' /\ P = Promising /\ nr = NrOf /\ archives = ArchivedBy
          /\ nr2 = NrOf' /\ archives2 = ArchivedBy' /\ b = stratBegun
    OBVIOUS
  <2>2. /\ P \subseteq StratTxns /\ FewPromised(C, P, nr, archives, n)
        /\ C \subseteq Nat /\ \A x \in C : x < b
        /\ \A u \in P : nr[u] \in Nat /\ nr[u] < b
    BY <1>3, <2>1 DEF Promising, StratCounted, Numbered
  <2>3. \A u \in P \ {t} : nr2[u] = nr[u] /\ archives2[u] = archives[u]
    BY <1>5, <2>1, <2>2
  <2>4. D = C \/ (t \in P /\ D = (C \ archives[t]) \cup {nr[t]})
    BY <2>1 DEF Promising, ArchivedBy, NrOf
  <2>5. FewPromised(D, P \ {t}, nr, archives, n) /\ D \subseteq Nat /\ \A x \in D : x < b
    <3>1. CASE t \in P
      <4>1. FewPromised(D, P \ {t}, nr, archives, n)
        BY <1>3, <2>2, <2>4, <3>1, PromiseEnds
      <4> QED
        BY <2>2, <2>4, <3>1, <4>1
    <3>2. CASE t \notin P
      <4>1. D = C /\ P \ {t} = P
        BY <2>4, <3>2
      <4> QED
        BY <2>2, <4>1
    <3> QED
      BY <3>1, <3>2
  <2>6. FewPromised(D, P \ {t}, nr2, archives2, n)
    BY <1>3, <2>3, <2>5, PromisesGoOn
  <2>7. \A u \in P \ {t} : nr2[u] \in Nat /\ nr2[u] < b
    BY <2>2, <2>3
  <2> QED
    BY <1>1, <1>5, <2>1, <2>5, <2>6, <2>7 DEF Numbered
<1> QED
  BY <1>3, <1>6, <1>7, <1>8 DEF StratCounted

(* Nothing begins and nothing ends.                                        *)
LEMMA StratStays ==
  ASSUME StratCounted, StratTyped', UNCHANGED <<intakes, stratBegun>>, commitments' \subseteq commitments,
         Drafting' = Drafting, Approving' = Approving, Promising' = Promising,
         \A u \in Approving : IntakeOf'[u] = IntakeOf[u] /\ ArchivedBy'[u] = ArchivedBy[u],
         \A u \in Promising : NrOf'[u] = NrOf[u] /\ ArchivedBy'[u] = ArchivedBy[u]
  PROVE  StratCounted'
<1>1. PICK n : n = Cardinality(StratTxns) /\ n \in Nat
  BY SizeOfStratTxns
<1>2. Drafts' = Drafts /\ Currents' = Currents
  BY DEF Drafts, Currents
<1>3. FewDrafts'
  BY <1>2, FewDraftsKept DEF StratCounted
<1>4. PICK C, D, O, P, of, nr, archives, of2, nr2, archives2 :
        /\ C = commitments /\ D = commitments' /\ O = Approving /\ P = Promising
        /\ of = IntakeOf /\ nr = NrOf /\ archives = ArchivedBy
        /\ of2 = IntakeOf' /\ nr2 = NrOf' /\ archives2 = ArchivedBy'
  OBVIOUS
<1>5. FewCurrent(Currents', Approving', IntakeOf', ArchivedBy', n)
  <2>1. PICK E : E = Currents
    OBVIOUS
  <2>2. FewCurrent(E, O, of, archives, n)
    BY <1>1, <1>4, <2>1 DEF StratCounted
  <2>3. \A u \in O : of2[u] = of[u] /\ archives2[u] = archives[u]
    BY <1>4
  <2>4. FewCurrent(E, O, of2, archives2, n)
    BY <1>1, <2>2, <2>3, ApprovalsGoOn
  <2> QED
    BY <1>2, <1>4, <2>1, <2>4
<1>6. FewPromised(commitments', Promising', NrOf', ArchivedBy', n)
  <2>1. FewPromised(C, P, nr, archives, n) /\ D \subseteq C
    BY <1>1, <1>4 DEF StratCounted
  <2>2. \A u \in P : nr2[u] = nr[u] /\ archives2[u] = archives[u]
    BY <1>4
  <2>3. FewPromised(D, P, nr2, archives2, n)
    BY <1>1, <2>1, <2>2, PromisesGoOn
  <2> QED
    BY <1>4, <2>3
<1>7. Numbered'
  BY DEF StratCounted, Numbered
<1> QED
  BY <1>1, <1>3, <1>5, <1>6, <1>7 DEF StratCounted

LEMMA OnlyOneCurrent ==
  ASSUME StratTyped, Cardinality(Currents) <= 1 PROVE \A c, d \in Currents : c = d
<1>1. intakes \in Seq(IntakeRow)
  BY DEF StratTyped, StratTypeOK, IntakeRow
<1>2. IsFiniteSet(1 .. Len(intakes))
  BY <1>1, FS_Interval
<1>3. Currents \subseteq 1 .. Len(intakes)
  BY <1>1 DEF Currents
<1>4. IsFiniteSet(Currents)
  BY <1>2, <1>3, FS_Subset
<1> SUFFICES ASSUME NEW c \in Currents, NEW d \in Currents, c # d PROVE FALSE
  OBVIOUS
<1>5. IsFiniteSet({d}) /\ Cardinality({d}) = 1
  BY FS_Singleton
<1>6. {d} \subseteq Currents \ {c}
  OBVIOUS
<1>7. Cardinality({d}) <= Cardinality(Currents) - 1
  BY <1>4, <1>6, AtLeastOneLess
<1> QED
  BY <1>4, <1>5, <1>7, FS_CardinalityType

(* Every step of the strategy, however its requests overlap.               *)
LEMMA OverlappingBegin ==
  ASSUME StratCounted, NEW t \in StratTxns,
         \/ BeginCreateIntake(t) \/ BeginForkIntake(t) \/ BeginUpdateIntake(t)
         \/ BeginApproveIntake(t) \/ BeginReapplyIntake(t)
         \/ BeginNode(t) \/ BeginApproveNode(t) \/ BeginScan(t) \/ BeginCommitment(t)
  PROVE  StratCounted'
<1>1. StratTyped
  BY DEF StratCounted
<1>2. ASSUME BeginCreateIntake(t) \/ BeginForkIntake(t) PROVE StratCounted'
  <2>1. PICK request : BeginStrat(t, request) /\ AsAsked(request) /\ request.op \in {"draft", "update"}
    BY <1>1, <1>2, IntakesBegin
  <2>2. Drafts = {}
    BY <1>2 DEF BeginCreateIntake, BeginForkIntake
  <2> QED
    BY <2>1, <2>2, StratBegins
<1>3. ASSUME BeginUpdateIntake(t) PROVE StratCounted'
  <2>1. PICK i \in Drafts, c \in Contents : BeginStrat(t, [op |-> "update", intake |-> i, content |-> c])
    BY <1>3 DEF BeginUpdateIntake
  <2>2. PICK request : request = [op |-> "update", intake |-> i, content |-> c]
    OBVIOUS
  <2>3. AsAsked(request) /\ request.op = "update"
    BY <2>2 DEF AsAsked, Drafts
  <2> QED
    BY <2>1, <2>2, <2>3, StratBegins
<1>4. ASSUME BeginApproveIntake(t) PROVE StratCounted'
  <2>1. PICK i \in Drafts : Apply(t, i, Currents)
    BY <1>4 DEF BeginApproveIntake
  <2>2. PICK a : BeginStrat(t, a) /\ AsAsked(a) /\ Reading(a, i, Currents)
    BY <1>1, <2>1, ApplyBegins DEF Drafts
  <2>3. \A c, d \in Currents : c = d
    BY <1>1, <1>4, OnlyOneCurrent DEF BeginApproveIntake
  <2> QED
    BY <2>2, <2>3, StratBegins DEF Reading
<1>5. ASSUME BeginReapplyIntake(t) PROVE StratCounted'
  <2>1. PICK i \in Currents : Apply(t, i, {})
    BY <1>5 DEF BeginReapplyIntake
  <2>2. PICK a : BeginStrat(t, a) /\ AsAsked(a) /\ Reading(a, i, {})
    BY <1>1, <2>1, ApplyBegins DEF Currents
  <2>3. \A c, d \in Currents : c = d
    <3>1. Cardinality(Currents) <= 1
      BY <1>5 DEF BeginReapplyIntake
    <3> QED
      BY <1>1, <3>1, OnlyOneCurrent
  <2> QED
    BY <2>1, <2>2, <2>3, StratBegins DEF Reading
<1>6. ASSUME BeginNode(t) \/ BeginApproveNode(t) PROVE StratCounted'
  <2>1. PICK request : /\ BeginStrat(t, request) /\ AsAsked(request)
                       /\ request.op \in {"addNode", "editNode", "deleteNode", "approveNode"}
    BY <1>1, <1>6, NodesBegin
  <2> QED
    BY <2>1, StratBegins
<1>7. ASSUME BeginScan(t) PROVE StratCounted'
  <2>1. PICK source, opens : BeginStrat(t, [op |-> "scan", source |-> source, opens |-> opens])
                             /\ source \in {"gsc", "pyramid"} /\ opens \subseteq Keywords
    BY <1>7 DEF BeginScan
  <2>2. PICK request : request = [op |-> "scan", source |-> source, opens |-> opens]
    OBVIOUS
  <2>3. AsAsked(request) /\ request.op = "scan"
    BY <2>1, <2>2 DEF AsAsked
  <2> QED
    BY <2>1, <2>2, <2>3, StratBegins
<1>8. ASSUME BeginCommitment(t) PROVE StratCounted'
  <2>1. PICK request : request = [op |-> "commitment", archive |-> commitments, nr |-> stratBegun]
    OBVIOUS
  <2>2. BeginStrat(t, request) /\ AsAsked(request) /\ request.op = "commitment"
        /\ request.nr = stratBegun /\ request.archive = commitments
    BY <1>8, <2>1 DEF BeginCommitment, AsAsked
  <2> QED
    BY <2>2, StratBegins
<1> QED
  BY <1>2, <1>3, <1>4, <1>5, <1>6, <1>7, <1>8

LEMMA OverlappingEnd ==
  ASSUME StratCounted, NEW t \in StratTxns,
         \/ CommitDraft(t) \/ CommitUpdateIntake(t) \/ CommitImpact(t)
         \/ CommitNode(t) \/ CommitStratScan(t) \/ CommitCommitment(t) \/ AbortStrat(t)
  PROVE  StratCounted'
<1>1. StratTyped /\ intakes \in Seq(IntakeRow)
  BY DEF StratCounted, StratTyped, StratTypeOK, IntakeRow
<1>2. PICK a : a = stratTxn[t]
  OBVIOUS
<1>3. CASE CommitDraft(t)
  <2>1. PICK row : row.status = "draft" /\ intakes' = Append(intakes, row)
    BY <1>1, <1>3, DraftCommits
  <2>2. /\ DOMAIN intakes' = DOMAIN intakes \cup {Len(intakes) + 1}
        /\ Len(intakes) + 1 \notin DOMAIN intakes
        /\ intakes'[Len(intakes) + 1] = row /\ \A i \in DOMAIN intakes : intakes'[i] = intakes[i]
    BY <1>1, <2>1
  <2>3. Drafts' \subseteq Drafts \cup {Len(intakes) + 1}
    BY <2>2 DEF Drafts
  <2>4. Currents' = Currents
    BY <2>1, <2>2 DEF Currents
  <2>5. StratTyped' /\ End(t) /\ a.op = "draft" /\ commitments' = commitments
    BY <1>1, <1>2, <1>3, DraftCommits DEF CommitDraft
  <2> QED
    BY <1>2, <2>3, <2>4, <2>5, StratEnds
<1>4. CASE CommitUpdateIntake(t)
  <2>1. /\ StratTyped' /\ DOMAIN intakes' = DOMAIN intakes
        /\ \A i \in DOMAIN intakes :
             intakes'[i].status = intakes[i].status /\ intakes'[i].current = intakes[i].current
    BY <1>1, <1>4, UpdateIntakeCommits
  <2>2. Drafts' = Drafts /\ Currents' = Currents
    BY <2>1 DEF Drafts, Currents
  <2>3. End(t) /\ commitments' = commitments
    BY <1>4 DEF CommitUpdateIntake
  <2> QED
    BY <1>2, <2>1, <2>2, <2>3, StratEnds
<1>5. CASE CommitImpact(t)
  <2>1. /\ StratTyped' /\ DOMAIN intakes' = DOMAIN intakes
        /\ intakes'[a.intake].status = "approved"
        /\ \A i \in DOMAIN intakes \ {a.intake} :
             IF i \in a.archive THEN intakes'[i].status = "archived" ELSE intakes'[i] = intakes[i]
    BY <1>1, <1>2, <1>5, ImpactCommits
  <2>2. Drafts' \subseteq Drafts
    BY <2>1 DEF Drafts
  <2>3. Currents' \subseteq (Currents \ (a.archive \ {a.intake})) \cup {a.intake}
    <3> SUFFICES ASSUME NEW i \in Currents', i # a.intake PROVE i \in Currents /\ i \notin a.archive
      OBVIOUS
    <3>1. i \in DOMAIN intakes' /\ intakes'[i].status = "approved" /\ intakes'[i].current
      BY DEF Currents
    <3>2. i \in DOMAIN intakes \ {a.intake} /\ i \notin a.archive /\ intakes'[i] = intakes[i]
      BY <2>1, <3>1
    <3> QED
      BY <3>1, <3>2 DEF Currents
  <2>4. End(t) /\ commitments' = commitments /\ a.op = "impact"
    BY <1>2, <1>5 DEF CommitImpact
  <2> QED
    BY <1>2, <2>1, <2>2, <2>3, <2>4, StratEnds
<1>6. CASE CommitNode(t) \/ CommitStratScan(t) \/ CommitCommitment(t) \/ AbortStrat(t)
  <2>1. StratTyped'
    BY <1>1, <1>6, NodeCommits, ScanCommits, OthersCommit
  <2>2. End(t) /\ intakes' = intakes
    BY <1>6 DEF CommitNode, CommitStratScan, CommitCommitment, AbortStrat
  <2>3. \/ commitments' = commitments
        \/ a.op = "commitment" /\ commitments' = (commitments \ a.archive) \cup {a.nr}
    BY <1>2, <1>6 DEF CommitNode, CommitStratScan, CommitCommitment, AbortStrat
  <2>4. Drafts' = Drafts /\ Currents' = Currents
    BY <2>2 DEF Drafts, Currents
  <2> QED
    BY <1>2, <2>1, <2>2, <2>3, <2>4, StratEnds
<1> QED
  BY <1>3, <1>4, <1>5, <1>6

LEMMA StratCountedStep == StratCounted /\ [StratNext]_stratVars => StratCounted'
<1> SUFFICES ASSUME StratCounted, [StratNext]_stratVars PROVE StratCounted'
  OBVIOUS
<1>1. StratTyped
  BY DEF StratCounted
<1>2. StratTyped'
  BY <1>1, StratTypedStep
<1>3. CASE UNCHANGED stratVars \/ Deactivate
  <2>1. UNCHANGED <<intakes, stratTxn, stratBegun>> /\ commitments' \subseteq commitments
    BY <1>3 DEF stratVars, Deactivate
  <2>2. /\ Drafting' = Drafting /\ Approving' = Approving /\ Promising' = Promising
        /\ IntakeOf' = IntakeOf /\ ArchivedBy' = ArchivedBy /\ NrOf' = NrOf
    BY <2>1 DEF Drafting, Approving, Promising, IntakeOf, ArchivedBy, NrOf
  <2> QED
    BY <1>2, <2>1, <2>2, StratStays
<1>4. ASSUME NEW t \in StratTxns, Impact(t) PROVE StratCounted'
  <2>1. PICK a, b : a = stratTxn[t] /\ b = stratTxn'[t]
    OBVIOUS
  <2>2. /\ UNCHANGED <<intakes, commitments>> /\ \A u \in StratTxns \ {t} : stratTxn'[u] = stratTxn[u]
        /\ a.op = "apply" /\ b.op = "impact" /\ b.intake = a.intake /\ b.archive = a.archive
    BY <1>1, <1>4, <2>1, ImpactReads
  <2>3. stratBegun' = stratBegun
    BY <1>4 DEF Impact
  <2>4. t \in Approving /\ t \notin Drafting /\ t \notin Promising
        /\ IntakeOf[t] = a.intake /\ ArchivedBy[t] = a.archive
    BY <2>1, <2>2 DEF Approving, Drafting, Promising, IntakeOf, ArchivedBy
  <2>5. Drafting' = Drafting /\ Approving' = Approving /\ Promising' = Promising
    <3>1. /\ Drafting' = (Drafting \ {t}) \cup {u \in {t} : b.op = "draft"}
          /\ Approving' = (Approving \ {t}) \cup {u \in {t} : b.op \in {"apply", "impact"}}
          /\ Promising' = (Promising \ {t}) \cup {u \in {t} : b.op = "commitment"}
      BY <2>1, <2>2, OnlyOneChanges
    <3> QED
      BY <2>2, <2>4, <3>1
  <2>6. /\ \A u \in Approving : IntakeOf'[u] = IntakeOf[u] /\ ArchivedBy'[u] = ArchivedBy[u]
        /\ \A u \in Promising : NrOf'[u] = NrOf[u] /\ ArchivedBy'[u] = ArchivedBy[u]
    <3>1. Approving \subseteq StratTxns /\ Promising \subseteq StratTxns \ {t}
      BY <2>4 DEF Approving, Promising
    <3> QED
      BY <2>1, <2>2, <2>4, <3>1, OnlyOneChanges
  <2> QED
    BY <1>2, <2>2, <2>3, <2>5, <2>6, StratStays
<1> QED
  BY <1>3, <1>4, OverlappingBegin, OverlappingEnd DEF StratNext

(* However many requests overlap, and whatever is in their way, there are  *)
(* never more drafts, current intakes, active commitments, open AI         *)
(* opportunities of a key, themes or open cases of a query than there are  *)
(* requests at a time (strategy/service.py:59, ai_visibility/service.py).  *)
THEOREM DuplicatesAlwaysBounded == DecisionsSpec => []DuplicatesBounded
<1> DEFINE Counted == StratCounted /\ AiCounted /\ GraphCounted
<1>1. DecisionsInit => Counted
  BY StratCountedInit, AiCountedInit, GraphCountedInit DEF DecisionsInit
<1>2. Counted /\ [DecisionsNext]_<<part, vars, stratVars, aiVars, execVars, graphVars, knowVars, serpVars>>
        => Counted'
  <2> SUFFICES ASSUME Counted, [DecisionsNext]_<<part, vars, stratVars, aiVars, execVars, graphVars, knowVars, serpVars>>
               PROVE  Counted'
    OBVIOUS
  <2>1. [StratNext]_stratVars /\ [AiNext]_aiVars /\ [GraphNext]_graphVars
    BY DEF DecisionsNext
  <2> QED
    BY <2>1, StratCountedStep, AiCountedStep, GraphCountedStep
<1>3. Counted => DuplicatesBounded
  <2> SUFFICES ASSUME Counted PROVE DuplicatesBounded
    OBVIOUS
  <2>1. DraftsBounded
    <3>1. IsFiniteSet(Drafts)
      <4>1. intakes \in Seq(IntakeRow)
        BY DEF StratCounted, StratTyped, StratTypeOK, IntakeRow
      <4>2. IsFiniteSet(1 .. Len(intakes))
        BY <4>1, FS_Interval
      <4>3. Drafts \subseteq 1 .. Len(intakes)
        BY <4>1 DEF Drafts
      <4> QED
        BY <4>2, <4>3, FS_Subset
    <3>2. IsFiniteSet(Drafting)
      BY SizeOfStratTxns, FS_Subset DEF Drafting
    <3>3. Cardinality(Drafts) \in Nat /\ Cardinality(Drafting) \in Nat /\ Cardinality(StratTxns) \in Nat
      BY <3>1, <3>2, SizeOfStratTxns, FS_CardinalityType
    <3> QED
      BY <3>3 DEF StratCounted, FewDrafts, DraftsBounded
  <2>2. CurrentsBounded
    BY SizeOfStratTxns, FewCurrentBound DEF StratCounted, CurrentsBounded
  <2>3. CommitmentsBounded
    <3>1. stratBegun \in Nat /\ commitments \subseteq Nat /\ \A x \in commitments : x <= stratBegun
      BY StrategyAssumption DEF StratCounted, StratTyped, StratTypeOK, Numbered
    <3> QED
      BY <3>1, SizeOfStratTxns, FewPromisedBound DEF StratCounted, CommitmentsBounded
  <2>4. AiOppsBounded
    BY DEF AiCounted, AiKeys, AiOpening, AiOppsBounded
  <2>5. ThemesBounded /\ CasesBounded
    BY DEF GraphCounted, ThemeMakers, CaseMakers, MakesTheme, MakesCase, ThemesBounded, CasesBounded
  <2> QED
    BY <2>1, <2>2, <2>3, <2>4, <2>5 DEF DuplicatesBounded
<1> QED
  BY <1>1, <1>2, <1>3, PTL DEF DecisionsSpec

----------------------------------------------------------------------------
(* The scores of AI visibility. A check reads what was said so far, and    *)
(* what is said only grows: the score of an open check, and the one there  *)
(* is, are no less than what a check would come to now.                    *)
WrongOnes == {i \in DOMAIN answers : answers[i].sentiment = "wrong_info"}
NegativeOnes(name) == {i \in DOMAIN answers : answers[i].sentiment = "negative" /\ name \in answers[i].names}

Checked == {t \in AiTxns : aiTxn[t].op = "check"}

AiTyped ==
    /\ answers \in Seq(Answers) /\ Len(answers) <= MaxAnswers
    /\ rivalKnown \in BOOLEAN
    /\ entity \in Entities
    /\ aiTxn = [t \in AiTxns |-> aiTxn[t]]
    /\ \A t \in Checked : aiTxn[t].score \in 0 .. 100 /\ aiTxn[t].name \in Named
    /\ aiBegun \in 0 .. MaxAiRequests

(* What is said is not unsaid.                                             *)
AnswersGrow ==
    /\ DOMAIN answers \subseteq DOMAIN answers'
    /\ \A i \in DOMAIN answers : answers'[i] = answers[i]

LEMMA SeqDomain ==
  ASSUME NEW S, NEW s \in Seq(S)
  PROVE  DOMAIN s = 1 .. Len(s) /\ Len(s) \in Nat /\ IsFiniteSet(DOMAIN s) /\ Cardinality(DOMAIN s) = Len(s)
<1>1. DOMAIN s = 1 .. Len(s) /\ Len(s) \in Nat
  OBVIOUS
<1> QED
  BY <1>1, FirstNumbers

LEMMA CountsAreSizes ==
  ASSUME NEW name
  PROVE  Wrong = Cardinality(WrongOnes) /\ Negative(name) = Cardinality(NegativeOnes(name))
BY DEF Wrong, Negative, Count, WrongOnes, NegativeOnes

LEMMA CountsAreNumbers ==
  ASSUME AiTyped, NEW name
  PROVE  /\ IsFiniteSet(WrongOnes) /\ IsFiniteSet(NegativeOnes(name))
         /\ Wrong \in Nat /\ Negative(name) \in Nat
<1>1. IsFiniteSet(DOMAIN answers)
  BY SeqDomain DEF AiTyped
<1>2. IsFiniteSet(WrongOnes) /\ IsFiniteSet(NegativeOnes(name))
  BY <1>1, FS_Subset DEF WrongOnes, NegativeOnes
<1> QED
  BY <1>2, CountsAreSizes, FS_CardinalityType

(* What a check comes to.                                                  *)
LEMMA LossIsNumber ==
  ASSUME NEW w \in Nat, NEW n \in Nat
  PROVE  WrongLoss * w + NegativeLoss * n \in Nat
<1>1. WrongLoss * w \in Nat /\ NegativeLoss * n \in Nat
  BY AiAssumption
<1> QED
  BY <1>1

LEMMA MoreIsLost ==
  ASSUME NEW w \in Nat, NEW v \in Nat, NEW n \in Nat, NEW m \in Nat, w <= v, n <= m
  PROVE  WrongLoss * w + NegativeLoss * n <= WrongLoss * v + NegativeLoss * m
<1>1. ASSUME NEW a \in Nat, NEW x \in Nat, NEW y \in Nat, x <= y PROVE a * x <= a * y
  BY <1>1
<1>2. WrongLoss * w <= WrongLoss * v /\ NegativeLoss * n <= NegativeLoss * m
  BY <1>1, AiAssumption
<1>3. /\ WrongLoss * w \in Nat /\ WrongLoss * v \in Nat
      /\ NegativeLoss * n \in Nat /\ NegativeLoss * m \in Nat
  BY AiAssumption
<1> QED
  BY <1>2, <1>3

LEMMA ConsistencyInRange ==
  ASSUME AiTyped, NEW name
  PROVE  Consistency(name) \in 0 .. 100
<1>1. PICK loss : loss = WrongLoss * Wrong + NegativeLoss * Negative(name) /\ loss \in Nat
  BY CountsAreNumbers, LossIsNumber
<1>2. Consistency(name) = IF loss >= 100 THEN 0 ELSE 100 - loss
  BY <1>1 DEF Consistency
<1> QED
  BY <1>1, <1>2

LEMMA ConsistencyFalls ==
  ASSUME AiTyped, AiTyped', AnswersGrow, NEW CONSTANT name
  PROVE  Consistency(name)' <= Consistency(name) /\ Consistency(name)' \in 0 .. 100
<1>1. WrongOnes \subseteq WrongOnes' /\ NegativeOnes(name) \subseteq NegativeOnes(name)'
  BY DEF AnswersGrow, WrongOnes, NegativeOnes
<1>2. /\ Wrong = Cardinality(WrongOnes) /\ Negative(name) = Cardinality(NegativeOnes(name))
      /\ Wrong' = Cardinality(WrongOnes') /\ Negative(name)' = Cardinality(NegativeOnes(name)')
  BY DEF Wrong, Negative, Count, WrongOnes, NegativeOnes
<1>3. /\ IsFiniteSet(WrongOnes') /\ IsFiniteSet(NegativeOnes(name)')
      /\ Wrong' \in Nat /\ Negative(name)' \in Nat /\ Wrong \in Nat /\ Negative(name) \in Nat
  <2>1. IsFiniteSet(DOMAIN answers')
    BY SeqDomain DEF AiTyped
  <2>2. IsFiniteSet(WrongOnes') /\ IsFiniteSet(NegativeOnes(name)')
    BY <2>1, FS_Subset DEF WrongOnes, NegativeOnes
  <2> QED
    BY <1>2, <2>2, CountsAreNumbers, FS_CardinalityType
<1>4. Wrong <= Wrong' /\ Negative(name) <= Negative(name)'
  BY <1>1, <1>2, <1>3, FS_Subset
<1>5. PICK loss, more : /\ loss = WrongLoss * Wrong + NegativeLoss * Negative(name)
                        /\ more = WrongLoss * Wrong' + NegativeLoss * Negative(name)'
                        /\ loss \in Nat /\ more \in Nat /\ loss <= more
  BY <1>3, <1>4, LossIsNumber, MoreIsLost
<1>6. /\ Consistency(name) = IF loss >= 100 THEN 0 ELSE 100 - loss
      /\ Consistency(name)' = IF more >= 100 THEN 0 ELSE 100 - more
  BY <1>5 DEF Consistency
<1> QED
  BY <1>5, <1>6

LEMMA RecordedIsAnswer ==
  ASSUME NEW p \in Prompts, NEW inSet \in BOOLEAN, NEW cited, NEW brand \in BOOLEAN, NEW s \in Sentiments,
         NEW names \in SUBSET BrandNames
  PROVE  Recorded(p, inSet, cited, brand, names, s) \in Answers
<1>1. PICK own, external, named :
         /\ own = ("own" \in cited) /\ external = ("third" \in cited \/ ("rival" \in cited /\ rivalKnown))
         /\ named = (brand \/ entity.name \in names)
  OBVIOUS
<1>2. own \in BOOLEAN /\ external \in BOOLEAN /\ named \in BOOLEAN
  BY <1>1
<1>3. Recorded(p, inSet, cited, brand, names, s)
        = [prompt |-> p, inSet |-> inSet, own |-> own, external |-> external, brand |-> named, names |-> names,
           sentiment |-> s]
  BY <1>1, Zenon DEF Recorded
<1> QED
  BY <1>2, <1>3 DEF Answers

LEMMA Joined ==
  ASSUME NEW S, NEW s \in Seq(S), NEW t \in Seq(S)
  PROVE  /\ s \o t \in Seq(S) /\ Len(s \o t) = Len(s) + Len(t)
         /\ DOMAIN s \subseteq DOMAIN (s \o t)
         /\ \A i \in DOMAIN s : (s \o t)[i] = s[i]
OBVIOUS

LEMMA PairOf == ASSUME NEW S, NEW a \in S, NEW b \in S PROVE <<a, b>> \in Seq(S) /\ Len(<<a, b>>) = 2
OBVIOUS

LEMMA AnswersGrowBy ==
  ASSUME AiTyped, NEW more \in Seq(Answers), answers' = answers \o more, Len(answers) + Len(more) <= MaxAnswers
  PROVE  answers' \in Seq(Answers) /\ Len(answers') <= MaxAnswers /\ AnswersGrow
<1>1. PICK all : all = answers \o more /\ answers' = all
  OBVIOUS
<1> QED
  BY <1>1, Joined DEF AiTyped, AnswersGrow

LEMMA AnswersStep ==
  AiTyped /\ [AiNext]_aiVars => answers' \in Seq(Answers) /\ Len(answers') <= MaxAnswers /\ AnswersGrow
<1> SUFFICES ASSUME AiTyped, [AiNext]_aiVars
             PROVE  answers' \in Seq(Answers) /\ Len(answers') <= MaxAnswers /\ AnswersGrow
  OBVIOUS
<1>1. ASSUME answers' = answers PROVE answers' \in Seq(Answers) /\ Len(answers') <= MaxAnswers /\ AnswersGrow
  BY <1>1 DEF AiTyped, AnswersGrow
<1>2. CASE RecordAnswer
  <2>1. PICK p \in Prompts, inSet \in BOOLEAN, brand \in BOOLEAN, cited \in SUBSET {"own", "rival", "third"}, s \in Sentiments :
          \E names \in Texts(s) : answers' = Append(answers, Recorded(p, inSet, cited, brand, names, s))
    BY <1>2, Zenon DEF RecordAnswer
  <2>7. PICK names \in SUBSET BrandNames : answers' = Append(answers, Recorded(p, inSet, cited, brand, names, s))
    BY <2>1 DEF Texts
  <2>2. PICK a : a = Recorded(p, inSet, cited, brand, names, s) /\ a \in Answers
    BY RecordedIsAnswer
  <2>3. PICK more : more = <<a>>
    OBVIOUS
  <2>5. answers' = answers \o more /\ more \in Seq(Answers) /\ Len(more) = 1
    BY <2>2, <2>3, <2>7 DEF AiTyped
  <2>4. Len(answers) < MaxAnswers /\ Len(answers) \in Nat /\ MaxAnswers \in Nat
    BY <1>2, AiAssumption DEF RecordAnswer, AiTyped
  <2>6. Len(answers) + Len(more) <= MaxAnswers
    BY <2>4, <2>5
  <2> QED
    BY <2>5, <2>6, AnswersGrowBy
<1>3. CASE ImportAnswers
  <2>1. PICK p \in Prompts, q \in Prompts, inSet \in BOOLEAN, r \in Sentiments, s \in Sentiments :
          \E names \in Texts(r) :
             answers' = answers \o <<Recorded(p, inSet, {}, TRUE, names, r),
                                     Recorded(q, inSet, {"third"}, FALSE, {}, s)>>
    BY <1>3, Zenon DEF ImportAnswers
  <2>7. PICK names \in SUBSET BrandNames :
          answers' = answers \o <<Recorded(p, inSet, {}, TRUE, names, r), Recorded(q, inSet, {"third"}, FALSE, {}, s)>>
    BY <2>1 DEF Texts
  <2>2. PICK a, b : /\ a = Recorded(p, inSet, {}, TRUE, names, r) /\ b = Recorded(q, inSet, {"third"}, FALSE, {}, s)
                    /\ a \in Answers /\ b \in Answers
    BY RecordedIsAnswer
  <2>3. PICK more : more = <<a, b>> /\ more \in Seq(Answers) /\ Len(more) = 2
    BY <2>2, PairOf
  <2>5. answers' = answers \o more
    BY <2>2, <2>3, <2>7, Zenon
  <2>4. Len(answers) + 2 <= MaxAnswers
    BY <1>3 DEF ImportAnswers
  <2> QED
    BY <2>3, <2>4, <2>5, AnswersGrowBy
<1>4. CASE UNCHANGED aiVars \/ CompetitorChanges \/ OppLeaves \/ CreateBrandEntity \/ UpdateBrandEntity
  BY <1>1, <1>4 DEF aiVars, CompetitorChanges, OppLeaves, CreateBrandEntity, UpdateBrandEntity
<1>5. ASSUME NEW t \in AiTxns,
             BeginCheck(t) \/ CommitCheck(t) \/ BeginGenerate(t) \/ CommitAiGenerate(t) \/ AbortAi(t)
      PROVE  answers' = answers
  BY <1>5 DEF BeginCheck, CommitCheck, BeginGenerate, CommitAiGenerate, AbortAi, BeginAi, EndAi
<1> QED
  BY <1>1, <1>2, <1>3, <1>4, <1>5 DEF AiNext

(* A request begins or ends: the others stay as they are.                  *)
LEMMA AiBegins ==
  ASSUME AiTyped, NEW t \in AiTxns, NEW request, BeginAi(t, request)
  PROVE  /\ aiTxn' = [u \in AiTxns |-> aiTxn'[u]] /\ aiTxn'[t] = request
         /\ \A u \in AiTxns \ {t} : aiTxn'[u] = aiTxn[u]
         /\ aiTxn[t] = NoAiRequest
         /\ aiBegun' \in 0 .. MaxAiRequests
         /\ UNCHANGED <<answers, rivalKnown, entity>>
<1>1. aiTxn = [u \in AiTxns |-> aiTxn[u]] /\ aiTxn' = [aiTxn EXCEPT ![t] = request]
  BY DEF AiTyped, BeginAi
<1>2. /\ aiTxn' = [u \in AiTxns |-> aiTxn'[u]] /\ aiTxn'[t] = request
      /\ \A u \in AiTxns \ {t} : aiTxn'[u] = aiTxn[u]
  BY <1>1
<1>3. aiBegun \in 0 .. MaxAiRequests /\ aiBegun < MaxAiRequests /\ aiBegun' = aiBegun + 1
  BY DEF AiTyped, BeginAi
<1>4. aiBegun' \in 0 .. MaxAiRequests
  BY <1>3, AiAssumption
<1> QED
  BY <1>2, <1>4 DEF BeginAi

LEMMA AiEnds ==
  ASSUME AiTyped, NEW t \in AiTxns, EndAi(t)
  PROVE  /\ aiTxn' = [u \in AiTxns |-> aiTxn'[u]] /\ aiTxn'[t] = NoAiRequest
         /\ \A u \in AiTxns \ {t} : aiTxn'[u] = aiTxn[u]
         /\ UNCHANGED <<answers, rivalKnown, aiBegun>>
         /\ Checked' \subseteq Checked \ {t}
<1>1. /\ aiTxn' = [u \in AiTxns |-> aiTxn'[u]] /\ aiTxn'[t] = NoAiRequest
      /\ \A u \in AiTxns \ {t} : aiTxn'[u] = aiTxn[u]
      /\ UNCHANGED <<answers, rivalKnown, aiBegun>>
  BY DEF AiTyped, EndAi
<1> QED
  BY <1>1 DEF Checked, NoAiRequest

LEMMA AiTypedInit == AiInit => AiTyped
<1> SUFFICES ASSUME AiInit PROVE AiTyped
  OBVIOUS
<1>1. answers \in Seq(Answers) /\ Len(answers) <= MaxAnswers
  BY AiAssumption DEF AiInit
<1>2. Checked = {}
  BY DEF AiInit, Checked, NoAiRequest
<1>3. entity \in Entities
  BY AiAssumption DEF AiInit, NoEntity, Entity, Entities, Named
<1> QED
  BY <1>1, <1>2, <1>3, AiAssumption DEF AiInit, AiTyped

LEMMA AiTypedStep == AiTyped /\ [AiNext]_aiVars => AiTyped'
<1> SUFFICES ASSUME AiTyped, [AiNext]_aiVars PROVE AiTyped'
  OBVIOUS
<1>1. answers' \in Seq(Answers) /\ Len(answers') <= MaxAnswers
  BY AnswersStep
<1>2. CASE UNCHANGED aiVars \/ RecordAnswer \/ ImportAnswers \/ CompetitorChanges \/ OppLeaves
  <2>1. UNCHANGED <<entity, aiTxn, aiBegun>> /\ rivalKnown' \in BOOLEAN
    BY <1>2 DEF aiVars, RecordAnswer, ImportAnswers, CompetitorChanges, OppLeaves, AiTyped
  <2> QED
    BY <1>1, <2>1 DEF AiTyped, Checked
<1>3. ASSUME NEW t \in AiTxns, BeginCheck(t) PROVE AiTyped'
  <2>1. PICK score, request : /\ request = [op |-> "check", nr |-> entity.nr, name |-> entity.name, score |-> score]
                              /\ BeginAi(t, request) /\ score \in 0 .. 100
    BY <1>3, ConsistencyInRange DEF BeginCheck
  <2>3. request.score \in 0 .. 100 /\ request.name \in Named
    BY <2>1 DEF AiTyped, Entities
  <2>4. aiTxn'[t] = request /\ \A u \in AiTxns \ {t} : aiTxn'[u] = aiTxn[u]
    BY <2>1, AiBegins
  <2>2. \A u \in Checked' : aiTxn'[u].score \in 0 .. 100 /\ aiTxn'[u].name \in Named
    BY <2>3, <2>4 DEF AiTyped, Checked
  <2> QED
    BY <1>1, <2>1, <2>2, AiBegins DEF AiTyped
<1>4. ASSUME NEW t \in AiTxns, BeginGenerate(t) PROVE AiTyped'
  <2>1. PICK request : BeginAi(t, request) /\ request.op = "generate"
    BY <1>4 DEF BeginGenerate
  <2>2. Checked' \subseteq Checked \ {t} /\ \A u \in Checked' : aiTxn'[u] = aiTxn[u]
    BY <2>1, AiBegins DEF Checked
  <2> QED
    BY <1>1, <2>1, <2>2, AiBegins DEF AiTyped
<1>5. ASSUME NEW t \in AiTxns, CommitCheck(t) PROVE AiTyped'
  <2>1. /\ t \in Checked /\ EndAi(t)
        /\ entity' = IF aiTxn[t].nr = entity.nr
                       THEN [entity EXCEPT !.score = aiTxn[t].score, !.scoredAs = aiTxn[t].name]
                       ELSE entity
    BY <1>5 DEF CommitCheck, Checked
  <2>2. \A u \in Checked' : u \in Checked /\ aiTxn'[u] = aiTxn[u]
    BY <2>1, AiEnds DEF Checked
  <2>3. entity' \in Entities
    BY <2>1 DEF AiTyped, Entities
  <2> QED
    BY <1>1, <2>1, <2>2, <2>3, AiEnds DEF AiTyped
<1>6. ASSUME NEW t \in AiTxns, CommitAiGenerate(t) \/ AbortAi(t) PROVE AiTyped'
  <2>1. entity' = entity /\ EndAi(t)
    BY <1>6 DEF CommitAiGenerate, AbortAi
  <2>2. \A u \in Checked' : u \in Checked /\ aiTxn'[u] = aiTxn[u]
    BY <2>1, AiEnds DEF Checked
  <2> QED
    BY <1>1, <2>1, <2>2, AiEnds DEF AiTyped
<1>7. CASE CreateBrandEntity \/ UpdateBrandEntity
  <2>1. /\ UNCHANGED <<rivalKnown, aiTxn>>
        /\ aiBegun \in 0 .. MaxAiRequests /\ aiBegun < MaxAiRequests /\ aiBegun' = aiBegun + 1
    BY <1>7 DEF CreateBrandEntity, UpdateBrandEntity, AiTyped
  <2>2. aiBegun' \in 0 .. MaxAiRequests
    BY <2>1, AiAssumption
  <2>3. entity' \in Entities
    <3>1. CASE CreateBrandEntity
      <4>1. PICK name \in BrandNames : entity' = Entity(entity.nr + 1, name)
        BY <3>1 DEF CreateBrandEntity
      <4>2. entity.nr + 1 \in 0 .. MaxEntities
        BY <3>1, AiAssumption DEF CreateBrandEntity, AiTyped, Entities
      <4> QED
        BY <4>1, <4>2 DEF Entities, Entity, Named
    <3>2. CASE UpdateBrandEntity
      BY <3>2 DEF UpdateBrandEntity, AiTyped, Entities, Named
    <3> QED
      BY <1>7, <3>1, <3>2
  <2> QED
    BY <1>1, <2>1, <2>2, <2>3 DEF AiTyped, Checked
<1> QED
  BY <1>2, <1>3, <1>4, <1>5, <1>6, <1>7 DEF AiNext

(* Rates are rounded: what a rounded share is, of n answers.               *)
LEMMA Quotient ==
  ASSUME NEW x \in Nat, NEW d \in Nat \ {0}, NEW q, q = x \div d
  PROVE  q \in Nat /\ d * q <= x /\ x < d * q + d
<1>1. PICK r : r = x % d
  OBVIOUS
<1>2. q \in Int /\ r \in 0 .. d - 1 /\ x = d * q + r
  BY <1>1
<1>3. q \in Nat
  <2>1. CASE q < 0
    <3>1. d * q <= -d
      BY <1>2, <2>1
    <3> QED
      BY <1>2, <3>1
  <2> QED
    BY <1>2, <2>1
<1>4. d * q \in Nat
  BY <1>3
<1>5. d * q <= x /\ x < d * q + d
  BY <1>2, <1>4
<1> QED
  BY <1>1, <1>3, <1>5

LEMMA LessByFactor ==
  ASSUME NEW d \in Nat \ {0}, NEW a \in Nat, NEW b \in Nat, d * a < d * b
  PROVE  a < b
<1>1. CASE b <= a
  <2>1. d * b <= d * a
    BY <1>1
  <2>2. d * a \in Nat /\ d * b \in Nat
    OBVIOUS
  <2> QED
    BY <2>1, <2>2
<1> QED
  BY <1>1

Share(h, n) == (20000 * h + n) \div (2 * n)

LEMMA ShareIs ==
  ASSUME NEW h \in Nat, NEW n \in Nat \ {0}
  PROVE  /\ Share(h, n) \in Nat
         /\ (2 * n) * Share(h, n) <= 20000 * h + n
         /\ 20000 * h + n < (2 * n) * Share(h, n) + 2 * n
<1>1. 20000 * h + n \in Nat /\ 2 * n \in Nat \ {0}
  OBVIOUS
<1>2. PICK x, d : x = 20000 * h + n /\ d = 2 * n /\ x \in Nat /\ d \in Nat \ {0}
  BY <1>1
<1>3. Share(h, n) = x \div d
  BY <1>2 DEF Share
<1>4. PICK q : q = x \div d
  OBVIOUS
<1>5. q \in Nat /\ d * q <= x /\ x < d * q + d
  <2>1. x \in Nat /\ d \in Nat \ {0}
    BY <1>2
  <2> QED
    BY <1>4, <2>1, Quotient, Zenon
<1> QED
  BY <1>2, <1>3, <1>4, <1>5

LEMMA ShareMonotone ==
  ASSUME NEW h \in Nat, NEW k \in Nat, NEW n \in Nat \ {0}, h <= k
  PROVE  Share(h, n) <= Share(k, n)
<1>1. PICK d, p, q : d = 2 * n /\ p = Share(h, n) /\ q = Share(k, n)
  OBVIOUS
<1>2. /\ d \in Nat \ {0} /\ p \in Nat /\ q \in Nat
      /\ d * p <= 20000 * h + n /\ 20000 * k + n < d * q + d
  BY <1>1, ShareIs
<1>3. d * p \in Nat /\ d * q \in Nat /\ d * (q + 1) = d * q + d
  BY <1>2
<1>4. d * p < d * (q + 1)
  BY <1>2, <1>3
<1>5. p < q + 1
  BY <1>2, <1>4, LessByFactor
<1> QED
  BY <1>1, <1>2, <1>5

LEMMA ShareOfSum ==
  ASSUME NEW a \in Nat, NEW b \in Nat, NEW c \in Nat, NEW n \in Nat \ {0}, c <= a + b
  PROVE  Share(c, n) <= Share(a, n) + Share(b, n) + 1
<1>1. PICK d, p, q, r : d = 2 * n /\ p = Share(a, n) /\ q = Share(b, n) /\ r = Share(c, n)
  OBVIOUS
<1>2. /\ d \in Nat \ {0} /\ p \in Nat /\ q \in Nat /\ r \in Nat
      /\ 20000 * a + n < d * p + d /\ 20000 * b + n < d * q + d
      /\ d * r <= 20000 * c + n
  BY <1>1, ShareIs
<1>3. d * p \in Nat /\ d * q \in Nat /\ d * r \in Nat /\ d * (p + q + 2) = d * p + d * q + 2 * d
  BY <1>2
<1>4. d * r < d * (p + q + 2)
  BY <1>2, <1>3
<1>5. r < p + q + 2
  BY <1>2, <1>4, LessByFactor
<1> QED
  BY <1>1, <1>2, <1>5

LEMMA ShareOfAll ==
  ASSUME NEW h \in Nat, NEW n \in Nat \ {0}, h <= n
  PROVE  Share(h, n) <= 10000
<1>1. PICK d, p : d = 2 * n /\ p = Share(h, n)
  OBVIOUS
<1>2. d \in Nat \ {0} /\ p \in Nat /\ d * p <= 20000 * h + n
  BY <1>1, ShareIs
<1>3. d * p \in Nat /\ d * 10001 = 20002 * n
  BY <1>1, <1>2
<1>4. d * p < d * 10001
  BY <1>2, <1>3
<1>5. p < 10001
  BY <1>2, <1>4, LessByFactor
<1> QED
  BY <1>1, <1>2, <1>5

(* Who is named or cited is one of those named or of those cited.          *)
Naming == {i \in DOMAIN answers : answers[i].brand}
Citing == {i \in DOMAIN answers : answers[i].own}

LEMMA VisibilityIsCovered == AiTyped => VisibilityCovers
<1> SUFFICES ASSUME AiTyped PROVE VisibilityCovers
  OBVIOUS
<1>1. CASE answers = <<>>
  <2>1. VisibilityScore = 0 /\ MentionRate = 0 /\ CitationRate = 0
    BY <1>1 DEF VisibilityScore, MentionRate, CitationRate, Rate
  <2> QED
    BY <2>1 DEF VisibilityCovers
<1>2. CASE answers # <<>>
  <2>1. PICK n : n = Len(answers) /\ n \in Nat \ {0}
    BY <1>2 DEF AiTyped
  <2>2. PICK D : D = DOMAIN answers /\ IsFiniteSet(D) /\ Cardinality(D) = n
    BY <2>1, SeqDomain DEF AiTyped
  <2>3. PICK A, B : A = Naming /\ B = Citing
    OBVIOUS
  <2>4. A \subseteq D /\ B \subseteq D /\ A \cup B = {i \in DOMAIN answers : answers[i].brand \/ answers[i].own}
    BY <2>2, <2>3 DEF Naming, Citing
  <2>5. IsFiniteSet(A) /\ IsFiniteSet(B) /\ IsFiniteSet(A \cup B)
    BY <2>2, <2>4, FS_Subset
  <2>6. PICK a, b, c : a = Cardinality(A) /\ b = Cardinality(B) /\ c = Cardinality(A \cup B)
    OBVIOUS
  <2>7. a \in Nat /\ b \in Nat /\ c \in Nat
    BY <2>5, <2>6, FS_CardinalityType
  <2>8. a <= c /\ b <= c /\ c <= n
    BY <2>2, <2>4, <2>5, <2>6, FS_Subset
  <2>9. c <= a + b
    <3>1. Cardinality(A \cup B) = Cardinality(A) + Cardinality(B) - Cardinality(A \cap B)
      BY <2>5, FS_Union
    <3>2. Cardinality(A \cap B) \in Nat
      BY <2>5, FS_Subset, FS_CardinalityType
    <3> QED
      BY <2>6, <2>7, <3>1, <3>2
  <2>10. VisibilityScore = Share(c, n) /\ MentionRate = Share(a, n) /\ CitationRate = Share(b, n)
    <3>1. ASSUME NEW h PROVE Rate(h) = Share(h, n)
      BY <1>2, <2>1 DEF Rate, Share
    <3>2. /\ VisibilityScore = Rate(Cardinality({i \in DOMAIN answers : answers[i].brand \/ answers[i].own}))
          /\ MentionRate = Rate(Cardinality(Naming)) /\ CitationRate = Rate(Cardinality(Citing))
      BY DEF VisibilityScore, MentionRate, CitationRate, Count, Naming, Citing
    <3> QED
      BY <2>3, <2>4, <2>6, <3>1, <3>2
  <2>11. /\ Share(a, n) <= Share(c, n) /\ Share(b, n) <= Share(c, n)
         /\ Share(c, n) <= Share(a, n) + Share(b, n) + 1 /\ Share(c, n) <= 10000
    BY <2>1, <2>7, <2>8, <2>9, ShareMonotone, ShareOfSum, ShareOfAll
  <2> QED
    BY <2>10, <2>11 DEF VisibilityCovers
<1> QED
  BY <1>1, <1>2

OneAiRequest == \A t, u \in AiTxns : t = u

ScoreFollows ==
    \A name \in Named :
        /\ (entity.score # NoScore /\ entity.scoredAs = name) => Consistency(name) <= entity.score
        /\ \A t \in Checked :
              aiTxn[t].name = name =>
                  /\ Consistency(name) <= aiTxn[t].score
                  /\ (entity.score # NoScore /\ entity.scoredAs = name) => aiTxn[t].score <= entity.score

NeverRises ==
    (entity.score # NoScore /\ entity'.nr = entity.nr /\ entity'.scoredAs = entity.scoredAs) =>
        entity'.score <= entity.score

LEMMA VisibilityStaysCovered == AiTyped' => VisibilityCovers'
BY VisibilityIsCovered, PTL

(* What was scored stays at least what a check would come to now.          *)
LEMMA ScoreStaysAbove ==
  ASSUME AiTyped, AiTyped', AnswersGrow, NEW CONSTANT name, NEW CONSTANT score \in 0 .. 100, Consistency(name) <= score
  PROVE  Consistency(name)' <= score
<1>1. PICK now, next : now = Consistency(name) /\ next = Consistency(name)'
  OBVIOUS
<1>2. now \in 0 .. 100 /\ next \in 0 .. 100 /\ next <= now /\ now <= score
  BY <1>1, ConsistencyFalls, ConsistencyInRange
<1> QED
  BY <1>1, <1>2

LEMMA ScoreFollowsStep ==
  ASSUME OneAiRequest, AiTyped, ScoreFollows, [AiNext]_aiVars
  PROVE  ScoreFollows' /\ NeverRises
<1>1. AiTyped' /\ AnswersGrow
  BY AiTypedStep, AnswersStep
<1>2. /\ entity \in Entities /\ entity' \in Entities
      /\ \A t \in Checked : aiTxn[t].score \in 0 .. 100 /\ aiTxn[t].name \in Named
  BY <1>1 DEF AiTyped
<1>3. ASSUME UNCHANGED entity PROVE NeverRises
  BY <1>2, <1>3 DEF NeverRises, Entities, NoScore
<1>4. ASSUME NEW name \in Named, entity'.score # NoScore, entity'.scoredAs = name,
             UNCHANGED entity \/ entity'.score = NoScore \/ UNCHANGED <<entity.score, entity.scoredAs>>
      PROVE  Consistency(name)' <= entity'.score
  <2>1. PICK score : score = entity.score /\ entity'.score = score
    BY <1>4
  <2>2. score \in 0 .. 100 /\ Consistency(name) <= score
    BY <1>2, <1>4, <2>1 DEF ScoreFollows, Entities
  <2> QED
    BY <1>1, <2>1, <2>2, ScoreStaysAbove
<1>5. ASSUME UNCHANGED entity \/ entity'.score = NoScore \/ UNCHANGED <<entity.score, entity.scoredAs>>,
             Checked' \subseteq Checked, \A t \in Checked' : aiTxn'[t] = aiTxn[t]
      PROVE  ScoreFollows'
  <2> SUFFICES ASSUME NEW name \in Named
               PROVE  /\ (entity'.score # NoScore /\ entity'.scoredAs = name) => Consistency(name)' <= entity'.score
                      /\ \A t \in Checked' :
                            aiTxn'[t].name = name =>
                                /\ Consistency(name)' <= aiTxn'[t].score
                                /\ (entity'.score # NoScore /\ entity'.scoredAs = name) => aiTxn'[t].score <= entity'.score
    BY DEF ScoreFollows
  <2>1. ASSUME NEW t \in Checked', aiTxn'[t].name = name
        PROVE  /\ Consistency(name)' <= aiTxn'[t].score
               /\ (entity'.score # NoScore /\ entity'.scoredAs = name) => aiTxn'[t].score <= entity'.score
    <3>1. PICK score : score = aiTxn[t].score /\ aiTxn[t].name = name /\ aiTxn'[t].score = score
      BY <1>5, <2>1
    <3>2. score \in 0 .. 100 /\ Consistency(name) <= score
      BY <1>2, <1>5, <2>1, <3>1 DEF ScoreFollows
    <3>3. Consistency(name)' <= score
      BY <1>1, <3>2, ScoreStaysAbove
    <3>4. (entity'.score # NoScore /\ name = entity'.scoredAs) => score <= entity'.score
      BY <1>5, <2>1, <3>1 DEF ScoreFollows
    <3> QED
      BY <3>1, <3>3, <3>4
  <2> QED
    BY <1>4, <1>5, <2>1
<1>6. CASE UNCHANGED aiVars \/ RecordAnswer \/ ImportAnswers \/ CompetitorChanges \/ OppLeaves
  <2>1. UNCHANGED <<entity, aiTxn>>
    BY <1>6 DEF aiVars, RecordAnswer, ImportAnswers, CompetitorChanges, OppLeaves
  <2> QED
    BY <1>3, <1>5, <2>1 DEF Checked
<1>7. CASE CreateBrandEntity
  <2>1. PICK name \in BrandNames : entity' = Entity(entity.nr + 1, name) /\ UNCHANGED aiTxn
    BY <1>7 DEF CreateBrandEntity
  <2>2. entity'.score = NoScore /\ entity'.nr = entity.nr + 1 /\ entity.nr + 1 # entity.nr
    BY <1>2, <2>1, AiAssumption DEF Entity, Entities
  <2> QED
    BY <1>5, <2>1, <2>2 DEF Checked, NeverRises
<1>8. CASE UpdateBrandEntity
  <2>1. PICK name \in BrandNames : entity' = [entity EXCEPT !.name = name] /\ UNCHANGED aiTxn
    BY <1>8 DEF UpdateBrandEntity
  <2>2. UNCHANGED <<entity.score, entity.scoredAs>>
    BY <1>2, <2>1 DEF Entities
  <2>3. NeverRises
    BY <1>2, <2>2 DEF NeverRises, Entities, NoScore
  <2> QED
    BY <1>5, <2>1, <2>2, <2>3 DEF Checked
<1>9. ASSUME NEW t \in AiTxns, BeginCheck(t) PROVE ScoreFollows' /\ NeverRises
  <2>1. PICK name, score : name = entity.name /\ name \in Named /\ score = Consistency(name)
    BY <1>2 DEF Entities
  <2>2. PICK request : request = [op |-> "check", nr |-> entity.nr, name |-> name, score |-> score] /\ BeginAi(t, request)
    BY <1>9, <2>1 DEF BeginCheck
  <2>3. UNCHANGED entity /\ aiTxn'[t] = request /\ \A u \in AiTxns : u = t
    BY <2>2, AiBegins DEF OneAiRequest
  <2>4. score \in 0 .. 100 /\ request.name = name /\ request.score = score
    BY <2>1, <2>2, ConsistencyInRange
  <2>5. Consistency(name)' <= score
    BY <1>1, <2>1, <2>4, ScoreStaysAbove
  <2>6. (entity.score # NoScore /\ entity.scoredAs = name) => score <= entity.score
    BY <2>1 DEF ScoreFollows
  <2>7. \A u \in Checked' : aiTxn'[u] = request
    BY <2>3 DEF Checked
  <2> SUFFICES ASSUME NEW other \in Named
               PROVE  /\ (entity'.score # NoScore /\ entity'.scoredAs = other) => Consistency(other)' <= entity'.score
                      /\ \A u \in Checked' :
                            aiTxn'[u].name = other =>
                                /\ Consistency(other)' <= aiTxn'[u].score
                                /\ (entity'.score # NoScore /\ entity'.scoredAs = other) => aiTxn'[u].score <= entity'.score
    BY <1>3, <2>3 DEF ScoreFollows
  <2>8. ASSUME NEW u \in Checked', aiTxn'[u].name = other
        PROVE  /\ Consistency(other)' <= aiTxn'[u].score
               /\ (entity'.score # NoScore /\ entity'.scoredAs = other) => aiTxn'[u].score <= entity'.score
    <3>1. other = name /\ aiTxn'[u].score = score
      BY <2>4, <2>7, <2>8
    <3> QED
      BY <2>3, <2>5, <2>6, <3>1
  <2> QED
    BY <1>4, <2>3, <2>8
<1>10. ASSUME NEW t \in AiTxns, CommitCheck(t) PROVE ScoreFollows' /\ NeverRises
  <2>1. /\ t \in Checked /\ EndAi(t) /\ \A u \in AiTxns : u = t
        /\ entity' = IF aiTxn[t].nr = entity.nr
                       THEN [entity EXCEPT !.score = aiTxn[t].score, !.scoredAs = aiTxn[t].name]
                       ELSE entity
    BY <1>10 DEF CommitCheck, Checked, OneAiRequest
  <2>2. Checked' = {}
    BY <2>1, AiEnds DEF Checked
  <2>3. CASE aiTxn[t].nr # entity.nr
    BY <1>3, <1>5, <2>1, <2>2, <2>3
  <2>4. CASE aiTxn[t].nr = entity.nr
    <3>1. PICK name, score : name = aiTxn[t].name /\ name \in Named /\ score = aiTxn[t].score
      BY <1>2, <2>1
    <3>2. entity' = [entity EXCEPT !.score = score, !.scoredAs = name]
      BY <2>1, <2>4, <3>1
    <3>3. /\ score \in 0 .. 100 /\ Consistency(name) <= score
          /\ (entity.score # NoScore /\ entity.scoredAs = name) => score <= entity.score
      BY <1>2, <2>1, <3>1 DEF ScoreFollows
    <3>4. entity'.score = score /\ entity'.scoredAs = name
      BY <1>2, <3>2 DEF Entities
    <3>5. Consistency(name)' <= score
      BY <1>1, <3>3, ScoreStaysAbove
    <3>6. NeverRises
      BY <3>3, <3>4 DEF NeverRises
    <3> QED
      BY <2>2, <3>4, <3>5, <3>6 DEF ScoreFollows
  <2> QED
    BY <2>3, <2>4
<1>11. ASSUME NEW t \in AiTxns, BeginGenerate(t) PROVE ScoreFollows' /\ NeverRises
  <2>1. PICK request : BeginAi(t, request) /\ request.op = "generate"
    BY <1>11 DEF BeginGenerate
  <2>2. UNCHANGED entity /\ Checked' \subseteq Checked /\ \A u \in Checked' : aiTxn'[u] = aiTxn[u]
    BY <2>1, AiBegins DEF Checked
  <2> QED
    BY <1>3, <1>5, <2>2
<1>12. ASSUME NEW t \in AiTxns, CommitAiGenerate(t) \/ AbortAi(t) PROVE ScoreFollows' /\ NeverRises
  <2>1. UNCHANGED entity /\ EndAi(t)
    BY <1>12 DEF CommitAiGenerate, AbortAi
  <2>2. Checked' \subseteq Checked /\ \A u \in Checked' : aiTxn'[u] = aiTxn[u]
    BY <2>1, AiEnds DEF Checked
  <2> QED
    BY <1>3, <1>5, <2>1, <2>2
<1> QED
  BY <1>6, <1>7, <1>8, <1>9, <1>10, <1>11, <1>12 DEF AiNext

(* Checks one after the other, whatever is recorded, imported or renamed   *)
(* meanwhile: the score of an entity never rises from one check to the     *)
(* next under the same name, whatever a wrong or a negative mention costs  *)
(* (entity_checker.py:42); and always the visibility lies between its      *)
(* rates and their sum (brand_monitor.py:71).                              *)
THEOREM ScoresStaySound == OneAiRequest /\ AiSpec => ScoresAreSound
<1> SUFFICES ASSUME OneAiRequest PROVE AiSpec => ScoresAreSound
  OBVIOUS
<1>1. AiInit => AiTyped /\ ScoreFollows
  BY AiTypedInit DEF AiInit, ScoreFollows, Checked, NoAiRequest, NoEntity, Entity
<1>2. ASSUME AiTyped, ScoreFollows, [AiNext]_aiVars
      PROVE  /\ AiTyped' /\ ScoreFollows'
             /\ [/\ VisibilityCovers'
                 /\ NeverRises]_aiVars
  BY <1>2, AiTypedStep, ScoreFollowsStep, VisibilityStaysCovered
<1>3. AiSpec => [][/\ VisibilityCovers'
                   /\ NeverRises]_aiVars
  BY <1>1, <1>2, PTL DEF AiSpec
<1> QED
  BY <1>3 DEF ScoresAreSound, NeverRises

----------------------------------------------------------------------------
(* Types, however requests overlap. Execution jobs: a request writes       *)
(* columns the row has, with values they take.                             *)
ExecColumns == {"status", "started", "ended", "error", "output"}

Writes(sets) ==
    /\ DOMAIN sets \subseteq ExecColumns
    /\ "status" \in DOMAIN sets => sets["status"] \in ExecStatuses
    /\ "started" \in DOMAIN sets => sets["started"] \in BOOLEAN
    /\ "ended" \in DOMAIN sets => sets["ended"] \in BOOLEAN
    /\ "error" \in DOMAIN sets => sets["error"] \in BOOLEAN
    /\ "output" \in DOMAIN sets => sets["output"] \in {"none", "plan", "post"}

ExecTyped ==
    /\ ExecTypeOK
    /\ execTxn = [t \in ExecTxns |-> execTxn[t]]
    /\ \A t \in ExecTxns : execTxn[t] # NoRequest => Writes(execTxn[t].sets)

LEMMA ColumnsOfRow ==
  ASSUME NEW row \in Columns
  PROVE  /\ DOMAIN row = ExecColumns
         /\ row["status"] \in ExecStatuses /\ row["output"] \in {"none", "plan", "post"}
         /\ row["started"] \in BOOLEAN /\ row["ended"] \in BOOLEAN /\ row["error"] \in BOOLEAN
BY DEF Columns, ExecColumns

LEMMA RowOfColumns ==
  ASSUME NEW row, row = [c \in ExecColumns |-> row[c]],
         row["status"] \in ExecStatuses, row["output"] \in {"none", "plan", "post"},
         row["started"] \in BOOLEAN, row["ended"] \in BOOLEAN, row["error"] \in BOOLEAN
  PROVE  row \in Columns
BY DEF Columns, ExecColumns

LEMMA SomeOfThem ==
  ASSUME NEW assigned, Writes(assigned)
  PROVE  Writes(Changed(assigned))
<1>1. PICK sets : sets = Changed(assigned)
  OBVIOUS
<1>2. DOMAIN sets \subseteq DOMAIN assigned /\ \A c \in DOMAIN sets : sets[c] = assigned[c]
  BY <1>1 DEF Changed
<1>3. Writes(sets)
  BY <1>2 DEF Writes, ExecColumns
<1> QED
  BY <1>1, <1>3

LEMMA ExecBegins ==
  ASSUME ExecTyped, NEW t \in ExecTxns, NEW op \in {"update", "publish"}, NEW assigned, Writes(assigned),
         BeginExec(t, op, assigned)
  PROVE  ExecTyped'
<1>1. PICK request : /\ request = [op |-> op, sets |-> Changed(assigned)]
                     /\ execTxn' = [execTxn EXCEPT ![t] = request]
  BY DEF BeginExec
<1>2. request.op \in {"update", "publish"} /\ Writes(request.sets)
  BY <1>1, SomeOfThem
<1>3. /\ execTxn' = [u \in ExecTxns |-> execTxn'[u]] /\ execTxn'[t] = request
      /\ \A u \in ExecTxns \ {t} : execTxn'[u] = execTxn[u]
  <2>1. execTxn = [u \in ExecTxns |-> execTxn[u]]
    BY DEF ExecTyped
  <2> QED
    BY <1>1, <2>1
<1>4. execBegun' \in 0 .. MaxExecRequests /\ UNCHANGED <<adapter, job, published>>
  BY ExecAssumption DEF BeginExec, ExecTyped, ExecTypeOK
<1>5. \A u \in ExecTxns : execTxn'[u] = NoRequest \/ execTxn'[u].op \in {"update", "publish"}
  BY <1>2, <1>3 DEF ExecTyped, ExecTypeOK
<1>6. \A u \in ExecTxns : execTxn'[u] # NoRequest => Writes(execTxn'[u].sets)
  BY <1>2, <1>3 DEF ExecTyped
<1> QED
  BY <1>3, <1>4, <1>5, <1>6 DEF ExecTyped, ExecTypeOK

LEMMA ExecCommits ==
  ASSUME ExecTyped, NEW t \in ExecTxns, CommitExec(t)
  PROVE  ExecTyped'
<1>1. PICK sets : sets = execTxn[t].sets /\ Writes(sets)
  BY DEF CommitExec, ExecTyped
<1>2. job \in Columns
  BY DEF ExecTyped, ExecTypeOK
<1>3. /\ job' = [c \in ExecColumns |-> IF c \in DOMAIN sets THEN sets[c] ELSE job[c]]
  BY <1>1, <1>2, ColumnsOfRow DEF CommitExec
<1>4. job' \in Columns
  <2>1. PICK row : row = job' /\ row = [c \in ExecColumns |-> IF c \in DOMAIN sets THEN sets[c] ELSE job[c]]
    BY <1>3
  <2>2. \A c \in ExecColumns : row[c] = IF c \in DOMAIN sets THEN sets[c] ELSE job[c]
    BY <2>1
  <2>3. /\ row["status"] \in ExecStatuses /\ row["output"] \in {"none", "plan", "post"}
        /\ row["started"] \in BOOLEAN /\ row["ended"] \in BOOLEAN /\ row["error"] \in BOOLEAN
    BY <1>1, <1>2, <2>2, ColumnsOfRow DEF Writes, ExecColumns
  <2>4. row = [c \in ExecColumns |-> row[c]]
    BY <2>1
  <2>5. row \in Columns
    BY <2>3, <2>4, RowOfColumns
  <2> QED
    BY <2>1, <2>5
<1>5. execTxn' = [execTxn EXCEPT ![t] = NoRequest] /\ execTxn = [u \in ExecTxns |-> execTxn[u]]
  BY DEF CommitExec, ExecTyped
<1>6. /\ execTxn' = [u \in ExecTxns |-> execTxn'[u]] /\ execTxn'[t] = NoRequest
      /\ \A u \in ExecTxns \ {t} : execTxn'[u] = execTxn[u]
  BY <1>5
<1>7. published' \in BOOLEAN /\ UNCHANGED <<adapter, execBegun>>
  BY DEF CommitExec, ExecTyped, ExecTypeOK
<1> QED
  BY <1>4, <1>6, <1>7 DEF ExecTyped, ExecTypeOK

LEMMA ExecTypedStep == ExecTyped /\ [ExecNext]_execVars => ExecTyped'
<1> SUFFICES ASSUME ExecTyped, [ExecNext]_execVars PROVE ExecTyped'
  OBVIOUS
<1>1. CASE UNCHANGED execVars
  BY <1>1 DEF execVars, ExecTyped, ExecTypeOK
<1>2. ASSUME NEW t \in ExecTxns, Execute(t) \/ Cancel(t) \/ Retry(t) \/ Publish(t)
      PROVE  ExecTyped'
  <2>1. PICK op, assigned : op \in {"update", "publish"} /\ Writes(assigned) /\ BeginExec(t, op, assigned)
    <3>1. CASE Execute(t)
      <4>1. adapter \in {"accepts", "refuses", "missing"}
        BY DEF ExecTyped, ExecTypeOK
      <4>2. Writes(Dispatched)
        <5>1. CASE adapter = "accepts"
          BY <5>1 DEF Dispatched, Writes, ExecColumns, ExecStatuses
        <5>2. CASE adapter = "refuses"
          BY <5>2 DEF Dispatched, Writes, ExecColumns, ExecStatuses
        <5>3. CASE adapter = "missing"
          BY <5>3 DEF Dispatched, Writes, ExecColumns, ExecStatuses
        <5> QED
          BY <4>1, <5>1, <5>2, <5>3
      <4> QED
        BY <3>1, <4>2 DEF Execute
    <3>2. CASE Cancel(t)
      <4>1. PICK assigned : assigned = [status |-> "cancelled", ended |-> TRUE] /\ BeginExec(t, "update", assigned)
        BY <3>2 DEF Cancel
      <4>2. Writes(assigned)
        BY <4>1 DEF Writes, ExecColumns, ExecStatuses
      <4> QED
        BY <4>1, <4>2
    <3>3. CASE Retry(t)
      <4>1. PICK assigned : /\ assigned = [status |-> "queued", error |-> FALSE, started |-> FALSE, ended |-> FALSE]
                            /\ BeginExec(t, "update", assigned)
        BY <3>3 DEF Retry
      <4>2. Writes(assigned)
        BY <4>1 DEF Writes, ExecColumns, ExecStatuses
      <4> QED
        BY <4>1, <4>2
    <3>4. CASE Publish(t)
      <4>1. PICK assigned : /\ assigned = [status |-> "completed", output |-> "post"]
                            /\ BeginExec(t, "publish", assigned)
        BY <3>4 DEF Publish
      <4>2. Writes(assigned)
        BY <4>1 DEF Writes, ExecColumns, ExecStatuses
      <4> QED
        BY <4>1, <4>2
    <3> QED
      BY <1>2, <3>1, <3>2, <3>3, <3>4
  <2> QED
    BY <2>1, ExecBegins
<1>3. ASSUME NEW t \in ExecTxns, CommitExec(t) PROVE ExecTyped'
  BY <1>3, ExecCommits
<1> QED
  BY <1>1, <1>2, <1>3 DEF ExecNext

LEMMA ExecTypedInit == ExecInit => ExecTyped
<1> SUFFICES ASSUME ExecInit PROVE ExecTyped
  OBVIOUS
<1>1. job \in Columns
  BY DEF ExecInit, Columns, ExecStatuses
<1>2. /\ execTxn = [t \in ExecTxns |-> execTxn[t]]
      /\ \A t \in ExecTxns : execTxn[t] = NoRequest
  BY DEF ExecInit
<1>3. published \in BOOLEAN
  BY DEF ExecInit
<1>5. execBegun \in 0 .. MaxExecRequests
  BY ExecAssumption DEF ExecInit
<1>4. adapter \in {"accepts", "refuses", "missing"}
  BY DEF ExecInit
<1> QED
  BY <1>1, <1>2, <1>3, <1>4, <1>5 DEF ExecTyped, ExecTypeOK

----------------------------------------------------------------------------
(* Types, however requests overlap. The topic graph: no foreign key points *)
(* at a cluster that is gone. A transaction looks again when it commits,   *)
(* so that nothing it has read needs to be true by then.                   *)
Pointers == [Queries -> ClusterIds \cup {NoCluster}]

KeysHold ==
    \A q \in Queries :
        /\ topicNode[q] = NoNode \/ topicNode[q].cluster \in clusters
        /\ pyramid[q] \in clusters \cup {NoCluster}
        /\ slotTarget[q] \in clusters \cup {NoCluster}

GraphTyped ==
    /\ NodesTyped /\ SweepHolds /\ pyramid \in Pointers /\ slotTarget \in Pointers
    /\ KeysHold
    /\ graphBegun \in 0 .. MaxGraphRequests

LEMMA GraphTypedInit == GraphInit => GraphTyped
<1> SUFFICES ASSUME GraphInit PROVE GraphTyped
  OBVIOUS
<1>1. NodesTyped /\ SweepHolds
  BY NodesTypedInit, SweepHoldsInit
<1>2. pyramid \in Pointers /\ slotTarget \in Pointers /\ KeysHold
  BY DEF GraphInit, Pointers, KeysHold
<1>3. graphBegun \in 0 .. MaxGraphRequests
  BY TopicGraphAssumption DEF GraphInit
<1> QED
  BY <1>1, <1>2, <1>3 DEF GraphTyped

LEMMA RebuildKeepsKeys ==
  ASSUME GraphTyped, NEW t \in GraphTxns, CommitRebuild(t)
  PROVE  KeysHold' /\ pyramid' \in Pointers
<1>1. PICK del : del = graphTxn[t].del \cap clusters
  OBVIOUS
<1>20. PICK found \in SUBSET Queries : \E group \in [found -> FreshIds] : RebuiltAs(t, del, found, group)
  BY <1>1, RebuildRuns
<1>2. PICK group \in [found -> FreshIds] : RebuiltAs(t, del, found, group)
  BY <1>20
<1>3. PICK gone, adopted : gone = graphTxn[t].gone /\ adopted = graphTxn[t].adopted
  OBVIOUS
<1>4. /\ clusters' = (clusters \ del) \cup Range(group)
      /\ adopted \subseteq found
      /\ topicNode' = [q \in Queries |->
           IF q \in adopted THEN [cluster |-> group[q], locked |-> Locked(q)]
           ELSE IF ~(q \in gone \/ topicNode[q] = NoNode) THEN topicNode[q]
           ELSE IF q \in found THEN [cluster |-> group[q], locked |-> FALSE] ELSE NoNode]
      /\ pyramid' = [q \in Queries |-> IF pyramid[q] \in del THEN NoCluster ELSE pyramid[q]]
  BY <1>2, <1>3 DEF RebuiltAs
<1>5. \A q \in found : group[q] \in clusters'
  BY <1>4 DEF Range
<1>6. slotTarget' = slotTarget /\ pyramid' \in Pointers
  BY <1>4 DEF CommitRebuild, GraphTyped, Pointers
<1>7. ASSUME NEW q \in Queries
      PROVE  /\ topicNode'[q] = NoNode \/ topicNode'[q].cluster \in clusters'
             /\ pyramid'[q] \in clusters' \cup {NoCluster}
             /\ slotTarget'[q] \in clusters' \cup {NoCluster}
  <2>1. /\ topicNode[q] = NoNode \/ topicNode[q].cluster \in clusters
        /\ pyramid[q] \in clusters \cup {NoCluster} /\ slotTarget[q] \in clusters \cup {NoCluster}
    BY DEF GraphTyped, KeysHold
  <2>2. slotTarget[q] \notin del /\ (q \notin gone => topicNode[q].cluster \notin del)
    BY <1>2, <1>3 DEF RebuiltAs, Referenced
  <2>3. pyramid'[q] = IF pyramid[q] \in del THEN NoCluster ELSE pyramid[q]
    BY <1>4
  <2>4. \/ q \in found /\ topicNode'[q].cluster = group[q]
        \/ q \notin gone /\ topicNode'[q] = topicNode[q]
        \/ topicNode'[q] = NoNode
    BY <1>4
  <2>5. topicNode'[q] = NoNode \/ topicNode'[q].cluster \in clusters'
    BY <1>4, <1>5, <2>1, <2>2, <2>4
  <2> QED
    BY <1>4, <1>6, <2>1, <2>2, <2>3, <2>5
<1> QED
  BY <1>6, <1>7 DEF KeysHold

LEMMA AssignKeepsKeys ==
  ASSUME GraphTyped, NEW t \in GraphTxns, CommitAssign(t)
  PROVE  KeysHold'
<1> DEFINE p == graphTxn[t].query
<1>0. /\ topicNode' = [topicNode EXCEPT ![p] =
                          [cluster |-> graphTxn[t].cluster, locked |-> topicNode[p].locked \/ graphTxn[t].lock]]
      /\ graphTxn[t].cluster \in clusters
  BY DEF CommitAssign
<1>3. PICK moved : moved = [cluster |-> graphTxn[t].cluster, locked |-> topicNode[p].locked \/ graphTxn[t].lock]
  OBVIOUS
<1>1. topicNode' = [topicNode EXCEPT ![p] = moved] /\ moved.cluster \in clusters
  BY <1>0, <1>3
<1> HIDE DEF p
<1>2. UNCHANGED <<clusters, pyramid, slotTarget>>
  BY DEF CommitAssign
<1> QED
  BY <1>1, <1>2 DEF GraphTyped, NodesTyped, KeysHold

LEMMA LinkKeepsKeys ==
  ASSUME GraphTyped, NEW t \in GraphTxns, CommitLink(t)
  PROVE  KeysHold' /\ pyramid' \in Pointers
<1> DEFINE p == graphTxn[t].query
<1>5. graphTxn[t].insert <=> topicNode[p] = NoNode
  BY DEF CommitLink
<1>6. PICK c \in ClusterIds :
        /\ clusters' = clusters \cup {c} /\ pyramid' = [pyramid EXCEPT ![p] = c]
        /\ topicNode' = [topicNode EXCEPT ![p] =
             IF graphTxn[t].insert THEN [cluster |-> c, locked |-> TRUE] ELSE [@ EXCEPT !.locked = TRUE]]
  BY DEF CommitLink, FreshIds, GraphTyped, NodesTyped
<1> HIDE DEF p
<1>1. PICK row : /\ topicNode' = [topicNode EXCEPT ![p] = row]
                 /\ row = IF graphTxn[t].insert THEN [cluster |-> c, locked |-> TRUE]
                                                ELSE [topicNode[p] EXCEPT !.locked = TRUE]
  BY <1>6
<1>2. slotTarget' = slotTarget
  BY DEF CommitLink
<1>3. pyramid' \in Pointers
  BY <1>6 DEF GraphTyped, Pointers
<1>4. ASSUME NEW q \in Queries
      PROVE  /\ topicNode'[q] = NoNode \/ topicNode'[q].cluster \in clusters'
             /\ pyramid'[q] \in clusters' \cup {NoCluster}
             /\ slotTarget'[q] \in clusters' \cup {NoCluster}
  <2>1. /\ topicNode[q] = NoNode \/ topicNode[q].cluster \in clusters
        /\ pyramid[q] \in clusters \cup {NoCluster} /\ slotTarget[q] \in clusters \cup {NoCluster}
    BY DEF GraphTyped, KeysHold
  <2>2. topicNode[q] \in [cluster : ClusterIds \cup {NoCluster}, locked : BOOLEAN]
    BY DEF GraphTyped, NodesTyped
  <2>3. topicNode'[q] = IF q = p THEN row ELSE topicNode[q]
    BY <1>1 DEF GraphTyped, NodesTyped
  <2>4. pyramid'[q] = IF q = p THEN c ELSE pyramid[q]
    BY <1>6 DEF GraphTyped, Pointers
  <2>5. q = p => row.cluster = c \/ (row.cluster = topicNode[q].cluster /\ topicNode[q] # NoNode)
    BY <1>1, <1>5, <2>2
  <2>6. topicNode'[q] = NoNode \/ topicNode'[q].cluster \in clusters'
    <3>1. clusters \subseteq clusters' /\ c \in clusters'
      BY <1>6
    <3>2. CASE q = p
      BY <2>1, <2>3, <2>5, <3>1, <3>2
    <3>3. CASE q # p
      BY <2>1, <2>3, <3>1, <3>3
    <3> QED
      BY <3>2, <3>3
  <2> QED
    BY <1>2, <1>6, <2>1, <2>4, <2>6
<1> QED
  BY <1>3, <1>4 DEF KeysHold

LEMMA SnapshotKeepsKeys ==
  ASSUME GraphTyped, NEW t \in GraphTxns, CommitSnapshot(t)
  PROVE  KeysHold' /\ slotTarget' \in Pointers
<1>1. PICK p, c : /\ slotTarget' = [slotTarget EXCEPT ![p] = c]
                  /\ c \in clusters \cup {NoCluster}
  BY DEF CommitSnapshot
<1>2. UNCHANGED <<clusters, topicNode, pyramid>>
  BY DEF CommitSnapshot
<1> QED
  BY <1>1, <1>2 DEF GraphTyped, NodesTyped, KeysHold, Pointers

LEMMA GraphTypedStep == GraphTyped /\ [GraphNext]_graphVars => GraphTyped'
<1> SUFFICES ASSUME GraphTyped, [GraphNext]_graphVars PROVE GraphTyped'
  OBVIOUS
<1>1. NodesTyped' /\ SweepHolds'
  BY LockedStep, SweepStep DEF GraphTyped, SweepHolds
<1>2. graphBegun' \in 0 .. MaxGraphRequests
  <2>1. ASSUME NEW t \in GraphTxns, NEW a, Open(t, a) PROVE graphBegun' \in 0 .. MaxGraphRequests
    BY <2>1, TopicGraphAssumption DEF Open, GraphTyped
  <2>2. graphBegun' = graphBegun \/ \E t \in GraphTxns : \E a : Open(t, a)
    <3>1. CASE UNCHANGED graphVars
      BY <3>1 DEF graphVars
    <3>2. ASSUME NEW t \in GraphTxns,
                 CommitDetect(t) \/ CommitRebuild(t) \/ CommitAssign(t) \/ CommitLink(t)
                   \/ CommitSnapshot(t) \/ AbortGraph(t)
          PROVE  graphBegun' = graphBegun
      BY <3>2 DEF CommitDetect, CommitRebuild, CommitAssign, CommitLink, CommitSnapshot, AbortGraph, Close
    <3>5. ASSUME NEW t \in GraphTxns, StartSweep(t) \/ Sweep(t) \/ Adopt(t) PROVE graphBegun' = graphBegun
      BY <3>5 DEF StartSweep, Sweep, Adopt
    <3>3. ASSUME NEW t \in GraphTxns, ReadCases(t) PROVE graphBegun' = graphBegun \/ \E a : Open(t, a)
      BY <3>3 DEF ReadCases, Close
    <3>4. ASSUME NEW t \in GraphTxns, BeginRebuild(t) \/ BeginAssign(t) \/ BeginLink(t) \/ BeginSnapshot(t)
          PROVE  \E a : Open(t, a)
      BY <3>4 DEF BeginRebuild, BeginAssign, BeginLink, BeginSnapshot
    <3> QED
      BY <3>1, <3>2, <3>3, <3>4, <3>5 DEF GraphNext
  <2>3. graphBegun \in 0 .. MaxGraphRequests
    BY DEF GraphTyped
  <2> QED
    BY <2>1, <2>2, <2>3
<1>3. CASE UNCHANGED <<clusters, topicNode, pyramid, slotTarget>>
  BY <1>1, <1>2, <1>3 DEF GraphTyped, KeysHold, Pointers
<1>4. ASSUME NEW t \in GraphTxns, CommitRebuild(t) PROVE GraphTyped'
  <2>1. slotTarget' = slotTarget
    BY <1>4 DEF CommitRebuild
  <2> QED
    BY <1>1, <1>2, <1>4, <2>1, RebuildKeepsKeys DEF GraphTyped, Pointers
<1>5. ASSUME NEW t \in GraphTxns, CommitAssign(t) PROVE GraphTyped'
  <2>1. UNCHANGED <<pyramid, slotTarget>>
    BY <1>5 DEF CommitAssign
  <2> QED
    BY <1>1, <1>2, <1>5, <2>1, AssignKeepsKeys DEF GraphTyped, Pointers
<1>6. ASSUME NEW t \in GraphTxns, CommitLink(t) PROVE GraphTyped'
  <2>1. slotTarget' = slotTarget
    BY <1>6 DEF CommitLink
  <2> QED
    BY <1>1, <1>2, <1>6, <2>1, LinkKeepsKeys DEF GraphTyped, Pointers
<1>7. ASSUME NEW t \in GraphTxns, CommitSnapshot(t) PROVE GraphTyped'
  <2>1. pyramid' = pyramid
    BY <1>7 DEF CommitSnapshot
  <2> QED
    BY <1>1, <1>2, <1>7, <2>1, SnapshotKeepsKeys DEF GraphTyped, Pointers
<1>8. ASSUME NEW t \in GraphTxns,
             \/ BeginRebuild(t) \/ StartSweep(t) \/ Sweep(t) \/ Adopt(t)
             \/ ReadCases(t) \/ CommitDetect(t) \/ BeginAssign(t)
             \/ BeginLink(t) \/ BeginSnapshot(t) \/ AbortGraph(t)
      PROVE  UNCHANGED <<clusters, topicNode, pyramid, slotTarget>>
  BY <1>8 DEF BeginRebuild, StartSweep, Sweep, Adopt, ReadCases, CommitDetect, BeginAssign, BeginLink,
     BeginSnapshot, AbortGraph
<1>9. CASE UNCHANGED graphVars
  BY <1>3, <1>9 DEF graphVars
<1> QED
  BY <1>3, <1>4, <1>5, <1>6, <1>7, <1>8, <1>9 DEF GraphNext

(* With the bound on the themes the rows have the shapes of the models.    *)
LEMMA GraphRows == GraphTyped /\ GraphCounted => GraphTypeOK
<1> SUFFICES ASSUME GraphTyped, GraphCounted PROVE GraphTypeOK
  OBVIOUS
<1>1. themes \in 0 .. Cardinality(GraphTxns)
  <2>1. IsFiniteSet(ThemeMakers) /\ IsFiniteSet(GraphTxns)
    BY TopicGraphAssumption, FS_Subset DEF ThemeMakers
  <2>2. PICK n, m, size : n = themes /\ m = Cardinality(ThemeMakers) /\ size = Cardinality(GraphTxns)
    OBVIOUS
  <2>3. n \in Nat /\ m \in Nat /\ size \in Nat /\ n + m <= size
    BY <2>1, <2>2, FS_CardinalityType DEF GraphCounted
  <2> QED
    BY <2>2, <2>3
<1>2. ASSUME NEW q \in Queries
      PROVE  /\ topicNode[q] = NoNode \/ topicNode[q] \in [cluster : clusters, locked : BOOLEAN]
             /\ {pyramid[q], slotTarget[q]} \subseteq clusters \cup {NoCluster}
             /\ cases[q] \in Nat
  <2>1. topicNode[q] \in [cluster : ClusterIds \cup {NoCluster}, locked : BOOLEAN]
    BY DEF GraphTyped, NodesTyped
  <2>2. topicNode[q] = NoNode \/ topicNode[q].cluster \in clusters
    BY DEF GraphTyped, KeysHold
  <2>3. topicNode[q].cluster \in clusters => topicNode[q] \in [cluster : clusters, locked : BOOLEAN]
    BY <2>1
  <2>4. {pyramid[q], slotTarget[q]} \subseteq clusters \cup {NoCluster}
    BY DEF GraphTyped, KeysHold
  <2>5. cases[q] \in Nat
    BY DEF GraphCounted
  <2> QED
    BY <2>2, <2>3, <2>4, <2>5
<1> QED
  BY <1>1, <1>2 DEF GraphTyped, NodesTyped, GraphTypeOK

----------------------------------------------------------------------------
(* ... the knowledge base: what a request holds when n requests have begun *)
(* and the facts are numbered by D. A version grows by one with a request. *)
PackRow(p, D) == p.cited \subseteq D /\ p.status \in {"ready", "needs_human_evidence"}

SourceSets(sets, n) ==
    /\ DOMAIN sets \subseteq {"status", "version"}
    /\ "status" \in DOMAIN sets => sets["status"] \in KnowStatuses
    /\ "version" \in DOMAIN sets => sets["version"] \in 1 .. n + 1

Holding(a, D, n) ==
    /\ a.op \in {"none", "source", "fact", "create", "pack"}
    /\ a.op = "source" => a.status \in KnowStatuses /\ SourceSets(a.sets, n)
    /\ a.op = "create" => a.id \in Sources
    /\ a.op = "fact" => /\ a.id \in D /\ a.status \in KnowStatuses
                        /\ DOMAIN a.sets \subseteq {"status"}
                        /\ "status" \in DOMAIN a.sets => a.sets["status"] = a.status
    /\ a.op = "pack" => PackRow(a.row, D)

Ingesting(a) == a = NoKnowTxn \/ (a.op = "ingest" /\ a.id \in Sources)

SourceRows(n) == [Sources -> [status : KnowStatuses, version : 1 .. n + 1]]

KnowTyped ==
    /\ sources \in SourceRows(knowBegun)
    /\ facts \in Seq(FactRow) /\ Len(facts) <= MaxFacts
    /\ \A p \in packs : PackRow(p, DOMAIN facts)
    /\ briefs \subseteq packs
    /\ said \in [Sources -> KnowStatuses]
    /\ knowTxn = [t \in KnowTxns |-> knowTxn[t]]
    /\ \A t \in KnowTxns : Holding(knowTxn[t], DOMAIN facts, knowBegun)
    /\ ingest = [w \in IngestTasks |-> ingest[w]]
    /\ \A w \in IngestTasks : Ingesting(ingest[w])
    /\ knowBegun \in 0 .. MaxKnowRequests

KnowTxnMoves ==
    \/ knowTxn' = knowTxn
    \/ \E t \in KnowTxns : \E a : Holding(a, DOMAIN facts', knowBegun') /\ knowTxn' = [knowTxn EXCEPT ![t] = a]

IngestMoves ==
    \/ ingest' = ingest
    \/ \E w \in IngestTasks : \E a : Ingesting(a) /\ ingest' = [ingest EXCEPT ![w] = a]

LEMMA HoldingOn ==
  ASSUME NEW a, NEW D, NEW E, NEW n \in Nat, NEW m \in Nat, D \subseteq E, n <= m, Holding(a, D, n)
  PROVE  Holding(a, E, m)
<1>1. 1 .. n + 1 \subseteq 1 .. m + 1
  OBVIOUS
<1> QED
  BY <1>1 DEF Holding, PackRow, SourceSets

LEMMA KnowTypedKept ==
  ASSUME KnowTyped, knowBegun' \in 0 .. MaxKnowRequests, knowBegun <= knowBegun',
         sources' \in SourceRows(knowBegun'), said' \in [Sources -> KnowStatuses],
         facts' \in Seq(FactRow), Len(facts') <= MaxFacts, DOMAIN facts \subseteq DOMAIN facts',
         \A p \in packs' : PackRow(p, DOMAIN facts'), briefs' \subseteq packs',
         KnowTxnMoves, IngestMoves
  PROVE  KnowTyped'
<1>1. PICK D, E, n, m : D = DOMAIN facts /\ E = DOMAIN facts' /\ n = knowBegun /\ m = knowBegun'
  OBVIOUS
<1>2. n \in Nat /\ m \in Nat /\ n <= m /\ D \subseteq E
  BY <1>1, KnowAssumption DEF KnowTyped
<1>3. \A t \in KnowTxns : Holding(knowTxn[t], D, n)
  BY <1>1 DEF KnowTyped
<1>4. \A t \in KnowTxns : Holding(knowTxn[t], E, m)
  BY <1>2, <1>3, HoldingOn
<1>5. knowTxn' = [t \in KnowTxns |-> knowTxn'[t]] /\ \A t \in KnowTxns : Holding(knowTxn'[t], E, m)
  <2>1. knowTxn = [t \in KnowTxns |-> knowTxn[t]]
    BY DEF KnowTyped
  <2>2. CASE knowTxn' = knowTxn
    BY <1>4, <2>1, <2>2
  <2>3. ASSUME NEW t \in KnowTxns, NEW a, Holding(a, E, m), knowTxn' = [knowTxn EXCEPT ![t] = a]
        PROVE  knowTxn' = [u \in KnowTxns |-> knowTxn'[u]] /\ \A u \in KnowTxns : Holding(knowTxn'[u], E, m)
    <3>1. knowTxn' = [u \in KnowTxns |-> IF u = t THEN a ELSE knowTxn[u]]
      BY <2>1, <2>3
    <3> QED
      BY <1>4, <2>3, <3>1
  <2> QED
    BY <1>1, <2>2, <2>3 DEF KnowTxnMoves
<1>6. ingest' = [w \in IngestTasks |-> ingest'[w]] /\ \A w \in IngestTasks : Ingesting(ingest'[w])
  <2>1. ingest = [w \in IngestTasks |-> ingest[w]] /\ \A w \in IngestTasks : Ingesting(ingest[w])
    BY DEF KnowTyped
  <2>2. CASE ingest' = ingest
    BY <2>1, <2>2
  <2>3. ASSUME NEW w \in IngestTasks, NEW a, Ingesting(a), ingest' = [ingest EXCEPT ![w] = a]
        PROVE  ingest' = [v \in IngestTasks |-> ingest'[v]] /\ \A v \in IngestTasks : Ingesting(ingest'[v])
    <3>1. ingest' = [v \in IngestTasks |-> IF v = w THEN a ELSE ingest[v]]
      BY <2>1, <2>3
    <3> QED
      BY <2>1, <2>3, <3>1
  <2> QED
    BY <2>2, <2>3 DEF IngestMoves
<1>7. \A w \in IngestTasks : Ingesting(ingest[w])'
  BY <1>6 DEF Ingesting
<1>8. \A t \in KnowTxns : Holding(knowTxn[t], DOMAIN facts, knowBegun)'
  BY <1>1, <1>5 DEF Holding, PackRow, SourceSets
<1>9. \A p \in packs' : PackRow(p, DOMAIN facts)'
  BY DEF PackRow
<1>10. (sources \in SourceRows(knowBegun))'
  BY DEF SourceRows
<1> QED
  BY <1>5, <1>6, <1>7, <1>8, <1>9, <1>10 DEF KnowTyped

LEMMA NothingHeld == \A D, n : Holding(NoKnowTxn, D, n) /\ Ingesting(NoKnowTxn)
BY DEF Holding, Ingesting, NoKnowTxn

LEMMA MoreVersions ==
  ASSUME NEW n \in Nat, NEW f \in SourceRows(n)
  PROVE  f \in SourceRows(n + 1)
<1>1. 1 .. n + 1 \subseteq 1 .. (n + 1) + 1
  OBVIOUS
<1>2. [status : KnowStatuses, version : 1 .. n + 1] \subseteq [status : KnowStatuses, version : 1 .. (n + 1) + 1]
  BY <1>1
<1> QED
  BY <1>2 DEF SourceRows

(* A request or a run begins: it only takes its place.                     *)
LEMMA KnowTypedBegins ==
  ASSUME KnowTyped, knowBegun < MaxKnowRequests, knowBegun' = knowBegun + 1,
         UNCHANGED <<sources, facts, packs, briefs, said>>, KnowTxnMoves, IngestMoves
  PROVE  KnowTyped'
<1>1. PICK n : n = knowBegun /\ n \in Nat /\ n + 1 <= MaxKnowRequests /\ knowBegun' = n + 1
  BY KnowAssumption DEF KnowTyped
<1>2. knowBegun' \in 0 .. MaxKnowRequests /\ knowBegun <= knowBegun'
  BY <1>1, KnowAssumption
<1>3. sources \in SourceRows(n)
  BY <1>1 DEF KnowTyped
<1>4. sources' \in SourceRows(knowBegun')
  BY <1>1, <1>3, MoreVersions
<1>5. /\ said' \in [Sources -> KnowStatuses] /\ facts' \in Seq(FactRow) /\ Len(facts') <= MaxFacts
      /\ DOMAIN facts \subseteq DOMAIN facts'
      /\ briefs' \subseteq packs'
  BY DEF KnowTyped
<1>6. \A p \in packs' : PackRow(p, DOMAIN facts')
  BY DEF KnowTyped, PackRow
<1> QED
  BY <1>2, <1>4, <1>5, <1>6, KnowTypedKept

LEMMA BeginsKnow ==
  ASSUME KnowTyped, NEW t \in KnowTxns, NEW a, BeginKnow(t, a), Holding(a, DOMAIN facts, knowBegun + 1)
  PROVE  KnowTyped'
<1>1. /\ knowBegun < MaxKnowRequests /\ knowBegun' = knowBegun + 1
      /\ UNCHANGED <<sources, facts, packs, briefs, said>> /\ ingest' = ingest
      /\ knowTxn' = [knowTxn EXCEPT ![t] = a]
  BY DEF BeginKnow
<1>2. PICK D, m : D = DOMAIN facts' /\ m = knowBegun'
  OBVIOUS
<1>3. Holding(a, D, m)
  BY <1>1, <1>2
<1>4. KnowTxnMoves
  BY <1>1, <1>2, <1>3 DEF KnowTxnMoves
<1>5. IngestMoves
  BY <1>1 DEF IngestMoves
<1> QED
  BY <1>1, <1>4, <1>5, KnowTypedBegins

LEMMA SourceBegins ==
  ASSUME KnowTyped, NEW t \in KnowTxns, NEW s, NEW assigned, "status" \in DOMAIN assigned,
         SourceSets(assigned, knowBegun + 1), BeginSource(t, s, assigned)
  PROVE  KnowTyped'
<1>1. PICK sets : sets = Dirty(sources[s], assigned)
  OBVIOUS
<1>2. DOMAIN sets \subseteq DOMAIN assigned /\ \A c \in DOMAIN sets : sets[c] = assigned[c]
  BY <1>1 DEF Dirty
<1>3. PICK m : m = knowBegun + 1
  OBVIOUS
<1>4. SourceSets(assigned, m)
  BY <1>3
<1>5. SourceSets(sets, m)
  BY <1>2, <1>4 DEF SourceSets
<1>6. PICK a : a = [op |-> "source", id |-> s, sets |-> sets, status |-> assigned.status]
  OBVIOUS
<1>7. Holding(a, DOMAIN facts, m)
  BY <1>4, <1>5, <1>6 DEF Holding, SourceSets
<1>8. BeginKnow(t, a)
  BY <1>1, <1>6 DEF BeginSource
<1> QED
  BY <1>3, <1>7, <1>8, BeginsKnow

LEMMA SourcesAsked ==
  ASSUME KnowTyped, NEW t \in KnowTxns, NEW s \in Sources,
         ApproveSource(t, s) \/ RevokeSource(t, s) \/ UpdateSource(t, s)
  PROVE  KnowTyped'
<1>1. PICK m : m = knowBegun + 1 /\ m \in Nat
  BY KnowAssumption DEF KnowTyped
<1>2. CASE ApproveSource(t, s)
  <2>1. sources[s].version \in 1 .. knowBegun + 1 /\ knowBegun \in Nat
    BY KnowAssumption DEF KnowTyped, SourceRows
  <2>2. PICK v : v = sources[s].version + 1 /\ v \in 1 .. m + 1
    BY <1>1, <2>1
  <2>3. PICK assigned : assigned = [status |-> "approved", version |-> v]
    OBVIOUS
  <2>4. "status" \in DOMAIN assigned /\ SourceSets(assigned, m)
    BY <2>2, <2>3 DEF SourceSets, KnowStatuses
  <2>5. BeginSource(t, s, assigned)
    BY <1>2, <2>2, <2>3 DEF ApproveSource
  <2> QED
    BY <1>1, <2>4, <2>5, SourceBegins
<1>3. ASSUME NEW status \in KnowStatuses, BeginSource(t, s, [status |-> status]) PROVE KnowTyped'
  <2>1. PICK assigned : assigned = [status |-> status]
    OBVIOUS
  <2>2. "status" \in DOMAIN assigned /\ SourceSets(assigned, m)
    BY <2>1 DEF SourceSets
  <2>3. BeginSource(t, s, assigned)
    BY <1>3, <2>1
  <2> QED
    BY <1>1, <2>2, <2>3, SourceBegins
<1>4. "revoked" \in KnowStatuses
  BY DEF KnowStatuses
<1> QED
  BY <1>2, <1>3, <1>4 DEF RevokeSource, UpdateSource

LEMMA FactsAsked ==
  ASSUME KnowTyped, NEW t \in KnowTxns,
         (\E s \in Sources : CreateFact(t, s)) \/ (\E i \in DOMAIN facts : UpdateFact(t, i))
  PROVE  KnowTyped'
<1>1. ASSUME NEW s \in Sources, CreateFact(t, s) PROVE KnowTyped'
  <2>1. PICK a : a = [op |-> "create", id |-> s]
    OBVIOUS
  <2>2. \A D, n : Holding(a, D, n)
    BY <2>1 DEF Holding
  <2>3. BeginKnow(t, a)
    BY <1>1, <2>1 DEF CreateFact
  <2> QED
    BY <2>2, <2>3, BeginsKnow
<1>2. ASSUME NEW i \in DOMAIN facts, UpdateFact(t, i) PROVE KnowTyped'
  <2>1. PICK status \in KnowStatuses :
          BeginKnow(t, [op |-> "fact", id |-> i, sets |-> Dirty(facts[i], [status |-> status]), status |-> status])
    BY <1>2 DEF UpdateFact, KnowStatuses
  <2>2. PICK sets : sets = Dirty(facts[i], [status |-> status])
    OBVIOUS
  <2>3. DOMAIN sets \subseteq {"status"} /\ ("status" \in DOMAIN sets => sets["status"] = status)
    BY <2>2 DEF Dirty
  <2>4. PICK a : a = [op |-> "fact", id |-> i, sets |-> sets, status |-> status]
    OBVIOUS
  <2>5. \A n : Holding(a, DOMAIN facts, n)
    BY <2>3, <2>4 DEF Holding
  <2> QED
    BY <2>1, <2>2, <2>4, <2>5, BeginsKnow
<1> QED
  BY <1>1, <1>2

LEMMA PackAsked ==
  ASSUME KnowTyped, NEW t \in KnowTxns, BuildSourcePack(t)
  PROVE  KnowTyped'
<1>1. PICK cited, opportunity, status, vetted :
        /\ cited \subseteq Usable
        /\ status \in {"ready", "needs_human_evidence"}
        /\ BeginKnow(t, [op |-> "pack",
             row |-> [cited |-> cited, opportunity |-> opportunity, status |-> status, vetted |-> vetted]])
  <2>1. PICK cited \in SUBSET Usable, opportunity \in BOOLEAN, risky \in BOOLEAN :
        BeginKnow(t, [op |-> "pack",
            row |-> [cited |-> cited, opportunity |-> opportunity,
                     status |-> IF Coverage(cited, opportunity, risky) < 50 THEN "needs_human_evidence"
                                                                            ELSE "ready",
                     vetted |-> \A i \in cited : facts[i].reviewed /\ said[facts[i].source] = "approved"]])
    BY DEF BuildSourcePack
  <2>2. PICK status, vetted :
          /\ status = IF Coverage(cited, opportunity, risky) < 50 THEN "needs_human_evidence" ELSE "ready"
          /\ vetted = \A i \in cited : facts[i].reviewed /\ said[facts[i].source] = "approved"
    OBVIOUS
  <2>3. status \in {"ready", "needs_human_evidence"}
    BY <2>2
  <2>4. BeginKnow(t, [op |-> "pack",
             row |-> [cited |-> cited, opportunity |-> opportunity, status |-> status, vetted |-> vetted]])
    BY <2>1, <2>2
  <2> QED
    BY <2>3, <2>4
<1>2. PICK row : row = [cited |-> cited, opportunity |-> opportunity, status |-> status, vetted |-> vetted]
  OBVIOUS
<1>3. cited \subseteq DOMAIN facts
  BY <1>1 DEF Usable
<1>4. PackRow(row, DOMAIN facts)
  BY <1>1, <1>2, <1>3 DEF PackRow
<1>5. PICK a : a = [op |-> "pack", row |-> row]
  OBVIOUS
<1>6. \A n : Holding(a, DOMAIN facts, n)
  BY <1>4, <1>5 DEF Holding
<1> QED
  BY <1>1, <1>2, <1>5, <1>6, BeginsKnow

(* A request ends: its transaction is free again.                          *)
LEMMA EndsHeld ==
  ASSUME NEW t \in KnowTxns, EndsKnow(t), ingest' = ingest
  PROVE  KnowTxnMoves /\ IngestMoves
<1>1. PICK a, D, n : a = NoKnowTxn /\ D = DOMAIN facts' /\ n = knowBegun'
  OBVIOUS
<1>2. Holding(a, D, n)
  BY <1>1, NothingHeld
<1>3. knowTxn' = [knowTxn EXCEPT ![t] = a]
  BY <1>1 DEF EndsKnow
<1> QED
  BY <1>1, <1>2, <1>3 DEF KnowTxnMoves, IngestMoves

LEMMA RunEnds ==
  ASSUME NEW w \in IngestTasks, ingest' = [ingest EXCEPT ![w] = NoKnowTxn], knowTxn' = knowTxn
  PROVE  KnowTxnMoves /\ IngestMoves
<1>1. PICK a : a = NoKnowTxn /\ Ingesting(a)
  BY DEF Ingesting
<1>2. ingest' = [ingest EXCEPT ![w] = a]
  BY <1>1
<1> QED
  BY <1>1, <1>2 DEF KnowTxnMoves, IngestMoves

(* What stays as it is keeps its type.                                     *)
LEMMA KnowStays ==
  ASSUME KnowTyped, knowBegun' = knowBegun
  PROVE  /\ knowBegun' \in 0 .. MaxKnowRequests /\ knowBegun <= knowBegun'
         /\ sources' = sources => sources' \in SourceRows(knowBegun')
         /\ said' = said => said' \in [Sources -> KnowStatuses]
         /\ facts' = facts => /\ facts' \in Seq(FactRow) /\ Len(facts') <= MaxFacts
                              /\ DOMAIN facts \subseteq DOMAIN facts'
         /\ packs' = packs /\ DOMAIN facts \subseteq DOMAIN facts' => \A p \in packs' : PackRow(p, DOMAIN facts')
         /\ packs' = packs /\ briefs' = briefs => briefs' \subseteq packs'
<1>1. knowBegun \in 0 .. MaxKnowRequests
  BY DEF KnowTyped
<1>2. knowBegun' \in 0 .. MaxKnowRequests /\ knowBegun <= knowBegun'
  BY <1>1, KnowAssumption
<1>3. sources' = sources => sources' \in SourceRows(knowBegun')
  BY DEF KnowTyped, SourceRows
<1> QED
  BY <1>2, <1>3 DEF KnowTyped, PackRow

LEMMA CommitSourceTyped ==
  ASSUME KnowTyped, NEW t \in KnowTxns, CommitSource(t)
  PROVE  KnowTyped'
<1>1. PICK s, sets, n :
        /\ s = knowTxn[t].id /\ sets = knowTxn[t].sets /\ n = knowBegun
  OBVIOUS
<1>2. Holding(knowTxn[t], DOMAIN facts, n)
  BY <1>1 DEF KnowTyped
<1>3. SourceSets(sets, n) /\ knowTxn[t].status \in KnowStatuses
  BY <1>1, <1>2 DEF Holding, CommitSource
<1>4. sources' \in SourceRows(n)
  <2>1. sources \in SourceRows(n)
    BY <1>1 DEF KnowTyped
  <2>2. sources' = [sources EXCEPT ![s] = Updated(sources[s], sets)]
    BY <1>1 DEF CommitSource
  <2>3. ASSUME s \in Sources PROVE Updated(sources[s], sets) \in [status : KnowStatuses, version : 1 .. n + 1]
    <3>1. PICK row : row = sources[s] /\ row \in [status : KnowStatuses, version : 1 .. n + 1]
      BY <2>1, <2>3 DEF SourceRows
    <3>2. /\ DOMAIN row = {"status", "version"}
          /\ row["status"] \in KnowStatuses /\ row["version"] \in 1 .. n + 1
      BY <3>1
    <3>3. PICK new : new = Updated(row, sets)
      OBVIOUS
    <3>4. /\ new = [c \in {"status", "version"} |-> new[c]]
          /\ new["status"] \in KnowStatuses /\ new["version"] \in 1 .. n + 1
      <4>1. new = [c \in {"status", "version"} |-> IF c \in DOMAIN sets THEN sets[c] ELSE row[c]]
        BY <3>2, <3>3 DEF Updated
      <4>2. /\ new["status"] = IF "status" \in DOMAIN sets THEN sets["status"] ELSE row["status"]
            /\ new["version"] = IF "version" \in DOMAIN sets THEN sets["version"] ELSE row["version"]
        BY <4>1
      <4> QED
        BY <1>3, <3>2, <4>1, <4>2 DEF SourceSets
    <3>5. new \in [status : KnowStatuses, version : 1 .. n + 1]
      BY <3>4
    <3> QED
      BY <3>1, <3>3, <3>5
  <2>4. CASE s \in Sources
    BY <2>1, <2>2, <2>3, <2>4 DEF SourceRows
  <2>5. CASE s \notin Sources
    BY <2>1, <2>2, <2>5 DEF SourceRows
  <2> QED
    BY <2>4, <2>5
<1>5. said' \in [Sources -> KnowStatuses]
  BY <1>3 DEF CommitSource, KnowTyped
<1>6. UNCHANGED <<facts, packs, briefs, knowBegun>> /\ ingest' = ingest /\ EndsKnow(t)
  BY DEF CommitSource, EndsKnow
<1>7. DOMAIN facts \subseteq DOMAIN facts'
  BY <1>6
<1> QED
  BY <1>1, <1>4, <1>5, <1>6, <1>7, EndsHeld, KnowStays, KnowTypedKept

LEMMA CommitFactTyped ==
  ASSUME KnowTyped, NEW t \in KnowTxns, CommitFact(t)
  PROVE  KnowTyped'
<1>1. PICK row : row = Fact(knowTxn[t].id, "draft", FALSE)
  OBVIOUS
<1>2. Holding(knowTxn[t], DOMAIN facts, knowBegun) /\ knowTxn[t].op = "create"
  BY DEF KnowTyped, CommitFact
<1>3. row \in FactRow
  BY <1>1, <1>2 DEF Holding, Fact, FactRow, KnowStatuses
<1>4. facts \in Seq(FactRow) /\ Len(facts) < MaxFacts /\ facts' = Append(facts, row)
  BY <1>1 DEF CommitFact, KnowTyped
<1>5. facts' \in Seq(FactRow) /\ Len(facts') <= MaxFacts /\ DOMAIN facts \subseteq DOMAIN facts'
  BY <1>3, <1>4, KnowAssumption
<1>6. UNCHANGED <<sources, packs, briefs, said, knowBegun>> /\ ingest' = ingest /\ EndsKnow(t)
  BY DEF CommitFact, EndsKnow
<1> QED
  BY <1>5, <1>6, EndsHeld, KnowStays, KnowTypedKept

LEMMA CommitUpdateFactTyped ==
  ASSUME KnowTyped, NEW t \in KnowTxns, CommitUpdateFact(t)
  PROVE  KnowTyped'
<1>1. PICK i, sets, status : i = knowTxn[t].id /\ sets = knowTxn[t].sets /\ status = knowTxn[t].status
  OBVIOUS
<1>2. Holding(knowTxn[t], DOMAIN facts, knowBegun) /\ knowTxn[t].op = "fact"
  BY DEF KnowTyped, CommitUpdateFact
<1>3. /\ i \in DOMAIN facts /\ status \in KnowStatuses /\ DOMAIN sets \subseteq {"status"}
      /\ "status" \in DOMAIN sets => sets["status"] = status
  BY <1>1, <1>2 DEF Holding
<1>4. facts \in Seq(FactRow) /\ Len(facts) <= MaxFacts
  BY DEF KnowTyped
<1>5. PICK row : row = facts[i] /\ row \in FactRow
  BY <1>3, <1>4
<1>6. PICK new : new = [Updated(row, sets) EXCEPT !.reviewed = @ \/ status = "approved"]
  OBVIOUS
<1>7. new \in FactRow
  BY <1>3, <1>5, <1>6, ReviewedRow
<1>8. facts' = [facts EXCEPT ![i] = new]
  BY <1>1, <1>5, <1>6 DEF CommitUpdateFact
<1>9. facts' \in Seq(FactRow) /\ Len(facts') <= MaxFacts /\ DOMAIN facts \subseteq DOMAIN facts'
  BY <1>3, <1>4, <1>7, <1>8
<1>10. UNCHANGED <<sources, packs, briefs, said, knowBegun>> /\ ingest' = ingest /\ EndsKnow(t)
  BY DEF CommitUpdateFact, EndsKnow
<1> QED
  BY <1>9, <1>10, EndsHeld, KnowStays, KnowTypedKept

LEMMA CommitPackTyped ==
  ASSUME KnowTyped, NEW t \in KnowTxns, CommitPack(t)
  PROVE  KnowTyped'
<1>1. PICK p : p = knowTxn[t].row /\ packs' = packs \cup {p}
  BY DEF CommitPack
<1>2. Holding(knowTxn[t], DOMAIN facts, knowBegun) /\ knowTxn[t].op = "pack"
  BY DEF KnowTyped, CommitPack
<1>3. UNCHANGED <<sources, facts, briefs, said, knowBegun>> /\ ingest' = ingest /\ EndsKnow(t)
  BY DEF CommitPack, EndsKnow
<1>4. \A r \in packs' : PackRow(r, DOMAIN facts')
  BY <1>1, <1>2, <1>3 DEF Holding, KnowTyped
<1>5. briefs' \subseteq packs'
  BY <1>1, <1>3 DEF KnowTyped
<1> QED
  BY <1>3, <1>4, <1>5, EndsHeld, KnowStays, KnowTypedKept

LEMMA IngestTyped ==
  ASSUME KnowTyped, NEW w \in IngestTasks, (\E s \in Sources : BeginIngest(w, s)) \/ IngestNothing(w)
  PROVE  KnowTyped'
<1>1. ASSUME NEW s \in Sources, BeginIngest(w, s) PROVE KnowTyped'
  <2>1. PICK a : a = [op |-> "ingest", id |-> s, status |-> sources[s].status]
    OBVIOUS
  <2>4. Ingesting(a)
    BY <2>1 DEF Ingesting
  <2>2. /\ knowBegun < MaxKnowRequests /\ knowBegun' = knowBegun + 1
        /\ UNCHANGED <<sources, facts, packs, briefs, said>> /\ knowTxn' = knowTxn
        /\ ingest' = [ingest EXCEPT ![w] = a]
    BY <1>1, <2>1 DEF BeginIngest
  <2>3. KnowTxnMoves /\ IngestMoves
    BY <2>2, <2>4 DEF KnowTxnMoves, IngestMoves
  <2> QED
    BY <2>2, <2>3, KnowTypedBegins
<1>2. CASE IngestNothing(w)
  <2>1. /\ UNCHANGED <<sources, facts, packs, briefs, said, knowBegun>> /\ knowTxn' = knowTxn
        /\ ingest' = [ingest EXCEPT ![w] = NoKnowTxn]
    BY <1>2 DEF IngestNothing
  <2>2. KnowTxnMoves /\ IngestMoves
    BY <2>1, RunEnds
  <2>3. DOMAIN facts \subseteq DOMAIN facts'
    BY <2>1
  <2> QED
    BY <2>1, <2>2, <2>3, KnowStays, KnowTypedKept
<1> QED
  BY <1>1, <1>2

LEMMA FinishIngestTyped ==
  ASSUME KnowTyped, NEW w \in IngestTasks, FinishIngest(w)
  PROVE  KnowTyped'
<1>1. ingest[w].id \in Sources
  BY DEF KnowTyped, Ingesting, FinishIngest, NoKnowTxn
<1>2. PICK n \in 0 .. 2 : Len(facts) + n <= MaxFacts /\ facts' = facts \o Extracted(ingest[w].id, n)
  BY Zenon DEF FinishIngest
<1>13. Fact(ingest[w].id, "draft", FALSE) \in FactRow
  BY <1>1 DEF Fact, FactRow, KnowStatuses
<1>3. PICK row : row = Fact(ingest[w].id, "draft", FALSE) /\ row \in FactRow
  BY <1>13
<1>14. PICK more : more = Extracted(ingest[w].id, n)
  OBVIOUS
<1>4. more = [i \in 1 .. n |-> row] /\ facts' = facts \o more
  BY <1>2, <1>3, <1>14 DEF Extracted
<1>5. more \in Seq(FactRow) /\ Len(more) = n
  <2>3. row \in FactRow /\ more = [i \in 1 .. n |-> row]
    BY <1>3, <1>4
  <2>4. more \in [1 .. n -> FactRow]
    BY <2>3, Zenon
  <2>5. DOMAIN more = 1 .. n
    BY <2>3
  <2>6. n \in Nat
    OBVIOUS
  <2>1. more \in [1 .. n -> FactRow] /\ DOMAIN more = 1 .. n /\ n \in Nat
    BY <2>4, <2>5, <2>6
  <2>2. more \in Seq(FactRow)
    BY <2>1
  <2> QED
    BY <2>1, <2>2
<1>6. facts \in Seq(FactRow)
  BY DEF KnowTyped
<1>7. facts' \in Seq(FactRow) /\ Len(facts') = Len(facts) + n
  BY <1>4, <1>5, <1>6
<1>8. Len(facts') <= MaxFacts /\ DOMAIN facts \subseteq DOMAIN facts'
  BY <1>2, <1>6, <1>7
<1>9. sources' \in SourceRows(knowBegun)
  <2>1. sources \in SourceRows(knowBegun)
    BY DEF KnowTyped
  <2>2. PICK n0 : n0 = knowBegun
    OBVIOUS
  <2>3. CASE sources' = sources
    BY <2>1, <2>3
  <2>4. CASE sources' = [sources EXCEPT ![ingest[w].id].status = "draft"]
    <3>1. "draft" \in KnowStatuses
      BY DEF KnowStatuses
    <3>2. sources[ingest[w].id] \in [status : KnowStatuses, version : 1 .. knowBegun + 1]
      BY <1>1, <2>1 DEF SourceRows
    <3>3. [sources[ingest[w].id] EXCEPT !.status = "draft"] \in [status : KnowStatuses, version : 1 .. knowBegun + 1]
      BY <3>1, <3>2
    <3> QED
      BY <1>1, <2>1, <2>4, <3>3 DEF SourceRows
  <2> QED
    BY <2>3, <2>4 DEF FinishIngest
<1>10. /\ UNCHANGED <<packs, briefs, said, knowBegun>> /\ knowTxn' = knowTxn
       /\ ingest' = [ingest EXCEPT ![w] = NoKnowTxn]
  BY DEF FinishIngest
<1>11. KnowTxnMoves /\ IngestMoves
  BY <1>10, RunEnds
<1>12. sources' \in SourceRows(knowBegun')
  BY <1>9, <1>10
<1> QED
  BY <1>7, <1>8, <1>10, <1>11, <1>12, KnowStays, KnowTypedKept

LEMMA BriefTyped ==
  ASSUME KnowTyped, NEW p \in packs, BuildBrief(p)
  PROVE  KnowTyped'
<1>1. UNCHANGED <<sources, facts, packs, said, knowBegun>> /\ knowTxn' = knowTxn /\ ingest' = ingest
  BY DEF BuildBrief
<1>2. briefs' \subseteq packs'
  BY <1>1 DEF BuildBrief, KnowTyped
<1>3. KnowTxnMoves /\ IngestMoves
  BY <1>1 DEF KnowTxnMoves, IngestMoves
<1>4. DOMAIN facts \subseteq DOMAIN facts'
  BY <1>1
<1> QED
  BY <1>1, <1>2, <1>3, <1>4, KnowStays, KnowTypedKept

LEMMA KnowTypedStep == KnowTyped /\ [KnowNext]_knowVars => KnowTyped'
<1> SUFFICES ASSUME KnowTyped, [KnowNext]_knowVars PROVE KnowTyped'
  OBVIOUS
<1>1. CASE UNCHANGED knowVars
  <2>1. UNCHANGED <<sources, facts, packs, briefs, said, knowBegun>> /\ knowTxn' = knowTxn /\ ingest' = ingest
    BY <1>1 DEF knowVars
  <2>2. KnowTxnMoves /\ IngestMoves
    BY <2>1 DEF KnowTxnMoves, IngestMoves
  <2>3. DOMAIN facts \subseteq DOMAIN facts'
    BY <2>1
  <2> QED
    BY <2>1, <2>2, <2>3, KnowStays, KnowTypedKept
<1>2. CASE KnowNext
  BY <1>2, SourcesAsked, FactsAsked, PackAsked, CommitSourceTyped, CommitFactTyped, CommitUpdateFactTyped,
     CommitPackTyped, IngestTyped, FinishIngestTyped, BriefTyped DEF KnowNext
<1> QED
  BY <1>1, <1>2

LEMMA KnowTypedInit == KnowInit => KnowTyped
<1> SUFFICES ASSUME KnowInit PROVE KnowTyped
  OBVIOUS
<1>1. knowBegun = 0 /\ knowBegun \in 0 .. MaxKnowRequests /\ 1 \in 1 .. knowBegun + 1
  BY KnowAssumption DEF KnowInit
<1>2. \A s \in Sources : sources[s] \in [status : {"pending", "draft"}, version : {1}]
  BY DEF KnowInit
<1>3. \A s \in Sources : sources[s] \in [status : KnowStatuses, version : 1 .. knowBegun + 1]
  BY <1>1, <1>2 DEF KnowStatuses
<1>4. sources \in SourceRows(knowBegun)
  BY <1>3 DEF KnowInit, SourceRows
<1>5. said \in [Sources -> KnowStatuses]
  BY <1>3 DEF KnowInit
<1>6. facts = <<>> /\ facts \in Seq(FactRow) /\ Len(facts) <= MaxFacts /\ packs = {} /\ briefs = {}
  BY KnowAssumption DEF KnowInit
<1>7. /\ knowTxn = [t \in KnowTxns |-> knowTxn[t]]
      /\ \A t \in KnowTxns : Holding(knowTxn[t], DOMAIN facts, knowBegun)
      /\ ingest = [w \in IngestTasks |-> ingest[w]] /\ \A w \in IngestTasks : Ingesting(ingest[w])
  BY NothingHeld DEF KnowInit
<1> QED
  BY <1>1, <1>4, <1>5, <1>6, <1>7 DEF KnowTyped

LEMMA KnowRows == KnowTyped => KnowTypeOK
<1> SUFFICES ASSUME KnowTyped PROVE KnowTypeOK
  OBVIOUS
<1>1. sources \in [Sources -> [status : KnowStatuses, version : 1 .. MaxKnowRequests + 1]]
  <2>1. 1 .. knowBegun + 1 \subseteq 1 .. MaxKnowRequests + 1
    BY KnowAssumption DEF KnowTyped
  <2>2. [status : KnowStatuses, version : 1 .. knowBegun + 1]
          \subseteq [status : KnowStatuses, version : 1 .. MaxKnowRequests + 1]
    BY <2>1
  <2> QED
    BY <2>2 DEF KnowTyped, SourceRows
<1>2. facts \in Seq(FactRow) /\ Len(facts) \in 0 .. MaxFacts
  BY KnowAssumption DEF KnowTyped
<1>3. \A i \in DOMAIN facts : facts[i] \in [source : Sources, status : KnowStatuses, reviewed : BOOLEAN]
  <2>1. \A i \in DOMAIN facts : facts[i] \in FactRow
    BY <1>2
  <2> QED
    BY <2>1 DEF FactRow
<1>4. \A p \in packs : p.cited \subseteq DOMAIN facts /\ p.status \in {"ready", "needs_human_evidence"}
  BY DEF KnowTyped, PackRow
<1>5. \A t \in KnowTxns : knowTxn[t].op \in {"none", "source", "fact", "create", "pack"}
  BY DEF KnowTyped, Holding
<1>6. \A w \in IngestTasks : ingest[w].op \in {"none", "ingest"}
  BY DEF KnowTyped, Ingesting, NoKnowTxn
<1> QED
  BY <1>1, <1>2, <1>3, <1>4, <1>5, <1>6 DEF KnowTypeOK, KnowTyped

----------------------------------------------------------------------------
(* ... the slots of Google's results. D is the slot types that have a      *)
(* target, none of which ever goes, and n how many requests have begun.    *)
GoodTarget(row) == row = NoTarget \/ row \in [status : TargetStatus, owner : CellStatus]

SerpAsks(a, D, n) ==
    /\ a.op \in {"none", "snapshot", "patch", "generate"}
    /\ a.op = "snapshot" =>
         /\ a.captured \in 0 .. n /\ a.shows \in Results
         /\ \A t \in SlotTypes :
              /\ GoodTarget(a.assigned[t])
              /\ a.read[t] # NoTarget => t \in D /\ a.assigned[t] # NoTarget
    /\ a.op = "patch" => a.slot \in D /\ a.status \in TargetStatus

Tracked == {t \in SlotTypes : target[t] # NoTarget}

SerpTyped ==
    /\ latest.captured \in 0 .. serpBegun /\ latest.shows \in Results \cup {Nothing}
    /\ target = [t \in SlotTypes |-> target[t]] /\ \A t \in SlotTypes : GoodTarget(target[t])
    /\ search \in [url : Urls \cup {NoUrl}, striking : BOOLEAN, assets : SUBSET {"image", "video", "schema"}]
    /\ saidStatus \subseteq SlotTypes
    /\ serpTxn = [x \in SerpTxns |-> serpTxn[x]]
    /\ \A x \in SerpTxns : SerpAsks(serpTxn[x], Tracked, serpBegun)
    /\ serpBegun \in 0 .. MaxSerpRequests

SerpTxnMoves ==
    \/ serpTxn' = serpTxn
    \/ \E x \in SerpTxns : \E a : SerpAsks(a, Tracked', serpBegun') /\ serpTxn' = [serpTxn EXCEPT ![x] = a]

LEMMA SerpAsksOn ==
  ASSUME NEW a, NEW D, NEW E, NEW n \in Nat, NEW m \in Nat, D \subseteq E, n <= m, SerpAsks(a, D, n)
  PROVE  SerpAsks(a, E, m)
<1>1. 0 .. n \subseteq 0 .. m
  OBVIOUS
<1> QED
  BY <1>1 DEF SerpAsks

LEMMA SerpTypedKept ==
  ASSUME SerpTyped, serpBegun' \in 0 .. MaxSerpRequests, serpBegun <= serpBegun', Tracked \subseteq Tracked',
         latest'.captured \in 0 .. serpBegun', latest'.shows \in Results \cup {Nothing},
         target' = [t \in SlotTypes |-> target'[t]], \A t \in SlotTypes : GoodTarget(target'[t]),
         search' \in [url : Urls \cup {NoUrl}, striking : BOOLEAN, assets : SUBSET {"image", "video", "schema"}],
         saidStatus' \subseteq SlotTypes, SerpTxnMoves
  PROVE  SerpTyped'
<1>1. PICK D, E, n, m : D = Tracked /\ E = Tracked' /\ n = serpBegun /\ m = serpBegun'
  OBVIOUS
<1>2. n \in Nat /\ m \in Nat /\ n <= m /\ D \subseteq E
  BY <1>1, SerpAssumption DEF SerpTyped
<1>3. \A x \in SerpTxns : SerpAsks(serpTxn[x], D, n)
  BY <1>1 DEF SerpTyped
<1>4. \A x \in SerpTxns : SerpAsks(serpTxn[x], E, m)
  BY <1>2, <1>3, SerpAsksOn
<1>5. serpTxn' = [x \in SerpTxns |-> serpTxn'[x]] /\ \A x \in SerpTxns : SerpAsks(serpTxn'[x], E, m)
  <2>1. serpTxn = [x \in SerpTxns |-> serpTxn[x]]
    BY DEF SerpTyped
  <2>2. CASE serpTxn' = serpTxn
    BY <1>4, <2>1, <2>2
  <2>3. ASSUME NEW x \in SerpTxns, NEW a, SerpAsks(a, E, m), serpTxn' = [serpTxn EXCEPT ![x] = a]
        PROVE  serpTxn' = [y \in SerpTxns |-> serpTxn'[y]] /\ \A y \in SerpTxns : SerpAsks(serpTxn'[y], E, m)
    <3>1. serpTxn' = [y \in SerpTxns |-> IF y = x THEN a ELSE serpTxn[y]]
      BY <2>1, <2>3
    <3> QED
      BY <1>4, <2>3, <3>1
  <2> QED
    BY <1>1, <2>2, <2>3 DEF SerpTxnMoves
<1>6. \A x \in SerpTxns : SerpAsks(serpTxn[x], Tracked, serpBegun)'
  BY <1>1, <1>5 DEF SerpAsks, GoodTarget
<1>7. \A t \in SlotTypes : GoodTarget(target[t])'
  BY DEF GoodTarget
<1> QED
  BY <1>5, <1>6, <1>7 DEF SerpTyped

(* What stays as it is keeps its type.                                     *)
LEMMA SerpStays ==
  ASSUME SerpTyped, serpBegun' \in 0 .. MaxSerpRequests, serpBegun <= serpBegun'
  PROVE  /\ latest' = latest => latest'.captured \in 0 .. serpBegun' /\ latest'.shows \in Results \cup {Nothing}
         /\ target' = target => /\ target' = [t \in SlotTypes |-> target'[t]]
                                /\ \A t \in SlotTypes : GoodTarget(target'[t])
                                /\ Tracked \subseteq Tracked'
         /\ search' = search => search' \in [url : Urls \cup {NoUrl}, striking : BOOLEAN,
                                             assets : SUBSET {"image", "video", "schema"}]
         /\ saidStatus' = saidStatus => saidStatus' \subseteq SlotTypes
<1>1. PICK n, m : n = serpBegun /\ m = serpBegun'
  OBVIOUS
<1>2. n \in Nat /\ m \in Nat /\ 0 .. n \subseteq 0 .. m
  BY <1>1, SerpAssumption DEF SerpTyped
<1>3. latest.captured \in 0 .. n /\ latest.shows \in Results \cup {Nothing}
  BY <1>1 DEF SerpTyped
<1>4. latest' = latest => latest'.captured \in 0 .. serpBegun' /\ latest'.shows \in Results \cup {Nothing}
  BY <1>1, <1>2, <1>3
<1>5. target' = target => /\ target' = [t \in SlotTypes |-> target'[t]]
                          /\ \A t \in SlotTypes : GoodTarget(target'[t])
                          /\ Tracked \subseteq Tracked'
  BY DEF SerpTyped, Tracked
<1>6. /\ search' = search => search' \in [url : Urls \cup {NoUrl}, striking : BOOLEAN,
                                          assets : SUBSET {"image", "video", "schema"}]
      /\ saidStatus' = saidStatus => saidStatus' \subseteq SlotTypes
  BY DEF SerpTyped
<1> QED
  BY <1>4, <1>5, <1>6

LEMMA BeginsSerp ==
  ASSUME SerpTyped, NEW x \in SerpTxns, NEW a, BeginSerp(x, a), SerpAsks(a, Tracked, serpBegun + 1)
  PROVE  SerpTyped'
<1>1. /\ serpBegun < MaxSerpRequests /\ serpBegun' = serpBegun + 1 /\ serpTxn' = [serpTxn EXCEPT ![x] = a]
      /\ UNCHANGED <<latest, target, open, search, saidStatus>>
  BY DEF BeginSerp
<1>2. serpBegun' \in 0 .. MaxSerpRequests /\ serpBegun <= serpBegun'
  BY <1>1, SerpAssumption DEF SerpTyped
<1>3. PICK D, m : D = Tracked' /\ m = serpBegun'
  OBVIOUS
<1>4. D = Tracked
  BY <1>1, <1>3 DEF Tracked
<1>5. SerpAsks(a, D, m)
  BY <1>1, <1>3, <1>4
<1>6. SerpTxnMoves
  BY <1>1, <1>3, <1>5 DEF SerpTxnMoves
<1> QED
  BY <1>1, <1>2, <1>6, SerpStays, SerpTypedKept

LEMMA NothingAsked == \A D, n : SerpAsks(NoSerpTxn, D, n)
BY DEF SerpAsks, NoSerpTxn

LEMMA EndsSerp ==
  ASSUME SerpTyped, NEW x \in SerpTxns, EndSerp(x)
  PROVE  SerpTxnMoves /\ serpBegun' \in 0 .. MaxSerpRequests /\ serpBegun <= serpBegun'
<1>1. PICK a, D, m : a = NoSerpTxn /\ D = Tracked' /\ m = serpBegun'
  OBVIOUS
<1>2. SerpAsks(a, D, m)
  BY <1>1, NothingAsked
<1>3. serpTxn' = [serpTxn EXCEPT ![x] = a] /\ serpBegun' = serpBegun
  BY <1>1 DEF EndSerp
<1>4. serpBegun' \in 0 .. MaxSerpRequests /\ serpBegun <= serpBegun'
  BY <1>3, SerpAssumption DEF SerpTyped
<1> QED
  BY <1>1, <1>2, <1>3, <1>4 DEF SerpTxnMoves

(* A row that a snapshot makes of the one it has read.                     *)
LEMMA SyncedTarget ==
  ASSUME NEW row, GoodTarget(row), NEW t \in SlotTypes, NEW cell \in CellStatus
  PROVE  /\ GoodTarget(Synced(row, t, cell))
         /\ row # NoTarget => Synced(row, t, cell) # NoTarget
<1>1. CASE LeftAlone(t, cell)
  BY <1>1 DEF Synced
<1>2. CASE ~LeftAlone(t, cell)
  <2>1. PICK status : status = IF ShouldSyncTargetStatus(row.status) THEN TargetStatusFromMatrix(cell) ELSE row.status
    OBVIOUS
  <2>2. Synced(row, t, cell) = [owner |-> cell, status |-> status]
    BY <1>2, <2>1 DEF Synced
  <2>3. status \in TargetStatus
    BY <2>1 DEF GoodTarget, NoTarget, ShouldSyncTargetStatus, TargetStatusFromMatrix, TargetStatus, Manual
  <2>4. "absent" \notin TargetStatus
    BY DEF TargetStatus, Manual
  <2>5. Synced(row, t, cell) \in [status : TargetStatus, owner : CellStatus]
    BY <2>2, <2>3
  <2>6. Synced(row, t, cell).status # "absent"
    BY <2>2, <2>3, <2>4
  <2> QED
    BY <2>5, <2>6 DEF GoodTarget, NoTarget
<1> QED
  BY <1>1, <1>2

LEMMA SnapshotAsked ==
  ASSUME SerpTyped, NEW x \in SerpTxns, BeginSerpSnapshot(x)
  PROVE  SerpTyped'
<1>1. PICK r \in Results : \E cells \in Cells(r) :
        BeginSerp(x, [op |-> "snapshot", captured |-> serpBegun + 1, shows |-> r, read |-> target,
                      assigned |-> [t \in SlotTypes |-> Synced(target[t], t, cells[t])]])
  BY DEF BeginSerpSnapshot
<1>2. PICK cells \in Cells(r) :
        BeginSerp(x, [op |-> "snapshot", captured |-> serpBegun + 1, shows |-> r, read |-> target,
                      assigned |-> [t \in SlotTypes |-> Synced(target[t], t, cells[t])]])
  BY <1>1
<1>3. PICK assigned : assigned = [t \in SlotTypes |-> Synced(target[t], t, cells[t])]
  OBVIOUS
<1>4. PICK m : m = serpBegun + 1 /\ m \in 0 .. m
  BY SerpAssumption DEF SerpTyped
<1>5. PICK a : a = [op |-> "snapshot", captured |-> m, shows |-> r, read |-> target, assigned |-> assigned]
  OBVIOUS
<1>6. ASSUME NEW t \in SlotTypes
      PROVE  /\ GoodTarget(assigned[t])
             /\ target[t] # NoTarget => t \in Tracked /\ assigned[t] # NoTarget
  <2>1. cells[t] \in CellStatus
    BY OwnedIsShown
  <2>2. GoodTarget(target[t])
    BY DEF SerpTyped
  <2>3. assigned[t] = Synced(target[t], t, cells[t])
    BY <1>3
  <2>4. GoodTarget(assigned[t]) /\ (target[t] # NoTarget => assigned[t] # NoTarget)
    BY <2>1, <2>2, <2>3, SyncedTarget
  <2> QED
    BY <2>4 DEF Tracked
<1>7. SerpAsks(a, Tracked, m)
  BY <1>4, <1>5, <1>6 DEF SerpAsks
<1>8. BeginSerp(x, a)
  BY <1>2, <1>3, <1>4, <1>5
<1> QED
  BY <1>4, <1>7, <1>8, BeginsSerp

LEMMA RestAsked ==
  ASSUME SerpTyped, NEW x \in SerpTxns, BeginSlotTarget(x) \/ BeginSerpOpportunities(x)
  PROVE  SerpTyped'
<1>1. CASE BeginSlotTarget(x)
  <2>1. PICK t \in SlotTypes, status \in TargetStatus :
          /\ target[t] # NoTarget
          /\ BeginSerp(x, [op |-> "patch", slot |-> t, status |-> status, read |-> target[t].status])
    BY <1>1 DEF BeginSlotTarget
  <2>2. PICK a : a = [op |-> "patch", slot |-> t, status |-> status, read |-> target[t].status]
    OBVIOUS
  <2>3. \A n : SerpAsks(a, Tracked, n)
    BY <2>1, <2>2 DEF SerpAsks, Tracked
  <2> QED
    BY <2>1, <2>2, <2>3, BeginsSerp
<1>2. CASE BeginSerpOpportunities(x)
  <2>1. PICK types : BeginSerp(x, [op |-> "generate", url |-> search.url, types |-> types])
    BY <1>2 DEF BeginSerpOpportunities
  <2>2. PICK a : a = [op |-> "generate", url |-> search.url, types |-> types]
    OBVIOUS
  <2>3. \A n : SerpAsks(a, Tracked, n)
    BY <2>2 DEF SerpAsks
  <2> QED
    BY <2>1, <2>2, <2>3, BeginsSerp
<1> QED
  BY <1>1, <1>2

LEMMA SnapshotCommitTyped ==
  ASSUME SerpTyped, NEW x \in SerpTxns, CommitSerpSnapshot(x)
  PROVE  SerpTyped'
<1>1. PICK txn : txn = serpTxn[x]
  OBVIOUS
<1>2. SerpAsks(txn, Tracked, serpBegun) /\ txn.op = "snapshot"
  BY <1>1 DEF SerpTyped, CommitSerpSnapshot
<1>3. /\ \A t \in SlotTypes : txn.read[t] = NoTarget /\ txn.assigned[t] # NoTarget => target[t] = NoTarget
      /\ target' = [t \in SlotTypes |->
             [owner  |-> IfDiffers(txn.assigned[t].owner, txn.read[t].owner, target[t].owner),
              status |-> IfDiffers(txn.assigned[t].status, txn.read[t].status, target[t].status)]]
      /\ latest' = IF txn.captured > latest.captured
                     THEN [captured |-> txn.captured, shows |-> txn.shows] ELSE latest
      /\ saidStatus' = {t \in saidStatus : target'[t].status = target[t].status /\ target[t].status \in Manual}
      /\ EndSerp(x) /\ UNCHANGED <<open, search>>
  BY <1>1 DEF CommitSerpSnapshot
<1>4. ASSUME NEW t \in SlotTypes
      PROVE  GoodTarget(target'[t]) /\ (target[t] # NoTarget => target'[t] # NoTarget)
  <2>1. PICK row, read, new : row = target[t] /\ read = txn.read[t] /\ new = txn.assigned[t]
    OBVIOUS
  <2>2. /\ GoodTarget(row) /\ GoodTarget(new)
        /\ read # NoTarget => row # NoTarget /\ new # NoTarget
        /\ read = NoTarget /\ new # NoTarget => row = NoTarget
    BY <1>2, <1>3, <2>1 DEF SerpTyped, SerpAsks, Tracked
  <2>3. target'[t] = [owner  |-> IfDiffers(new.owner, read.owner, row.owner),
                      status |-> IfDiffers(new.status, read.status, row.status)]
    BY <1>3, <2>1
  <2>4. "absent" \notin TargetStatus
    BY DEF TargetStatus, Manual
  <2>5. \A r : r \in [status : TargetStatus, owner : CellStatus] =>
           r # NoTarget /\ r = [owner |-> r.owner, status |-> r.status] /\ r.owner \in CellStatus /\ r.status \in TargetStatus
    BY <2>4 DEF NoTarget
  <2>6. CASE read # NoTarget
    <3>1. row \in [status : TargetStatus, owner : CellStatus] /\ new \in [status : TargetStatus, owner : CellStatus]
      BY <2>2, <2>6 DEF GoodTarget
    <3>2. target'[t] \in [status : TargetStatus, owner : CellStatus]
      BY <2>3, <2>5, <3>1 DEF IfDiffers
    <3> QED
      BY <2>5, <3>2 DEF GoodTarget
  <2>7. CASE read = NoTarget /\ new # NoTarget
    <3>1. row = NoTarget /\ new \in [status : TargetStatus, owner : CellStatus]
      BY <2>2, <2>7 DEF GoodTarget
    <3>2. target'[t] = [owner |-> new.owner, status |-> new.status]
      BY <2>3, <2>7, <3>1 DEF IfDiffers, NoTarget
    <3> QED
      BY <2>1, <2>5, <3>1, <3>2 DEF GoodTarget
  <2>8. CASE read = NoTarget /\ new = NoTarget
    <3>1. target'[t] = [owner |-> row.owner, status |-> row.status]
      BY <2>3, <2>8 DEF IfDiffers
    <3>2. NoTarget = [owner |-> NoTarget.owner, status |-> NoTarget.status]
      BY DEF NoTarget
    <3>3. target'[t] = row
      BY <2>2, <2>5, <3>1, <3>2 DEF GoodTarget
    <3> QED
      BY <2>1, <2>2, <3>3
  <2> QED
    BY <2>6, <2>7, <2>8
<1>5. target' = [t \in SlotTypes |-> target'[t]]
  BY <1>3
<1>6. Tracked \subseteq Tracked'
  BY <1>4 DEF Tracked
<1>7. SerpTxnMoves /\ serpBegun' \in 0 .. MaxSerpRequests /\ serpBegun <= serpBegun'
  BY <1>3, EndsSerp
<1>8. latest'.captured \in 0 .. serpBegun' /\ latest'.shows \in Results \cup {Nothing}
  <2>1. serpBegun' = serpBegun
    BY <1>3 DEF EndSerp
  <2>2. txn.captured \in 0 .. serpBegun /\ txn.shows \in Results
    BY <1>2 DEF SerpAsks
  <2>3. latest.captured \in 0 .. serpBegun /\ latest.shows \in Results \cup {Nothing}
    BY DEF SerpTyped
  <2>4. latest' = [captured |-> txn.captured, shows |-> txn.shows] \/ latest' = latest
    BY <1>3
  <2> QED
    BY <2>1, <2>2, <2>3, <2>4
<1>9. saidStatus' \subseteq SlotTypes
  BY <1>3 DEF SerpTyped
<1>10. search' = search
  BY <1>3
<1> QED
  BY <1>4, <1>5, <1>6, <1>7, <1>8, <1>9, <1>10, SerpStays, SerpTypedKept

LEMMA SlotTargetCommitTyped ==
  ASSUME SerpTyped, NEW x \in SerpTxns, CommitSlotTarget(x)
  PROVE  SerpTyped'
<1>1. PICK txn : txn = serpTxn[x]
  OBVIOUS
<1>2. SerpAsks(txn, Tracked, serpBegun) /\ txn.op = "patch"
  BY <1>1 DEF SerpTyped, CommitSlotTarget
<1>3. PICK slot, status, row :
        /\ slot = txn.slot /\ row = target[slot]
        /\ status = IfDiffers(txn.status, txn.read, row.status)
  OBVIOUS
<1>4. slot \in SlotTypes /\ row # NoTarget /\ txn.status \in TargetStatus
  BY <1>2, <1>3 DEF SerpAsks, Tracked
<1>5. row \in [status : TargetStatus, owner : CellStatus]
  BY <1>3, <1>4 DEF SerpTyped, GoodTarget
<1>6. status \in TargetStatus
  BY <1>3, <1>4, <1>5 DEF IfDiffers
<1>7. target' = [target EXCEPT ![slot] = [row EXCEPT !.status = status]]
  BY <1>1, <1>3 DEF CommitSlotTarget
<1>8. PICK new : new = [row EXCEPT !.status = status]
  OBVIOUS
<1>9. new \in [status : TargetStatus, owner : CellStatus]
  BY <1>5, <1>6, <1>8
<1>10. new # NoTarget
  <2>1. "absent" \notin TargetStatus /\ new.status \in TargetStatus
    BY <1>9 DEF TargetStatus, Manual
  <2> QED
    BY <2>1 DEF NoTarget
<1>11. target' = [t \in SlotTypes |-> IF t = slot THEN new ELSE target[t]]
  <2>1. target = [t \in SlotTypes |-> target[t]]
    BY DEF SerpTyped
  <2> QED
    BY <1>7, <1>8, <2>1
<1>12. target' = [t \in SlotTypes |-> target'[t]] /\ Tracked \subseteq Tracked'
  BY <1>10, <1>11 DEF Tracked
<1>13. \A t \in SlotTypes : GoodTarget(target'[t])
  BY <1>9, <1>11 DEF SerpTyped, GoodTarget
<1>14. EndSerp(x) /\ latest' = latest /\ search' = search /\ saidStatus' = saidStatus \cup {slot}
  BY <1>1, <1>3 DEF CommitSlotTarget
<1>15. SerpTxnMoves /\ serpBegun' \in 0 .. MaxSerpRequests /\ serpBegun <= serpBegun'
  BY <1>14, EndsSerp
<1>16. saidStatus' \subseteq SlotTypes
  BY <1>4, <1>14 DEF SerpTyped
<1> QED
  BY <1>12, <1>13, <1>14, <1>15, <1>16, SerpStays, SerpTypedKept

LEMMA SerpTypedStep == SerpTyped /\ [SerpNext]_serpVars => SerpTyped'
<1> SUFFICES ASSUME SerpTyped, [SerpNext]_serpVars PROVE SerpTyped'
  OBVIOUS
<1>1. ASSUME UNCHANGED <<latest, target, saidStatus, serpTxn, serpBegun>>,
             search' = search \/ SearchMoves
      PROVE  SerpTyped'
  <2>1. serpBegun' \in 0 .. MaxSerpRequests /\ serpBegun <= serpBegun'
    BY <1>1, SerpAssumption DEF SerpTyped
  <2>2. SerpTxnMoves
    BY <1>1 DEF SerpTxnMoves
  <2>3. search' \in [url : Urls \cup {NoUrl}, striking : BOOLEAN, assets : SUBSET {"image", "video", "schema"}]
    <3>1. CASE search' = search
      BY <3>1 DEF SerpTyped
    <3>2. CASE SearchMoves
      <4>1. PICK url \in Urls, striking \in BOOLEAN, assets \in {{}, {"image", "video", "schema"}} :
              search' = [url |-> url, striking |-> striking, assets |-> assets]
        BY <3>2 DEF SearchMoves
      <4> QED
        BY <4>1
    <3> QED
      BY <1>1, <3>1, <3>2
  <2> QED
    BY <1>1, <2>1, <2>2, <2>3, SerpStays, SerpTypedKept
<1>2. ASSUME NEW x \in SerpTxns, CommitSerpOpportunities(x) \/ AbortSerp(x) PROVE SerpTyped'
  <2>1. EndSerp(x) /\ UNCHANGED <<latest, target, search, saidStatus>>
    BY <1>2 DEF CommitSerpOpportunities, AbortSerp
  <2> QED
    BY <2>1, EndsSerp, SerpStays, SerpTypedKept
<1>3. CASE UNCHANGED serpVars
  BY <1>1, <1>3 DEF serpVars
<1>4. CASE OpportunityCloses
  BY <1>1, <1>4 DEF OpportunityCloses
<1>5. CASE SearchMoves
  BY <1>1, <1>5 DEF SearchMoves
<1> QED
  BY <1>2, <1>3, <1>4, <1>5, SnapshotAsked, RestAsked, SnapshotCommitTyped, SlotTargetCommitTyped DEF SerpNext

LEMMA SerpTypedInit == SerpInit => SerpTyped
<1> SUFFICES ASSUME SerpInit PROVE SerpTyped
  OBVIOUS
<1>1. serpBegun = 0 /\ latest = [captured |-> 0, shows |-> Nothing]
  BY DEF SerpInit
<1>2. serpBegun \in 0 .. MaxSerpRequests /\ latest.captured \in 0 .. serpBegun
  BY <1>1, SerpAssumption
<1>3. target = [t \in SlotTypes |-> target[t]] /\ \A t \in SlotTypes : GoodTarget(target[t])
  BY DEF SerpInit, GoodTarget
<1>4. search \in [url : Urls \cup {NoUrl}, striking : BOOLEAN, assets : SUBSET {"image", "video", "schema"}]
  BY DEF SerpInit
<1>5. serpTxn = [x \in SerpTxns |-> serpTxn[x]] /\ \A x \in SerpTxns : SerpAsks(serpTxn[x], Tracked, serpBegun)
  BY NothingAsked DEF SerpInit
<1> QED
  BY <1>1, <1>2, <1>3, <1>4, <1>5 DEF SerpTyped, SerpInit

(* Openings of a gap: no more than requests have begun, those that are to  *)
(* open one more counted in.                                               *)
OpensGap(a, k) == a.op = "generate" /\ k[1] \in a.types /\ k[2] = a.url
GapOpeners(k)  == {x \in SerpTxns : OpensGap(serpTxn[x], k)}

SerpCounted ==
    /\ serpBegun \in Nat /\ open \in [Keys -> Nat]
    /\ serpTxn = [x \in SerpTxns |-> serpTxn[x]]
    /\ \A k \in Keys : IsFiniteSet(GapOpeners(k)) /\ open[k] + Cardinality(GapOpeners(k)) <= serpBegun

LEMMA SerpCountedInit == SerpInit => SerpCounted
<1> SUFFICES ASSUME SerpInit PROVE SerpCounted
  OBVIOUS
<1>1. \A k \in Keys : GapOpeners(k) = {}
  BY DEF SerpInit, GapOpeners, OpensGap, NoSerpTxn
<1>2. IsFiniteSet({}) /\ Cardinality({}) = 0
  BY FS_EmptySet
<1>3. \A k \in Keys : IsFiniteSet(GapOpeners(k)) /\ Cardinality(GapOpeners(k)) = 0
  BY <1>1, <1>2
<1>4. serpBegun = 0 /\ open = [k \in Keys |-> 0] /\ serpTxn = [x \in SerpTxns |-> serpTxn[x]]
  BY DEF SerpInit
<1> QED
  BY <1>3, <1>4 DEF SerpCounted

(* One transaction changes: it begins, or ends and opens what it opens.    *)
LEMMA OneSerpTxnMoves ==
  ASSUME SerpCounted, NEW x \in SerpTxns, NEW a, serpTxn' = [serpTxn EXCEPT ![x] = a],
         serpBegun' \in Nat, open' \in [Keys -> Nat],
         \A k \in Keys : \/ serpBegun' = serpBegun + 1 /\ open'[k] = open[k]
                         \/ /\ serpBegun' = serpBegun /\ ~OpensGap(a, k)
                            /\ \/ open'[k] = open[k]
                               \/ OpensGap(serpTxn[x], k) /\ open'[k] = open[k] + 1
  PROVE  SerpCounted'
<1>1. serpTxn = [y \in SerpTxns |-> serpTxn[y]]
  BY DEF SerpCounted
<1>2. /\ serpTxn' = [y \in SerpTxns |-> serpTxn'[y]] /\ serpTxn'[x] = a
      /\ \A y \in SerpTxns \ {x} : serpTxn'[y] = serpTxn[y]
  BY <1>1
<1>3. ASSUME NEW k \in Keys
      PROVE  IsFiniteSet(GapOpeners(k)') /\ open'[k] + Cardinality(GapOpeners(k)') <= serpBegun'
  <2>1. PICK A, B : A = GapOpeners(k) /\ B = GapOpeners(k)'
    OBVIOUS
  <2>2. PICK n, m, i, j : n = serpBegun /\ m = serpBegun' /\ i = open[k] /\ j = open'[k]
    OBVIOUS
  <2>3. IsFiniteSet(A) /\ Cardinality(A) \in Nat /\ i + Cardinality(A) <= n /\ n \in Nat /\ i \in Nat /\ m \in Nat /\ j \in Nat
    BY <2>1, <2>2, FS_CardinalityType DEF SerpCounted
  <2>4. /\ B \subseteq A \cup {x}
        /\ ~OpensGap(a, k) => B \subseteq A \ {x}
        /\ OpensGap(serpTxn[x], k) => x \in A
    BY <1>2, <2>1 DEF GapOpeners, OpensGap
  <2>5. CASE m = n + 1 /\ j = i
    <3>1. IsFiniteSet(B) /\ Cardinality(B) <= Cardinality(A) + 1
      BY <2>3, <2>4, AtMostOneMore
    <3>2. Cardinality(B) \in Nat
      BY <3>1, FS_CardinalityType
    <3>3. j + Cardinality(B) <= m
      BY <2>3, <2>5, <3>1, <3>2
    <3> QED
      BY <2>1, <2>2, <3>1, <3>3
  <2>6. CASE m = n /\ j = i /\ ~OpensGap(a, k)
    <3>1. B \subseteq A
      BY <2>4, <2>6
    <3>2. IsFiniteSet(B) /\ Cardinality(B) <= Cardinality(A)
      BY <2>3, <3>1, FS_Subset
    <3>3. Cardinality(B) \in Nat
      BY <3>2, FS_CardinalityType
    <3>4. j + Cardinality(B) <= m
      BY <2>3, <2>6, <3>2, <3>3
    <3> QED
      BY <2>1, <2>2, <3>2, <3>4
  <2>7. CASE m = n /\ j = i + 1 /\ ~OpensGap(a, k) /\ OpensGap(serpTxn[x], k)
    <3>1. IsFiniteSet(B) /\ Cardinality(B) <= Cardinality(A) - 1
      BY <2>3, <2>4, <2>7, AtLeastOneLess
    <3>2. Cardinality(B) \in Nat
      BY <3>1, FS_CardinalityType
    <3>3. j + Cardinality(B) <= m
      BY <2>3, <2>7, <3>1, <3>2
    <3> QED
      BY <2>1, <2>2, <3>1, <3>3
  <2> QED
    BY <2>2, <2>5, <2>6, <2>7
<1> QED
  BY <1>2, <1>3 DEF SerpCounted

LEMMA SerpCountedStep == SerpCounted /\ [SerpNext]_serpVars => SerpCounted'
<1> SUFFICES ASSUME SerpCounted, [SerpNext]_serpVars PROVE SerpCounted'
  OBVIOUS
<1>1. serpBegun \in Nat /\ open \in [Keys -> Nat]
  BY DEF SerpCounted
<1>2. ASSUME NEW x \in SerpTxns, NEW a, BeginSerp(x, a) PROVE SerpCounted'
  <2>1. serpTxn' = [serpTxn EXCEPT ![x] = a] /\ serpBegun' = serpBegun + 1 /\ open' = open
    BY <1>2 DEF BeginSerp
  <2>2. serpBegun' \in Nat /\ open' \in [Keys -> Nat]
    BY <1>1, <2>1
  <2>3. \A k \in Keys : serpBegun' = serpBegun + 1 /\ open'[k] = open[k]
    BY <2>1
  <2> QED
    BY <2>1, <2>2, <2>3, OneSerpTxnMoves
<1>3. ASSUME NEW x \in SerpTxns, EndSerp(x), open' \in [Keys -> Nat],
             \A k \in Keys : open'[k] = open[k] \/ (OpensGap(serpTxn[x], k) /\ open'[k] = open[k] + 1)
      PROVE  SerpCounted'
  <2>1. PICK a : a = NoSerpTxn
    OBVIOUS
  <2>2. serpTxn' = [serpTxn EXCEPT ![x] = a] /\ serpBegun' = serpBegun
    BY <1>3, <2>1 DEF EndSerp
  <2>3. \A k : ~OpensGap(a, k)
    BY <2>1 DEF OpensGap, NoSerpTxn
  <2> QED
    BY <1>1, <1>3, <2>2, <2>3, OneSerpTxnMoves
<1>4. ASSUME NEW x \in SerpTxns, BeginSerpSnapshot(x) \/ BeginSlotTarget(x) \/ BeginSerpOpportunities(x)
      PROVE  \E a : BeginSerp(x, a)
  BY <1>4 DEF BeginSerpSnapshot, BeginSlotTarget, BeginSerpOpportunities
<1>5. ASSUME NEW x \in SerpTxns, CommitSerpSnapshot(x) \/ CommitSlotTarget(x) \/ AbortSerp(x) PROVE SerpCounted'
  <2>1. EndSerp(x) /\ open' = open
    BY <1>5 DEF CommitSerpSnapshot, CommitSlotTarget, AbortSerp
  <2> QED
    BY <1>1, <1>3, <2>1
<1>6. ASSUME NEW x \in SerpTxns, CommitSerpOpportunities(x) PROVE SerpCounted'
  <2>1. PICK txn : txn = serpTxn[x]
    OBVIOUS
  <2>2. /\ txn.op = "generate" /\ EndSerp(x)
        /\ open' = [k \in Keys |-> open[k] + IF k[1] \in txn.types /\ k[2] = txn.url THEN 1 ELSE 0]
    BY <1>6, <2>1 DEF CommitSerpOpportunities
  <2>3. ASSUME NEW k \in Keys
        PROVE  /\ open'[k] \in Nat
               /\ open'[k] = open[k] \/ (OpensGap(serpTxn[x], k) /\ open'[k] = open[k] + 1)
    <3>1. open[k] \in Nat /\ open'[k] = open[k] + IF k[1] \in txn.types /\ k[2] = txn.url THEN 1 ELSE 0
      BY <1>1, <2>2
    <3>2. CASE k[1] \in txn.types /\ k[2] = txn.url
      BY <2>1, <2>2, <3>1, <3>2 DEF OpensGap
    <3>3. CASE ~(k[1] \in txn.types /\ k[2] = txn.url)
      BY <3>1, <3>3
    <3> QED
      BY <3>2, <3>3
  <2>4. open' \in [Keys -> Nat]
    BY <2>2, <2>3
  <2> QED
    BY <1>3, <2>2, <2>3, <2>4
<1>7. CASE SearchMoves \/ UNCHANGED serpVars
  BY <1>7 DEF SearchMoves, serpVars, SerpCounted, GapOpeners, OpensGap
<1>8. CASE OpportunityCloses
  <2>1. PICK j \in Keys : open[j] > 0 /\ open' = [open EXCEPT ![j] = @ - 1]
    BY <1>8 DEF OpportunityCloses
  <2>2. serpTxn' = serpTxn /\ serpBegun' = serpBegun
    BY <1>8 DEF OpportunityCloses
  <2>3. open' \in [Keys -> Nat] /\ \A k \in Keys : open'[k] <= open[k]
    BY <1>1, <2>1
  <2>4. ASSUME NEW k \in Keys
        PROVE  IsFiniteSet(GapOpeners(k)') /\ open'[k] + Cardinality(GapOpeners(k)') <= serpBegun'
    <3>1. GapOpeners(k)' = GapOpeners(k)
      BY <2>2 DEF GapOpeners, OpensGap
    <3>2. /\ IsFiniteSet(GapOpeners(k)) /\ Cardinality(GapOpeners(k)) \in Nat
          /\ open[k] + Cardinality(GapOpeners(k)) <= serpBegun
      BY FS_CardinalityType DEF SerpCounted
    <3>3. PICK n : n = Cardinality(GapOpeners(k)) /\ n \in Nat
      BY <3>2
    <3>4. open'[k] + n <= serpBegun
      BY <1>1, <2>3, <3>2, <3>3
    <3> QED
      BY <2>2, <3>1, <3>2, <3>3, <3>4
  <2> QED
    BY <2>2, <2>3, <2>4 DEF SerpCounted
<1> QED
  BY <1>2, <1>4, <1>5, <1>6, <1>7, <1>8 DEF SerpNext

LEMMA SerpRows == SerpTyped /\ SerpCounted => SerpTypeOK
<1> SUFFICES ASSUME SerpTyped, SerpCounted PROVE SerpTypeOK
  OBVIOUS
<1>1. serpBegun \in 0 .. MaxSerpRequests /\ 0 .. serpBegun \subseteq 0 .. MaxSerpRequests
  BY SerpAssumption DEF SerpTyped
<1>2. latest.captured \in 0 .. MaxSerpRequests /\ latest.shows \in Results \cup {Nothing}
  BY <1>1 DEF SerpTyped
<1>3. \A t \in SlotTypes : target[t] = NoTarget \/ target[t] \in [status : TargetStatus, owner : CellStatus]
  BY DEF SerpTyped, GoodTarget
<1>4. ASSUME NEW k \in Keys PROVE open[k] \in 0 .. MaxSerpRequests
  <2>1. PICK n : n = Cardinality(GapOpeners(k)) /\ n \in Nat
    BY FS_CardinalityType DEF SerpCounted
  <2>2. open[k] \in Nat /\ open[k] + n <= serpBegun
    BY <2>1 DEF SerpCounted
  <2> QED
    BY <1>1, <2>1, <2>2, SerpAssumption
<1>5. open \in [Keys -> 0 .. MaxSerpRequests]
  BY <1>4 DEF SerpCounted
<1>6. \A x \in SerpTxns : serpTxn[x].op \in {"none", "snapshot", "patch", "generate"}
  BY DEF SerpTyped, SerpAsks
<1> QED
  BY <1>1, <1>2, <1>3, <1>5, <1>6 DEF SerpTyped, SerpTypeOK

(* Whatever part of the deciding about a site is at work, with any number  *)
(* of requests that overlap: its rows keep the shapes of the models, which *)
(* for the topic graph includes that no row points at a cluster that is    *)
(* gone, for the strategy that an intake is current if and only if it is   *)
(* approved, and for a gap that it was opened no more often than asked for.*)
THEOREM DecisionsTypeCorrect == DecisionsSpec => []DecisionsTypeOK
<1> DEFINE AllTyped == /\ Typed /\ StratTyped /\ AiTyped /\ AiCounted /\ ExecTyped
                       /\ GraphTyped /\ GraphCounted /\ KnowTyped /\ SerpTyped /\ SerpCounted
<1>1. DecisionsInit => AllTyped
  <2> SUFFICES ASSUME DecisionsInit PROVE AllTyped
    OBVIOUS
  <2>1. Init /\ StratInit /\ AiInit /\ ExecInit /\ GraphInit /\ KnowInit /\ SerpInit
    BY DEF DecisionsInit
  <2>2. Typed
    BY <2>1, DecisionAssumption DEF Init, Typed, TypeOK, Idle, Request, Ops, Times
  <2> QED
    BY <2>1, <2>2, StratTypedInit, AiTypedInit, AiCountedInit, ExecTypedInit, GraphTypedInit, GraphCountedInit,
       KnowTypedInit, SerpTypedInit, SerpCountedInit
<1>2. AllTyped /\ [DecisionsNext]_<<part, vars, stratVars, aiVars, execVars, graphVars, knowVars, serpVars>>
        => AllTyped'
  <2> SUFFICES ASSUME AllTyped, [DecisionsNext]_<<part, vars, stratVars, aiVars, execVars, graphVars, knowVars, serpVars>>
               PROVE  AllTyped'
    OBVIOUS
  <2>1. /\ [Next]_vars /\ [StratNext]_stratVars /\ [AiNext]_aiVars /\ [ExecNext]_execVars
        /\ [GraphNext]_graphVars /\ [KnowNext]_knowVars /\ [SerpNext]_serpVars
    BY DEF DecisionsNext
  <2> QED
    BY <2>1, TypedStep, StratTypedStep, AiTypedStep, AiCountedStep, ExecTypedStep, GraphTypedStep,
       GraphCountedStep, KnowTypedStep, SerpTypedStep, SerpCountedStep
<1>3. AllTyped => DecisionsTypeOK
  <2> SUFFICES ASSUME AllTyped PROVE DecisionsTypeOK
    OBVIOUS
  <2>1. AiTypeOK
    BY DEF AiTyped, AiCounted, AiKeys, AiTypeOK
  <2>2. TypeOK /\ StratTypeOK /\ ExecTypeOK
    BY DEF Typed, StratTyped, ExecTyped
  <2>3. GraphTypeOK /\ KnowTypeOK /\ SerpTypeOK
    BY GraphRows, KnowRows, SerpRows
  <2> QED
    BY <2>1, <2>2, <2>3 DEF DecisionsTypeOK
<1> QED
  BY <1>1, <1>2, <1>3, PTL DEF DecisionsSpec
=============================================================================
