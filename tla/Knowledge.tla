------------------------------ MODULE Knowledge ------------------------------
(***************************************************************************)
(* The knowledge base of a site: sources people approve and revoke, facts  *)
(* an ingest run extracts from a source or people write, source packs of   *)
(* the approved facts, and content briefs on a pack (knowledge/service.py, *)
(* jobs/handlers/knowledge_ingest.py, execution/source_pack.py,            *)
(* execution/brief_builder.py). A request reads its rows first, and its    *)
(* UPDATE sets only the columns it changed.                                *)
(***************************************************************************)
EXTENDS Naturals, Sequences, FiniteSets

CONSTANTS
    Company,          \* the sources the company owns
    Pages,            \* the sources of type url, pdf, csv or external
    KnowTxns,         \* requests of people open at a time
    IngestTasks,      \* ingest runs at work at a time
    MaxFacts,         \* bound: facts
    MaxKnowRequests   \* bound: requests and ingest runs begun

ASSUME KnowAssumption == MaxFacts \in Nat /\ MaxKnowRequests \in Nat

VARIABLES
    sources,     \* knowledge_sources: source -> [status, version]
    facts,       \* knowledge_facts, oldest first
    packs,       \* content_source_packs
    briefs,      \* the packs that content_briefs were made on
    said,        \* history: the status a person gave the source last
    knowTxn, ingest, knowBegun

knowVars == <<sources, facts, packs, briefs, said, knowTxn, ingest, knowBegun>>

Sources      == Company \cup Pages
KnowStatuses == {"pending", "draft", "approved", "revoked"}
NoKnowTxn    == [op |-> "none"]
Fact(s, status, reviewed) == [source |-> s, status |-> status, reviewed |-> reviewed]

KnowTypeOK ==
    /\ sources \in [Sources -> [status : KnowStatuses, version : 1 .. MaxKnowRequests + 1]]
    /\ Len(facts) \in 0 .. MaxFacts
    /\ \A i \in DOMAIN facts : facts[i] \in [source : Sources, status : KnowStatuses, reviewed : BOOLEAN]
    /\ \A p \in packs : p.cited \subseteq DOMAIN facts /\ p.status \in {"ready", "needs_human_evidence"}
    /\ briefs \subseteq packs
    /\ said \in [Sources -> KnowStatuses]
    /\ \A t \in KnowTxns : knowTxn[t].op \in {"none", "source", "fact", "create", "pack"}
    /\ \A w \in IngestTasks : ingest[w].op \in {"none", "ingest"}
    /\ knowBegun \in 0 .. MaxKnowRequests

KnowInit ==
    /\ sources \in [Sources -> [status : {"pending", "draft"}, version : {1}]]
    /\ facts = <<>> /\ packs = {} /\ briefs = {}
    /\ said = [s \in Sources |-> sources[s].status]
    /\ knowTxn = [t \in KnowTxns |-> NoKnowTxn] /\ ingest = [w \in IngestTasks |-> NoKnowTxn]
    /\ knowBegun = 0

BeginKnow(t, txn) ==
    /\ knowTxn[t] = NoKnowTxn /\ knowBegun < MaxKnowRequests
    /\ knowBegun' = knowBegun + 1 /\ knowTxn' = [knowTxn EXCEPT ![t] = txn]
    /\ UNCHANGED <<sources, facts, packs, briefs, said, ingest>>

(* The columns an UPDATE sets: the assigned ones that differ from the read. *)
Dirty(row, assigned) ==
    LET columns == {c \in DOMAIN assigned : assigned[c] # row[c]} IN [c \in columns |-> assigned[c]]

(* ... and what it makes of the row as it is by then.                      *)
Updated(row, sets) == [c \in DOMAIN row |-> IF c \in DOMAIN sets THEN sets[c] ELSE row[c]]

-----------------------------------------------------------------------------
(* People: approve, revoke and edit a source, write a fact and review it.   *)
BeginSource(t, s, assigned) ==
    BeginKnow(t, [op |-> "source", id |-> s, sets |-> Dirty(sources[s], assigned), status |-> assigned.status])

ApproveSource(t, s) ==
    BeginSource(t, s, [status |-> "approved", version |-> sources[s].version + 1])

RevokeSource(t, s) == BeginSource(t, s, [status |-> "revoked"])

UpdateSource(t, s) ==
    \E status \in KnowStatuses : BeginSource(t, s, [status |-> status])

CommitSource(t) ==
    /\ knowTxn[t].op = "source"
    /\ LET s == knowTxn[t].id IN
         /\ sources' = [sources EXCEPT ![s] = Updated(sources[s], knowTxn[t].sets)]
         /\ said' = [said EXCEPT ![s] = knowTxn[t].status]
    /\ knowTxn' = [knowTxn EXCEPT ![t] = NoKnowTxn]
    /\ UNCHANGED <<facts, packs, briefs, ingest, knowBegun>>

CreateFact(t, s) == BeginKnow(t, [op |-> "create", id |-> s])

CommitFact(t) ==
    /\ knowTxn[t].op = "create" /\ Len(facts) < MaxFacts
    /\ facts' = Append(facts, Fact(knowTxn[t].id, "draft", FALSE))
    /\ knowTxn' = [knowTxn EXCEPT ![t] = NoKnowTxn]
    /\ UNCHANGED <<sources, packs, briefs, said, ingest, knowBegun>>

UpdateFact(t, i) ==
    \E status \in {"draft", "approved", "revoked"} :
        BeginKnow(t, [op |-> "fact", id |-> i, sets |-> Dirty(facts[i], [status |-> status]), status |-> status])

CommitUpdateFact(t) ==
    /\ knowTxn[t].op = "fact"
    /\ LET i == knowTxn[t].id
           row == Updated(facts[i], knowTxn[t].sets)
       IN  facts' = [facts EXCEPT ![i] = [row EXCEPT !.reviewed = @ \/ knowTxn[t].status = "approved"]]
    /\ knowTxn' = [knowTxn EXCEPT ![t] = NoKnowTxn]
    /\ UNCHANGED <<sources, packs, briefs, said, ingest, knowBegun>>

-----------------------------------------------------------------------------
(* run_knowledge_source_ingest reads the source, then fetches its page and *)
(* has the facts extracted. A broker that delivers the run again has it    *)
(* done again.                                                             *)
BeginIngest(w, s) ==
    /\ ingest[w] = NoKnowTxn /\ knowBegun < MaxKnowRequests
    /\ knowBegun' = knowBegun + 1
    /\ ingest' = [ingest EXCEPT ![w] = [op |-> "ingest", id |-> s, status |-> sources[s].status]]
    /\ UNCHANGED <<sources, facts, packs, briefs, said, knowTxn>>

(* Fault: what a machine extracted counts as approved. *)
ExtractedApproved(s, n) == [i \in 1 .. n |-> Fact(s, "approved", FALSE)]

Extracted(s, n) == [i \in 1 .. n |-> Fact(s, "draft", FALSE)]

FinishIngest(w) ==
    /\ ingest[w].op = "ingest"
    /\ \E n \in 0 .. 2 :
         /\ Len(facts) + n <= MaxFacts
         /\ facts' = facts \o Extracted(ingest[w].id, n)
    /\ sources' = IF ingest[w].status = "pending" THEN [sources EXCEPT ![ingest[w].id].status = "draft"]
                                                  ELSE sources
    /\ ingest' = [ingest EXCEPT ![w] = NoKnowTxn]
    /\ UNCHANGED <<packs, briefs, said, knowTxn, knowBegun>>

(* No page, an unsafe URL, a failed fetch, no text, no key, no answer. *)
IngestNothing(w) ==
    /\ ingest[w].op = "ingest"
    /\ ingest' = [ingest EXCEPT ![w] = NoKnowTxn]
    /\ UNCHANGED <<sources, facts, packs, briefs, said, knowTxn, knowBegun>>

-----------------------------------------------------------------------------
(* The query of build_source_pack. expires_at has no writer: is_fact_usable *)
(* asks for the status once more.                                           *)
Usable == {i \in DOMAIN facts : facts[i].status = "approved" /\ sources[facts[i].source].status = "approved"}

Categories(cited, opportunity) ==
    {IF facts[i].source \in Company THEN "company_owned" ELSE "external_source" : i \in cited}
        \cup (IF opportunity THEN {"serp_observation"} ELSE {})

(* compute_coverage_score, in hundredths. *)
Coverage(cited, opportunity, risky) ==
    LET refs    == Cardinality(cited) + (IF opportunity THEN 1 ELSE 0)
        kinds   == Categories(cited, opportunity)
        points  == 20 * refs + (IF "company_owned" \in kinds THEN 20 ELSE 0)
        capped  == IF points > 100 THEN 100 ELSE points
    IN  IF refs = 0 THEN 0
        ELSE IF risky /\ Cardinality(kinds) < 2 /\ capped > 50 THEN 50 ELSE capped

(* A market or a language that is asked for leaves some facts out. *)
BuildSourcePack(t) ==
    \E cited \in SUBSET Usable, opportunity, risky \in BOOLEAN :
        BeginKnow(t, [op |-> "pack",
            row |-> [cited |-> cited, opportunity |-> opportunity,
                     status |-> IF Coverage(cited, opportunity, risky) < 50 THEN "needs_human_evidence"
                                                                            ELSE "ready",
                     vetted |-> \A i \in cited : facts[i].reviewed /\ said[facts[i].source] = "approved"]])

CommitPack(t) ==
    /\ knowTxn[t].op = "pack"
    /\ packs' = packs \cup {knowTxn[t].row}
    /\ knowTxn' = [knowTxn EXCEPT ![t] = NoKnowTxn]
    /\ UNCHANGED <<sources, facts, briefs, said, ingest, knowBegun>>

(* build_content_brief, of an opportunity that fits: a pack never changes, *)
(* so that nothing between its read and the commit matters.                *)
BuildBrief(p) ==
    /\ p.status # "needs_human_evidence"
    /\ p \notin briefs /\ briefs' = briefs \cup {p}
    /\ UNCHANGED <<sources, facts, packs, said, knowTxn, ingest, knowBegun>>

KnowNext ==
    \/ \E t \in KnowTxns :
         \/ \E s \in Sources : ApproveSource(t, s) \/ RevokeSource(t, s) \/ UpdateSource(t, s) \/ CreateFact(t, s)
         \/ \E i \in DOMAIN facts : UpdateFact(t, i)
         \/ BuildSourcePack(t)
         \/ CommitSource(t) \/ CommitFact(t) \/ CommitUpdateFact(t) \/ CommitPack(t)
    \/ \E w \in IngestTasks : (\E s \in Sources : BeginIngest(w, s)) \/ FinishIngest(w) \/ IngestNothing(w)
    \/ \E p \in packs : BuildBrief(p)

KnowSpec == KnowInit /\ [][KnowNext]_knowVars

-----------------------------------------------------------------------------
(* People's requests one after the other, with an ingest run at work beside *)
(* them, a pack cites only facts a person approved, of sources whose last  *)
(* word was an approval when the pack was built ("draft - requires human   *)
(* approval before Source Pack use", knowledge_ingest.py:145).             *)
EvidenceIsVetted == \A p \in packs : p.vetted

(* A brief stands on a fact of the company's own or on two facts: an       *)
(* opportunity, which every pack may cite beside its facts, is never       *)
(* evidence enough (source_pack.py:52-61, :115).                           *)
BriefsHaveEvidence ==
    \A p \in briefs : \/ Cardinality(p.cited) >= 2
                      \/ \E i \in p.cited : facts[i].source \in Company

(* What an article rests on was vetted, and there is enough of it.         *)
PacksAreVetted == EvidenceIsVetted /\ BriefsHaveEvidence
=============================================================================
