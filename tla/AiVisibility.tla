---------------------------- MODULE AiVisibility ----------------------------
(***************************************************************************)
(* Probes of AI answers for one site (ai_visibility/): the answers that    *)
(* were recorded or imported, what they cite and say of the brand, the     *)
(* scores computed from them, and the opportunities generated from them.   *)
(* An answer is what the code tells apart in it: whose urls it cites, if   *)
(* it names the brand as it was called then, the sentiment noted with it,  *)
(* and for a negative one the names that are in the text kept of it. The   *)
(* brand has a name of its own and may get another.                        *)
(***************************************************************************)
EXTENDS Integers, Sequences, FiniteSets, SequencesExt

CONSTANTS
    AiTxns,       \* requests open at a time
    Prompts,
    BrandNames,   \* canonical names the brand may be given
    NoName,       \* ... and none, as long as it has no entity
    WrongLoss,    \* 25 in the code: what a wrong mention costs the score
    NegativeLoss, \* 10 in the code: a negative one
    MaxAnswers,   \* bound: probe runs
    MaxEntities,  \* bound: brand entities created
    MaxAiRequests \* bound: checks and generations begun, entities made and renamed

ASSUME AiAssumption ==
    /\ WrongLoss \in Nat /\ NegativeLoss \in Nat
    /\ IsFiniteSet(AiTxns) /\ MaxAnswers \in Nat /\ MaxAiRequests \in Nat
    /\ MaxEntities \in Nat /\ NoName \notin BrandNames

VARIABLES
    answers,      \* ai_probe_runs, each with its one brand_mention
    rivalKnown,   \* the competitor is active
    entity,       \* the newest of brand_entities: canonical_name and entity_consistency_score
    aiOpps,       \* open opportunities of a type for a prompt: how many rows
    aiTxn, aiBegun

aiVars == <<answers, rivalKnown, entity, aiOpps, aiTxn, aiBegun>>

NoScore    == -1
Sentiments == {"none", "negative", "wrong_info"}
OppTypes   == {"ai_citation_ready", "entity_fix"}
Answers    == [prompt : Prompts, inSet : BOOLEAN, own : BOOLEAN, external : BOOLEAN,
               brand : BOOLEAN, names : SUBSET BrandNames, sentiment : Sentiments]
(* Which entity it is, its name, its score and the name it was scored under. *)
Named      == BrandNames \cup {NoName}
Entities   == [nr : 0 .. MaxEntities, name : Named, score : {NoScore} \cup 0 .. 100, scoredAs : Named]
Entity(nr, name) == [nr |-> nr, name |-> name, score |-> NoScore, scoredAs |-> name]
NoEntity   == Entity(0, NoName)
NoAiRequest       == [op |-> "idle"]

AiTypeOK ==
    /\ answers \in Seq(Answers) /\ Len(answers) <= MaxAnswers
    /\ rivalKnown \in BOOLEAN
    /\ entity \in Entities
    /\ aiOpps \in [OppTypes \X Prompts -> Nat]
    /\ aiBegun \in 0 .. MaxAiRequests

AiInit ==
    /\ answers = <<>> /\ rivalKnown \in BOOLEAN /\ entity = NoEntity
    /\ aiOpps = [o \in OppTypes \X Prompts |-> 0]
    /\ aiTxn = [t \in AiTxns |-> NoAiRequest] /\ aiBegun = 0

Count(test(_)) == Cardinality({i \in DOMAIN answers : test(answers[i])})

-----------------------------------------------------------------------------
(* record_probe_run: a cited url is the site's own, of a competitor known  *)
(* now, or of a third party; competitors and third parties are external.   *)
(* The brand is named by its name of now, by an alias or by the site's.    *)
Recorded(prompt, inSet, cited, brand, names, sentiment) ==
    [prompt |-> prompt, inSet |-> inSet, own |-> "own" \in cited,
     external |-> "third" \in cited \/ ("rival" \in cited /\ rivalKnown),
     brand |-> brand \/ entity.name \in names, names |-> names, sentiment |-> sentiment]

Texts(sentiment) == IF sentiment = "negative" THEN SUBSET BrandNames ELSE {{}}

RecordAnswer ==
    /\ Len(answers) < MaxAnswers
    /\ \E p \in Prompts, inSet, brand \in BOOLEAN, cited \in SUBSET {"own", "rival", "third"}, s \in Sentiments :
         \E names \in Texts(s) : answers' = Append(answers, Recorded(p, inSet, cited, brand, names, s))
    /\ UNCHANGED <<rivalKnown, entity, aiOpps, aiTxn, aiBegun>>

(* The rows of an import are committed together.                           *)
ImportAnswers ==
    /\ Len(answers) + 2 <= MaxAnswers
    /\ \E p, q \in Prompts, inSet \in BOOLEAN, r, s \in Sentiments :
         \E names \in Texts(r) :
             answers' = answers \o <<Recorded(p, inSet, {}, TRUE, names, r),
                                     Recorded(q, inSet, {"third"}, FALSE, {}, s)>>
    /\ UNCHANGED <<rivalKnown, entity, aiOpps, aiTxn, aiBegun>>

CompetitorChanges ==
    /\ rivalKnown' = ~rivalKnown
    /\ UNCHANGED <<answers, entity, aiOpps, aiTxn, aiBegun>>

(* The newest entity is the one that counts from then on.                  *)
CreateBrandEntity ==
    /\ entity.nr < MaxEntities /\ aiBegun < MaxAiRequests
    /\ \E name \in BrandNames : entity' = Entity(entity.nr + 1, name)
    /\ aiBegun' = aiBegun + 1
    /\ UNCHANGED <<answers, rivalKnown, aiOpps, aiTxn>>

(* Another name, and the score stays.                                      *)
UpdateBrandEntity ==
    /\ entity.nr > 0 /\ aiBegun < MaxAiRequests
    /\ \E name \in BrandNames : entity' = [entity EXCEPT !.name = name]
    /\ aiBegun' = aiBegun + 1
    /\ UNCHANGED <<answers, rivalKnown, aiOpps, aiTxn>>

-----------------------------------------------------------------------------
(* check_entity_consistency over every mention: a negative one counts when *)
(* its text has the name the brand has now. Faults: a negative mention     *)
(* speaks for the brand; no lower limit.                                   *)
Wrong          == Count(LAMBDA a : a.sentiment = "wrong_info")
Negative(name) == Count(LAMBDA a : a.sentiment = "negative" /\ name \in a.names)

ConsistencyRewarding(name) == 100 - WrongLoss * Wrong + NegativeLoss * Negative(name)
Consistency(name) ==
    LET loss == WrongLoss * Wrong + NegativeLoss * Negative(name)
    IN  IF loss >= 100 THEN 0 ELSE 100 - loss

BeginAi(t, request) ==
    /\ aiTxn[t] = NoAiRequest /\ aiBegun < MaxAiRequests
    /\ aiBegun' = aiBegun + 1
    /\ aiTxn' = [aiTxn EXCEPT ![t] = request]
    /\ UNCHANGED <<answers, rivalKnown, entity, aiOpps>>

EndAi(t) == aiTxn' = [aiTxn EXCEPT ![t] = NoAiRequest] /\ UNCHANGED <<answers, rivalKnown, aiBegun>>

BeginCheck(t) ==
    /\ entity.nr > 0
    /\ BeginAi(t, [op |-> "check", nr |-> entity.nr, name |-> entity.name, score |-> Consistency(entity.name)])

(* The score of the row that was read; of an older entity nobody asks.     *)
CommitCheck(t) ==
    /\ aiTxn[t].op = "check"
    /\ entity' = IF aiTxn[t].nr = entity.nr
                   THEN [entity EXCEPT !.score = aiTxn[t].score, !.scoredAs = aiTxn[t].name]
                   ELSE entity
    /\ EndAi(t) /\ UNCHANGED aiOpps

(* OG-010: at least half of the answers of the set cite others, none us.   *)
CitationReady(p) ==
    LET OfSet(a) == a.inSet /\ a.prompt = p
    IN  /\ Count(OfSet) > 0
        /\ 2 * Count(LAMBDA a : OfSet(a) /\ a.external /\ ~a.own) >= Count(OfSet)
        /\ Count(LAMBDA a : OfSet(a) /\ a.own) = 0

(* OG-011: an answer names the brand, and what it says is wrong.           *)
NeedsEntityFix(p) ==
    Count(LAMBDA a : a.prompt = p /\ a.brand /\ a.sentiment \in {"wrong_info", "negative"}) > 0

ToOpen(candidates) == {o \in candidates : aiOpps[o] = 0}

(* One open row of a type and prompt is expected: two make it raise. Probe *)
(* sets may be inactive, and citations need an asset to reinforce.         *)
BeginGenerate(t) ==
    \E active \in SUBSET Prompts :
        LET candidates == {o \in OppTypes \X Prompts :
                IF o[1] = "entity_fix" THEN NeedsEntityFix(o[2]) ELSE o[2] \in active /\ CitationReady(o[2])}
        IN  /\ \A o \in candidates : aiOpps[o] <= 1
            /\ BeginAi(t, [op |-> "generate", opens |-> ToOpen(candidates)])

CommitAiGenerate(t) ==
    /\ aiTxn[t].op = "generate"
    /\ aiOpps' = [o \in OppTypes \X Prompts |-> aiOpps[o] + IF o \in aiTxn[t].opens THEN 1 ELSE 0]
    /\ EndAi(t) /\ UNCHANGED entity

AbortAi(t) == aiTxn[t] # NoAiRequest /\ EndAi(t) /\ UNCHANGED <<entity, aiOpps>>

(* An opportunity is decided upon, elsewhere.                              *)
OppLeaves ==
    /\ \E o \in OppTypes \X Prompts : aiOpps[o] > 0 /\ aiOpps' = [aiOpps EXCEPT ![o] = @ - 1]
    /\ UNCHANGED <<answers, rivalKnown, entity, aiTxn, aiBegun>>

AiNext ==
    \/ RecordAnswer \/ ImportAnswers \/ CompetitorChanges \/ OppLeaves
    \/ CreateBrandEntity \/ UpdateBrandEntity
    \/ \E t \in AiTxns :
        \/ BeginCheck(t) \/ CommitCheck(t) \/ BeginGenerate(t) \/ CommitAiGenerate(t) \/ AbortAi(t)

AiSpec == AiInit /\ [][AiNext]_aiVars

-----------------------------------------------------------------------------
(* compute_visibility_metrics, in hundredths of a percent.                 *)
Rate(hits) == IF answers = <<>> THEN 0 ELSE (20000 * hits + Len(answers)) \div (2 * Len(answers))

VisibilityScore == Rate(Count(LAMBDA a : a.brand \/ a.own))
MentionRate     == Rate(Count(LAMBDA a : a.brand))
CitationRate    == Rate(Count(LAMBDA a : a.own))

(* The score is at least each of the two rates it is made of and at most   *)
(* their sum, up to rounding, and never above 100                          *)
(* (brand_monitor.py:79).                                                  *)
VisibilityCovers ==
    /\ MentionRate <= VisibilityScore /\ CitationRate <= VisibilityScore
    /\ VisibilityScore <= MentionRate + CitationRate + 1
    /\ VisibilityScore <= 10000

(* As many open rows of a type and prompt as generations that overlap: one *)
(* when they do not, however many answers or probe sets bring up the same  *)
(* prompt; two make every later generation raise (service.py:406).         *)
AiOppsBounded ==
    \A o \in OppTypes \X Prompts :
        aiOpps[o] + Cardinality({t \in AiTxns : aiTxn[t].op = "generate" /\ o \in aiTxn[t].opens})
            <= Cardinality(AiTxns)

(* Checks one after the other: mentions only add up, so that the score of  *)
(* an entity never rises from one check to the next under the same name,   *)
(* also when a name was given and taken back, or an answer came, between   *)
(* the read and the write of a check (entity_checker.py:42, service.py:293), *)
(* and the visibility stays between its rates.                             *)
ScoresAreSound ==
    [][/\ VisibilityCovers'
       /\ (entity.score # NoScore /\ entity'.nr = entity.nr /\ entity'.scoredAs = entity.scoredAs) =>
             entity'.score <= entity.score]_aiVars
=============================================================================
