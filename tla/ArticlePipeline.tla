---------------------------- MODULE ArticlePipeline ----------------------------
(***************************************************************************)
(* How the text of one generation run is made (execution/agents/): written *)
(* section by section with a bounded number of LLM calls, scored by the    *)
(* SEO check, fixed and scored again, saved with what the check said of    *)
(* it, and handed to the claim verifier. A text is the set of SEO checks   *)
(* it would pass.                                                          *)
(***************************************************************************)
EXTENDS Integers, FiniteSets

CONSTANTS
    Sections,            \* sections of the outline besides the FAQ
    CallLimit,           \* settings.llm_max_calls_per_run, 15 in the code
    SEO_PASS_THRESHOLD,  \* 85 in the code
    SEO_MAX_RETRIES,     \* 3 in the code
    Varying              \* bound: checks a text may fail; it passes the others

ASSUME ArticleAssumption ==
    /\ Sections \in Nat /\ CallLimit \in Nat \ {0}
    /\ SEO_PASS_THRESHOLD \in 1 .. 100 /\ SEO_MAX_RETRIES \in Nat \ {0}

VARIABLES
    llm,        \* an LLM is configured
    art,        \* PipelineState, and where the pipeline is
    saved,      \* what the run's row holds of it
    scored,     \* history: what was checked, with its score
    fellBack    \* history: a section came from its template though an LLM was to write it

artVars == <<llm, art, saved, scored, fellBack>>

MetaChecks == {"meta_title", "meta_description"}

Weight ==
    [meta_title |-> 10, meta_description |-> 8, h2_structure |-> 15, faq_section |-> 10,
     keyword_stuffing |-> 12, word_count |-> 10, internal_links |-> 8, schema_readiness |-> 7,
     h3_structure |-> 5, keyword_in_h1 |-> 5]

SeoChecks  == DOMAIN Weight
(* The H1 is stripped when the draft is normalised: the check on it fails. *)
Always == SeoChecks \ (Varying \cup {"keyword_in_h1"})
Texts  == {text \in SUBSET SeoChecks : Always \subseteq text}

Modes  == {"grounded_llm", "grounded_template"}
Places == {"write", "faq", "meta", "check", "fix", "save", "claim", "done", "failed"}
Unsaved == [score |-> -1]

ArtTypeOK ==
    /\ llm \in BOOLEAN /\ fellBack \in BOOLEAN
    /\ art \in [pc : Places, todo : 0 .. Sections, used : 0 .. CallLimit + Sections + 2, mode : Modes,
                text : Texts, best : 0 .. 100, bestText : Texts, retries : 0 .. SEO_MAX_RETRIES,
                passed : SUBSET SeoChecks]
    /\ saved = Unsaved \/ saved \in [score : 0 .. 100, checks : SUBSET SeoChecks, text : Texts, mode : Modes]
    /\ \A s \in scored : s \in [text : Texts, score : 0 .. 100]

ArtInit ==
    /\ llm \in BOOLEAN
    /\ art = [pc |-> "write", todo |-> Sections, used |-> 0,
              mode |-> IF llm THEN "grounded_llm" ELSE "grounded_template",
              text |-> Always, best |-> 0, bestText |-> Always, retries |-> 0, passed |-> {}]
    /\ saved = Unsaved /\ scored = {} /\ fellBack = FALSE

-----------------------------------------------------------------------------
(* run_writing_agent. Every call is counted; one too many raises, as a     *)
(* provider error does.                                                    *)
Answered == {a \in BOOLEAN : a => art.used < CallLimit}

(* A section the LLM does not write is taken from its template.            *)
WriteSection ==
    /\ art.pc = "write" /\ art.todo > 0
    /\ \E answered \in IF llm THEN Answered ELSE {TRUE} :
         /\ art' = [art EXCEPT !.todo = @ - 1, !.used = IF llm THEN @ + 1 ELSE @,
                               !.mode = IF answered THEN @ ELSE "grounded_template"]
         /\ fellBack' = (fellBack \/ ~answered)
    /\ UNCHANGED <<llm, saved, scored>>

(* The FAQ has no template to fall back to: the pipeline raises.           *)
WriteFaq ==
    /\ art.pc = "write" /\ art.todo = 0
    /\ \/ art' = [art EXCEPT !.pc = "meta"]
       \/ \E answered \in IF llm THEN Answered ELSE {TRUE} :
            art' = [art EXCEPT !.pc = IF answered THEN "meta" ELSE "failed",
                               !.used = IF llm THEN @ + 1 ELSE @]
    /\ UNCHANGED <<llm, saved, scored, fellBack>>

(* The meta, the last call, falls back to the hints of the brief. What     *)
(* the text is worth is known to the check only.                           *)
WriteMeta ==
    /\ art.pc = "meta"
    /\ \E text \in Texts :
         /\ "keyword_in_h1" \notin text
         /\ art' = [art EXCEPT !.pc = "check", !.text = text, !.used = IF llm THEN @ + 1 ELSE @]
    /\ UNCHANGED <<llm, saved, scored, fellBack>>

-----------------------------------------------------------------------------
(* run_seo_check: round(earned / total * 100). A check that passes earns   *)
(* as many points as it weighs.                                            *)
Points(text) == UNION {{c} \X (1 .. Weight[c]) : c \in text}
Earned(text) == Cardinality(Points(text))
Total        == Earned(SeoChecks)
Score(text)  == (200 * Earned(text) + Total) \div (2 * Total)

(* Fault: the last draft is put out, not the best. *)
SeoCheckLast ==
    /\ art.pc = "check"
    /\ LET score   == Score(art.text)
           checked == [art EXCEPT !.passed = art.text, !.best = IF score > @ THEN score ELSE @]
       IN  /\ art' = IF score >= SEO_PASS_THRESHOLD THEN [checked EXCEPT !.pc = "save"]
                     ELSE IF art.retries + 1 < SEO_MAX_RETRIES
                     THEN [checked EXCEPT !.pc = "fix", !.retries = @ + 1]
                     ELSE [checked EXCEPT !.pc = "save", !.retries = @ + 1]
           /\ scored' = scored \cup {[text |-> art.text, score |-> score]}
    /\ UNCHANGED <<llm, saved, fellBack>>

(* Once the retries are used up the best body is put out, with the meta    *)
(* and the list of checks of the last. A text without an H2 loses 15       *)
(* points, more than the threshold leaves it, so critical_failures never   *)
(* decides.                                                                *)
SeoCheck ==
    /\ art.pc = "check"
    /\ LET score   == Score(art.text)
           better  == score > art.best
           checked == [art EXCEPT !.passed = art.text,
                                  !.best = IF better THEN score ELSE @,
                                  !.bestText = IF better THEN art.text ELSE @]
           WithBestBody(a) ==
               IF a.best = 0 THEN a
               ELSE [a EXCEPT !.text = (a.bestText \ MetaChecks) \cup (a.text \cap MetaChecks)]
       IN  /\ art' = IF score >= SEO_PASS_THRESHOLD THEN [checked EXCEPT !.pc = "save"]
                     ELSE IF art.retries + 1 < SEO_MAX_RETRIES
                     THEN [checked EXCEPT !.pc = "fix", !.retries = @ + 1]
                     ELSE WithBestBody([checked EXCEPT !.pc = "save", !.retries = @ + 1])
           /\ scored' = scored \cup {[text |-> art.text, score |-> score]}
    /\ UNCHANGED <<llm, saved, fellBack>>

ByFaq == {"faq_section", "keyword_stuffing", "word_count", "h2_structure"}
ByLlm == MetaChecks \cup {"keyword_stuffing", "keyword_in_h1"}

(* apply_seo_qa_fixes. A missing FAQ is appended, unless a lower heading   *)
(* reads like one; meta that pass still do; an LLM may rewrite the meta    *)
(* and put an opening before the text, under a second copy of its first    *)
(* line. Its errors are swallowed.                                         *)
ApplyFixes ==
    /\ art.pc = "fix"
    /\ \E text \in Texts :
         /\ art.text \ (IF llm THEN ByLlm ELSE {"keyword_stuffing"}) \subseteq text
         /\ ~llm => text \ art.text \subseteq MetaChecks \cup ByFaq
         /\ ~llm /\ "faq_section" \notin text \ art.text => text \ MetaChecks = art.text \ MetaChecks
         /\ art' = [art EXCEPT !.pc = "check", !.text = text]
    /\ UNCHANGED <<llm, saved, scored, fellBack>>

(* normalize_article_markdown: paragraphs that fixes repeated go, and with *)
(* them words and repetitions of the keyword.                              *)
Normalised(text, put) ==
    /\ put \subseteq text \cup {"keyword_stuffing"}
    /\ text \ {"word_count", "keyword_stuffing"} \subseteq put

(* The text is normalised once more; a draft that was not fixed is already.*)
Save ==
    /\ art.pc = "save"
    /\ \E text \in Texts :
         /\ Normalised(art.text, text)
         /\ art.retries = 0 => text = art.text
         /\ saved' = [score |-> art.best, checks |-> art.passed, text |-> text, mode |-> art.mode]
    /\ art' = [art EXCEPT !.pc = "claim"]
    /\ UNCHANGED <<llm, scored, fellBack>>

(* Claims are verified against what was saved (ContentRun).                *)
VerifyClaims ==
    /\ art.pc = "claim"
    /\ \E pc \in {"done", "failed"} : art' = [art EXCEPT !.pc = pc]
    /\ UNCHANGED <<llm, saved, scored, fellBack>>

ArtStep == WriteSection \/ WriteFaq \/ WriteMeta \/ SeoCheck \/ ApplyFixes \/ Save \/ VerifyClaims

ArtSpec == ArtInit /\ [][ArtStep]_artVars

-----------------------------------------------------------------------------
(* The score saved with a run is the best of all its checks, and the body  *)
(* saved with it the one that earned it, but for paragraphs normalising    *)
(* took away. A run saved above the threshold has the meta it earned it    *)
(* with too, and the list of checks of that very attempt; one that passed  *)
(* at once is saved as it was checked (orchestrator.py:188-211, 303-323).  *)
BestIsReported ==
    art.pc \in {"claim", "done"} =>
        /\ \A s \in scored : s.score <= saved.score
        /\ \E s \in scored :
             /\ s.score = saved.score
             /\ Normalised(s.text \ MetaChecks, saved.text \ MetaChecks)
             /\ saved.score >= SEO_PASS_THRESHOLD =>
                    saved.checks = s.text /\ Normalised(s.text, saved.text)
             /\ art.retries = 0 => saved.text = s.text

(* A run is not reported as written by the LLM if a template stands in for *)
(* one of its sections, because of an error or of the limit of calls       *)
(* (writing_agent.py:256).                                                 *)
ModeIsHonest ==
    saved # Unsaved /\ saved.mode = "grounded_llm" => llm /\ ~fellBack

(* What is reported of an article is true of it.                           *)
ReportIsHonest == BestIsReported /\ ModeIsHonest

(* Check and fixes do not go round for ever (orchestrator.py:304).         *)
PipelineEnds == <>(art.pc \in {"done", "failed"})
=============================================================================
