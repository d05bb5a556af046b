# ExposureFlow: TLA+ models, checks and proofs

ExposureFlow is a multi-tenant workbench for SEO consultants: a FastAPI service,
Celery workers with a Redis broker, a Postgres database and a Next.js client.
This directory specifies the parts of the API and worker whose correctness
depends on *order*: of requests of several people, of jobs and their messages,
of calls to external sites and the commits that record them; and the pure
algorithms whose result others rely on.

`A/` below stands for `src/apps/api/exposureflow_api/`.

## 1. Inventory of the system

How the parts talk: HTTP requests run in one SQLAlchemy session each
(`A/database.py`), whose transaction the router commits as its last step; the
session reads committed rows (Postgres READ COMMITTED), keeps what it loaded
(`expire_on_commit=False`) and writes only the columns it changed. Slow work
goes through `enqueue_job` into `job_runs` and, as a message, through Redis to a
worker, which runs the handler of the job type in a session of its own.
Celery beat starts the periodic tasks. Nothing locks rows or versions them, so
two requests that overlap are kept apart only by unique indexes and foreign keys.

| Component | State | Operations | Hard behaviour | What makes it correct |
|---|---|---|---|---|
| Job plane (`A/jobs`, `A/reliability/backpressure.py`) | `job_runs`, `usage_events`, broker | enqueue with key, quota, capacity; requeue; execute; retry; beat tasks | send before commit, races for a key, redelivery, crashes, one session for many sites | one run per key, one charge per run, limits, every run ends, a report counts what is there |
| Content runs (`A/content/service.py`, `A/execution/publish_gate.py`, `claim_verifier.py`) | `content_generation_runs`, `content_gate_results`, the post on the site | compile, pipeline, verify, gate, approve, request changes, publish, live update | requests overlap; external call before commit; old gates | nothing unverified or unapproved is ready or published |
| Article pipeline (`A/execution/agents`) | text, budget of LLM calls, best draft | write sections, check, fix, restore, finish | a loop with a retry limit; a fallback for each step; the best of several drafts | it ends, and the row tells of the text it holds |
| Content schedule (`A/content/schedule_service.py`) | `content_schedules`, runs | edit, batch of beat or job, batch of a user | a batch lasts past midnight, retries, a limit applied before a filter | one scheduled batch a day, only approved content candidates, the weekly number |
| Decision and roadmap (`A/decision`) | candidates, decisions, roadmap items | generate, approve, reject, defer, build | generators, deciders, builders at once | one candidate per opportunity, only approvals scheduled, and once; risk buckets and dependencies |
| Execution jobs (`A/execution`) | `execution_jobs` | create, dispatch, cancel, retry, publish | a cancel beside a dispatch | completed only by an adapter or a publish, and for good |
| Exposure (`A/exposure`) | opportunities and their scores | scan, score, close | a finding disappears and comes back | one open opportunity per finding |
| Strategy (`A/strategy`) | intakes, rules, pyramid nodes, commitments | draft, fork, approve, apply, commit, score keywords | several rows that should be one; an approval that rewrites others | the rules of the current intake hold wherever they apply |
| Topic graph (`A/topics`) | themes, clusters, nodes, cases | rebuild, detect, lock, assign, link, snapshot | a rebuild deletes while others point | locked nodes stay; cases and themes few; groups are groups |
| SERP (`A/serp`) | snapshots, slot targets, gaps | snapshot, edit target, scan | an older snapshot comes late; a person's word against a machine's | a person's status stands, a gap is opened once |
| AI visibility (`A/ai_visibility`) | probe runs, brand entities, scores | record, import, create, rename, check, generate | two open rows of a key, a rename beside a check | scores in range and following the answers |
| Knowledge base (`A/knowledge`) | sources, facts, packs, briefs | add, approve, revoke, ingest, pack, brief | an ingest beside a revocation | packs hold approved facts of approved sources |
| Technical issues (`A/indexability`) | `technical_issues` | upsert, resolve | checks of a site at once | issues follow the site in the end |
| Integrations (`A/integrations`) | sync states, ingested rows | sync, fail, lose a run | two syncs, late rows, failures, nobody who asks | no day with rows below the cursor is missing |
| Tenants (`A/tenants`, `A/auth`) | accounts, workspaces, members, invitations, sites | invite, accept, change, remove, transfer | two admins at once | a workspace keeps an owner, and its limits |
| Billing (`A/billing`) | subscriptions, plans | first use, checkout, portal, cancel, webhook | events late, twice, out of order | the account is as its subscription says |
| Workspace data (`A/security`) | settings, credentials, memberships | request deletion, purge, store, rotate; change a role, transfer | one owner against another, or against oneself | a purged secret stays away, a deletion can be finished |
| Notifications (`A/notifications`) | notifications | tell, read | same news twice; rolled back | told once in its window |
| Operations health (`A/ops_maintenance`) | health runs | daily task, manual run | twice a day, a failure half way | one report a day, and lost jobs are in it |
| Reliability (`A/reliability`) | breakers, rate windows | allow, record | several processes, restarts, calls of no outcome, Redis away | an open circuit is left in peace; a bound on what is let in |
| Reporting, inbox, internal admin, web, SDK, infrastructure | none of their own | | | |

`PROJECT.json` lists every component with its status, and the hazards at the
lines where they bite.

## 2. Modules

| Module | Component | Its theorems |
|---|---|---|
| `JobQueue` | `enqueue_job`, broker, workers | `JobQueue_proofs` |
| `JobLedger` | what the job plane promises (abstract) | refined in `JobQueue_proofs` |
| `BeatChecks` | the beat tasks that enqueue checks of every site | `Platform_proofs` |
| `ContentRun` | one generation run, its gates, its post | `ContentRun_proofs` |
| `ArticlePipeline` | how the text of a run is made | `Background_proofs` |
| `ContentBatch` | the schedule and the batches of one site | `Planning_proofs` |
| `DecisionPlane` | from findings to roadmap items, as transactions | `Decisions_proofs` |
| `RoadmapPlan` | the plan that one roadmap build computes | `Planning_proofs` |
| `ExecutionJobs` | one execution job | `Decisions_proofs` |
| `Scoring` | keyword and opportunity scores | `Planning_proofs` |
| `Strategy` | intakes, rules, pyramid, commitments | `Decisions_proofs` |
| `TopicGraph` | the topic graph as transactions | `Decisions_proofs` |
| `TopicClustering` | the union-find that groups queries, competing pairs | `Planning_proofs` |
| `SerpTargets` | snapshots, slot targets, gaps | `Decisions_proofs` |
| `AiVisibility` | answers, scores, their opportunities | `Decisions_proofs` |
| `Knowledge` | sources, facts, packs, briefs | `Decisions_proofs` |
| `TechnicalIssues` | checks of a site and the issues they keep | `Background_proofs` |
| `DataSync` | one provider's sync and its cursor | `Background_proofs` |
| `Tenancy` | membership, invitations, sites, transfer | `Platform_proofs` |
| `Billing` | one account's subscription | `Platform_proofs` |
| `WorkspaceData` | deletion, purge, credentials | `Platform_proofs` |
| `Notifications` | notices | `Platform_proofs` |
| `OpsHealth` | the daily health run | `OpsHealth_proofs`, `Background_proofs` |
| `CircuitBreaker`, `RateLimit` | the reliability primitives | `Platform_proofs` |
| `Counting` | lemmas about the sizes of finite sets | used by the others |

`MCJobQueue`, `MCContentRun`, `MCDecisionPlane`, `MCTopicGraph` and
`MCTopicClustering` are instances for TLC. `MCBackground`, `MCDecisions`,
`MCPlanning` and `MCPlatform` put components beside each other in one run: a
variable `part` names the component of a behaviour, the others stay as they
began. The components of a run share no state. Where two interact, one module
models both: the beat tasks and the job rows (`BeatChecks`), the pyramid and the
topic graph, snapshots and the graph (`TopicGraph`), the daily health run and
lost jobs (`OpsHealth`), findings of every generator and one table of
opportunities (`DecisionPlane`), the intake and the opportunities it rejects
(`Strategy`), `JobQueue` with the quota and backlog checks. `workspace_memberships` is
the exception: `Tenancy` asks who may become and stay a member, `WorkspaceData` who is
left to finish a deletion, each has the operations on memberships that bear on its
question (transfer and role changes are in both), and they share no state.
`INSTANCE ... WITH` takes a module twice where a property needs requests one after the other and
another wants them to overlap (`Together`, `OneByOne`, `InTurn`, `Week`).

A comment that begins with "Fault:" introduces a faulty variant that no action
uses. It documents what a property is able to notice.

How a module reads: a transaction is `Begin...` or the statement that reads
(it notes what it saw in `req`, `graphTxn`, `stratTxn`, ...) and `Commit...` (it
writes what the code writes, only the columns that changed). A unique index or a
foreign key is a guard of the commit, or the reason of an abort. What is external
(Google, Stripe, an LLM, a provider) is a choice; history variables are marked so.

### The job plane

`JobQueue`: `job` is `job_runs`, `usage` is `usage_events` of the month, `msgs`
the broker, `txn` an open transaction of a caller of `enqueue_job` per slot,
`worker` a Celery process per slot. A row inserted but not committed is in `job`
as "uncommitted": nobody but its transaction sees it, except the unique index,
which makes a second INSERT of the key wait (`KeyHeld`) and then fail
(`KeyTaken`). Each statement that touches shared state is an action: `FindNone`,
`ReturnExisting`, `FindFailed`, `CheckQuota`, `AssertQueueCapacity`, `InsertRun`,
`SendNew`, `CommitNew`; `SendRequeued`, `FlushRequeued`, `CommitRequeued`;
`RejectCall` is each of the errors, `Abort` a rollback anywhere. `send_task` is
not transactional: the message is in `msgs` at once. `Receive`, `MarkRunning`,
`FinishRun` are `_execute_job_run_async`; `WorkerDbError` a commit that raises
and the retry of the task, `WorkerCrash` the loss of a process after the early
acknowledgement, `Redeliver` a second delivery.

`JobLedger` is the abstract promise: a call is accepted, charged and answered
at once or not at all; its key is answered the same later; nothing is struck
out. `JobQueue!ImplementsLedger` states the refinement: the ledger is the
committed rows, so every statement before a commit, every message, worker step,
crash and retry is a stutter of it.

`BeatChecks`: one delivery of a beat task goes over the sites in one session, in
an order the query does not fix, and commits once. An enqueue that the database
refuses leaves the session broken, so the sites enqueued before are lost with it,
and the commit raises; the key of site and period keeps a second delivery from
doubling. `message` outlives a rollback.

### Content

`ContentRun`: `row` is status and text of the run, `claimGates` and
`publishGates` its gate rows, `site` what the customer's site shows, `clock` the
start of each transaction (`checked_at` is `now()`). Of a text the code tells
apart whether claim verification passes (`Supported`) and whether the other
findings of the publish gate do (`Compliant`). Every operation of
`A/content/service.py` on a run is an action; publishing is three: the checks,
the call of the site, the commit.

`ArticlePipeline`: a text is the set of SEO checks it would pass, so a fix is
what it does to that set; the score is the weights of the checks it passes. LLM
calls are counted as in the code, and each step has the fallback it has there. `Save`
normalises the text once more (`Normalised`), so the text saved may have lost repeated
paragraphs, and the checks they passed, since it was scored.

`ContentBatch`: a batch of beat or job is one transaction over all sites:
`LoadSchedules`, `TakeTurn` (perhaps days later if `OtherSites`), `PickApproved`
(the query with its limit), `WriteArticles`, `CommitBatch`.

### Deciding about the work of a site

`DecisionPlane`: `opps`, `cands`, `decisions`, `items` are committed rows of one
site. A row is named by what it stands for and the number of the transaction that
made it, so two rows for the same thing stay two. `InsertCandidates` is where the
unique constraint acts. A finding is opaque; `MultiUrlFindings` are those of
OG-004, which the code looks up by another key than it stores.
`RoadmapPlan`: one step is one pass of the loop of `build_roadmap_items`.

`Strategy`: `Begin...` reads, `Impact` is the second read of an approval (what
the intake blocks, rejects and restores), `Commit...` writes. `Scoring`: the
weighted sums in hundredths, with the rounding where the code rounds. The
equivalence of the abstraction to the code's floats was checked outside of TLC
over all 380,160 inputs of the keyword scorer; the one place where float sums
differ from decimal ones (0.40, see section 4) is in the model.

`TopicGraph`: a rebuild reads themes and locked nodes (`BeginRebuild`), deletes whatever
is unlocked by the time of its DELETE (`StartSweep`, `Sweep`), looks each query up again
(`Adopt`) and moves its node by an UPDATE whose look is stale by then (`CommitRebuild`).
Rows it has deleted are held until it ends: others wait (`Held`) and find them gone
(`Spoiled`, `Left`). Foreign keys are `Referenced`. `TopicClustering`: `todo` is the edges
left, a step is one union with the code's path and rank rules; the property compares the
outcome with the connected components of the edges.

`SerpTargets`: one keyword; what Google shows is which owners hold each slot.
`AiVisibility`: an answer is whose urls it cites, which names of the brand its text has
and with what sentiment; a negative one counts by the name the newest entity has when a
check reads it. `Knowledge`: a fact is its source, status and whether a person
wrote it; an `ingest` reads the source, fetches, and commits. `ExecutionJobs`:
one job; the adapter accepts, refuses or is missing.

### The platform

`TechnicalIssues`: a job looks at the site (external) and upserts later; `openRows` counts
rows, for nothing forbids two. `DataSync`: rows of a day appear while it is younger than
`Lag`; a run loads the cursor, fetches what came after it, or `Backfill` days if there is
none, and commits rows and cursor together. `Tenancy`, `Billing`, `WorkspaceData`: each
request reads in one step and writes in another. `Notifications`: news inside the
transaction of whoever has it, which began hours before if it fetched from a provider
(`BeginNews`, `Notify`). `OpsHealth`: the checks are queries made one after the other
while the platform goes on. `CircuitBreaker`: each process has its own, for the two gsc
handlers. `RateLimit`: Redis for all until it fails a process, then that process's memory;
an entry of a bucket is its number and its time, for two requests of a second stay two.

## 3. Runs

| Run | Asks | Bounds |
|---|---|---|
| `job_safety` | one run per key and workspace, one charge per run, no unkeyed run executed beyond the broker's duplicates, limits overshot by at most the open transactions minus one, and the ledger refined | 2 requests at once of 3, 2 workers, 3 runs, 2 workspaces sharing a key, limits of 1, 1 crash, 1 redelivery, 1 database error, 1 retry |
| `background` | what runs in the background is right, and ends: job runs, syncs, technical checks, the daily health run, the article pipeline | 3 calls, 4 days, lag 2, a window of one day without a cursor, 3 changes of a site, 2 sections, 2 LLM calls, 1 fault each |
| `content` | requests for a run one after the other: readiness, approval and post follow the text; overlapping: nothing goes out without a gate | 6 in sequence, 3 texts, 3 levels, 2 providers; 2 at once of 4 |
| `decisions_serial` | seven components, requests one after the other: each keeps what it promises | 3 to 6 requests of each component, 3 findings (ordinary, of several urls, of a sitemap), 5 slot types, 4 result pages, 2 facts, 2 names of a brand |
| `decisions_overlap` | five of them, two requests overlapping at every statement: what still holds, and by how much the rest is missed | 2 at once of 3 to 6 of each component, one finding (of a sitemap) |
| `planning` | every plan of up to 3 rows, every score, every clustering of 3 queries, scheduled batches over days and a week | 4 days and 2 batches with failures, an edit and other sites; 8 days and 2 batches of a quiet schedule |
| `platform` | membership, subscriptions, breaker, rate limit, notices, health, deletion, beat | 2 users, 3 domains, 2 to 3 events and a redelivery, 2 processes and 5 failures, 2 hours (windows of 1 and 2), 2 members with 6 requests on a workspace's data of which 2 overlap, 2 sites and 2 deliveries |
| `job_stuck_queued`, `content_stale_gate`, `decision_regenerate`, `topic_rebuild`, `topic_serp_keywords` | findings | |

Why the bounds are enough: two transactions, workers, processes or deliveries
give every pairwise race. A third request is needed to requeue a run that another
made and a worker failed; a third run to exceed a limit of one by two. Three texts
are one for each way a text can be judged; six requests reach the longest story
of a run (pipeline, gate, approve, gate, publish, one more change), and five that
of a finding (scan, candidate, decision, roadmap, a second roadmap). Three roadmap rows
are two fixes and a refresh of a page, or one of each bucket. Eight days hold both
days of the default schedule and the first of the next week. Three queries are a
chain whose ends are not similar, which is where union-find and pairs differ. The
breaker's threshold is the code's; its minute is two ticks of five. A sync needs days on
both sides of the lag and, without a cursor, a day before its window. Six requests on a
workspace's data are the longest story of a deletion (store, a role, two deletions that
overlap, purge, a rotation).

What the properties say, by run:

* `job_safety`: `IdempotentReply`, `ChargedOnce`, `ExcessIsBounded`,
  `UnkeyedRunsAlone`, `ImplementsLedger`.
* `background`: `NoGapBelowCursor` (a cursor passes no missing day),
  `ReportIsHonest` (the score saved is the best and of the body saved, as it was before it
  was normalised; with a passing score come its meta and its checks; a template shows),
  `WorkEnds`, `PublishedIsIngested`, `SitemapIssuesFollow` (issues of a site that
  no longer changes come to tell of it), `LostIsReported`.
* `content`: `StatusFollowsText`, `NothingSlipsOut`.
* `decisions_serial`: `DecisionsAreSound`, `PacksAreVetted`, `ConstraintsHold`,
  `SlotsAreKept`, `HistoryIsKept`, `ScoresAreSound`.
* `decisions_overlap`: `OneCandidatePerOpportunity`, `OnlyApprovalsScheduled`,
  `DuplicatesBounded`, `CompletedIsEarned`, `LockedStays`.
* `planning`: `BatchesKeepToSchedule`, `RiskBuckets`, `DependencyIsLastFix`,
  `ClustersAreGroups`, `TierFollowsChange` (no better factor lowers a tier, but for first
  features that score less than none).
* `platform`: `AccountFollows`, `LoadIsHeldBack`, `NewsIsToldOnce`,
  `CountedIsThere`, `MembershipHolds`, `DeletionIsFinal`.

and of each a type invariant. Deadlock is not checked: the bounds end every
behaviour.

### Fairness

`FairSpec` and `BackgroundFairness` ask weak fairness of each transaction's own
next statement and of each worker's receive, mark and finish. A request whose
session is open continues until it returns or raises; a worker that is up polls
the broker (`restart: unless-stopped`). Days pass; beat starts its tasks
(`crontab` in `A/jobs/celery_app.py`), which ask for the checks of a site again;
a started run goes on. Nothing in the code asks for a sync (no beat entry does, and
`default_schedule` of the registry is never read): people do
(`A/integrations/router.py:36-87`). `PublishedIsIngested` therefore has it as a condition
that a sync is asked for again and again (`SyncsAreAskedFor`), and excepts the days
before the window of a first sync; fair is only what a run that was asked for does.
Looking at a sitemap is asked with strong fairness, for a job may be aborted again and
again in between, and beat asks again each time. New
calls, aborts, crashes, redelivery and database errors are never owed.

### Findings

1. `job_stuck_queued`: the message is sent before the row is committed; a fast
   worker drops it and the run stays queued.
2. `content_stale_gate`: a publish gate passed on an earlier text admits a later one.
3. `decision_regenerate`: each scan opens the OG-004 finding of a query again.
4. `topic_rebuild`: a slot target on a cluster makes every later rebuild fail.
5. `topic_serp_keywords`: a snapshot for a keyword that Search Console does not
   know makes the build of the graph raise `KeyError`.

Each is quoted against the document it contradicts in `PROJECT.json`.

## 4. What does not hold

Properties hold under the conditions their runs state. Beyond them the models
show, and the code does, the following.

* Jobs: exhausted retries, or a worker that dies, leave a run `running`; only
  failed runs are requeued (`DeliveredRunsFinish` excludes both). A
  `content.generate` job charges its run twice (when enqueued, and in
  `A/content/service.py:119`). A beat message taken before the commit at the end of the
  loop is dropped, and a row whose `send_task` failed stays queued. Two deliveries
  that meet sites in different order wait for each other until the database ends one.
* Content: a gate request that loaded a run before a compile committed can mark the
  recompiled run `publish_ready`. `manager_review` is not among the levels for which the
  publish gate asks for a person. When the SEO loop gives up, the best draft is restored
  but meta data and checks are the last attempt's, and "complete" overwrites "seo_failed";
  the text saved is normalised once more after the last check, so it may pass fewer checks
  than its score says (of words or the keyword); `critical_failures` decides nothing; the
  FAQ step has no fallback, so as many sections as LLM calls make it raise;
  `keyword_in_h1` always fails, the H1 having been stripped. A written candidate stays
  first in the ranking.
* Decisions: overlapping builds, decisions or scans duplicate. A candidate stays pending
  when its opportunity is closed. An urgent refresh may be weeks before its fix. Rounding
  up exceeds the weekly number by up to the bound that is checked.
* Strategy: two drafts or two current intakes make create, fork, approve and reapply
  raise from then on. An update overlapping an approval edits an approved intake; an
  approved node overlapping one undoes a block. Removing a constraint does not unblock
  its nodes. A reapplication beside an approval leaves rules of the older intake.
* Scores: the first SERP data of a keyword may lower it: without any features it scores
  0.10 for diversity, with `["organic"]` alone 0.05 (`keyword_scorer.py:47`, `:186`). A
  float sum below 0.40 makes P3 of a keyword whose feasibility is shown as 0.4; a page
  that ranks 11 to 20 scores below a keyword that does not rank and has no competitors; a
  keyword without SERP data can be P2. No opportunity can reach "high": the most is 44.1,
  for no caller passes `topic_node_status`.
* Topic graph and SERP: an organic target keeps "achieved" when no organic result is
  shown; every question of "people also ask" counts as unanswered; a snapshot beside an
  edit overwrites a person's "blocked"; a page that changes opens the same gap again;
  target keys have no country, language or device. Rebuilt nodes are always "covered". A
  rebuild looks at the lock of a node (`topics/service.py:215`) before it moves it (`:234`): a
  node another rebuild made meanwhile, locked by a person between the two, is moved. What is
  locked before its DELETE ends stays.
* AI visibility: the share of voice falls back to all mentions when none matches. A rename of
  the brand, or a new entity, changes which negative mentions count
  (`entity_checker.py:42`), so the score may rise with the same mentions.
* Sync: without a cursor only a window is fetched (30 days, 480 for Search Console); a day
  before it is never ingested and below the cursor from then on. Nothing starts a sync by itself.
* Knowledge: `POST /sources` and `PATCH /brand-profile` always raise (`user.id`,
  `A/knowledge/router.py:51` and `:95`), so the model starts from sources a database
  already has. An ingest writes "draft" over an approval or revocation that committed
  during its fetch. Fetching again doubles facts, which raise the coverage of a pack. Packs
  keep facts of sources revoked later. The high-risk cap of 0.5 is not below the
  threshold of 0.5.
* Technical issues: two open rows of a key make every later upsert raise.
* Tenants: an invitation that is pending survives the transfer of its workspace. A
  workspace may wait for its deletion with nobody who can purge it: after two owners asked
  for it at once and revoked each other, and, with requests one after the other, after a
  role was changed, which may be one's own (`A/tenants/service.py:347`), or the workspace
  was transferred (`A/billing/service.py:134`), though
  `docs/product/phase-12-review.md:71` says that it was fixed. A rotation beside a purge
  writes the secret back. `uq_workspace_provider_cred` keeps a name for good and no route
  disconnects. An allow list without one's own address locks one out.
* Billing: two starter rows make quota and billing read different ones; webhooks that
  overlap mix their columns; an old event that comes late wins; a plan changed in the portal is
  not reflected.
* Execution jobs: a cancel beside a dispatch can overwrite a completion; a retried row
  may keep its times; publishing leaves `completed_at` and `error` as they are; the
  handler `execution_run` is never enqueued.
* Breakers are per process, and a rate limit without Redis is per process. The serp handler
  asks for the circuit `serp` (`A/jobs/handlers/serp_snapshot.py:20`) but tells a success to
  `serper` or `serpapi` (`:123`) and a failure to none (`:127`): that circuit never opens,
  though `docs/product/phase-12-review.md:72` and
  `docs/operations/disaster-recovery-runbook.md:24` count on it. A gsc job that ends before
  its call, or cannot store its error, tells none either.
* Notifications: a note is dated with the start of its transaction but looked for later. Just
  past the window two transactions that do not overlap, the second begun within the window of
  the first note, tell twice with dates less than a window apart.

## 5. Proofs

Each theorem holds for every value of the constants that satisfies the module's
assumption, and for every number of requests, jobs and rows unless it says
otherwise. `PROJECT.json` lists them with the properties they state.

**Job plane** (`JobQueue_proofs`): `TypeCorrect`, `IdempotentEnqueue`,
`ChargedExactlyOnce`, `BacklogIsBounded`, `QuotaIsBounded`, `ExcessIsAlwaysBounded`,
`UnkeyedAlwaysAlone`, and `LedgerIsImplemented`: `JobQueue` implements `JobLedger`.
`TypeOK` alone is not inductive. `Structure` adds that an inserting transaction owns
its uncommitted row alone (`TxnOK`), that a requeueing one holds a committed row of its
key, that workers hold committed rows (`WorkerOK`), that rows that ran are in `started`
(`RowsOK`), and that two live rows never share a key (`KeysUnique`, the unique index).
On top of it `IdempotentReply` and `ChargedOnce` are inductive by themselves. The limits
need `Limits`: each transaction past a check holds a claim, and rows plus claims never
exceed the limit plus the transactions minus one. Runs without a key need `RunAlone`:
the workers that hold a run, the transaction that may still send it and the messages
of it together are no more than one and the duplicates the broker made of it. For the
refinement only the commits are steps of the ledger; that `Accept` is allowed there is
`KeysUnique` and `ChargedOnce`.

**Beat, sync** (`Platform_proofs`, `Background_proofs`): `CountedAlwaysThere`: a session
that can still commit counts only what is committed or what it will commit
(`Accounted`); a broken one never commits. `CursorPassesNoGap`, for overlapping syncs,
any lag, any window and any failures, excepts the days that were too old already when a
sync without a cursor asked (`TooOld`, by the history `asked`: the latest day from which
such a sync asked and brought rows). The cursor alone is not inductive: a run carries a
cursor it loaded and rows it fetched earlier. `SyncIsSound` says of both that they are
behind the lag (so no rows appear below them any more) and have no gap below them; the
largest fetched day exists by well-foundedness (`NewestIsLargest`).

**Articles** (`Background_proofs`): `ReportsAreHonest`. `ArtIInv` says that the best score
is the largest of all checks and was earned by the body kept beside it, that the score and
text of a run past the last check are those, with their meta and checks once they pass
(`Deserved`), that the row saved holds that score, those checks and that text as
normalising it left it (`Recorded`), that whatever is checked once more stayed below the
threshold, and that an article said to be of the LLM had no template. A score lies between
0 and 100 because the points of a text are some of all there are (`ScoreInRange`).

**Issues and health** (`Background_proofs`): `BackgroundTypeCorrect`. Its bounds are not
inductive: the open rows of an issue never exceed the jobs of the site because the rows
and the jobs about to insert one do not (`IssuesCounted`), and the health runs committed
for a day never exceed the tasks because those and the runs still to be committed do not
(`OpsCounted`).

**Content** (`ContentRun_proofs`): `ContentTypeCorrect`; `StatusAlwaysFollows`, with
requests one after the other; `NothingEverSlipsOut` for both ways `MCContentRun` takes
the module. What a request that has begun believes of the run must be part of the
invariant (`AloneInv`): the run is as it was loaded, for nobody else writes it.

**Schedule, roadmap, clusters** (`Planning_proofs`): `WeeksInHorizon`;
`BucketsDoNotInterleave`, from the week range of each bucket, which does not depend on
the index; `DependenciesAreLastFixes`, from the meaning of the dictionary
(`FixOfIsLast`). `ArticlesAreApproved` for batches that overlap: what a batch has chosen
was approved when its query ran, and an approved candidate is never unapproved.
`BatchesAlwaysKeep` with one batch at a time: turns are of different days (`InTurns`);
articles are counted by the turn that owns them (`CountByOwner` in `Counting`), so that
a week has no more of them than its days times the daily number. `FindsAlwaysEnd`: the
parents are a forest, for ranks rise towards the roots, and stay below the number of
queries because a tree has more queries than the rank of its root (`UnionIInv`).
`ClustersAlwaysGroup`: two queries have one root if and only if the edges taken so far
connect them, and no tree crosses a cut that no edge crosses, so at the end the groups are
the connected components. What path compression reaches is the least set that holds a query
and its parents (`PathIsLeast`), which needs no recursion.

**Scores** (`Planning_proofs`): `TiersFollowChange`, no better factor lowers the tier of a
keyword and no worse one raises it. A sum over a set of features has one recursive
function (`TotalWeight`), of which all that is needed is that each element adds its own
weight, so that a set of more weighs no less. The tier compares a product of five factors
with two thresholds: factor by factor the product of the better keyword is no less. It has
no condition; the property itself excepts one step (`BelowBaseline`): the first features
of a keyword that had none, if they score less than none does. Without any features a
keyword scores 0.10 for diversity, with `["organic"]` alone 0.05 (`keyword_scorer.py:47`,
`:186`), a list `serp_features_from_slots` returns (`keyword_enrichment.py:39`) and the
run takes.

**Decisions** (`Decisions_proofs`): `OneCandidate` and `ApprovalsOnly` for any
overlap. The first needs that open transactions have distinct numbers no committed row
has yet (`Fresh`), and that the rows two generators hold after their insert are disjoint
(`InsertsDisjoint`, the constraint); the second that a build carries only recorded
approvals (`BuildsApprovals`) and that a decided candidate never becomes pending again.
`DecisionsStaySound` with one transaction at a time: what it read is still so when it
writes.

**What decides about the work of a site** (`Decisions_proofs`):

* Execution jobs: `CompletionIsEarned` with any overlap: what an open request has still
  to write assigns "completed" only with reason (`Rightful`). `HistoryAlwaysKept` with
  one request at a time: it speaks of the row as it will be (`After`), because a request
  that is open has already decided.
* Topic graph: `LockedNodesStay`, for any overlap: a rebuild neither deletes nor
  moves a node it has found locked. The nodes a rebuild has
  deleted but not committed are out of everybody's reach, for whoever would lock one
  waits (`GoneUnlocked`); what it has seen unlocked and will move is excepted, as §4 says.
* Knowledge base: `PacksAlwaysVetted`, with one request of a person at a time and any
  number of ingests beside it (`Vetted`): an ingest may change a fact only to a draft, and
  the facts an open pack has picked are approved still.
* Slots: `SlotsAreAlwaysKept`, with one transaction at a time (`SlotIInv`): the targets
  and gaps an open snapshot has read are the current ones (`Current`).
* Strategy: `StrategyTypeCorrect` for any overlap, and `ConstraintsAlwaysHold` with one
  transaction at a time. `StratIInv` adds what an open one has read (`StillRead`): the
  intake to be edited is a draft, so it does not change the rules; the one to be applied
  has the text that was read and all other current ones are to be archived, so the new
  rules are those of one intake; the opportunities to be rejected are all that it forbids;
  and no rule forbids what a Search Console scan is about to open.
* AI visibility: `ScoresStaySound`, with one request at a time (`OneAiRequest`): the
  score of the entity is no less than what a check under the same name would come to now
  (`ScoreFollows`, for every name the brand may have), because answers are only added and
  each mention costs something or nothing; what an open check has computed lies between
  the two. That the visibility lies between its rates
  and their sum is a fact about the counts of the answers, for any of them.
* Rows nothing keeps unique: `DuplicatesAlwaysBounded`, for any overlap: two rows that
  mean the same are no more than the requests that overlapped. For most tables the rows
  and the open requests that will still add one are together no more than the requests
  (`ClaimsKept`). Current intakes need more, for one approval archives others: those that
  are current or about to be are few enough, or one open approval will archive all the
  rest (`FewCurrent`). Of commitments there may be any number for a moment; those that
  will stay are few enough (`FewPromised`).

**Platform** (`Platform_proofs`): `DeletionStaysFinal`, for any overlap: of two open
requests each knows of the other (`beside`, a history), and one that nothing was open
beside ends on the ground it began on (`Orderly`, `Grounded`).
`LoadIsAlwaysHeldBack`: a count never passes the threshold, a circuit is open exactly
there, and no process has a call under way in an open one
(`BreakerIInv`); a bucket holds an entry for each request it let in, no more than the
limit in a window (`EachLimited`). `NewsIsAlwaysToldOnce`, for any overlap of those who
have news: what is held back was told in its window (`QuietIsTold`), and notes of one
kind, committed or pending, whose transactions began and looked within one window, from
whatever hour it starts, are no more than those who can overlap (`RepeatsAreFew`): two of
them not open at once would have met. `AccountAlwaysFollows`: with events in any order the
account is as its subscription says; with requests and webhooks one after the other
nothing is out of date once all events have arrived.
`MembershipAlwaysHolds`, for any overlap: `Seated` ties members to the invitations that
were accepted, `Believed` says what each open request may still do to them, and
`NearLimit` counts sites together with the requests that were let past the limit.

**Types.** The type invariant of every run is proved: `TypeCorrect`, `ContentTypeCorrect`
and the others, and of the runs that put components beside each other
`DecisionsTypeCorrect`, `PlanningTypeCorrect` and `PlatformTypeCorrect`, each with one
invariant per component, since they share no state. Where such an invariant says more than
the shape of a row, it needs more than itself:

* the topic graph: no node, edge or slot points at a cluster that is gone, which is a
  foreign key of the code and here a fact about what an open transaction has read;
* billing: an account has no more subscription rows than requests that can overlap, and no
  two of one time. The rows there are and those that open requests have decided to make
  are together no more than the requests (`BillClaims`), for only who finds no row makes
  one; and open requests began at different times (`BillTimes`). `BillMove` drops the
  order of the events and the number of requests, so that one argument covers the account
  taken three ways;
* the checks of Celery Beat: the runs that two deliveries of a task have yet to commit are
  of different sites, and no site is both added and queued again, because a site to be
  added has no run and one to be queued again has one (`Posted`);
* the rate limit: entries have the number of a finite bucket; the circuit breaker: a circuit
  is open exactly from its threshold on; the health run: `OpsCounted` (`OpsHealth_proofs`,
  shared with the background).

**Counting** holds what these arguments share: the least-number principle
(`LeastNumber`), from the well-foundedness of the naturals, stands for induction where a
theorem over an operator would be needed; numbering, counting by owner, and rows counted
together with those who are about to insert one (`ClaimsKept`).

Assumptions. Each module's own, named: `JobQueueAssumption` (finitely many transactions
and runs, one transaction at least, distinct null values, natural bounds),
`DecisionAssumption` and `RoadmapAssumption` (which findings are of which kind; no page is
the null url), `DataSyncAssumption`, `TechnicalIssuesAssumption`, `OpsHealthAssumption`
(finite sets, natural bounds), `TopicGraphAssumption`, `StrategyAssumption` (finitely many
transactions, natural bounds, a null value that is no cluster), `SerpAssumption` (the slot
types and the kinds of owner the code knows), `AiAssumption` (what a mention costs is
natural, the null name is no name), `NotificationsAssumption`, `BreakerAssumption` (a
threshold and a time of one at least), `ScoreAssumption` (finitely many features and
signals; a demand of at most 10 tenths), `ExecAssumption`, `KnowAssumption`,
`BeatAssumption`, `AloneAssumption` (natural bounds), `WsAssumption` (the roles are of the
code, "owner" among them), `ClusterAssumption` (finitely many queries, of finitely many
words), `WeekAssumption` (no more than 20 articles a week, the most a new schedule may ask
for), `ArticleAssumption` (natural numbers, a threshold from 1 to 100, one try and one
call at least), `RateLimitAssumption` (a limit and a window of one at least, and "redis"
is no process), `TenancyAssumption` (finitely many users and domains, limits are natural,
and the null value is no row). Where a theorem needs requests one after the other it says
so as a condition: `OneAtATime`, `OneAiRequest`, `OneBatch`, `OneExecRequest`,
`OneKnowRequest`, `OneSerpTxn`, `OneStratTxn`; `MembershipAlwaysHolds` asks for one slot
of a request at least, without which the bound would be negative.

Model-checked only: liveness (`WorkEnds`, `PublishedIsIngested`, `SitemapIssuesFollow`,
`LostIsReported`) is out of the prover's reach. Every invariant and every action property
that a passing run checks is stated by a theorem. The disagreements of the runs that expect
a violation are counterexamples of small instances, and need no proof.

## 6. Not modelled, and what is left

Read-only parts: reporting, client portal, consultant inbox, agency dashboard,
launch readiness. Internal admin writes single rows and remembers nothing between calls.
`A/execution/agents/analytics_agent.py` is never called. The audit heuristics of
`A/indexability`, keyword extraction and research, prompt and answer wording, embeddings
and retrieval order, HTTP clients of providers, HTML and JSON payloads, data export,
retention and single sign-on, the web client and SDK, deployment files. See
`components` in `PROJECT.json`.

What could follow: an abstract document that is published only after a gate, refined by
`ContentRun`; tokens and the role table; retention beside purge.
