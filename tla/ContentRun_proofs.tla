-------------------------- MODULE ContentRun_proofs --------------------------
(***************************************************************************)
(* Proofs about ContentRun and about the two ways MCContentRun takes it,   *)
(* for any texts, levels, providers and number of requests.                *)
(***************************************************************************)
EXTENDS MCContentRun, TLAPS

(* Requests for the run do not overlap.                                    *)
OneAtATime == \A p, q \in Requests : p = q

Working == {"loaded", "allowed", "pushed"}

(* A step of a request that has begun: it depends on nothing but the run.  *)
RunStep(q) ==
    \/ LoadRun(q) \/ Compile(q) \/ Pipeline(q) \/ Verify(q) \/ CheckPublishGate(q) \/ Approve(q)
    \/ RequestChanges(q) \/ AllowPublish(q) \/ PushToSite(q) \/ CommitPublish(q) \/ Abort(q)

(* The beginning of one, when n may begin.                                 *)
BeginStep(q, n) ==
    /\ req[q].pc = "idle"
    /\ clock < n
    /\ clock' = clock + 1
    /\ \E op \in Ops : req' = [req EXCEPT ![q] = [Idle EXCEPT !.pc = "begun", !.op = op, !.at = clock']]
    /\ UNCHANGED <<row, claimGates, publishGates, site, fixed, approvedDraft>>

(* The steps of the two instances are such steps.                          *)
LEMMA AloneSteps ==
  ASSUME Next
  PROVE  \E q \in Requests : RunStep(q) \/ BeginStep(q, MaxRequests)
BY DEF Next, RunStep, BeginRequest, BeginStep

LEMMA TogetherSteps ==
  ASSUME Together!Next
  PROVE  \E q \in {q1, q2} : RunStep(q) \/ BeginStep(q, 4)
<1>1. PICK q \in {q1, q2} :
        \/ Together!BeginRequest(q) \/ Together!LoadRun(q) \/ Together!Compile(q) \/ Together!Pipeline(q)
        \/ Together!Verify(q) \/ Together!CheckPublishGate(q) \/ Together!Approve(q)
        \/ Together!RequestChanges(q) \/ Together!AllowPublish(q) \/ Together!PushToSite(q)
        \/ Together!CommitPublish(q) \/ Together!Abort(q)
  BY DEF Together!Next
<1> USE DEF Together!Loaded, Loaded, Together!Done, Done, Together!Idle, Idle, Together!fixed, fixed,
            Together!Save, Save, Together!Changed, Changed
<1>2. CASE Together!BeginRequest(q)
  BY <1>2 DEF Together!BeginRequest, BeginStep, Together!Ops, Ops
<1>3. Together!LoadRun(q) => LoadRun(q)
  BY DEF Together!LoadRun, LoadRun
<1>4. Together!Compile(q) => Compile(q)
  BY DEF Together!Compile, Compile
<1>5. Together!Pipeline(q) => Pipeline(q)
  BY DEF Together!Pipeline, Pipeline, Together!ClaimGate, ClaimGate, Together!Verdict, Verdict,
         Together!ClaimStatus, ClaimStatus
<1>6. Together!Verify(q) => Verify(q)
  BY DEF Together!Verify, Verify, Together!ClaimGate, ClaimGate, Together!Verdict, Verdict,
         Together!ClaimStatus, ClaimStatus
<1>7. Together!CheckPublishGate(q) => CheckPublishGate(q)
  BY DEF Together!CheckPublishGate, CheckPublishGate, Together!Readiness, Readiness,
         Together!LatestClaimPassed, LatestClaimPassed, Together!HumanReview, HumanReview
<1>8. Together!Approve(q) => Approve(q)
  BY DEF Together!Approve, Approve
<1>9. Together!RequestChanges(q) => RequestChanges(q)
  BY DEF Together!RequestChanges, RequestChanges
<1>10. Together!AllowPublish(q) => AllowPublish(q)
  BY DEF Together!AllowPublish, AllowPublish, Together!LiveUpdate, LiveUpdate,
         Together!AssertPublishAllowed, AssertPublishAllowed
<1>11. Together!PushToSite(q) => PushToSite(q)
  BY DEF Together!PushToSite, PushToSite, Together!Posts, Posts
<1>12. Together!CommitPublish(q) => CommitPublish(q)
  BY DEF Together!CommitPublish, CommitPublish
<1>13. Together!Abort(q) => Abort(q)
  BY DEF Together!Abort, Abort
<1> QED
  BY <1>1, <1>2, <1>3, <1>4, <1>5, <1>6, <1>7, <1>8, <1>9, <1>10, <1>11, <1>12, <1>13 DEF RunStep

----------------------------------------------------------------------------
(* The types, for requests R of which n may begin, and levels L.           *)
Typed(R, n, L) ==
    /\ row \in Row
    /\ claimGates \subseteq [status : {"passed", "blocked", "stale"}, draft : Text, at : 0 .. n]
    /\ publishGates \subseteq [status : {"passed", "needs_review", "blocked"}, draft : Text, at : 0 .. n]
    /\ req \in [R -> [pc : ReqPc, op : Ops, seen : Row, at : 0 .. n]]
    /\ clock \in 0 .. n
    /\ site \in [posts : Nat, draft : Text]
    /\ level \in L
    /\ provider \in Providers
    /\ approvedDraft \in Text

(* What the flush of a request leaves in the row.                          *)
LEMMA SaveTyped ==
  ASSUME NEW R, NEW n \in Nat, NEW L, Typed(R, n, L), NEW q \in R,
         NEW s \in Status, NEW d \in Text, Save(q, s, d)
  PROVE  row' \in Row
BY DEF Typed, Save, Changed, Row

LEMMA DoneTyped ==
  ASSUME NEW R, NEW n \in Nat, NEW L, Typed(R, n, L), NEW q \in R, Done(q)
  PROVE  req' \in [R -> [pc : ReqPc, op : Ops, seen : Row, at : 0 .. n]]
BY DEF Typed, Done, Idle, ReqPc, Ops, Row, Status, Text

LEMMA TypedStep ==
  ASSUME NEW R, NEW n \in Nat, NEW L, Typed(R, n, L),
         NEW q \in R, RunStep(q) \/ BeginStep(q, n)
  PROVE  Typed(R, n, L)'
<1>1. req[q] \in [pc : ReqPc, op : Ops, seen : Row, at : 0 .. n] /\ req[q].seen.draft \in Text
      /\ req[q].seen.status \in Status
  BY DEF Typed, Row
<1>2. \A d \in Text : /\ ClaimGate(q, d) \in [status : {"passed", "blocked", "stale"}, draft : Text, at : 0 .. n]
                      /\ ClaimStatus(d) \in Status
  BY <1>1 DEF ClaimGate, ClaimStatus, Verdict, Status
<1>3. Drafts \subseteq Text
  BY DEF Text
<1>4. {"draft", "approved", "needs_changes", "published"} \subseteq Status
  BY DEF Status
<1>5. CASE BeginStep(q, n)
  <2>1. clock' \in 0 .. n
    <3>1. clock \in 0 .. n
      BY DEF Typed
    <3>2. clock < n /\ clock' = clock + 1
      BY <1>5 DEF BeginStep
    <3> QED
      BY <3>1, <3>2
  <2>2. ASSUME NEW op \in Ops
        PROVE  [Idle EXCEPT !.pc = "begun", !.op = op, !.at = clock']
                  \in [pc : ReqPc, op : Ops, seen : Row, at : 0 .. n]
    <3>1. [status |-> "queued", draft |-> NoDraft] \in Row
      BY DEF Row, Status, Text
    <3> QED
      BY <2>1, <2>2, <3>1 DEF Idle, ReqPc
  <2>3. req' \in [R -> [pc : ReqPc, op : Ops, seen : Row, at : 0 .. n]]
    BY <1>5, <2>2 DEF BeginStep, Typed
  <2> QED
    BY <1>5, <2>1, <2>3 DEF BeginStep, Typed, fixed
<1>6. CASE LoadRun(q)
  BY <1>6 DEF LoadRun, Typed, ReqPc, fixed
<1>7. CASE Compile(q)
  <2>1. row' \in Row /\ req' \in [R -> [pc : ReqPc, op : Ops, seen : Row, at : 0 .. n]]
    BY <1>3, <1>4, <1>7, SaveTyped, DoneTyped DEF Compile
  <2>2. claimGates' \subseteq [status : {"passed", "blocked", "stale"}, draft : Text, at : 0 .. n]
    BY <1>7 DEF Compile, Typed
  <2> QED
    BY <1>7, <2>1, <2>2 DEF Compile, Typed, fixed
<1>8. CASE Pipeline(q)
  BY <1>2, <1>3, <1>8, SaveTyped, DoneTyped DEF Pipeline, Typed, fixed
<1>9. CASE Verify(q)
  BY <1>1, <1>2, <1>9, SaveTyped, DoneTyped DEF Verify, Typed, fixed
<1>10. CASE CheckPublishGate(q)
  <2> DEFINE verdict == Readiness(req[q].seen)
             status  == CASE verdict = "passed"       -> "publish_ready"
                          [] verdict = "needs_review" -> "needs_review"
                          [] verdict = "blocked"      -> req[q].seen.status
  <2>1. verdict \in {"passed", "needs_review", "blocked"}
    BY DEF Readiness
  <2>2. status \in Status
    BY <1>1, <2>1 DEF Status
  <2>3. /\ Save(q, status, req[q].seen.draft) /\ Done(q)
        /\ publishGates' = publishGates \cup {[status |-> verdict, draft |-> req[q].seen.draft, at |-> req[q].at]}
        /\ UNCHANGED <<claimGates, clock, site, fixed, approvedDraft>>
    BY <1>10 DEF CheckPublishGate
  <2> HIDE DEF verdict, status
  <2>4. /\ row' \in Row
        /\ req' \in [R -> [pc : ReqPc, op : Ops, seen : Row, at : 0 .. n]]
    BY <1>1, <2>2, <2>3, SaveTyped, DoneTyped
  <2>5. [status |-> verdict, draft |-> req[q].seen.draft, at |-> req[q].at]
          \in [status : {"passed", "needs_review", "blocked"}, draft : Text, at : 0 .. n]
    BY <1>1, <2>1
  <2> QED
    BY <2>3, <2>4, <2>5 DEF Typed, fixed
<1>11. CASE Approve(q)
  BY <1>1, <1>4, <1>11, SaveTyped, DoneTyped DEF Approve, Typed, fixed
<1>12. CASE RequestChanges(q)
  BY <1>1, <1>4, <1>12, SaveTyped, DoneTyped DEF RequestChanges, Typed, fixed
<1>13. CASE AllowPublish(q)
  BY <1>13 DEF AllowPublish, Typed, ReqPc, fixed
<1>14. CASE PushToSite(q)
  BY <1>1, <1>14 DEF PushToSite, Posts, Typed, ReqPc, fixed
<1>15. CASE CommitPublish(q)
  BY <1>1, <1>4, <1>15, SaveTyped, DoneTyped DEF CommitPublish, Typed, fixed
<1>16. CASE Abort(q)
  BY <1>16, DoneTyped DEF Abort, Typed, fixed
<1> QED
  BY <1>5, <1>6, <1>7, <1>8, <1>9, <1>10, <1>11, <1>12, <1>13, <1>14, <1>15, <1>16 DEF RunStep

(* What the two instances are typed with.                                  *)
LEMMA TypesOfInstances ==
  /\ TypeOK <=> Typed(Requests, MaxRequests, Levels)
  /\ TypeOK' <=> Typed(Requests, MaxRequests, Levels)'
  /\ Together!TypeOK <=> Typed({q1, q2}, 4, {"auto_with_gate", "editor_review"})
  /\ Together!TypeOK' <=> Typed({q1, q2}, 4, {"auto_with_gate", "editor_review"})'
BY DEF TypeOK, Together!TypeOK, Typed, Times, Together!Times, Row, Together!Row, Text, Together!Text,
       Status, Together!Status, ReqPc, Together!ReqPc, Ops, Together!Ops

LEMMA TypedInit ==
  /\ Init => Typed(Requests, MaxRequests, Levels)
  /\ Together!Init => Typed({q1, q2}, 4, {"auto_with_gate", "editor_review"})
BY ContentRunAssumption DEF Init, Together!Init, Typed, Idle, Together!Idle, ReqPc, Ops, Row, Status, Text

(* Rows, gates and requests keep the shapes the code gives them.           *)
THEOREM ContentTypeCorrect == ContentSpec => []ContentTypeOK
<1>1. ContentInit => ContentTypeOK
  BY TypedInit, TypesOfInstances DEF ContentInit, ContentTypeOK
<1>2. ASSUME ContentTypeOK, [ContentNext]_<<part, vars>> PROVE ContentTypeOK'
  <2>1. CASE UNCHANGED <<part, vars>>
    BY <1>2, <2>1, TypesOfInstances DEF ContentTypeOK, vars, Typed
  <2>2. CASE ContentNext /\ part = "alone"
    <3>1. Typed(Requests, MaxRequests, Levels)'
      BY <1>2, <2>2, TypesOfInstances, TypedStep, AloneSteps, ContentRunAssumption
      DEF ContentNext, ContentTypeOK
    <3> QED
      BY <2>2, <3>1, TypesOfInstances DEF ContentNext, ContentTypeOK
  <2>3. CASE ContentNext /\ part # "alone"
    <3>1. Typed({q1, q2}, 4, {"auto_with_gate", "editor_review"})'
      BY <1>2, <2>3, TypesOfInstances, TypedStep, TogetherSteps DEF ContentNext, ContentTypeOK
    <3> QED
      BY <2>3, <3>1, TypesOfInstances DEF ContentNext, ContentTypeOK
  <2> QED
    BY <1>2, <2>1, <2>2, <2>3
<1> QED
  BY <1>1, <1>2, PTL DEF ContentSpec

----------------------------------------------------------------------------
(* What "nothing goes out without a gate" rests on, for requests R: a      *)
(* request that may publish has seen a passed gate, one that has published *)
(* has left a post, and one that loaded a published run loads one with a   *)
(* post. Gates and posts only grow.                                        *)
GateHeld(R) ==
    /\ DOMAIN req = R
    /\ site.posts \in Nat
    /\ \A g \in publishGates : g.status = "passed" => g.draft \in Compliant
    /\ site.posts > 0 => \E g \in publishGates : g.status = "passed"
    /\ row.status = "published" => site.posts > 0
    /\ \A q \in R :
         /\ req[q].pc \in Working /\ req[q].seen.status = "published" => site.posts > 0
         /\ req[q].pc \in {"allowed", "pushed"} => \E g \in publishGates : g.status = "passed"
         /\ req[q].pc = "pushed" => site.posts > 0

LEMMA GateHeldInit ==
  /\ Init => GateHeld(Requests)
  /\ Together!Init => GateHeld({q1, q2})
BY DEF Init, Together!Init, GateHeld, Idle, Together!Idle, Working

LEMMA GateHeldStep ==
  ASSUME NEW R, GateHeld(R), NEW n, NEW q \in R, RunStep(q) \/ BeginStep(q, n)
  PROVE  GateHeld(R)'
<1> USE DEF GateHeld, Working
<1>1. CASE BeginStep(q, n)
  BY <1>1 DEF BeginStep, Idle
<1>2. CASE LoadRun(q)
  BY <1>2 DEF LoadRun
<1>3. CASE Compile(q) \/ Pipeline(q) \/ Verify(q) \/ Approve(q) \/ RequestChanges(q)
  BY <1>3 DEF Compile, Pipeline, Verify, Approve, RequestChanges, Loaded, Done, Idle, Save, Changed, ClaimStatus
<1>4. CASE CheckPublishGate(q)
  BY <1>4 DEF CheckPublishGate, Loaded, Done, Idle, Save, Changed, Readiness
<1>5. CASE AllowPublish(q)
  BY <1>5 DEF AllowPublish, Loaded, LiveUpdate, AssertPublishAllowed
<1>6. CASE PushToSite(q)
  BY <1>6 DEF PushToSite, Posts
<1>7. CASE CommitPublish(q)
  BY <1>7 DEF CommitPublish, Done, Idle, Save, Changed
<1>8. CASE Abort(q)
  BY <1>8 DEF Abort, Done, Idle
<1> QED
  BY <1>1, <1>2, <1>3, <1>4, <1>5, <1>6, <1>7, <1>8 DEF RunStep

(* ... in both instances.                                                  *)
GateHeldBoth == IF part = "alone" THEN GateHeld(Requests) ELSE GateHeld({q1, q2})

LEMMA GateHeldAlways == ContentSpec => []GateHeldBoth
<1>1. ContentInit => GateHeldBoth
  BY GateHeldInit DEF ContentInit, GateHeldBoth
<1>2. ASSUME GateHeldBoth, [ContentNext]_<<part, vars>> PROVE GateHeldBoth'
  <2>1. CASE UNCHANGED <<part, vars>>
    BY <1>2, <2>1 DEF GateHeldBoth, vars, GateHeld
  <2>2. CASE ContentNext /\ part = "alone"
    <3>1. GateHeld(Requests)'
      BY <1>2, <2>2, GateHeldStep, AloneSteps DEF ContentNext, GateHeldBoth
    <3> QED
      BY <2>2, <3>1 DEF ContentNext, GateHeldBoth
  <2>3. CASE ContentNext /\ part # "alone"
    <3>1. GateHeld({q1, q2})'
      BY <1>2, <2>3, GateHeldStep, TogetherSteps DEF ContentNext, GateHeldBoth
    <3> QED
      BY <2>3, <3>1 DEF ContentNext, GateHeldBoth
  <2> QED
    BY <1>2, <2>1, <2>2, <2>3
<1> QED
  BY <1>1, <1>2, PTL DEF ContentSpec

----------------------------------------------------------------------------
(* Requests one after the other: an open request still sees the run as it  *)
(* is, is younger than every claim gate, and may publish only with reason; *)
(* the newest claim gate, if passed, is about the present text; ContentFlow *)
(* has one post at most. On top of it, what the run promises.              *)
Current ==
    /\ \A q \in Requests :
         /\ req[q].pc \in Working => req[q].seen = row
         /\ req[q].pc # "idle" => /\ req[q].at <= clock
                                  /\ \A g \in claimGates : g.at < req[q].at
         /\ req[q].pc \in {"allowed", "pushed"} =>
              \/ row.status \in {"approved", "publish_ready"}
              \/ provider = "contentflow" /\ row.status = "published"
         /\ req[q].pc = "pushed" => site.posts > 0 /\ site.draft = row.draft
    /\ \A g \in claimGates : g.at <= clock
    /\ provider = "contentflow" => site.posts <= 1

ClaimsAreCurrent ==
    \A g \in claimGates :
        (g.status = "passed" /\ \A h \in claimGates : h.at <= g.at) =>
            g.draft = row.draft /\ g.draft \in Supported \cup {NoDraft}

AloneInv ==
    /\ Typed(Requests, MaxRequests, Levels) /\ Current /\ ClaimsAreCurrent
    /\ ReadyIsVerified /\ ApprovalIsCurrent /\ PostShowsTheRun

(* The flush of a request that still sees the run as it is sets both       *)
(* columns.                                                                *)
LEMMA SaveAlone ==
  ASSUME AloneInv, NEW q \in Requests, req[q].pc \in Working, NEW s, NEW d, Save(q, s, d)
  PROVE  row' = [status |-> s, draft |-> d]
<1>1. req[q].seen = row
  BY DEF AloneInv, Current
<1> QED
  BY <1>1 DEF Save, Changed

(* When a request ends no other is open.                                   *)
LEMMA DoneAlone ==
  ASSUME OneAtATime, AloneInv, NEW q \in Requests, Done(q)
  PROVE  \A r \in Requests : req'[r] = Idle
BY DEF OneAtATime, AloneInv, Typed, Done

(* Every step of a request that is alone keeps all of it.                  *)
LEMMA AloneStep ==
  ASSUME OneAtATime, AloneInv, NEW q \in Requests, RunStep(q) \/ BeginStep(q, MaxRequests)
  PROVE  AloneInv'
<1>1. Typed(Requests, MaxRequests, Levels)'
  BY TypedStep, ContentRunAssumption DEF AloneInv
<1>2. \A r \in Requests : r = q
  BY DEF OneAtATime
<1>3. /\ row \in Row /\ clock \in Nat /\ site.posts \in Nat /\ req[q].at \in Nat
      /\ \A g \in claimGates : g.at \in Nat
      /\ clock' \in Nat
      /\ DOMAIN req = Requests
  BY <1>1, ContentRunAssumption DEF AloneInv, Typed
<1>4. Compliant \subseteq Drafts /\ NoDraft \notin Drafts
  BY ContentRunAssumption
<1> DEFINE Rest == Current /\ ClaimsAreCurrent /\ ReadyIsVerified /\ ApprovalIsCurrent /\ PostShowsTheRun
<1>5. Rest
  BY DEF AloneInv
<1>6. CASE BeginStep(q, MaxRequests)
  <2>1. /\ req'[q].pc = "begun" /\ req'[q].at = clock + 1 /\ clock' = clock + 1
        /\ UNCHANGED <<row, claimGates, publishGates, site, level, provider, approvedDraft>>
    BY <1>3, <1>6 DEF BeginStep, Idle, fixed
  <2>2. Current'
    BY <1>2, <1>3, <1>5, <2>1 DEF Current, Working
  <2> QED
    BY <1>1, <1>5, <2>1, <2>2
    DEF AloneInv, ClaimsAreCurrent, ReadyIsVerified, ApprovalIsCurrent, PostShowsTheRun, HumanReview
<1>7. CASE LoadRun(q)
  <2>1. /\ req[q].pc = "begun" /\ req'[q].pc = "loaded" /\ req'[q].seen = row /\ req'[q].at = req[q].at
        /\ UNCHANGED <<row, claimGates, publishGates, clock, site, level, provider, approvedDraft>>
    BY <1>1, <1>3, <1>7 DEF LoadRun, fixed, AloneInv, Typed
  <2>2. Current'
    BY <1>2, <1>5, <2>1 DEF Current, Working
  <2> QED
    BY <1>1, <1>5, <2>1, <2>2
    DEF AloneInv, ClaimsAreCurrent, ReadyIsVerified, ApprovalIsCurrent, PostShowsTheRun, HumanReview
<1>8. CASE Compile(q)
  <2>1. req'[q] = Idle
    BY <1>8, DoneAlone DEF Compile
  <2>2. PICK d \in Drafts : row' = [status |-> "draft", draft |-> d]
    BY <1>8, SaveAlone DEF Compile, Loaded, Working
  <2>3. /\ claimGates' = {[g EXCEPT !.status = IF @ = "passed" THEN "stale" ELSE @] : g \in claimGates}
        /\ UNCHANGED <<publishGates, clock, site, level, provider, approvedDraft>>
    BY <1>8 DEF Compile, fixed
  <2>4. \A g \in claimGates' : g.status # "passed" /\ \E h \in claimGates : h.at = g.at
    <3>1. \A h \in claimGates : h \in [status : {"passed", "blocked", "stale"}, draft : Text, at : 0 .. MaxRequests]
      BY DEF AloneInv, Typed
    <3> QED
      BY <2>3, <3>1
  <2>5. Current'
    BY <1>2, <1>5, <2>1, <2>2, <2>3, <2>4 DEF Current, Working, Idle
  <2> QED
    BY <1>1, <2>2, <2>4, <2>5
    DEF AloneInv, ClaimsAreCurrent, ReadyIsVerified, ApprovalIsCurrent, PostShowsTheRun
<1>9. CASE Pipeline(q) \/ Verify(q)
  <2>1. req'[q] = Idle /\ req[q].pc \in Working /\ req[q].seen = row
    BY <1>5, <1>9, DoneAlone DEF Pipeline, Verify, Loaded, Working, Current
  <2>2. PICK d \in Text : /\ row' = [status |-> ClaimStatus(d), draft |-> d]
                          /\ claimGates' = claimGates \cup {ClaimGate(q, d)}
    <3>1. CASE Pipeline(q)
      BY <2>1, <3>1, SaveAlone DEF Pipeline, Text
    <3>2. CASE Verify(q)
      <4>1. row.draft \in Text
        BY <1>3 DEF Row
      <4> QED
        BY <2>1, <3>2, <4>1, SaveAlone DEF Verify
    <3> QED
      BY <1>9, <3>1, <3>2
  <2>3. UNCHANGED <<publishGates, clock, site, level, provider, approvedDraft>>
    BY <1>9 DEF Pipeline, Verify, fixed
  <2>4. /\ ClaimStatus(d) \in {"claim_verified", "claim_blocked"}
        /\ ClaimGate(q, d).at = req[q].at /\ ClaimGate(q, d).draft = d
        /\ ClaimGate(q, d).status = "passed" => d \in Supported \cup {NoDraft}
    BY DEF ClaimStatus, ClaimGate, Verdict
  <2>5. req[q].at <= clock /\ \A g \in claimGates : g.at < req[q].at
    BY <1>5, <2>1 DEF Current, Working
  <2>6. Current'
    BY <1>2, <1>3, <1>5, <2>1, <2>2, <2>3, <2>4, <2>5 DEF Current, Working, Idle
  <2>7. ClaimsAreCurrent'
    <3> SUFFICES ASSUME NEW g \in claimGates', g.status = "passed", \A h \in claimGates' : h.at <= g.at
                 PROVE  g.draft = d /\ g.draft \in Supported \cup {NoDraft}
      BY <2>2 DEF ClaimsAreCurrent
    <3>1. ClaimGate(q, d).at <= g.at
      BY <2>2
    <3>2. g \notin claimGates
      BY <1>3, <2>4, <2>5, <3>1
    <3> QED
      BY <2>2, <2>4, <3>2
  <2> QED
    BY <1>1, <2>2, <2>4, <2>6, <2>7 DEF AloneInv, ReadyIsVerified, ApprovalIsCurrent, PostShowsTheRun
<1>10. CASE CheckPublishGate(q)
  <2> DEFINE verdict == Readiness(req[q].seen)
             status  == CASE verdict = "passed"       -> "publish_ready"
                          [] verdict = "needs_review" -> "needs_review"
                          [] verdict = "blocked"      -> req[q].seen.status
  <2>1. req'[q] = Idle /\ req[q].pc \in Working /\ req[q].seen = row
    BY <1>5, <1>10, DoneAlone DEF CheckPublishGate, Loaded, Working, Current
  <2>2. row' = [status |-> status, draft |-> row.draft]
    <3>1. Save(q, status, row.draft)
      BY <1>10, <2>1 DEF CheckPublishGate
    <3> HIDE DEF status
    <3> QED
      BY <2>1, <3>1, SaveAlone
  <2>3. UNCHANGED <<claimGates, clock, site, level, provider, approvedDraft>>
    BY <1>10 DEF CheckPublishGate, fixed
  <2>4. \/ status = "publish_ready" /\ verdict = "passed"
        \/ status = "needs_review"
        \/ status = row.status
    BY <2>1 DEF Readiness
  <2>5. verdict = "passed" => /\ row.draft \in Compliant /\ LatestClaimPassed
                              /\ HumanReview(level) => row.status = "approved"
    BY <2>1 DEF Readiness
  <2> HIDE DEF status, verdict
  <2>6. LatestClaimPassed => row.draft \in Supported \cup {NoDraft}
    BY <1>5 DEF LatestClaimPassed, ClaimsAreCurrent
  <2>7. Current' /\ ClaimsAreCurrent'
    BY <1>2, <1>5, <2>1, <2>2, <2>3 DEF Current, ClaimsAreCurrent, Working, Idle
  <2>8. ReadyIsVerified'
    BY <1>4, <1>5, <2>2, <2>4, <2>5, <2>6 DEF ReadyIsVerified
  <2>9. ApprovalIsCurrent'
    BY <1>5, <2>2, <2>3, <2>4, <2>5 DEF ApprovalIsCurrent, HumanReview
  <2>10. PostShowsTheRun'
    BY <1>5, <2>2, <2>3, <2>4 DEF PostShowsTheRun
  <2> QED
    BY <1>1, <2>7, <2>8, <2>9, <2>10 DEF AloneInv
<1>11. CASE Approve(q)
  <2>1. req'[q] = Idle /\ req[q].pc \in Working /\ req[q].seen = row
    BY <1>5, <1>11, DoneAlone DEF Approve, Loaded, Working, Current
  <2>2. /\ row' = [status |-> "approved", draft |-> row.draft] /\ approvedDraft' = row.draft
        /\ UNCHANGED <<claimGates, publishGates, clock, site, level, provider>>
    BY <1>11, <2>1, SaveAlone DEF Approve, fixed
  <2> QED
    BY <1>1, <1>2, <1>5, <2>1, <2>2
    DEF AloneInv, Current, ClaimsAreCurrent, ReadyIsVerified, ApprovalIsCurrent, PostShowsTheRun, Working, Idle
<1>12. CASE RequestChanges(q)
  <2>1. req'[q] = Idle /\ req[q].pc \in Working /\ req[q].seen = row
    BY <1>5, <1>12, DoneAlone DEF RequestChanges, Loaded, Working, Current
  <2>2. /\ row' = [status |-> "needs_changes", draft |-> row.draft]
        /\ UNCHANGED <<claimGates, publishGates, clock, site, level, provider>>
    BY <1>12, <2>1, SaveAlone DEF RequestChanges, fixed
  <2> QED
    BY <1>1, <1>2, <1>5, <2>1, <2>2
    DEF AloneInv, Current, ClaimsAreCurrent, ReadyIsVerified, ApprovalIsCurrent, PostShowsTheRun, Working, Idle
<1>13. CASE AllowPublish(q)
  <2>1. /\ req[q].pc = "loaded" /\ req[q].seen = row
        /\ \/ row.status \in {"approved", "publish_ready"}
           \/ provider = "contentflow" /\ row.status = "published"
    BY <1>5, <1>13 DEF AllowPublish, Loaded, LiveUpdate, AssertPublishAllowed, Current, Working
  <2>2. /\ req'[q].pc = "allowed" /\ req'[q].seen = row /\ req'[q].at = req[q].at
        /\ UNCHANGED <<row, claimGates, publishGates, clock, site, level, provider, approvedDraft>>
    BY <1>3, <1>13, <2>1 DEF AllowPublish, fixed, AloneInv, Typed
  <2> QED
    BY <1>1, <1>2, <1>5, <2>1, <2>2
    DEF AloneInv, Current, ClaimsAreCurrent, ReadyIsVerified, ApprovalIsCurrent, PostShowsTheRun, Working,
        HumanReview
<1>14. CASE PushToSite(q)
  <2>1. /\ req[q].pc = "allowed" /\ req[q].seen = row
        /\ req'[q].pc = "pushed" /\ req'[q].seen = row /\ req'[q].at = req[q].at
        /\ UNCHANGED <<row, claimGates, publishGates, clock, level, provider, approvedDraft>>
        /\ site' = [posts |-> Posts, draft |-> row.draft]
    BY <1>3, <1>5, <1>14 DEF PushToSite, fixed, AloneInv, Typed, Current, Working
  <2>2. Posts \in Nat /\ Posts > 0 /\ (provider = "contentflow" => Posts = 1)
    BY <1>3 DEF Posts
  <2> QED
    BY <1>1, <1>2, <1>5, <2>1, <2>2
    DEF AloneInv, Current, ClaimsAreCurrent, ReadyIsVerified, ApprovalIsCurrent, PostShowsTheRun, Working,
        HumanReview
<1>15. CASE CommitPublish(q)
  <2>1. req'[q] = Idle /\ req[q].pc = "pushed" /\ req[q].seen = row
    BY <1>5, <1>15, DoneAlone DEF CommitPublish, Working, Current
  <2>2. /\ row' = [status |-> "published", draft |-> row.draft]
        /\ UNCHANGED <<claimGates, publishGates, clock, site, level, provider, approvedDraft>>
    BY <1>15, <2>1, SaveAlone DEF CommitPublish, fixed, Working
  <2> QED
    BY <1>1, <1>2, <1>5, <2>1, <2>2
    DEF AloneInv, Current, ClaimsAreCurrent, ReadyIsVerified, ApprovalIsCurrent, PostShowsTheRun, Working, Idle
<1>16. CASE Abort(q)
  <2>1. /\ req'[q] = Idle
        /\ UNCHANGED <<row, claimGates, publishGates, clock, site, level, provider, approvedDraft>>
    BY <1>16, DoneAlone DEF Abort, fixed
  <2> QED
    BY <1>1, <1>2, <1>5, <2>1
    DEF AloneInv, Current, ClaimsAreCurrent, ReadyIsVerified, ApprovalIsCurrent, PostShowsTheRun, Working,
        HumanReview, Idle
<1> QED
  BY <1>6, <1>7, <1>8, <1>9, <1>10, <1>11, <1>12, <1>13, <1>14, <1>15, <1>16 DEF RunStep

LEMMA AloneInvInit == Init => AloneInv
BY TypedInit, ContentRunAssumption
DEF Init, AloneInv, Current, ClaimsAreCurrent, ReadyIsVerified, ApprovalIsCurrent, PostShowsTheRun, Idle, Working

LEMMA AloneAlways == ASSUME OneAtATime PROVE ContentSpec => [](part = "alone" => AloneInv)
<1>1. ContentInit => (part = "alone" => AloneInv)
  BY AloneInvInit DEF ContentInit
<1>2. ASSUME part = "alone" => AloneInv, [ContentNext]_<<part, vars>>
      PROVE  (part = "alone" => AloneInv)'
  <2>1. CASE UNCHANGED <<part, vars>>
    BY <1>2, <2>1
    DEF vars, AloneInv, Typed, Current, ClaimsAreCurrent, ReadyIsVerified, ApprovalIsCurrent, PostShowsTheRun,
        HumanReview
  <2>2. CASE ContentNext
    BY <1>2, <2>2, AloneSteps, AloneStep DEF ContentNext
  <2> QED
    BY <1>2, <2>1, <2>2
<1> QED
  BY <1>1, <1>2, PTL DEF ContentSpec

(* Requests one after the other, of any number, over any texts: what is    *)
(* ready to publish was verified, what is approved was approved as it is,  *)
(* and the post of a published run shows its text.                         *)
THEOREM StatusAlwaysFollows == ASSUME OneAtATime PROVE ContentSpec => []StatusFollowsText
<1>1. (part = "alone" => AloneInv) => StatusFollowsText
  BY DEF AloneInv, StatusFollowsText
<1> QED
  BY <1>1, AloneAlways, PTL

(* A text that goes to the site was verified or approved, or is there.     *)
LEMMA PushesAreVetted ==
  ASSUME AloneInv, Next
  PROVE  PushIsVetted
<1>1. PICK q \in Requests : RunStep(q) \/ BeginStep(q, MaxRequests)
  BY AloneSteps
<1>2. CASE PushToSite(q)
  <2>1. /\ req[q].pc = "allowed" /\ req[q].seen = row
        /\ site' = [posts |-> Posts, draft |-> row.draft]
        /\ approvedDraft' = approvedDraft
        /\ \/ row.status \in {"approved", "publish_ready"}
           \/ provider = "contentflow" /\ row.status = "published"
    BY <1>2 DEF PushToSite, AloneInv, Current, Working
  <2>2. CASE row.status \in {"approved", "publish_ready"}
    BY <2>1, <2>2 DEF AloneInv, ReadyIsVerified, ApprovalIsCurrent, PushIsVetted
  <2>3. CASE provider = "contentflow" /\ row.status = "published"
    <3>1. /\ site.posts = 1 /\ site.draft = row.draft /\ Posts = 1
          /\ site \in [posts : Nat, draft : Text]
      BY <2>3 DEF AloneInv, Typed, Current, PostShowsTheRun, Posts
    <3>2. site' = site
      BY <2>1, <3>1
    <3> QED
      BY <3>2 DEF PushIsVetted
  <2> QED
    BY <2>1, <2>2, <2>3
<1>3. CASE ~PushToSite(q)
  BY <1>1, <1>3
  DEF RunStep, BeginStep, LoadRun, Compile, Pipeline, Verify, CheckPublishGate, Approve, RequestChanges,
      AllowPublish, CommitPublish, Abort, PushIsVetted
<1> QED
  BY <1>2, <1>3

(* However requests overlap, nothing is on the site before a publish gate  *)
(* has passed for the run; and one after the other, no text is pushed that *)
(* was neither verified nor approved.                                      *)
THEOREM NothingEverSlipsOut == ASSUME OneAtATime PROVE ContentSpec => NothingSlipsOut
<1>1. GateHeldBoth => PublishedAfterGate
  BY DEF GateHeldBoth, GateHeld, PublishedAfterGate
<1>2. ASSUME part = "alone" => AloneInv, [ContentNext]_<<part, vars>>,
             PublishedAfterGate'
      PROVE  [PublishedAfterGate' /\ (part = "alone" => PushIsVetted)]_<<part, vars>>
  BY <1>2, PushesAreVetted DEF ContentNext
<1> QED
  BY <1>1, <1>2, GateHeldAlways, AloneAlways, PTL DEF ContentSpec, NothingSlipsOut
=============================================================================
