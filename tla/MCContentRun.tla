---------------------------- MODULE MCContentRun ----------------------------
(* Instances of ContentRun for TLC: one text that is fine, one whose claims *)
(* lack sources, one that breaks the policy. The run is taken twice: with   *)
(* the requests for it one after the other ("alone"), and with two of them  *)
(* at once ("together").                                                    *)
EXTENDS ContentRun, TLC

CONSTANTS q1, q2, dGood, dUnsupported, dForbidden

VARIABLE part

MCDrafts    == {dGood, dUnsupported, dForbidden}
MCSupported == {dGood, dForbidden}
MCCompliant == {dGood, dUnsupported}
Symmetries  == Permutations({q1, q2})

Together == INSTANCE ContentRun WITH Requests <- {q1, q2}, MaxRequests <- 4,
                                     Levels <- {"auto_with_gate", "editor_review"}

ContentInit ==
    /\ part \in {"alone", "together"}
    /\ IF part = "alone" THEN Init ELSE Together!Init

ContentNext ==
    /\ UNCHANGED part
    /\ IF part = "alone" THEN Next ELSE Together!Next

ContentSpec == ContentInit /\ [][ContentNext]_<<part, vars>>

(* Rows, gates and requests keep the shapes the code gives them.           *)
ContentTypeOK == IF part = "alone" THEN TypeOK ELSE Together!TypeOK

(* Requests for a run one after the other: what is ready to publish, what  *)
(* is approved and what is published keep up with the text.                *)
StatusFollowsText == part = "alone" => ReadyIsVerified /\ ApprovalIsCurrent /\ PostShowsTheRun

(* However requests overlap nothing goes out before a publish gate passed, *)
(* and one after the other only a text that was verified or approved       *)
(* (content/service.py:364).                                               *)
NothingSlipsOut == [][PublishedAfterGate' /\ (part = "alone" => PushIsVetted)]_<<part, vars>>

(* ... but is it one that a publish gate passed?                           *)
TextPassedGate == part = "alone" => PushedTextPassedGate
=============================================================================
