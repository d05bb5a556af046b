---------------------------- MODULE Notifications ----------------------------
(***************************************************************************)
(* In-app notifications of one workspace: whoever has news creates one,    *)
(* unless one of its kind is recent enough (notifications/service.py).     *)
(* The news is part of the transaction of a job or a request; news of a    *)
(* full quota has a transaction of its own (billing/quota.py).             *)
(***************************************************************************)
EXTENDS Naturals, FiniteSets

CONSTANTS
    Notifiers,    \* transactions with news that can be open at once
    Subjects,     \* providers, metrics, reports, candidates the news is about
    DedupeHours,  \* by type; 6 for sync_failure, 48 for approval_required, else 24
    MaxHours,     \* bound: hours in a behaviour
    MaxNews       \* bound: pieces of news

NewsTypes == {"sync_failure", "approval_required", "quota_warning", "report_ready"}

ASSUME NotificationsAssumption ==
    /\ IsFiniteSet(Notifiers)
    /\ \E T \in SUBSET NewsTypes : DedupeHours \in [T -> Nat]
    /\ MaxHours \in Nat /\ MaxNews \in Nat

VARIABLES
    hour,
    notes,     \* committed notifications: at is created_at, and, a history, when their like was looked for
    news,      \* committed news: what a job or request wanted to tell, and when
    notifier,  \* the open transactions
    told       \* pieces of news so far

noticeVars == <<hour, notes, news, notifier, told>>

Types   == DOMAIN DedupeHours
Hours   == 0 .. MaxHours
Content == [type : Types, subject : Subjects]
Silent  == [pc |-> "silent"]

NotificationsTypeOK ==
    /\ hour \in Hours /\ told \in 0 .. MaxNews
    /\ notes \subseteq [id : 1 .. MaxNews, what : Content, at : Hours, looked : Hours,
                       status : {"unread", "read"}]
    /\ news \subseteq [what : Content, at : Hours]
    /\ notifier \in [Notifiers -> {Silent} \cup [pc : {"begun"}, at : Hours] \cup
         [pc : {"known", "new"}, what : Content, at : Hours, looked : Hours, id : 1 .. MaxNews]]

NotificationsInit ==
    /\ hour = 0 /\ told = 0
    /\ notes = {} /\ news = {}
    /\ notifier = [n \in Notifiers |-> Silent]

----------------------------------------------------------------------------
HourPasses ==
    /\ hour < MaxHours /\ hour' = hour + 1
    /\ UNCHANGED <<notes, news, notifier, told>>

(* Fault: approvals of different candidates are taken for one.             *)
SameKindByType(a, b) == a.type = b.type

(* Only approval_required carries a target_id: news of a provider, a       *)
(* metric or a report is one kind for the whole workspace.                 *)
SameKind(a, b) == a.type = b.type /\ (a.type = "approval_required" => a.subject = b.subject)

Recent(what) == {n \in notes : SameKind(n.what, what) /\ hour <= n.at + DedupeHours[what.type]}

(* The job or request begins its transaction: created_at, a server_default *)
(* of now(), will be this hour.                                            *)
BeginNews(x) ==
    /\ notifier[x] = Silent
    /\ notifier' = [notifier EXCEPT ![x] = [pc |-> "begun", at |-> hour]]
    /\ UNCHANGED <<hour, notes, news, told>>

(* create_notification: its SELECT counts back from the clock, which a     *)
(* fetch from a provider may have taken hours ahead.                       *)
Notify(x, what) ==
    /\ notifier[x] # Silent /\ notifier[x].pc = "begun" /\ told < MaxNews
    /\ told' = told + 1
    /\ notifier' = [notifier EXCEPT ![x] =
         [pc |-> IF Recent(what) = {} THEN "new" ELSE "known", what |-> what,
          at |-> notifier[x].at, looked |-> hour, id |-> told + 1]]
    /\ UNCHANGED <<hour, notes, news>>

(* The job or request commits, and its notification if it made one.        *)
CommitNews(x) ==
    /\ notifier[x] # Silent /\ notifier[x].pc \in {"known", "new"}
    /\ news' = news \cup {[what |-> notifier[x].what, at |-> notifier[x].looked]}
    /\ notes' = IF notifier[x].pc = "known" THEN notes
                ELSE notes \cup {[id |-> notifier[x].id, what |-> notifier[x].what, at |-> notifier[x].at,
                                  looked |-> notifier[x].looked, status |-> "unread"]}
    /\ notifier' = [notifier EXCEPT ![x] = Silent]
    /\ UNCHANGED <<hour, told>>

(* It ends without news, or is rolled back and its notification with it.   *)
AbortNews(x) ==
    /\ notifier[x] # Silent
    /\ notifier' = [notifier EXCEPT ![x] = Silent]
    /\ UNCHANGED <<hour, notes, news, told>>

(* mark_notification_read.                                                 *)
MarkRead(n) ==
    /\ n.status = "unread"
    /\ notes' = (notes \ {n}) \cup {[n EXCEPT !.status = "read"]}
    /\ UNCHANGED <<hour, news, notifier, told>>

NotificationsNext ==
    \/ HourPasses
    \/ \E n \in notes : MarkRead(n)
    \/ \E x \in Notifiers : \/ BeginNews(x) \/ CommitNews(x) \/ AbortNews(x)
                            \/ \E what \in Content : Notify(x, what)

NotificationsSpec == NotificationsInit /\ [][NotificationsNext]_noticeVars

----------------------------------------------------------------------------
(* News that is kept quiet is not lost: it has a notification of its own,  *)
(* or one of its kind, which no rollback can take back, is as old as the   *)
(* dedupe window at most (service.py:32-44). An approval is always told of *)
(* its own target.                                                         *)
NewsIsTold ==
    \A e \in news : \E n \in notes :
        /\ n.what.type = e.what.type
        /\ e.what.type = "approval_required" => n.what.subject = e.what.subject
        /\ n.at <= e.at
        /\ n.looked = e.at \/ e.at <= n.at + DedupeHours[e.what.type]

(* Of the transactions that began and looked within a window's length, at  *)
(* whatever hour it starts, no more tell of one kind than can overlap,     *)
(* read or not.                                                            *)
RepeatsOnlyFromOverlap ==
    \A what \in Content, from \in Hours :
        Cardinality({n \in notes : /\ SameKind(n.what, what)
                                   /\ from <= n.at /\ n.looked <= from + DedupeHours[what.type]})
            <= Cardinality(Notifiers)

(* News is told, and told once.                                            *)
NewsIsToldOnce == NewsIsTold /\ RepeatsOnlyFromOverlap
=============================================================================
