------------------------------- MODULE Billing -------------------------------
(***************************************************************************)
(* The subscription of one account: the starter row that the first look    *)
(* creates, and the webhook that applies Stripe's events to it             *)
(* (billing/service.py, billing/stripe_service.py, billing/router.py).     *)
(* Stripe is external: it sends each event at least once, in any order.    *)
(***************************************************************************)
EXTENDS Naturals, FiniteSets

CONSTANTS
    BillTxns,      \* requests and webhooks that can be open at once
    InOrder,       \* Stripe delivers the events one after the other
    MaxEvents,     \* bound: changes of the subscription at Stripe
    MaxRedeliver,  \* bound: events delivered again
    MaxBillCalls   \* bound: requests and webhooks begun

ASSUME BillingAssumption ==
    /\ InOrder \in BOOLEAN /\ MaxEvents \in Nat /\ MaxRedeliver \in Nat /\ MaxBillCalls \in Nat
    /\ IsFiniteSet(BillTxns)

VARIABLES
    stripe,      \* at Stripe: status of the subscription, number of its last change
    mail,        \* events under way
    redelivered, \* events delivered again so far
    rows,        \* subscriptions of the account: order of creation, of last update
    billing,     \* accounts.billing_status
    customer,    \* accounts.billing_customer_id is set
    billTxn,     \* the open requests
    ticks        \* requests begun so far: now() is the time a request began

billingVars == <<stripe, mail, redelivered, rows, billing, customer, billTxn, ticks>>

Status == {"active", "past_due", "canceled"}
Event  == [type : {"checkout", "updated", "deleted", "invoice"}, status : Status, nr : 1 .. MaxEvents]
Row    == [created : Nat, updated : Nat, plan : {"starter", "paid"}, status : Status \cup {"trialing"}]
Done   == [op |-> "none"]

BillingTypeOK ==
    /\ stripe \in [status : Status \cup {"none"}, nr : 0 .. MaxEvents]
    /\ mail \subseteq Event /\ redelivered \in 0 .. MaxRedeliver
    /\ rows \subseteq Row /\ Cardinality(rows) <= Cardinality(BillTxns)
    /\ \A r, s \in rows : r.created = s.created => r = s
    /\ billing \in Status /\ customer \in BOOLEAN
    /\ \A x \in BillTxns :
         billTxn[x] \in {Done} \cup [op : {"starter"}, at : Nat]
           \cup [op : {"event"}, at : Nat, event : Event, seen : Row, new : BOOLEAN, billing : Status]

BillingInit ==
    /\ stripe = [status |-> "none", nr |-> 0]
    /\ mail = {} /\ redelivered = 0
    /\ rows = {}
    /\ billing = "active" /\ customer = FALSE
    /\ billTxn = [x \in BillTxns |-> Done]
    /\ ticks = 0

----------------------------------------------------------------------------
(* External: the customer checks out, pays late, recovers, cancels. One    *)
(* change sends one event; a failed payment sends two.                     *)
StripeChanges ==
    /\ stripe.nr < MaxEvents
    /\ \E status \in Status, type \in {"checkout", "updated", "deleted"} :
         /\ type = "checkout" <=> stripe.status = "none"
         /\ stripe.status # "canceled"
         /\ type = "checkout" => status = "active"
         /\ type = "deleted" <=> status = "canceled"
         /\ stripe' = [status |-> status, nr |-> stripe.nr + 1]
         /\ mail' = mail \cup {[type |-> type, status |-> status, nr |-> stripe'.nr]}
                      \cup {[type |-> t, status |-> "past_due", nr |-> stripe'.nr] :
                              t \in {"invoice" : s \in {status} \cap {"past_due"}}}
    /\ UNCHANGED <<redelivered, rows, billing, customer, billTxn, ticks>>

(* External: no answer came, the event is sent again.                      *)
Redeliver(x) ==
    /\ ~InOrder /\ redelivered < MaxRedeliver
    /\ billTxn[x].op = "event"
    /\ mail' = mail \cup {billTxn[x].event}
    /\ redelivered' = redelivered + 1
    /\ UNCHANGED <<stripe, rows, billing, customer, billTxn, ticks>>

(* The row get_subscription_for_account returns: the last updated one.     *)
LastUpdated == CHOOSE r \in rows : \A s \in rows : s.updated <= r.updated

(* The row get_account_subscription reads the limits of: the last created. *)
LastCreated == CHOOSE r \in rows : \A s \in rows : s.created <= r.created

Starter(at) == [created |-> at, updated |-> at, plan |-> "starter", status |-> "trialing"]

(* get_subscription of an account without one, up to the SELECT of         *)
(* ensure_starter_subscription; now() is the time the request began.       *)
BeginStarter(x) ==
    /\ rows = {}
    /\ billTxn[x] = Done /\ ticks < MaxBillCalls
    /\ billTxn' = [billTxn EXCEPT ![x] = [op |-> "starter", at |-> ticks + 1]]
    /\ ticks' = ticks + 1
    /\ UNCHANGED <<stripe, mail, redelivered, rows, billing, customer>>

(* ... its INSERT and commit: no index allows one row per account only.    *)
CommitStarter(x) ==
    /\ billTxn[x].op = "starter"
    /\ rows' = rows \cup {Starter(billTxn[x].at)}
    /\ billTxn' = [billTxn EXCEPT ![x] = Done]
    /\ UNCHANGED <<stripe, mail, redelivered, billing, customer, ticks>>

(* An event arrives: handle_stripe_webhook loads the row, or makes the     *)
(* starter row, and the account.                                           *)
ReceiveEvent(x, e) ==
    /\ billTxn[x] = Done /\ e \in mail /\ ticks < MaxBillCalls
    /\ InOrder => \A f \in mail : e.nr < f.nr \/ (e.nr = f.nr /\ (f.type = "invoice" => e.type = "invoice"))
    /\ ticks' = ticks + 1
    /\ billTxn' = [billTxn EXCEPT ![x] =
         [op |-> "event", at |-> ticks', event |-> e, seen |-> IF rows = {} THEN Starter(ticks') ELSE LastUpdated,
          new |-> rows = {}, billing |-> billing]]
    /\ mail' = mail \ {e}
    /\ UNCHANGED <<stripe, redelivered, rows, billing, customer>>

(* What update_subscription_from_stripe writes into the row it loaded.     *)
Written(t, status) ==
    [t.seen EXCEPT !.status = status, !.plan = IF t.event.type = "deleted" THEN @ ELSE "paid", !.updated = t.at]

(* A session writes the columns whose value it changed, over what others   *)
(* have written meanwhile.                                                 *)
Merge(current, seen, new) ==
    [current EXCEPT !.status = IF new.status = seen.status THEN @ ELSE new.status,
                    !.plan = IF new.plan = seen.plan THEN @ ELSE new.plan,
                    !.updated = IF new.status = seen.status /\ new.plan = seen.plan THEN @ ELSE new.updated]

WriteRow(t, status) ==
    LET new == Written(t, status) IN
    IF t.new THEN rows' = rows \cup {new}
    ELSE \E r \in rows : r.created = t.seen.created /\ rows' = (rows \ {r}) \cup {Merge(r, t.seen, new)}

WriteBilling(t, status) == billing' = IF status = t.billing THEN billing ELSE status

Finish(x) ==
    /\ customer' = (customer \/ billTxn[x].event.type = "checkout")
    /\ billTxn' = [billTxn EXCEPT ![x] = Done]
    /\ UNCHANGED <<stripe, mail, redelivered, ticks>>

(* Fault: the end of a subscription does not reach the account.            *)
ApplySubscriptionRowOnly(x) ==
    /\ billTxn[x].op = "event" /\ billTxn[x].event.type # "invoice"
    /\ WriteRow(billTxn[x], billTxn[x].event.status)
    /\ UNCHANGED billing
    /\ Finish(x)

(* checkout.session.completed, customer.subscription.updated and .deleted, *)
(* whatever their age: no event id and no time is looked at.               *)
ApplySubscription(x) ==
    /\ billTxn[x].op = "event" /\ billTxn[x].event.type # "invoice"
    /\ WriteRow(billTxn[x], billTxn[x].event.status)
    /\ WriteBilling(billTxn[x], billTxn[x].event.status)
    /\ Finish(x)

(* invoice.payment_failed: the account only, found by its customer id.     *)
ApplyInvoice(x) ==
    /\ billTxn[x].op = "event" /\ billTxn[x].event.type = "invoice"
    /\ WriteBilling(billTxn[x], IF customer THEN "past_due" ELSE billTxn[x].billing)
    /\ UNCHANGED rows
    /\ Finish(x)

(* The request or webhook fails; Stripe sends the event again.             *)
AbortBilling(x) ==
    /\ billTxn[x] # Done
    /\ mail' = IF billTxn[x].op = "event" THEN mail \cup {billTxn[x].event} ELSE mail
    /\ billTxn' = [billTxn EXCEPT ![x] = Done]
    /\ UNCHANGED <<stripe, redelivered, rows, billing, customer, ticks>>

BillingNext ==
    \/ StripeChanges
    \/ \E x \in BillTxns :
         \/ Redeliver(x) \/ BeginStarter(x) \/ CommitStarter(x)
         \/ ApplySubscription(x) \/ ApplyInvoice(x) \/ AbortBilling(x)
         \/ \E e \in mail : ReceiveEvent(x, e)

BillingSpec == BillingInit /\ [][BillingNext]_billingVars
----------------------------------------------------------------------------
Mapped(status) == IF status = "trialing" THEN "active" ELSE status

(* One event at a time, in any order and more than once: the account is as *)
(* its subscription says, or in arrears after a failed payment.            *)
BillingFollowsSubscription ==
    rows # {} => billing \in {Mapped(LastUpdated.status), "past_due"}

(* One event at a time, in order: once all have arrived the account, its   *)
(* subscription and the row its limits come from are as Stripe says.       *)
QuietMeansCurrent ==
    (mail = {} /\ stripe.nr > 0 /\ \A x \in BillTxns : billTxn[x] = Done) =>
        /\ LastCreated = LastUpdated
        /\ LastCreated.status = stripe.status /\ LastCreated.plan = "paid"
        /\ billing = stripe.status
=============================================================================
