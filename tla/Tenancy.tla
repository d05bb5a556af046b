------------------------------- MODULE Tenancy -------------------------------
(***************************************************************************)
(* One workspace of an account: members, invitations, sites, their plan    *)
(* limits, and the transfer to another account (tenants/service.py,        *)
(* tenants/router.py, auth/permissions.py, billing/quota.py,               *)
(* billing/service.py). A request reads in one step and writes and commits *)
(* in another, so requests overlap.                                        *)
(***************************************************************************)
EXTENDS Naturals, FiniteSets

CONSTANTS
    Users,         \* users with an account of their own login
    Founder,       \* the user whose workspace it is at first
    Invitations,   \* invitation rows to come
    Domains,       \* normalised domains
    TenantTxns,    \* requests that can be open at once
    InvitedRoles,  \* roles an invitation or a role change may name
    Plans,         \* plan codes
    SiteLimit,     \* site_limit by plan
    UserLimit,     \* user_limit by plan
    NoRow          \* absent

Roles == InvitedRoles \cup {"owner"}

(* The columns of workspace_memberships and workspace_invitations.         *)
MemberRow     == [role : Roles, status : {"active", "revoked"}]
InvitationRow == [user : Users, role : InvitedRoles, status : {"pending", "accepted"}, expired : BOOLEAN]

ASSUME TenancyAssumption ==
    /\ NoRow \notin MemberRow \cup InvitationRow
    /\ Founder \in Users /\ IsFiniteSet(Domains) /\ IsFiniteSet(Users) /\ IsFiniteSet(TenantTxns)
    /\ InvitedRoles \subseteq {"owner", "admin", "strategist", "editor", "analyst"}
    /\ SiteLimit \in [Plans -> Nat] /\ UserLimit \in [Plans -> Nat]

VARIABLES
    membership,   \* workspace_memberships, one row per user at most
    invitation,   \* workspace_invitations
    sites,        \* domains of the sites of the workspace
    owner,        \* the account of the workspace
    account,      \* plan and billing_status of both accounts
    tenantTxn     \* the open requests

tenancyVars == <<membership, invitation, sites, owner, account, tenantTxn>>

Accounts == {"ours", "theirs"}
Free == [op |-> "none"]

TenantRequest ==
    [op : {"invite"}] \cup [op : {"site"}] \cup [op : {"domain"}, of : Domains]
      \cup [op : {"role"}, of : Users] \cup [op : {"accept"}, of : Invitations]
      \cup [op : {"transfer"}, of : SUBSET Users]

TenancyTypeOK ==
    /\ membership \in [Users -> {NoRow} \cup MemberRow]
    /\ invitation \in [Invitations -> {NoRow} \cup InvitationRow]
    /\ sites \subseteq Domains
    /\ owner \in Accounts
    /\ account \in [Accounts -> [plan : Plans, active : BOOLEAN]]
    /\ tenantTxn \in [TenantTxns -> {Free} \cup TenantRequest]

TenancyInit ==
    /\ membership = [u \in Users |-> IF u = Founder THEN [role |-> "owner", status |-> "active"] ELSE NoRow]
    /\ invitation = [i \in Invitations |-> NoRow]
    /\ sites = {}
    /\ owner = "ours"
    /\ account \in [Accounts -> [plan : Plans, active : {TRUE}]]
    /\ tenantTxn = [x \in TenantTxns |-> Free]

----------------------------------------------------------------------------
(* PERMISSIONS, the writing ones of these routes.                          *)
RolesWith ==
    [member     |-> {"owner", "admin"},
     invitation |-> {"owner", "admin"},
     site       |-> {"owner", "admin", "strategist", "editor"}]

ActiveMembers == {u \in Users : membership[u] # NoRow /\ membership[u].status = "active"}

(* require_workspace_access and require_permission.                        *)
Allowed(u, roles) == u \in ActiveMembers /\ membership[u].role \in roles

Plan == account[owner].plan

Open(x, request) ==
    /\ tenantTxn[x] = Free
    /\ tenantTxn' = [tenantTxn EXCEPT ![x] = request]
    /\ UNCHANGED <<membership, invitation, sites, owner, account>>

Close(x) == tenantTxn' = [tenantTxn EXCEPT ![x] = Free]

(* create_invitation up to check_member_limit: pending invitations do not  *)
(* count, and accepting one asks for no limit again.                       *)
BeginInvite(x) ==
    /\ \E u \in Users : Allowed(u, RolesWith.invitation)
    /\ account[owner].active
    /\ Cardinality(ActiveMembers) < UserLimit[Plan]
    /\ Open(x, [op |-> "invite"])

CommitInvite(x) ==
    /\ tenantTxn[x].op = "invite"
    /\ \E i \in Invitations, u \in Users, role \in InvitedRoles :
         /\ invitation[i] = NoRow
         /\ invitation' = [invitation EXCEPT ![i] =
                [user |-> u, role |-> role, status |-> "pending", expired |-> FALSE]]
    /\ Close(x)
    /\ UNCHANGED <<membership, sites, owner, account>>

(* Seven days pass.                                                        *)
ExpireInvitation(i) ==
    /\ invitation[i] # NoRow /\ ~invitation[i].expired
    /\ invitation' = [invitation EXCEPT ![i].expired = TRUE]
    /\ UNCHANGED <<membership, sites, owner, account, tenantTxn>>

(* accept_invitation by the user the invitation names, up to the checks.   *)
BeginAccept(x, i) ==
    /\ invitation[i] # NoRow /\ invitation[i].status = "pending" /\ ~invitation[i].expired
    /\ Open(x, [op |-> "accept", of |-> i])

Join(x) ==
    LET i == tenantTxn[x].of IN
    /\ membership' = [membership EXCEPT ![invitation[i].user] =
           [role |-> invitation[i].role, status |-> "active"]]
    /\ invitation' = [invitation EXCEPT ![i].status = "accepted"]
    /\ Close(x)
    /\ UNCHANGED <<sites, owner, account>>

(* Fault: the row of a user who has one already is overwritten.            *)
CommitAcceptUpsert(x) == tenantTxn[x].op = "accept" /\ Join(x)

(* ... and its writes: uq_workspace_user lets a user have one row, of any  *)
(* status; otherwise the request fails (AbortTenant) and the invitation    *)
(* stays pending.                                                          *)
CommitAccept(x) ==
    /\ tenantTxn[x].op = "accept"
    /\ membership[invitation[tenantTxn[x].of].user] = NoRow
    /\ Join(x)

(* update_member_role: any role, of a row of any status.                   *)
BeginRole(x, u) ==
    /\ \E a \in Users : Allowed(a, RolesWith.member)
    /\ membership[u] # NoRow
    /\ Open(x, [op |-> "role", of |-> u])

CommitRole(x) ==
    /\ tenantTxn[x].op = "role"
    /\ \E role \in InvitedRoles : membership' = [membership EXCEPT ![tenantTxn[x].of].role = role]
    /\ Close(x)
    /\ UNCHANGED <<invitation, sites, owner, account>>

(* create_site up to check_site_limit.                                     *)
BeginSite(x) ==
    /\ \E u \in Users : Allowed(u, RolesWith.site)
    /\ account[owner].active
    /\ Cardinality(sites) < SiteLimit[Plan]
    /\ Open(x, [op |-> "site"])

(* uq_workspace_domain.                                                    *)
CommitSite(x) ==
    /\ tenantTxn[x].op = "site"
    /\ \E d \in Domains \ sites : sites' = sites \cup {d}
    /\ Close(x)
    /\ UNCHANGED <<membership, invitation, owner, account>>

(* update_site with a domain.                                              *)
BeginDomain(x, d) ==
    /\ \E u \in Users : Allowed(u, RolesWith.site)
    /\ d \in sites
    /\ Open(x, [op |-> "domain", of |-> d])

CommitDomain(x) ==
    /\ tenantTxn[x].op = "domain" /\ tenantTxn[x].of \in sites
    /\ \E d \in Domains \ sites : sites' = (sites \ {tenantTxn[x].of}) \cup {d}
    /\ Close(x)
    /\ UNCHANGED <<membership, invitation, owner, account>>

(* transfer_workspace_ownership: an owner; the UPDATE revokes the members  *)
(* that are committed by then, and takes effect with the commit.           *)
BeginTransfer(x) ==
    /\ owner = "ours"
    /\ \E u \in Users : Allowed(u, {"owner"})
    /\ Open(x, [op |-> "transfer", of |-> ActiveMembers])

CommitTransfer(x) ==
    /\ tenantTxn[x].op = "transfer"
    /\ owner' = "theirs"
    /\ membership' = [u \in Users |->
         IF u \in tenantTxn[x].of THEN [membership[u] EXCEPT !.status = "revoked"] ELSE membership[u]]
    /\ Close(x)
    /\ UNCHANGED <<invitation, sites, account>>

(* A check after the read fails, an index refuses the row, the client or   *)
(* the server goes away: nothing is written.                               *)
AbortTenant(x) ==
    /\ tenantTxn[x] # Free
    /\ Close(x)
    /\ UNCHANGED <<membership, invitation, sites, owner, account>>

(* update_subscription_from_stripe: another plan, or billing stops.        *)
ChangeAccount(a) ==
    /\ \E plan \in Plans, active \in BOOLEAN : account' = [account EXCEPT ![a] = [plan |-> plan, active |-> active]]
    /\ UNCHANGED <<membership, invitation, sites, owner, tenantTxn>>

TenancyNext ==
    \/ \E i \in Invitations : ExpireInvitation(i)
    \/ \E a \in Accounts : ChangeAccount(a)
    \/ \E x \in TenantTxns :
         \/ BeginInvite(x) \/ CommitInvite(x) \/ CommitAccept(x) \/ CommitRole(x)
         \/ BeginSite(x) \/ CommitSite(x) \/ CommitDomain(x)
         \/ BeginTransfer(x) \/ CommitTransfer(x) \/ AbortTenant(x)
         \/ \E i \in Invitations : BeginAccept(x, i)
         \/ \E u \in Users : BeginRole(x, u)
         \/ \E d \in Domains : BeginDomain(x, d)

TenancySpec == TenancyInit /\ [][TenancyNext]_tenancyVars

----------------------------------------------------------------------------
Accepted == {i \in Invitations : invitation[i] # NoRow /\ invitation[i].status = "accepted"}

(* However requests overlap, an invitation is used once and lets one user  *)
(* in: the members are the founder and one user per accepted invitation    *)
(* (uq_workspace_user is all that stops two accepts of one token, both of  *)
(* which read it pending).                                                 *)
OneSeatPerInvitation ==
    /\ {u \in Users : membership[u] # NoRow} = {Founder} \cup {invitation[i].user : i \in Accepted}
    /\ Cardinality({u \in Users : membership[u] # NoRow}) = 1 + Cardinality(Accepted)

(* A site is counted before it is inserted: overlapping requests pass the  *)
(* limit by one each, all but the first, and no plan change adds to that.  *)
SitesNearLimit ==
    \E p \in Plans : Cardinality(sites) <= SiteLimit[p] + Cardinality(TenantTxns) - 1

(* A transfer spares nobody who was a member all along.                    *)
TransferRevokesFounder == owner = "theirs" => Founder \notin ActiveMembers

Revoked(u) == membership[u] # NoRow /\ membership[u].status = "revoked"

(* Who is in and how much there may be: and no invitation, however old,    *)
(* brings a member back whose access a transfer ended                      *)
(* (billing/service.py:140, tenants/service.py:395).                       *)
MembershipHolds ==
    [][/\ OneSeatPerInvitation' /\ SitesNearLimit' /\ TransferRevokesFounder'
       /\ \A u \in Users : Revoked(u) => Revoked(u)']_tenancyVars
=============================================================================
