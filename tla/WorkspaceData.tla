---------------------------- MODULE WorkspaceData ----------------------------
(***************************************************************************)
(* The end of a workspace: an owner asks for its deletion and later purges *)
(* its data, while roles change, the workspace goes to another account and *)
(* credentials are stored and rotated (security/data_deletion.py,          *)
(* security/credential_rotation.py, tenants/service.py,                    *)
(* billing/service.py). A request reads rows first and writes them in a    *)
(* second step; a bulk UPDATE takes the rows that are committed by then.   *)
(* An accepted invitation adds a member and changes none (Tenancy).        *)
(***************************************************************************)
EXTENDS Naturals, TLC

CONSTANTS
    Members,          \* users with a membership, owners at first
    WsRoles,          \* the roles a member may be given
    CredentialNames,  \* of one provider: uq_workspace_provider_cred
    WsTxns,           \* requests open at a time
    MaxWsRequests     \* bound: requests begun

ASSUME WsAssumption ==
    /\ MaxWsRequests \in Nat
    /\ "owner" \in WsRoles /\ WsRoles \subseteq {"owner", "admin", "strategist", "editor", "analyst"}

VARIABLES
    seat,         \* workspace_memberships: member -> [role, status]
    deletion,     \* workspace_security_settings.deletion_status
    workspace,    \* workspaces.status
    credential,   \* integration_credentials: name -> [status, secret]
    wsTxn, wsBegun,
    beside        \* the open requests that another was open beside (history)

wsVars == <<seat, deletion, workspace, credential, wsTxn, wsBegun, beside>>

NoWsTxn      == [op |-> "none"]
NoCredential == [status |-> "absent", secret |-> FALSE]

Seat == [role : WsRoles, status : {"active", "revoked"}]

WsTypeOK ==
    /\ seat \in [Members -> Seat]
    /\ deletion \in {"active", "pending_deletion", "purged"}
    /\ workspace \in {"active", "pending_deletion", "deleted"}
    /\ credential \in [CredentialNames -> [status : {"absent", "active", "revoked", "purged"}, secret : BOOLEAN]]
    /\ \A t \in WsTxns :
          wsTxn[t].op \in {"none", "delete", "purge", "rotate", "store", "role", "transfer"}
    /\ wsBegun \in 0 .. MaxWsRequests
    /\ beside \subseteq WsTxns

WsInit ==
    /\ seat = [o \in Members |-> [role |-> "owner", status |-> "active"]]
    /\ deletion = "active" /\ workspace = "active"
    /\ credential = [n \in CredentialNames |-> NoCredential]
    /\ wsTxn = [t \in WsTxns |-> NoWsTxn] /\ wsBegun = 0
    /\ beside = {}

Underway == {t \in WsTxns : wsTxn[t].op # "none"}

(* require_permission: whoever asks has the role at the beginning.         *)
BeginWs(t, o, roles, txn) ==
    /\ wsTxn[t] = NoWsTxn /\ wsBegun < MaxWsRequests
    /\ seat[o].status = "active" /\ seat[o].role \in roles
    /\ wsBegun' = wsBegun + 1 /\ wsTxn' = [wsTxn EXCEPT ![t] = txn]
    /\ beside' = IF Underway = {} THEN {} ELSE Underway \cup {t}
    /\ UNCHANGED <<seat, deletion, workspace, credential>>

EndWs(t) ==
    /\ wsTxn' = [wsTxn EXCEPT ![t] = NoWsTxn] /\ beside' = beside \ {t}
    /\ UNCHANGED wsBegun

(* PERMISSIONS: member:write and integration:write.                        *)
Managers == {"owner", "admin"}

-----------------------------------------------------------------------------
(* The unit of work writes a column only when it differs from what was read. *)
IfChanged(new, read, current) == IF new = read THEN current ELSE new

BeginDeletion(t, o) ==
    BeginWs(t, o, {"owner"}, [op |-> "delete", by |-> o, deletion |-> deletion, workspace |-> workspace])

(* Who keeps the membership when o asks for the deletion. *)
Remains(o, p) == p = o

RequestWorkspaceDeletion(t) ==
    /\ wsTxn[t].op = "delete"
    /\ deletion' = IfChanged("pending_deletion", wsTxn[t].deletion, deletion)
    /\ workspace' = IfChanged("pending_deletion", wsTxn[t].workspace, workspace)
    /\ credential' = [n \in CredentialNames |->
                        IF credential[n] = NoCredential THEN NoCredential
                                                        ELSE [credential[n] EXCEPT !.status = "revoked"]]
    /\ seat' = [p \in Members |->
                  IF Remains(wsTxn[t].by, p) THEN seat[p] ELSE [seat[p] EXCEPT !.status = "revoked"]]
    /\ EndWs(t)

BeginPurge(t, o) ==
    /\ deletion = "pending_deletion"
    /\ BeginWs(t, o, {"owner"}, [op |-> "purge", workspace |-> workspace])

PurgeWorkspaceData(t) ==
    /\ wsTxn[t].op = "purge"
    /\ credential' = [n \in CredentialNames |->
                        IF credential[n] = NoCredential THEN NoCredential ELSE [status |-> "purged", secret |-> FALSE]]
    /\ deletion' = "purged"
    /\ workspace' = IfChanged("deleted", wsTxn[t].workspace, workspace)
    /\ UNCHANGED seat
    /\ EndWs(t)

(* Any membership, the own one too, and of any status.                     *)
BeginSeatRole(t, o, p) == BeginWs(t, o, Managers, [op |-> "role", of |-> p, role |-> seat[p].role])

UpdateMemberRole(t, role) ==
    /\ wsTxn[t].op = "role"
    /\ seat' = [seat EXCEPT ![wsTxn[t].of].role = IfChanged(role, wsTxn[t].role, @)]
    /\ UNCHANGED <<deletion, workspace, credential>>
    /\ EndWs(t)

(* Nobody keeps the membership of a workspace that goes to another account. *)
BeginHandover(t, o) == BeginWs(t, o, {"owner"}, [op |-> "transfer"])

TransferWorkspace(t) ==
    /\ wsTxn[t].op = "transfer"
    /\ seat' = [p \in Members |-> [seat[p] EXCEPT !.status = "revoked"]]
    /\ UNCHANGED <<deletion, workspace, credential>>
    /\ EndWs(t)

(* The same name cannot be stored twice, not even after its credential was *)
(* revoked or purged. No route takes a credential away.                    *)
BeginStore(t, o, n) == BeginWs(t, o, Managers, [op |-> "store", name |-> n])

StoreIntegrationCredential(t) ==
    /\ wsTxn[t].op = "store"
    /\ credential' = IF credential[wsTxn[t].name] = NoCredential
                       THEN [credential EXCEPT ![wsTxn[t].name] = [status |-> "active", secret |-> TRUE]]
                       ELSE credential
    /\ UNCHANGED <<seat, deletion, workspace>>
    /\ EndWs(t)

(* Fault: what cannot be decrypted is encrypted as it is. *)
BeginRotateAnything(t, o, n) ==
    /\ credential[n] # NoCredential
    /\ BeginWs(t, o, Managers, [op |-> "rotate", name |-> n])

(* Nothing decrypts the empty payload of a purged credential. *)
BeginRotate(t, o, n) ==
    /\ credential[n] # NoCredential /\ credential[n].secret
    /\ BeginWs(t, o, Managers, [op |-> "rotate", name |-> n])

RotateIntegrationCredential(t) ==
    /\ wsTxn[t].op = "rotate"
    /\ credential' = [credential EXCEPT ![wsTxn[t].name].secret = TRUE]
    /\ UNCHANGED <<seat, deletion, workspace>>
    /\ EndWs(t)

(* The keys or the database fail, the client goes away: nothing is written. *)
AbortWs(t) ==
    /\ wsTxn[t].op # "none"
    /\ UNCHANGED <<seat, deletion, workspace, credential>>
    /\ EndWs(t)

WsNext ==
    \E t \in WsTxns :
        \/ \E o \in Members :
             \/ BeginDeletion(t, o) \/ BeginPurge(t, o) \/ BeginHandover(t, o)
             \/ \E p \in Members : BeginSeatRole(t, o, p)
             \/ \E n \in CredentialNames : BeginStore(t, o, n) \/ BeginRotate(t, o, n)
        \/ RequestWorkspaceDeletion(t) \/ PurgeWorkspaceData(t) \/ TransferWorkspace(t)
        \/ StoreIntegrationCredential(t) \/ RotateIntegrationCredential(t)
        \/ AbortWs(t) \/ \E role \in WsRoles : UpdateMemberRole(t, role)

WsSpec == WsInit /\ [][WsNext]_wsVars

-----------------------------------------------------------------------------
(* Only an owner can purge (security/router.py:186).                       *)
PurgeIsPossible ==
    deletion = "pending_deletion" =>
        \E o \in Members : seat[o].status = "active" /\ seat[o].role = "owner"

Ends(t) == wsTxn[t].op # "none" /\ wsTxn'[t].op = "none"

(* What a request for a deletion, a purge, a store or a rotation does to a *)
(* workspace that waits for its deletion, or was purged, can be finished   *)
(* and stays: only a change of roles or a transfer, or deletions asked for *)
(* at once, leave nobody who can purge it, and only a rotation that began  *)
(* before the purge brings a purged secret back (data_deletion.py:36-47,   *)
(* credential_rotation.py:28).                                             *)
DeletionIsFinal ==
    [][/\ (PurgeIsPossible /\ ~PurgeIsPossible') =>
             \E t \in WsTxns :
                /\ Ends(t)
                /\ wsTxn[t].op \in {"role", "transfer"} \/ (wsTxn[t].op = "delete" /\ t \in beside)
       /\ \A n \in CredentialNames :
             (credential[n] # NoCredential /\ ~credential[n].secret /\ credential'[n].secret) =>
                \E t \in WsTxns :
                   Ends(t) /\ wsTxn[t].op = "rotate" /\ wsTxn[t].name = n /\ t \in beside]_wsVars
=============================================================================
