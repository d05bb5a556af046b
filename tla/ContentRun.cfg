SPECIFICATION ContentSpec
CONSTANTS
    q1 = q1  q2 = q2
    dGood = dGood  dUnsupported = dUnsupported  dForbidden = dForbidden
    NoDraft = NoDraft
    Requests = {q1}
    Drafts <- MCDrafts
    Supported <- MCSupported
    Compliant <- MCCompliant
    Levels = {"auto_with_gate", "editor_review", "manager_review"}
    Providers = {"contentflow", "wordpress"}
    MaxRequests = 6
CHECK_DEADLOCK FALSE
SYMMETRY Symmetries
INVARIANTS
    ContentTypeOK
    StatusFollowsText
PROPERTIES
    NothingSlipsOut
