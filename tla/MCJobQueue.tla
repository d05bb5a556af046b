----------------------------- MODULE MCJobQueue -----------------------------
(* Instances of JobQueue for TLC: the calls the callers may make.          *)
EXTENDS JobQueue, TLC

CONSTANTS t1, t2, r1, r2, r3, w1, w2, wsA, wsB, k1

Call(ws, key, metered) == [ws |-> ws, key |-> key, metered |-> metered]

(* One key used from two workspaces and metered, next to keyless calls     *)
(* that do and do not meter.                                               *)
AllCalls == {Call(wsA, k1, TRUE), Call(wsB, k1, TRUE),
             Call(wsA, NoKey, TRUE), Call(wsA, NoKey, FALSE)}

(* A keyed call and a keyless one, in one workspace.                       *)
OneWorkspaceCalls == {Call(wsA, k1, FALSE), Call(wsA, NoKey, TRUE)}

(* The runs are interchangeable, and so are transactions and workers.      *)
Symmetries == Permutations({r1, r2, r3}) \cup Permutations({t1, t2})
              \cup Permutations({w1, w2})
=============================================================================
