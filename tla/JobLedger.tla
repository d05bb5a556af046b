------------------------------ MODULE JobLedger ------------------------------
(***************************************************************************)
(* What the job plane promises its callers: a ledger of accepted runs.     *)
(* A call is accepted, charged and answered at once or not at all; a later *)
(* call with its key is answered with the run that is there. Nothing is    *)
(* struck out, whatever becomes of requests, messages and workers.         *)
(***************************************************************************)
CONSTANTS
    Runs,    \* ids of runs
    Calls,   \* workspace, key and metering of what the callers ask for
    NoKey    \* a call that names no key

VARIABLES
    ledger,   \* accepted runs, each with its call
    charged,  \* usage events: workspace and key
    answers   \* what callers with a key were told: workspace, key, run

ledgerVars == <<ledger, charged, answers>>

Answered(r, c) == [ws |-> c.ws, key |-> c.key, run |-> r]

(* The event of a run without a key has the run for its key.               *)
Charge(r, c) == [ws |-> c.ws, key |-> IF c.key = NoKey THEN r ELSE c.key]

LedgerInit == ledger = {} /\ charged = {} /\ answers = {}

(* A new run: its key, if it has one, is in no workspace's ledger yet, and *)
(* its charge is new.                                                      *)
Accept(r, c) ==
    /\ \A e \in ledger : e.run # r /\ (c.key # NoKey => e.call.key # c.key)
    /\ Charge(r, c) \notin charged
    /\ ledger' = ledger \cup {[run |-> r, call |-> c]}
    /\ charged' = IF c.metered THEN charged \cup {Charge(r, c)} ELSE charged
    /\ answers' = IF c.key = NoKey THEN answers ELSE answers \cup {Answered(r, c)}

(* A call with the key of a run of its workspace: the same answer again.   *)
Repeat(e) ==
    /\ e.call.key # NoKey
    /\ answers' = answers \cup {Answered(e.run, e.call)}
    /\ UNCHANGED <<ledger, charged>>

LedgerNext ==
    \/ \E r \in Runs, c \in Calls : Accept(r, c)
    \/ \E e \in ledger : Repeat(e)

LedgerSpec == LedgerInit /\ [][LedgerNext]_ledgerVars
=============================================================================
