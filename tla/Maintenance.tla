------------------------------ MODULE Maintenance ------------------------------
(***************************************************************************)
(* runMaintenance: a rotation, whose receipt ledger is merged from the     *)
(* predecessor's and the retiring segment, then a collection, which takes  *)
(* its references from the ledger the rotation wrote.  The collection may  *)
(* be repeated, after failures and further commits.  Or the store is       *)
(* reopened after the rotation and a while of commits, and the recovery    *)
(* verifies its active WAL against that ledger.                            *)
(***************************************************************************)
EXTENDS ReceiptMerge, ObjectReclamation, RecoveryScan

CONSTANTS
    Refers,     \* identity -> what its operation refers to
    Wals,       \* the identities of an active WAL, as found when the store is reopened
    Allowances  \* indexDiskBytes

ASSUME RefersOK == Refers \in [Ids -> Digests \cup {Inline}]
ASSUME ReopeningOK == Wals \subseteq Seq(Nat) /\ Allowances \subseteq Nat

vars == <<mergeVars, gcVars, scanVars>>

\* What was merged, and how, is forgotten.
Merging(next) ==
    /\ status = "done" /\ status' = next
    /\ segment' = << >> /\ previous' = << >> /\ read' = 0
    /\ buffer' = << >> /\ runs' = << >> /\ pos' = [i \in {} |-> 1] /\ ledger' = << >>

\* The new ledger is authoritative, the active WAL is empty, and in objects/
\* there may be files nothing refers to, or one too few.
Rotated ==
    /\ Merging("rotated")
    /\ references' = [i \in DOMAIN ledger |-> Refers[ledger[i]]]
    /\ \E found \in SUBSET Digests :
        /\ Cardinality({references'[i] : i \in DOMAIN references'} \ (found \cup {Inline})) =< 1
        /\ objects' = found
    /\ UNCHANGED <<current, unsynced, scratch, gc, attempts, outcome, reclaimed, scanVars>>

\* The active WAL is as it was found, whoever wrote it; its file is created by
\* the first commit.
Reopened ==
    /\ Merging("reopened")
    /\ receipts' = ledger
    /\ wal' \in Wals /\ torn' \in BOOLEAN /\ allowance' \in Allowances
    /\ kind' \in {"file"} \cup (IF wal' = << >> /\ ~torn' THEN {"missing"} ELSE {})
    /\ UNCHANGED <<gcVars, call, indexVars, historyVars, pass, scans, verdict>>

Init == MergeInit /\ GcEmpty /\ ScanEmpty

Next ==
    \/ MergeNext /\ UNCHANGED <<gcVars, scanVars>>
    \/ Rotated
    \/ status = "rotated" /\ GcNext /\ UNCHANGED <<mergeVars, scanVars>>
    \/ Reopened
    \/ status = "reopened" /\ ScanNext /\ UNCHANGED <<mergeVars, gcVars>>

Spec == Init /\ [][Next]_vars
===============================================================================
