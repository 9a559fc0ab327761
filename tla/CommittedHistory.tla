--------------------------- MODULE CommittedHistory ---------------------------
(***************************************************************************)
(* What a durable store promises its callers, with no files, locks, writer *)
(* stages or checkpoints: one log of committed mutations that only grows,  *)
(* a published view per runtime that is always a whole earlier log, and    *)
(* the set of mutations some caller has been told are committed.           *)
(*                                                                         *)
(* DurableStore implements it: log is the part of the store a power loss   *)
(* cannot take back, view the published generations.                       *)
(***************************************************************************)
EXTENDS Naturals, Sequences

CONSTANTS
    Runtimes,   \* live runtimes on one store directory
    Mutations,  \* mutation identities chosen by callers
    Intents,    \* digests of the commands sent under them
    Bodies      \* prepared effect sets

VARIABLES
    log,        \* committed mutations, oldest first
    view,       \* the history each runtime has published to its readers
    acked       \* what callers were told is committed

vars == <<log, view, acked>>

Request == [mid : Mutations, intent : Intents]
Transaction == [mid : Mutations, intent : Intents, body : Bodies]

\* The identity m has been used by some transaction of s.
Has(s, m) == \E i \in DOMAIN s : s[i].mid = m

\* The command q is the one committed in s under its identity.
Settles(s, q) == \E i \in DOMAIN s : s[i].mid = q.mid /\ s[i].intent = q.intent

Init ==
    /\ log = << >>
    /\ view = [r \in Runtimes |-> << >>]
    /\ acked = {}

\* A mutation becomes durable. Its identity is new: it commits at most once.
Commit ==
    \E tx \in Transaction :
        /\ ~Has(log, tx.mid)
        /\ log' = Append(log, tx)
        /\ UNCHANGED <<view, acked>>

\* A runtime publishes the log as it stands, never a part or a mixture.
Publish(r) ==
    /\ view' = [view EXCEPT ![r] = log]
    /\ UNCHANGED <<log, acked>>

\* A runtime answers a caller from a view that already contains the command.
Answer(r, q) ==
    /\ view' \in {view, [view EXCEPT ![r] = log]}
    /\ Settles(view'[r], q)
    /\ acked' = acked \cup {q}
    /\ UNCHANGED log

\* Runtimes are closed or die: their views vanish, the log does not.
Forget ==
    \E gone \in SUBSET Runtimes :
        /\ view' = [r \in Runtimes |-> IF r \in gone THEN << >> ELSE view[r]]
        /\ UNCHANGED <<log, acked>>

Next ==
    \/ Commit
    \/ Forget
    \/ \E r \in Runtimes :
        \/ Publish(r)
        \/ \E q \in Request : Answer(r, q)

Spec == Init /\ [][Next]_vars

-------------------------------------------------------------------------------
TypeOK ==
    /\ log \in Seq(Transaction)
    /\ view \in [Runtimes -> Seq(Transaction)]
    /\ acked \subseteq Request

\* No identity names two transactions.
CommittedOnce == \A i, j \in DOMAIN log : log[i].mid = log[j].mid => i = j

\* An acknowledged command is in the log.
AckedCommitted == \A q \in acked : Settles(log, q)

\* Every published view is a prefix of the log.
ViewsAreCommitted ==
    \A r \in Runtimes :
        /\ Len(view[r]) =< Len(log)
        /\ \A i \in DOMAIN view[r] : view[r][i] = log[i]
===============================================================================
