------------------------- MODULE DurableStoreInvariant -------------------------
(***************************************************************************)
(* The inductive invariant of DurableStore: what the safety properties     *)
(* rest on, stage by stage.  TLC checks it on small instances and          *)
(* DurableStore_proofs proves it for all of them.                          *)
(***************************************************************************)
EXTENDS DurableStore

IsPrefixOf(s, t) == Len(s) =< Len(t) /\ \A i \in DOMAIN s : s[i] = t[i]

\* Who holds writer.lock: a runtime in a stage that runs only under it.
HeldByHolder == \A r \in Runtimes : stage[r] \in Held => lock = r

\* At most one frame waits for its barrier: nobody appends behind one that
\* is not synced.
OneDirtyFrame == Len(dirty) =< 1

\* An unconfirmed HEAD rename is over before anybody else works on the store.
RenameConfirmed ==
    \A r \in Runtimes :
        (lock = r /\ stage[r] \notin {"switched", "release"}) => prior = None

\* Where a mutation is on its way to the append, and what it knows of its
\* identity: up to the receipts lookup, that the published generation can
\* only hold it in reclaimed history; afterwards, that it does not hold it.
Searched(r) ==
    stage[r] = "receipts" \/ (stage[r] = "release" /\ pending[r].next = "receipts")

Unused(r) ==
    \/ stage[r] \in {"prepare", "measure", "install", "commit", "writing", "written"}
    \/ stage[r] = "release" /\ pending[r].next \in {"prepare", "commit"}
    \/ stage[r] = "release" /\ pending[r].code = "committed"

Prepared(r) ==
    \/ stage[r] \in {"measure", "install", "commit", "writing", "written"}
    \/ stage[r] = "release" /\ (pending[r].next = "commit" \/ pending[r].code = "committed")

IdentityTracked ==
    \A r \in Runtimes :
        /\ Searched(r) =>
            \A i \in DOMAIN gen[r] : gen[r][i].mid = req[r].mid => i =< Len(ckpt)
        /\ Unused(r) => ~Has(gen[r], req[r].mid)

\* A mutation that was found committed is durable under the same intent.
Found(r) ==
    \/ stage[r] = "effects"
    \/ stage[r] = "release" /\ (pending[r].next = "effects" \/ pending[r].code = "already")

FoundIsDurable == \A r \in Runtimes : Found(r) => Settles(DurableHistory, req[r])

\* The stages of the append.
AppendStages ==
    \A r \in Runtimes :
        /\ stage[r] = "writing" => dirty = << >> /\ gen[r] = DurableHistory
        /\ stage[r] = "written" => dirty = <<Tx(r)>> /\ gen[r] = DurableHistory
        /\ (stage[r] = "release" /\ pending[r].code = "committed") =>
                dirty = << >> /\ DurableHistory = Append(gen[r], Tx(r))

\* A recovery reconstructed the whole durable history.
RecoveredIsDurable ==
    \A r \in Runtimes :
        (stage[r] = "release" /\ pending[r].code = "recovered") => root[r] = DurableHistory

\* A mutation carries its request, and from preparation on its body.
RequestCarried ==
    \A r \in Runtimes :
        /\ (Searched(r) \/ Unused(r) \/ Found(r)
                \/ stage[r] \in {"lookup", "relook"}
                \/ (stage[r] = "release" /\ pending[r].next = "relook")) => req[r] # None
        /\ Prepared(r) => body[r] # None

\* Outcomes and follow-on stages that a release can be left with.
ReleaseFormed ==
    \A r \in Runtimes :
        stage[r] = "release" =>
            /\ pending[r].next \in {"idle", "receipts", "effects", "prepare", "commit",
                                    "relook", "gc"}
            /\ pending[r].next # "idle" => pending[r].code \in {"continue", "rotated"}

\* A runtime between two operations is in no stage.
IdleBetween == \A r \in Runtimes : task[r] = "none" => stage[r] = "idle"

\* The lineage HEAD may revert to was itself sound.
PriorIsSound == prior # None => prior.ledger = Entries(prior.ckpt)

\* Who may do what: types, the lock, and the shape of each stage.
Control ==
    /\ TypeOK
    /\ HeldByHolder
    /\ RequestCarried
    /\ ReleaseFormed
    /\ IdleBetween

\* What the store and the runtimes hold.
Content ==
    /\ CommittedOnce
    /\ AckedDurable
    /\ PublishedIsDurable
    /\ LedgerMatchesCheckpoint
    /\ RevertIsHarmless
    /\ PriorIsSound
    /\ OneDirtyFrame
    /\ RenameConfirmed
    /\ IdentityTracked
    /\ FoundIsDurable
    /\ AppendStages
    /\ RecoveredIsDurable

\* What makes the store correct, as one inductive invariant.
Coherent == Control /\ Content

-------------------------------------------------------------------------------
(* Corruption answers *)

\* A commit met another use of the identity, which the next lookup explains.
Met(r) ==
    \/ stage[r] = "relook"
    \/ stage[r] = "release" /\ pending[r].next = "relook"

Corrupted(r) == stage[r] = "release" /\ pending[r].code = "corruption"

CorruptionExplained ==
    \A r \in Runtimes :
        /\ Met(r) \/ Corrupted(r) => req[r] # None /\ Has(History, req[r].mid)
        /\ Corrupted(r) /\ Settles(History, req[r]) => ~Has(Frames, req[r].mid)

-------------------------------------------------------------------------------
(* The envelope *)

\* The size was found to leave room for the frame to append.
Sized(r) ==
    \/ stage[r] \in {"install", "commit", "writing"}
    \/ stage[r] = "release" /\ pending[r].next = "commit"

\* An append onto the published generation fits, however old the look at the
\* size is: either nothing was appended since, or a rotation emptied the WAL.
RoomKept ==
    \A r \in Runtimes :
        /\ stage[r] = "measure" /\ seen[r] # head => Len(gen[r]) =< Len(ckpt)
        /\ Sized(r) /\ gen[r] = History => Len(Frames) + 1 =< Envelope

\* The lineage HEAD may revert to respects its envelope too.
PriorFits == prior # None => Len(prior.wal) =< Envelope

Bounded == EnvelopeRespected /\ RoomKept /\ PriorFits

-------------------------------------------------------------------------------
(* A runtime that is alone on its store *)

\* The operation ends as pending says, when writer.lock is released.
Ending(r) == stage[r] = "release" /\ pending[r].next = "idle"

\* The outcome replaces the published generation, or gives up on it.
Doubtful(r) ==
    \/ stage[r] \in {"writing", "written"}
    \/ Ending(r) /\ (pending[r].code \in {"committed", "recovered"} \/ Demotes(task[r], pending[r].code))

Whole ==
    \A r \in Runtimes :
        /\ life[r] = "ready" /\ ~Doubtful(r) => gen[r] = History /\ ~torn
        /\ stage[r] = "written" => ~torn
        /\ Ending(r) /\ pending[r].code = "committed" => ~torn
        /\ Ending(r) /\ pending[r].code = "recovered" => dirty = << >> /\ ~torn

-------------------------------------------------------------------------------
(* Payload objects *)

\* The prepared body is installed, if it is one that is committed by reference.
Installed(r) ==
    \/ stage[r] \in {"commit", "writing", "written"}
    \/ stage[r] = "release" /\ pending[r].next = "commit"

\* A collection is under way, or will be after the rotation that is.
Collects(r) ==
    \/ stage[r] \in {"gc", "sweep"}
    \/ stage[r] = "release" /\ pending[r].next = "gc"

\* No object the store references, or is about to, is a candidate.
CandidatesUnused ==
    \A r \in Runtimes :
        /\ Installed(r) /\ body[r] \in Large => body[r] \in objects
        /\ stage[r] = "sweep" => cand[r] \cap Referenced = {}

\* Collections are what callers asked for.
CollectsWhenAsked ==
    \A r \in Runtimes :
        /\ task[r] \in Operations \cup {"none"}
        /\ Collects(r) => Operations \cap {"gc", "maintain"} # {}
===============================================================================
