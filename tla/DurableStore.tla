----------------------------- MODULE DurableStore -----------------------------
(***************************************************************************)
(* Durable Ether Memories: several runtimes (processes, or handles in one  *)
(* process) on one store directory.  Each runtime runs one operation at a  *)
(* time (its queue); an operation is a chain of stages, most of them under *)
(* the exclusive writer.lock, which is released and taken again between    *)
(* two stages.  Runtimes interleave at every stage; they crash, lose power *)
(* and meet failing I/O.                                                   *)
(*                                                                         *)
(* Sizes are counted in WAL frames.  A generation (state and tip) is the   *)
(* sequence of transactions it was built from: the tip is a digest chain,  *)
(* so equal tips are equal sequences.  Payload objects are named by their  *)
(* content, a prepared body.                                               *)
(***************************************************************************)
EXTENDS Naturals, Sequences, FiniteSets

CONSTANTS
    Runtimes,    \* open handles on the store directory
    Mutations,   \* mutation identities chosen by callers
    Intents,     \* command intent digests
    Bodies,      \* what preparing a command can produce: its effect set
    Large,       \* the bodies committed by reference to payload objects
    Requests,    \* the (identity, intent) pairs callers send
    Envelope,    \* maxActiveWalBytes, in frames
    FrameCap,    \* the largest legal frame, in the same unit
    MaxHead,     \* bound: rotations begin only below this lineage number
    Operations,  \* the operations callers invoke
    Faults,      \* the faults the environment produces
    None,        \* no request, no body, no lock owner, no earlier lineage
    Stale        \* a writer.lock whose owner is gone

Kinds == {"open", "mutate", "recover", "rotate", "gc", "maintain"}

ASSUME ConstantsOK ==
    /\ Requests \subseteq [mid : Mutations, intent : Intents]
    /\ Large \subseteq Bodies
    /\ Envelope \in Nat \ {0}
    /\ FrameCap \in Nat \ {0}
    /\ MaxHead \in Nat
    /\ None \notin Runtimes /\ Stale \notin Runtimes /\ None # Stale
    /\ None \notin Requests /\ None \notin Bodies

VARIABLES
    \* the store directory
    lock,      \* owner named by writer.lock
    head,      \* number of the lineage HEAD selects
    ckpt,      \* the history its checkpoint captures
    ledger,    \* the receipts of its ledger
    wal,       \* complete frames of its active WAL that a power loss keeps
    dirty,     \* complete frames written after them and not yet synced
    torn,      \* an incomplete frame follows
    prior,     \* the lineage HEAD may still revert to: its rename is unsynced
    objects,   \* installed payload objects
    \* the runtimes
    life,      \* lifecycle
    gen,       \* published generation
    task,      \* operation at the head of the queue
    stage,     \* where it is
    req,       \* the request a mutation serves
    body,      \* what it prepared
    seen,      \* the lineage HEAD named when the stage read it
    pending,   \* what follows the release of writer.lock
    root,      \* history a recovery reconstructed
    cand,      \* objects a collection may still unlink
    \* history
    acked      \* requests some caller was told are committed

disk == <<lock, head, ckpt, ledger, wal, dirty, torn, prior, objects>>
flow == <<life, gen, task, stage, req, body, seen, pending, root, cand>>
vars == <<disk, flow, acked>>

Transaction == [mid : Mutations, intent : Intents, body : Bodies]
Lineage == [head : Nat, ckpt : Seq(Transaction), ledger : SUBSET Transaction,
            wal : Seq(Transaction), torn : BOOLEAN]

\* Stages that begin by taking writer.lock, those that go on under it, and
\* those that run without it.
Scopes == {"lookup", "receipts", "install", "commit", "relook", "effects",
           "recover", "rotate", "gc"}
Held == {"writing", "written", "switched", "sweep", "release"}
Unlocked == {"idle", "prepare", "measure", "observe"}
Stages == Scopes \cup Held \cup Unlocked

\* How an operation ends.  "refused" stands for every error that says nothing
\* of the store's state: WRITER_BUSY, READ_ONLY_LOCKED,
\* DURABILITY_UNAVAILABLE, INVALID_INPUT, and precommit-validation errors.
Codes == {"continue", "committed", "already", "recovered", "rotated", "collected", "no-op",
          "refused", "corruption", "stale-base", "recovery-required",
          "unconfirmed", "cleanup-pending", "authoritative", "maintenance"}
NoPending == [next |-> "idle", code |-> "continue"]

-------------------------------------------------------------------------------
(* The store as its readers see it *)

Frames == wal \o dirty
History == ckpt \o Frames
DurableHistory == ckpt \o wal

Entries(s) == {s[i] : i \in DOMAIN s}
Has(s, m) == \E i \in DOMAIN s : s[i].mid = m
Settles(s, q) == \E i \in DOMAIN s : s[i].mid = q.mid /\ s[i].intent = q.intent

Tx(r) == [mid |-> req[r].mid, intent |-> req[r].intent, body |-> body[r]]

\* The payload objects recovery and collection must find.
Referenced == {tx.body : tx \in ledger \cup Entries(Frames)} \cap Large

Min2(a, b) == IF a =< b THEN a ELSE b

\* The size stat reports for the WAL of the lineage HEAD named earlier.  When
\* another runtime has rotated in between, that file is still there with some
\* size it had, or is already removed and counts as empty.
ObservedSizes(r) ==
    IF seen[r] = head
    THEN {Len(Frames) + t : t \in IF torn THEN {0, 1} ELSE {0}}
    ELSE 0..(Envelope + 1)

-------------------------------------------------------------------------------
(* Operations, stages, and how they end *)

\* Mutant: an ambiguous append is routed like an ordinary failure.
DemotesOnlyStale(kind, code) ==
    \/ code \in {"stale-base", "unconfirmed", "authoritative"}
    \/ kind \in {"open", "recover"} /\ code # "recovered"

\* runMutation, classifyRotationFailure, gcFailureRequiresRecovery and recover:
\* which outcomes leave the runtime needing recovery.
Demotes(kind, code) ==
    CASE code \in {"recovery-required", "stale-base", "unconfirmed", "authoritative"} -> TRUE
      [] kind \in {"open", "recover"} -> code # "recovered"
      [] OTHER -> FALSE

\* Ends the operation of r.  A failed open leaves no runtime behind.
Settle(r, code) ==
    /\ life' = [life EXCEPT ![r] =
                    IF Demotes(task[r], code)
                    THEN IF task[r] = "open" THEN "closed" ELSE "recovery-required"
                    ELSE IF code = "recovered" THEN "ready" ELSE @]
    /\ task' = [task EXCEPT ![r] = "none"]
    /\ stage' = [stage EXCEPT ![r] = "idle"]
    /\ req' = [req EXCEPT ![r] = None]
    /\ body' = [body EXCEPT ![r] = None]
    /\ seen' = [seen EXCEPT ![r] = 0]
    /\ pending' = [pending EXCEPT ![r] = NoPending]
    /\ root' = [root EXCEPT ![r] = << >>]
    /\ cand' = [cand EXCEPT ![r] = {}]

\* Starts operation kind at stage first; every stage begins by reading HEAD.
Begin(r, kind, first) ==
    /\ task[r] = "none"
    /\ kind \in Operations
    /\ task' = [task EXCEPT ![r] = kind]
    /\ stage' = [stage EXCEPT ![r] = first]
    /\ seen' = [seen EXCEPT ![r] = head]
    /\ UNCHANGED <<disk, life, gen, body, pending, root, cand, acked>>

\* Moves on to another stage, outside writer.lock.
Enter(r, next) ==
    /\ stage' = [stage EXCEPT ![r] = next]
    /\ seen' = [seen EXCEPT ![r] = head]

\* The work under writer.lock is done; next is "idle" when the operation ends.
Conclude(r, next, code) ==
    /\ stage' = [stage EXCEPT ![r] = "release"]
    /\ pending' = [pending EXCEPT ![r] = [next |-> next, code |-> code]]

Holds(r, s) == lock = r /\ stage[r] = s
Waits(r) == lock # r /\ stage[r] \in Scopes

BeginMutate(r) ==
    /\ life[r] = "ready"
    /\ \E q \in Requests : req' = [req EXCEPT ![r] = q]
    /\ Begin(r, "mutate", "lookup")

BeginRecover(r) ==
    /\ life[r] # "closed"
    /\ Begin(r, "recover", "recover")
    /\ UNCHANGED req

BeginRotate(r) ==
    /\ life[r] = "ready"
    /\ head < MaxHead
    /\ Begin(r, "rotate", "rotate")
    /\ UNCHANGED req

BeginGc(r) ==
    /\ life[r] = "ready"
    /\ Begin(r, "gc", "gc")
    /\ UNCHANGED req

BeginMaintain(r) ==
    /\ life[r] = "ready"
    /\ head < MaxHead
    /\ Begin(r, "maintain", "observe")
    /\ UNCHANGED req

\* The factory: inspection refuses a store whose writer.lock is present, and
\* the new runtime escapes only if its recovery succeeds.
Open(r) ==
    /\ life[r] = "closed"
    /\ lock = None
    /\ Begin(r, "open", "recover")
    /\ UNCHANGED req

Close(r) ==
    /\ "close" \in Operations
    /\ task[r] = "none" /\ life[r] # "closed"
    /\ life' = [life EXCEPT ![r] = "closed"]
    /\ gen' = [gen EXCEPT ![r] = << >>]
    /\ UNCHANGED <<disk, task, stage, req, body, seen, pending, root, cand, acked>>

-------------------------------------------------------------------------------
(* writer.lock *)

\* Creates writer.lock and syncs the directory, which makes an earlier HEAD
\* rename durable too.
Take(r) ==
    /\ Waits(r) /\ lock = None
    /\ lock' = r
    /\ prior' = None
    /\ UNCHANGED <<head, ckpt, ledger, wal, dirty, torn, objects, flow, acked>>

\* HEAD was read before the lock existed, and another runtime rotated in
\* between: authority verification fails and the lock is given back.
TakeOnOldHead(r) ==
    /\ Waits(r) /\ lock = None
    /\ seen[r] # head
    /\ lock' = r
    /\ prior' = None
    /\ Conclude(r, "idle", "recovery-required")
    /\ UNCHANGED <<head, ckpt, ledger, wal, dirty, torn, objects>>
    /\ UNCHANGED <<life, gen, task, req, body, seen, root, cand, acked>>

\* writer.lock exists: WRITER_BUSY at once, no waiting.  The attempt began
\* with a sync of the directory, before or after the holder's HEAD rename.
Busy(r) ==
    /\ Waits(r) /\ lock # None
    /\ prior' \in {None, prior}
    /\ Settle(r, "refused")
    /\ UNCHANGED <<lock, head, ckpt, ledger, wal, dirty, torn, objects, gen, acked>>

\* Reading the layout or HEAD, or creating the lock, fails.  A lock file that
\* was created but not written or synced is nobody's: it is never removed.
TakeFails(r) ==
    /\ "io" \in Faults
    /\ Waits(r)
    /\ lock' = lock \/ (lock = None /\ lock' = Stale)
    /\ \E code \in {"recovery-required", "refused"} : Settle(r, code)
    /\ UNCHANGED <<head, ckpt, ledger, wal, dirty, torn, prior, objects, gen, acked>>

\* What the operation's outcome publishes and answers.  An already-committed
\* receipt is answered only when the published generation contains it.
Deliver(r) ==
    LET code == pending[r].code
    IN  \/ /\ code = "committed"
           /\ gen' = [gen EXCEPT ![r] = Append(@, Tx(r))]
           /\ acked' = acked \cup {req[r]}
           /\ Settle(r, code)
        \/ /\ code = "already"
           /\ \E i \in 1..Len(gen[r]) : i =< Len(History) /\ History[i].mid = req[r].mid
           /\ acked' = acked \cup {req[r]}
           /\ Settle(r, code)
           /\ UNCHANGED gen
        \/ /\ code = "already"
           /\ ~\E i \in 1..Len(gen[r]) : i =< Len(History) /\ History[i].mid = req[r].mid
           /\ Settle(r, "recovery-required")
           /\ UNCHANGED <<gen, acked>>
        \/ /\ code = "recovered"
           /\ gen' = [gen EXCEPT ![r] = root[r]]
           /\ Settle(r, code)
           /\ UNCHANGED acked
        \/ /\ code \notin {"committed", "already", "recovered"}
           /\ Settle(r, code)
           /\ UNCHANGED <<gen, acked>>

\* Removes writer.lock and syncs the directory.
Release(r) ==
    /\ Holds(r, "release")
    /\ lock' = None
    /\ prior' = None
    /\ UNCHANGED <<head, ckpt, ledger, wal, dirty, torn, objects>>
    /\ IF pending[r].next = "idle"
       THEN Deliver(r)
       ELSE /\ Enter(r, pending[r].next)
            /\ pending' = [pending EXCEPT ![r] = NoPending]
            /\ UNCHANGED <<life, gen, task, req, body, root, cand, acked>>

\* The removal or its barrier fails: the lock may stay, with nobody left to
\* remove it.  A rotation past its activation is still reported as such.
ReleaseFails(r) ==
    /\ "release" \in Faults
    /\ Holds(r, "release")
    /\ lock' \in {None, Stale}
    /\ Settle(r, IF pending[r].code \in {"rotated", "cleanup-pending"}
                 THEN "cleanup-pending" ELSE "recovery-required")
    /\ UNCHANGED <<head, ckpt, ledger, wal, dirty, torn, prior, objects, gen, acked>>

-------------------------------------------------------------------------------
(* A durable mutation: runMutation, commitMutationDetailed, FsWalStore.run *)

\* Every complete frame crosses the WAL barriers.
SyncWal ==
    /\ wal' = Frames
    /\ dirty' = << >>

\* readCommittedMutation over the active WAL; what is found decides the stage
\* after the release.  missing is where an absent identity leads.
Search(r, missing, code) ==
    \/ /\ torn
       /\ Conclude(r, "idle", "recovery-required")
       /\ UNCHANGED <<wal, dirty>>
    \/ /\ ~torn /\ ~Has(Frames, req[r].mid)
       /\ Conclude(r, missing, code)
       /\ SyncWal
    \/ /\ ~torn /\ Settles(Frames, req[r])
       /\ Conclude(r, "effects", "continue")
       /\ SyncWal
    \/ /\ ~torn /\ Has(Frames, req[r].mid) /\ ~Settles(Frames, req[r])
       /\ Conclude(r, "idle", "corruption")
       /\ SyncWal

Lookup(r) ==
    /\ Holds(r, "lookup")
    /\ Search(r, "receipts", "continue")
    /\ UNCHANGED <<lock, head, ckpt, ledger, torn, prior, objects>>
    /\ UNCHANGED <<life, gen, task, req, body, seen, root, cand, acked>>

\* Mutant: a second scan that finds nothing never answers.
ResolveEffectsKeeping(r) ==
    /\ Holds(r, "effects")
    /\ Has(Frames, req[r].mid)
    /\ Conclude(r, "idle", "already")
    /\ UNCHANGED <<disk, life, gen, task, req, body, seen, root, cand, acked>>

\* resolveCommittedEffects: a second scan, under a lock of its own.
ResolveEffects(r) ==
    /\ Holds(r, "effects")
    /\ \/ /\ ~Has(Frames, req[r].mid)
          /\ Conclude(r, "idle", "corruption")
       \/ \E i \in DOMAIN Frames :
            /\ Frames[i].mid = req[r].mid
            /\ IF Frames[i].body \in Large \ objects
               THEN Conclude(r, "idle", "recovery-required")
               ELSE Conclude(r, "idle", "already")
    /\ UNCHANGED <<disk, life, gen, task, req, body, seen, root, cand, acked>>

\* Mutant: only the active WAL is searched.
LookupReceiptsSkipped(r) ==
    /\ Holds(r, "receipts")
    /\ Conclude(r, "prepare", "continue")
    /\ UNCHANGED <<disk, life, gen, task, req, body, seen, root, cand, acked>>

\* lookupHistoricalMutation: the receipts of reclaimed segments.
LookupReceipts(r) ==
    /\ Holds(r, "receipts")
    /\ \/ /\ \A tx \in ledger : tx.mid # req[r].mid
          /\ Conclude(r, "prepare", "continue")
       \/ \E tx \in ledger :
            /\ tx.mid = req[r].mid
            /\ CASE tx.intent # req[r].intent    -> Conclude(r, "idle", "corruption")
                 [] tx.intent = req[r].intent /\ tx.body \in Large \ objects
                                                 -> Conclude(r, "idle", "recovery-required")
                 [] OTHER                        -> Conclude(r, "idle", "already")
    /\ UNCHANGED <<disk, life, gen, task, req, body, seen, root, cand, acked>>

\* Detached execution and validation of the post-state, without the lock; the
\* command may be rejected.  Generated ids and times decide the body.
Prepare(r) ==
    /\ stage[r] = "prepare"
    /\ \/ /\ \E b \in Bodies : body' = [body EXCEPT ![r] = b]
          /\ Enter(r, "measure")
          /\ UNCHANGED <<life, task, req, pending, root, cand>>
       \/ Settle(r, "refused")
    /\ UNCHANGED <<disk, gen, acked>>

\* Mutant: the frame about to be appended is not counted.
MeasureBefore(r) ==
    /\ stage[r] = "measure"
    /\ \E size \in ObservedSizes(r) :
            IF size > Envelope
            THEN Settle(r, "refused")
            ELSE /\ Enter(r, IF body[r] \in Large THEN "install" ELSE "commit")
                 /\ UNCHANGED <<life, task, req, body, pending, root, cand>>
    /\ UNCHANGED <<disk, gen, acked>>

\* assertActiveWalEnvelope: an unlocked look at the WAL's size.
Measure(r) ==
    /\ stage[r] = "measure"
    /\ \/ \E size \in ObservedSizes(r) :
            IF size + 1 > Envelope
            THEN Settle(r, "refused")
            ELSE /\ Enter(r, IF body[r] \in Large THEN "install" ELSE "commit")
                 /\ UNCHANGED <<life, task, req, body, pending, root, cand>>
       \/ /\ "io" \in Faults \/ seen[r] # head
          /\ Settle(r, "recovery-required")
    /\ UNCHANGED <<disk, gen, acked>>

\* Mutant: the object is named by the request, not by its content.
InstallByRequest(r) ==
    /\ Holds(r, "install")
    /\ objects' = objects \cup {req[r]}
    /\ Conclude(r, "commit", "continue")
    /\ UNCHANGED <<lock, head, ckpt, ledger, wal, dirty, torn, prior>>
    /\ UNCHANGED <<life, gen, task, req, body, seen, root, cand, acked>>

\* The payload object is made durable under a lock of its own.
Install(r) ==
    /\ Holds(r, "install")
    /\ objects' = objects \cup {body[r]}
    /\ Conclude(r, "commit", "continue")
    /\ UNCHANGED <<lock, head, ckpt, ledger, wal, dirty, torn, prior>>
    /\ UNCHANGED <<life, gen, task, req, body, seen, root, cand, acked>>

\* Mutant: the append is made on whatever base the log has now.
CommitOnAnyBase(r) ==
    /\ Holds(r, "commit")
    /\ IF torn \/ Has(Frames, req[r].mid)
       THEN Conclude(r, "idle", "recovery-required") /\ UNCHANGED torn
       ELSE /\ stage' = [stage EXCEPT ![r] = "writing"]
            /\ torn' = TRUE
            /\ UNCHANGED pending
    /\ UNCHANGED <<lock, head, ckpt, ledger, wal, dirty, prior, objects>>
    /\ UNCHANGED <<life, gen, task, req, body, seen, root, cand, acked>>

\* Mutant: an identity that appeared since the lookup is a conflict at once.
CommitWithoutRelook(r) ==
    /\ Holds(r, "commit")
    /\ IF Has(Frames, req[r].mid)
       THEN Conclude(r, "idle", "corruption") /\ UNCHANGED torn
       ELSE IF torn \/ gen[r] # History
       THEN Conclude(r, "idle", "stale-base") /\ UNCHANGED torn
       ELSE /\ stage' = [stage EXCEPT ![r] = "writing"]
            /\ torn' = TRUE
            /\ UNCHANGED pending
    /\ UNCHANGED <<lock, head, ckpt, ledger, wal, dirty, prior, objects>>
    /\ UNCHANGED <<life, gen, task, req, body, seen, root, cand, acked>>

\* FsWalStore.commit up to the first write: reconcile the identity against
\* the active WAL, then demand the exact base.
Commit(r) ==
    /\ Holds(r, "commit")
    /\ \/ /\ torn
          /\ Conclude(r, "idle", "recovery-required")
          /\ UNCHANGED <<wal, dirty, torn>>
       \/ /\ ~torn
          /\ \E i \in DOMAIN Frames :
                /\ Frames[i].mid = req[r].mid
                /\ IF Frames[i] = Tx(r)
                   THEN Conclude(r, "idle", "already") /\ SyncWal
                   ELSE Conclude(r, "relook", "continue") /\ UNCHANGED <<wal, dirty>>
          /\ UNCHANGED torn
       \/ /\ ~torn /\ ~Has(Frames, req[r].mid)
          /\ gen[r] # History
          /\ Conclude(r, "idle", "stale-base")
          /\ UNCHANGED <<wal, dirty, torn>>
       \/ /\ ~torn /\ ~Has(Frames, req[r].mid)
          /\ gen[r] = History
          /\ stage' = [stage EXCEPT ![r] = "writing"]
          /\ torn' = TRUE
          /\ UNCHANGED <<wal, dirty, pending>>
    /\ UNCHANGED <<lock, head, ckpt, ledger, prior, objects>>
    /\ UNCHANGED <<life, gen, task, req, body, seen, root, cand, acked>>

\* The last byte of the frame is written.
FinishWrite(r) ==
    /\ Holds(r, "writing")
    /\ dirty' = Append(dirty, Tx(r))
    /\ torn' = FALSE
    /\ stage' = [stage EXCEPT ![r] = "written"]
    /\ UNCHANGED <<lock, head, ckpt, ledger, wal, prior, objects>>
    /\ UNCHANGED <<life, gen, task, req, body, seen, pending, root, cand, acked>>

\* Mutant: the receipt is given before the WAL barriers.
SyncWriteSkipped(r) ==
    /\ Holds(r, "written")
    /\ Conclude(r, "idle", "committed")
    /\ UNCHANGED <<disk, life, gen, task, req, body, seen, root, cand, acked>>

\* The WAL and its directory are synced: the mutation is committed.
SyncWrite(r) ==
    /\ Holds(r, "written")
    /\ SyncWal
    /\ Conclude(r, "idle", "committed")
    /\ UNCHANGED <<lock, head, ckpt, ledger, torn, prior, objects>>
    /\ UNCHANGED <<life, gen, task, req, body, seen, root, cand, acked>>

\* A second lookup, after the commit met another use of the identity.
Relook(r) ==
    /\ Holds(r, "relook")
    /\ Search(r, "idle", "corruption")
    /\ UNCHANGED <<lock, head, ckpt, ledger, torn, prior, objects>>
    /\ UNCHANGED <<life, gen, task, req, body, seen, root, cand, acked>>

-------------------------------------------------------------------------------
(* Recovery: StartupRecovery.reconstruct *)

MissingObjects == ~(Referenced \subseteq objects)

\* Mutant: an incomplete tail takes the frames of the segment with it.
RepairTailWhole(r) ==
    /\ Holds(r, "recover")
    /\ torn /\ ~MissingObjects
    /\ torn' = FALSE
    /\ wal' = << >> /\ dirty' = << >>
    /\ UNCHANGED <<lock, head, ckpt, ledger, prior, objects, flow, acked>>

\* Every reference resolves, and an incomplete tail is cut off and synced;
\* the log is then scanned again.
RepairTail(r) ==
    /\ Holds(r, "recover")
    /\ torn /\ ~MissingObjects
    /\ torn' = FALSE
    /\ SyncWal
    /\ UNCHANGED <<lock, head, ckpt, ledger, prior, objects, flow, acked>>

\* Mutant: recovery publishes the checkpoint and forgets the WAL.
ReconstructCheckpoint(r) ==
    /\ Holds(r, "recover")
    /\ ~MissingObjects /\ ~torn
    /\ SyncWal
    /\ root' = [root EXCEPT ![r] = ckpt]
    /\ Conclude(r, "idle", "recovered")
    /\ UNCHANGED <<lock, head, ckpt, ledger, torn, prior, objects>>
    /\ UNCHANGED <<life, gen, task, req, body, seen, cand, acked>>

Reconstruct(r) ==
    /\ Holds(r, "recover")
    /\ \/ /\ MissingObjects
          /\ Conclude(r, "idle", "recovery-required")
          /\ UNCHANGED <<wal, dirty, root>>
       \/ /\ ~MissingObjects /\ ~torn
          /\ SyncWal
          /\ root' = [root EXCEPT ![r] = History]
          /\ Conclude(r, "idle", "recovered")
    /\ UNCHANGED <<lock, head, ckpt, ledger, torn, prior, objects>>
    /\ UNCHANGED <<life, gen, task, req, body, seen, cand, acked>>

-------------------------------------------------------------------------------
(* Rotation: rotateDurableStore, and runMaintenance's use of it *)

\* Mutant: the log is not proved to end at the captured generation.
RotateAnyGeneration(r) ==
    /\ Holds(r, "rotate")
    /\ head' = head + 1
    /\ ckpt' = gen[r]
    /\ ledger' = ledger \cup Entries(Frames)
    /\ wal' = << >> /\ dirty' = << >> /\ torn' = FALSE
    /\ prior' = [head |-> head, ckpt |-> ckpt, ledger |-> ledger, wal |-> Frames, torn |-> torn]
    /\ stage' = [stage EXCEPT ![r] = "switched"]
    /\ UNCHANGED <<lock, objects, life, gen, task, req, body, seen, pending, root, cand, acked>>

\* Mutant: the new ledger holds the receipts of the last segment only.
RotateLastReceipts(r) ==
    /\ Holds(r, "rotate")
    /\ gen[r] = History
    /\ head' = head + 1
    /\ ckpt' = gen[r]
    /\ ledger' = Entries(Frames)
    /\ wal' = << >> /\ dirty' = << >> /\ torn' = FALSE
    /\ prior' = [head |-> head, ckpt |-> ckpt, ledger |-> ledger, wal |-> Frames, torn |-> torn]
    /\ stage' = [stage EXCEPT ![r] = "switched"]
    /\ UNCHANGED <<lock, objects, life, gen, task, req, body, seen, pending, root, cand, acked>>

\* P0-P6: the captured generation must be where the log ends; the new ledger
\* and checkpoint are built and synced, and HEAD is renamed.
Rotate(r) ==
    /\ Holds(r, "rotate")
    /\ \/ /\ gen[r] # History
          /\ Conclude(r, "idle", "recovery-required")
          /\ UNCHANGED <<head, ckpt, ledger, wal, dirty, torn, prior>>
       \/ /\ gen[r] = History
          /\ head' = head + 1
          /\ ckpt' = gen[r]
          /\ ledger' = ledger \cup Entries(Frames)
          /\ wal' = << >> /\ dirty' = << >> /\ torn' = FALSE
          /\ prior' = [head |-> head, ckpt |-> ckpt, ledger |-> ledger,
                       wal |-> Frames, torn |-> torn]
          /\ stage' = [stage EXCEPT ![r] = "switched"]
          /\ UNCHANGED pending
    /\ UNCHANGED <<lock, objects, life, gen, task, req, body, seen, root, cand, acked>>

\* The directory sync confirms the rename, and P7 reclaims the old lineage.
\* Only a complete rotation lets maintenance go on to collection.
ConfirmSwitch(r) ==
    /\ Holds(r, "switched")
    /\ prior' = None
    /\ \/ Conclude(r, IF task[r] = "maintain" THEN "gc" ELSE "idle", "rotated")
       \/ "io" \in Faults /\ Conclude(r, "idle", "cleanup-pending")
    /\ UNCHANGED <<lock, head, ckpt, ledger, wal, dirty, torn, objects>>
    /\ UNCHANGED <<life, gen, task, req, body, seen, root, cand, acked>>

\* The barrier fails: the new lineage is visible but may not survive.
SwitchUnconfirmed(r) ==
    /\ "io" \in Faults
    /\ Holds(r, "switched")
    /\ Conclude(r, "idle", "unconfirmed")
    /\ UNCHANGED <<disk, life, gen, task, req, body, seen, root, cand, acked>>

\* runMaintenance rotates when a frame of maximal size might not fit.
Recommended(size) == size + Min2(FrameCap, Envelope) > Envelope

Observe(r) ==
    /\ stage[r] = "observe"
    /\ \/ \E size \in ObservedSizes(r) :
            IF Recommended(size)
            THEN Enter(r, "rotate") /\ UNCHANGED <<life, task, req, body, pending, root, cand>>
            ELSE Settle(r, "no-op")
       \/ /\ "io" \in Faults \/ seen[r] # head
          /\ Settle(r, "refused")
    /\ UNCHANGED <<disk, gen, acked>>

-------------------------------------------------------------------------------
(* Object collection: collectPayloadObjectGarbage *)

\* Mutant: receipts of reclaimed segments are not roots.
MarkActiveOnly(r) ==
    /\ Holds(r, "gc")
    /\ cand' = [cand EXCEPT ![r] = objects \ {tx.body : tx \in Entries(Frames)}]
    /\ stage' = [stage EXCEPT ![r] = "sweep"]
    /\ UNCHANGED <<disk, life, gen, task, req, body, seen, pending, root, acked>>

\* G1-G5: the log must end at the captured tip and every reference must be
\* installed; what is installed and not referenced is a candidate.
Mark(r) ==
    /\ Holds(r, "gc")
    /\ IF gen[r] # History \/ MissingObjects
       THEN Conclude(r, "idle", "authoritative") /\ UNCHANGED cand
       ELSE /\ cand' = [cand EXCEPT ![r] = objects \ Referenced]
            /\ stage' = [stage EXCEPT ![r] = "sweep"]
            /\ UNCHANGED pending
    /\ UNCHANGED <<disk, life, gen, task, req, body, seen, root, acked>>

\* G6: candidates are unlinked one by one.
Unlink(r) ==
    /\ Holds(r, "sweep")
    /\ \E o \in cand[r] :
        /\ objects' = objects \ {o}
        /\ cand' = [cand EXCEPT ![r] = @ \ {o}]
    /\ UNCHANGED <<lock, head, ckpt, ledger, wal, dirty, torn, prior>>
    /\ UNCHANGED <<life, gen, task, stage, req, body, seen, pending, root, acked>>

\* G7, or a failure on the way, which reclaims only part.
EndSweep(r) ==
    /\ Holds(r, "sweep")
    /\ \/ cand[r] = {} /\ Conclude(r, "idle", "collected")
       \/ "io" \in Faults /\ Conclude(r, "idle", "maintenance")
    /\ cand' = [cand EXCEPT ![r] = {}]
    /\ UNCHANGED <<disk, life, gen, task, req, body, seen, root, acked>>

-------------------------------------------------------------------------------
(* Failures *)

\* The errors I/O can end a locked stage with, before it changed the store.
\* Once a frame is being written every failure asks for reconciliation.
FailureCodes(s) ==
    CASE s \in {"writing", "written"} -> {"recovery-required"}
      [] s = "gc"                     -> {"authoritative", "maintenance"}
      [] OTHER                        -> {"recovery-required", "refused"}

\* I/O fails under the lock.  An object install may have got as far as the
\* rename.
StageFails(r) ==
    /\ "io" \in Faults
    /\ lock = r
    /\ stage[r] \in Scopes \cup {"writing", "written"}
    /\ \E code \in FailureCodes(stage[r]) : Conclude(r, "idle", code)
    /\ \/ UNCHANGED objects
       \/ stage[r] = "install" /\ objects' = objects \cup {body[r]}
    /\ UNCHANGED <<lock, head, ckpt, ledger, wal, dirty, torn, prior>>
    /\ UNCHANGED <<life, gen, task, req, body, seen, root, cand, acked>>

\* Processes die with everything they kept in memory; writer.lock stays.
Die(gone) ==
    /\ life' = [r \in Runtimes |-> IF r \in gone THEN "closed" ELSE life[r]]
    /\ gen' = [r \in Runtimes |-> IF r \in gone THEN << >> ELSE gen[r]]
    /\ task' = [r \in Runtimes |-> IF r \in gone THEN "none" ELSE task[r]]
    /\ stage' = [r \in Runtimes |-> IF r \in gone THEN "idle" ELSE stage[r]]
    /\ req' = [r \in Runtimes |-> IF r \in gone THEN None ELSE req[r]]
    /\ body' = [r \in Runtimes |-> IF r \in gone THEN None ELSE body[r]]
    /\ seen' = [r \in Runtimes |-> IF r \in gone THEN 0 ELSE seen[r]]
    /\ pending' = [r \in Runtimes |-> IF r \in gone THEN NoPending ELSE pending[r]]
    /\ root' = [r \in Runtimes |-> IF r \in gone THEN << >> ELSE root[r]]
    /\ cand' = [r \in Runtimes |-> IF r \in gone THEN {} ELSE cand[r]]
    /\ lock' = IF lock \in gone THEN Stale ELSE lock

\* A killed process: the page cache survives.
Crash(r) ==
    /\ "crash" \in Faults
    /\ life[r] # "closed" \/ task[r] # "none"
    /\ Die({r})
    /\ UNCHANGED <<head, ckpt, ledger, wal, dirty, torn, prior, objects, acked>>

\* A power loss: unsynced frames survive in part, a last one perhaps torn.
LosePower ==
    /\ "power" \in Faults
    /\ Die(Runtimes)
    /\ \E kept \in 0..Len(dirty) :
        /\ dirty' = SubSeq(dirty, 1, kept)
        /\ torn' \in IF torn \/ kept < Len(dirty) THEN BOOLEAN ELSE {FALSE}
    /\ UNCHANGED <<head, ckpt, ledger, wal, prior, objects, acked>>

\* A power loss that also undoes a HEAD rename no sync has confirmed.
LoseRename ==
    /\ "power" \in Faults
    /\ prior # None
    /\ Die(Runtimes)
    /\ head' = prior.head /\ ckpt' = prior.ckpt /\ ledger' = prior.ledger
    /\ wal' = prior.wal /\ torn' = prior.torn
    /\ dirty' = << >>
    /\ prior' = None
    /\ UNCHANGED <<objects, acked>>

\* An operator removes a writer.lock that has no owner.
ClearStaleLock ==
    /\ lock = Stale
    /\ lock' = None
    /\ UNCHANGED <<head, ckpt, ledger, wal, dirty, torn, prior, objects, flow, acked>>

-------------------------------------------------------------------------------
Init ==
    /\ lock = None /\ head = 0
    /\ ckpt = << >> /\ ledger = {} /\ wal = << >> /\ dirty = << >> /\ torn = FALSE
    /\ prior = None /\ objects = {}
    /\ life = [r \in Runtimes |-> "closed"]
    /\ gen = [r \in Runtimes |-> << >>]
    /\ task = [r \in Runtimes |-> "none"]
    /\ stage = [r \in Runtimes |-> "idle"]
    /\ req = [r \in Runtimes |-> None]
    /\ body = [r \in Runtimes |-> None]
    /\ seen = [r \in Runtimes |-> 0]
    /\ pending = [r \in Runtimes |-> NoPending]
    /\ root = [r \in Runtimes |-> << >>]
    /\ cand = [r \in Runtimes |-> {}]
    /\ acked = {}

\* The callers' choices.
Call(r) ==
    \/ Open(r) \/ Close(r)
    \/ BeginMutate(r) \/ BeginRecover(r) \/ BeginRotate(r) \/ BeginGc(r) \/ BeginMaintain(r)

\* The code's own steps, with no fault.
Step(r) ==
    \/ Take(r) \/ TakeOnOldHead(r) \/ Busy(r) \/ Release(r)
    \/ Lookup(r) \/ ResolveEffects(r) \/ LookupReceipts(r) \/ Prepare(r) \/ Measure(r)
    \/ Install(r) \/ Commit(r) \/ FinishWrite(r) \/ SyncWrite(r) \/ Relook(r)
    \/ RepairTail(r) \/ Reconstruct(r)
    \/ Rotate(r) \/ ConfirmSwitch(r) \/ Observe(r)
    \/ Mark(r) \/ Unlink(r) \/ EndSweep(r)

Fail(r) ==
    TakeFails(r) \/ ReleaseFails(r) \/ StageFails(r) \/ SwitchUnconfirmed(r) \/ Crash(r)

Next ==
    \/ \E r \in Runtimes : Call(r) \/ Step(r) \/ Fail(r)
    \/ LosePower \/ LoseRename \/ ClearStaleLock

Spec == Init /\ [][Next]_vars

\* An asynchronous operation that was begun is carried on by the event loop.
FairSpec == Spec /\ \A r \in Runtimes : WF_vars(Step(r))

-------------------------------------------------------------------------------
(* Properties *)

\* The values every variable may take.
TypeOK ==
    /\ lock \in Runtimes \cup {None, Stale}
    /\ head \in Nat
    /\ ckpt \in Seq(Transaction)
    /\ ledger \subseteq Transaction
    /\ wal \in Seq(Transaction)
    /\ dirty \in Seq(Transaction)
    /\ torn \in BOOLEAN
    /\ prior \in Lineage \cup {None}
    /\ objects \subseteq Bodies
    /\ life \in [Runtimes -> {"ready", "recovery-required", "closed"}]
    /\ gen \in [Runtimes -> Seq(Transaction)]
    /\ task \in [Runtimes -> Kinds \cup {"none"}]
    /\ stage \in [Runtimes -> Stages]
    /\ req \in [Runtimes -> Requests \cup {None}]
    /\ body \in [Runtimes -> Bodies \cup {None}]
    /\ seen \in [Runtimes -> Nat]
    /\ pending \in [Runtimes -> [next : Stages, code : Codes]]
    /\ root \in [Runtimes -> Seq(Transaction)]
    /\ cand \in [Runtimes -> SUBSET Bodies]
    /\ acked \subseteq Requests

\* A mutation identity commits at most once over WAL and reclaimed receipts
\* together, whoever retried or raced it.
CommittedOnce == \A i, j \in DOMAIN History : History[i].mid = History[j].mid => i = j

\* A mutation a caller was told is committed survives every crash, power
\* loss, rotation and tail repair, under the intent it was sent with.
AckedDurable == \A q \in acked : Settles(DurableHistory, q)

\* What a runtime serves to readers is a prefix of the durable history: no
\* read shows a mutation that a power loss could take back.
PublishedIsDurable ==
    \A r \in Runtimes :
        /\ Len(gen[r]) =< Len(DurableHistory)
        /\ \A i \in DOMAIN gen[r] : gen[r][i] = DurableHistory[i]

\* The cumulative receipts are those of exactly the history the checkpoint
\* encodes, though one is merged from files and the other from memory.
LedgerMatchesCheckpoint == ledger = Entries(ckpt)

\* A HEAD rename that a power loss may still undo changes nothing a caller
\* can see: the old lineage ends where the new one begins, and nothing has
\* been appended to the new one.
RevertIsHarmless ==
    prior # None => /\ Frames = << >>
                    /\ prior.ckpt \o prior.wal = ckpt
                    /\ ledger = prior.ledger \cup Entries(prior.wal)

\* The active WAL never outgrows its envelope, although the size is checked
\* without the lock, stages before the append.
EnvelopeRespected == Len(Frames) =< Envelope

\* Every object the receipts or the WAL reference is installed, so that
\* recovery can rebuild the state.
ReferencesPresent == Referenced \subseteq objects

\* A mutation answered with PERSISTENCE_CORRUPTION was sent under an identity
\* committed with another intent.
CorruptionMeansConflict ==
    \A r \in Runtimes :
        (task[r] = "mutate" /\ pending[r].code = "corruption" /\ pending[r].next = "idle"
            /\ stage[r] = "release")
            => Has(History, req[r].mid) /\ ~Settles(History, req[r])

\* A mutation answered with PERSISTENCE_CORRUPTION was committed, and if it was
\* under the same intent, a rotation has since moved it out of the active WAL.
OnlyRotationHides ==
    \A r \in Runtimes :
        (task[r] = "mutate" /\ pending[r].code = "corruption" /\ pending[r].next = "idle"
            /\ stage[r] = "release")
            => /\ Has(History, req[r].mid)
               /\ Settles(History, req[r]) => ~Has(Frames, req[r].mid)

\* Alone on its store, a runtime that is ready and idle has published exactly
\* what the store holds: every outcome that leaves doubt demotes it.
ReadyIsCurrent ==
    \A r \in Runtimes :
        (life[r] = "ready" /\ task[r] = "none") => gen[r] = History /\ ~torn

\* A published generation never loses a transaction while its runtime lives.
PublishedNeverShrinks ==
    [][\A r \in Runtimes :
        life'[r] # "closed" =>
            /\ Len(gen[r]) =< Len(gen'[r])
            /\ \A i \in DOMAIN gen[r] : gen'[r][i] = gen[r][i]]_vars

\* The promise: DurableStore implements the log that only grows, whole
\* published views, and answers given from a view holding the command.
Promise == INSTANCE CommittedHistory WITH log <- DurableHistory, view <- gen

KeepsPromise == Promise!Spec

\* Every call settles, whatever the other runtimes do: no stage waits for the
\* lock or for another runtime, so nothing queued behind it starves.
CallsSettle == \A r \in Runtimes : task[r] # "none" ~> task[r] = "none"

===============================================================================
