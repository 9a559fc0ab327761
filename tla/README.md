# Ether Memories: models, checks and proofs

Ether Memories keeps a user's memory notes, diary and mind graph. In durable
mode a `DurableRuntime` stores them in a directory: a checkpoint, a write-ahead
log (WAL), receipts of reclaimed log segments, payload objects, and a `HEAD`
file that selects the current lineage. There is no server and no lock manager:
several processes may open one directory, and the only coordination is the
exclusive creation of a file, `writer.lock`, which is taken and given back
several times within one operation. What this project is about is whether
that is enough, through races, failing I/O, kills and power losses.

Paths below are relative to the repository (`src/core/...`, `docs/...`).

## 1. Inventory

| Component | Code | State | Operations |
| --- | --- | --- | --- |
| Durable runtime | `core/DurableEtherMemories.ts` | lifecycle, published generation (state and tip), a queue of one operation at a time | `open`, mutations, `recover`, `rotate`, `collectGarbage`, `runMaintenance`, `close`, reads |
| Mutation commit path | `persistence/productionOperations.ts`, `mutationPreparation.ts`, `payloadObjects.ts` | none; uses all of the store | identity lookup, receipt lookup, detached preparation, envelope check, object install, append, second lookup, effect resolution |
| WAL store | `persistence/FsWalStore.ts`, `walFileScan.ts`, `walIO.ts` | the active WAL; a bounded cache of its scan | read committed identity, commit on an exact base |
| Writer authority | `persistence/recoveryAuthority.ts`, `directoryIO.ts` | `writer.lock` | acquire, verify, release |
| Startup recovery | `persistence/StartupRecovery.ts`, `stateRoot.ts`, `walReplay.ts` | a reconstructed root | reference resolution, tail repair, sync, replay |
| Rotation and receipts | `persistence/checkpointRotation.ts`, `receiptLedger.ts` | checkpoints, ledgers, the WAL of each lineage | seal, merge, activate, switch `HEAD`, reclaim |
| Object reclamation | `persistence/objectReclamation.ts`, `DurableEtherMemories.ts` 378-655 | sealed candidate runs | mark, sort, unlink |
| Store creation and inspection | `persistence/FsDurableStore.ts` | the directory's layout | inspect, initialize |
| Identity indexes | `persistence/recoveryMutationIndex.ts`, `mutationHistoryVerification.ts` | spilled sorted runs, a manifest of reserved file numbers | record, flush, merge in passes, verify, sweep and clean up, under a byte allowance |
| WAL codec and scanner | `persistence/wal*.ts`, `codecs.ts`, `etherData.ts`, `snapshotPayload.ts` | none | encode, decode, classify tails |
| Memory core | `core/EtherMemories.ts`, `MemoryNotes.ts`, `DiarySystem.ts`, `MindGraph.ts`, `FoundationLinker.ts` | notes, diary, graph, cross-links | create, revise, link, connect |
| Retrieval and context | `core/MemoryRetriever.ts`, `MemoryContext.ts`, `LexicalIndex.ts`, `Tokenizer.ts` | a lexical index rebuilt on demand | query, walk the graph, assemble a context |
| Condensation | `core/CondensationEngine.ts` | none | analyze a text, create a candidate note from it |
| Dream analysis | `core/dream*.ts` | one captured generation | select, propose, validate |
| Inspection | `core/memoryInspection.ts`, `inspection*.ts`, `snapshotPreparation.ts` | none | project a snapshot |
| Adapters | `adapters/*.ts` | none | JSON, portable export and import, tool schemas |

**How they interact.** A caller's mutation enters the runtime's queue. It is a
chain of up to seven holds of `writer.lock`, and between two of them the lock is
free: look up the identity in the active WAL; look it up in the ledger; prepare
and measure without the lock; install payload objects; append on an exact base;
on a stale base look up again; resolve effects. `HEAD` is read *before* each
acquisition and verified after it. Recovery, rotation and collection are one
long hold each; maintenance chains an unlocked look, a rotation and a
collection. Every error is routed by its code to one of: leave the runtime
ready, or demote it to `recovery-required`.

**What is hard.** (a) Everything one hold learnt can be stale in the next.
(b) A write is durable only after the file's barrier, a file's name only after
its directory's; in between a crash may show either, and other processes
already see it. (c) A mutation is retried under its identity, by another
process, after a rotation moved the identity to another file. (d) A failure
after a commit must not be reported as a failure before it. (e) Work that is
never waited for must not be lost, and nothing may wait for ever.

**What makes each part correct.**

- Runtime: readers see durable history only, a generation never shrinks, a
  runtime left in doubt cannot write, every call settles.
- Commit path: one commit per identity; the same answer to a retry; an
  acknowledged mutation is never lost; the envelope is respected.
- WAL and recovery: the history after any crash is one that was being written,
  and recovery is idempotent.
- Rotation: the lineage switch changes no history, and undoing it is harmless;
  the ledger and checkpoint stand for the same history.
- Collection: what is referenced stays.
- Identity indexes: a recovery refuses exactly the histories that commit an
  identity twice, however the records are spread over runs and passes; the
  allowance holds at every instant; nothing an interrupted recovery left, or a
  first pass recorded, disturbs a later one.
- Scan cache: what is reused is what a scan would find.
- Creation: a visible `HEAD` is complete; one creator wins; leftovers never
  look like a store.
- In-memory core: the graph mirrors notes and entries, every reachable state
  survives its own export, the index agrees with what it indexes, and what a
  mutation records replays to what it did. Recall finds what is in reach, by the
  least shortest path and under the best seed, whatever the order of insertion.

`PROJECT.json` lists every component with its status, and under `hazards` each
hard case at its line with the properties aimed at it.

## 2. Modules

| Module | What it is |
| --- | --- |
| `CommittedHistory` | The promise to a caller, with no lock, file or fault in it: a log that only grows, views that are whole prefixes of it, answers given from a view that holds the command. |
| `DurableStore` | The core: any number of runtimes on one store, every operation as its chain of stages, with faults. |
| `DurableStoreInvariant` | `Coherent`, the inductive strengthening of the safety properties, and what the theorems about its limits need beside it. |
| `StoreBootstrap` | Calls of `open` racing to create one store, one file-system call at a time. |
| `CheckpointRotation` | A rotation, one file-system call at a time, cut short anywhere and tried again. |
| `ReceiptMerge` | What a rotation computes in between: the sorted runs of a segment, merged with the predecessor's ledger, and lookups in the result. |
| `ObjectReclamation` | A collection: two external sorts, their comparison, batched unlinking, cut short anywhere and tried again. |
| `ScanCache` | `DurableStore` with what each runtime's `FsWalStore` remembers of the log between two attempts. |
| `SortedRuns` | What the two identity indexes of a recovery share: the call in progress, the k-way merge, the passes of merges. |
| `RecoveryMutationIndex` | The index of the active WAL's identities, one file operation at a time. |
| `MutationHistory` | The verification of those identities against each other and the receipt ledger, one file operation at a time. |
| `RecoveryScan` | The recovery that drives both: a first pass, a tail repair, a second pass, cut short anywhere and tried again. |
| `Maintenance` | `ReceiptMerge` followed by `ObjectReclamation`, as `runMaintenance` runs them, or by a later `RecoveryScan` against the merged ledger. |
| `MemoryCore` | The core in memory: notes, diary, graph, linker, condensation, index, snapshots, imports, and the effects a durable mutation records. |
| `Recall` | Queries over a core: direct matches, the capped walk of the graph from them, order and limit. |
| `MCDurableStore`, `MCScanCache`, `MCStoreBootstrap`, `MCMaintenance`, `MCMemoryCore` | Instances for TLC. |
| `CommittedHistory_proofs` | Theorem about the promise. |
| `DurableStore_proofs` | Theorems: `Coherent` and the safety properties it implies; `DurableStore` implements `CommittedHistory`; what a runtime publishes only grows; the envelope, what a corruption answer means, what holds for a runtime alone on its store, and when references stay. |
| `ScanCache_proofs`, `StoreBootstrap_proofs`, `CheckpointRotation_proofs` | Theorems about these modules; each invariant is at the end of the module it is about. |
| `Maintenance_proofs` | Theorems about `ReceiptMerge` and `ObjectReclamation` as `Maintenance` runs them, with their invariants. |
| `RecoveryScan_proofs` | Theorems about a recovery's two indexes, in `Maintenance`: the invariant of a recovery, the verdict, the allowance, leftovers, the second pass. |
| `MemoryCore_proofs` | Theorems about the core in memory: every state is sound, restored exactly and indexed rightly, and the effects of every mutation replay to its outcome. |

How they compose: `MemoryCore` says what one command makes of a state and that
its recorded effects say the same; `DurableStore` takes that body as given and
says which commands become durable, once, in which order; `StoreBootstrap` and
`CheckpointRotation` open up the two places where `DurableStore` takes one step
and the code makes many file-system calls, `ReceiptMerge` the computation inside
the second of them, and `ObjectReclamation` a collection's marking and sweep.
`Maintenance` takes the references the collection marks, and the receipts a
recovery verifies against, from the ledger the rotation merged. `ScanCache`
opens up the reads of the log `DurableStore` makes at once, and `RecoveryScan`
the verification inside its `Reconstruct`.

### DurableStore

*Store.* `lock` is `writer.lock`; `head` numbers the lineage `HEAD` selects,
`ckpt` and `ledger` are what its checkpoint and ledger hold. Its WAL is `wal`
(frames behind a barrier), `dirty` (complete frames not yet synced) and `torn`
(an incomplete frame follows). `prior` is the lineage a power loss may bring
back while the `HEAD` rename is unsynced. `objects` are the payload objects.

*Runtimes.* `life`, `gen` (the published generation), `task` and `stage` (the
operation and where it is), and what the operation carries: `req`, `body`,
`seen` (the lineage `HEAD` named when it was read), `pending` (what follows the
release), `root` (a recovered state), `cand` (a collection's candidates).

*Abstractions.* A generation is the sequence of transactions it was built from
(the tip is a digest chain, so equal tips are equal sequences). What preparation
computes is an arbitrary body; large bodies are committed by reference to an
object named by its content. Sizes are counted in frames. Errors are kept apart
by how they are routed: all that say nothing about the store are `refused`.

*Stages.* A stage in `Scopes` takes the lock (`Take`), finds that `HEAD` moved
(`TakeOnOldHead`), finds it busy and fails at once (`Busy`) or fails on I/O
(`TakeFails`); does its work; and releases it (`Release`), which either moves on
to the next stage or ends the operation through `Deliver` and `Settle`. One
action per stage: `Lookup`, `LookupReceipts`, `Prepare`, `Measure`, `Install`,
`Commit` / `FinishWrite` / `SyncWrite` (a frame is begun, complete, durable),
`Relook`, `ResolveEffects`; `RepairTail`, `Reconstruct`; `Rotate`,
`ConfirmSwitch`; `Observe`; `Mark`, `Unlink`, `EndSweep`.

*Faults.* `io` (any stage, acquisition or barrier fails), `release` (the lock's
removal fails and it may stay), `crash` (a process is killed, the page cache
survives), `power` (unsynced frames survive in part, the last one perhaps torn;
an unsynced rename may be undone). `ClearStaleLock` is the operator of
`docs/af1-persistence-foundation.md`: an orphaned lock is never broken by code.

### StoreBootstrap

`Program` lists, in order, the file-system calls of each part of `open`:
inspection, creation, recovery under the lock, release, cleanup. `Perform` does
the next call, `Fails` ends the part as its `catch` does, `After` says which
part follows. `disk` says who made each entry, `kept` which entries a power loss
finds, `whole` which files are complete. An entry's name is durable once its
directory is synced, and a power loss keeps any subset of the unsynced changes.

### CheckpointRotation

`Rotation` lists the calls of P0-P7 in order, as `Program` does above: sweep of
the scratch names, merge into a candidate ledger, activation of ledger and
checkpoint, the `HEAD` rename, its confirmation, removal of the retired lineage.
`disk` is the directory as every process sees it; `unsynced` lists the changes to
entries a power loss may take back, each with what the entry held before. A
failing call ends the attempt and `Report` is what its caller is told; `Begin`
starts the next one on whatever was left. `Commit` adds to the log between
attempts, so that a new attempt works towards other names. A lineage is named,
as by its digest, by what it was made of: where it and its ancestors were cut.
`InOrder` says what the file system promises: of the changes to one directory a
power loss takes back the last ones (`rotation`), or any (`unordered`).

### ReceiptMerge

A segment is read into a buffer of `Chunk` entries that is sorted and flushed
into one of `Namespace` runs (`Add`, `Flush`, `Finish`); the runs and the
predecessor's ledger are merged by smallest identity (`Write`), and two equal
heads are corruption. `Lookup` reads a ledger in order and stops early.

### ObjectReclamation

`references` is what the operations of the ledger and the WAL refer to, `objects`
the files there are, `scratch` the run files, `gc` one attempt: its phase (G1 to
G7 of the code), a sorter for each stream, candidates and what was validated. A
sorter buffers digests and writes chunks to its active bank (`FlushChunk`); when
that bank is full, and at the end, all its runs are merged into the other bank
(`MergeRuns`, up to the complete output; `SwapBanks`, which unlinks the inputs).
The two sorted runs are read side by side (`CoverReachable`, `CoverCandidate`,
`CoverMissing`); what only `objects/` has is validated and unlinked in batches
with a barrier each. Run files are created exclusively, so a leftover of that
name stops the attempt (`Create`). `Fails`, `Killed` and `PowerLost` cut an
attempt short; what is in `scratch` stays for the next one. Commits happen
between attempts only, because the lock is held; that objects are installed
without it is the first finding and part of `DurableStore`.

### ScanCache

`cache` is, by runtime, `this.cache` of its `FsWalStore`: the lineage and size it
stands for, the tip, the entries there was room for and whether they are all.
`DurableStore`'s steps are unchanged; with each, `Caching` says what becomes of
the memory. The attempts are `Lookup`, `Commit` to `SyncWrite`, and `Relook`; one
that answers remembers what it `Validated` (which is the old memory where the
code reuses it), `Extended` by its own frame; one that throws forgets, as does a
failing release. A stamp is the file's size: times only tell more states of the
file apart. An absent WAL file counts as an empty one.

### SortedRuns, RecoveryMutationIndex, MutationHistory, RecoveryScan

A recovery reads the active WAL frame by frame and gives every identity to both
indexes (`Proceed`); after the last one each verifies. One call of an index is in
progress at a time: `call` says which, where it is and what it answered. A
`RecoveryMutationIndex` buffers records, flushes them into numbered run files
that are created exclusively (`FlushIndex`), reserves numbers in a manifest
before it uses them (`Reserve`), merges groups of runs until one group is left
(`StartIndexMerge`, `FinishIndexMerge`), unlinks the inputs of each group
(`UnlinkInput`) and looks for one identity under two transactions (`ScanGroup`).
A `MutationHistoryVerifier` keeps the inputs until all files are unlinked
(`CleanHistory`), finds repetitions while it flushes, and compares its last run
with the ledger's receipts (`VerifyOrdered`). An incomplete tail is cut, the
indexes are emptied (`ResetIndex`, the verifier's cleanup) and the same WAL is
recorded again. `OperationFails`, `KilledScanning` and `PowerLostScanning` cut a
recovery short; the next one starts on the files that are left, any of them
after a power loss.

A record is an identity and a transaction, a size is a number of records, and
the manifest is one unit. Encodings and digests of run files are left out, so a
record that does not decode is not modelled; what a leftover file holds is never
read. `kind` says whether there is a WAL file. A store has none after its creation
and after every rotation, until the first commit; a recovery then calls neither
index to record or verify (`Verified`), so the verifier never sweeps its
namespace, and what an earlier recovery left of it stays until one that scans a
file. `SuccessLeavesNoHistory` is about those. The cleanup can fail at an unlink or
at the directory barrier after the last one (`CleanHistoryFails`).

### MemoryCore

`core` holds the four collections as sequences, because the order of a map's
keys and of the graph's nodes is part of what is saved. Every operation of
`EtherMemoriesCore` is one action, the linker's calls included. `index` and
`fresh` are the lexical index and whether the revision it was built at is still
the current one. `save`, `load` and `importPortableRecords` are calls of two
steps with anything in between: a save exports at once and renames later, an
import captures the identifiers that exist and applies its records later.
`Accepted` and `Committed` are `prepareSnapshot` and `commitSnapshot`.

`Effects` is the difference `prepareCoreMutation` records of two states and
`Replayed` is its reduction: one effect after the other (`Reduced`), until one
would remove what is absent (`Missing`). They are checked on every reachable
state and every command a durable mutation may run on it (`Outcomes`).
`Sound` says what a core made by the program is; it is the invariant of the
theorems, and what is assumed of a file an earlier process saved.

The loops of the code over notes, entries, nodes and edges are recursive
functions of a position, without operator arguments, so that the theorems can
unfold them.

Identifiers are numbers in the order of their strings, texts are model values,
dates are "has one that may have passed". Names of relations stand for
themselves; three of the eight starter relations are enough to tell a known one
from an unknown. Callers use the core's own operations and add nodes and edges;
the module references (`core.notes`, ...) let them go around the linker, which
is their own doing and not modelled, nor is a snapshot the core did not export.

`Condense` creates the candidate note a condensation ends with; the text it is
made of is arbitrary. `Init` also admits the states in which a file already
holds a snapshot of `Saved`, a step before the bound, so that cores too large to
be built up operation by operation are loaded.

### Recall

`RecallNeighbors` is the walk of `MindGraphManager`, level by level, node by node
and edge by edge in the order of identifiers, with its cap and its improvement
of paths of equal length; `Recalled` is `MemoryRetriever.query` around it. Both
are functions of a core, evaluated in every state in which the index is fresh
and compared with reference definitions that know no order: `WalkIsExact`
(shortest paths, the least of them, a cap that cuts only the last level) and
`QueryIsExact` (every note under its best match, in order, and a smaller limit
only cuts the list). Texts match when they are equal; importance, confidence and
times are equal for all notes, and give every match the same `Base`. A match by
identifier is scored 0 before that (`MemoryRetriever.ts:71`), a phrase 0.92
(`Weight`): the identifier ranks first by its class, but a neighbour of both is
found under the phrase, even when that is a step further away. A note with an edge to itself is no seed of these
comparisons; see section 4.

### CommittedHistory

`DurableStore` is shown to implement it with `log <- DurableHistory` and
`view <- gen`: a rotation, a repair and an undone rename are stutters, a barrier
that makes a frame durable is a commit, a recovery publishes a view.

## 3. Runs

| Run | Instance | Question |
| --- | --- | --- |
| `alone` | one runtime, 3 identities, an identity reused with another intent, 2 bodies, envelope 2, 2 rotations, every operation, every fault | do receipts follow the checkpoint, do references stay present, is an idle ready runtime current, does its generation never shrink |
| `shared` | two runtimes, 2 identities and a conflicting intent, envelope 1, 1 rotation, every operation, no faults | one commit per identity, readers see durable history, the envelope, what a retry may be answered, refinement of `CommittedHistory` |
| `faulty` | two runtimes, 2 identities, envelope 2, 1 rotation, all faults, caches of one entry | `Coherent`, acknowledged mutations survive, an undone rename is harmless, the cache agrees with the log |
| `progress` | two runtimes, every operation but close, failing I/O and releases, fairness | every call settles |
| `bootstrap` | three calls of `open`, one of each mode, failing I/O, kills, power losses | a visible `HEAD` is complete, locks are owned, modes respected, an opened store survives |
| `rotation` | any number of attempts at two rotations over two commits, failing I/O, kills and power losses, ordered directories | `HEAD` selects a complete lineage, no attempt blocks a later one, reports stay true, confirmed retirement is final |
| `maintenance` | every segment of up to five identities, every predecessor of up to two, chunks of two, two runs; then two collections over up to five objects, banks of two runs, chunks and batches of two; or two recoveries of a store without a WAL file or with one of up to six frames, with runs of one and two records, groups of two, eight and six file numbers, allowances of 7 and 14; with every fault | `LedgerIsExact`: the ledger is the ordered union and lookups agree; `RefusalsAreExact`: duplicates and only they are corruption, capacity is exact; nothing referenced is unlinked, a success leaves nothing else, a missing object stops it, leftovers do not, what it reported stays gone; a recovery's verdict is exact, within the allowance at every instant, undisturbed by leftovers and by its own first pass |
| `memory` | five operations on one note, one entry and imported ones, a user node and edge, one call at a time in progress; or a load of one of 128 snapshots of four linked notes; six queries in each fresh state | the graph mirrors the notes, restore is exact, the index agrees, effects reproduce, recall is exact |
| `collect_race` | two runtimes, mutations and collection, no faults | *violated*: see findings |
| `rotate_race` | two runtimes, mutations and rotation, no faults | *violated*: see findings |
| `unordered` | `rotation` with directories that keep changes in any order | *violated*: see findings |
| `import_race` | `memory` with two calls in progress | *violated*: see findings |

**Bounds.** `Envelope`, `MaxHead`, `Requests`, `Bodies` and `Runtimes` are the
only bounds of `DurableStore`; a run ends when envelope and rotations are used
up. Two frames are what it takes for a partly durable log; two rotations for a
ledger merged with one that was merged; two runtimes for every race between
what one knows and another does (a third adds another `Busy`); two identities
and a reused one for the cases of `Settles`. `DurableStore`'s theorems hold for
every value. `SYMMETRY` is over runtimes, in safety runs without constants that
tell them apart, and never in the liveness run. `StoreBootstrap` stops when all
calls ended, so its run does not check deadlock; three calls let two losers
race each other as well as the winner.

`CheckpointRotation` is bounded by `MaxCommits` and `MaxRotations`, the attempts
are not: the second rotation is the first with a predecessor ledger to merge and
to retire, and a commit between two attempts is what makes them differ. `ReceiptMerge` has no bound but its inputs; they
hold a full, a partial and an empty last chunk, more entries than the namespace
takes, and duplicates within a chunk, over chunks and with the predecessor. Both
stop when their work is done, so their runs do not check deadlock.
`ObjectReclamation` is bounded by `MaxAttempts` and `MaxReferences`: the second
attempt is the one that meets leftovers and unsynced unlinks, and five objects
in chunks of two fill a bank of two with a chunk still to come.
At most one referenced object is missing at the start.
Two recoveries are what it takes for leftovers to be met. With groups of two,
five runs need three passes and leave a last group of one; an allowance of 14
fits every WAL there is but not every file number does, and one of 7 stops a
merge whose inputs and output do not fit together. `CacheEntries = 1` makes the
second identity of a log the one there is no room for.
`MaxId`, the greatest identifier of a note or an entry, is the bound that keeps
the names of the three kinds of nodes apart. `MaxOperations` bounds `MemoryCore`: five operations are enough to link, import,
save, change and load again; one own note and entry beside the imported ones are
enough for every cross-link. The 128 snapshots are every choice of seven edges among four
notes: a diamond with paths of equal length, a shortcut, a cycle and a loop; the
six queries use one and two steps, every direction, a cap and a limit that cut,
a choice of relations, and two identifiers besides the text.

**Fairness.** `FairSpec` asks weak fairness of each runtime's own steps: an
asynchronous operation that was begun is carried on by the event loop, and no
stage waits: a busy lock fails at once. Nothing is asked of callers, faults or
the operator, so `CallsSettle` does not rely on a lost lock ever being removed.

**Single-runtime claims.** `ReferencesPresent`, `ReadyIsCurrent` and
`PublishedNeverShrinks` are checked with one runtime; the last is proved for any
number, so that appends of another runtime during a recovery are covered by the
theorem and not by the run; the first is proved when nobody collects. `ReadyIsCurrent` is about
a runtime alone on its store (another one's commit makes it stale by design).
The other runtimes' influence on the first is exactly the first finding.
`OnlyRotationHides` is what holds with two runtimes of the property the second
finding is about.

## 4. Findings

1. **Collection races object installation** (`collect_race`). Objects are
   installed under one hold of `writer.lock`
   (`src/persistence/productionOperations.ts:496-504`) and the frame that
   references them is appended under another (507). A collection by another
   runtime in between sees no reference and unlinks the object. It moves neither
   `HEAD` nor the WAL, so the append's exact-base check passes: a committed
   transaction refers to an object that is gone and the store cannot be
   recovered. `docs/af1-tranche8-object-reclamation.md:207-208` says conforming
   writers cannot race collection at all.
2. **Rotation races effect resolution** (`rotate_race`). An identity found in
   the active WAL (234) has its effects resolved under a second hold (240, 287).
   A rotation in between empties the active WAL and the retry of a committed
   command is answered `PERSISTENCE_CORRUPTION`, where
   `docs/af1-tranche6-live-runtime.md:190-192` promises the original result.
3. **The receipts directory's own entry** (`unordered`). The first rotation
   creates `receipts/` (`src/persistence/checkpointRotation.ts:335`) and syncs
   its contents, but not the store directory that names it before `HEAD` is
   renamed there (477). Where a directory may keep the rename without the
   earlier entry, a power loss leaves a `HEAD` whose ledger is gone;
   `docs/af1-tranche7-rotation-receipts.md:136-137` says that `HEAD` never
   references what is not durable at its final path.
4. **Overlapping imports overwrite** (`import_race`). `importPortableRecords`
   captures the identifiers that exist before it awaits its input
   (`src/core/EtherMemories.ts:197-198`) and does not look again (202-203). Two
   imports of one record both pass, and the second silently replaces the note
   the first made, edits included, where `tests/portable-import.test.ts:72` says
   that existing identifiers are not overwritten.

Also met, without a run:

- The live runtime publishes graph nodes in the order the core created them,
  replay in the order of the effects, so after a note whose parent entry has no
  node yet the published bytes and the recovered ones differ
  (`docs/af1-tranche6-live-runtime.md:75-77` calls them byte-identical).
  `EffectsReproduce` compares the exact order, except where one mutation creates
  two nodes.
- An edge from a note to itself, with an identifier below its others', gives the
  root of the walk a path of its own, and the direct neighbours paths of length
  two, which a query of depth one drops (`src/core/MemoryRetriever.ts:112`);
  `src/core/MindGraph.ts:94` says that visited nodes are not expanded again.
  `RecallIsExact` is stated for seeds without such an edge.
- `RETRIEVAL_CLASS_WEIGHTS.explicit_id` is 1 (`src/core/MemoryRetriever.ts:22`) and
  never used: the query scores such a match 0 (71). No document or test says which
  of the two is meant; the model follows the query.
- A successful recovery without a WAL file leaves the verifier's run files of an
  earlier, interrupted one in `.private/`
  (`src/persistence/StartupRecovery.ts:116-118`); the next one that scans a file
  removes them.

## 5. Proofs

The theorems hold for every value of the constants that satisfies the modules'
named assumptions, which say no more than the code does:

- `ConstantsOK`, `CacheEntriesOK`, `ModesOK`, `RotationConstantsOK`,
  `MergeConstantsOK`, `ReclamationConstantsOK`, `RefersOK`, `FanInOK`,
  `IndexConstantsOK`, `HistoryConstantsOK` and `ReopeningOK` give constants their
  types; the sizes of chunks, buffers and batches are at least one, the slots of
  a sorter and the fan-in of a merge two.
- `CoreConstantsOK`: the nodes callers add are not named `memory:` or `diary:`,
  which is the linker's to do, and of the edges they name there are finitely many.
- `CallersOK` and `PayloadsOK`: drafts and patches have the fields notes have and
  do not name an identifier, and no identifier occurs twice in a payload, which
  `validateRecord` refuses (`src/core/EtherMemories.ts`).
- `SavedOK`: a file from an earlier process holds a sound core. `CoresStaySound`
  proves the same of what this process writes there, so nothing else is ever
  found; a file edited by hand is not modelled.

Where a theorem has a hypothesis of its own, the table says so.

| Theorem | Property | Hypothesis |
| --- | --- | --- |
| `CommittedHistory_proofs!PromiseHolds` | the promise's own three | |
| `DurableStore_proofs!TypeCorrect` | `TypeOK` | |
| `DurableStore_proofs!CoherentAlways` | `Coherent` | |
| `DurableStore_proofs!MutationsCommitOnce` | `CommittedOnce` | |
| `DurableStore_proofs!AcknowledgedIsDurable` | `AckedDurable` | |
| `DurableStore_proofs!ReadersSeeDurable` | `PublishedIsDurable` | |
| `DurableStore_proofs!RotationKeepsHistory` | `LedgerMatchesCheckpoint` | |
| `DurableStore_proofs!RevertsAreHarmless` | `RevertIsHarmless` | |
| `DurableStore_proofs!PromiseKept` | `KeepsPromise` (refinement) | |
| `DurableStore_proofs!PublishedOnlyGrows` | `PublishedNeverShrinks` (action property) | |
| `DurableStore_proofs!WalStaysBounded` | `EnvelopeRespected` | |
| `DurableStore_proofs!CorruptionIsExplained` | `OnlyRotationHides` | |
| `DurableStore_proofs!ReadyMeansCurrent` | `ReadyIsCurrent` | one runtime |
| `DurableStore_proofs!ReferencesStay` | `ReferencesPresent` | one runtime, or nobody collects |
| `ScanCache_proofs!MemoryIsTheLog` | `CacheAgrees` | |
| `StoreBootstrap_proofs!BootstrapSound` | `Bootstrapped` | |
| `StoreBootstrap_proofs!LockHasOneOwner` | `LockIsOwned` | |
| `StoreBootstrap_proofs!HeadComesLast` | `HeadIsComplete` | |
| `StoreBootstrap_proofs!OpenedStoreLasts` | `EstablishedSurvives` | |
| `StoreBootstrap_proofs!ModesAreKept` | `ModeRespected` | |
| `CheckpointRotation_proofs!RotationSound` | `Recoverable` | `InOrder` |
| `CheckpointRotation_proofs!HeadStaysComplete` | `HeadSelectsComplete` | `InOrder` |
| `CheckpointRotation_proofs!LeftoversNeverStop` | `NeverInItsOwnWay` | `InOrder` |
| `CheckpointRotation_proofs!ReportsHold` | `ReportHolds` | `InOrder` |
| `CheckpointRotation_proofs!RetiredForGood` | `RetiredIsGone` | `InOrder` |
| `Maintenance_proofs!MaintenanceIsSound` | `MaintenanceSound` | |
| `Maintenance_proofs!LedgerExact` | `LedgerIsExact` | |
| `Maintenance_proofs!RefusalsExact` | `RefusalsAreExact` | |
| `Maintenance_proofs!ReferencedNeverGoes` | `ReferencedStays` (action property) | |
| `Maintenance_proofs!SuccessExact` | `SuccessIsExact` | |
| `Maintenance_proofs!MissingStops` | `MissingStopsCollection` | |
| `Maintenance_proofs!ScratchNeverMet` | `ScratchNeverInTheWay` | |
| `Maintenance_proofs!ReclaimedGone` | `ReclaimedStaysGone` | |
| `RecoveryScan_proofs!RecoveriesSound` | `ScanInvariant` | |
| `RecoveryScan_proofs!VerdictsExact` | `VerdictIsExact` | |
| `RecoveryScan_proofs!ScratchAlwaysWithin` | `ScratchWithinAllowance` | |
| `RecoveryScan_proofs!DebrisNeverStops` | `DebrisNeverInTheWay` | |
| `RecoveryScan_proofs!SuccessCleans` | `SuccessLeavesNoHistory` | |
| `RecoveryScan_proofs!SecondPassAlwaysFits` | `SecondPassFits` | |
| `MemoryCore_proofs!CoresStaySound` | `CoreInvariant` | |
| `MemoryCore_proofs!GraphMirrors` | `NodesMirrorNotes` | |
| `MemoryCore_proofs!RestoresExactly` | `RestoreIsExact` | |
| `MemoryCore_proofs!IndexNeverStale` | `IndexAgrees` | |
| `MemoryCore_proofs!EffectsReplayExactly` | `EffectsReproduce` | |

### DurableStore: Coherent

None of the safety properties is inductive: that `SyncWrite` may acknowledge
rests on what `Commit` compared three stages earlier, in the face of another
runtime's rotations and power losses. The strengthening is
`Coherent == Control /\ Content`:

- `Control` is types plus shape: the owner of the lock is in a stage that runs
  under it, nobody else is, and each stage carries exactly the fields it needs.
  `TypeCorrect` proves it action by action; nothing in it mentions the log's
  content.
- `Content` has a part about the store (`Shared`: identities are unique over
  checkpoint, WAL and unsynced frames; the ledger is the checkpoint's receipts;
  `prior` ends where the checkpoint begins; acknowledged requests are in the
  durable part; ...) and one about each runtime (`Local(p)`: its generation is a
  durable prefix; a stage between lookup and append knows the identity to be
  absent from its base; a written frame extends the captured generation; ...).

The proof of `Content` sorts the actions by what they do to the history: those
that leave it alone (quiet steps), those that move the durable boundary (sync),
the append, the rotation, and the losses. For each kind one lemma shows how
every `Local(p)` survives a step of another runtime, so that each action's own
proof is about its own runtime only.

### DurableStore: the promise

`PromiseKept` is step simulation under `log <- DurableHistory`, `view <- gen`.
`Coherent` supplies what each case needs: the only actions that make the durable
history longer are the barriers (`SyncWrite`, and those a lookup or a recovery
crosses), and what becomes durable is at most one frame, whose identity is new
(`Commit`); a rotation and the undoing of its rename leave `DurableHistory` as it
is; `Deliver` replaces a view by a longer durable prefix that holds the answered
command (`Answer`) or without an answer (`Publish`); closing and dying are `Forget`.
`PublishedOnlyGrows` follows from the same simulation.

### DurableStore: limits

- *Envelope.* The size is measured against the observed WAL without the lock,
  the frame appended two holds later. `Bounded` says that from `Measure` to the
  append a generation that still is the history leaves room for one more frame
  (`RoomKept`: the append compares exactly that), whatever lineage was measured,
  and that a rename that is undone brings back a WAL that fitted (`PriorFits`).
- *Corruption answers.* `CorruptionExplained` says that whoever met another use of
  its identity, or is about to be told of corruption, finds it in the history, and
  that if it is there with the same intent it is no longer in the active WAL.
- *Ready is current.* With one runtime, `Whole` says what each stage's view has
  to do with the log, and which stages may end with the log in doubt
  (`Doubtful`): they demote the runtime.
- *References.* `Installed` carries every object a stage between `Install` and
  `Commit` relies on; `Collects` what a collection has marked. They hold if nobody
  else collects in between, which is what the hypothesis says, and the run
  `collect_race` shows that without it the property is false.

### ScanCache

`MemoryStands` says of every memory what it is a scan of: as long as `HEAD` names
its lineage, the log is at least as long as it was, and as far as it was, it is
the same. With `Coherent` (the log of one lineage is only cut behind what was
durable, and a process that wrote forgets or extends) it is inductive.

### StoreBootstrap

`Bootstrapped` follows each call's place in `Program`: from which step to which it
holds `writer.lock` (`Locking`), what a creation has made, filled and synced
(`Creating`), what a recovery found and when that can no longer be lost
(`Recovering`). Of the store it says that one call made all there is but the lock
(`OneCreator`), and that what a visible `HEAD` selects is whole and there to stay
(`Established`). The proof is by the kind of call a step performs.

### CheckpointRotation

`Recoverable` consists of what holds between rotations and what holds at each
step of one. Between: everything `HEAD` selects, *and everything a `HEAD` that may
come back would select*, is whole and has no unsynced change (`Selected`, `Safe`);
and the directory of the ledgers is named for good before `HEAD` needs it, or
`HEAD`'s change is behind it in the same directory (`LedgersFollow`). During:
`Lineage`, `Scratch`, `Installed` and `Finishing` say for ranges of steps what is
selected, what the scratch names hold, what has been installed and since when it
is settled, and which folders are synced. `Prepared` and `Retired` are the only
positions that depend on the data (whether there is a predecessor ledger, and
anything to merge).

The proof has four layers. (1) Where each call is in the program: `Rotation` is a
concatenation, and `Lengths`, `MergeAt`, `Activation`, ... say what is at each
position. (2) What a call does: `Touches(names)` (only these entries change, and
their changes come last) and `Syncs(folders)` (what is left unsynced is the rest,
in order). That `StillUnsynced` filters a sequence is proved by induction, which
is done on sets by well-foundedness, as the library's induction theorems are out
of the provers' reach. (3) What such a step keeps: `CoreTouched`, `CoreSynced`,
and the few calls that do more (`EnsuringKeepsCore`, `SwitchingKeepsCore`).
(4) The ranges: a step from `at` to `at + 1` either is the one that makes a
conjunct true or spares what it is about (`LineageGoesOn`, `ScratchGoesOn`, ...).
A power loss brings each entry back to what it was before its first lost change
(`ComesBack`); `LedgersComeBack` is where `InOrder` is needed, and the run
`unordered` shows that without it the property is false.

### Maintenance: the receipt ledger

`LedgerSound` says where every identity of the segment is. The i-th run is the
i-th window of `Chunk` entries, sorted, with no identity twice (`RunsInOrder`);
the buffer is what was read since the last window (`BufferIsNext`); and the
ledger so far is increasing, holds exactly what was consumed of the predecessor
and the runs, each identity from one of them only, and ends no later than
anything they still have begins (`MergeInOrder`). So a `Flush` or a `Write` that
refuses has two places for one identity (`TwoSources`), and a merge with nothing
left has met every pair. That `Sorted` of a chunk exists (`SortedExists`) is an
induction over its length, done on sets by well-foundedness, and that `Lookup`
may give up at the first greater entry is `LookupIs`.

### Maintenance: the collection

`GcSound` follows what an attempt knows. `Held` is what a sorter was given, in
its buffer and its active bank, and no chunk, cascade or swap of banks changes it
(`ChunkedHolds`, `SwappedHolds`). `Gathered` says that what the marking sorter
holds are the references read so far, that what the inventory's holds and what is
unread are the files, and that the comparison has put each file that is no
reference, and no other, among the candidates; `Reclaiming`, what is left of
`objects/` between the unlinks and since when they are synced. `ScratchIsOwn`
lists the scratch files there may be at each phase, so that a creation finds its
name free: a chunk's because the slot is not used, a cascade's because the other
bank is empty, and after an attempt that was killed because the next one sweeps
every name first. A thrown failure, a kill and a power loss forget all of it but
`scratch`, `objects` and `unsynced`.

### RecoveryScan

`ScanSound`, with `MaintenanceSound` for the ledger a recovery reads, follows the
two indexes through every call. It has to say where each identity is while it
moves between buffers, runs and merges, and what each file is accounted for
while it is written and unlinked.

- *Accounts.* `IndexAccounted` and `HistoryAccounted`: what is owned is within
  the allowance, and no file ever holds more than it is accounted for. This is
  all that is known of a recovery that already failed, or was killed: the next
  one that scans a file sweeps every name first, and one that finds no WAL file
  uses none (`NothingScannedSound`). `IndexFiles`, `IndexPass` and `HistoryFiles` say
  which files there are as long as it goes on (`Live`), so that the next number
  is free when a file is created exclusively.
- *Records.* `HistoryHolds`: every record delivered so far is in the buffer or in
  one of the runs, once, and the runs are sorted; within a pass the same of its
  groups and outputs, which are files of their own (`NamesApart`).
- *Verdict.* When one run is left it holds the whole WAL in order, so an identity
  committed twice is next to itself (`RepeatedMeans`), and reading run and ledger
  side by side misses no common one (`OverlapsMeans`, `VerifiedExactly`). A repetition
  that was found earlier, within a buffer, is one as well (`HistoryFound`).

The lemmas it rests on are about `Sizes` (a sum over file numbers, unfolded from
its end by induction, monotone, and changed by one file by that file's size),
sorting, and the merge: after n steps the output is what was read of the
inputs, in order, and not beyond anything still to be read (`MergeStands`,
`MergeOrdered`).

`SecondPassAlwaysFits` compares the two passes without running either. As long as
nothing fails and nothing corrupt is found (`Straight`), each step is determined
by the call and the fields of the two indexes, whatever else is on the disk:
`AdvanceOf` is that function, refusals included, and every step follows it or
changes none of these fields (`Follows`, proved step by step in
`OpeningFollows` to `HistoryFollows`). It needs that an index's file is exactly
as long as it is accounted for (`IndexExact`), as a merge asks for room by one
and accounts for the other. `Ending` is the least set of such fields that holds
the end of a pass and is closed backward under `AdvanceOf`: from there a pass
comes to its end in some number of steps, which nothing has to count. A refusal
is never in it (`RefusalNeverEnds`). The invariant `SecondFits` says of the first
pass that if it ends from where it is, it does from its beginning; it does end
when the tail is repaired, and the second pass begins with the same fields
(`ResetIsFresh`), hence in `Ending`, and stays there.

### MemoryCore

`CoreInvariant` says that the core, the file and what every call in progress
carries is `Sound`: well formed, acceptable to its own import, and mirrored in
its graph. No operation keeps that from call to call of the linker. `Whole(c,
late)` does: lists with distinct identifiers, edges apart and between nodes that
exist, and every note and entry mirrored but those whose nodes are in `late`. An
operation puts a note and links it, an import puts all records and links them
one by one, each link taking one node out of `late`; a deletion makes the note's
node go with its edges. That `Committed` of a sound core is that core
(`CommittedSame`) is an induction over its nodes, then over its edges: after n of
them the first n are there, so the next one is new.

`EffectsReplayExactly` is proved for each of the seven commands a durable
mutation runs, on any sound core. `Leads(from, effects, to)` says that a piece of
the effects takes one core to another and meets nothing missing; pieces are
chained, one segment for each collection and kind. What a command does to a
collection is that it adds or changes one item (`Grows`) or removes some
(`Shrinks`). Removed edges go one by one in the order of their identifiers,
which is an induction (`EdgesLead`), and the node follows when it has none left
(`NodeLeads`), as replaying the removal of a node removes its edges too. Two
nodes that are new at once, a note's and its parent's, may change places
(`NodesGrowByTwo`): this is the only place where replay gives another order, and
`EffectsReproduce` says so.

### Only model-checked

- `CallsSettle`: liveness and `ENABLED` are outside the prover's reach.
- `RecallIsExact`: the walk is compared with a reference definition, both of
  them recursions over data.

## 6. Not modelled

The weaker "recoverable" acknowledgment used on Windows; legacy JSON files; byte
formats, digests and limits on sizes other than the envelope and the indexes'
allowance; the WAL scanner's decoding, whose classification of a tail is `torn`.
In `DurableStore` an unlink of a payload object undone by a power loss (in
`ObjectReclamation` it is modelled); in `ObjectReclamation` the seals and tags of
run files, which refuse what others wrote there, and names in `objects/` that are
no objects. In `DurableStore` the cut of an incomplete tail and its sync are one
step (`RepairTail`, `StartupRecovery.ts:166-171`): that a cut which is not synced
comes back after another runtime has appended behind it is not in the model. In
`DurableStore` a removal of `writer.lock` undone by a power loss is
not modelled, in `StoreBootstrap` it is. In `CheckpointRotation` the acquisition
of the lock is one step with its barriers, and a commit is one durable step. In
`MemoryCore` identity, times, tags, scores and the contents of `data` are left
out, and so is a power loss while the JSON file is written. In `Recall` the
scores of texts and the assembly of a context under a token budget. The analysis
of a text to be condensed, dream analysis and inspection are pure functions of a
text or one snapshot that no other part depends on; the adapters that only
format are listed in `PROJECT.json` with their reasons.

## 7. Plan

Every component whose properties are within reach is modelled and, but for the
two properties above, proved. What would extend the project, in order:

1. `CheckpointRotation` shown to implement the `Rotate` / `ConfirmSwitch` steps
   of `DurableStore`, and `StoreBootstrap` its initial state.
2. The WAL scanner's classification of tails, as a function of bytes.
