--------------------------- MODULE ObjectReclamation ---------------------------
(***************************************************************************)
(* How a collection finds the payload objects nothing refers to, and       *)
(* unlinks them.  The references of the authoritative history and the      *)
(* names in objects/ are each sorted by an external sorter that merges     *)
(* full banks of run files into the other bank; the two sorted runs are    *)
(* compared, and what only objects/ has is checked again and unlinked in   *)
(* batches.  An attempt may fail at any file operation, the process may be *)
(* killed and the power lost; the next attempt finds what was left.        *)
(*                                                                         *)
(* Digests are numbers in the order of compareDigests.  A run file is the  *)
(* set of its digests: readers refuse one that is not strictly increasing. *)
(* The writer lock is held throughout, so that only attempts alternate     *)
(* with commits.                                                           *)
(***************************************************************************)
EXTENDS Naturals, FiniteSets, FiniteSetsExt, Sequences

CONSTANTS
    Digests,        \* of payload objects
    Inline,         \* the reference of an operation that carries its payload
    Slots,          \* namespaceSlots
    ChunkEntries,   \* chunkEntries
    UnlinkBatch,    \* unlinkBatch
    MaxAttempts,    \* bound: collections begun
    MaxReferences,  \* bound: operations of the history, beyond which none is committed
    GcFaults        \* which of "io", "crash" and "power" happen

ASSUME ReclamationConstantsOK ==
    /\ Digests \subseteq Nat /\ Inline \notin Digests
    /\ Slots \in Nat \ {0, 1} /\ ChunkEntries \in Nat \ {0} /\ UnlinkBatch \in Nat \ {0}
    /\ MaxAttempts \in Nat /\ MaxReferences \in Nat

VARIABLES
    references,  \* what the operations of the ledger and then of the active WAL refer to
    current,     \* the runtime has published all of them
    objects,     \* the files in objects/
    unsynced,    \* files unlinked since the last barrier of objects/
    scratch,     \* the collection's files in .private/
    gc,          \* the attempt in progress
    attempts,    \* how many were begun
    outcome,     \* how the last one ended
    reclaimed    \* what successful attempts unlinked

gcVars == <<references, current, objects, unsynced, scratch, gc, attempts, outcome, reclaimed>>

Referenced == {references[i] : i \in DOMAIN references} \ {Inline}

-------------------------------------------------------------------------------
(* Scratch files *)

Streams == {"mark", "inventory"}
Banks == {"a", "b"}
Other(bank) == IF bank = "a" THEN "b" ELSE "a"

ScratchRun(stream, bank, slot) == <<stream, bank, slot>>
Candidates == <<"candidates">>
Validated == <<"validated">>

\* Mutant: the names of one bank only.
OneBankNames ==
    {Candidates, Validated} \cup {ScratchRun(s, "a", i) : s \in Streams, i \in 0..(Slots - 1)}

GcScratchNames ==
    {Candidates, Validated} \cup {ScratchRun(s, b, i) : s \in Streams, b \in Banks, i \in 0..(Slots - 1)}

-------------------------------------------------------------------------------
(* The sorter of one stream *)

EmptySorter ==
    [bank |-> "a", runs |-> [b \in Banks |-> << >>], buffer |-> {}, buffered |-> 0, merging |-> FALSE]

Active(sorter) == sorter.runs[sorter.bank]
Full(sorter) == Len(Active(sorter)) >= Slots
Buffered(sorter, digest) ==
    [sorter EXCEPT !.buffer = @ \cup {digest}, !.buffered = @ + 1]

\* A chunk is written when it is full, and at the end whatever its size.
ChunkDue(sorter, exhausted) ==
    ~sorter.merging /\ (sorter.buffered >= ChunkEntries \/ (exhausted /\ sorter.buffered > 0))

MergeDue(sorter, exhausted) ==
    \/ ChunkDue(sorter, exhausted) /\ Full(sorter)
    \/ exhausted /\ ~sorter.merging /\ sorter.buffered = 0 /\ Active(sorter) # << >>

Chunked(sorter) ==
    [sorter EXCEPT !.runs[sorter.bank] = Append(@, sorter.buffer), !.buffer = {}, !.buffered = 0]

\* Mutant: the output is the last run.
SwappedShort(sorter) ==
    [sorter EXCEPT !.bank = Other(@), !.merging = FALSE,
                   !.runs = [b \in Banks |->
                               IF b = sorter.bank THEN << >> ELSE <<Active(sorter)[Len(Active(sorter))]>>]]

\* The merged run is all there is, in the other bank, which becomes the active one.
Swapped(sorter) ==
    LET inputs == Active(sorter)
        all == UNION {inputs[i] : i \in DOMAIN inputs}
    IN  [sorter EXCEPT !.bank = Other(@), !.merging = FALSE,
                       !.runs = [b \in Banks |-> IF b = sorter.bank THEN << >> ELSE << all >>]]

RunFiles(stream, bank, sorter) ==
    {ScratchRun(stream, bank, i - 1) : i \in DOMAIN sorter.runs[bank]}
Sealed(sorters) == UNION {RunFiles(s, b, sorters[s]) : s \in Streams, b \in Banks}

-------------------------------------------------------------------------------
(* Attempts *)

GcIdle == [phase |-> "idle"]
Started ==
    [phase |-> "sweep", marked |-> 0, unread |-> {}, sorters |-> [s \in Streams |-> EmptySorter],
     marks |-> {}, inventory |-> {}, candidates |-> {}, validated |-> {}, unlinked |-> {}, batch |-> 0]

Phase(phase) == gc.phase = phase
Stop(result) == gc' = GcIdle /\ outcome' = result

BeginCollection ==
    /\ Phase("idle") /\ attempts < MaxAttempts
    /\ attempts' = attempts + 1
    /\ gc' = Started /\ outcome' = "none"
    /\ UNCHANGED <<references, current, objects, unsynced, scratch, reclaimed>>

\* sweepGcScratch, first.
SweepScratch ==
    /\ Phase("sweep")
    /\ scratch' = scratch \ GcScratchNames
    /\ gc' = [gc EXCEPT !.phase = "mark"]
    /\ UNCHANGED <<references, current, objects, unsynced, attempts, outcome, reclaimed>>

\* What the stream being sorted has left to deliver.
Exhausted(stream) ==
    /\ Phase(stream)
    /\ IF stream = "mark" THEN gc.marked = Len(references) /\ current ELSE gc.unread = {}

Keep == UNCHANGED <<references, current, objects, unsynced, attempts, reclaimed>>

\* One operation, of the ledger or of the active WAL.
MarkOperation ==
    /\ Phase("mark") /\ gc.marked < Len(references)
    /\ ~ChunkDue(gc.sorters["mark"], FALSE) /\ ~gc.sorters["mark"].merging
    /\ LET reference == references[gc.marked + 1]
       IN  gc' = [gc EXCEPT !.marked = @ + 1,
                            !.sorters["mark"] = IF reference = Inline THEN @ ELSE Buffered(@, reference)]
    /\ Keep /\ UNCHANGED <<scratch, outcome>>

\* The history does not end at the tip the runtime has published.
TipDiffers ==
    /\ Phase("mark") /\ gc.marked = Len(references) /\ ~current
    /\ ~ChunkDue(gc.sorters["mark"], FALSE) /\ ~gc.sorters["mark"].merging
    /\ Stop("authoritative")
    /\ Keep /\ UNCHANGED scratch

\* readNames delivers in any order.
ReadName ==
    /\ Phase("inventory")
    /\ ~ChunkDue(gc.sorters["inventory"], FALSE) /\ ~gc.sorters["inventory"].merging
    /\ \E digest \in gc.unread :
        gc' = [gc EXCEPT !.unread = @ \ {digest}, !.sorters["inventory"] = Buffered(@, digest)]
    /\ Keep /\ UNCHANGED <<scratch, outcome>>

\* A run file is created exclusively: a leftover of its name stops the attempt.
Create(file, next) ==
    IF file \in scratch
    THEN Stop("in the way") /\ UNCHANGED scratch
    ELSE scratch' = scratch \cup {file} /\ gc' = next /\ UNCHANGED outcome

\* flushChunk, when the active bank has a slot.
FlushChunk(stream) ==
    LET sorter == gc.sorters[stream]
    IN  /\ Phase(stream) /\ ChunkDue(sorter, Exhausted(stream)) /\ ~Full(sorter)
        /\ Create(ScratchRun(stream, sorter.bank, Len(Active(sorter))),
                  [gc EXCEPT !.sorters[stream] = Chunked(@)])
        /\ Keep

\* cascade, to where its output is complete.
MergeRuns(stream) ==
    LET sorter == gc.sorters[stream]
    IN  /\ Phase(stream) /\ MergeDue(sorter, Exhausted(stream))
        /\ IF sorter.runs[Other(sorter.bank)] # << >>
           THEN Stop("in the way") /\ UNCHANGED scratch
           ELSE Create(ScratchRun(stream, Other(sorter.bank), 0),
                       [gc EXCEPT !.sorters[stream].merging = TRUE])
        /\ Keep

\* finish returned a run, or none.
Finished(attempt, stream, run) ==
    IF stream = "mark"
    THEN [attempt EXCEPT !.phase = "inventory", !.marks = run, !.unread = objects]
    ELSE [attempt EXCEPT !.phase = "cover", !.inventory = run]

\* The inputs are unlinked, and the banks swap.  At the end, one run is left.
SwapBanks(stream) ==
    /\ Phase(stream) /\ gc.sorters[stream].merging
    /\ LET sorter == gc.sorters[stream]
           swapped == [gc EXCEPT !.sorters[stream] = Swapped(@)]
       IN  /\ scratch' = scratch \ RunFiles(stream, sorter.bank, sorter)
           /\ gc' = IF Exhausted(stream) /\ sorter.buffered = 0
                    THEN Finished(swapped, stream, Active(Swapped(sorter))[1])
                    ELSE swapped
    /\ Keep /\ UNCHANGED outcome

FinishEmpty(stream) ==
    /\ Phase(stream) /\ Exhausted(stream)
    /\ gc.sorters[stream].buffered = 0 /\ Active(gc.sorters[stream]) = << >>
    /\ ~gc.sorters[stream].merging
    /\ gc' = Finished(gc, stream, {})
    /\ Keep /\ UNCHANGED <<scratch, outcome>>

-------------------------------------------------------------------------------
(* deriveReclaimCandidates: the two runs are read side by side *)

Ahead(xs, ys) == xs # {} /\ \A y \in ys : Min(xs) < y

CoverReachable ==
    /\ Phase("cover") /\ gc.marks # {} /\ gc.inventory # {}
    /\ Min(gc.marks) = Min(gc.inventory)
    /\ gc' = [gc EXCEPT !.marks = @ \ {Min(@)}, !.inventory = @ \ {Min(@)}]
    /\ Keep /\ UNCHANGED <<scratch, outcome>>

\* The file of the candidates is created with the first of them.
CoverCandidate ==
    /\ Phase("cover") /\ Ahead(gc.inventory, gc.marks)
    /\ LET emitted == [gc EXCEPT !.inventory = @ \ {Min(@)}, !.candidates = @ \cup {Min(gc.inventory)}]
       IN  IF gc.candidates = {}
           THEN Create(Candidates, emitted)
           ELSE gc' = emitted /\ UNCHANGED <<scratch, outcome>>
    /\ Keep

\* Mutant: a reference that is not in objects/ is passed over.
CoverMissingSkipped ==
    /\ Phase("cover") /\ Ahead(gc.marks, gc.inventory)
    /\ gc' = [gc EXCEPT !.marks = @ \ {Min(@)}]
    /\ Keep /\ UNCHANGED <<scratch, outcome>>

CoverMissing ==
    /\ Phase("cover") /\ Ahead(gc.marks, gc.inventory)
    /\ Stop("authoritative")
    /\ Keep /\ UNCHANGED scratch

\* Mutant: the comparison ends with the references.
CoverDoneEarly ==
    /\ Phase("cover") /\ gc.marks = {}
    /\ scratch' = scratch \ Sealed(gc.sorters)
    /\ gc' = [gc EXCEPT !.phase = "validate", !.sorters = [s \in Streams |-> EmptySorter]]
    /\ Keep /\ UNCHANGED outcome

\* Both sorters are swept.
CoverDone ==
    /\ Phase("cover") /\ gc.marks = {} /\ gc.inventory = {}
    /\ scratch' = scratch \ Sealed(gc.sorters)
    /\ gc' = [gc EXCEPT !.phase = "validate", !.sorters = [s \in Streams |-> EmptySorter]]
    /\ Keep /\ UNCHANGED outcome

-------------------------------------------------------------------------------
(* Reclamation *)

\* Every candidate that still is a file is written to the validated run, which
\* is removed again when it is empty.
Validate ==
    /\ Phase("validate")
    /\ LET files == gc.candidates \cap objects
           next == [gc EXCEPT !.phase = "reclaim", !.validated = files]
       IN  IF files = {}
           THEN gc' = next /\ UNCHANGED <<scratch, outcome>>
           ELSE Create(Validated, next)
    /\ Keep

\* Unlinks the next one; a full batch is synced before anything else.
Unlink ==
    /\ Phase("reclaim") /\ gc.validated # {} /\ gc.batch < UnlinkBatch
    /\ LET digest == Min(gc.validated)
       IN  /\ gc' = [gc EXCEPT !.validated = @ \ {digest}, !.unlinked = @ \cup {digest}, !.batch = @ + 1]
           /\ objects' = objects \ {digest}
           /\ unsynced' = unsynced \cup {digest}
    /\ UNCHANGED <<references, current, scratch, attempts, outcome, reclaimed>>

SyncBatch ==
    /\ Phase("reclaim") /\ gc.batch >= UnlinkBatch
    /\ gc' = [gc EXCEPT !.batch = 0]
    /\ unsynced' = {}
    /\ UNCHANGED <<references, current, objects, scratch, attempts, outcome, reclaimed>>

\* Mutant: an incomplete last batch is not synced.
ReclaimedUnsynced ==
    /\ Phase("reclaim") /\ gc.validated = {} /\ gc.batch < UnlinkBatch
    /\ gc' = [gc EXCEPT !.phase = "cleanup"]
    /\ Keep /\ UNCHANGED <<scratch, outcome>>

\* An incomplete last batch is synced too.
Reclaimed ==
    /\ Phase("reclaim") /\ gc.validated = {} /\ gc.batch < UnlinkBatch
    /\ unsynced' = IF gc.batch > 0 THEN {} ELSE unsynced
    /\ gc' = [gc EXCEPT !.phase = "cleanup"]
    /\ UNCHANGED <<references, current, objects, scratch, attempts, outcome, reclaimed>>

EndCollection ==
    /\ Phase("cleanup")
    /\ scratch' = scratch \ GcScratchNames
    /\ reclaimed' = reclaimed \cup gc.unlinked
    /\ Stop("success")
    /\ UNCHANGED <<references, current, objects, unsynced, attempts>>

-------------------------------------------------------------------------------
(* Failures, and what happens between attempts *)

\* The runs the sorters know of are swept when the failure was thrown, as far
\* as that succeeds.  Reading the history fails authoritatively.
Fails ==
    /\ "io" \in GcFaults /\ ~Phase("idle")
    /\ \E result \in {"maintenance"} \cup (IF Phase("mark") THEN {"authoritative"} ELSE {}) : Stop(result)
    /\ scratch' \in {scratch, scratch \ Sealed(gc.sorters)}
    /\ Keep

Killed ==
    /\ "crash" \in GcFaults /\ ~Phase("idle")
    /\ Stop("none")
    /\ Keep /\ UNCHANGED scratch

\* An unlinked file may come back, and the scratch files may be any.
PowerLost ==
    /\ "power" \in GcFaults /\ attempts < MaxAttempts
    /\ Stop("none")
    /\ \E back \in SUBSET unsynced : objects' = objects \cup back
    /\ unsynced' = {}
    /\ scratch' \in {{}, scratch, GcScratchNames}
    /\ UNCHANGED <<references, current, attempts, reclaimed>>

\* This or another runtime installs an object and commits a reference to it.
CommitReference ==
    /\ Phase("idle") /\ Len(references) < MaxReferences
    /\ \E digest \in Digests, own \in BOOLEAN :
        /\ own => current
        /\ references' = Append(references, digest)
        /\ objects' = objects \cup {digest}
        /\ unsynced' = unsynced \ {digest}
        /\ reclaimed' = reclaimed \ {digest}
        /\ current' = own
    /\ outcome' = "none"
    /\ UNCHANGED <<scratch, gc, attempts>>

\* recover publishes what is there.
Republish ==
    /\ Phase("idle") /\ ~current
    /\ current' = TRUE
    /\ UNCHANGED <<references, objects, unsynced, scratch, gc, attempts, outcome, reclaimed>>

-------------------------------------------------------------------------------
GcEmpty ==
    /\ references = << >> /\ current = TRUE
    /\ objects = {} /\ unsynced = {} /\ scratch = {}
    /\ gc = GcIdle /\ attempts = 0 /\ outcome = "none" /\ reclaimed = {}

GcNext ==
    \/ BeginCollection \/ SweepScratch
    \/ MarkOperation \/ TipDiffers \/ ReadName
    \/ \E stream \in Streams :
        FlushChunk(stream) \/ MergeRuns(stream) \/ SwapBanks(stream) \/ FinishEmpty(stream)
    \/ CoverReachable \/ CoverCandidate \/ CoverMissing \/ CoverDone
    \/ Validate \/ Unlink \/ SyncBatch \/ Reclaimed \/ EndCollection
    \/ Fails \/ Killed \/ PowerLost \/ CommitReference \/ Republish

-------------------------------------------------------------------------------
(* Properties *)

\* What the history refers to is never unlinked, neither by an attempt nor by
\* one that goes on after failures and leftovers of others.
ReferencedStays == [][Referenced \cap objects \subseteq objects']_gcVars

\* A collection that reports success has left exactly what is referenced.
SuccessIsExact == outcome = "success" => objects = Referenced

\* While a referenced object is missing, nothing at all is unlinked.
MissingStopsCollection == ~(Referenced \subseteq objects) => ~Phase("validate") /\ ~Phase("reclaim")

\* Scratch files of earlier attempts never stop a later one, and the sorters'
\* banks never stop their own, however much there is to sort.
ScratchNeverInTheWay == outcome # "in the way"

\* What a successful collection reported as reclaimed stays gone through power
\* losses, until it is installed again.
ReclaimedStaysGone == reclaimed \cap (objects \cup unsynced) = {}
===============================================================================
