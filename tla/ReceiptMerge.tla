----------------------------- MODULE ReceiptMerge -----------------------------
(***************************************************************************)
(* How a rotation makes the cumulative receipt ledger: the identities of   *)
(* the retiring segment are sorted in chunks into run files, the runs and  *)
(* the predecessor ledger are merged, and an identity met twice anywhere   *)
(* is corruption.  Entries are their identities, and identities numbers in *)
(* the order of compareMutationIds.  Files are as found on disk, whoever   *)
(* wrote them.                                                             *)
(***************************************************************************)
EXTENDS Naturals, Sequences

CONSTANTS
    Ids,        \* mutation identities
    Chunk,      \* SORT_CHUNK_ENTRIES
    Namespace,  \* SCRATCH_NAMESPACE_SIZE
    MaxSegment  \* bound: entries of the retiring segment

ASSUME MergeConstantsOK ==
    /\ Ids \subseteq Nat
    /\ Chunk \in Nat \ {0} /\ Namespace \in Nat /\ MaxSegment \in Nat

VARIABLES
    segment,   \* the identities of the retiring segment, in WAL order
    previous,  \* those of the predecessor ledger
    read,      \* how much of the segment the scan has delivered
    buffer,    \* delivered and not yet in a run
    runs,      \* the sorted runs
    pos,       \* the next entry of each reader: 0 reads the predecessor
    ledger,    \* the entries written
    status

mergeVars == <<segment, previous, read, buffer, runs, pos, ledger, status>>
input == <<segment, previous>>

Entries(s) == {s[i] : i \in DOMAIN s}
Injective(s) == \A i, j \in DOMAIN s : s[i] = s[j] => i = j
Increasing(s) == \A i, j \in DOMAIN s : i < j => s[i] < s[j]

\* The entries of s in the frozen order.
Sorted(s) ==
    CHOOSE t \in [DOMAIN s -> Entries(s)] : Entries(t) = Entries(s) /\ Increasing(t)

-------------------------------------------------------------------------------
(* ReceiptLedgerReader.verify: the predecessor is read through first. *)
Verify ==
    /\ status = "verify"
    /\ status' = IF Increasing(previous) THEN "scan" ELSE "corrupt"
    /\ UNCHANGED <<input, read, buffer, runs, pos, ledger>>

\* SegmentSorter.flush.
Flush(entries, next) ==
    \/ /\ Len(runs) >= Namespace
       /\ status' = "exhausted" /\ UNCHANGED <<buffer, runs>>
    \/ /\ Len(runs) < Namespace /\ ~Injective(entries)
       /\ status' = "corrupt" /\ UNCHANGED <<buffer, runs>>
    \/ /\ Len(runs) < Namespace /\ Injective(entries)
       /\ runs' = Append(runs, Sorted(entries))
       /\ buffer' = << >>
       /\ status' = next

\* SegmentSorter.add: a full buffer is flushed at once.
Add ==
    /\ status = "scan" /\ read < Len(segment)
    /\ read' = read + 1
    /\ LET entries == Append(buffer, segment[read + 1])
       IN  IF Len(entries) >= Chunk
           THEN Flush(entries, "scan")
           ELSE buffer' = entries /\ UNCHANGED <<runs, status>>
    /\ UNCHANGED <<input, pos, ledger>>

\* Mutant: an incomplete last chunk is dropped.
FinishDropping ==
    /\ status = "scan" /\ read = Len(segment)
    /\ status' = "sorted" /\ buffer' = << >>
    /\ UNCHANGED <<input, read, runs, pos, ledger>>

\* SegmentSorter.finish: what is left is a last, shorter run.
Finish ==
    /\ status = "scan" /\ read = Len(segment)
    /\ IF buffer = << >>
       THEN status' = "sorted" /\ UNCHANGED <<buffer, runs>>
       ELSE Flush(buffer, "sorted")
    /\ UNCHANGED <<input, read, pos, ledger>>

-------------------------------------------------------------------------------
(* The merge *)

Readers == DOMAIN pos
Source(i) == IF i = 0 THEN previous ELSE runs[i]
Open(i) == pos[i] =< Len(Source(i))
Now(i) == Source(i)[pos[i]]

\* The reader whose entry is written next; of equal entries, the predecessor's
\* and then the earlier run's.
Smallest(i) ==
    Open(i) /\ \A j \in Readers : Open(j) => Now(i) < Now(j) \/ (Now(i) = Now(j) /\ i =< j)

StartMerge ==
    /\ status = "sorted"
    /\ pos' = [i \in 0..Len(runs) |-> 1]
    /\ status' = "merge"
    /\ UNCHANGED <<input, read, buffer, runs, ledger>>

\* Mutant: an identity met again is skipped, as a physical duplicate would be.
WriteSkipping ==
    /\ status = "merge"
    /\ \E i \in Readers :
        /\ Smallest(i)
        /\ pos' = [pos EXCEPT ![i] = @ + 1]
        /\ ledger' = IF ledger # << >> /\ Now(i) =< ledger[Len(ledger)]
                     THEN ledger ELSE Append(ledger, Now(i))
    /\ UNCHANGED <<input, read, buffer, runs, status>>

Write ==
    /\ status = "merge"
    /\ \E i \in Readers :
        /\ Smallest(i)
        /\ IF ledger # << >> /\ Now(i) =< ledger[Len(ledger)]
           THEN status' = "corrupt" /\ UNCHANGED <<pos, ledger>>
           ELSE /\ ledger' = Append(ledger, Now(i))
                /\ pos' = [pos EXCEPT ![i] = @ + 1]
                /\ UNCHANGED status
    /\ UNCHANGED <<input, read, buffer, runs>>

\* The candidate is synced.
Close ==
    /\ status = "merge"
    /\ \A i \in Readers : ~Open(i)
    /\ status' = "done"
    /\ UNCHANGED <<input, read, buffer, runs, pos, ledger>>

-------------------------------------------------------------------------------
(* ReceiptLedgerReader.lookup *)

First(S) == CHOOSE i \in S : \A j \in S : i =< j

\* Reading stops at the first entry that is not smaller.
Lookup(s, id) ==
    LET stops == {i \in DOMAIN s : s[i] >= id}
    IN  stops # {} /\ s[First(stops)] = id

-------------------------------------------------------------------------------
SeqsUpTo(n) == UNION {[1..k -> Ids] : k \in 0..n}

MergeInit ==
    /\ segment \in SeqsUpTo(MaxSegment)
    /\ previous \in SeqsUpTo(2)
    /\ read = 0 /\ buffer = << >> /\ runs = << >>
    /\ pos = [i \in {} |-> 1]
    /\ ledger = << >>
    /\ status = "verify"

MergeNext == Verify \/ Add \/ Finish \/ StartMerge \/ Write \/ Close

MergeSpec == MergeInit /\ [][MergeNext]_mergeVars

-------------------------------------------------------------------------------
(* Properties *)

\* A lookup, which gives up at the first greater entry, finds in the new
\* ledger what the old one or the segment hold, and nothing else.
LedgerIsExact ==
    status = "done" =>
        /\ Increasing(ledger)
        /\ \A id \in Ids : Lookup(ledger, id) <=> id \in Entries(previous) \cup Entries(segment)

\* An identity met twice, within a chunk, in two runs, or in a run and the
\* predecessor, is always reported; a segment is refused for its size only
\* beyond what the namespace holds, and always then.
RefusalsAreExact ==
    LET all == previous \o segment
    IN  /\ status = "done" => Injective(all) /\ Len(segment) =< Namespace * Chunk
        /\ status = "corrupt" => ~Injective(all) \/ ~Increasing(previous)
        /\ status = "exhausted" => Len(segment) > Namespace * Chunk
===============================================================================
