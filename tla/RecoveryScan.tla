------------------------------ MODULE RecoveryScan ------------------------------
(***************************************************************************)
(* How a recovery makes sure that no identity was committed twice.  The    *)
(* transactions of the active WAL are recorded in both indexes as they are *)
(* scanned and are verified before an incomplete tail is cut off, after    *)
(* which all is scanned again.  Recoveries may fail at any file operation, *)
(* be killed or lose power; the next one finds what they left in .private/.*)
(*                                                                         *)
(* The scan delivers no transaction twice: physical duplicates are its own *)
(* business.  The writer lock is held throughout.                          *)
(***************************************************************************)
EXTENDS RecoveryMutationIndex, MutationHistory

CONSTANTS
    MaxScans,   \* bound: recoveries begun
    ScanFaults  \* which of "io", "crash" and "power" happen

VARIABLES
    kind,     \* what there is under the name of the active WAL: "file" or "missing"
    wal,      \* the identities of the active WAL's transactions, in order
    torn,     \* an incomplete tail follows them
    pass,     \* of the scan: 0, or 1 after the tail was repaired
    scans,    \* how many recoveries were begun
    verdict   \* how the last one ended

scanVars == <<allowance, call, indexVars, receipts, historyVars, kind, wal, torn, pass, scans, verdict>>
scanInput == <<kind, wal, receipts, allowance>>

Scanning == verdict = "none"
Record(i) == <<wal[i], i>>
FirstCall == IF wal = << >> THEN Calling("index verify", << >>) ELSE Calling("index record", Record(1))
NoCall == Calling("no call", << >>)

\* Where a scan is whose records both indexes have verified.
Verified == [Calling("history verify", << >>) EXCEPT !.at = "returned", !.answer = "ok"]

-------------------------------------------------------------------------------
(* reconstruct *)

\* After a creation or a rotation there is no WAL file until the first commit:
\* nothing is scanned, and neither index is called.
BeginRecovery ==
    /\ ~Scanning /\ scans < MaxScans
    /\ scans' = scans + 1 /\ verdict' = "none" /\ pass' = 0
    /\ index' = IndexClosed /\ history' = HistoryFresh
    /\ call' = IF kind = "missing" THEN Verified ELSE FirstCall
    /\ UNCHANGED <<scanInput, indexRuns, manifest, historyRuns, torn>>

Proceed ==
    /\ Scanning
    /\ \/ /\ Returned("index record", "ok")
          /\ call' = Calling("history record", call.record)
       \/ /\ Returned("history record", "ok")
          /\ call' = IF call.record[2] < Len(wal)
                     THEN Calling("index record", Record(call.record[2] + 1))
                     ELSE Calling("index verify", << >>)
       \/ /\ Returned("index verify", "ok")
          /\ call' = Calling("history verify", << >>)
    /\ UNCHANGED <<scanInput, indexVars, historyVars, torn, pass, scans, verdict>>

\* Mutant: the file numbers go on.
RepairTailCounting ==
    /\ Scanning /\ Returned("history verify", "ok") /\ kind = "file" /\ torn
    /\ torn' = FALSE /\ pass' = 1
    /\ indexRuns' = Without(indexRuns, 0..(IndexNames - 1)) /\ manifest' = << >>
    /\ index' = [IndexClosed EXCEPT !.next = index.next] /\ history' = HistoryReset(history)
    /\ call' = FirstCall
    /\ UNCHANGED <<scanInput, historyRuns, scans, verdict>>

\* The tail is cut off, the indexes are emptied, and the scan starts over.  The
\* verifier has unlinked its files already.
RepairTail ==
    /\ Scanning /\ Returned("history verify", "ok") /\ kind = "file" /\ torn
    /\ torn' = FALSE /\ pass' = 1
    /\ indexRuns' = Without(indexRuns, 0..(IndexNames - 1)) /\ manifest' = << >>
    /\ index' = IndexClosed /\ history' = HistoryReset(history)
    /\ call' = FirstCall
    /\ UNCHANGED <<scanInput, historyRuns, scans, verdict>>

\* Cutting it off fails, before or after the file is shorter, or the index
\* cannot be emptied, or a file without such a tail cannot be synced.
RepairTailFails ==
    /\ "io" \in ScanFaults /\ Scanning /\ Returned("history verify", "ok") /\ kind = "file"
    /\ torn' \in BOOLEAN /\ (torn' => torn)
    /\ Return("failed")
    /\ UNCHANGED <<scanInput, indexVars, historyVars, pass, scans, verdict>>

\* reset, as far as it comes: nothing, all run files, or all.
ResetIndex ==
    \/ indexRuns' = Without(indexRuns, 0..(IndexNames - 1)) /\ manifest' = << >>
    \/ /\ "io" \in ScanFaults
       /\ indexRuns' \in {indexRuns, Without(indexRuns, 0..(IndexNames - 1))}
       /\ UNCHANGED manifest

Ended(result) ==
    /\ verdict' = result
    /\ call' = NoCall /\ index' = IndexClosed /\ history' = HistoryFresh /\ pass' = 0

\* The indexes' files are removed if that succeeds, and the root is published.
Publish ==
    /\ Scanning /\ Returned("history verify", "ok") /\ ~torn
    /\ ResetIndex
    /\ Ended("published")
    /\ UNCHANGED <<scanInput, historyRuns, torn, scans>>

\* Any error: both indexes are cleaned up, as far as that succeeds.
Abort ==
    /\ Scanning /\ At("returned") /\ call.answer # "ok"
    /\ ResetIndex
    /\ historyRuns' \in {Without(historyRuns, DOMAIN history.owned)}
                        \cup (IF "io" \in ScanFaults THEN {historyRuns} ELSE {})
    /\ Ended(call.answer)
    /\ UNCHANGED <<scanInput, torn, scans>>

-------------------------------------------------------------------------------
(* Faults *)

\* A file operation fails; a file about to be created may exist nevertheless.
OperationFails ==
    /\ "io" \in ScanFaults /\ Scanning /\ ~At("returned") /\ ~At("history cleanup")
    /\ \/ UNCHANGED <<indexRuns, historyRuns>>
       \/ /\ IndexCreates /\ index.next =< index.watermark
          /\ At("index flush") => Fits(Len(index.buffer))
          /\ indexRuns' = With(indexRuns, index.next, << >>) /\ UNCHANGED historyRuns
       \/ /\ At("history flush") /\ Within(Len(history.buffer)) /\ history.next < HistoryNames
          /\ historyRuns' = With(historyRuns, history.next, << >>) /\ UNCHANGED indexRuns
    /\ Return("failed")
    /\ UNCHANGED <<scanInput, manifest, index, history, torn, pass, scans, verdict>>

\* What the run files hold is never read again.
Forgotten(files) == [name \in files |-> << >>]

\* A manifest that was being overwritten may hold less than either watermark.
KilledScanning ==
    /\ "crash" \in ScanFaults /\ Scanning
    /\ Ended("killed")
    /\ indexRuns' = Forgotten(DOMAIN indexRuns) /\ historyRuns' = Forgotten(DOMAIN historyRuns)
    /\ manifest' \in {manifest} \cup (IF IndexCreates /\ index.next > index.watermark THEN {<<0>>} ELSE {})
    /\ UNCHANGED <<scanInput, torn, scans>>

\* Of both namespaces any files may be left, or none.
PowerLostScanning ==
    /\ "power" \in ScanFaults
    /\ Ended("killed")
    /\ \E none \in BOOLEAN :
        /\ indexRuns' = Forgotten(IF none THEN {} ELSE 0..(IndexNames - 1))
        /\ historyRuns' = Forgotten(IF none THEN {} ELSE 0..(HistoryNames - 1))
        /\ manifest' \in {<< >>, <<0>>}
    /\ UNCHANGED <<scanInput, torn, scans>>

-------------------------------------------------------------------------------
ScanEmpty ==
    /\ kind = "missing" /\ wal = << >> /\ receipts = << >> /\ allowance = 0 /\ torn = FALSE
    /\ call = NoCall /\ pass = 0 /\ scans = 0 /\ verdict = "none yet"
    /\ index = IndexClosed /\ indexRuns = NoFiles /\ manifest = << >>
    /\ history = HistoryFresh /\ historyRuns = NoFiles

ScanNext ==
    \/ BeginRecovery \/ Proceed \/ RepairTail \/ RepairTailFails \/ Publish \/ Abort
    \/ Scanning /\ IndexStep /\ UNCHANGED <<scanInput, historyVars, torn, pass, scans, verdict>>
    \/ Scanning /\ HistoryStep /\ UNCHANGED <<scanInput, indexVars, torn, pass, scans, verdict>>
    \/ /\ Scanning /\ "io" \in ScanFaults /\ CleanHistoryFails
       /\ UNCHANGED <<scanInput, indexVars, torn, pass, scans, verdict>>
    \/ OperationFails \/ KilledScanning \/ PowerLostScanning

-------------------------------------------------------------------------------
(* Properties *)

\* The WAL and the ledger together commit each identity once.
CommitsOnce ==
    /\ \A i, j \in DOMAIN wal : wal[i] = wal[j] => i = j
    /\ \A i \in DOMAIN wal, k \in DOMAIN receipts : wal[i] # receipts[k]

\* A recovery publishes exactly the histories in which no identity was committed
\* twice, and calls only the others corrupt, however the records are spread over
\* runs and passes, and after whatever an earlier recovery left.
VerdictIsExact ==
    /\ verdict = "published" => CommitsOnce
    /\ verdict = "corrupt" => ~CommitsOnce

\* At every instant the files of each index are within the allowance.
ScratchWithinAllowance ==
    /\ index.opened = "yes" => BytesIn(indexRuns, IndexNames) + 1 =< allowance
    /\ history.swept => BytesIn(historyRuns, HistoryNames) =< allowance

\* What an interrupted recovery left in .private/, holes and a torn manifest
\* included, never stops a later one.
DebrisNeverInTheWay == verdict # "in the way"

\* A recovery that scanned a WAL file and succeeds leaves none of the verifier's
\* files, its own or older.  (One that found no WAL file never sweeps, and what
\* an earlier recovery left stays.)
SuccessLeavesNoHistory == verdict = "published" /\ kind = "file" => historyRuns = NoFiles

\* The second pass records what the first did and finds the allowance and the
\* file numbers as the first found them: it is never refused for want of either.
SecondPassFits == pass = 1 => call.answer # "resource-limit"
===============================================================================
