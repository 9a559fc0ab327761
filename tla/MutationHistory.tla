---------------------------- MODULE MutationHistory ----------------------------
(***************************************************************************)
(* The verification of the active WAL's identities against each other and  *)
(* against the receipt ledger.  Spilled runs are merged into one, whose    *)
(* inputs stay until all files are unlinked at the end; a file is owned    *)
(* and accounted for before it exists and until it is known to be gone.    *)
(***************************************************************************)
EXTENDS SortedRuns

CONSTANTS
    HistoryNames,  \* HISTORY_NAMESPACE_SIZE
    HistoryFlush   \* RECORD_FLUSH_BYTES, in records

ASSUME HistoryConstantsOK ==
    /\ HistoryNames \in Nat
    /\ HistoryFlush \in Nat \ {0}

VARIABLES
    receipts,     \* the identities of the receipt ledger, in its order
    history,      \* the fields of the MutationHistoryVerifier
    historyRuns   \* slot -> the records of the run file

historyVars == <<history, historyRuns>>

HistoryFresh ==
    [swept |-> FALSE, buffer |-> << >>, runs |-> << >>, next |-> 0, owned |-> NoFiles,
     pass |-> FirstPass(<< >>), outcome |-> "ok"]

HistoryMerged(files) == Merged("identity", [i \in DOMAIN files |-> historyRuns[files[i]]])
Within(bytes) == Sizes(history.owned, HistoryNames) + bytes =< allowance

-------------------------------------------------------------------------------
(* recordWal and the beginning of verify *)

\* ensureSwept, once for the verifier.
SweepHistory ==
    /\ At("history record") \/ At("history verify")
    /\ ~history.swept
    /\ historyRuns' = Without(historyRuns, 0..(HistoryNames - 1))
    /\ history' = [history EXCEPT !.swept = TRUE]
    /\ UNCHANGED call

RecordInHistory ==
    /\ At("history record") /\ history.swept
    /\ history' = [history EXCEPT !.buffer = Append(@, call.record)]
    /\ IF Len(history.buffer) + 1 >= HistoryFlush THEN Go("history flush") ELSE Return("ok")
    /\ UNCHANGED historyRuns

VerifyHistory ==
    /\ At("history verify") /\ history.swept
    /\ IF history.buffer # << >>
       THEN Go("history flush") /\ UNCHANGED history
       ELSE Go("history merge") /\ history' = [history EXCEPT !.pass = FirstPass(history.runs)]
    /\ UNCHANGED historyRuns

\* A verification ends with the cleanup, whatever it found.
Conclude(answer, fields) ==
    IF call.op = "history verify"
    THEN Go("history cleanup") /\ history' = [fields EXCEPT !.outcome = answer]
    ELSE Return(answer) /\ history' = fields

\* Of a sorted run: an identity is met again.
Repeated(run) == \E i \in 1..(Len(run) - 1) : run[i + 1][1] =< run[i][1]

\* flushRun.
FlushHistory ==
    /\ At("history flush")
    /\ LET run == SortedRecords("identity", history.buffer)
           owned == [history EXCEPT !.next = @ + 1, !.owned = With(@, history.next, Len(run))]
       IN  IF Repeated(run) THEN Conclude("corrupt", history) /\ UNCHANGED historyRuns
           ELSE IF ~Within(Len(run)) \/ history.next >= HistoryNames
           THEN Conclude("resource-limit", history) /\ UNCHANGED historyRuns
           ELSE IF history.next \in DOMAIN historyRuns
           THEN Conclude("in the way", owned) /\ UNCHANGED historyRuns
           ELSE /\ historyRuns' = With(historyRuns, history.next, run)
                /\ history' = [owned EXCEPT !.runs = Append(@, history.next), !.buffer = << >>]
                /\ IF call.op = "history record" THEN Return("ok") ELSE Go("history verify")

-------------------------------------------------------------------------------
(* mergeAndVerify *)

HistoryGroup == Group(history.pass)
GroupReserved == GroupSize(history.pass, history.owned)

\* The output's bytes are reserved on top of its inputs', which stay.
StartHistoryMerge ==
    /\ At("history merge") /\ MergeNeeded(history.pass, 1)
    /\ LET owned == [history EXCEPT !.next = @ + 1, !.owned = With(@, history.next, GroupReserved)]
       IN  IF ~Within(GroupReserved) \/ history.next >= HistoryNames
           THEN Conclude("resource-limit", history) /\ UNCHANGED historyRuns
           ELSE IF history.next \in DOMAIN historyRuns
           THEN Conclude("in the way", owned) /\ UNCHANGED historyRuns
           ELSE /\ historyRuns' = With(historyRuns, history.next, << >>)
                /\ history' = owned
                /\ Go("history merging")

\* The output is complete and synced, and as long as was reserved.
FinishHistoryMerge ==
    /\ At("history merging")
    /\ LET output == history.next - 1
           run == HistoryMerged(HistoryGroup)
       IN  /\ historyRuns' = With(historyRuns, output, run)
           /\ IF Len(run) # history.owned[output]
              THEN Conclude("corrupt", history)
              ELSE /\ history' = [history EXCEPT !.pass = GroupDone(@, output)]
                   /\ Go("history merge")

\* verifyOrdered: the receipts are read up to the first one that is not smaller
\* than the record.
Overlaps(run) ==
    LET ahead[i \in 0..Len(run)] ==
            IF i = 0 THEN 1
            ELSE CHOOSE k \in ahead[i - 1]..(Len(receipts) + 1) :
                    /\ k > Len(receipts) \/ receipts[k] >= run[i][1]
                    /\ \A m \in ahead[i - 1]..(k - 1) : receipts[m] < run[i][1]
    IN  \E i \in DOMAIN run : ahead[i] =< Len(receipts) /\ receipts[ahead[i]] = run[i][1]

VerifyOrdered ==
    /\ At("history merge") /\ ~MergeNeeded(history.pass, 1)
    /\ LET run == HistoryMerged(history.pass.todo)
       IN  IF Repeated(run) \/ Overlaps(run) THEN Conclude("corrupt", history) ELSE Conclude("ok", history)
    /\ UNCHANGED historyRuns

-------------------------------------------------------------------------------
(* cleanup *)

\* The verifier is ready for another scan, swept for good.
HistoryReset(fields) ==
    [fields EXCEPT !.runs = << >>, !.buffer = << >>, !.next = 0, !.pass = FirstPass(<< >>), !.outcome = "ok"]

\* Mutant: a cleanup that failed is no reason to fail.
CleanHistoryQuietly ==
    /\ At("history cleanup")
    /\ \E left \in {{}, DOMAIN history.owned} :
        /\ historyRuns' = Without(historyRuns, DOMAIN history.owned \ left)
        /\ history' = HistoryReset([history EXCEPT !.owned = NoFiles])
    /\ Return(history.outcome)

CleanHistory ==
    /\ At("history cleanup")
    /\ historyRuns' = Without(historyRuns, DOMAIN history.owned)
    /\ history' = HistoryReset([history EXCEPT !.owned = NoFiles])
    /\ Return(history.outcome)

\* What cannot be unlinked stays owned, and if nothing is left the directory
\* barrier fails; the failure is returned in place of success.
CleanHistoryFails ==
    /\ At("history cleanup")
    /\ \E left \in {DOMAIN history.owned, DOMAIN history.owned \cap {0}, {}} :
        /\ historyRuns' = Without(historyRuns, DOMAIN history.owned \ left)
        /\ history' = [history EXCEPT !.owned = Without(@, DOMAIN @ \ left)]
    /\ Return(IF history.outcome = "ok" THEN "failed" ELSE history.outcome)

HistoryStep ==
    \/ SweepHistory \/ RecordInHistory \/ VerifyHistory
    \/ FlushHistory \/ StartHistoryMerge \/ FinishHistoryMerge \/ VerifyOrdered \/ CleanHistory
===============================================================================
