------------------------- MODULE RecoveryMutationIndex -------------------------
(***************************************************************************)
(* The index of the active WAL's identities: a buffer spilled to sorted    *)
(* run files in .private/, whose inputs are unlinked as they are merged,   *)
(* and a manifest that reserves file numbers before files of those numbers *)
(* exist.                                                                  *)
(***************************************************************************)
EXTENDS SortedRuns

CONSTANTS
    IndexNames,  \* MAX_INDEX_FILES
    IndexFlush   \* runFlushBytes, in records

ASSUME IndexConstantsOK ==
    /\ IndexNames \in Nat \ {0}
    /\ IndexFlush \in Nat \ {0}

VARIABLES
    index,      \* the fields of the DiskBackedMutationIndex
    indexRuns,  \* file number -> the records of the run file
    manifest    \* << >>, or the watermark it holds

indexVars == <<index, indexRuns, manifest>>

IndexClosed ==
    [opened |-> "no", buffer |-> << >>, runs |-> << >>, next |-> 0, watermark |-> 0,
     owned |-> NoFiles, pass |-> FirstPass(<< >>)]

\* The manifest is accounted for from its creation on.
IndexBytes == Sizes(index.owned, IndexNames) + (IF index.opened = "yes" THEN 1 ELSE 0)
Fits(bytes) == IndexBytes + bytes =< allowance

IndexMerged(files) == Merged("line", [i \in DOMAIN files |-> indexRuns[files[i]]])

-------------------------------------------------------------------------------
(* ensureOpen *)

\* Mutant: the manifest says which numbers were used.
SweepIndexReserved ==
    /\ At("index record") \/ At("index verify")
    /\ index.opened = "no"
    /\ indexRuns' = IF manifest = << >> THEN indexRuns ELSE Without(indexRuns, 0..manifest[1])
    /\ manifest' = << >>
    /\ index' = [index EXCEPT !.opened = "swept"]
    /\ UNCHANGED call

\* Whatever a manifest says, all numbers are swept.
SweepIndex ==
    /\ At("index record") \/ At("index verify")
    /\ index.opened = "no"
    /\ indexRuns' = Without(indexRuns, 0..(IndexNames - 1))
    /\ manifest' = << >>
    /\ index' = [index EXCEPT !.opened = "swept"]
    /\ UNCHANGED call

CreateManifest ==
    /\ At("index record") \/ At("index verify")
    /\ index.opened = "swept"
    /\ IF ~Fits(1) THEN Return("resource-limit") /\ UNCHANGED <<index, manifest>>
       ELSE IF manifest # << >> THEN Return("in the way") /\ UNCHANGED <<index, manifest>>
       ELSE /\ manifest' = <<0>>
            /\ index' = [index EXCEPT !.opened = "yes", !.watermark = 0]
            /\ UNCHANGED call
    /\ UNCHANGED indexRuns

-------------------------------------------------------------------------------
(* record and the beginning of verifyExact *)

RecordInIndex ==
    /\ At("index record") /\ index.opened = "yes"
    /\ index' = [index EXCEPT !.buffer = Append(@, call.record)]
    /\ IF Len(index.buffer) + 1 >= IndexFlush THEN Go("index flush") ELSE Return("ok")
    /\ UNCHANGED <<indexRuns, manifest>>

VerifyIndex ==
    /\ At("index verify") /\ index.opened = "yes"
    /\ IF index.buffer # << >>
       THEN Go("index flush") /\ UNCHANGED index
       ELSE Go("index merge") /\ index' = [index EXCEPT !.pass = FirstPass(index.runs)]
    /\ UNCHANGED <<indexRuns, manifest>>

\* A file is about to be created: a flushed run, or the output of a group
\* whose merge fits on top of its inputs.
GroupBytes == GroupSize(index.pass, index.owned)
IndexMergeNeeded == At("index merge") /\ MergeNeeded(index.pass, FanIn)
IndexCreates == At("index flush") \/ (IndexMergeNeeded /\ Fits(GroupBytes))

NumbersExhausted ==
    /\ At("index flush") \/ IndexMergeNeeded
    /\ index.next >= IndexNames
    /\ Return("resource-limit")
    /\ UNCHANGED indexVars

\* reserve: the manifest is overwritten in place, and synced.
Reserve ==
    /\ IndexCreates /\ index.next < IndexNames /\ index.next > index.watermark
    /\ manifest' = <<index.next>>
    /\ index' = [index EXCEPT !.watermark = index.next]
    /\ UNCHANGED <<indexRuns, call>>

\* flushBuffer.  Its number is used up even where the run does not fit.
FlushIndex ==
    /\ At("index flush") /\ index.next < IndexNames /\ index.next =< index.watermark
    /\ LET run == SortedRecords("line", index.buffer)
           numbered == [index EXCEPT !.next = @ + 1]
       IN  IF ~Fits(Len(run))
           THEN index' = numbered /\ Return("resource-limit") /\ UNCHANGED indexRuns
           ELSE IF index.next \in DOMAIN indexRuns
           THEN index' = numbered /\ Return("in the way") /\ UNCHANGED indexRuns
           ELSE /\ indexRuns' = With(indexRuns, index.next, run)
                /\ index' = [numbered EXCEPT !.owned = With(@, index.next, Len(run)),
                                             !.runs = Append(@, index.next), !.buffer = << >>]
                /\ IF call.op = "index record" THEN Return("ok") ELSE Go("index verify")
    /\ UNCHANGED manifest

-------------------------------------------------------------------------------
(* The passes of verifyExact *)

MergeTooLarge ==
    /\ IndexMergeNeeded /\ index.next < IndexNames /\ ~Fits(GroupBytes)
    /\ Return("resource-limit")
    /\ UNCHANGED indexVars

\* The output is opened, exclusively.
StartIndexMerge ==
    /\ IndexMergeNeeded /\ Fits(GroupBytes) /\ index.next < IndexNames /\ index.next =< index.watermark
    /\ index' = [index EXCEPT !.next = @ + 1, !.runs = Append(@, index.next)]
    /\ IF index.next \in DOMAIN indexRuns
       THEN Return("in the way") /\ UNCHANGED indexRuns
       ELSE Go("index merging") /\ indexRuns' = With(indexRuns, index.next, << >>)
    /\ UNCHANGED manifest

MergeOutput == index.runs[Len(index.runs)]

\* The output is complete and synced; from now on it is accounted for.
FinishIndexMerge ==
    /\ At("index merging")
    /\ LET run == IndexMerged(Group(index.pass))
       IN  /\ indexRuns' = With(indexRuns, MergeOutput, run)
           /\ index' = [index EXCEPT !.owned = With(@, MergeOutput, Len(run))]
    /\ Go("index unlink")
    /\ UNCHANGED manifest

\* Of the group's files, those that are left.
InputsLeft == {i \in DOMAIN Group(index.pass) : Group(index.pass)[i] \in DOMAIN index.owned}

\* Mutant: an input that cannot be unlinked is given up.
UnlinkInputAnyhow ==
    /\ At("index unlink")
    /\ \E i \in InputsLeft :
        LET file == Group(index.pass)[i]
            unlinked == [index EXCEPT !.owned = Without(@, {file})]
        IN  /\ \A j \in InputsLeft : i =< j
            /\ indexRuns' \in {indexRuns, Without(indexRuns, {file})}
            /\ IF InputsLeft # {i}
               THEN index' = unlinked /\ UNCHANGED call
               ELSE /\ index' = [unlinked EXCEPT !.pass = GroupDone(@, MergeOutput)]
                    /\ Go("index merge")
    /\ UNCHANGED manifest

\* The inputs go one by one, and with the last the group is done.  What cannot
\* be unlinked stays accounted for, and nothing more is merged.
UnlinkInput ==
    /\ At("index unlink")
    /\ \E i \in InputsLeft :
        LET file == Group(index.pass)[i]
            unlinked == [index EXCEPT !.owned = Without(@, {file})]
        IN  /\ \A j \in InputsLeft : i =< j
            /\ indexRuns' = Without(indexRuns, {file})
            /\ IF InputsLeft # {i}
               THEN index' = unlinked /\ UNCHANGED call
               ELSE /\ index' = [unlinked EXCEPT !.pass = GroupDone(@, MergeOutput)]
                    /\ Go("index merge")
    /\ UNCHANGED manifest

\* scanGroup: one identity under two transactions is corruption, one record
\* met twice is not.
ScanGroup ==
    /\ At("index merge") /\ ~MergeNeeded(index.pass, FanIn)
    /\ LET all == IndexMerged(index.pass.todo)
       IN  IF \E i \in 1..(Len(all) - 1) : all[i][1] = all[i + 1][1] /\ all[i] # all[i + 1]
           THEN Return("corrupt") ELSE Return("ok")
    /\ UNCHANGED indexVars

IndexStep ==
    \/ SweepIndex \/ CreateManifest \/ RecordInIndex \/ VerifyIndex
    \/ NumbersExhausted \/ Reserve \/ FlushIndex
    \/ MergeTooLarge \/ StartIndexMerge \/ FinishIndexMerge \/ UnlinkInput \/ ScanGroup
===============================================================================
