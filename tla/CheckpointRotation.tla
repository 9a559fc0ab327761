-------------------------- MODULE CheckpointRotation --------------------------
(***************************************************************************)
(* Checkpoint rotation, file by file.  The holder of writer.lock builds    *)
(* the ledger and checkpoint of a new lineage beside those of the old one, *)
(* switches HEAD and removes what is retired.  Any step may fail or be the *)
(* last one before a kill or a power loss; rotations are then tried again, *)
(* by anybody, on whatever was left.                                       *)
(*                                                                         *)
(* A lineage is named by the digest of what it was made from: here, by the *)
(* lengths of the history at which it and its ancestors were cut off.      *)
(***************************************************************************)
EXTENDS Naturals, Sequences, FiniteSets

CONSTANTS
    MaxCommits,    \* bound: transactions committed
    MaxRotations,  \* bound: rotations one lineage descends from
    InOrder,       \* a power loss keeps the changes to one directory in order
    Faults,        \* the faults the environment produces
    None           \* no entry

ASSUME RotationConstantsOK ==
    /\ MaxCommits \in Nat /\ MaxRotations \in Nat /\ InOrder \in BOOLEAN
    /\ None \notin [of : Seq(Nat), whole : BOOLEAN]

VARIABLES
    disk,       \* the entries of the store directory
    unsynced,   \* changes to entries that no directory sync has followed
    committed,  \* length of the committed history
    from,       \* the lineage a rotation retires
    upto,       \* the length of the history it captured
    at,         \* its next step, 0 when no rotation is running
    outcome     \* what the last rotation reported

vars == <<disk, unsynced, committed, from, upto, at, outcome>>

Initial == << >>
Cut(lineage) == IF lineage = Initial THEN 0 ELSE lineage[Len(lineage)]
Target == Append(from, upto)

-------------------------------------------------------------------------------
(* The directory.  An entry is a name, and what it holds is of a lineage. *)

Fixed(name) == <<name, Initial>>
HEAD == Fixed("HEAD")
Receipts == Fixed("receipts")
Ledger(lineage) == <<"ledger", lineage>>
Checkpoint(lineage) == <<"checkpoint", lineage>>
Wal(lineage) == <<"wal", lineage>>

\* The names rotations use in .private.
Runs == Fixed("rotation-sort")
LedgerCandidate == Fixed("rotation-candidate")
CheckpointCandidate == Fixed("rotation-checkpoint")
HeadCandidate == Fixed("rotation-head")

Folder(e) ==
    CASE e[1] \in {"HEAD", "receipts"} -> "store"
      [] e[1] = "ledger"               -> "receipts"
      [] e[1] = "checkpoint"           -> "checkpoints"
      [] e[1] = "wal"                  -> "wal"
      [] OTHER                         -> ".private"

Has(e) == e \in DOMAIN disk
Content(e) == IF Has(e) THEN disk[e] ELSE None
Whole(lineage) == [of |-> lineage, whole |-> TRUE]
Partial(lineage) == [of |-> lineage, whole |-> FALSE]

Without(names) == [e \in DOMAIN disk \ names |-> disk[e]]
With(d, e, content) == [x \in DOMAIN d \cup {e} |-> IF x = e THEN content ELSE d[x]]

\* The changes still unsynced after a sync of these folders.
StillUnsynced(folders) ==
    LET still[n \in 0..Len(unsynced)] ==
            IF n = 0 THEN << >>
            ELSE IF unsynced[n].folder \in folders THEN still[n - 1]
            ELSE Append(still[n - 1], unsynced[n])
    IN  still[Len(unsynced)]

\* Replacing an entry by an equal one changes nothing.
Changed(e, content) ==
    IF Content(e) = content
    THEN << >>
    ELSE <<[folder |-> Folder(e), entry |-> e, was |-> Content(e)]>>

-------------------------------------------------------------------------------
(* The steps of a rotation, in order *)

Do(op, of) == [op |-> op, of |-> of, src |-> of]
Move(src, of) == [op |-> "move", of |-> of, src |-> src]
Sync(folder) == [op |-> "sync", of |-> Fixed(folder), src |-> Fixed(folder)]

Write(e) == <<Do("make", e), Do("fill", e)>>

\* Mutant: one scratch name is forgotten.
SweepScratchButHead ==
    << Do("discard", LedgerCandidate), Do("discard", CheckpointCandidate),
       Do("discard", Runs), Sync(".private") >>

\* sweepScratch: absent names are no error.
SweepScratch ==
    << Do("discard", LedgerCandidate), Do("discard", CheckpointCandidate),
       Do("discard", HeadCandidate), Do("discard", Runs), Sync(".private") >>

\* P2, P3: the retiring segment is sorted into runs, which are merged with the
\* verified predecessor ledger.
Merge ==
    (IF from = Initial THEN << >> ELSE <<Do("verify", Ledger(from))>>)
    \o (IF upto > Cut(from) THEN <<Do("verify", Wal(from))>> \o Write(Runs) ELSE << >>)
    \o <<Do("ensure", Receipts)>> \o Write(LedgerCandidate) \o <<Do("discard", Runs)>>

\* Mutant: the checkpoints directory is not synced before HEAD names one.
ActivateUnsynced ==
    << Move(LedgerCandidate, Ledger(Target)), Do("verify", Ledger(Target)), Sync("receipts") >>
    \o Write(CheckpointCandidate)
    \o << Sync(".private"), Move(CheckpointCandidate, Checkpoint(Target)),
          Do("verify", Checkpoint(Target)) >>

\* P5: both artifacts at their final paths.
Activate ==
    << Move(LedgerCandidate, Ledger(Target)), Do("verify", Ledger(Target)), Sync("receipts") >>
    \o Write(CheckpointCandidate)
    \o << Sync(".private"), Move(CheckpointCandidate, Checkpoint(Target)),
          Do("verify", Checkpoint(Target)), Sync("checkpoints") >>

\* P6.
Switch ==
    Write(HeadCandidate)
    \o << Sync(".private"), Do("verify", HeadCandidate), Move(HeadCandidate, HEAD) >>
Confirm == << Sync(".private"), Sync("store") >>

\* P7.
Retire ==
    << Do("discard", Wal(from)), Do("remove", Checkpoint(from)) >>
    \o (IF from = Initial THEN << >> ELSE <<Do("remove", Ledger(from))>>)

\* Mutant: one directory stays unsynced.
ReclaimUnsynced ==
    Retire \o SweepScratch \o << Sync("checkpoints"), Sync("receipts"), Sync("store") >>

Reclaim ==
    Retire \o SweepScratch
    \o << Sync("wal"), Sync("checkpoints"), Sync("receipts"), Sync("store") >>

Rotation == SweepScratch \o Merge \o Activate \o Switch \o Confirm \o Reclaim

\* How many steps lie before HEAD is renamed, and before that is confirmed.
Switched == Len(SweepScratch \o Merge \o Activate \o Switch)
Confirmed == Switched + Len(Confirm)

-------------------------------------------------------------------------------
(* One step *)

Running == at # 0
Current == Rotation[at]

\* The file system does what is asked.
Succeeds(do) ==
    CASE do.op = "make"   -> ~Has(do.of)
      [] do.op = "remove" -> Has(do.of)
      [] do.op = "verify" -> Has(do.of) /\ disk[do.of].whole
      [] do.op = "move"   -> Has(do.src) /\ (Folder(do.of) = "receipts" => Has(Receipts))
      [] do.op = "sync"   -> do.of[1] = "receipts" => Has(Receipts)
      [] OTHER            -> TRUE

Effect(do) ==
    LET e == do.of
    IN  CASE do.op = "make" \/ (do.op = "ensure" /\ ~Has(e)) ->
               /\ disk' = With(disk, e, Partial(Target))
               /\ unsynced' = unsynced \o Changed(e, Partial(Target))
          [] do.op = "fill" ->
               disk' = With(disk, e, Whole(Target)) /\ UNCHANGED unsynced
          [] do.op \in {"remove", "discard"} /\ Has(e) ->
               /\ disk' = Without({e})
               /\ unsynced' = unsynced \o Changed(e, None)
          [] do.op = "move" ->
               /\ disk' = With(Without({do.src}), e, disk[do.src])
               /\ unsynced' = unsynced \o Changed(do.src, None) \o Changed(e, disk[do.src])
          [] do.op = "sync" ->
               unsynced' = StillUnsynced({e[1]}) /\ UNCHANGED disk
          [] OTHER -> UNCHANGED <<disk, unsynced>>

Advance ==
    /\ Running /\ Succeeds(Current)
    /\ Effect(Current)
    /\ IF at < Len(Rotation)
       THEN at' = at + 1 /\ UNCHANGED outcome
       ELSE at' = 0 /\ outcome' = "rotated"
    /\ UNCHANGED <<committed, from, upto>>

\* Mutant: a failing barrier after the rename counts as a failure before it.
ReportTooEarly == IF at =< Confirmed THEN "pre-activation" ELSE "cleanup-pending"

\* What a failing step makes the rotation report.
Report ==
    CASE at =< Switched                   -> "pre-activation"
      [] at > Switched /\ at =< Confirmed -> "unconfirmed"
      [] OTHER                            -> "cleanup-pending"

Fail ==
    /\ Running /\ ("io" \in Faults \/ ~Succeeds(Current))
    /\ at' = 0
    /\ outcome' = Report
    /\ UNCHANGED <<disk, unsynced, committed, from, upto>>

\* writer.lock is taken, which syncs the store directory and that of the WAL;
\* the lineage and the length of its log are read under it.
Begin ==
    /\ ~Running
    /\ Len(disk[HEAD].of) < MaxRotations
    /\ from' = disk[HEAD].of
    /\ upto' = committed
    /\ at' = 1
    /\ outcome' = "none"
    /\ unsynced' = StillUnsynced({"store", "wal"})
    /\ UNCHANGED <<disk, committed>>

\* A mutation by anybody, under a lock of its own, durable when it returns.
Commit ==
    /\ ~Running
    /\ committed < MaxCommits
    /\ committed' = committed + 1
    /\ disk' = With(disk, Wal(disk[HEAD].of), Whole(disk[HEAD].of))
    /\ unsynced' = StillUnsynced({"store", "wal"})
    /\ UNCHANGED <<from, upto, at, outcome>>

-------------------------------------------------------------------------------
(* Faults *)

\* A rotation that was running is over and was not reported.
Forget ==
    /\ at' = 0
    /\ from' = IF Running THEN Initial ELSE from
    /\ upto' = IF Running THEN 0 ELSE upto

Crash ==
    /\ "crash" \in Faults
    /\ Running
    /\ Forget
    /\ UNCHANGED <<disk, unsynced, committed, outcome>>

\* Changes that may be lost together: what is lost of an entry, or of a
\* directory kept in order, is its last changes.
Losable(lost) ==
    \A i \in lost, j \in DOMAIN unsynced :
        (i < j /\ IF InOrder THEN unsynced[i].folder = unsynced[j].folder
                             ELSE unsynced[i].entry = unsynced[j].entry) => j \in lost

\* The content of an entry when these changes are lost.
Left(lost, e) ==
    LET mine == {i \in lost : unsynced[i].entry = e}
    IN  IF mine = {} THEN Content(e)
        ELSE unsynced[CHOOSE i \in mine : \A j \in mine : i =< j].was

LosePower ==
    /\ "power" \in Faults
    /\ unsynced # << >>
    /\ \E lost \in SUBSET DOMAIN unsynced :
        /\ Losable(lost)
        /\ LET names == DOMAIN disk \cup {unsynced[i].entry : i \in lost}
               gone == Left(lost, Receipts) = None
               kept == {e \in names : Left(lost, e) # None /\ (gone => Folder(e) # "receipts")}
           IN  disk' = [e \in kept |-> Left(lost, e)]
    /\ unsynced' = << >>
    /\ Forget
    /\ UNCHANGED <<committed, outcome>>

-------------------------------------------------------------------------------
Init ==
    /\ disk = [e \in {HEAD, Checkpoint(Initial)} |-> Whole(Initial)]
    /\ unsynced = << >>
    /\ committed = 0
    /\ from = Initial /\ upto = 0 /\ at = 0
    /\ outcome = "none"

Next == Begin \/ Commit \/ Advance \/ Fail \/ Crash \/ LosePower

Spec == Init /\ [][Next]_vars

-------------------------------------------------------------------------------
(* Properties *)

\* HEAD always selects a complete lineage, before and after every fault: its
\* checkpoint and ledger are whole and, with its WAL, hold all that was ever
\* committed.
HeadSelectsComplete ==
    LET lineage == disk[HEAD].of
    IN  /\ disk[HEAD].whole
        /\ Content(Checkpoint(lineage)) = Whole(lineage)
        /\ lineage # Initial => Has(Receipts) /\ Content(Ledger(lineage)) = Whole(lineage)
        /\ Cut(lineage) < committed => Content(Wal(lineage)) = Whole(lineage)

\* Whatever earlier attempts left behind, every step of a rotation finds what
\* it needs: only the environment can make one fail.
NeverInItsOwnWay == Running => Succeeds(Current)

\* What a rotation reported stays true: after a failure before activation the
\* old lineage is selected, and a rotation that was confirmed is never undone.
ReportHolds ==
    /\ outcome = "pre-activation" => disk[HEAD].of = from
    /\ outcome \in {"rotated", "cleanup-pending"} =>
        /\ disk[HEAD].of = Target
        /\ \A i \in DOMAIN unsynced : unsynced[i].entry # HEAD

\* A rotation that reports complete success has removed the retired lineage
\* for good: no power loss brings its files back.
RetiredIsGone ==
    outcome = "rotated" =>
        \A e \in {Wal(from), Checkpoint(from), Ledger(from)} :
            ~Has(e) /\ \A i \in DOMAIN unsynced : unsynced[i].entry # e

-------------------------------------------------------------------------------
(* What they rest on, as an inductive invariant *)

Names ==
    {"HEAD", "receipts", "ledger", "checkpoint", "wal",
     "rotation-sort", "rotation-candidate", "rotation-checkpoint", "rotation-head"} \X Seq(Nat)
Folders == {"store", "receipts", "checkpoints", "wal", ".private"}
Contents == [of : Seq(Nat), whole : BOOLEAN]
Changes == [folder : Folders, entry : Names, was : Contents \cup {None}]

TypeOK ==
    /\ DOMAIN disk \subseteq Names /\ \A e \in DOMAIN disk : disk[e] \in Contents
    /\ unsynced \in Seq(Changes)
    /\ \A i \in DOMAIN unsynced : unsynced[i].folder = Folder(unsynced[i].entry)
    /\ committed \in Nat /\ from \in Seq(Nat) /\ upto \in Nat
    /\ at \in 0..Len(Rotation)
    /\ outcome \in {"none", "rotated", "pre-activation", "unconfirmed", "cleanup-pending"}

\* A power loss leaves this entry, or all of this folder, as it is.
Settled(e) == \A i \in DOMAIN unsynced : unsynced[i].entry # e
Synced(folder) == \A i \in DOMAIN unsynced : unsynced[i].folder # folder

\* A lineage that HEAD may select: everything it needs is there to stay, but
\* for the directory of its ledger.
Safe(lineage) ==
    /\ Content(Checkpoint(lineage)) = Whole(lineage)
    /\ lineage # Initial => Has(Receipts) /\ Content(Ledger(lineage)) = Whole(lineage)
    /\ Cut(lineage) < committed => Content(Wal(lineage)) = Whole(lineage)
    /\ Settled(Checkpoint(lineage)) /\ Settled(Ledger(lineage)) /\ Settled(Wal(lineage))

HeadChanges == {i \in DOMAIN unsynced : unsynced[i].entry = HEAD}

\* HEAD selects such a lineage, and so does every HEAD that may come back.
Selected ==
    /\ Has(HEAD) /\ disk[HEAD].whole /\ Safe(disk[HEAD].of)
    /\ \A i \in HeadChanges : unsynced[i].was # None /\ unsynced[i].was.whole /\ Safe(unsynced[i].was.of)

\* Before the directory of the ledgers is there to stay, HEAD selects the
\* initial lineage, or was changed later and will do so when it comes back.
LedgersFollow ==
    \A i \in DOMAIN unsynced :
        unsynced[i].entry = Receipts =>
            /\ unsynced[i].was = None
            /\ HeadChanges = {} => disk[HEAD].of = Initial
            /\ \A j \in HeadChanges : i < j /\ unsynced[j].was.of = Initial

\* The initial lineage has no ledger.
NoInitialLedger == ~Has(Ledger(Initial)) /\ Settled(Ledger(Initial))

\* How many steps lie before the activation, and before the last sweep.
Prepared == Len(SweepScratch) + Len(Merge)
Retired == Confirmed + Len(Retire)

\* What is selected while a rotation is running, and what is left of what it retires.
Lineage ==
    /\ upto = committed /\ outcome = "none"
    /\ at =< Switched => disk[HEAD].of = from /\ HeadChanges = {}
    /\ at > Switched => disk[HEAD].of = Target
    /\ at > Confirmed => HeadChanges = {}
    /\ at =< Confirmed + 1 => Synced("wal")
    /\ at =< Confirmed => Safe(from)
    /\ at =< Confirmed + 2 => Content(Checkpoint(from)) = Whole(from)
    /\ at =< Retired /\ from # Initial => Has(Ledger(from))
    /\ at > Confirmed + 1 => ~Has(Wal(from))
    /\ at > Confirmed + 2 => ~Has(Checkpoint(from))
    /\ at > Retired => ~Has(Ledger(from))

\* What the scratch names hold when it comes to them.
Scratch ==
    /\ at \in 2..(Prepared - 2) => ~Has(LedgerCandidate)
    /\ at \in Prepared..(Prepared + 1) => Content(LedgerCandidate) = Whole(Target)
    /\ at \in 3..(Prepared + 4) => ~Has(CheckpointCandidate)
    /\ at \in (Prepared + 6)..(Prepared + 7) => Content(CheckpointCandidate) = Whole(Target)
    /\ at \in 4..(Prepared + 10) => ~Has(HeadCandidate)
    /\ at \in (Prepared + 12)..(Prepared + 14) => Content(HeadCandidate) = Whole(Target)
    /\ at \in 5..(Prepared - 5) => ~Has(Runs)

\* What has been installed, and since when it is there to stay.
Installed ==
    /\ at > Prepared - 3 => Has(Receipts)
    /\ at > Prepared + 1 => Content(Ledger(Target)) = Whole(Target)
    /\ at > Prepared + 3 => Settled(Ledger(Target))
    /\ at > Prepared + 7 => Content(Checkpoint(Target)) = Whole(Target)
    /\ at > Prepared + 9 => Settled(Checkpoint(Target))

\* The last sweep leaves nothing unsynced.
Finishing ==
    /\ at > Retired + 5 => Synced(".private")
    /\ at > Retired + 6 => Synced("wal")
    /\ at > Retired + 7 => Synced("checkpoints")
    /\ at > Retired + 8 => Synced("receipts")

Reported ==
    /\ outcome = "pre-activation" => disk[HEAD].of = from /\ HeadChanges = {}
    /\ outcome \in {"rotated", "cleanup-pending"} => disk[HEAD].of = Target /\ HeadChanges = {}
    /\ outcome = "rotated" =>
        unsynced = << >> /\ ~Has(Wal(from)) /\ ~Has(Checkpoint(from)) /\ ~Has(Ledger(from))

Recoverable ==
    /\ TypeOK /\ Selected /\ LedgersFollow /\ NoInitialLedger /\ Reported
    /\ Running => Lineage /\ Scratch /\ Installed /\ Finishing
===============================================================================
