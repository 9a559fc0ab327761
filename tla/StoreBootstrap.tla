---------------------------- MODULE StoreBootstrap ----------------------------
(***************************************************************************)
(* Creation of a durable store.  Calls of DurableRuntime.open race on one  *)
(* path: each inspects it, creates the store when it is missing, and       *)
(* recovers it under writer.lock.  Every file-system call is a step, so    *)
(* that calls interleave, fail, are killed or lose power between any two.  *)
(*                                                                         *)
(* A directory entry is made by one call and named by its maker.  It is    *)
(* visible at once and survives a power loss once its folder is synced.    *)
(***************************************************************************)
EXTENDS Naturals, Sequences

CONSTANTS
    Calls,    \* calls of open, each made once
    Mode,     \* the openMode of each call
    Faults,   \* the faults the environment produces
    None      \* no entry

ASSUME ModesOK == Mode \in [Calls -> {"auto", "create", "existing"}] /\ None \notin Calls

VARIABLES
    disk,     \* who made each visible entry
    kept,     \* the entries as a power loss would find them
    whole,    \* files whose bytes are complete and synced
    path,     \* what a call is doing
    at,       \* its next file-system call there
    base,     \* the store it works on, named by its creator
    owns,     \* it believes writer.lock to be its own
    good      \* what it did under the lock succeeded

vars == <<disk, kept, whole, path, at, base, owns, good>>

Layout == {"checkpoints", "wal", "private"}
Entries == Layout \cup {"dir", "lock", "checkpoint", "candidate", "HEAD"}

\* The directory an entry is in.
Folder(e) ==
    CASE e = "dir"        -> "parent"
      [] e = "checkpoint" -> "checkpoints"
      [] e = "candidate"  -> "private"
      [] OTHER            -> "dir"

Do(op, of) == [op |-> op, of |-> of]

-------------------------------------------------------------------------------
(* What each part of open asks of the file system, in order *)

\* FsDurableStore.inspect, once the directory is known to exist.
Inspection ==
    << Do("absent", "lock"),
       Do("present", "checkpoints"), Do("present", "wal"), Do("present", "private"),
       Do("read", "HEAD"), Do("verify", "checkpoint"),
       Do("absent", "lock"), Do("same", "HEAD") >>

\* Mutant: HEAD is activated before the checkpoint it names is durable.
CreationHeadFirst ==
    << Do("sync", "parent"), Do("make", "dir"),
       Do("make", "lock"), Do("fill", "lock"),
       Do("make", "checkpoints"), Do("make", "wal"), Do("make", "private"),
       Do("make", "checkpoint"), Do("fill", "checkpoint"),
       Do("make", "candidate"), Do("fill", "candidate"), Do("sync", "private"),
       Do("verify", "candidate"), Do("verify", "checkpoint"),
       Do("rename", "HEAD"), Do("sync", "private"), Do("sync", "dir"),
       Do("sync", "checkpoints"), Do("sync", "wal"), Do("sync", "parent"),
       Do("remove", "lock"), Do("sync", "dir") >>

\* FsDurableStore.initialize, after its own inspection.
Creation ==
    << Do("sync", "parent"), Do("make", "dir"),
       Do("make", "lock"), Do("fill", "lock"),
       Do("make", "checkpoints"), Do("make", "wal"), Do("make", "private"),
       Do("make", "checkpoint"), Do("fill", "checkpoint"),
       Do("sync", "checkpoints"), Do("sync", "wal"), Do("sync", "dir"), Do("sync", "parent"),
       Do("make", "candidate"), Do("fill", "candidate"), Do("sync", "private"),
       Do("verify", "candidate"), Do("verify", "checkpoint"),
       Do("rename", "HEAD"), Do("sync", "private"), Do("sync", "dir"),
       Do("remove", "lock"), Do("sync", "dir") >>

\* withRecoveryAuthority, and StartupRecovery's reading of the checkpoint.
Recovery ==
    << Do("present", "checkpoints"), Do("present", "wal"), Do("present", "private"),
       Do("sync", "dir"), Do("sync", "wal"),
       Do("read", "HEAD"), Do("make", "lock"), Do("fill", "lock"), Do("sync", "dir"),
       Do("present", "checkpoints"), Do("present", "wal"), Do("present", "private"),
       Do("own", "lock"), Do("same", "HEAD"), Do("verify", "checkpoint") >>

\* The end of withRecoveryAuthority, whatever happened under the lock.
Release == << Do("own", "lock"), Do("remove", "lock"), Do("sync", "dir") >>

\* The end of initialize after a failure.
Cleanup == << Do("remove", "lock") >>

Program ==
    [inspect |-> Inspection, again |-> Inspection, create |-> Creation,
     recover |-> Recovery, release |-> Release, cleanup |-> Cleanup]

-------------------------------------------------------------------------------
(* File-system calls *)

Exists(e) == e \in Entries => disk[e] # None

\* The call made by c finds what it needs.
Succeeds(c, do) ==
    LET e == do.of
    IN  CASE do.op = "absent"  -> disk[e] = None
          [] do.op = "present" -> disk[e] # None
          [] do.op = "read"    -> disk[e] # None /\ e \in whole
          [] do.op = "same"    -> disk[e] = base[c]
          [] do.op = "verify"  -> disk[e] = base[c] /\ e \in whole
          [] do.op = "own"     -> disk[e] = c
          [] do.op = "sync"    -> Exists(e)
          [] do.op = "make"    -> disk[e] = None /\ Exists(Folder(e))
          [] do.op = "fill"    -> TRUE
          [] do.op = "rename"  -> disk["candidate"] # None
          [] do.op = "remove"  -> disk[e] # None

\* What it changes.  A file is created empty, then written and synced; only
\* then does a call consider writer.lock its own.
Effect(c, do) ==
    LET e == do.of
    IN  /\ disk' = CASE do.op = "make"   -> [disk EXCEPT ![e] = c]
                     [] do.op = "remove" -> [disk EXCEPT ![e] = None]
                     [] do.op = "rename" -> [disk EXCEPT ![e] = disk["candidate"],
                                                         !["candidate"] = None]
                     [] OTHER            -> disk
        /\ kept' = IF do.op = "sync"
                   THEN [x \in Entries |-> IF Folder(x) = e THEN disk[x] ELSE kept[x]]
                   ELSE kept
        /\ whole' = CASE do.op = "make"   -> whole \ {e}
                      [] do.op = "fill"   -> whole \cup {e}
                      [] do.op = "rename" -> {x \in Entries : (IF x = e THEN "candidate" ELSE x) \in whole}
                      [] OTHER            -> whole
        /\ base' = IF do.op = "read" THEN [base EXCEPT ![c] = disk[e]] ELSE base
        /\ owns' = CASE do = Do("fill", "lock")   -> [owns EXCEPT ![c] = TRUE]
                     [] do = Do("remove", "lock") -> [owns EXCEPT ![c] = FALSE]
                     [] OTHER                     -> owns

Goto(c, next) ==
    /\ path' = [path EXCEPT ![c] = next]
    /\ at' = [at EXCEPT ![c] = 1]

Working(c) == path[c] \in DOMAIN Program
Current(c) == Program[path[c]][at[c]]

\* Mutant: an existing store is opened whatever was asked for.
AfterAnyMode(c) ==
    CASE path[c] = "inspect" -> "recover"
      [] path[c] = "again"   -> "refused"
      [] path[c] = "create"  -> "recover"
      [] path[c] = "recover" -> "release"
      [] path[c] = "release" -> IF good[c] THEN "opened" ELSE "refused"
      [] path[c] = "cleanup" -> "refused"

\* Where a call goes when one of its parts is complete.
After(c) ==
    CASE path[c] = "inspect" -> IF Mode[c] = "create" THEN "refused" ELSE "recover"
      [] path[c] = "again"   -> "refused"
      [] path[c] = "create"  -> "recover"
      [] path[c] = "recover" -> "release"
      [] path[c] = "release" -> IF good[c] THEN "opened" ELSE "refused"
      [] path[c] = "cleanup" -> "refused"

Perform(c) ==
    /\ Working(c) /\ Succeeds(c, Current(c))
    /\ Effect(c, Current(c))
    /\ IF at[c] < Len(Program[path[c]])
       THEN at' = [at EXCEPT ![c] = @ + 1] /\ UNCHANGED <<path, good>>
       ELSE /\ Goto(c, After(c))
            /\ good' = [good EXCEPT ![c] = @ \/ path[c] = "recover"]

\* Mutant: a failed creation unlocks whether or not it locked.
FailsUnlocking(c) ==
    /\ Working(c) /\ ("io" \in Faults \/ ~Succeeds(c, Current(c)))
    /\ Goto(c, CASE path[c] = "create"              -> "cleanup"
                 [] path[c] = "recover" /\ owns[c] -> "release"
                 [] OTHER                          -> "refused")
    /\ UNCHANGED <<disk, kept, whole, base, owns, good>>

\* A call that fails ends the part it belongs to.  What is known to be locked
\* is unlocked, once.
Fails(c) ==
    /\ Working(c) /\ ("io" \in Faults \/ ~Succeeds(c, Current(c)))
    /\ Goto(c, CASE path[c] = "create" /\ owns[c]  -> "cleanup"
                 [] path[c] = "recover" /\ owns[c] -> "release"
                 [] OTHER                          -> "refused")
    /\ UNCHANGED <<disk, kept, whole, base, owns, good>>

\* Is the directory there?  initialize asks again what open has asked, and
\* creates only what is missing both times.
Look(c) ==
    /\ path[c] \in {"start", "restart"}
    /\ IF disk["dir"] # None
       THEN Goto(c, IF path[c] = "start" THEN "inspect" ELSE "again") /\ UNCHANGED base
       ELSE \/ /\ Mode[c] = "existing"
               /\ Goto(c, "refused") /\ UNCHANGED base
            \/ /\ Mode[c] # "existing"
               /\ Goto(c, IF path[c] = "start" THEN "restart" ELSE "create")
               /\ base' = [base EXCEPT ![c] = c]
    /\ UNCHANGED <<disk, kept, whole, owns, good>>

-------------------------------------------------------------------------------
(* Faults *)

Over(c) == path[c] \in {"refused", "dead"}

Crash(c) ==
    /\ "crash" \in Faults
    /\ ~Over(c)
    /\ Goto(c, "dead")
    /\ owns' = [owns EXCEPT ![c] = FALSE]
    /\ UNCHANGED <<disk, kept, whole, base, good>>

\* Entries whose folder was not synced since they changed are found as they
\* were or as they are; what is in a lost directory is lost.
LosePower ==
    /\ "power" \in Faults
    /\ \E lost \in SUBSET {e \in Entries : disk[e] # kept[e]} :
        LET image == [e \in Entries |-> IF e \in lost THEN kept[e] ELSE disk[e]]
            inDir(e) == e = "dir" \/ image["dir"] # None
            linked(e) == inDir(e) /\ (Folder(e) \in {"parent", "dir"} \/ image[Folder(e)] # None)
            left == [e \in Entries |-> IF linked(e) THEN image[e] ELSE None]
        IN  /\ disk' = left
            /\ kept' = left
            /\ whole' = {e \in whole : left[e] # None}
    \* A call that has not begun yet may still be made after the restart.
    /\ path' = [c \in Calls |-> IF path[c] = "start" THEN "start" ELSE "dead"]
    /\ at' = [c \in Calls |-> 1]
    /\ owns' = [c \in Calls |-> FALSE]
    /\ UNCHANGED <<base, good>>

-------------------------------------------------------------------------------
Init ==
    /\ disk = [e \in Entries |-> None]
    /\ kept = [e \in Entries |-> None]
    /\ whole = {}
    /\ path = [c \in Calls |-> "start"]
    /\ at = [c \in Calls |-> 1]
    /\ base = [c \in Calls |-> None]
    /\ owns = [c \in Calls |-> FALSE]
    /\ good = [c \in Calls |-> FALSE]

Step(c) == Look(c) \/ Perform(c) \/ Fails(c)

Next == LosePower \/ \E c \in Calls : Step(c) \/ Crash(c)

Spec == Init /\ [][Next]_vars

-------------------------------------------------------------------------------
(* Properties *)

\* A visible HEAD is whole and so is everything it needs, all of one creation:
\* through every race and failure, and after every power loss.
HeadIsComplete ==
    disk["HEAD"] # None =>
        /\ {"HEAD", "checkpoint"} \subseteq whole
        /\ disk["checkpoint"] = disk["HEAD"]
        /\ \A e \in Layout : disk[e] = disk["HEAD"]

\* Two calls never both believe writer.lock to be theirs, and nobody's lock
\* is removed by another call.
LockIsOwned == \A c \in Calls : owns[c] => disk["lock"] = c

\* The store a caller was given, created or found, is one that a power loss
\* leaves in place: every entry it needs is the creator's and is synced.
EstablishedSurvives ==
    \A c \in Calls :
        path[c] = "opened" =>
            \A e \in Layout \cup {"dir", "HEAD", "checkpoint"} : kept[e] = base[c] /\ disk[e] = base[c]

\* Whoever asked for a new store got one nobody else created, and whoever
\* asked for an existing one did not create it.
ModeRespected ==
    \A c \in Calls :
        path[c] = "opened" => /\ Mode[c] = "create" => base[c] = c
                              /\ Mode[c] = "existing" => base[c] # c

-------------------------------------------------------------------------------
(* What they rest on, as an inductive invariant *)

TypeOK ==
    /\ disk \in [Entries -> Calls \cup {None}]
    /\ kept \in [Entries -> Calls \cup {None}]
    /\ whole \subseteq Entries
    /\ path \in [Calls -> DOMAIN Program \cup {"start", "restart", "opened", "refused", "dead"}]
    /\ at \in [Calls -> Nat]
    /\ \A c \in Calls : Working(c) => at[c] \in 1..Len(Program[path[c]])
    /\ base \in [Calls -> Calls \cup {None}]
    /\ owns \in [Calls -> BOOLEAN]
    /\ good \in [Calls -> BOOLEAN]

\* Entries that are made once and stay until a power loss.
Lasting == Entries \ {"lock", "candidate"}

\* The call that made the directory, which did not ask for an existing one,
\* made all there is in it but writer.lock.
OneCreator ==
    /\ \A e \in Entries \ {"lock"} : {disk[e], kept[e]} \subseteq {None, disk["dir"]}
    /\ \A e \in Lasting : kept[e] \in {None, disk[e]}
    /\ disk["dir"] # None => Mode[disk["dir"]] # "existing"

\* A visible HEAD selects what a power loss leaves in place.
Established ==
    disk["HEAD"] # None =>
        /\ {"HEAD", "checkpoint"} \subseteq whole
        /\ \A e \in Layout \cup {"dir", "checkpoint"} : disk[e] = disk["HEAD"] /\ kept[e] = disk["HEAD"]

\* The call is in this part of open, and past this many of its steps.
Past(c, part, n) == path[c] = part /\ at[c] > n

\* Who holds writer.lock, from before it is known to be locked.
Locking(c) ==
    /\ owns[c] => disk["lock"] = c
    /\ (Past(c, "create", 3) /\ at[c] < 23) \/ Past(c, "recover", 7) => disk["lock"] = c
    /\ \/ Past(c, "create", 4) /\ at[c] < 23
       \/ Past(c, "recover", 8)
       \/ path[c] = "release" /\ at[c] < 3
       \/ path[c] = "cleanup"
       => owns[c]

\* What a creation has made, filled and synced.
Creating(c) ==
    /\ path[c] \in {"restart", "create"} => Mode[c] # "existing"
    /\ path[c] = "create" => base[c] = c
    /\ Past(c, "create", 2) => disk["dir"] = c
    /\ Past(c, "create", 5) => disk["checkpoints"] = c
    /\ Past(c, "create", 6) => disk["wal"] = c
    /\ Past(c, "create", 7) => disk["private"] = c
    /\ Past(c, "create", 8) => disk["checkpoint"] = c
    /\ Past(c, "create", 9) => "checkpoint" \in whole
    /\ Past(c, "create", 10) => kept["checkpoint"] = c
    /\ Past(c, "create", 12) => \A e \in Layout : kept[e] = c
    /\ Past(c, "create", 13) => kept["dir"] = c
    /\ Past(c, "create", 14) /\ at[c] < 20 => disk["candidate"] = c
    /\ Past(c, "create", 15) /\ at[c] < 20 => "candidate" \in whole
    /\ Past(c, "create", 19) => disk["HEAD"] = c

\* The store a call found, and from when on it cannot be lost.
Recovering(c) ==
    /\ Mode[c] = "create" /\ path[c] \in {"recover", "release", "opened"} => disk["HEAD"] = c
    /\ good[c] => path[c] \in {"release", "opened", "refused", "dead"}
    /\ path[c] = "opened" => good[c]
    /\ Past(c, "recover", 6) \/ (path[c] \in {"release", "opened"} /\ good[c]) =>
            base[c] = disk["HEAD"] /\ base[c] # None
    /\ Past(c, "recover", 9) \/ (path[c] \in {"release", "opened"} /\ good[c]) =>
            kept["HEAD"] = base[c]

Bootstrapped ==
    /\ TypeOK /\ OneCreator /\ Established
    /\ \A c \in Calls : Locking(c) /\ Creating(c) /\ Recovering(c)
===============================================================================
