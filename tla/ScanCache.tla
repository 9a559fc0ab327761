------------------------------- MODULE ScanCache -------------------------------
(***************************************************************************)
(* What a runtime's FsWalStore remembers of the active WAL: the history of *)
(* its last successful attempt, reused while HEAD and the file's stamp are *)
(* the same.  DurableStore reads the log itself wherever the code may use  *)
(* this memory; that both give the same answer is what is shown here.      *)
(*                                                                         *)
(* A stamp is the file's size: its times are left out, so that two states  *)
(* of a file of one size are told apart by nothing.                        *)
(***************************************************************************)
EXTENDS DurableStore

CONSTANT CacheEntries    \* MUTATION_CACHE_ENTRIES

ASSUME CacheEntriesOK == CacheEntries \in Nat

VARIABLE cache    \* by runtime

-------------------------------------------------------------------------------
(* history *)

\* The scan of the first n frames.
Scan(n) ==
    [head |-> head, size |-> n, tip |-> ckpt \o SubSeq(Frames, 1, n),
     entries |-> Entries(SubSeq(Frames, 1, Min2(n, CacheEntries))), complete |-> n =< CacheEntries]

\* What is remembered may stand for a scan of n frames, when mid is asked for.
Usable(r, n, mid) ==
    /\ cache[r] # None
    /\ cache[r].head = head /\ cache[r].size = n
    /\ cache[r].complete \/ \E tx \in cache[r].entries : tx.mid = mid

Validated(r, n) == IF Usable(r, n, req[r].mid) THEN cache[r] ELSE Scan(n)

\* Mutant: an entry there was no room for does not make the index incomplete.
ExtendedWhole(history, tx) ==
    LET room == Cardinality(history.entries) < CacheEntries
    IN  [history EXCEPT !.size = @ + 1, !.tip = Append(@, tx),
                        !.entries = IF room THEN @ \cup {tx} ELSE @]

\* The frame just appended is remembered too, if there is room.
Extended(history, tx) ==
    LET room == Cardinality(history.entries) < CacheEntries
    IN  [history EXCEPT !.size = @ + 1, !.tip = Append(@, tx),
                        !.entries = IF room THEN @ \cup {tx} ELSE @,
                        !.complete = @ /\ room]

-------------------------------------------------------------------------------
(* run *)

Attempting(r) == stage[r] \in {"lookup", "commit", "writing", "written", "relook"}

\* The attempt under way ends: with a receipt, an absent identity or a tip,
\* or by throwing, as it does for every other use of a committed identity.
Ends(r) == Attempting(r) /\ stage'[r] \in {"release", "idle"}
Answers(r) ==
    /\ Ends(r) /\ stage'[r] = "release"
    /\ pending'[r].code \in {"continue", "committed", "already", "corruption"}
    /\ pending'[r].next # "relook"

\* What an answering attempt leaves.  An absent file counts as an empty one.
Remembered(r) ==
    IF stage[r] = "written"
    THEN Extended(Validated(r, Len(Frames) - 1), Tx(r))
    ELSE Validated(r, Len(Frames))

\* A release that fails is a throw too, if the lock was taken by FsWalStore
\* and not by a search of the receipts, an install or a reading of the
\* effects.  Where the mutation goes next tells which; when it ends, only a
\* commit does.
ReleaseThrows(r) == task[r] = "mutate" /\ stage[r] = "release" /\ ReleaseFails(r)
OwnRelease(r) ==
    pending[r].next \in {"receipts", "effects", "relook"} \/ pending[r].code = "committed"
PerhapsOwn(r) == ~OwnRelease(r) /\ pending[r].next = "idle"

\* A store object ends with its runtime, and a throw forgets.
Forgets(r) == life'[r] = "closed" \/ (Ends(r) /\ ~Answers(r)) \/ (ReleaseThrows(r) /\ OwnRelease(r))

Caching ==
    \E more \in SUBSET {r \in Runtimes : ReleaseThrows(r) /\ PerhapsOwn(r)} :
        cache' = [r \in Runtimes |->
                     IF Forgets(r) \/ r \in more THEN None
                     ELSE IF Answers(r) THEN Remembered(r) ELSE cache[r]]

CachedInit == Init /\ cache = [r \in Runtimes |-> None]
CachedNext == Next /\ Caching
CachedSpec == CachedInit /\ [][CachedNext]_<<vars, cache>>

-------------------------------------------------------------------------------
(* Properties *)

\* Whatever the code would take from memory is what the log says now: the tip
\* every append is based on, and for every identity whether it is committed.
CacheAgrees ==
    \A r \in Runtimes, mid \in Mutations :
        ~torn /\ Usable(r, Len(Frames), mid) =>
            /\ cache[r].tip = History
            /\ {tx \in cache[r].entries : tx.mid = mid} = {tx \in Entries(Frames) : tx.mid = mid}

-------------------------------------------------------------------------------
(* What the memory is, as an inductive invariant *)

Memory == [head : Nat, size : Nat, tip : Seq(Transaction), entries : SUBSET Transaction,
           complete : BOOLEAN]

\* Of the lineage HEAD selects, a memory holds the first frames: where they
\* end, some of their entries, and all of them if it is complete.  Another
\* lineage it names is an earlier one.
Stands(h) ==
    /\ h.head =< head
    /\ h.head = head =>
        /\ h.size =< Len(Frames)
        /\ h.tip = ckpt \o SubSeq(Frames, 1, h.size)
        /\ h.entries \subseteq Entries(SubSeq(Frames, 1, h.size))
        /\ h.complete => h.entries = Entries(SubSeq(Frames, 1, h.size))

MemoryStands == \A r \in Runtimes : cache[r] # None => cache[r] \in Memory /\ Stands(cache[r])
===============================================================================
