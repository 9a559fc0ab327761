---------------------------- MODULE ScanCache_proofs ----------------------------
(***************************************************************************)
(* A runtime's memory of the active WAL agrees with the log wherever the   *)
(* code would use it in the log's place: for any number of runtimes, any   *)
(* faults and any room in the memory.                                      *)
(***************************************************************************)
EXTENDS ScanCache, DurableStore_proofs

-------------------------------------------------------------------------------
(* Scans of a log's first frames *)

LEMMA PrefixShape ==
    ASSUME NEW S, NEW s \in Seq(S), NEW n \in 0..Len(s)
    PROVE  /\ SubSeq(s, 1, n) \in Seq(S) /\ Len(SubSeq(s, 1, n)) = n
           /\ \A i \in 1..n : SubSeq(s, 1, n)[i] = s[i]
  OBVIOUS

LEMMA WholePrefix ==
    ASSUME NEW S, NEW s \in Seq(S)
    PROVE  SubSeq(s, 1, Len(s)) = s
  BY PrefixShape, SameSequence

LEMMA PrefixOfAppended ==
    ASSUME NEW S, NEW s \in Seq(S), NEW e \in S, NEW n \in 0..Len(s)
    PROVE  SubSeq(Append(s, e), 1, n) = SubSeq(s, 1, n)
<1>1. /\ Append(s, e) \in Seq(S) /\ Len(Append(s, e)) = Len(s) + 1
      /\ \A i \in 1..Len(s) : Append(s, e)[i] = s[i]
      BY AppendAt
<1>2. n \in 0..Len(Append(s, e)) /\ n \in Nat
      BY <1>1
<1>3. /\ SubSeq(Append(s, e), 1, n) \in Seq(S) /\ Len(SubSeq(Append(s, e), 1, n)) = n
      /\ \A i \in 1..n : SubSeq(Append(s, e), 1, n)[i] = Append(s, e)[i]
      BY <1>1, <1>2, PrefixShape
<1>4. /\ SubSeq(s, 1, n) \in Seq(S) /\ Len(SubSeq(s, 1, n)) = n
      /\ \A i \in 1..n : SubSeq(s, 1, n)[i] = s[i]
      BY PrefixShape
<1> QED BY <1>1, <1>3, <1>4, SameSequence

LEMMA PrefixGrows ==
    ASSUME NEW S, NEW s \in Seq(S), NEW n \in 0..Len(s), n # Len(s)
    PROVE  SubSeq(s, 1, n + 1) = Append(SubSeq(s, 1, n), s[n + 1])
<1>1. n \in Nat /\ n + 1 \in 0..Len(s) /\ n + 1 \in 1..Len(s) /\ s[n + 1] \in S
      OBVIOUS
<1>2. /\ SubSeq(s, 1, n) \in Seq(S) /\ Len(SubSeq(s, 1, n)) = n
      /\ \A i \in 1..n : SubSeq(s, 1, n)[i] = s[i]
      BY PrefixShape
<1>3. /\ SubSeq(s, 1, n + 1) \in Seq(S) /\ Len(SubSeq(s, 1, n + 1)) = n + 1
      /\ \A i \in 1..(n + 1) : SubSeq(s, 1, n + 1)[i] = s[i]
      BY <1>1, PrefixShape
<1>4. /\ Append(SubSeq(s, 1, n), s[n + 1]) \in Seq(S)
      /\ Len(Append(SubSeq(s, 1, n), s[n + 1])) = n + 1
      /\ \A i \in 1..n : Append(SubSeq(s, 1, n), s[n + 1])[i] = SubSeq(s, 1, n)[i]
      /\ Append(SubSeq(s, 1, n), s[n + 1])[n + 1] = s[n + 1]
      BY <1>1, <1>2, AppendAt
<1>5. ASSUME NEW i \in 1..(n + 1)
      PROVE  SubSeq(s, 1, n + 1)[i] = Append(SubSeq(s, 1, n), s[n + 1])[i]
      BY <1>2, <1>3, <1>4
<1> QED BY <1>3, <1>4, <1>5, SameSequence

LEMMA PrefixEntries ==
    ASSUME NEW S, NEW s \in Seq(S), NEW n \in 0..Len(s), NEW m \in 0..n
    PROVE  Entries(SubSeq(s, 1, m)) \subseteq Entries(SubSeq(s, 1, n))
<1>1. m \in 0..Len(s) /\ m =< n
      OBVIOUS
<1> QED BY <1>1, PrefixShape DEF Entries

LEMMA AppendEntries ==
    ASSUME NEW S, NEW s \in Seq(S), NEW e \in S
    PROVE  Entries(Append(s, e)) = Entries(s) \cup {e}
<1>1. /\ DOMAIN Append(s, e) = 1..(Len(s) + 1) /\ DOMAIN s = 1..Len(s) /\ Len(s) \in Nat
      /\ \A i \in 1..Len(s) : Append(s, e)[i] = s[i]
      /\ Append(s, e)[Len(s) + 1] = e
      BY AppendAt
<1>2. Entries(Append(s, e)) \subseteq Entries(s) \cup {e}
      BY <1>1 DEF Entries
<1>3. Entries(s) \subseteq Entries(Append(s, e))
      BY <1>1 DEF Entries
<1>4. e \in Entries(Append(s, e))
      BY <1>1 DEF Entries
<1> QED BY <1>2, <1>3, <1>4

-------------------------------------------------------------------------------
(* What a step leaves of a memory, and what an answer adds *)

LEMMA LogBounds ==
    ASSUME Coherent
    PROVE  /\ Frames \in Seq(Transaction) /\ ckpt \in Seq(Transaction) /\ head \in Nat
           /\ Len(Frames) \in Nat
  BY Unfold, LogShape DEF TypeOK

\* Nothing a living process does takes frames away from the lineage HEAD
\* selects: an append adds one, and a rotation leaves the lineage.
LEMMA MemoryKept ==
    ASSUME Coherent, NEW r \in Runtimes, Still \/ Grown(r) \/ Moved(r),
           NEW h \in Memory, Stands(h)
    PROVE  Stands(h)'
<1>1. h.head \in Nat /\ h.size \in Nat /\ h.head =< head
      BY DEF Memory, Stands
<1>2. CASE Still
      BY <1>2 DEF Still, Stands
<1>3. CASE Moved(r)
  <2>1. h.head =< head' /\ h.head # head'
        BY <1>1, <1>3, LogBounds DEF Moved
  <2> QED BY <2>1 DEF Stands
<1>4. CASE Grown(r)
  <2>1. /\ head' = head /\ ckpt' = ckpt /\ Frames' = Append(Frames, Tx(r)) /\ Tx(r) \in Transaction
        /\ Len(Frames') = Len(Frames) + 1
        BY <1>4, HistoryMoves, LogBounds, AppendAt DEF Grown
  <2>2. CASE h.head = head
    <3>1. h.size \in 0..Len(Frames)
          BY <1>1, <2>2, LogBounds DEF Stands
    <3>2. SubSeq(Frames', 1, h.size) = SubSeq(Frames, 1, h.size)
          BY <2>1, <3>1, LogBounds, PrefixOfAppended
    <3>3. h.size =< Len(Frames')
          BY <2>1, <3>1, LogBounds
    <3> QED BY <1>1, <2>1, <2>2, <3>2, <3>3 DEF Stands
  <2>3. CASE h.head # head
        BY <1>1, <2>1, <2>3 DEF Stands
  <2> QED BY <2>2, <2>3
<1> QED BY <1>2, <1>3, <1>4

LEMMA ScanStands ==
    ASSUME Coherent, NEW n \in 0..Len(Frames)
    PROVE  /\ Scan(n) \in Memory /\ Stands(Scan(n))
           /\ Scan(n).head = head /\ Scan(n).size = n
<1> DEFINE m == Min2(n, CacheEntries)
<1>1. /\ n \in Nat /\ m \in 0..n /\ m \in 0..Len(Frames)
      /\ n =< CacheEntries => m = n
      BY LogBounds, CacheEntriesOK DEF Min2
<1>2. /\ SubSeq(Frames, 1, n) \in Seq(Transaction)
      /\ ckpt \o SubSeq(Frames, 1, n) \in Seq(Transaction)
      BY LogBounds, PrefixShape, ConcatAt
<1>3. /\ Entries(SubSeq(Frames, 1, m)) \subseteq Entries(SubSeq(Frames, 1, n))
      BY <1>1, LogBounds, PrefixEntries
<1>4. Entries(SubSeq(Frames, 1, n)) \subseteq Transaction
      BY <1>2 DEF Entries
<1>5. Scan(n) = [head |-> head, size |-> n, tip |-> ckpt \o SubSeq(Frames, 1, n),
                 entries |-> Entries(SubSeq(Frames, 1, m)), complete |-> (n =< CacheEntries)]
      BY DEF Scan
<1> HIDE DEF m
<1>6. (n =< CacheEntries) \in BOOLEAN
      OBVIOUS
<1>7. Scan(n) \in Memory
      BY <1>1, <1>2, <1>3, <1>4, <1>5, <1>6, LogBounds DEF Memory
<1>8. /\ Scan(n).head = head /\ Scan(n).size = n /\ Scan(n).tip = ckpt \o SubSeq(Frames, 1, n)
      /\ Scan(n).entries = Entries(SubSeq(Frames, 1, m)) /\ Scan(n).complete = (n =< CacheEntries)
      BY <1>5
<1>9. n =< Len(Frames) /\ head =< head
      BY LogBounds
<1> QED BY <1>1, <1>3, <1>7, <1>8, <1>9 DEF Stands

LEMMA ValidatedStands ==
    ASSUME Coherent, MemoryStands, NEW r \in Runtimes, NEW n \in 0..Len(Frames)
    PROVE  /\ Validated(r, n) \in Memory /\ Stands(Validated(r, n))
           /\ Validated(r, n).head = head /\ Validated(r, n).size = n
<1>1. CASE Usable(r, n, req[r].mid)
      BY <1>1 DEF Usable, Validated, MemoryStands
<1>2. CASE ~Usable(r, n, req[r].mid)
      BY <1>2, ScanStands DEF Validated
<1> QED BY <1>1, <1>2

\* A full memory stops being complete, and one with room takes the frame.
LEMMA ExtendedStands ==
    ASSUME Coherent, NEW n \in 0..Len(Frames), n # Len(Frames), n + 1 = Len(Frames),
           NEW h \in Memory, Stands(h), h.head = head, h.size = n, NEW tx, tx = Frames[n + 1]
    PROVE  Extended(h, tx) \in Memory /\ Stands(Extended(h, tx))
<1> DEFINE first == SubSeq(Frames, 1, n)
           room == Cardinality(h.entries) < CacheEntries
           e == Extended(h, tx)
<1>1. n \in Nat /\ tx \in Transaction
      BY LogBounds
<1>2. first \in Seq(Transaction)
      BY LogBounds, PrefixShape
<1>3. SubSeq(Frames, 1, n + 1) = Append(first, Frames[n + 1])
      BY LogBounds, PrefixGrows
<1>4. /\ h.tip = ckpt \o first
      /\ h.entries \subseteq Entries(first)
      /\ h.complete => h.entries = Entries(first)
      /\ h.tip \in Seq(Transaction)
      BY DEF Stands, Memory
<1>5. SubSeq(Frames, 1, n + 1) = Append(first, tx)
      BY <1>3
<1> HIDE DEF first
<1>6. Append(h.tip, tx) = ckpt \o SubSeq(Frames, 1, n + 1)
  <2>1. ckpt \o Append(first, tx) = Append(ckpt \o first, tx)
        BY <1>1, <1>2, LogBounds, ConcatAppend
  <2> QED BY <1>4, <1>5, <2>1
<1>7. Entries(SubSeq(Frames, 1, n + 1)) = Entries(first) \cup {tx}
  <2>1. Entries(Append(first, tx)) = Entries(first) \cup {tx}
        BY <1>1, <1>2, AppendEntries
  <2> QED BY <1>5, <2>1
<1>8. /\ e.head = head /\ e.size = n + 1 /\ e.tip = Append(h.tip, tx)
      /\ e.entries = IF room THEN h.entries \cup {tx} ELSE h.entries
      /\ e.complete = (h.complete /\ room)
      BY DEF Extended, Memory
<1>9. e \in Memory
  <2>1. Append(h.tip, tx) \in Seq(Transaction)
        BY <1>1, <1>4
  <2> QED BY <1>1, <2>1, LogBounds DEF Extended, Memory
<1> HIDE DEF e, room
<1>10. Stands(e)
  <2>1. e.head =< head /\ e.size =< Len(Frames)
        BY <1>8, LogBounds
  <2>2. e.tip = ckpt \o SubSeq(Frames, 1, e.size)
        BY <1>6, <1>8
  <2>3. e.entries \subseteq Entries(SubSeq(Frames, 1, e.size))
        BY <1>4, <1>7, <1>8
  <2>4. e.complete => e.entries = Entries(SubSeq(Frames, 1, e.size))
        BY <1>4, <1>7, <1>8
  <2> QED BY <2>1, <2>2, <2>3, <2>4 DEF Stands
<1> QED BY <1>9, <1>10 DEF e

-------------------------------------------------------------------------------
(* The invariant *)

\* A runtime remembers only when its own attempt under writer.lock answers:
\* the log stands still, but for the frame it has just made durable.
LEMMA AnswerInPlace ==
    ASSUME Coherent, NEW r \in Runtimes, Call(r) \/ Step(r) \/ Fail(r),
           NEW p \in Runtimes, Answers(p)
    PROVE  /\ Still
           /\ stage[p] = "written" =>
                Len(Frames) # 0 /\ Tx(p) = Frames[Len(Frames)]
<1>1. (Still \/ Grown(r) \/ Moved(r)) /\ StandStill(r)
      BY Unfold, LogMoves, OthersStill
<1>2. stage'[p] = "release" /\ stage[p] \in {"lookup", "commit", "writing", "written", "relook"}
      BY DEF Answers, Ends, Attempting
<1>3. p = r
      BY <1>1, <1>2 DEF StandStill
<1>4. ~Grown(r) /\ ~Moved(r)
      BY <1>2, <1>3 DEF Grown, Moved
<1>5. ASSUME stage[p] = "written" PROVE Len(Frames) # 0 /\ Tx(p) = Frames[Len(Frames)]
  <2>1. dirty = <<Tx(p)>> /\ wal \in Seq(Transaction) /\ dirty \in Seq(Transaction)
        BY <1>5, Unfold DEF Local, TypeOK
  <2>2. Len(dirty) = 1 /\ dirty[1] = Tx(p)
        BY <2>1
  <2>3. /\ Len(Frames) = Len(wal) + 1 /\ Len(wal) \in Nat
        /\ Frames[Len(wal) + 1] = dirty[1]
        BY <2>1, <2>2, ConcatAt DEF Frames
  <2> QED BY <2>2, <2>3
<1> QED BY <1>1, <1>4, <1>5

LEMMA RememberedStands ==
    ASSUME Coherent, MemoryStands, NEW r \in Runtimes, Call(r) \/ Step(r) \/ Fail(r),
           NEW p \in Runtimes, Answers(p)
    PROVE  Remembered(p) \in Memory /\ Stands(Remembered(p))
<1>1. CASE stage[p] = "written"
  <2>1. Len(Frames) # 0 /\ Tx(p) = Frames[Len(Frames)]
        BY <1>1, AnswerInPlace
  <2>2. PICK n \in 0..Len(Frames) : n = Len(Frames) - 1 /\ n # Len(Frames) /\ n + 1 = Len(Frames)
    <3>1. \A l \in Nat \ {0} : l - 1 \in 0..l /\ l - 1 # l /\ (l - 1) + 1 = l
          OBVIOUS
    <3> QED BY <2>1, <3>1, LogBounds
  <2>3. PICK h \in Memory : h = Validated(p, n) /\ Stands(h) /\ h.head = head /\ h.size = n
        BY ValidatedStands
  <2>4. Extended(h, Tx(p)) \in Memory /\ Stands(Extended(h, Tx(p)))
        BY <2>1, <2>2, <2>3, ExtendedStands
  <2> QED BY <1>1, <2>2, <2>3, <2>4 DEF Remembered
<1>2. CASE stage[p] # "written"
  <2>1. Len(Frames) \in 0..Len(Frames)
        BY LogBounds
  <2> QED BY <1>2, <2>1, ValidatedStands DEF Remembered
<1> QED BY <1>1, <1>2

LEMMA MemoryInit == CachedInit => MemoryStands
  BY DEF CachedInit, MemoryStands

LEMMA MemoryNext == Coherent /\ MemoryStands /\ [CachedNext]_<<vars, cache>> => MemoryStands'
<1> SUFFICES ASSUME Coherent, MemoryStands, [CachedNext]_<<vars, cache>>, NEW p \in Runtimes,
                    cache'[p] # None
             PROVE  cache'[p] \in Memory /\ Stands(cache[p])'
    BY DEF MemoryStands
<1>1. CachedNext => \/ cache'[p] = cache[p] /\ ~Forgets(p)
                    \/ Answers(p) /\ cache'[p] = Remembered(p) /\ ~Forgets(p)
      BY DEF CachedNext, Caching
<1>2. ASSUME NEW r \in Runtimes, Call(r) \/ Step(r) \/ Fail(r), CachedNext
      PROVE  cache'[p] \in Memory /\ Stands(cache[p])'
  <2>1. cache'[p] \in Memory /\ Stands(cache'[p])
        BY <1>1, <1>2, RememberedStands DEF MemoryStands
  <2>2. PICK h \in Memory : h = cache'[p] /\ Stands(h)
        BY <2>1
  <2>3. Stands(h)'
        BY <1>2, <2>2, LogMoves, MemoryKept
  <2> QED BY <2>1, <2>2, <2>3 DEF Stands
<1>3. CASE CachedNext /\ (LosePower \/ LoseRename)
  <2>1. life'[p] = "closed"
        BY <1>3, Unfold, PowerStands DEF Down
  <2> QED BY <1>1, <1>3, <2>1 DEF Forgets
<1>4. CASE (CachedNext /\ ClearStaleLock) \/ UNCHANGED <<vars, cache>>
  <2>1. UNCHANGED <<head, ckpt, Frames, stage>>
        BY <1>4, NobodysStep DEF flow
  <2>2. ~Answers(p)
        BY <2>1 DEF Answers, Ends, Attempting
  <2>3. cache'[p] = cache[p]
        BY <1>1, <1>4, <2>2
  <2> QED BY <2>1, <2>3 DEF MemoryStands, Stands
<1> QED BY <1>2, <1>3, <1>4 DEF CachedNext, Next

LEMMA CachedIsStore == CachedSpec => Spec
<1>1. CachedInit => Init
      BY DEF CachedInit
<1>2. [CachedNext]_<<vars, cache>> => [Next]_vars
      BY DEF CachedNext
<1> QED BY <1>1, <1>2, PTL DEF CachedSpec, Spec

LEMMA MemoryAlways == CachedSpec => [](Coherent /\ MemoryStands)
  BY CachedIsStore, CoherentAlways, MemoryInit, MemoryNext, PTL DEF CachedSpec

\* Whatever the code would take from memory is what the log says now: the tip
\* an append is based on, and for every identity whether it is committed.
THEOREM MemoryIsTheLog == CachedSpec => []CacheAgrees
<1>1. Coherent /\ MemoryStands => CacheAgrees
  <2> SUFFICES ASSUME Coherent, MemoryStands, NEW r \in Runtimes, NEW mid \in Mutations,
                      Usable(r, Len(Frames), mid)
               PROVE  /\ cache[r].tip = History
                      /\ {tx \in cache[r].entries : tx.mid = mid} = {tx \in Entries(Frames) : tx.mid = mid}
      BY DEF CacheAgrees
  <2>1. SubSeq(Frames, 1, Len(Frames)) = Frames
        BY LogBounds, WholePrefix
  <2>2. /\ cache[r].tip = History /\ cache[r].entries \subseteq Entries(Frames)
        /\ cache[r].complete => cache[r].entries = Entries(Frames)
        BY <2>1 DEF Usable, MemoryStands, Stands, History
  <2>3. ASSUME NEW t \in Entries(Frames), NEW u \in Entries(Frames), t.mid = u.mid PROVE t = u
    <3>1. PICK i \in DOMAIN Frames, j \in DOMAIN Frames : t = Frames[i] /\ u = Frames[j]
          BY DEF Entries
    <3>2. /\ Len(ckpt) + i \in DOMAIN History /\ History[Len(ckpt) + i] = t
          /\ Len(ckpt) + j \in DOMAIN History /\ History[Len(ckpt) + j] = u
          BY <3>1, Unfold, FramesInHistory
    <3>3. Len(ckpt) + i = Len(ckpt) + j
          BY <2>3, <3>2, Unfold DEF Shared, CommittedOnce
    <3> QED BY <3>2, <3>3
  <2> QED BY <2>2, <2>3 DEF Usable
<1> QED BY <1>1, MemoryAlways, PTL
===============================================================================
