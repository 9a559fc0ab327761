----------------------- MODULE CheckpointRotation_proofs -----------------------
(***************************************************************************)
(* Rotations survive: for any number of commits, rotations, failures,      *)
(* kills and power losses that keep each directory in order, HEAD selects  *)
(* a complete lineage, reports hold and what is left never stops anybody.  *)
(***************************************************************************)
EXTENDS CheckpointRotation, WellFoundedInduction, TLAPS

-------------------------------------------------------------------------------
(* Numbers and sequences *)

LEMMA Least ==
    ASSUME NEW T \in SUBSET Nat, T # {}
    PROVE  \E n \in T : \A m \in T : n =< m
<1>1. IsWellFoundedOn(OpToRel(<, Nat), Nat)
      BY NatLessThanWellFounded
<1>2. PICK n \in T : \A m \in T : ~(<<m, n>> \in OpToRel(<, Nat))
      BY <1>1, WFMin
<1>3. \A m \in T : ~(m < n)
      BY <1>2 DEF OpToRel
<1> QED BY <1>3

\* Induction, about a set.
LEMMA Induction ==
    ASSUME NEW T \in SUBSET Nat, 0 \in T, \A n \in T : n + 1 \in T
    PROVE  T = Nat
<1> SUFFICES ASSUME Nat \ T # {} PROVE FALSE
    OBVIOUS
<1>1. PICK n \in Nat \ T : \A m \in Nat \ T : n =< m
      BY Least
<1>2. n # 0 /\ n - 1 \in Nat
      BY <1>1
<1>3. n - 1 \in T
      BY <1>1, <1>2
<1> QED BY <1>2, <1>3

LEMMA AppendAt ==
    ASSUME NEW S, NEW s \in Seq(S), NEW e \in S
    PROVE  /\ Append(s, e) \in Seq(S)
           /\ Len(Append(s, e)) = Len(s) + 1
           /\ \A i \in 1..Len(s) : Append(s, e)[i] = s[i]
           /\ Append(s, e)[Len(s) + 1] = e
  OBVIOUS

LEMMA ConcatAt ==
    ASSUME NEW S, NEW s \in Seq(S), NEW t \in Seq(S)
    PROVE  /\ s \o t \in Seq(S)
           /\ Len(s \o t) = Len(s) + Len(t)
           /\ \A i \in 1..Len(s) : (s \o t)[i] = s[i]
           /\ \A i \in 1..Len(t) : (s \o t)[Len(s) + i] = t[i]
  OBVIOUS

LEMMA Associates ==
    ASSUME NEW S, NEW s \in Seq(S), NEW t \in Seq(S), NEW u \in Seq(S)
    PROVE  (s \o t) \o u = s \o (t \o u)
  OBVIOUS

-------------------------------------------------------------------------------
(* The changes a sync leaves unsynced *)

\* The sequence out has those of the first n unsynced changes that are in
\* other folders, in their order.
Filtered(out, n, folders) ==
    /\ out \in Seq(Changes)
    /\ \E g \in [1..Len(out) -> 1..n] :
        /\ \A i \in 1..Len(out) : out[i] = unsynced[g[i]] /\ unsynced[g[i]].folder \notin folders
        /\ \A i, j \in 1..Len(out) : i < j => g[i] < g[j]
        /\ \A k \in 1..n : unsynced[k].folder \notin folders => \E i \in 1..Len(out) : g[i] = k

Next1(f, n, folders) ==
    IF n = 0 THEN << >>
    ELSE IF unsynced[n].folder \in folders THEN f[n - 1]
    ELSE Append(f[n - 1], unsynced[n])

LEMMA FilteredStart == \A folders : Filtered(<< >>, 0, folders)
<1> TAKE folders
<1>1. << >> \in Seq(Changes) /\ Len(<< >>) = 0
      OBVIOUS
<1> DEFINE g == [i \in 1..0 |-> i]
<1>2. g \in [1..Len(<< >>) -> 1..0]
      BY <1>1
<1>3. (\A i \in 1..Len(<< >>) : FALSE) /\ (\A k \in 1..0 : FALSE)
      BY <1>1
<1> HIDE DEF g
<1> QED BY <1>1, <1>2, <1>3 DEF Filtered

LEMMA FilteredSkip ==
    ASSUME NEW out, NEW n \in Nat, NEW folders, Filtered(out, n, folders), unsynced[n + 1].folder \in folders
    PROVE  Filtered(out, n + 1, folders)
<1>1. PICK g \in [1..Len(out) -> 1..n] :
        /\ \A i \in 1..Len(out) : out[i] = unsynced[g[i]] /\ unsynced[g[i]].folder \notin folders
        /\ \A i, j \in 1..Len(out) : i < j => g[i] < g[j]
        /\ \A k \in 1..n : unsynced[k].folder \notin folders => \E i \in 1..Len(out) : g[i] = k
      BY DEF Filtered
<1>2. 1..n \subseteq 1..(n + 1) /\ \A k \in 1..(n + 1) : k \in 1..n \/ k = n + 1
      OBVIOUS
<1>3. g \in [1..Len(out) -> 1..(n + 1)]
      BY <1>1, <1>2
<1>4. \A k \in 1..(n + 1) : unsynced[k].folder \notin folders => \E i \in 1..Len(out) : g[i] = k
      BY <1>1, <1>2
<1> QED BY <1>1, <1>3, <1>4 DEF Filtered

LEMMA FilteredAppend ==
    ASSUME NEW out, NEW n \in Nat, NEW folders, Filtered(out, n, folders),
           unsynced[n + 1].folder \notin folders, unsynced[n + 1] \in Changes
    PROVE  Filtered(Append(out, unsynced[n + 1]), n + 1, folders)
<1> DEFINE more == Append(out, unsynced[n + 1])
<1>1. PICK g \in [1..Len(out) -> 1..n] :
        /\ \A i \in 1..Len(out) : out[i] = unsynced[g[i]] /\ unsynced[g[i]].folder \notin folders
        /\ \A i, j \in 1..Len(out) : i < j => g[i] < g[j]
        /\ \A k \in 1..n : unsynced[k].folder \notin folders => \E i \in 1..Len(out) : g[i] = k
      BY DEF Filtered
<1>2. /\ more \in Seq(Changes) /\ Len(more) = Len(out) + 1 /\ Len(out) \in Nat
      /\ \A i \in 1..Len(out) : more[i] = out[i]
      /\ more[Len(out) + 1] = unsynced[n + 1]
      BY AppendAt DEF Filtered
<1> HIDE DEF more
<1> DEFINE h == [i \in 1..Len(more) |-> IF i = Len(out) + 1 THEN n + 1 ELSE g[i]]
<1>3. /\ h \in [1..Len(more) -> 1..(n + 1)] /\ h[Len(out) + 1] = n + 1
      /\ \A i \in 1..Len(out) : h[i] = g[i] /\ h[i] \in 1..n
      BY <1>1, <1>2
<1>4. \A i \in 1..Len(more) : i \in 1..Len(out) \/ i = Len(out) + 1
      BY <1>2
<1> HIDE DEF h
<1>5. \A i \in 1..Len(more) : more[i] = unsynced[h[i]] /\ unsynced[h[i]].folder \notin folders
      BY <1>1, <1>2, <1>3, <1>4
<1>6. \A i, j \in 1..Len(more) : i < j => h[i] < h[j]
  <2> SUFFICES ASSUME NEW i \in 1..Len(more), NEW j \in 1..Len(more), i < j PROVE h[i] < h[j]
      OBVIOUS
  <2>1. i \in 1..Len(out)
        BY <1>2
  <2>2. CASE j = Len(out) + 1
        BY <1>3, <2>1, <2>2
  <2>3. CASE j \in 1..Len(out)
        BY <1>1, <1>3, <2>1, <2>3
  <2> QED BY <1>4, <2>2, <2>3
<1>7. \A k \in 1..(n + 1) : unsynced[k].folder \notin folders => \E i \in 1..Len(more) : h[i] = k
  <2> SUFFICES ASSUME NEW k \in 1..(n + 1), unsynced[k].folder \notin folders
               PROVE  \E i \in 1..Len(more) : h[i] = k
      OBVIOUS
  <2>1. CASE k = n + 1
        BY <1>2, <1>3, <2>1
  <2>2. CASE k \in 1..n
    <3>1. PICK i \in 1..Len(out) : g[i] = k
          BY <1>1, <2>2
    <3> QED BY <1>2, <1>3, <3>1
  <2> QED BY <2>1, <2>2
<1> QED BY <1>2, <1>3, <1>5, <1>6, <1>7 DEF Filtered, more

\* There is a function as StillUnsynced defines one.
LEMMA StillExists ==
    ASSUME unsynced \in Seq(Changes), NEW folders
    PROVE  \E f : f = [n \in 0..Len(unsynced) |-> Next1(f, n, folders)]
<1> DEFINE good(m) == \E f : DOMAIN f = 0..m /\ f = [n \in 0..m |-> Next1(f, n, folders)]
           T == {m \in Nat : good(m)}
<1>1. 0 \in T
  <2>1. [n \in 0..0 |-> << >>] = [n \in 0..0 |-> Next1([k \in 0..0 |-> << >>], n, folders)]
        BY DEF Next1
  <2> QED BY <2>1
<1>2. ASSUME NEW m \in T PROVE m + 1 \in T
  <2>1. PICK f : DOMAIN f = 0..m /\ f = [n \in 0..m |-> Next1(f, n, folders)]
        OBVIOUS
  <2> DEFINE g == [n \in 0..(m + 1) |-> IF n = m + 1 THEN Next1(f, n, folders) ELSE f[n]]
  <2>2. \A n \in 0..(m + 1) : Next1(g, n, folders) = Next1(f, n, folders)
        BY DEF Next1
  <2>3. \A n \in 0..(m + 1) : g[n] = Next1(f, n, folders)
    <3>1. \A n \in 0..m : f[n] = Next1(f, n, folders)
          BY <2>1
    <3>2. \A n \in 0..(m + 1) : n = m + 1 \/ n \in 0..m
          OBVIOUS
    <3> QED BY <3>1, <3>2
  <2>4. g = [n \in 0..(m + 1) |-> g[n]] /\ DOMAIN g = 0..(m + 1)
        OBVIOUS
  <2> HIDE DEF g
  <2>5. g = [n \in 0..(m + 1) |-> Next1(g, n, folders)]
        BY <2>2, <2>3, <2>4
  <2> QED BY <2>4, <2>5
<1>3. T = Nat
      BY <1>1, <1>2, Induction
<1>4. good(Len(unsynced))
      BY <1>3
<1> QED BY <1>4

LEMMA StillFacts ==
    ASSUME unsynced \in Seq(Changes), NEW folders
    PROVE  Filtered(StillUnsynced(folders), Len(unsynced), folders)
<1> DEFINE still == CHOOSE f : f = [n \in 0..Len(unsynced) |-> Next1(f, n, folders)]
<1>1. StillUnsynced(folders) = still[Len(unsynced)]
      BY DEF StillUnsynced, Next1
<1>2. still = [n \in 0..Len(unsynced) |-> Next1(still, n, folders)]
      BY StillExists
<1> HIDE DEF still
<1>3. \A n \in 0..Len(unsynced) : still[n] = Next1(still, n, folders)
      BY <1>2
<1> DEFINE T == {n \in Nat : n =< Len(unsynced) => Filtered(still[n], n, folders)}
<1>4. 0 \in T
  <2>1. 0 \in 0..Len(unsynced)
        OBVIOUS
  <2>2. still[0] = << >>
        BY <1>3, <2>1 DEF Next1
  <2> QED BY <2>2, FilteredStart
<1>5. ASSUME NEW n \in T PROVE n + 1 \in T
  <2> SUFFICES ASSUME n + 1 =< Len(unsynced) PROVE Filtered(still[n + 1], n + 1, folders)
      OBVIOUS
  <2>1. Filtered(still[n], n, folders) /\ unsynced[n + 1] \in Changes
        OBVIOUS
  <2>2. still[n + 1] = IF unsynced[n + 1].folder \in folders THEN still[n] ELSE Append(still[n], unsynced[n + 1])
        BY <1>3 DEF Next1
  <2> QED BY <2>1, <2>2, FilteredSkip, FilteredAppend
<1>6. T \in SUBSET Nat /\ Len(unsynced) \in Nat
      OBVIOUS
<1> HIDE DEF T
<1>7. Len(unsynced) \in T
      BY <1>4, <1>5, <1>6, Induction
<1> QED BY <1>1, <1>7 DEF T

-------------------------------------------------------------------------------
(* The steps of a rotation *)

Verbs == {"make", "fill", "verify", "move", "sync", "ensure", "remove", "discard"}
Places == (Folders \X Seq(Nat)) \cup Names
Ops == [op : Verbs, of : Places, src : Places]

LEMMA Lineages ==
    ASSUME NEW S, NEW l \in Seq(S), NEW u \in S
    PROVE  /\ Append(l, u) \in Seq(S) /\ Append(l, u) # << >> /\ Append(l, u) # l
           /\ Append(l, u)[Len(Append(l, u))] = u
<1>1. Len(Append(l, u)) = Len(l) + 1 /\ Len(l) \in Nat /\ Len(<< >>) = 0
      OBVIOUS
<1> QED BY <1>1

LEMMA Operations ==
    /\ \A e \in Places : Do("make", e) \in Ops /\ Do("fill", e) \in Ops /\ Do("verify", e) \in Ops
    /\ \A e \in Places : Do("ensure", e) \in Ops /\ Do("remove", e) \in Ops /\ Do("discard", e) \in Ops
    /\ \A e, x \in Places : Move(x, e) \in Ops
    /\ Sync("store") \in Ops /\ Sync("receipts") \in Ops /\ Sync("checkpoints") \in Ops
    /\ Sync("wal") \in Ops /\ Sync(".private") \in Ops
<1>1. \A name \in Folders : Fixed(name) \in Places
  <2>1. << >> \in Seq(Nat)
        OBVIOUS
  <2> QED BY <2>1 DEF Fixed, Initial, Places
<1>2. /\ "make" \in Verbs /\ "fill" \in Verbs /\ "verify" \in Verbs /\ "move" \in Verbs
      /\ "sync" \in Verbs /\ "ensure" \in Verbs /\ "remove" \in Verbs /\ "discard" \in Verbs
      BY DEF Verbs
<1>3. /\ "store" \in Folders /\ "receipts" \in Folders /\ "checkpoints" \in Folders
      /\ "wal" \in Folders /\ ".private" \in Folders
      BY DEF Folders
<1>4. \A o \in Verbs, e \in Places : Do(o, e) \in Ops
      BY DEF Ops, Do
<1>5. \A e, x \in Places : Move(x, e) \in Ops
      BY <1>2 DEF Ops, Move
<1>6. \A name \in Folders : Sync(name) \in Ops
      BY <1>1, <1>2 DEF Ops, Sync
<1>7. /\ \A e \in Places : Do("make", e) \in Ops /\ Do("fill", e) \in Ops /\ Do("verify", e) \in Ops
      /\ \A e \in Places : Do("ensure", e) \in Ops /\ Do("remove", e) \in Ops /\ Do("discard", e) \in Ops
      BY <1>2, <1>4
<1> QED BY <1>3, <1>5, <1>6, <1>7

LEMMA Entries ==
    /\ HEAD \in Names /\ Receipts \in Names /\ Runs \in Names
    /\ LedgerCandidate \in Names /\ CheckpointCandidate \in Names /\ HeadCandidate \in Names
    /\ \A l \in Seq(Nat) : Ledger(l) \in Names /\ Checkpoint(l) \in Names /\ Wal(l) \in Names
<1>1. << >> \in Seq(Nat)
      OBVIOUS
<1>2. HEAD \in Names /\ Receipts \in Names /\ Runs \in Names
      BY <1>1 DEF HEAD, Receipts, Runs, Fixed, Initial, Names
<1>3. LedgerCandidate \in Names /\ CheckpointCandidate \in Names /\ HeadCandidate \in Names
      BY <1>1 DEF LedgerCandidate, CheckpointCandidate, HeadCandidate, Fixed, Initial, Names
<1>4. \A l \in Seq(Nat) : Ledger(l) \in Names /\ Checkpoint(l) \in Names /\ Wal(l) \in Names
      BY DEF Ledger, Checkpoint, Wal, Names
<1> QED BY <1>2, <1>3, <1>4

LEMMA Joined ==
    \A s, t \in Seq(Ops) : s \o t \in Seq(Ops) /\ Len(s \o t) = Len(s) + Len(t) /\ Len(s) \in Nat /\ Len(t) \in Nat
  OBVIOUS

LEMMA JoinedAt ==
    \A s, t \in Seq(Ops) :
        /\ \A i \in 1..Len(s) : (s \o t)[i] = s[i]
        /\ \A i \in 1..Len(t) : (s \o t)[Len(s) + i] = t[i]
  BY ConcatAt

LEMMA Listed ==
    /\ << >> \in Seq(Ops) /\ Len(<< >>) = 0
    /\ \A a \in Ops : <<a>> \in Seq(Ops) /\ Len(<<a>>) = 1
    /\ \A a, b \in Ops : <<a, b>> \in Seq(Ops) /\ Len(<<a, b>>) = 2
    /\ \A a, b, c \in Ops : <<a, b, c>> \in Seq(Ops) /\ Len(<<a, b, c>>) = 3
    /\ \A a, b, c, d \in Ops : <<a, b, c, d>> \in Seq(Ops) /\ Len(<<a, b, c, d>>) = 4
    /\ \A a, b, c, d, e \in Ops : <<a, b, c, d, e>> \in Seq(Ops) /\ Len(<<a, b, c, d, e>>) = 5
  OBVIOUS

LEMMA Located == Names \subseteq Places
  BY DEF Places

LEMMA Sections ==
    from \in Seq(Nat) /\ upto \in Nat =>
        /\ SweepScratch \in Seq(Ops) /\ Len(SweepScratch) = 5
        /\ Merge \in Seq(Ops)
        /\ Len(Merge) = (IF from = Initial THEN 0 ELSE 1) + (IF upto > Cut(from) THEN 3 ELSE 0) + 4
        /\ Activate \in Seq(Ops) /\ Len(Activate) = 9
        /\ Switch \in Seq(Ops) /\ Len(Switch) = 5
        /\ Confirm \in Seq(Ops) /\ Len(Confirm) = 2
        /\ Retire \in Seq(Ops) /\ Len(Retire) = 2 + (IF from = Initial THEN 0 ELSE 1)
        /\ Reclaim \in Seq(Ops) /\ Len(Reclaim) = Len(Retire) + 9
<1> SUFFICES ASSUME from \in Seq(Nat), upto \in Nat
    PROVE
        /\ SweepScratch \in Seq(Ops) /\ Len(SweepScratch) = 5
        /\ Merge \in Seq(Ops)
        /\ Len(Merge) = (IF from = Initial THEN 0 ELSE 1) + (IF upto > Cut(from) THEN 3 ELSE 0) + 4
        /\ Activate \in Seq(Ops) /\ Len(Activate) = 9
        /\ Switch \in Seq(Ops) /\ Len(Switch) = 5
        /\ Confirm \in Seq(Ops) /\ Len(Confirm) = 2
        /\ Retire \in Seq(Ops) /\ Len(Retire) = 2 + (IF from = Initial THEN 0 ELSE 1)
        /\ Reclaim \in Seq(Ops) /\ Len(Reclaim) = Len(Retire) + 9
    OBVIOUS
<1>0. Target \in Seq(Nat)
      BY Lineages DEF Target
<1>2. \A e \in Places : Write(e) \in Seq(Ops) /\ Len(Write(e)) = 2
      BY Listed, Operations DEF Write
<1>3. SweepScratch \in Seq(Ops) /\ Len(SweepScratch) = 5
  <2>1. /\ Do("discard", LedgerCandidate) \in Ops /\ Do("discard", CheckpointCandidate) \in Ops
        /\ Do("discard", HeadCandidate) \in Ops /\ Do("discard", Runs) \in Ops /\ Sync(".private") \in Ops
        BY Operations, Entries, Located
  <2> QED BY <2>1, Listed DEF SweepScratch
<1>4. Merge \in Seq(Ops)
      /\ Len(Merge) = (IF from = Initial THEN 0 ELSE 1) + (IF upto > Cut(from) THEN 3 ELSE 0) + 4
  <2> DEFINE a == IF from = Initial THEN << >> ELSE <<Do("verify", Ledger(from))>>
             w == <<Do("verify", Wal(from))>>
             b == IF upto > Cut(from) THEN w \o Write(Runs) ELSE << >>
             r == <<Do("ensure", Receipts)>>
             d == <<Do("discard", Runs)>>
  <2>1. a \in Seq(Ops) /\ Len(a) = IF from = Initial THEN 0 ELSE 1
        BY Listed, Operations, Entries, Located
  <2>2. w \in Seq(Ops) /\ Len(w) = 1 /\ r \in Seq(Ops) /\ Len(r) = 1 /\ d \in Seq(Ops) /\ Len(d) = 1
        BY Listed, Operations, Entries, Located
  <2>3. Write(Runs) \in Seq(Ops) /\ Len(Write(Runs)) = 2
        /\ Write(LedgerCandidate) \in Seq(Ops) /\ Len(Write(LedgerCandidate)) = 2
        BY <1>2, Entries, Located
  <2> DEFINE ab == a \o b
             abr == ab \o r
             abrw == abr \o Write(LedgerCandidate)
  <2>4. Merge = abrw \o d
        BY DEF Merge
  <2> HIDE DEF a, w, r, d
  <2>5. w \o Write(Runs) \in Seq(Ops) /\ Len(w \o Write(Runs)) = Len(w) + Len(Write(Runs))
        BY <2>2, <2>3, Joined, Zenon
  <2>6. b \in Seq(Ops) /\ Len(b) = IF upto > Cut(from) THEN 3 ELSE 0
        BY <2>2, <2>3, <2>5, Listed
  <2> HIDE DEF b
  <2>7. ab \in Seq(Ops) /\ Len(ab) = Len(a) + Len(b)
        BY <2>1, <2>6, Joined, Zenon
  <2> HIDE DEF ab
  <2>8. abr \in Seq(Ops) /\ Len(abr) = Len(ab) + Len(r)
        BY <2>2, <2>7, Joined, Zenon
  <2> HIDE DEF abr
  <2>9. abrw \in Seq(Ops) /\ Len(abrw) = Len(abr) + Len(Write(LedgerCandidate))
        BY <2>3, <2>8, Joined, Zenon
  <2> HIDE DEF abrw
  <2>10. Merge \in Seq(Ops) /\ Len(Merge) = Len(abrw) + Len(d)
        BY <2>2, <2>4, <2>9, Joined, Zenon
  <2> QED BY <2>1, <2>2, <2>3, <2>6, <2>7, <2>8, <2>9, <2>10
<1>5. Activate \in Seq(Ops) /\ Len(Activate) = 9
  <2> DEFINE a == << Move(LedgerCandidate, Ledger(Target)), Do("verify", Ledger(Target)), Sync("receipts") >>
             c == << Sync(".private"), Move(CheckpointCandidate, Checkpoint(Target)),
                     Do("verify", Checkpoint(Target)), Sync("checkpoints") >>
  <2>1. a \in Seq(Ops) /\ Len(a) = 3
        BY <1>0, Listed, Operations, Entries, Located
  <2>2. c \in Seq(Ops) /\ Len(c) = 4
        BY <1>0, Listed, Operations, Entries, Located
  <2>3. Write(CheckpointCandidate) \in Seq(Ops) /\ Len(Write(CheckpointCandidate)) = 2
        BY <1>2, Entries, Located
  <2> DEFINE aw == a \o Write(CheckpointCandidate)
  <2>4. Activate = aw \o c
        BY DEF Activate
  <2> HIDE DEF a, c
  <2>5. aw \in Seq(Ops) /\ Len(aw) = Len(a) + Len(Write(CheckpointCandidate))
        BY <2>1, <2>3, Joined, Zenon
  <2> HIDE DEF aw
  <2>6. Activate \in Seq(Ops) /\ Len(Activate) = Len(aw) + Len(c)
        BY <2>2, <2>4, <2>5, Joined, Zenon
  <2> QED BY <2>1, <2>2, <2>3, <2>5, <2>6
<1>6. Switch \in Seq(Ops) /\ Len(Switch) = 5
  <2> DEFINE c == << Sync(".private"), Do("verify", HeadCandidate), Move(HeadCandidate, HEAD) >>
  <2>1. c \in Seq(Ops) /\ Len(c) = 3
        BY Listed, Operations, Entries, Located
  <2>2. Write(HeadCandidate) \in Seq(Ops) /\ Len(Write(HeadCandidate)) = 2
        BY <1>2, Entries, Located
  <2>3. Switch = Write(HeadCandidate) \o c
        BY DEF Switch
  <2> HIDE DEF c
  <2>4. Switch \in Seq(Ops) /\ Len(Switch) = Len(Write(HeadCandidate)) + Len(c)
        BY <2>1, <2>2, <2>3, Joined, Zenon
  <2> QED BY <2>1, <2>2, <2>4
<1>7. Confirm \in Seq(Ops) /\ Len(Confirm) = 2
      BY Listed, Operations DEF Confirm
<1>8. Retire \in Seq(Ops) /\ Len(Retire) = 2 + (IF from = Initial THEN 0 ELSE 1)
  <2> DEFINE a == << Do("discard", Wal(from)), Do("remove", Checkpoint(from)) >>
             b == IF from = Initial THEN << >> ELSE <<Do("remove", Ledger(from))>>
  <2>1. a \in Seq(Ops) /\ Len(a) = 2
        BY Listed, Operations, Entries, Located
  <2>2. b \in Seq(Ops) /\ Len(b) = IF from = Initial THEN 0 ELSE 1
        BY Listed, Operations, Entries, Located
  <2>3. Retire = a \o b
        BY DEF Retire
  <2> HIDE DEF a, b
  <2> QED BY <2>1, <2>2, <2>3, Joined
<1>9. Reclaim \in Seq(Ops) /\ Len(Reclaim) = Len(Retire) + 9
  <2> DEFINE c == << Sync("wal"), Sync("checkpoints"), Sync("receipts"), Sync("store") >>
             rs == Retire \o SweepScratch
  <2>1. c \in Seq(Ops) /\ Len(c) = 4
        BY Listed, Operations
  <2>2. Reclaim = rs \o c
        BY DEF Reclaim
  <2> HIDE DEF c
  <2>3. rs \in Seq(Ops) /\ Len(rs) = Len(Retire) + Len(SweepScratch)
        BY <1>3, <1>8, Joined, Zenon
  <2> HIDE DEF rs
  <2>4. Reclaim \in Seq(Ops) /\ Len(Reclaim) = Len(rs) + Len(c)
        BY <2>1, <2>2, <2>3, Joined, Zenon
  <2>5. Len(Retire) \in Nat
        BY <1>8
  <2> QED BY <1>3, <2>1, <2>3, <2>4, <2>5
<1> QED BY <1>3, <1>4, <1>5, <1>6, <1>7, <1>8, <1>9

\* Where each part of a rotation begins.
LEMMA Lengths ==
    from \in Seq(Nat) /\ upto \in Nat =>
        /\ Prepared \in Nat /\ Prepared >= 9
        /\ Prepared = 9 + (IF from = Initial THEN 0 ELSE 1) + (IF upto > Cut(from) THEN 3 ELSE 0)
        /\ Switched = Prepared + 14 /\ Confirmed = Prepared + 16
        /\ Retired = Prepared + 18 + (IF from = Initial THEN 0 ELSE 1)
        /\ Len(Rotation) = Retired + 9
        /\ \A k \in 1..5 : Rotation[k] = SweepScratch[k]
        /\ \A k \in 1..Len(Merge) : Rotation[5 + k] = Merge[k]
        /\ \A k \in 1..9 : Rotation[Prepared + k] = Activate[k]
        /\ \A k \in 1..5 : Rotation[Prepared + 9 + k] = Switch[k]
        /\ \A k \in 1..2 : Rotation[Switched + k] = Confirm[k]
        /\ \A k \in 1..Len(Reclaim) : Rotation[Confirmed + k] = Reclaim[k]
<1> SUFFICES ASSUME from \in Seq(Nat), upto \in Nat
    PROVE
        /\ Prepared \in Nat /\ Prepared >= 9
        /\ Prepared = 9 + (IF from = Initial THEN 0 ELSE 1) + (IF upto > Cut(from) THEN 3 ELSE 0)
        /\ Switched = Prepared + 14 /\ Confirmed = Prepared + 16
        /\ Retired = Prepared + 18 + (IF from = Initial THEN 0 ELSE 1)
        /\ Len(Rotation) = Retired + 9
        /\ \A k \in 1..5 : Rotation[k] = SweepScratch[k]
        /\ \A k \in 1..Len(Merge) : Rotation[5 + k] = Merge[k]
        /\ \A k \in 1..9 : Rotation[Prepared + k] = Activate[k]
        /\ \A k \in 1..5 : Rotation[Prepared + 9 + k] = Switch[k]
        /\ \A k \in 1..2 : Rotation[Switched + k] = Confirm[k]
        /\ \A k \in 1..Len(Reclaim) : Rotation[Confirmed + k] = Reclaim[k]
    OBVIOUS
<1> DEFINE p1 == SweepScratch \o Merge
           p2 == p1 \o Activate
           p3 == p2 \o Switch
           p4 == p3 \o Confirm
<1>0. /\ SweepScratch \in Seq(Ops) /\ Merge \in Seq(Ops) /\ Activate \in Seq(Ops) /\ Switch \in Seq(Ops)
      /\ Confirm \in Seq(Ops) /\ Reclaim \in Seq(Ops)
      BY Sections
<1>1. /\ Rotation = p4 \o Reclaim /\ Switched = Len(p3)
      /\ Confirmed = Switched + Len(Confirm) /\ Retired = Confirmed + Len(Retire)
      /\ Prepared = Len(SweepScratch) + Len(Merge)
      BY DEF Rotation, Switched, Confirmed, Retired, Prepared
<1>2. /\ p1 \in Seq(Ops) /\ Len(p1) = Len(SweepScratch) + Len(Merge)
      /\ \A k \in 1..Len(SweepScratch) : p1[k] = SweepScratch[k]
      /\ \A k \in 1..Len(Merge) : p1[Len(SweepScratch) + k] = Merge[k]
      BY <1>0, Joined, JoinedAt, Zenon
<1> HIDE DEF p1
<1>3. /\ p2 \in Seq(Ops) /\ Len(p2) = Len(p1) + Len(Activate)
      /\ \A k \in 1..Len(p1) : p2[k] = p1[k]
      /\ \A k \in 1..Len(Activate) : p2[Len(p1) + k] = Activate[k]
      BY <1>2, <1>0, Joined, JoinedAt, Zenon
<1> HIDE DEF p2
<1>4. /\ p3 \in Seq(Ops) /\ Len(p3) = Len(p2) + Len(Switch)
      /\ \A k \in 1..Len(p2) : p3[k] = p2[k]
      /\ \A k \in 1..Len(Switch) : p3[Len(p2) + k] = Switch[k]
      BY <1>3, <1>0, Joined, JoinedAt, Zenon
<1> HIDE DEF p3
<1>5. /\ p4 \in Seq(Ops) /\ Len(p4) = Len(p3) + Len(Confirm)
      /\ \A k \in 1..Len(p3) : p4[k] = p3[k]
      /\ \A k \in 1..Len(Confirm) : p4[Len(p3) + k] = Confirm[k]
      BY <1>4, <1>0, Joined, JoinedAt, Zenon
<1> HIDE DEF p4
<1>6. /\ Len(Rotation) = Len(p4) + Len(Reclaim)
      /\ \A k \in 1..Len(p4) : Rotation[k] = p4[k]
      /\ \A k \in 1..Len(Reclaim) : Rotation[Len(p4) + k] = Reclaim[k]
      BY <1>1, <1>5, <1>0, Joined, JoinedAt, Zenon
<1> DEFINE v == IF from = Initial THEN 0 ELSE 1
           r == IF upto > Cut(from) THEN 3 ELSE 0
<1>7. v \in {0, 1} /\ r \in {0, 3}
      OBVIOUS
<1>8. /\ Len(SweepScratch) = 5 /\ Len(Merge) = v + r + 4 /\ Len(Activate) = 9 /\ Len(Switch) = 5
      /\ Len(Confirm) = 2 /\ Len(Retire) = 2 + v /\ Len(Reclaim) = Len(Retire) + 9
      BY Sections
<1> HIDE DEF v, r
<1> DEFINE N == Len(p1)
<1>16. Len(p1) = N /\ N = 9 + v + r /\ N \in Nat /\ N >= 9
      BY <1>2, <1>7, <1>8
<1> HIDE DEF N
<1>17. Len(p2) = N + 9 /\ Len(p3) = N + 14 /\ Len(p4) = N + 16
  <2>1. Len(p2) = N + 9
        BY <1>3, <1>8, <1>16
  <2>2. Len(p3) = N + 14
        BY <1>4, <1>8, <1>16, <2>1
  <2> QED BY <1>5, <1>8, <1>16, <2>1, <2>2
<1>18. Len(Reclaim) = 11 + v /\ Len(Reclaim) \in Nat /\ Len(Merge) \in Nat
      BY <1>7, <1>8
<1>19. Len(Rotation) = Len(p4) + Len(Reclaim)
      BY <1>6
<1>9. /\ Prepared = N /\ Switched = N + 14 /\ Confirmed = N + 16 /\ Retired = N + 18 + v
      /\ Len(Rotation) = N + 27 + v
  <2>1. Prepared = N
        BY <1>1, <1>2, <1>16
  <2>2. Switched = N + 14 /\ Confirmed = N + 16
        BY <1>1, <1>8, <1>16, <1>17
  <2>3. Retired = N + 18 + v
        BY <1>1, <1>7, <1>8, <1>16, <2>2
  <2>4. Len(Rotation) = N + 27 + v
        BY <1>7, <1>16, <1>17, <1>18, <1>19
  <2> QED BY <2>1, <2>2, <2>3, <2>4
<1>21. \A k \in 1..Len(p1) : Rotation[k] = p1[k]
  <2> SUFFICES ASSUME NEW k \in 1..Len(p1) PROVE Rotation[k] = p1[k]
      OBVIOUS
  <2>1. k \in 1..Len(p2) /\ k \in 1..Len(p3) /\ k \in 1..Len(p4)
        BY <1>16, <1>17
  <2>2. p2[k] = p1[k] /\ p3[k] = p2[k] /\ p4[k] = p3[k]
        BY <1>3, <1>4, <1>5, <2>1, Zenon
  <2> QED BY <1>6, <2>1, <2>2, Zenon
<1>10. ASSUME NEW k \in 1..5 PROVE Rotation[k] = SweepScratch[k]
  <2>1. k \in 1..Len(SweepScratch) /\ k \in 1..Len(p1)
        BY <1>8, <1>16
  <2> QED BY <1>2, <1>21, <2>1, Zenon
<1>11. ASSUME NEW k \in 1..Len(Merge) PROVE Rotation[5 + k] = Merge[k]
  <2>1. Len(p1) = 5 + Len(Merge)
        BY <1>2, <1>8
  <2> DEFINE m == Len(Merge)
  <2>2. m \in Nat /\ k \in 1..m /\ Len(p1) = 5 + m
        BY <2>1, <1>18
  <2> HIDE DEF m
  <2>3. 5 + k \in 1..Len(p1)
        BY <2>2
  <2>4. p1[5 + k] = Merge[k]
        BY <1>2, <1>8, Zenon
  <2> QED BY <1>21, <2>3, <2>4, Zenon
<1>12. ASSUME NEW k \in 1..9 PROVE Rotation[Prepared + k] = Activate[k]
  <2>1. N + k \in 1..Len(p2) /\ N + k \in 1..Len(p3) /\ N + k \in 1..Len(p4)
        BY <1>16, <1>17
  <2>2. p2[N + k] = Activate[k]
        BY <1>3, <1>8, <1>16, Zenon
  <2> QED BY <1>4, <1>5, <1>6, <1>9, <2>1, <2>2, Zenon
<1>13. ASSUME NEW k \in 1..5 PROVE Rotation[Prepared + 9 + k] = Switch[k]
  <2>1. (N + 9) + k \in 1..Len(p3) /\ (N + 9) + k \in 1..Len(p4)
        BY <1>16, <1>17
  <2>2. p3[(N + 9) + k] = Switch[k]
        BY <1>4, <1>8, <1>17, Zenon
  <2> QED BY <1>5, <1>6, <1>9, <2>1, <2>2, Zenon
<1>14. ASSUME NEW k \in 1..2 PROVE Rotation[Switched + k] = Confirm[k]
  <2>1. (N + 14) + k \in 1..Len(p4)
        BY <1>16, <1>17
  <2>2. p4[(N + 14) + k] = Confirm[k]
        BY <1>5, <1>8, <1>17, Zenon
  <2> QED BY <1>6, <1>9, <2>1, <2>2, Zenon
<1>15. ASSUME NEW k \in 1..Len(Reclaim) PROVE Rotation[Confirmed + k] = Reclaim[k]
      BY <1>6, <1>9, <1>17, Zenon
<1>20. /\ Prepared \in Nat /\ Prepared >= 9 /\ Prepared = 9 + v + r
       /\ Switched = Prepared + 14 /\ Confirmed = Prepared + 16 /\ Retired = Prepared + 18 + v
       /\ Len(Rotation) = Retired + 9
      BY <1>7, <1>9, <1>16
<1> QED BY <1>10, <1>11, <1>12, <1>13, <1>14, <1>15, <1>20, Zenon DEF v, r

\* The same before and after a step.
LEMMA Placed ==
    from \in Seq(Nat) /\ upto \in Nat =>
        /\ Prepared = 9 + (IF from = Initial THEN 0 ELSE 1) + (IF upto > Cut(from) THEN 3 ELSE 0)
        /\ Switched = Prepared + 14 /\ Confirmed = Prepared + 16
        /\ Retired = Prepared + 18 + (IF from = Initial THEN 0 ELSE 1)
        /\ Len(Rotation) = Retired + 9
  BY Lengths

LEMMA PlacedNext ==
    (from \in Seq(Nat) /\ upto \in Nat =>
        /\ Prepared = 9 + (IF from = Initial THEN 0 ELSE 1) + (IF upto > Cut(from) THEN 3 ELSE 0)
        /\ Switched = Prepared + 14 /\ Confirmed = Prepared + 16
        /\ Retired = Prepared + 18 + (IF from = Initial THEN 0 ELSE 1)
        /\ Len(Rotation) = Retired + 9)'
  BY Placed, PTL

-------------------------------------------------------------------------------
(* Names, folders and contents *)

LEMMA Tags ==
    /\ HEAD[1] = "HEAD" /\ Receipts[1] = "receipts" /\ Runs[1] = "rotation-sort"
    /\ LedgerCandidate[1] = "rotation-candidate" /\ CheckpointCandidate[1] = "rotation-checkpoint"
    /\ HeadCandidate[1] = "rotation-head"
    /\ \A l : Ledger(l)[1] = "ledger" /\ Checkpoint(l)[1] = "checkpoint" /\ Wal(l)[1] = "wal"
    /\ \A l : Ledger(l)[2] = l /\ Checkpoint(l)[2] = l /\ Wal(l)[2] = l
    /\ \A name : Fixed(name)[1] = name
  BY DEF HEAD, Receipts, Runs, LedgerCandidate, CheckpointCandidate, HeadCandidate, Fixed,
         Ledger, Checkpoint, Wal

LEMMA FoldersOf ==
    /\ Folder(HEAD) = "store" /\ Folder(Receipts) = "store" /\ Folder(Runs) = ".private"
    /\ Folder(LedgerCandidate) = ".private" /\ Folder(CheckpointCandidate) = ".private"
    /\ Folder(HeadCandidate) = ".private"
    /\ \A l : Folder(Ledger(l)) = "receipts" /\ Folder(Checkpoint(l)) = "checkpoints" /\ Folder(Wal(l)) = "wal"
  BY Tags DEF Folder

LEMMA FolderTyped == \A e \in Names : Folder(e) \in Folders
  BY DEF Folder, Folders

\* The typing of what is stored.
Stored ==
    /\ DOMAIN disk \subseteq Names /\ \A e \in DOMAIN disk : disk[e] \in Contents
    /\ unsynced \in Seq(Changes)
    /\ \A i \in DOMAIN unsynced : unsynced[i].folder = Folder(unsynced[i].entry)

LEMMA Held ==
    Stored => \A e : /\ Content(e) \in Contents \cup {None}
                     /\ Has(e) <=> Content(e) # None
                     /\ Has(e) => e \in Names /\ Content(e) = disk[e]
  BY RotationConstantsOK DEF Stored, Content, Has, Contents, RotationConstantsOK

LEMMA Kinds ==
    ASSUME NEW l \in Seq(Nat)
    PROVE  /\ Whole(l) \in Contents /\ Partial(l) \in Contents
           /\ Whole(l).of = l /\ Whole(l).whole /\ ~Partial(l).whole
  BY DEF Whole, Partial, Contents

-------------------------------------------------------------------------------
(* What a step does *)

\* Only these names are touched; the changes to them come last.
Touches(names) ==
    /\ \A e : e \notin names => Content(e)' = Content(e)
    /\ Len(unsynced') >= Len(unsynced)
    /\ \A i \in 1..Len(unsynced) : unsynced'[i] = unsynced[i]
    /\ \A i \in 1..Len(unsynced') : i > Len(unsynced) =>
        unsynced'[i].entry \in names /\ unsynced'[i].was = Content(unsynced'[i].entry)

\* Some folders are synced.
Syncs(folders) == disk' = disk /\ Filtered(unsynced', Len(unsynced), folders)

LEMMA ChangedAt ==
    ASSUME Stored, NEW e \in Names, NEW c \in Contents \cup {None}
    PROVE  /\ Changed(e, c) \in Seq(Changes)
           /\ \A i \in 1..Len(Changed(e, c)) :
                /\ Changed(e, c)[i].entry = e /\ Changed(e, c)[i].was = Content(e)
                /\ Changed(e, c)[i].folder = Folder(e)
<1> DEFINE x == [folder |-> Folder(e), entry |-> e, was |-> Content(e)]
<1>1. x \in Changes
      BY Held, FolderTyped DEF Changes
<1>2. x.entry = e /\ x.was = Content(e) /\ x.folder = Folder(e)
      OBVIOUS
<1>3. Changed(e, c) = IF Content(e) = c THEN << >> ELSE <<x>>
      BY DEF Changed
<1> HIDE DEF x
<1> QED BY <1>1, <1>2, <1>3

LEMMA Appended ==
    ASSUME Stored, NEW names, NEW more \in Seq(Changes), unsynced' = unsynced \o more,
           \A i \in 1..Len(more) :
             /\ more[i].entry \in names /\ more[i].was = Content(more[i].entry)
             /\ more[i].folder = Folder(more[i].entry),
           \A e : e \notin names => Content(e)' = Content(e)
    PROVE  /\ Touches(names)
           /\ unsynced' \in Seq(Changes)
           /\ \A i \in DOMAIN unsynced' : unsynced'[i].folder = Folder(unsynced'[i].entry)
<1>1. unsynced \in Seq(Changes)
      BY DEF Stored
<1>2. /\ unsynced' \in Seq(Changes)
      /\ Len(unsynced') = Len(unsynced) + Len(more)
      /\ \A i \in 1..Len(unsynced) : unsynced'[i] = unsynced[i]
      /\ \A i \in 1..Len(more) : unsynced'[Len(unsynced) + i] = more[i]
      BY <1>1, ConcatAt
<1>3. Len(unsynced) \in Nat /\ Len(more) \in Nat /\ DOMAIN unsynced' = 1..Len(unsynced')
      /\ DOMAIN unsynced = 1..Len(unsynced)
      BY <1>1, <1>2
<1>4. ASSUME NEW i \in 1..Len(unsynced'), i > Len(unsynced)
      PROVE  unsynced'[i] = more[i - Len(unsynced)] /\ i - Len(unsynced) \in 1..Len(more)
  <2>1. i - Len(unsynced) \in 1..Len(more) /\ Len(unsynced) + (i - Len(unsynced)) = i
        BY <1>2, <1>3, <1>4
  <2> QED BY <1>2, <2>1
<1>5. \A i \in 1..Len(unsynced') : i > Len(unsynced) =>
        unsynced'[i].entry \in names /\ unsynced'[i].was = Content(unsynced'[i].entry)
        /\ unsynced'[i].folder = Folder(unsynced'[i].entry)
      BY <1>4
<1>6. Touches(names)
      BY <1>2, <1>3, <1>5 DEF Touches
<1>7. ASSUME NEW i \in DOMAIN unsynced' PROVE unsynced'[i].folder = Folder(unsynced'[i].entry)
  <2>1. CASE i > Len(unsynced)
        BY <1>3, <1>5, <2>1
  <2>2. CASE ~(i > Len(unsynced))
    <3>1. i \in 1..Len(unsynced)
          BY <1>3, <2>2
    <3> QED BY <1>2, <1>3, <3>1 DEF Stored
  <2> QED BY <2>1, <2>2
<1> QED BY <1>2, <1>6, <1>7

\* The entries after one is written, removed or moved.
LEMMA Written ==
    ASSUME Stored, NEW e \in Names, NEW c \in Contents, disk' = With(disk, e, c)
    PROVE  /\ Content(e)' = c /\ \A x : x # e => Content(x)' = Content(x)
           /\ DOMAIN disk' \subseteq Names /\ \A x \in DOMAIN disk' : disk'[x] \in Contents
  BY DEF Stored, With, Content, Has

LEMMA Removed ==
    ASSUME Stored, NEW e, disk' = Without({e})
    PROVE  /\ Content(e)' = None /\ \A x : x # e => Content(x)' = Content(x)
           /\ DOMAIN disk' \subseteq Names /\ \A x \in DOMAIN disk' : disk'[x] \in Contents
  BY DEF Stored, Without, Content, Has

LEMMA Moved ==
    ASSUME Stored, NEW e \in Names, NEW src, src # e, Has(src), disk' = With(Without({src}), e, disk[src])
    PROVE  /\ Content(e)' = Content(src) /\ Content(src)' = None
           /\ \A x : x \notin {e, src} => Content(x)' = Content(x)
           /\ DOMAIN disk' \subseteq Names /\ \A x \in DOMAIN disk' : disk'[x] \in Contents
<1>1. disk[src] \in Contents
      BY DEF Has, Stored
<1>2. DOMAIN disk' = (DOMAIN disk \ {src}) \cup {e}
      /\ \A x \in DOMAIN disk' : disk'[x] = IF x = e THEN disk[src] ELSE disk[x]
      BY DEF With, Without
<1> QED BY <1>1, <1>2 DEF Stored, Content, Has

LEMMA Kept ==
    ASSUME Stored, disk' = disk, unsynced' = unsynced
    PROVE  Touches({}) /\ Stored'
<1>1. \A e : Content(e)' = Content(e)
      BY DEF Content, Has
<1>2. Len(unsynced) \in Nat
      BY DEF Stored
<1> QED BY <1>1, <1>2 DEF Touches, Stored

LEMMA Makes ==
    ASSUME Stored, Target \in Seq(Nat), NEW e \in Names, ~Has(e),
           Effect(Do("make", e)) \/ Effect(Do("ensure", e))
    PROVE  Touches({e}) /\ Stored' /\ Content(e)' = Partial(Target)
<1>1. disk' = With(disk, e, Partial(Target)) /\ unsynced' = unsynced \o Changed(e, Partial(Target))
      BY DEF Effect, Do
<1>2. Partial(Target) \in Contents
      BY Kinds
<1>3. /\ Content(e)' = Partial(Target) /\ \A x : x # e => Content(x)' = Content(x)
      /\ DOMAIN disk' \subseteq Names /\ \A x \in DOMAIN disk' : disk'[x] \in Contents
      BY <1>1, <1>2, Written
<1> DEFINE a == Changed(e, Partial(Target))
<1>4. /\ a \in Seq(Changes)
      /\ \A i \in 1..Len(a) : a[i].entry = e /\ a[i].was = Content(e) /\ a[i].folder = Folder(e)
      BY <1>2, ChangedAt
<1> HIDE DEF a
<1>6. \A i \in 1..Len(a) :
        /\ a[i].entry \in {e} /\ a[i].was = Content(a[i].entry)
        /\ a[i].folder = Folder(a[i].entry)
      BY <1>4
<1>7. unsynced' = unsynced \o a /\ \A x : x \notin {e} => Content(x)' = Content(x)
      BY <1>1, <1>3 DEF a
<1>5. /\ Touches({e}) /\ unsynced' \in Seq(Changes)
      /\ \A i \in DOMAIN unsynced' : unsynced'[i].folder = Folder(unsynced'[i].entry)
      BY <1>4, <1>6, <1>7, Appended
<1> QED BY <1>3, <1>5 DEF Stored

LEMMA Fills ==
    ASSUME Stored, Target \in Seq(Nat), NEW e \in Names, Effect(Do("fill", e))
    PROVE  Touches({e}) /\ Stored' /\ unsynced' = unsynced /\ Content(e)' = Whole(Target)
<1>1. disk' = With(disk, e, Whole(Target)) /\ unsynced' = unsynced
      BY DEF Effect, Do
<1>2. Whole(Target) \in Contents
      BY Kinds
<1>3. /\ Content(e)' = Whole(Target) /\ \A x : x # e => Content(x)' = Content(x)
      /\ DOMAIN disk' \subseteq Names /\ \A x \in DOMAIN disk' : disk'[x] \in Contents
      BY <1>1, <1>2, Written
<1>4. Len(unsynced) \in Nat
      BY DEF Stored
<1> QED BY <1>1, <1>3, <1>4 DEF Stored, Touches

LEMMA Removes ==
    ASSUME Stored, NEW e \in Names, Effect(Do("discard", e)) \/ Effect(Do("remove", e))
    PROVE  Touches({e}) /\ Stored' /\ Content(e)' = None
<1>1. CASE ~Has(e)
  <2>1. disk' = disk /\ unsynced' = unsynced
        BY <1>1 DEF Effect, Do
  <2>2. Content(e)' = None
        BY <1>1, <2>1 DEF Content, Has
  <2> QED BY <2>1, <2>2, Kept DEF Touches
<1>2. CASE Has(e)
  <2>1. disk' = Without({e}) /\ unsynced' = unsynced \o Changed(e, None)
        BY <1>2 DEF Effect, Do
  <2>2. /\ Content(e)' = None /\ \A x : x # e => Content(x)' = Content(x)
        /\ DOMAIN disk' \subseteq Names /\ \A x \in DOMAIN disk' : disk'[x] \in Contents
        BY <2>1, Removed
  <2> DEFINE a == Changed(e, None)
  <2>3. /\ a \in Seq(Changes)
        /\ \A i \in 1..Len(a) : a[i].entry = e /\ a[i].was = Content(e) /\ a[i].folder = Folder(e)
        BY ChangedAt
  <2> HIDE DEF a
  <2>5. \A i \in 1..Len(a) :
          /\ a[i].entry \in {e} /\ a[i].was = Content(a[i].entry)
          /\ a[i].folder = Folder(a[i].entry)
        BY <2>3
  <2>6. unsynced' = unsynced \o a /\ \A x : x \notin {e} => Content(x)' = Content(x)
        BY <2>1, <2>2 DEF a
  <2>4. /\ Touches({e}) /\ unsynced' \in Seq(Changes)
        /\ \A i \in DOMAIN unsynced' : unsynced'[i].folder = Folder(unsynced'[i].entry)
        BY <2>3, <2>5, <2>6, Appended
  <2> QED BY <2>2, <2>4 DEF Stored
<1> QED BY <1>1, <1>2

LEMMA MovesTo ==
    ASSUME Stored, NEW e \in Names, NEW src \in Names, src # e, Has(src), Effect(Move(src, e))
    PROVE  Touches({e, src}) /\ Stored' /\ Content(e)' = Content(src) /\ Content(src)' = None
<1>1. /\ disk' = With(Without({src}), e, disk[src])
      /\ unsynced' = unsynced \o Changed(src, None) \o Changed(e, disk[src])
      BY DEF Effect, Move
<1>2. disk[src] \in Contents /\ disk[src] = Content(src)
      BY DEF Has, Stored, Content
<1>3. /\ Content(e)' = Content(src) /\ Content(src)' = None
      /\ \A x : x \notin {e, src} => Content(x)' = Content(x)
      /\ DOMAIN disk' \subseteq Names /\ \A x \in DOMAIN disk' : disk'[x] \in Contents
      BY <1>1, Moved
<1> DEFINE a == Changed(src, None)
           b == Changed(e, disk[src])
<1>4. /\ a \in Seq(Changes)
      /\ \A i \in 1..Len(a) : a[i].entry = src /\ a[i].was = Content(src) /\ a[i].folder = Folder(src)
      BY ChangedAt
<1>5. /\ b \in Seq(Changes)
      /\ \A i \in 1..Len(b) : b[i].entry = e /\ b[i].was = Content(e) /\ b[i].folder = Folder(e)
      BY <1>2, ChangedAt
<1>6. unsynced' = (unsynced \o a) \o b
      BY <1>1
<1> HIDE DEF a, b
<1>7. unsynced \in Seq(Changes)
      BY DEF Stored
<1>8. /\ a \o b \in Seq(Changes) /\ Len(a \o b) = Len(a) + Len(b)
      /\ \A i \in 1..Len(a) : (a \o b)[i] = a[i]
      /\ \A i \in 1..Len(b) : (a \o b)[Len(a) + i] = b[i]
      BY <1>4, <1>5, ConcatAt
<1>13. \A s, t, u \in Seq(Changes) : (s \o t) \o u = s \o (t \o u)
      BY Associates
<1>9. unsynced' = unsynced \o (a \o b)
      BY <1>4, <1>5, <1>6, <1>7, <1>13, Zenon
<1> DEFINE more == a \o b
<1>10. ASSUME NEW i \in 1..Len(more)
       PROVE  /\ more[i].entry \in {e, src} /\ more[i].was = Content(more[i].entry)
              /\ more[i].folder = Folder(more[i].entry)
  <2>1. Len(a) \in Nat /\ Len(b) \in Nat
        BY <1>4, <1>5
  <2>2. CASE i \in 1..Len(a)
        BY <1>4, <1>8, <2>2
  <2>3. CASE ~(i \in 1..Len(a))
    <3>1. i - Len(a) \in 1..Len(b) /\ Len(a) + (i - Len(a)) = i
          BY <1>8, <2>1, <2>3
    <3>2. more[i] = b[i - Len(a)]
          BY <1>8, <3>1
    <3> QED BY <1>5, <3>1, <3>2
  <2> QED BY <2>2, <2>3
<1>11. more \in Seq(Changes) /\ unsynced' = unsynced \o more
      BY <1>8, <1>9
<1> HIDE DEF more
<1>12. /\ Touches({e, src}) /\ unsynced' \in Seq(Changes)
       /\ \A i \in DOMAIN unsynced' : unsynced'[i].folder = Folder(unsynced'[i].entry)
      BY <1>3, <1>10, <1>11, Appended
<1> QED BY <1>3, <1>12 DEF Stored

LEMMA Verifies ==
    ASSUME Stored, NEW e, Effect(Do("verify", e))
    PROVE  disk' = disk /\ unsynced' = unsynced
  BY DEF Effect, Do

\* What a sync of folders keeps.
LEMMA SyncKeeps ==
    ASSUME Stored, NEW folders, disk' = disk, unsynced' = StillUnsynced(folders)
    PROVE  Syncs(folders) /\ Stored'
<1>1. unsynced \in Seq(Changes)
      BY DEF Stored
<1>2. Filtered(StillUnsynced(folders), Len(unsynced), folders)
      BY <1>1, StillFacts
<1>3. Filtered(unsynced', Len(unsynced), folders)
      BY <1>2
<1>4. unsynced' \in Seq(Changes)
      /\ \A i \in 1..Len(unsynced') : \E k \in 1..Len(unsynced) : unsynced'[i] = unsynced[k]
      BY <1>3 DEF Filtered
<1> QED BY <1>1, <1>3, <1>4 DEF Stored, Syncs

LEMMA SyncsOne ==
    ASSUME Stored, NEW folder, Effect(Sync(folder))
    PROVE  Syncs({folder}) /\ Stored'
<1>1. disk' = disk /\ unsynced' = StillUnsynced({folder})
      BY DEF Effect, Sync, Fixed
<1> QED BY <1>1, SyncKeeps

-------------------------------------------------------------------------------
(* What a step leaves alone *)

LEMMA HeldNext ==
    Stored' => \A e : /\ Content(e)' \in Contents \cup {None}
                      /\ Has(e)' <=> Content(e)' # None
                      /\ Has(e)' => e \in Names /\ Content(e)' = disk'[e]
<1>1. (Stored => \A e : /\ Content(e) \in Contents \cup {None}
                        /\ Has(e) <=> Content(e) # None
                        /\ Has(e) => e \in Names /\ Content(e) = disk[e])'
      BY Held, PTL
<1> QED BY <1>1

LEMMA Changing == Stored => DOMAIN unsynced = 1..Len(unsynced) /\ Len(unsynced) \in Nat
  BY DEF Stored

LEMMA ChangingNext == Stored' => DOMAIN unsynced' = 1..Len(unsynced') /\ Len(unsynced') \in Nat
  BY DEF Stored

LEMMA SettledTouched ==
    ASSUME Stored, Stored', NEW names, Touches(names), NEW e, e \notin names
    PROVE  Settled(e)' <=> Settled(e)
  BY Changing, ChangingNext DEF Touches, Settled

LEMMA HeadTouched ==
    ASSUME Stored, Stored', NEW names, Touches(names), HEAD \notin names
    PROVE  HeadChanges' = HeadChanges /\ \A i \in HeadChanges : unsynced'[i] = unsynced[i]
  BY Changing, ChangingNext DEF Touches, HeadChanges

LEMMA SyncedTouched ==
    ASSUME Stored, Stored', NEW names, Touches(names), NEW folder, Synced(folder),
           \A e \in names : Folder(e) # folder
    PROVE  Synced(folder)'
<1> SUFFICES ASSUME NEW i \in DOMAIN unsynced' PROVE unsynced'[i].folder # folder
    BY DEF Synced
<1>1. DOMAIN unsynced' = 1..Len(unsynced') /\ DOMAIN unsynced = 1..Len(unsynced) /\ Len(unsynced) \in Nat
      BY Changing, ChangingNext
<1>2. CASE i \in 1..Len(unsynced)
      BY <1>1, <1>2 DEF Touches, Synced
<1>3. CASE ~(i \in 1..Len(unsynced))
  <2>1. unsynced'[i].entry \in names
        BY <1>1, <1>3 DEF Touches
  <2>2. unsynced'[i].folder = Folder(unsynced'[i].entry)
        BY DEF Stored
  <2> QED BY <2>1, <2>2
<1> QED BY <1>2, <1>3

LEMMA SafeTouched ==
    ASSUME Stored, Stored', NEW names, Touches(names), committed' = committed,
           NEW l, Safe(l), Checkpoint(l) \notin names, Ledger(l) \notin names, Wal(l) \notin names,
           Has(Receipts) => Has(Receipts)'
    PROVE  Safe(l)'
<1>1. Settled(Checkpoint(l))' /\ Settled(Ledger(l))' /\ Settled(Wal(l))'
      BY SettledTouched DEF Safe
<1>2. Content(Checkpoint(l))' = Content(Checkpoint(l)) /\ Content(Ledger(l))' = Content(Ledger(l))
      /\ Content(Wal(l))' = Content(Wal(l))
      BY DEF Touches
<1> QED BY <1>1, <1>2 DEF Safe

\* Names HEAD depends on.
Selectable == {disk[HEAD].of} \cup {unsynced[i].was.of : i \in HeadChanges}
Core == Selected /\ LedgersFollow /\ NoInitialLedger

LEMMA CoreTouched ==
    ASSUME Stored, Stored', Core, committed' = committed, NEW names, Touches(names),
           HEAD \notin names, Receipts \notin names, Ledger(Initial) \notin names,
           \A l \in Selectable : Checkpoint(l) \notin names /\ Ledger(l) \notin names /\ Wal(l) \notin names
    PROVE  Core' /\ disk'[HEAD] = disk[HEAD] /\ HeadChanges' = HeadChanges
<1>1. HeadChanges' = HeadChanges /\ \A i \in HeadChanges : unsynced'[i] = unsynced[i]
      BY HeadTouched
<1>2. Has(HEAD)' /\ disk'[HEAD] = disk[HEAD] /\ (Has(Receipts) => Has(Receipts)')
      BY Held, HeldNext DEF Touches, Core, Selected
<1>3. ASSUME NEW l \in Selectable, Safe(l) PROVE Safe(l)'
      BY <1>2, <1>3, SafeTouched
<1>4. Selected'
  <2>1. Has(HEAD)' /\ disk'[HEAD].whole /\ Safe(disk[HEAD].of)'
    <3>1. disk[HEAD].of \in Selectable /\ Safe(disk[HEAD].of) /\ disk[HEAD].whole
          BY DEF Selectable, Core, Selected
    <3> DEFINE l == disk[HEAD].of
    <3> QED BY <1>2, <1>3, <3>1
  <2>2. ASSUME NEW i \in HeadChanges'
        PROVE  unsynced'[i].was # None /\ unsynced'[i].was.whole /\ Safe(unsynced[i].was.of)'
    <3>1. /\ i \in HeadChanges /\ unsynced'[i] = unsynced[i]
          /\ unsynced[i].was # None /\ unsynced[i].was.whole /\ Safe(unsynced[i].was.of)
          /\ unsynced[i].was.of \in Selectable
          BY <1>1 DEF Core, Selected, Selectable
    <3> QED BY <1>3, <3>1
  <2> QED BY <2>1, <2>2 DEF Selected
<1>5. LedgersFollow'
  <2> SUFFICES ASSUME NEW i \in DOMAIN unsynced', unsynced'[i].entry = Receipts
               PROVE  /\ unsynced'[i].was = None
                      /\ HeadChanges' = {} => disk'[HEAD].of = Initial
                      /\ \A j \in HeadChanges' : i < j /\ unsynced'[j].was.of = Initial
      BY DEF LedgersFollow
  <2>1. i \in DOMAIN unsynced /\ unsynced'[i] = unsynced[i]
        BY Changing, ChangingNext DEF Touches
  <2> QED BY <1>1, <1>2, <2>1 DEF Core, LedgersFollow
<1>6. NoInitialLedger'
  <2>1. Content(Ledger(Initial))' = Content(Ledger(Initial)) /\ (Settled(Ledger(Initial))' <=> Settled(Ledger(Initial)))
        BY SettledTouched DEF Touches
  <2> QED BY <2>1, Held, HeldNext DEF Core, NoInitialLedger
<1> QED BY <1>1, <1>2, <1>4, <1>5, <1>6 DEF Core

\* Where the changes left by a sync come from.
LEMMA Origins ==
    ASSUME Stored, NEW folders, Syncs(folders)
    PROVE  /\ unsynced' \in Seq(Changes) /\ disk' = disk
           /\ \E g \in [DOMAIN unsynced' -> DOMAIN unsynced] :
                /\ \A i \in DOMAIN unsynced' : unsynced'[i] = unsynced[g[i]] /\ unsynced'[i].folder \notin folders
                /\ \A i, j \in DOMAIN unsynced' : i < j => g[i] < g[j]
                /\ \A k \in DOMAIN unsynced :
                      unsynced[k].folder \notin folders => \E i \in DOMAIN unsynced' : g[i] = k
<1>1. unsynced' \in Seq(Changes) /\ disk' = disk
      BY DEF Syncs, Filtered
<1>2. DOMAIN unsynced' = 1..Len(unsynced') /\ DOMAIN unsynced = 1..Len(unsynced)
      BY <1>1 DEF Stored
<1>3. PICK g \in [1..Len(unsynced') -> 1..Len(unsynced)] :
        /\ \A i \in 1..Len(unsynced') : unsynced'[i] = unsynced[g[i]] /\ unsynced[g[i]].folder \notin folders
        /\ \A i, j \in 1..Len(unsynced') : i < j => g[i] < g[j]
        /\ \A k \in 1..Len(unsynced) :
              unsynced[k].folder \notin folders => \E i \in 1..Len(unsynced') : g[i] = k
      BY DEF Syncs, Filtered
<1>4. g \in [DOMAIN unsynced' -> DOMAIN unsynced]
      BY <1>2, <1>3, Zenon
<1>5. \A i \in DOMAIN unsynced' : unsynced'[i] = unsynced[g[i]] /\ unsynced'[i].folder \notin folders
      BY <1>2, <1>3, Zenon
<1>6. \A i, j \in DOMAIN unsynced' : i < j => g[i] < g[j]
      BY <1>2, <1>3, Zenon
<1>7. \A k \in DOMAIN unsynced : unsynced[k].folder \notin folders => \E i \in DOMAIN unsynced' : g[i] = k
      BY <1>2, <1>3, Zenon
<1> QED BY <1>1, <1>4, <1>5, <1>6, <1>7, Zenon

LEMMA Surviving ==
    ASSUME Stored, NEW folders, Syncs(folders)
    PROVE  /\ disk' = disk
           /\ \A i \in DOMAIN unsynced' : \E k \in DOMAIN unsynced : unsynced'[i] = unsynced[k]
           /\ \A folder \in folders : Synced(folder)'
           /\ \A folder : Synced(folder) => Synced(folder)'
           /\ \A e : Settled(e) => Settled(e)'
           /\ \A e : Content(e)' = Content(e)
           /\ HeadChanges = {} => HeadChanges' = {}
<1>1. PICK g \in [DOMAIN unsynced' -> DOMAIN unsynced] :
        \A i \in DOMAIN unsynced' : unsynced'[i] = unsynced[g[i]] /\ unsynced'[i].folder \notin folders
      BY Origins
<1>2. disk' = disk
      BY Origins
<1>3. \A i \in DOMAIN unsynced' : \E k \in DOMAIN unsynced : unsynced'[i] = unsynced[k]
      BY <1>1
<1>4. \A folder \in folders : Synced(folder)'
      BY <1>1 DEF Synced
<1>5. \A folder : Synced(folder) => Synced(folder)'
      BY <1>3 DEF Synced
<1>6. \A e : Settled(e) => Settled(e)'
      BY <1>3 DEF Settled
<1>7. \A e : Content(e)' = Content(e)
      BY <1>2 DEF Content, Has
<1>8. HeadChanges = {} => HeadChanges' = {}
      BY <1>3 DEF HeadChanges
<1> QED BY <1>2, <1>3, <1>4, <1>5, <1>6, <1>7, <1>8

LEMMA SafeSynced ==
    ASSUME Stored, NEW folders, Syncs(folders), committed' = committed, NEW l, Safe(l)
    PROVE  Safe(l)'
<1>1. Settled(Checkpoint(l))' /\ Settled(Ledger(l))' /\ Settled(Wal(l))'
      BY Surviving DEF Safe
<1>2. Content(Checkpoint(l))' = Content(Checkpoint(l)) /\ Content(Ledger(l))' = Content(Ledger(l))
      /\ Content(Wal(l))' = Content(Wal(l)) /\ (Has(Receipts)' <=> Has(Receipts))
      BY Surviving DEF Has
<1> QED BY <1>1, <1>2 DEF Safe

LEMMA CoreSynced ==
    ASSUME Stored, Stored', Core, committed' = committed, NEW folders, Syncs(folders)
    PROVE  Core' /\ disk'[HEAD] = disk[HEAD]
<1>1. PICK g \in [DOMAIN unsynced' -> DOMAIN unsynced] :
        /\ \A i \in DOMAIN unsynced' : unsynced'[i] = unsynced[g[i]] /\ unsynced'[i].folder \notin folders
        /\ \A i, j \in DOMAIN unsynced' : i < j => g[i] < g[j]
        /\ \A k \in DOMAIN unsynced :
              unsynced[k].folder \notin folders => \E i \in DOMAIN unsynced' : g[i] = k
      BY Origins
<1>2. disk' = disk /\ (Has(HEAD)' <=> Has(HEAD)) /\ (Has(Ledger(Initial))' <=> Has(Ledger(Initial)))
      BY Surviving DEF Has
<1>3. ASSUME NEW l, Safe(l) PROVE Safe(l)'
      BY <1>3, SafeSynced
<1>4. Selected'
  <2>1. Has(HEAD)' /\ disk'[HEAD].whole /\ Safe(disk[HEAD].of)'
        BY <1>2, <1>3 DEF Core, Selected
  <2>2. ASSUME NEW i \in HeadChanges'
        PROVE  unsynced'[i].was # None /\ unsynced'[i].was.whole /\ Safe(unsynced[i].was.of)'
    <3>1. g[i] \in HeadChanges /\ unsynced'[i] = unsynced[g[i]]
          BY <1>1 DEF HeadChanges
    <3>2. unsynced'[i].was # None /\ unsynced'[i].was.whole /\ Safe(unsynced[g[i]].was.of)
          BY <3>1 DEF Core, Selected
    <3> QED BY <1>3, <3>1, <3>2
  <2> QED BY <2>1, <2>2 DEF Selected
<1>5. LedgersFollow'
  <2> SUFFICES ASSUME NEW i \in DOMAIN unsynced', unsynced'[i].entry = Receipts
               PROVE  /\ unsynced'[i].was = None
                      /\ HeadChanges' = {} => disk'[HEAD].of = Initial
                      /\ \A j \in HeadChanges' : i < j /\ unsynced'[j].was.of = Initial
      BY DEF LedgersFollow
  <2>1. /\ g[i] \in DOMAIN unsynced /\ unsynced[g[i]].entry = Receipts /\ unsynced'[i] = unsynced[g[i]]
        /\ unsynced'[i].was = None
        /\ HeadChanges = {} => disk[HEAD].of = Initial
        /\ \A j \in HeadChanges : g[i] < j /\ unsynced[j].was.of = Initial
        BY <1>1 DEF Core, LedgersFollow
  <2>2. "store" \notin folders
        BY <1>1, <2>1, FoldersOf DEF Stored
  <2>3. HeadChanges' = {} => HeadChanges = {}
    <3> SUFFICES ASSUME NEW k \in HeadChanges PROVE HeadChanges' # {}
        OBVIOUS
    <3>1. k \in DOMAIN unsynced /\ unsynced[k].entry = HEAD /\ unsynced[k].folder = "store"
          BY FoldersOf DEF HeadChanges, Stored
    <3>2. PICK j \in DOMAIN unsynced' : g[j] = k
          BY <1>1, <2>2, <3>1
    <3> QED BY <1>1, <3>1, <3>2 DEF HeadChanges
  <2>4. ASSUME NEW j \in HeadChanges' PROVE i < j /\ unsynced'[j].was.of = Initial
    <3>1. j \in DOMAIN unsynced' /\ g[j] \in HeadChanges /\ unsynced'[j] = unsynced[g[j]]
          BY <1>1 DEF HeadChanges
    <3>2. g[i] < g[j] /\ unsynced'[j].was.of = Initial
          BY <2>1, <3>1
    <3>3. i \in Nat /\ j \in Nat /\ g[i] \in Nat /\ g[j] \in Nat
          BY <3>1, Changing, ChangingNext
    <3>4. ~(j < i) /\ i # j
          BY <1>1, <3>1, <3>2, <3>3
    <3> QED BY <3>2, <3>3, <3>4
  <2> QED BY <1>2, <2>1, <2>3, <2>4
<1>6. NoInitialLedger'
      BY <1>2, Surviving DEF Core, NoInitialLedger
<1> QED BY <1>2, <1>4, <1>5, <1>6 DEF Core

-------------------------------------------------------------------------------
(* The program, step by step *)

LEMMA Writes ==
    \A e \in Places : /\ Write(e) \in Seq(Ops) /\ Len(Write(e)) = 2
                      /\ Write(e)[1] = Do("make", e) /\ Write(e)[2] = Do("fill", e)
  BY Listed, Operations DEF Write

LEMMA SweepAt ==
    /\ SweepScratch[1] = Do("discard", LedgerCandidate) /\ SweepScratch[2] = Do("discard", CheckpointCandidate)
    /\ SweepScratch[3] = Do("discard", HeadCandidate) /\ SweepScratch[4] = Do("discard", Runs)
    /\ SweepScratch[5] = Sync(".private")
  BY DEF SweepScratch

LEMMA ConfirmAt == Confirm[1] = Sync(".private") /\ Confirm[2] = Sync("store")
  BY DEF Confirm

LEMMA SwitchAt ==
    /\ Switch[1] = Do("make", HeadCandidate) /\ Switch[2] = Do("fill", HeadCandidate)
    /\ Switch[3] = Sync(".private") /\ Switch[4] = Do("verify", HeadCandidate)
    /\ Switch[5] = Move(HeadCandidate, HEAD)
<1> DEFINE w == Write(HeadCandidate)
           c == << Sync(".private"), Do("verify", HeadCandidate), Move(HeadCandidate, HEAD) >>
<1>1. w \in Seq(Ops) /\ Len(w) = 2 /\ w[1] = Do("make", HeadCandidate) /\ w[2] = Do("fill", HeadCandidate)
      BY Writes, Entries, Located
<1>2. c \in Seq(Ops) /\ Len(c) = 3
      BY Listed, Operations, Entries, Located
<1>3. c[1] = Sync(".private") /\ c[2] = Do("verify", HeadCandidate) /\ c[3] = Move(HeadCandidate, HEAD)
      OBVIOUS
<1>4. Switch = w \o c
      BY DEF Switch
<1> HIDE DEF w, c
<1>5. /\ \A i \in 1..Len(w) : (w \o c)[i] = w[i]
      /\ \A i \in 1..Len(c) : (w \o c)[Len(w) + i] = c[i]
      BY <1>1, <1>2, JoinedAt, Zenon
<1>6. /\ \A i \in 1..2 : Switch[i] = w[i]
      /\ \A i \in 1..3 : Switch[2 + i] = c[i]
      BY <1>1, <1>2, <1>4, <1>5, Zenon
<1>7. Switch[1] = w[1] /\ Switch[2] = w[2]
      BY <1>6
<1>8. Switch[2 + 1] = c[1] /\ Switch[2 + 2] = c[2] /\ Switch[2 + 3] = c[3]
      BY <1>6
<1> QED BY <1>1, <1>3, <1>7, <1>8

LEMMA ActivateAt ==
    ASSUME Target \in Seq(Nat)
    PROVE  /\ Activate[1] = Move(LedgerCandidate, Ledger(Target)) /\ Activate[2] = Do("verify", Ledger(Target))
           /\ Activate[3] = Sync("receipts")
           /\ Activate[4] = Do("make", CheckpointCandidate) /\ Activate[5] = Do("fill", CheckpointCandidate)
           /\ Activate[6] = Sync(".private") /\ Activate[7] = Move(CheckpointCandidate, Checkpoint(Target))
           /\ Activate[8] = Do("verify", Checkpoint(Target)) /\ Activate[9] = Sync("checkpoints")
<1> DEFINE a == << Move(LedgerCandidate, Ledger(Target)), Do("verify", Ledger(Target)), Sync("receipts") >>
           w == Write(CheckpointCandidate)
           c == << Sync(".private"), Move(CheckpointCandidate, Checkpoint(Target)),
                   Do("verify", Checkpoint(Target)), Sync("checkpoints") >>
           aw == a \o w
<1>1. a \in Seq(Ops) /\ Len(a) = 3
      BY Listed, Operations, Entries, Located
<1>2. a[1] = Move(LedgerCandidate, Ledger(Target)) /\ a[2] = Do("verify", Ledger(Target)) /\ a[3] = Sync("receipts")
      OBVIOUS
<1>3. w \in Seq(Ops) /\ Len(w) = 2 /\ w[1] = Do("make", CheckpointCandidate) /\ w[2] = Do("fill", CheckpointCandidate)
      BY Writes, Entries, Located
<1>4. c \in Seq(Ops) /\ Len(c) = 4
      BY Listed, Operations, Entries, Located
<1>5. /\ c[1] = Sync(".private") /\ c[2] = Move(CheckpointCandidate, Checkpoint(Target))
      /\ c[3] = Do("verify", Checkpoint(Target)) /\ c[4] = Sync("checkpoints")
      OBVIOUS
<1>6. Activate = aw \o c
      BY DEF Activate
<1> HIDE DEF a, w, c
<1>7. /\ aw \in Seq(Ops) /\ Len(aw) = Len(a) + Len(w)
      /\ \A i \in 1..Len(a) : aw[i] = a[i]
      /\ \A i \in 1..Len(w) : aw[Len(a) + i] = w[i]
      BY <1>1, <1>3, Joined, JoinedAt, Zenon
<1> HIDE DEF aw
<1>8. Len(aw) = 5
      BY <1>1, <1>3, <1>7
<1>9. /\ \A i \in 1..Len(aw) : Activate[i] = aw[i]
      /\ \A i \in 1..Len(c) : Activate[Len(aw) + i] = c[i]
      BY <1>4, <1>6, <1>7, JoinedAt, Zenon
<1>10. /\ \A i \in 1..3 : aw[i] = a[i]
       /\ \A i \in 1..2 : aw[3 + i] = w[i]
       /\ \A i \in 1..5 : Activate[i] = aw[i]
       /\ \A i \in 1..4 : Activate[5 + i] = c[i]
      BY <1>1, <1>3, <1>4, <1>7, <1>8, <1>9, Zenon
<1>11. aw[1] = a[1] /\ aw[2] = a[2] /\ aw[3] = a[3] /\ aw[3 + 1] = w[1] /\ aw[3 + 2] = w[2]
      BY <1>10
<1>12. Activate[1] = aw[1] /\ Activate[2] = aw[2] /\ Activate[3] = aw[3] /\ Activate[4] = aw[4] /\ Activate[5] = aw[5]
      BY <1>10
<1>13. Activate[5 + 1] = c[1] /\ Activate[5 + 2] = c[2] /\ Activate[5 + 3] = c[3] /\ Activate[5 + 4] = c[4]
      BY <1>10
<1> QED BY <1>2, <1>3, <1>5, <1>11, <1>12, <1>13

\* How many steps verify the old ledger, and sort the retiring segment.
Verifying == IF from = Initial THEN 0 ELSE 1
Sorting == IF upto > Cut(from) THEN 3 ELSE 0

LEMMA MergeAt ==
    ASSUME from \in Seq(Nat), upto \in Nat
    PROVE  /\ Len(Merge) = Verifying + Sorting + 4
           /\ from # Initial => Merge[1] = Do("verify", Ledger(from))
           /\ upto > Cut(from) =>
                /\ Merge[Verifying + 1] = Do("verify", Wal(from))
                /\ Merge[Verifying + 2] = Do("make", Runs)
                /\ Merge[Verifying + 3] = Do("fill", Runs)
           /\ Merge[Verifying + Sorting + 1] = Do("ensure", Receipts)
           /\ Merge[Verifying + Sorting + 2] = Do("make", LedgerCandidate)
           /\ Merge[Verifying + Sorting + 3] = Do("fill", LedgerCandidate)
           /\ Merge[Verifying + Sorting + 4] = Do("discard", Runs)
<1> DEFINE a == IF from = Initial THEN << >> ELSE <<Do("verify", Ledger(from))>>
           w == <<Do("verify", Wal(from))>>
           x == Write(Runs)
           b == IF upto > Cut(from) THEN w \o x ELSE << >>
           r == <<Do("ensure", Receipts)>>
           l == Write(LedgerCandidate)
           d == <<Do("discard", Runs)>>
           ab == a \o b
           abr == ab \o r
           abrl == abr \o l
<1>1. a \in Seq(Ops) /\ Len(a) = Verifying /\ (from # Initial => a[1] = Do("verify", Ledger(from)))
      BY Listed, Operations, Entries, Located DEF Verifying
<1>2. /\ w \in Seq(Ops) /\ Len(w) = 1 /\ r \in Seq(Ops) /\ Len(r) = 1 /\ d \in Seq(Ops) /\ Len(d) = 1
      BY Listed, Operations, Entries, Located
<1>3. w[1] = Do("verify", Wal(from)) /\ r[1] = Do("ensure", Receipts) /\ d[1] = Do("discard", Runs)
      OBVIOUS
<1>4. /\ x \in Seq(Ops) /\ Len(x) = 2 /\ x[1] = Do("make", Runs) /\ x[2] = Do("fill", Runs)
      /\ l \in Seq(Ops) /\ Len(l) = 2 /\ l[1] = Do("make", LedgerCandidate) /\ l[2] = Do("fill", LedgerCandidate)
      BY Writes, Entries, Located
<1>5. Merge = abrl \o d
      BY DEF Merge
<1> HIDE DEF a, w, x, r, l, d
<1>6. /\ w \o x \in Seq(Ops) /\ Len(w \o x) = Len(w) + Len(x)
      /\ \A i \in 1..Len(w) : (w \o x)[i] = w[i]
      /\ \A i \in 1..Len(x) : (w \o x)[Len(w) + i] = x[i]
      BY <1>2, <1>4, Joined, JoinedAt, Zenon
<1>7. \A i \in 1..1 : (w \o x)[i] = w[i]
      BY <1>2, <1>6, Zenon
<1>8. \A i \in 1..2 : (w \o x)[1 + i] = x[i]
      BY <1>2, <1>4, <1>6, Zenon
<1>9. (w \o x)[1] = w[1] /\ (w \o x)[1 + 1] = x[1] /\ (w \o x)[1 + 2] = x[2] /\ Len(w \o x) = 3
      BY <1>2, <1>4, <1>6, <1>7, <1>8
<1>10. b \in Seq(Ops) /\ Len(b) = Sorting /\ (upto > Cut(from) => b = w \o x)
      BY <1>6, <1>9, Listed DEF Sorting
<1> HIDE DEF b
<1>11. Verifying \in {0, 1} /\ Sorting \in {0, 3} /\ (from # Initial => Verifying = 1) /\ (upto > Cut(from) => Sorting = 3)
      BY DEF Verifying, Sorting
<1>12. /\ ab \in Seq(Ops) /\ Len(ab) = Len(a) + Len(b)
       /\ \A i \in 1..Len(a) : ab[i] = a[i]
       /\ \A i \in 1..Len(b) : ab[Len(a) + i] = b[i]
      BY <1>1, <1>10, Joined, JoinedAt, Zenon
<1> HIDE DEF ab
<1>13. /\ abr \in Seq(Ops) /\ Len(abr) = Len(ab) + Len(r)
       /\ \A i \in 1..Len(ab) : abr[i] = ab[i]
       /\ \A i \in 1..Len(r) : abr[Len(ab) + i] = r[i]
      BY <1>2, <1>12, Joined, JoinedAt, Zenon
<1> HIDE DEF abr
<1>14. /\ abrl \in Seq(Ops) /\ Len(abrl) = Len(abr) + Len(l)
       /\ \A i \in 1..Len(abr) : abrl[i] = abr[i]
       /\ \A i \in 1..Len(l) : abrl[Len(abr) + i] = l[i]
      BY <1>4, <1>13, Joined, JoinedAt, Zenon
<1> HIDE DEF abrl
<1>15. /\ Len(Merge) = Len(abrl) + Len(d)
       /\ \A i \in 1..Len(abrl) : Merge[i] = abrl[i]
       /\ \A i \in 1..Len(d) : Merge[Len(abrl) + i] = d[i]
  <2>1. /\ Len(abrl \o d) = Len(abrl) + Len(d)
        /\ \A i \in 1..Len(abrl) : (abrl \o d)[i] = abrl[i]
        /\ \A i \in 1..Len(d) : (abrl \o d)[Len(abrl) + i] = d[i]
        BY <1>2, <1>14, Joined, JoinedAt, Zenon
  <2> QED BY <1>5, <2>1, Zenon
<1> DEFINE n == Verifying + Sorting
<1>16. n \in Nat /\ Len(ab) = n
      BY <1>1, <1>10, <1>11, <1>12
<1>17. Len(abr) = n + 1
      BY <1>2, <1>13, <1>16
<1>18. Len(abrl) = n + 3
      BY <1>4, <1>14, <1>16, <1>17
<1>19. Len(Merge) = n + 4
      BY <1>2, <1>15, <1>16, <1>18
<1>20. ASSUME NEW i \in 1..Len(ab) PROVE Merge[i] = ab[i]
  <2>1. i \in 1..Len(abr) /\ i \in 1..Len(abrl)
        BY <1>16, <1>17, <1>18
  <2> QED BY <1>13, <1>14, <1>15, <2>1, Zenon
<1>21. from # Initial => Merge[1] = Do("verify", Ledger(from))
  <2> SUFFICES ASSUME from # Initial PROVE Merge[1] = Do("verify", Ledger(from))
      OBVIOUS
  <2>1. 1 \in 1..Len(a) /\ 1 \in 1..Len(ab)
        BY <1>1, <1>11, <1>16
  <2> QED BY <1>1, <1>12, <1>20, <2>1, Zenon
<1>22. upto > Cut(from) => \A i \in 1..3 : Merge[Verifying + i] = (w \o x)[i]
  <2> SUFFICES ASSUME upto > Cut(from), NEW i \in 1..3 PROVE Merge[Verifying + i] = (w \o x)[i]
      OBVIOUS
  <2>1. i \in 1..Len(b) /\ Verifying + i \in 1..Len(ab)
        BY <1>10, <1>11, <1>16
  <2>2. ab[Verifying + i] = b[i]
        BY <1>1, <1>12, <2>1, Zenon
  <2> QED BY <1>10, <1>20, <2>1, <2>2, Zenon
<1>23. upto > Cut(from) =>
        /\ Merge[Verifying + 1] = Do("verify", Wal(from))
        /\ Merge[Verifying + 2] = Do("make", Runs)
        /\ Merge[Verifying + 3] = Do("fill", Runs)
  <2> SUFFICES ASSUME upto > Cut(from)
               PROVE  /\ Merge[Verifying + 1] = Do("verify", Wal(from))
                      /\ Merge[Verifying + 2] = Do("make", Runs)
                      /\ Merge[Verifying + 3] = Do("fill", Runs)
      OBVIOUS
  <2>1. 1 \in 1..3 /\ 2 \in 1..3 /\ 3 \in 1..3 /\ 1 + 1 = 2 /\ 1 + 2 = 3
        OBVIOUS
  <2>2. (w \o x)[1] = w[1] /\ (w \o x)[2] = x[1] /\ (w \o x)[3] = x[2]
        BY <1>9
  <2>3. /\ Merge[Verifying + 1] = (w \o x)[1] /\ Merge[Verifying + 2] = (w \o x)[2]
        /\ Merge[Verifying + 3] = (w \o x)[3]
        BY <1>22, <2>1, Zenon
  <2> QED BY <1>3, <1>4, <2>2, <2>3, Zenon
<1>24. Merge[n + 1] = r[1]
  <2>1. 1 \in 1..Len(r) /\ n + 1 \in 1..Len(abr) /\ n + 1 \in 1..Len(abrl)
        BY <1>2, <1>16, <1>17, <1>18
  <2>2. abr[n + 1] = r[1]
        BY <1>13, <1>16, <2>1, Zenon
  <2> QED BY <1>14, <1>15, <2>1, <2>2, Zenon
<1>25. Merge[n + 2] = l[1] /\ Merge[n + 3] = l[2]
  <2>1. /\ 1 \in 1..Len(l) /\ 2 \in 1..Len(l) /\ n + 2 \in 1..Len(abrl) /\ n + 3 \in 1..Len(abrl)
        /\ (n + 1) + 1 = n + 2 /\ (n + 1) + 2 = n + 3
        BY <1>4, <1>16, <1>18
  <2>2. abrl[(n + 1) + 1] = l[1] /\ abrl[(n + 1) + 2] = l[2]
        BY <1>14, <1>17, <2>1, Zenon
  <2>3. abrl[n + 2] = l[1] /\ abrl[n + 3] = l[2]
        BY <2>1, <2>2, Zenon
  <2> QED BY <1>15, <2>1, <2>3, Zenon
<1>26. Merge[n + 4] = d[1]
  <2>1. 1 \in 1..Len(d) /\ (n + 3) + 1 = n + 4
        BY <1>2, <1>16
  <2>2. Merge[(n + 3) + 1] = d[1]
        BY <1>15, <1>18, <2>1, Zenon
  <2> QED BY <2>1, <2>2, Zenon
<1> QED BY <1>3, <1>4, <1>19, <1>21, <1>23, <1>24, <1>25, <1>26, Zenon

LEMMA ReclaimAt ==
    ASSUME from \in Seq(Nat), upto \in Nat
    PROVE  /\ Len(Reclaim) = Verifying + 11
           /\ Reclaim[1] = Do("discard", Wal(from)) /\ Reclaim[2] = Do("remove", Checkpoint(from))
           /\ from # Initial => Reclaim[3] = Do("remove", Ledger(from))
           /\ \A k \in 1..5 : Reclaim[Verifying + 2 + k] = SweepScratch[k]
           /\ Reclaim[Verifying + 8] = Sync("wal") /\ Reclaim[Verifying + 9] = Sync("checkpoints")
           /\ Reclaim[Verifying + 10] = Sync("receipts") /\ Reclaim[Verifying + 11] = Sync("store")
<1> DEFINE a == << Do("discard", Wal(from)), Do("remove", Checkpoint(from)) >>
           b == IF from = Initial THEN << >> ELSE <<Do("remove", Ledger(from))>>
           s == SweepScratch
           c == << Sync("wal"), Sync("checkpoints"), Sync("receipts"), Sync("store") >>
           ab == a \o b
           abs == ab \o s
<1>1. a \in Seq(Ops) /\ Len(a) = 2
      BY Listed, Operations, Entries, Located
<1>2. a[1] = Do("discard", Wal(from)) /\ a[2] = Do("remove", Checkpoint(from))
      OBVIOUS
<1>3. b \in Seq(Ops) /\ Len(b) = Verifying /\ (from # Initial => b[1] = Do("remove", Ledger(from)))
      BY Listed, Operations, Entries, Located DEF Verifying
<1>4. c \in Seq(Ops) /\ Len(c) = 4
      BY Listed, Operations
<1>5. c[1] = Sync("wal") /\ c[2] = Sync("checkpoints") /\ c[3] = Sync("receipts") /\ c[4] = Sync("store")
      OBVIOUS
<1>6. s \in Seq(Ops) /\ Len(s) = 5
      BY Sections
<1>7. Reclaim = abs \o c
      BY DEF Reclaim, Retire
<1>8. Verifying \in {0, 1} /\ (from # Initial => Verifying = 1)
      BY DEF Verifying
<1> HIDE DEF a, b, c, s
<1>9. /\ ab \in Seq(Ops) /\ Len(ab) = Len(a) + Len(b)
      /\ \A i \in 1..Len(a) : ab[i] = a[i]
      /\ \A i \in 1..Len(b) : ab[Len(a) + i] = b[i]
      BY <1>1, <1>3, Joined, JoinedAt, Zenon
<1> HIDE DEF ab
<1>10. /\ abs \in Seq(Ops) /\ Len(abs) = Len(ab) + Len(s)
       /\ \A i \in 1..Len(ab) : abs[i] = ab[i]
       /\ \A i \in 1..Len(s) : abs[Len(ab) + i] = s[i]
      BY <1>6, <1>9, Joined, JoinedAt, Zenon
<1> HIDE DEF abs
<1>11. /\ Len(Reclaim) = Len(abs) + Len(c)
       /\ \A i \in 1..Len(abs) : Reclaim[i] = abs[i]
       /\ \A i \in 1..Len(c) : Reclaim[Len(abs) + i] = c[i]
      BY <1>4, <1>7, <1>10, Joined, JoinedAt, Zenon
<1>12. Len(ab) = Verifying + 2
      BY <1>1, <1>3, <1>8, <1>9
<1>13. Len(abs) = Verifying + 7
      BY <1>6, <1>8, <1>10, <1>12
<1>14. Len(Reclaim) = Verifying + 11
      BY <1>4, <1>8, <1>11, <1>13
<1>15. ASSUME NEW i \in 1..Len(ab) PROVE Reclaim[i] = ab[i]
  <2>1. i \in 1..Len(abs)
        BY <1>8, <1>12, <1>13
  <2> QED BY <1>10, <1>11, <2>1, Zenon
<1>16. Reclaim[1] = a[1] /\ Reclaim[2] = a[2]
  <2>1. 1 \in 1..Len(a) /\ 2 \in 1..Len(a) /\ 1 \in 1..Len(ab) /\ 2 \in 1..Len(ab)
        BY <1>1, <1>8, <1>12
  <2>2. ab[1] = a[1] /\ ab[2] = a[2]
        BY <1>9, <2>1
  <2>3. Reclaim[1] = ab[1] /\ Reclaim[2] = ab[2]
        BY <1>15, <2>1
  <2> QED BY <2>2, <2>3
<1>17. from # Initial => Reclaim[3] = b[1]
  <2> SUFFICES ASSUME from # Initial PROVE Reclaim[3] = b[1]
      OBVIOUS
  <2>1. 1 \in 1..Len(b) /\ 3 \in 1..Len(ab) /\ 2 + 1 = 3
        BY <1>3, <1>8, <1>12
  <2>2. ab[2 + 1] = b[1]
        BY <1>1, <1>9, <2>1, Zenon
  <2> QED BY <1>15, <2>1, <2>2, Zenon
<1>18. ASSUME NEW k \in 1..5 PROVE Reclaim[Verifying + 2 + k] = SweepScratch[k]
  <2>1. (Verifying + 2) + k \in 1..Len(abs)
        BY <1>8, <1>13
  <2>2. abs[(Verifying + 2) + k] = s[k]
        BY <1>6, <1>10, <1>12, Zenon
  <2> QED BY <1>11, <2>1, <2>2, Zenon DEF s
<1>19. ASSUME NEW k \in 1..4 PROVE Reclaim[(Verifying + 7) + k] = c[k]
      BY <1>4, <1>11, <1>13, Zenon
<1>20. /\ Reclaim[(Verifying + 7) + 1] = c[1] /\ Reclaim[(Verifying + 7) + 2] = c[2]
       /\ Reclaim[(Verifying + 7) + 3] = c[3] /\ Reclaim[(Verifying + 7) + 4] = c[4]
      BY <1>19
<1>21. /\ (Verifying + 7) + 1 = Verifying + 8 /\ (Verifying + 7) + 2 = Verifying + 9
       /\ (Verifying + 7) + 3 = Verifying + 10 /\ (Verifying + 7) + 4 = Verifying + 11
      BY <1>8
<1>22. /\ Reclaim[Verifying + 8] = Sync("wal") /\ Reclaim[Verifying + 9] = Sync("checkpoints")
       /\ Reclaim[Verifying + 10] = Sync("receipts") /\ Reclaim[Verifying + 11] = Sync("store")
      BY <1>5, <1>20, <1>21, Zenon
<1> QED BY <1>2, <1>3, <1>14, <1>16, <1>17, <1>18, <1>22, Zenon

\* The preparation: sweep, sort, merge.
LEMMA Preparation ==
    ASSUME from \in Seq(Nat), upto \in Nat
    PROVE  /\ at = 1 => Current = Do("discard", LedgerCandidate)
           /\ at = 2 => Current = Do("discard", CheckpointCandidate)
           /\ at = 3 => Current = Do("discard", HeadCandidate)
           /\ at = 4 => Current = Do("discard", Runs)
           /\ at = 5 => Current = Sync(".private")
           /\ from # Initial /\ at = 6 => Current = Do("verify", Ledger(from))
           /\ upto > Cut(from) =>
                /\ at = Prepared - 6 => Current = Do("verify", Wal(from))
                /\ at = Prepared - 5 => Current = Do("make", Runs)
                /\ at = Prepared - 4 => Current = Do("fill", Runs)
           /\ at = Prepared - 3 => Current = Do("ensure", Receipts)
           /\ at = Prepared - 2 => Current = Do("make", LedgerCandidate)
           /\ at = Prepared - 1 => Current = Do("fill", LedgerCandidate)
           /\ at = Prepared => Current = Do("discard", Runs)
<1> DEFINE v == Verifying
           m == Sorting
<1>1. v \in {0, 1} /\ m \in {0, 3} /\ (from # Initial => v = 1) /\ (upto > Cut(from) => m = 3)
      BY DEF Verifying, Sorting
<1>2. Prepared = 9 + v + m
      BY Lengths DEF Verifying, Sorting
<1>3. /\ \A k \in 1..5 : Rotation[k] = SweepScratch[k]
      /\ \A k \in 1..Len(Merge) : Rotation[5 + k] = Merge[k]
      BY Lengths
<1>4. Len(Merge) = v + m + 4
      BY MergeAt
<1> HIDE DEF v, m
<1>5. \A k \in 1..(v + m + 4) : Rotation[5 + k] = Merge[k]
      BY <1>3, <1>4, Zenon
<1>6. /\ Rotation[1] = Do("discard", LedgerCandidate) /\ Rotation[2] = Do("discard", CheckpointCandidate)
      /\ Rotation[3] = Do("discard", HeadCandidate) /\ Rotation[4] = Do("discard", Runs)
      /\ Rotation[5] = Sync(".private")
      BY <1>3, SweepAt
<1>7. from # Initial => Rotation[6] = Do("verify", Ledger(from))
  <2>1. 1 \in 1..(v + m + 4) /\ 5 + 1 = 6
        BY <1>1
  <2>2. Rotation[6] = Merge[1]
        BY <1>5, <2>1
  <2> QED BY <2>2, MergeAt
<1>8. upto > Cut(from) =>
        /\ Rotation[Prepared - 6] = Do("verify", Wal(from))
        /\ Rotation[Prepared - 5] = Do("make", Runs)
        /\ Rotation[Prepared - 4] = Do("fill", Runs)
  <2> SUFFICES ASSUME upto > Cut(from)
               PROVE  /\ Rotation[Prepared - 6] = Do("verify", Wal(from))
                      /\ Rotation[Prepared - 5] = Do("make", Runs)
                      /\ Rotation[Prepared - 4] = Do("fill", Runs)
      OBVIOUS
  <2>1. /\ v + 1 \in 1..(v + m + 4) /\ v + 2 \in 1..(v + m + 4) /\ v + 3 \in 1..(v + m + 4)
        /\ Prepared - 6 = 5 + (v + 1) /\ Prepared - 5 = 5 + (v + 2) /\ Prepared - 4 = 5 + (v + 3)
        BY <1>1, <1>2
  <2>2. /\ Rotation[Prepared - 6] = Merge[v + 1] /\ Rotation[Prepared - 5] = Merge[v + 2]
        /\ Rotation[Prepared - 4] = Merge[v + 3]
        BY <1>5, <2>1
  <2> QED BY <2>2, MergeAt DEF v
<1>9. /\ Rotation[Prepared - 3] = Do("ensure", Receipts)
      /\ Rotation[Prepared - 2] = Do("make", LedgerCandidate)
      /\ Rotation[Prepared - 1] = Do("fill", LedgerCandidate)
      /\ Rotation[Prepared] = Do("discard", Runs)
  <2>1. /\ v + m + 1 \in 1..(v + m + 4) /\ v + m + 2 \in 1..(v + m + 4)
        /\ v + m + 3 \in 1..(v + m + 4) /\ v + m + 4 \in 1..(v + m + 4)
        /\ Prepared - 3 = 5 + (v + m + 1) /\ Prepared - 2 = 5 + (v + m + 2)
        /\ Prepared - 1 = 5 + (v + m + 3) /\ Prepared = 5 + (v + m + 4)
        BY <1>1, <1>2
  <2>2. /\ Rotation[Prepared - 3] = Merge[v + m + 1] /\ Rotation[Prepared - 2] = Merge[v + m + 2]
        /\ Rotation[Prepared - 1] = Merge[v + m + 3] /\ Rotation[Prepared] = Merge[v + m + 4]
        BY <1>5, <2>1
  <2> QED BY <2>2, MergeAt DEF v, m
<1> QED BY <1>6, <1>7, <1>8, <1>9, Zenon DEF Current

\* The activation and its confirmation.
LEMMA Activation ==
    ASSUME from \in Seq(Nat), upto \in Nat
    PROVE  /\ at = Prepared + 1 => Current = Move(LedgerCandidate, Ledger(Target))
           /\ at = Prepared + 2 => Current = Do("verify", Ledger(Target))
           /\ at = Prepared + 3 => Current = Sync("receipts")
           /\ at = Prepared + 4 => Current = Do("make", CheckpointCandidate)
           /\ at = Prepared + 5 => Current = Do("fill", CheckpointCandidate)
           /\ at = Prepared + 6 => Current = Sync(".private")
           /\ at = Prepared + 7 => Current = Move(CheckpointCandidate, Checkpoint(Target))
           /\ at = Prepared + 8 => Current = Do("verify", Checkpoint(Target))
           /\ at = Prepared + 9 => Current = Sync("checkpoints")
           /\ at = Prepared + 10 => Current = Do("make", HeadCandidate)
           /\ at = Prepared + 11 => Current = Do("fill", HeadCandidate)
           /\ at = Prepared + 12 => Current = Sync(".private")
           /\ at = Prepared + 13 => Current = Do("verify", HeadCandidate)
           /\ at = Prepared + 14 => Current = Move(HeadCandidate, HEAD)
           /\ at = Prepared + 15 => Current = Sync(".private")
           /\ at = Prepared + 16 => Current = Sync("store")
<1>1. Prepared \in Nat /\ Switched = Prepared + 14
      BY Lengths
<1>2. /\ \A k \in 1..9 : Rotation[Prepared + k] = Activate[k]
      /\ \A k \in 1..5 : Rotation[Prepared + 9 + k] = Switch[k]
      /\ \A k \in 1..2 : Rotation[Switched + k] = Confirm[k]
      BY Lengths
<1>3. Target \in Seq(Nat)
      BY Lineages DEF Target
<1>4. /\ Rotation[Prepared + 1] = Activate[1] /\ Rotation[Prepared + 2] = Activate[2]
      /\ Rotation[Prepared + 3] = Activate[3] /\ Rotation[Prepared + 4] = Activate[4]
      /\ Rotation[Prepared + 5] = Activate[5] /\ Rotation[Prepared + 6] = Activate[6]
      /\ Rotation[Prepared + 7] = Activate[7] /\ Rotation[Prepared + 8] = Activate[8]
      /\ Rotation[Prepared + 9] = Activate[9]
      BY <1>2
<1>5. /\ Prepared + 9 + 1 = Prepared + 10 /\ Prepared + 9 + 2 = Prepared + 11 /\ Prepared + 9 + 3 = Prepared + 12
      /\ Prepared + 9 + 4 = Prepared + 13 /\ Prepared + 9 + 5 = Prepared + 14
      /\ Switched + 1 = Prepared + 15 /\ Switched + 2 = Prepared + 16
      BY <1>1
<1>6. /\ Rotation[Prepared + 9 + 1] = Switch[1] /\ Rotation[Prepared + 9 + 2] = Switch[2]
      /\ Rotation[Prepared + 9 + 3] = Switch[3] /\ Rotation[Prepared + 9 + 4] = Switch[4]
      /\ Rotation[Prepared + 9 + 5] = Switch[5]
      BY <1>2
<1>7. Rotation[Switched + 1] = Confirm[1] /\ Rotation[Switched + 2] = Confirm[2]
      BY <1>2
<1>8. /\ Rotation[Prepared + 10] = Switch[1] /\ Rotation[Prepared + 11] = Switch[2]
      /\ Rotation[Prepared + 12] = Switch[3] /\ Rotation[Prepared + 13] = Switch[4]
      /\ Rotation[Prepared + 14] = Switch[5]
      /\ Rotation[Prepared + 15] = Confirm[1] /\ Rotation[Prepared + 16] = Confirm[2]
      BY <1>5, <1>6, <1>7, Zenon
<1> QED BY <1>3, <1>4, <1>8, ActivateAt, SwitchAt, ConfirmAt, Zenon DEF Current

\* The retirement of the old lineage, and the last sweep.
LEMMA Retirement ==
    ASSUME from \in Seq(Nat), upto \in Nat
    PROVE  /\ at = Prepared + 17 => Current = Do("discard", Wal(from))
           /\ at = Prepared + 18 => Current = Do("remove", Checkpoint(from))
           /\ from # Initial => Retired = Prepared + 19 /\ (at = Prepared + 19 => Current = Do("remove", Ledger(from)))
           /\ at = Retired + 1 => Current = Do("discard", LedgerCandidate)
           /\ at = Retired + 2 => Current = Do("discard", CheckpointCandidate)
           /\ at = Retired + 3 => Current = Do("discard", HeadCandidate)
           /\ at = Retired + 4 => Current = Do("discard", Runs)
           /\ at = Retired + 5 => Current = Sync(".private")
           /\ at = Retired + 6 => Current = Sync("wal")
           /\ at = Retired + 7 => Current = Sync("checkpoints")
           /\ at = Retired + 8 => Current = Sync("receipts")
           /\ at = Retired + 9 => Current = Sync("store")
<1> DEFINE v == Verifying
<1>1. v \in {0, 1} /\ (from # Initial => v = 1)
      BY DEF Verifying
<1>2. Prepared \in Nat /\ Confirmed = Prepared + 16 /\ Retired = Prepared + 18 + v
      BY Lengths DEF Verifying
<1>3. \A k \in 1..Len(Reclaim) : Rotation[Confirmed + k] = Reclaim[k]
      BY Lengths
<1>4. Len(Reclaim) = v + 11
      BY ReclaimAt
<1> HIDE DEF v
<1>5. \A k \in 1..(v + 11) : Rotation[Confirmed + k] = Reclaim[k]
      BY <1>3, <1>4, Zenon
<1>6. /\ 1 \in 1..(v + 11) /\ 2 \in 1..(v + 11) /\ 3 \in 1..(v + 11)
      /\ Confirmed + 1 = Prepared + 17 /\ Confirmed + 2 = Prepared + 18 /\ Confirmed + 3 = Prepared + 19
      BY <1>1, <1>2
<1>7. /\ Rotation[Prepared + 17] = Reclaim[1] /\ Rotation[Prepared + 18] = Reclaim[2]
      /\ Rotation[Prepared + 19] = Reclaim[3]
      BY <1>5, <1>6
<1>8. ASSUME NEW k \in 1..9 PROVE Rotation[Retired + k] = Reclaim[v + 2 + k]
  <2>1. v + 2 + k \in 1..(v + 11) /\ Confirmed + (v + 2 + k) = Retired + k
        BY <1>1, <1>2
  <2> QED BY <1>5, <2>1
<1>9. /\ Rotation[Retired + 1] = SweepScratch[1] /\ Rotation[Retired + 2] = SweepScratch[2]
      /\ Rotation[Retired + 3] = SweepScratch[3] /\ Rotation[Retired + 4] = SweepScratch[4]
      /\ Rotation[Retired + 5] = SweepScratch[5]
  <2>1. \A k \in 1..5 : k \in 1..9 /\ Reclaim[v + 2 + k] = SweepScratch[k]
        BY ReclaimAt DEF v
  <2>2. \A k \in 1..5 : Rotation[Retired + k] = SweepScratch[k]
        BY <1>8, <2>1
  <2> QED BY <2>2
<1>10. /\ Rotation[Retired + 6] = Reclaim[v + 2 + 6] /\ Rotation[Retired + 7] = Reclaim[v + 2 + 7]
       /\ Rotation[Retired + 8] = Reclaim[v + 2 + 8] /\ Rotation[Retired + 9] = Reclaim[v + 2 + 9]
      BY <1>8
<1>11. /\ v + 2 + 6 = v + 8 /\ v + 2 + 7 = v + 9 /\ v + 2 + 8 = v + 10 /\ v + 2 + 9 = v + 11
      BY <1>1
<1>12. /\ Rotation[Retired + 6] = Reclaim[v + 8] /\ Rotation[Retired + 7] = Reclaim[v + 9]
       /\ Rotation[Retired + 8] = Reclaim[v + 10] /\ Rotation[Retired + 9] = Reclaim[v + 11]
      BY <1>10, <1>11, Zenon
<1>13. /\ Rotation[Retired + 6] = Sync("wal") /\ Rotation[Retired + 7] = Sync("checkpoints")
       /\ Rotation[Retired + 8] = Sync("receipts") /\ Rotation[Retired + 9] = Sync("store")
      BY <1>12, ReclaimAt DEF v
<1>14. from # Initial => Retired = Prepared + 19
      BY <1>1, <1>2
<1>15. /\ Reclaim[1] = Do("discard", Wal(from)) /\ Reclaim[2] = Do("remove", Checkpoint(from))
       /\ (from # Initial => Reclaim[3] = Do("remove", Ledger(from)))
      BY ReclaimAt
<1> QED BY <1>7, <1>9, <1>13, <1>14, <1>15, SweepAt, Zenon DEF Current

-------------------------------------------------------------------------------
(* What each step of the program does *)

Stepping == Stored /\ from \in Seq(Nat) /\ upto \in Nat /\ Succeeds(Current) /\ Effect(Current)

LEMMA Targets ==
    ASSUME from \in Seq(Nat), upto \in Nat
    PROVE  Target \in Seq(Nat) /\ Target # Initial /\ Target # from /\ Cut(Target) = upto
  BY Lineages DEF Target, Initial, Cut

LEMMA Requires ==
    /\ \A e : Succeeds(Do("make", e)) => ~Has(e)
    /\ \A e : Succeeds(Do("remove", e)) => Has(e)
    /\ \A e : Succeeds(Do("verify", e)) => Has(e) /\ disk[e].whole
    /\ \A e, x : Succeeds(Move(x, e)) => Has(x)
  BY DEF Succeeds, Do, Move

LEMMA Ensures ==
    ASSUME Stored, Target \in Seq(Nat), NEW e \in Names, Effect(Do("ensure", e))
    PROVE  /\ Touches({e}) /\ Stored' /\ Has(e)'
           /\ Has(e) => disk' = disk /\ unsynced' = unsynced
<1>1. CASE Has(e)
  <2>1. disk' = disk /\ unsynced' = unsynced
        BY <1>1 DEF Effect, Do
  <2>2. Has(e)'
        BY <1>1, <2>1 DEF Has
  <2> QED BY <2>1, <2>2, Kept DEF Touches
<1>2. CASE ~Has(e)
  <2>1. Touches({e}) /\ Stored' /\ Content(e)' = Partial(Target)
        BY <1>2, Makes
  <2>2. Partial(Target) # None
        BY Kinds, RotationConstantsOK DEF Contents, RotationConstantsOK
  <2> QED BY <1>2, <2>1, <2>2, HeldNext
<1> QED BY <1>1, <1>2

LEMMA Differ ==
    /\ LedgerCandidate # Ledger(Target) /\ CheckpointCandidate # Checkpoint(Target) /\ HeadCandidate # HEAD
  BY Tags

\* The sweep that opens a rotation, and the one that closes it.
LEMMA Sweeping ==
    ASSUME Stepping
    PROVE  /\ Current = Do("discard", LedgerCandidate) =>
                Stored' /\ Touches({LedgerCandidate}) /\ Content(LedgerCandidate)' = None
           /\ Current = Do("discard", CheckpointCandidate) =>
                Stored' /\ Touches({CheckpointCandidate}) /\ Content(CheckpointCandidate)' = None
           /\ Current = Do("discard", HeadCandidate) =>
                Stored' /\ Touches({HeadCandidate}) /\ Content(HeadCandidate)' = None
           /\ Current = Do("discard", Runs) => Stored' /\ Touches({Runs}) /\ Content(Runs)' = None
           /\ \A folder : Current = Sync(folder) => Stored' /\ Syncs({folder})
           /\ \A e : Current = Do("verify", e) => Stored' /\ Touches({}) /\ disk' = disk
<1>1. \A e \in Names : Effect(Do("discard", e)) => Stored' /\ Touches({e}) /\ Content(e)' = None
      BY Removes DEF Stepping
<1>2. ASSUME NEW folder, Current = Sync(folder) PROVE Stored' /\ Syncs({folder})
      BY <1>2, SyncsOne DEF Stepping
<1>3. ASSUME NEW e, Current = Do("verify", e) PROVE Stored' /\ Touches({}) /\ disk' = disk
      BY <1>3, Verifies, Kept DEF Stepping
<1>4. Effect(Current)
      BY DEF Stepping
<1> QED BY <1>1, <1>2, <1>3, <1>4, Entries, Zenon

LEMMA Building ==
    ASSUME Stepping, NEW e \in Names
    PROVE  /\ Current = Do("make", e) => Stored' /\ Touches({e}) /\ Content(e)' = Partial(Target)
           /\ Current = Do("fill", e) => Stored' /\ Touches({e}) /\ Content(e)' = Whole(Target)
           /\ Current = Do("ensure", e) =>
                /\ Stored' /\ Touches({e}) /\ Has(e)'
                /\ Has(e) => disk' = disk /\ unsynced' = unsynced
           /\ Current = Do("discard", e) \/ Current = Do("remove", e) =>
                Stored' /\ Touches({e}) /\ Content(e)' = None
<1>1. Target \in Seq(Nat) /\ Stored /\ Effect(Current) /\ Succeeds(Current)
      BY Targets DEF Stepping
<1>2. Current = Do("make", e) => Stored' /\ Touches({e}) /\ Content(e)' = Partial(Target)
      BY <1>1, Requires, Makes
<1>3. Current = Do("fill", e) => Stored' /\ Touches({e}) /\ Content(e)' = Whole(Target)
      BY <1>1, Fills
<1>4. Current = Do("ensure", e) =>
        /\ Stored' /\ Touches({e}) /\ Has(e)'
        /\ Has(e) => disk' = disk /\ unsynced' = unsynced
      BY <1>1, Ensures
<1>5. Current = Do("discard", e) \/ Current = Do("remove", e) =>
        Stored' /\ Touches({e}) /\ Content(e)' = None
      BY <1>1, Removes
<1> QED BY <1>2, <1>3, <1>4, <1>5

LEMMA Installing ==
    ASSUME Stepping, NEW e \in Names, NEW src \in Names, src # e, Current = Move(src, e)
    PROVE  Stored' /\ Touches({e, src}) /\ Content(e)' = Content(src) /\ Content(src)' = None
  BY Requires, MovesTo DEF Stepping

LEMMA Groups ==
    ASSUME Stepping, at \in 1..Len(Rotation)
    PROVE  /\ Stored'
           /\ \/ at \in {1, Prepared - 2, Prepared - 1, Retired + 1} /\ Touches({LedgerCandidate})
              \/ at \in {2, Prepared + 4, Prepared + 5, Retired + 2} /\ Touches({CheckpointCandidate})
              \/ at \in {3, Prepared + 10, Prepared + 11, Retired + 3} /\ Touches({HeadCandidate})
              \/ at \in {4, Prepared - 5, Prepared - 4, Prepared, Retired + 4} /\ Touches({Runs})
              \/ at = Prepared - 3 /\ Touches({Receipts})
              \/ at = Prepared + 1 /\ Touches({Ledger(Target), LedgerCandidate})
              \/ at = Prepared + 7 /\ Touches({Checkpoint(Target), CheckpointCandidate})
              \/ at = Prepared + 14 /\ Touches({HEAD, HeadCandidate})
              \/ at = Prepared + 17 /\ Touches({Wal(from)})
              \/ at = Prepared + 18 /\ Touches({Checkpoint(from)})
              \/ at = Prepared + 19 /\ from # Initial /\ Touches({Ledger(from)})
              \/ Touches({})
              \/ \E folders : Syncs(folders)
<1> DEFINE goal ==
           /\ Stored'
           /\ \/ at \in {1, Prepared - 2, Prepared - 1, Retired + 1} /\ Touches({LedgerCandidate})
              \/ at \in {2, Prepared + 4, Prepared + 5, Retired + 2} /\ Touches({CheckpointCandidate})
              \/ at \in {3, Prepared + 10, Prepared + 11, Retired + 3} /\ Touches({HeadCandidate})
              \/ at \in {4, Prepared - 5, Prepared - 4, Prepared, Retired + 4} /\ Touches({Runs})
              \/ at = Prepared - 3 /\ Touches({Receipts})
              \/ at = Prepared + 1 /\ Touches({Ledger(Target), LedgerCandidate})
              \/ at = Prepared + 7 /\ Touches({Checkpoint(Target), CheckpointCandidate})
              \/ at = Prepared + 14 /\ Touches({HEAD, HeadCandidate})
              \/ at = Prepared + 17 /\ Touches({Wal(from)})
              \/ at = Prepared + 18 /\ Touches({Checkpoint(from)})
              \/ at = Prepared + 19 /\ from # Initial /\ Touches({Ledger(from)})
              \/ Touches({})
              \/ \E folders : Syncs(folders)
<1>1. from \in Seq(Nat) /\ upto \in Nat /\ Target \in Seq(Nat)
      BY Targets DEF Stepping
<1>2. /\ Prepared \in Nat /\ Retired = Prepared + 18 + Verifying /\ Len(Rotation) = Retired + 9
      /\ Prepared = 9 + Verifying + Sorting
      BY <1>1, Lengths DEF Verifying, Sorting
<1>3. /\ Verifying \in {0, 1} /\ (Verifying = 1 => from # Initial)
      /\ Sorting \in {0, 3} /\ (Sorting = 3 => upto > Cut(from))
      BY DEF Verifying, Sorting
<1>4. ASSUME at \in 1..5 PROVE goal
  <2>1. at = 1 \/ at = 2 \/ at = 3 \/ at = 4 \/ at = 5
        BY <1>4
  <2> QED BY <1>1, <2>1, Preparation, Sweeping, Zenon
<1>5. ASSUME at \in 6..Prepared PROVE goal
  <2>1. \/ from # Initial /\ at = 6
        \/ upto > Cut(from) /\ at = Prepared - 6
        \/ upto > Cut(from) /\ at = Prepared - 5
        \/ upto > Cut(from) /\ at = Prepared - 4
        \/ at = Prepared - 3 \/ at = Prepared - 2 \/ at = Prepared - 1 \/ at = Prepared
        BY <1>2, <1>3, <1>5
  <2>2. /\ from # Initial /\ at = 6 => goal
        /\ upto > Cut(from) /\ at = Prepared - 6 => goal
        BY <1>1, Preparation, Sweeping, Zenon
  <2>3. /\ upto > Cut(from) /\ at = Prepared - 5 => goal
        /\ upto > Cut(from) /\ at = Prepared - 4 => goal
        BY <1>1, Preparation, Building, Entries, Zenon
  <2>4. at = Prepared - 3 \/ at = Prepared - 2 \/ at = Prepared - 1 => goal
        BY <1>1, Preparation, Building, Entries, Zenon
  <2>5. at = Prepared => goal
        BY <1>1, Preparation, Sweeping, Zenon
  <2> QED BY <2>1, <2>2, <2>3, <2>4, <2>5, Zenon
<1>6. ASSUME at \in (Prepared + 1)..(Prepared + 16) PROVE goal
  <2>1. \/ at = Prepared + 1 \/ at = Prepared + 2 \/ at = Prepared + 3 \/ at = Prepared + 4
        \/ at = Prepared + 5 \/ at = Prepared + 6 \/ at = Prepared + 7 \/ at = Prepared + 8
        \/ at = Prepared + 9 \/ at = Prepared + 10 \/ at = Prepared + 11 \/ at = Prepared + 12
        \/ at = Prepared + 13 \/ at = Prepared + 14 \/ at = Prepared + 15 \/ at = Prepared + 16
    <3> DEFINE k == at - Prepared
    <3>1. k \in 1..16 /\ at = Prepared + k
          BY <1>2, <1>3, <1>6
    <3> HIDE DEF k
    <3>2. \/ k = 1 \/ k = 2 \/ k = 3 \/ k = 4 \/ k = 5 \/ k = 6 \/ k = 7 \/ k = 8
          \/ k = 9 \/ k = 10 \/ k = 11 \/ k = 12 \/ k = 13 \/ k = 14 \/ k = 15 \/ k = 16
          BY <3>1
    <3> QED BY <3>1, <3>2, Zenon
  <2>2. at = Prepared + 2 \/ at = Prepared + 3 \/ at = Prepared + 6 \/ at = Prepared + 8 => goal
        BY <1>1, Activation, Sweeping, Zenon
  <2>3. at = Prepared + 9 \/ at = Prepared + 12 \/ at = Prepared + 13 \/ at = Prepared + 15 \/ at = Prepared + 16 => goal
        BY <1>1, Activation, Sweeping, Zenon
  <2>4. at = Prepared + 4 \/ at = Prepared + 5 \/ at = Prepared + 10 \/ at = Prepared + 11 => goal
        BY <1>1, Activation, Building, Entries, Zenon
  <2>5. at = Prepared + 1 => goal
        BY <1>1, Activation, Installing, Entries, Differ, Zenon
  <2>6. at = Prepared + 7 => goal
        BY <1>1, Activation, Installing, Entries, Differ, Zenon
  <2>7. at = Prepared + 14 => goal
        BY <1>1, Activation, Installing, Entries, Differ, Zenon
  <2> QED BY <2>1, <2>2, <2>3, <2>4, <2>5, <2>6, <2>7, Zenon
<1>7. ASSUME at \in (Prepared + 17)..Retired PROVE goal
  <2>1. at = Prepared + 17 \/ at = Prepared + 18 \/ (at = Prepared + 19 /\ from # Initial)
        BY <1>2, <1>3, <1>7
  <2> QED BY <1>1, <2>1, Retirement, Building, Entries, Zenon
<1>8. ASSUME at \in (Retired + 1)..(Retired + 9) PROVE goal
  <2>1. \/ at = Retired + 1 \/ at = Retired + 2 \/ at = Retired + 3 \/ at = Retired + 4 \/ at = Retired + 5
        \/ at = Retired + 6 \/ at = Retired + 7 \/ at = Retired + 8 \/ at = Retired + 9
        BY <1>2, <1>3, <1>8
  <2> QED BY <1>1, <2>1, Retirement, Sweeping, Zenon
<1>9. \/ at \in 1..5 \/ at \in 6..Prepared \/ at \in (Prepared + 1)..(Prepared + 16)
      \/ at \in (Prepared + 17)..Retired \/ at \in (Retired + 1)..(Retired + 9)
      BY <1>2, <1>3
<1> QED BY <1>4, <1>5, <1>6, <1>7, <1>8, <1>9

\* When a step may touch a name.
Reaches(names) ==
    /\ LedgerCandidate \in names => at \in {1, Prepared - 2, Prepared - 1, Prepared + 1, Retired + 1}
    /\ CheckpointCandidate \in names => at \in {2, Prepared + 4, Prepared + 5, Prepared + 7, Retired + 2}
    /\ HeadCandidate \in names => at \in {3, Prepared + 10, Prepared + 11, Prepared + 14, Retired + 3}
    /\ Runs \in names => at \in {4, Prepared - 5, Prepared - 4, Prepared, Retired + 4}
    /\ Receipts \in names => at = Prepared - 3
    /\ HEAD \in names => at = Prepared + 14
    /\ \A l : Ledger(l) \in names =>
        (l = Target /\ at = Prepared + 1) \/ (l = from /\ from # Initial /\ at = Prepared + 19)
    /\ \A l : Checkpoint(l) \in names => (l = Target /\ at = Prepared + 7) \/ (l = from /\ at = Prepared + 18)
    /\ \A l : Wal(l) \in names => l = from /\ at = Prepared + 17
    /\ \A e \in names : Folder(e) = "wal" => at = Prepared + 17

LEMMA Reached ==
    ASSUME Stepping, at \in 1..Len(Rotation)
    PROVE  Stored' /\ ((\E names : Touches(names) /\ Reaches(names)) \/ \E folders : Syncs(folders))
<1>1. at \in {1, Prepared - 2, Prepared - 1, Retired + 1} => Reaches({LedgerCandidate})
      BY Tags, FoldersOf DEF Reaches
<1>2. at \in {2, Prepared + 4, Prepared + 5, Retired + 2} => Reaches({CheckpointCandidate})
      BY Tags, FoldersOf DEF Reaches
<1>3. at \in {3, Prepared + 10, Prepared + 11, Retired + 3} => Reaches({HeadCandidate})
      BY Tags, FoldersOf DEF Reaches
<1>4. at \in {4, Prepared - 5, Prepared - 4, Prepared, Retired + 4} => Reaches({Runs})
      BY Tags, FoldersOf DEF Reaches
<1>5. at = Prepared - 3 => Reaches({Receipts})
      BY Tags, FoldersOf DEF Reaches
<1>6. at = Prepared + 1 => Reaches({Ledger(Target), LedgerCandidate})
      BY Tags, FoldersOf DEF Reaches
<1>7. at = Prepared + 7 => Reaches({Checkpoint(Target), CheckpointCandidate})
      BY Tags, FoldersOf DEF Reaches
<1>8. at = Prepared + 14 => Reaches({HEAD, HeadCandidate})
      BY Tags, FoldersOf DEF Reaches
<1>9. at = Prepared + 17 => Reaches({Wal(from)})
      BY Tags, FoldersOf DEF Reaches
<1>10. at = Prepared + 18 => Reaches({Checkpoint(from)})
      BY Tags, FoldersOf DEF Reaches
<1>11. at = Prepared + 19 /\ from # Initial => Reaches({Ledger(from)})
      BY Tags, FoldersOf DEF Reaches
<1>12. Reaches({})
      BY DEF Reaches
<1> DEFINE reached == \E names : Touches(names) /\ Reaches(names)
<1>13. \A names : Touches(names) /\ Reaches(names) => reached
      OBVIOUS
<1> HIDE DEF reached
<1>14. \/ at \in {1, Prepared - 2, Prepared - 1, Retired + 1} /\ Touches({LedgerCandidate})
       \/ at \in {2, Prepared + 4, Prepared + 5, Retired + 2} /\ Touches({CheckpointCandidate})
       \/ at \in {3, Prepared + 10, Prepared + 11, Retired + 3} /\ Touches({HeadCandidate})
       \/ at \in {4, Prepared - 5, Prepared - 4, Prepared, Retired + 4} /\ Touches({Runs})
       => reached
      BY <1>1, <1>2, <1>3, <1>4, <1>13, Zenon
<1>15. \/ at = Prepared - 3 /\ Touches({Receipts})
       \/ at = Prepared + 1 /\ Touches({Ledger(Target), LedgerCandidate})
       \/ at = Prepared + 7 /\ Touches({Checkpoint(Target), CheckpointCandidate})
       \/ at = Prepared + 14 /\ Touches({HEAD, HeadCandidate})
       => reached
      BY <1>5, <1>6, <1>7, <1>8, <1>13, Zenon
<1>16. \/ at = Prepared + 17 /\ Touches({Wal(from)})
       \/ at = Prepared + 18 /\ Touches({Checkpoint(from)})
       \/ at = Prepared + 19 /\ from # Initial /\ Touches({Ledger(from)})
       \/ Touches({})
       => reached
      BY <1>9, <1>10, <1>11, <1>12, <1>13, Zenon
<1>17. Stored' /\ (reached \/ \E folders : Syncs(folders))
      BY <1>14, <1>15, <1>16, Groups, Zenon
<1> QED BY <1>17 DEF reached

\* A step leaves a name and what will become of it alone.
Spares(e) == Content(e)' = Content(e) /\ (Settled(e) => Settled(e)')

LEMMA Spared ==
    ASSUME Stepping, at \in 1..Len(Rotation)
    PROVE  /\ at \notin {1, Prepared - 2, Prepared - 1, Prepared + 1, Retired + 1} => Spares(LedgerCandidate)
           /\ at \notin {2, Prepared + 4, Prepared + 5, Prepared + 7, Retired + 2} => Spares(CheckpointCandidate)
           /\ at \notin {3, Prepared + 10, Prepared + 11, Prepared + 14, Retired + 3} => Spares(HeadCandidate)
           /\ at \notin {4, Prepared - 5, Prepared - 4, Prepared, Retired + 4} => Spares(Runs)
           /\ at # Prepared - 3 => Spares(Receipts)
           /\ at # Prepared + 14 => Spares(HEAD)
           /\ \A l : (l = Target => at # Prepared + 1) /\ (l = from /\ from # Initial => at # Prepared + 19)
                        => Spares(Ledger(l))
           /\ \A l : (l = Target => at # Prepared + 7) /\ (l = from => at # Prepared + 18) => Spares(Checkpoint(l))
           /\ \A l : (l = from => at # Prepared + 17) => Spares(Wal(l))
           /\ at # Prepared + 17 /\ Synced("wal") => Synced("wal")'
<1>1. Stored /\ Stored'
      BY Reached DEF Stepping
<1>2. CASE \E folders : Syncs(folders)
  <2>1. \A e : Spares(e)
        BY <1>1, <1>2, Surviving DEF Spares
  <2>2. Synced("wal") => Synced("wal")'
        BY <1>1, <1>2, Surviving
  <2> QED BY <2>1, <2>2, Zenon
<1>3. CASE \E names : Touches(names) /\ Reaches(names)
  <2>1. PICK names : Touches(names) /\ Reaches(names)
        BY <1>3
  <2>2. \A e : e \notin names => Spares(e)
        BY <1>1, <2>1, SettledTouched DEF Spares, Touches
  <2>3. (\A e \in names : Folder(e) # "wal") /\ Synced("wal") => Synced("wal")'
        BY <1>1, <2>1, SyncedTouched
  <2>4. at # Prepared + 17 => \A e \in names : Folder(e) # "wal"
        BY <2>1 DEF Reaches
  <2> QED BY <2>1, <2>2, <2>3, <2>4, Zenon DEF Reaches
<1> QED BY <1>2, <1>3, Reached

-------------------------------------------------------------------------------
(* The selected lineage survives every step *)

\* A change that moving a file makes is recorded.
LEMMA Marks ==
    ASSUME Stored, NEW e \in Names, NEW src \in Names, Has(src), Effect(Move(src, e)), Content(e) # Content(src)
    PROVE  ~Settled(e)'
<1> DEFINE x == [folder |-> Folder(e), entry |-> e, was |-> Content(e)]
           s == unsynced \o Changed(src, None)
<1>1. unsynced' = s \o Changed(e, disk[src]) /\ disk[src] = Content(src)
      BY DEF Effect, Move, Content
<1>2. Changed(e, disk[src]) = <<x>>
      BY <1>1 DEF Changed
<1>3. Changed(src, None) \in Seq(Changes) /\ unsynced \in Seq(Changes)
      BY ChangedAt DEF Stored
<1>4. s \in Seq(Changes)
      BY <1>3
<1>5. x \in Changes /\ x.entry = e
      BY Held, FolderTyped DEF Changes
<1>6. unsynced' = s \o <<x>>
      BY <1>1, <1>2
<1> HIDE DEF s, x
<1>7. <<x>> \in Seq(Changes) /\ Len(<<x>>) = 1 /\ <<x>>[1] = x
      BY <1>5
<1>8. /\ s \o <<x>> \in Seq(Changes) /\ Len(s \o <<x>>) = Len(s) + 1
      /\ (s \o <<x>>)[Len(s) + 1] = x
      BY <1>4, <1>7, ConcatAt
<1>9. Len(s) + 1 \in DOMAIN unsynced' /\ unsynced'[Len(s) + 1].entry = e
      BY <1>4, <1>5, <1>6, <1>8
<1> QED BY <1>9 DEF Settled

LEMMA Unchanged == HeadChanges = {} <=> Settled(HEAD)
  BY DEF HeadChanges, Settled

LEMMA UnchangedNext == HeadChanges' = {} <=> Settled(HEAD)'
  BY DEF HeadChanges, Settled

\* What a running rotation relies on.
Going ==
    /\ Stored /\ Core /\ Lineage /\ Scratch /\ Installed
    /\ from \in Seq(Nat) /\ upto \in Nat /\ committed \in Nat /\ at \in 1..Len(Rotation)

LEMMA Positions ==
    ASSUME from \in Seq(Nat), upto \in Nat
    PROVE  /\ Prepared \in Nat /\ Prepared >= 9 /\ Switched = Prepared + 14 /\ Confirmed = Prepared + 16
           /\ Retired \in Nat /\ Retired >= Prepared + 18 /\ Retired =< Prepared + 19
           /\ (from # Initial => Retired = Prepared + 19) /\ (from = Initial => Retired = Prepared + 18)
           /\ Len(Rotation) = Retired + 9
           /\ (upto > Cut(from) => Prepared >= 12)
<1>1. Prepared = 9 + Verifying + Sorting /\ Retired = Prepared + 18 + Verifying
      /\ Switched = Prepared + 14 /\ Confirmed = Prepared + 16 /\ Len(Rotation) = Retired + 9
      BY Lengths DEF Verifying, Sorting
<1>2. /\ Verifying \in {0, 1} /\ Sorting \in {0, 3} /\ (upto > Cut(from) => Sorting = 3)
      /\ (from # Initial => Verifying = 1) /\ (from = Initial => Verifying = 0)
      BY DEF Verifying, Sorting
<1> QED BY <1>1, <1>2

\* The step that makes the directory of the ledgers.
LEMMA EnsuringKeepsCore ==
    ASSUME Going, Stepping, committed' = committed, at = Prepared - 3
    PROVE  Core'
<1>1. from \in Seq(Nat) /\ upto \in Nat /\ Stored
      BY DEF Going
<1>2. Current = Do("ensure", Receipts)
      BY <1>1, Preparation
<1>3. /\ Stored' /\ Touches({Receipts}) /\ Has(Receipts)'
      /\ Has(Receipts) => disk' = disk /\ unsynced' = unsynced
      BY <1>2, Building, Entries
<1>4. CASE Has(Receipts)
  <2>1. Touches({})
        BY <1>1, <1>3, <1>4, Kept
  <2> QED BY <1>1, <1>3, <2>1, CoreTouched DEF Going
<1>5. CASE ~Has(Receipts)
  <2>1. at =< Switched /\ at =< Confirmed
    <3>1. Prepared \in Nat /\ Switched = Prepared + 14 /\ Confirmed = Prepared + 16
          BY <1>1, Positions
    <3> QED BY <3>1
  <2>2. Safe(from) /\ disk[HEAD].of = from /\ HeadChanges = {}
        BY <2>1 DEF Going, Lineage
  <2>3. from = Initial
        BY <1>5, <2>2 DEF Safe
  <2>4. HEAD # Receipts /\ \A l : Checkpoint(l) # Receipts /\ Ledger(l) # Receipts /\ Wal(l) # Receipts
        BY Tags
  <2>5. HeadChanges' = {}
        BY <1>1, <1>3, <2>2, <2>4, HeadTouched
  <2>6. Has(HEAD)' /\ disk'[HEAD] = disk[HEAD]
    <3>1. Content(HEAD)' = Content(HEAD) /\ Has(HEAD)
          BY <1>3, <2>4 DEF Touches, Going, Core, Selected
    <3> QED BY <1>1, <1>3, <3>1, Held, HeldNext
  <2>7. Safe(Initial)'
    <3>1. Safe(Initial)
          BY <2>2, <2>3
    <3> DEFINE l == Initial
    <3> QED BY <1>1, <1>3, <2>4, <3>1, SafeTouched
  <2>8. Selected'
        BY <2>2, <2>3, <2>5, <2>6, <2>7 DEF Selected, Going, Core
  <2>9. LedgersFollow'
    <3> SUFFICES ASSUME NEW i \in DOMAIN unsynced', unsynced'[i].entry = Receipts
                 PROVE  unsynced'[i].was = None /\ disk'[HEAD].of = Initial
        BY <2>5 DEF LedgersFollow
    <3>1. disk'[HEAD].of = Initial
          BY <2>2, <2>3, <2>6
    <3>2. DOMAIN unsynced' = 1..Len(unsynced') /\ DOMAIN unsynced = 1..Len(unsynced) /\ Len(unsynced) \in Nat
          BY <1>1, <1>3, Changing, ChangingNext
    <3>3. CASE i \in DOMAIN unsynced
          BY <1>3, <3>1, <3>2, <3>3 DEF Touches, Going, Core, LedgersFollow
    <3>4. CASE i \notin DOMAIN unsynced
      <4>1. unsynced'[i].was = Content(Receipts)
            BY <1>3, <3>2, <3>4 DEF Touches
      <4> QED BY <1>5, <3>1, <4>1 DEF Content
    <3> QED BY <3>3, <3>4
  <2>10. NoInitialLedger'
    <3>1. Ledger(Initial) \notin {Receipts}
          BY <2>4
    <3>2. Content(Ledger(Initial))' = Content(Ledger(Initial))
          BY <1>3, <3>1 DEF Touches
    <3>3. Settled(Ledger(Initial))' <=> Settled(Ledger(Initial))
          BY <1>1, <1>3, <3>1, SettledTouched
    <3> QED BY <1>1, <1>3, <3>2, <3>3, Held, HeldNext DEF Going, Core, NoInitialLedger
  <2> QED BY <2>8, <2>9, <2>10 DEF Core
<1> QED BY <1>4, <1>5

\* What makes the new lineage fit to be selected.
LEMMA TargetIsSafe ==
    ASSUME Going, at = Prepared + 14
    PROVE  Safe(Target)
<1>1. from \in Seq(Nat) /\ upto \in Nat /\ Stored
      BY DEF Going
<1>2. Prepared \in Nat /\ Confirmed = Prepared + 16
      BY <1>1, Positions
<1>3. /\ Has(Receipts) /\ Content(Ledger(Target)) = Whole(Target) /\ Settled(Ledger(Target))
      /\ Content(Checkpoint(Target)) = Whole(Target) /\ Settled(Checkpoint(Target))
      BY <1>2 DEF Going, Installed
<1>4. upto = committed /\ Synced("wal")
      BY <1>2 DEF Going, Lineage
<1>5. Settled(Wal(Target))
      BY <1>1, <1>4, FoldersOf DEF Synced, Settled, Stored
<1>6. ~(Cut(Target) < committed)
      BY <1>1, <1>4, Targets
<1> QED BY <1>3, <1>5, <1>6 DEF Safe

\* The switch.
LEMMA SwitchingKeepsCore ==
    ASSUME Going, Stepping, committed' = committed, from' = from, upto' = upto, at = Prepared + 14
    PROVE  Core' /\ Content(HEAD)' = Whole(Target) /\ Content(HeadCandidate)' = None
<1>1. from \in Seq(Nat) /\ upto \in Nat /\ Stored /\ Target \in Seq(Nat) /\ Target # from /\ Target # Initial
      BY Targets DEF Going
<1>2. Prepared \in Nat /\ Confirmed = Prepared + 16 /\ Switched = Prepared + 14
      BY <1>1, Positions
<1>3. Current = Move(HeadCandidate, HEAD)
      BY <1>1, Activation
<1>4. /\ Stored' /\ Touches({HEAD, HeadCandidate}) /\ Content(HEAD)' = Content(HeadCandidate)
      /\ Content(HeadCandidate)' = None
      BY <1>3, Installing, Entries, Differ
<1>5. Content(HeadCandidate) = Whole(Target)
      BY <1>2 DEF Going, Scratch
<1>6. /\ HeadChanges = {} /\ disk[HEAD].of = from /\ Safe(from) /\ Has(HEAD) /\ disk[HEAD].whole
      BY <1>2 DEF Going, Lineage, Core, Selected
<1>7. /\ HEAD # HeadCandidate /\ Receipts \notin {HEAD, HeadCandidate}
      /\ \A l : /\ Checkpoint(l) \notin {HEAD, HeadCandidate} /\ Ledger(l) \notin {HEAD, HeadCandidate}
                /\ Wal(l) \notin {HEAD, HeadCandidate}
      BY Tags
<1>8. Content(HEAD) = disk[HEAD] /\ Content(HEAD) # Whole(Target)
      BY <1>1, <1>6, Kinds DEF Content
<1>9. ~Settled(HEAD)'
  <2>1. Has(HeadCandidate) /\ Effect(Move(HeadCandidate, HEAD))
        BY <1>3, Requires DEF Stepping
  <2> QED BY <1>1, <1>5, <1>8, <2>1, Marks, Entries
<1>10. Has(HEAD)' /\ disk'[HEAD] = Whole(Target)
  <2>1. Whole(Target) # None
        BY <1>1, Kinds, RotationConstantsOK DEF Contents, RotationConstantsOK
  <2> QED BY <1>4, <1>5, <2>1, HeldNext
<1>11. Has(Receipts) => Has(Receipts)'
  <2>1. Content(Receipts)' = Content(Receipts)
        BY <1>4, <1>7 DEF Touches
  <2> QED BY <1>1, <1>4, <2>1, Held, HeldNext
<1>12. ASSUME NEW l, Safe(l) PROVE Safe(l)'
      BY <1>1, <1>4, <1>7, <1>11, <1>12, SafeTouched
<1>13. DOMAIN unsynced' = 1..Len(unsynced') /\ DOMAIN unsynced = 1..Len(unsynced) /\ Len(unsynced) \in Nat
      BY <1>1, <1>4, Changing, ChangingNext
<1>14. ASSUME NEW i \in HeadChanges' PROVE i > Len(unsynced) /\ unsynced'[i].was = disk[HEAD]
  <2>1. i \in DOMAIN unsynced' /\ unsynced'[i].entry = HEAD
        BY DEF HeadChanges
  <2>2. i \notin DOMAIN unsynced
        BY <1>4, <1>6, <1>13, <2>1 DEF Touches, HeadChanges
  <2> QED BY <1>4, <1>8, <1>13, <2>1, <2>2 DEF Touches
<1>15. Safe(Target)'
  <2>1. Safe(Target) /\ Target' = Target
        BY TargetIsSafe DEF Target
  <2>2. PICK l : l = Target
        OBVIOUS
  <2>3. Safe(l)'
        BY <1>12, <2>1, <2>2
  <2> QED BY <2>1, <2>2, <2>3
<1>16. Selected'
  <2>1. Target' = Target /\ disk'[HEAD].of = Target /\ disk'[HEAD].whole
        BY <1>1, <1>10, Kinds DEF Target
  <2>2. Safe(disk[HEAD].of)'
        BY <1>15, <2>1
  <2>3. ASSUME NEW i \in HeadChanges'
        PROVE  unsynced'[i].was # None /\ unsynced'[i].was.whole /\ Safe(unsynced[i].was.of)'
    <3>1. unsynced'[i].was = disk[HEAD] /\ disk[HEAD].whole /\ disk[HEAD].of = from
          BY <1>6, <1>14
    <3>2. disk[HEAD] # None
          BY <1>1, <1>6, <1>8, Held
    <3>3. PICK l : l = from
          OBVIOUS
    <3>4. Safe(l)'
          BY <1>6, <1>12, <3>3
    <3>5. unsynced'[i].was.of = l
          BY <3>1, <3>3
    <3> QED BY <3>1, <3>2, <3>4, <3>5
  <2> QED BY <1>10, <2>1, <2>2, <2>3 DEF Selected
<1>17. LedgersFollow'
  <2>1. HeadChanges' # {}
        BY <1>9, UnchangedNext
  <2> SUFFICES ASSUME NEW i \in DOMAIN unsynced', unsynced'[i].entry = Receipts
               PROVE  /\ unsynced'[i].was = None
                      /\ \A j \in HeadChanges' : i < j /\ unsynced'[j].was.of = Initial
      BY <2>1 DEF LedgersFollow
  <2>2. i \in DOMAIN unsynced
        BY <1>4, <1>7, <1>13 DEF Touches
  <2>3. unsynced'[i].was = None /\ disk[HEAD].of = Initial
    <3>1. unsynced'[i] = unsynced[i]
          BY <1>4, <1>13, <2>2 DEF Touches
    <3> QED BY <1>6, <2>2, <3>1 DEF Going, Core, LedgersFollow
  <2>4. ASSUME NEW j \in HeadChanges' PROVE i < j /\ unsynced'[j].was.of = Initial
    <3>1. j > Len(unsynced) /\ unsynced'[j].was = disk[HEAD] /\ j \in 1..Len(unsynced')
          BY <1>13, <1>14 DEF HeadChanges
    <3> QED BY <1>4, <1>13, <2>2, <2>3, <3>1, ChangingNext
  <2> QED BY <2>3, <2>4
<1>18. NoInitialLedger'
  <2>1. Content(Ledger(Initial))' = Content(Ledger(Initial))
        BY <1>4, <1>7 DEF Touches
  <2>2. Settled(Ledger(Initial))' <=> Settled(Ledger(Initial))
        BY <1>1, <1>4, <1>7, SettledTouched
  <2> QED BY <1>1, <1>4, <2>1, <2>2, Held, HeldNext DEF Going, Core, NoInitialLedger
<1> QED BY <1>4, <1>5, <1>16, <1>17, <1>18 DEF Core

\* Every other step leaves what HEAD depends on alone.
LEMMA SteppingKeepsCore ==
    ASSUME Going, Stepping, committed' = committed, from' = from, upto' = upto
    PROVE  Stored' /\ Core'
<1>1. from \in Seq(Nat) /\ upto \in Nat /\ Stored /\ Target # from /\ Target # Initial
      BY Targets DEF Going
<1>2. /\ Prepared \in Nat /\ Confirmed = Prepared + 16 /\ Switched = Prepared + 14
      /\ at \in 1..Len(Rotation) /\ Len(Rotation) \in Nat
      BY <1>1, Positions DEF Going
<1>3. Stored' /\ ((\E names : Touches(names) /\ Reaches(names)) \/ \E folders : Syncs(folders))
      BY <1>2, Reached
<1>4. CASE at = Prepared - 3
      BY <1>3, <1>4, EnsuringKeepsCore
<1>5. CASE at = Prepared + 14
      BY <1>3, <1>5, SwitchingKeepsCore
<1>6. CASE \E folders : Syncs(folders)
      BY <1>1, <1>3, <1>6, CoreSynced DEF Going
<1>7. CASE at # Prepared - 3 /\ at # Prepared + 14 /\ \E names : Touches(names) /\ Reaches(names)
  <2>1. PICK names : Touches(names) /\ Reaches(names)
        BY <1>7
  <2>2. HEAD \notin names /\ Receipts \notin names /\ Ledger(Initial) \notin names
        BY <1>1, <1>7, <2>1 DEF Reaches
  <2>3. ASSUME NEW l \in Selectable
        PROVE  Checkpoint(l) \notin names /\ Ledger(l) \notin names /\ Wal(l) \notin names
    <3>1. CASE at =< Prepared + 14
      <4>1. l = from
            BY <1>2, <2>3, <3>1 DEF Going, Lineage, Selectable
      <4>2. at # Prepared + 17 /\ at # Prepared + 18 /\ at # Prepared + 19
            BY <1>2, <3>1
      <4> QED BY <1>1, <2>1, <4>1, <4>2 DEF Reaches
    <3>2. CASE at > Prepared + 14 /\ at =< Prepared + 16
      <4>1. /\ at # Prepared + 1 /\ at # Prepared + 7 /\ at # Prepared + 17
            /\ at # Prepared + 18 /\ at # Prepared + 19
            BY <1>2, <3>2
      <4> QED BY <2>1, <4>1 DEF Reaches
    <3>3. CASE at > Prepared + 16
      <4>1. l = Target
            BY <1>2, <2>3, <3>3 DEF Going, Lineage, Selectable
      <4>2. at # Prepared + 1 /\ at # Prepared + 7
            BY <1>2, <3>3
      <4> QED BY <1>1, <2>1, <4>1, <4>2 DEF Reaches
    <3> QED BY <1>2, <3>1, <3>2, <3>3
  <2> QED BY <1>1, <1>3, <2>1, <2>2, <2>3, CoreTouched DEF Going
<1> QED BY <1>3, <1>4, <1>5, <1>6, <1>7

-------------------------------------------------------------------------------
(* A rotation that goes on *)

LEMMA Same ==
    ASSUME from \in Seq(Nat), upto \in Nat, from' = from, upto' = upto
    PROVE  /\ Prepared' = Prepared /\ Switched' = Switched /\ Confirmed' = Confirmed /\ Retired' = Retired
           /\ Len(Rotation)' = Len(Rotation) /\ Target' = Target
<1>1. /\ Prepared = 9 + (IF from = Initial THEN 0 ELSE 1) + (IF upto > Cut(from) THEN 3 ELSE 0)
      /\ Switched = Prepared + 14 /\ Confirmed = Prepared + 16
      /\ Retired = Prepared + 18 + (IF from = Initial THEN 0 ELSE 1)
      /\ Len(Rotation) = Retired + 9
      BY Placed
<1>2. /\ Prepared' = 9 + (IF from' = Initial THEN 0 ELSE 1) + (IF upto' > Cut(from') THEN 3 ELSE 0)
      /\ Switched' = Prepared' + 14 /\ Confirmed' = Prepared' + 16
      /\ Retired' = Prepared' + 18 + (IF from' = Initial THEN 0 ELSE 1)
      /\ Len(Rotation)' = Retired' + 9
      BY PlacedNext
<1>3. (IF from' = Initial THEN 0 ELSE 1) = (IF from = Initial THEN 0 ELSE 1)
      /\ (IF upto' > Cut(from') THEN 3 ELSE 0) = (IF upto > Cut(from) THEN 3 ELSE 0)
      OBVIOUS
<1>4. Prepared' = Prepared
      BY <1>1, <1>2, <1>3
<1>5. Switched' = Switched /\ Confirmed' = Confirmed /\ Retired' = Retired
      BY <1>1, <1>2, <1>3, <1>4
<1>6. Len(Rotation)' = Len(Rotation)
      BY <1>1, <1>2, <1>5
<1> QED BY <1>4, <1>5, <1>6 DEF Target

\* One step of a rotation that does not end with it.
Onward ==
    /\ Going /\ Stepping /\ Finishing
    /\ UNCHANGED <<committed, from, upto, outcome>> /\ at' = at + 1

LEMMA OnwardFacts ==
    ASSUME Onward
    PROVE  /\ Stored /\ Stored' /\ Core /\ Core' /\ Stepping /\ at \in 1..Len(Rotation) /\ at \in Nat
           /\ from \in Seq(Nat) /\ upto \in Nat /\ Target \in Seq(Nat) /\ Target # from /\ Target # Initial
           /\ from' = from /\ upto' = upto /\ committed' = committed /\ at' = at + 1
           /\ Prepared' = Prepared /\ Switched' = Switched /\ Confirmed' = Confirmed /\ Retired' = Retired
           /\ Target' = Target
<1>1. from \in Seq(Nat) /\ upto \in Nat /\ from' = from /\ upto' = upto /\ committed' = committed /\ Going /\ Stepping
      BY DEF Onward, Going
<1>2. Stored' /\ Core'
      BY <1>1, SteppingKeepsCore
<1>3. Len(Rotation) \in Nat
      BY <1>1, Positions
<1>4. at \in 1..Len(Rotation) /\ at \in Nat
      BY <1>3 DEF Onward, Going
<1> QED BY <1>1, <1>2, <1>4, Same, Targets DEF Onward, Going

LEMMA LineageGoesOn ==
    ASSUME Onward
    PROVE  Lineage'
<1>1. /\ Stored /\ Stored' /\ Core' /\ Stepping /\ at \in 1..Len(Rotation) /\ at \in Nat
      /\ from \in Seq(Nat) /\ upto \in Nat /\ Target \in Seq(Nat) /\ Target # from /\ Target # Initial
      /\ from' = from /\ upto' = upto /\ committed' = committed /\ at' = at + 1
      /\ Prepared' = Prepared /\ Switched' = Switched /\ Confirmed' = Confirmed /\ Retired' = Retired
      /\ Target' = Target
      BY OnwardFacts
<1>2. /\ Prepared \in Nat /\ Prepared >= 9 /\ Switched = Prepared + 14 /\ Confirmed = Prepared + 16
      /\ Retired \in Nat /\ Retired >= Prepared + 18 /\ Retired =< Prepared + 19
      /\ (from # Initial => Retired = Prepared + 19) /\ (from = Initial => Retired = Prepared + 18)
      BY <1>1, Positions
<1>3. Lineage
      BY DEF Onward, Going
<1>4. \A e : Spares(e) => Content(e)' = Content(e) /\ (Has(e)' <=> Has(e)) /\ (Settled(e) => Settled(e)')
      BY <1>1, Held, HeldNext DEF Spares
<1>5. at # Prepared + 14 => disk'[HEAD] = disk[HEAD] /\ (HeadChanges = {} => HeadChanges' = {})
  <2> SUFFICES ASSUME at # Prepared + 14 PROVE disk'[HEAD] = disk[HEAD] /\ (HeadChanges = {} => HeadChanges' = {})
      OBVIOUS
  <2>1. Spares(HEAD)
        BY <1>1, Spared
  <2>2. Content(HEAD)' = disk'[HEAD] /\ Content(HEAD) = disk[HEAD]
        BY <1>1 DEF Onward, Going, Core, Selected, Content
  <2> QED BY <1>4, <2>1, <2>2, Unchanged, UnchangedNext
<1>6. upto' = committed' /\ outcome' = "none"
      BY <1>1, <1>3 DEF Lineage, Onward
<1>7. at' =< Switched' => disk'[HEAD].of = from' /\ HeadChanges' = {}
  <2> SUFFICES ASSUME at + 1 =< Prepared + 14 PROVE disk'[HEAD].of = from /\ HeadChanges' = {}
      BY <1>1, <1>2
  <2>1. at # Prepared + 14 /\ at =< Switched
        BY <1>1, <1>2
  <2> QED BY <1>3, <1>5, <2>1 DEF Lineage
<1>8. at' > Switched' => disk'[HEAD].of = Target'
  <2> SUFFICES ASSUME at + 1 > Prepared + 14 PROVE disk'[HEAD].of = Target
      BY <1>1, <1>2
  <2>1. CASE at = Prepared + 14
    <3>1. Content(HEAD)' = Whole(Target)
          BY <1>1, <2>1, SwitchingKeepsCore DEF Onward
    <3>2. Content(HEAD)' = disk'[HEAD]
          BY <1>1 DEF Core, Selected, Content
    <3> QED BY <1>1, <3>1, <3>2, Kinds
  <2>2. CASE at # Prepared + 14
    <3>1. at > Switched
          BY <1>1, <1>2, <2>2
    <3> QED BY <1>3, <1>5, <2>2, <3>1 DEF Lineage
  <2> QED BY <2>1, <2>2
<1>9. at' > Confirmed' => HeadChanges' = {}
  <2> SUFFICES ASSUME at + 1 > Prepared + 16 PROVE HeadChanges' = {}
      BY <1>1, <1>2
  <2>1. CASE at = Prepared + 16
    <3>1. Current = Sync("store")
          BY <1>1, <2>1, Activation
    <3>2. Syncs({"store"})
          BY <1>1, <3>1, Sweeping
    <3>3. Synced("store")'
          BY <1>1, <3>2, Surviving
    <3> QED BY <1>1, <3>3, FoldersOf DEF Synced, HeadChanges, Stored
  <2>2. CASE at # Prepared + 16
    <3>1. at > Confirmed /\ at # Prepared + 14
          BY <1>1, <1>2, <2>2
    <3> QED BY <1>3, <1>5, <3>1 DEF Lineage
  <2> QED BY <2>1, <2>2
<1>10. at' =< Confirmed' + 1 => Synced("wal")'
  <2> SUFFICES ASSUME at + 1 =< Prepared + 17 PROVE Synced("wal")'
      BY <1>1, <1>2
  <2>1. at # Prepared + 17 /\ at =< Confirmed + 1
        BY <1>1, <1>2
  <2> QED BY <1>1, <1>3, <2>1, Spared DEF Lineage
<1>11. at' =< Confirmed' => Safe(from)'
  <2> SUFFICES ASSUME at + 1 =< Prepared + 16 PROVE Safe(from)'
      BY <1>1, <1>2
  <2>1. at # Prepared + 17 /\ at # Prepared + 18 /\ at # Prepared + 19 /\ at =< Confirmed
        BY <1>1, <1>2
  <2>2. Safe(from)
        BY <1>3, <2>1 DEF Lineage
  <2>3. Spares(Checkpoint(from)) /\ Spares(Ledger(from)) /\ Spares(Wal(from))
        BY <1>1, <2>1, Spared
  <2>4. Has(Receipts) => Has(Receipts)'
    <3>1. CASE at = Prepared - 3
      <4>1. Current = Do("ensure", Receipts)
            BY <1>1, <3>1, Preparation
      <4> QED BY <1>1, <4>1, Building, Entries
    <3>2. CASE at # Prepared - 3
      <4>1. Spares(Receipts)
            BY <1>1, <3>2, Spared
      <4> QED BY <1>4, <4>1
    <3> QED BY <3>1, <3>2
  <2>5. /\ Content(Checkpoint(from))' = Content(Checkpoint(from)) /\ Content(Ledger(from))' = Content(Ledger(from))
        /\ Content(Wal(from))' = Content(Wal(from))
        /\ Settled(Checkpoint(from))' /\ Settled(Ledger(from))' /\ Settled(Wal(from))'
        BY <1>1, <1>4, <2>2, <2>3 DEF Safe
  <2> QED BY <1>1, <2>2, <2>4, <2>5 DEF Safe
<1>12. at' =< Confirmed' + 2 => Content(Checkpoint(from))' = Whole(from)'
  <2> SUFFICES ASSUME at + 1 =< Prepared + 18 PROVE Content(Checkpoint(from))' = Whole(from)'
      BY <1>1, <1>2
  <2>1. at # Prepared + 18 /\ at =< Confirmed + 2
        BY <1>1, <1>2
  <2>2. Spares(Checkpoint(from)) /\ Content(Checkpoint(from)) = Whole(from)
        BY <1>1, <1>3, <2>1, Spared DEF Lineage
  <2> QED BY <1>1, <2>2 DEF Spares, Whole
<1>13. at' =< Retired' /\ from' # Initial => Has(Ledger(from))'
  <2> SUFFICES ASSUME at + 1 =< Retired, from # Initial PROVE Has(Ledger(from))'
      BY <1>1
  <2>1. at # Prepared + 19 /\ at =< Retired
        BY <1>1, <1>2
  <2>2. Spares(Ledger(from)) /\ Has(Ledger(from))
        BY <1>1, <1>3, <2>1, Spared DEF Lineage
  <2> QED BY <1>1, <1>4, <2>2
<1>14. at' > Confirmed' + 1 => ~Has(Wal(from))'
  <2> SUFFICES ASSUME at + 1 > Prepared + 17 PROVE ~Has(Wal(from))'
      BY <1>1, <1>2
  <2>1. CASE at = Prepared + 17
    <3>1. Current = Do("discard", Wal(from))
          BY <1>1, <2>1, Retirement
    <3>2. Content(Wal(from))' = None
          BY <1>1, <3>1, Building, Entries
    <3> QED BY <1>1, <3>2, HeldNext
  <2>2. CASE at # Prepared + 17
    <3>1. at > Confirmed + 1
          BY <1>1, <1>2, <2>2
    <3>2. Spares(Wal(from)) /\ ~Has(Wal(from))
          BY <1>1, <1>3, <2>2, <3>1, Spared DEF Lineage
    <3> QED BY <1>1, <1>4, <3>2
  <2> QED BY <2>1, <2>2
<1>15. at' > Confirmed' + 2 => ~Has(Checkpoint(from))'
  <2> SUFFICES ASSUME at + 1 > Prepared + 18 PROVE ~Has(Checkpoint(from))'
      BY <1>1, <1>2
  <2>1. CASE at = Prepared + 18
    <3>1. Current = Do("remove", Checkpoint(from))
          BY <1>1, <2>1, Retirement
    <3>2. Content(Checkpoint(from))' = None
          BY <1>1, <3>1, Building, Entries
    <3> QED BY <1>1, <3>2, HeldNext
  <2>2. CASE at # Prepared + 18
    <3>1. at > Confirmed + 2
          BY <1>1, <1>2, <2>2
    <3>2. Spares(Checkpoint(from)) /\ ~Has(Checkpoint(from))
          BY <1>1, <1>3, <2>2, <3>1, Spared, <1>2 DEF Lineage
    <3> QED BY <1>1, <1>4, <3>2
  <2> QED BY <2>1, <2>2
<1>16. at' > Retired' => ~Has(Ledger(from))'
  <2> SUFFICES ASSUME at + 1 > Retired PROVE ~Has(Ledger(from))'
      BY <1>1
  <2>1. CASE from = Initial
        BY <1>1, <2>1 DEF Core, NoInitialLedger
  <2>2. CASE from # Initial /\ at = Retired
    <3>1. Current = Do("remove", Ledger(from))
          BY <1>1, <1>2, <2>2, Retirement
    <3>2. Content(Ledger(from))' = None
          BY <1>1, <3>1, Building, Entries
    <3> QED BY <1>1, <3>2, HeldNext
  <2>3. CASE from # Initial /\ at # Retired
    <3>1. at > Retired /\ at # Prepared + 19 /\ at # Prepared + 1
          BY <1>1, <1>2, <2>3
    <3>2. Spares(Ledger(from)) /\ ~Has(Ledger(from))
          BY <1>1, <1>3, <3>1, Spared DEF Lineage
    <3> QED BY <1>1, <1>4, <3>2
  <2> QED BY <2>1, <2>2, <2>3
<1> QED BY <1>6, <1>7, <1>8, <1>9, <1>10, <1>11, <1>12, <1>13, <1>14, <1>15, <1>16 DEF Lineage

LEMMA ScratchGoesOn ==
    ASSUME Onward
    PROVE  Scratch'
<1>1. /\ Stored /\ Stored' /\ Stepping /\ at \in 1..Len(Rotation) /\ at \in Nat
      /\ from \in Seq(Nat) /\ upto \in Nat /\ at' = at + 1
      /\ Prepared' = Prepared /\ Retired' = Retired /\ Target' = Target
      BY OnwardFacts
<1>2. Prepared \in Nat /\ Prepared >= 9 /\ Retired \in Nat /\ Retired >= Prepared + 18
      BY <1>1, Positions
<1>3. Scratch
      BY DEF Onward, Going
<1>4. \A e : Spares(e) => Content(e)' = Content(e) /\ (Has(e)' <=> Has(e))
      BY <1>1, Held, HeldNext DEF Spares
<1>5. \A e : Content(e)' = None => ~Has(e)'
      BY <1>1, HeldNext
<1>6. at' \in 2..(Prepared' - 2) => ~Has(LedgerCandidate)'
  <2> SUFFICES ASSUME at + 1 \in 2..(Prepared - 2) PROVE ~Has(LedgerCandidate)'
      BY <1>1
  <2>1. CASE at = 1
        BY <1>1, <1>5, <2>1, Preparation, Sweeping
  <2>2. CASE at # 1
    <3>1. at \in 2..(Prepared - 2) /\ at \notin {1, Prepared - 2, Prepared - 1, Prepared + 1, Retired + 1}
          BY <1>1, <1>2, <2>2
    <3>2. Spares(LedgerCandidate) /\ ~Has(LedgerCandidate)
          BY <1>1, <1>3, <3>1, Spared DEF Scratch
    <3> QED BY <1>4, <3>2
  <2> QED BY <2>1, <2>2
<1>7. at' \in Prepared'..(Prepared' + 1) => Content(LedgerCandidate)' = Whole(Target)'
  <2> SUFFICES ASSUME at + 1 \in Prepared..(Prepared + 1) PROVE Content(LedgerCandidate)' = Whole(Target)
      BY <1>1 DEF Whole
  <2>1. CASE at = Prepared - 1
        BY <1>1, <2>1, Preparation, Building, Entries
  <2>2. CASE at # Prepared - 1
    <3>1. at \in Prepared..(Prepared + 1) /\ at \notin {1, Prepared - 2, Prepared - 1, Prepared + 1, Retired + 1}
          BY <1>1, <1>2, <2>2
    <3>2. Spares(LedgerCandidate) /\ Content(LedgerCandidate) = Whole(Target)
          BY <1>1, <1>3, <3>1, Spared DEF Scratch
    <3> QED BY <1>4, <3>2
  <2> QED BY <2>1, <2>2
<1>8. at' \in 3..(Prepared' + 4) => ~Has(CheckpointCandidate)'
  <2> SUFFICES ASSUME at + 1 \in 3..(Prepared + 4) PROVE ~Has(CheckpointCandidate)'
      BY <1>1
  <2>1. CASE at = 2
        BY <1>1, <1>5, <2>1, Preparation, Sweeping
  <2>2. CASE at # 2
    <3>1. at \in 3..(Prepared + 4) /\ at \notin {2, Prepared + 4, Prepared + 5, Prepared + 7, Retired + 2}
          BY <1>1, <1>2, <2>2
    <3>2. Spares(CheckpointCandidate) /\ ~Has(CheckpointCandidate)
          BY <1>1, <1>3, <3>1, Spared DEF Scratch
    <3> QED BY <1>4, <3>2
  <2> QED BY <2>1, <2>2
<1>9. at' \in (Prepared' + 6)..(Prepared' + 7) => Content(CheckpointCandidate)' = Whole(Target)'
  <2> SUFFICES ASSUME at + 1 \in (Prepared + 6)..(Prepared + 7) PROVE Content(CheckpointCandidate)' = Whole(Target)
      BY <1>1 DEF Whole
  <2>1. CASE at = Prepared + 5
        BY <1>1, <2>1, Activation, Building, Entries
  <2>2. CASE at # Prepared + 5
    <3>1. at \in (Prepared + 6)..(Prepared + 7)
          /\ at \notin {2, Prepared + 4, Prepared + 5, Prepared + 7, Retired + 2}
          BY <1>1, <1>2, <2>2
    <3>2. Spares(CheckpointCandidate) /\ Content(CheckpointCandidate) = Whole(Target)
          BY <1>1, <1>3, <3>1, Spared DEF Scratch
    <3> QED BY <1>4, <3>2
  <2> QED BY <2>1, <2>2
<1>10. at' \in 4..(Prepared' + 10) => ~Has(HeadCandidate)'
  <2> SUFFICES ASSUME at + 1 \in 4..(Prepared + 10) PROVE ~Has(HeadCandidate)'
      BY <1>1
  <2>1. CASE at = 3
        BY <1>1, <1>5, <2>1, Preparation, Sweeping
  <2>2. CASE at # 3
    <3>1. at \in 4..(Prepared + 10) /\ at \notin {3, Prepared + 10, Prepared + 11, Prepared + 14, Retired + 3}
          BY <1>1, <1>2, <2>2
    <3>2. Spares(HeadCandidate) /\ ~Has(HeadCandidate)
          BY <1>1, <1>3, <3>1, Spared DEF Scratch
    <3> QED BY <1>4, <3>2
  <2> QED BY <2>1, <2>2
<1>11. at' \in (Prepared' + 12)..(Prepared' + 14) => Content(HeadCandidate)' = Whole(Target)'
  <2> SUFFICES ASSUME at + 1 \in (Prepared + 12)..(Prepared + 14) PROVE Content(HeadCandidate)' = Whole(Target)
      BY <1>1 DEF Whole
  <2>1. CASE at = Prepared + 11
        BY <1>1, <2>1, Activation, Building, Entries
  <2>2. CASE at # Prepared + 11
    <3>1. at \in (Prepared + 12)..(Prepared + 14)
          /\ at \notin {3, Prepared + 10, Prepared + 11, Prepared + 14, Retired + 3}
          BY <1>1, <1>2, <2>2
    <3>2. Spares(HeadCandidate) /\ Content(HeadCandidate) = Whole(Target)
          BY <1>1, <1>3, <3>1, Spared DEF Scratch
    <3> QED BY <1>4, <3>2
  <2> QED BY <2>1, <2>2
<1>12. at' \in 5..(Prepared' - 5) => ~Has(Runs)'
  <2> SUFFICES ASSUME at + 1 \in 5..(Prepared - 5) PROVE ~Has(Runs)'
      BY <1>1
  <2>1. CASE at = 4
        BY <1>1, <1>5, <2>1, Preparation, Sweeping
  <2>2. CASE at # 4
    <3>1. at \in 5..(Prepared - 5) /\ at \notin {4, Prepared - 5, Prepared - 4, Prepared, Retired + 4}
          BY <1>1, <1>2, <2>2
    <3>2. Spares(Runs) /\ ~Has(Runs)
          BY <1>1, <1>3, <3>1, Spared DEF Scratch
    <3> QED BY <1>4, <3>2
  <2> QED BY <2>1, <2>2
<1> QED BY <1>6, <1>7, <1>8, <1>9, <1>10, <1>11, <1>12 DEF Scratch

LEMMA InstalledGoesOn ==
    ASSUME Onward
    PROVE  Installed'
<1>1. /\ Stored /\ Stored' /\ Stepping /\ at \in 1..Len(Rotation) /\ at \in Nat
      /\ from \in Seq(Nat) /\ upto \in Nat /\ Target \in Seq(Nat) /\ Target # from /\ at' = at + 1
      /\ Prepared' = Prepared /\ Target' = Target
      BY OnwardFacts
<1>2. Prepared \in Nat /\ Prepared >= 9
      BY <1>1, Positions
<1>3. Installed /\ Scratch
      BY DEF Onward, Going
<1>4. \A e : Spares(e) => Content(e)' = Content(e) /\ (Has(e)' <=> Has(e)) /\ (Settled(e) => Settled(e)')
      BY <1>1, Held, HeldNext DEF Spares
<1>5. at' > Prepared' - 3 => Has(Receipts)'
  <2> SUFFICES ASSUME at + 1 > Prepared - 3 PROVE Has(Receipts)'
      BY <1>1
  <2>1. CASE at = Prepared - 3
        BY <1>1, <2>1, Preparation, Building, Entries
  <2>2. CASE at # Prepared - 3
    <3>1. at > Prepared - 3
          BY <1>1, <1>2, <2>2
    <3>2. Spares(Receipts) /\ Has(Receipts)
          BY <1>1, <1>3, <2>2, <3>1, Spared DEF Installed
    <3> QED BY <1>4, <3>2
  <2> QED BY <2>1, <2>2
<1>6. at' > Prepared' + 1 => Content(Ledger(Target))' = Whole(Target)'
  <2> SUFFICES ASSUME at + 1 > Prepared + 1 PROVE Content(Ledger(Target))' = Whole(Target)
      BY <1>1 DEF Whole
  <2>1. CASE at = Prepared + 1
    <3>1. Current = Move(LedgerCandidate, Ledger(Target))
          BY <1>1, <2>1, Activation
    <3>2. Content(LedgerCandidate) = Whole(Target)
          BY <1>2, <1>3, <2>1 DEF Scratch
    <3>3. LedgerCandidate \in Names /\ Ledger(Target) \in Names
          BY <1>1, Entries
    <3>4. PICK e : e = Ledger(Target)
          OBVIOUS
    <3>5. Content(e)' = Content(LedgerCandidate)
          BY <1>1, <3>1, <3>3, <3>4, Installing, Differ
    <3> QED BY <1>1, <3>2, <3>4, <3>5
  <2>2. CASE at # Prepared + 1
    <3>1. at > Prepared + 1
          BY <1>1, <1>2, <2>2
    <3>2. Spares(Ledger(Target)) /\ Content(Ledger(Target)) = Whole(Target)
          BY <1>1, <1>3, <2>2, <3>1, Spared DEF Installed
    <3> QED BY <1>1, <1>4, <3>2
  <2> QED BY <2>1, <2>2
<1>7. at' > Prepared' + 3 => Settled(Ledger(Target))'
  <2> SUFFICES ASSUME at + 1 > Prepared + 3 PROVE Settled(Ledger(Target))'
      BY <1>1
  <2>1. CASE at = Prepared + 3
    <3>1. Current = Sync("receipts")
          BY <1>1, <2>1, Activation
    <3>2. Synced("receipts")'
          BY <1>1, <3>1, Sweeping, Surviving
    <3>3. PICK e : e = Ledger(Target)
          OBVIOUS
    <3>4. Folder(e) = "receipts"
          BY <3>3, FoldersOf
    <3>5. Settled(e)'
          BY <1>1, <3>2, <3>4 DEF Stored, Synced, Settled
    <3> QED BY <1>1, <3>3, <3>5
  <2>2. CASE at # Prepared + 3
    <3>1. at > Prepared + 3 /\ at # Prepared + 1
          BY <1>1, <1>2, <2>2
    <3>2. Spares(Ledger(Target)) /\ Settled(Ledger(Target))
          BY <1>1, <1>3, <3>1, Spared DEF Installed
    <3> QED BY <1>1, <1>4, <3>2
  <2> QED BY <2>1, <2>2
<1>8. at' > Prepared' + 7 => Content(Checkpoint(Target))' = Whole(Target)'
  <2> SUFFICES ASSUME at + 1 > Prepared + 7 PROVE Content(Checkpoint(Target))' = Whole(Target)
      BY <1>1 DEF Whole
  <2>1. CASE at = Prepared + 7
    <3>1. Current = Move(CheckpointCandidate, Checkpoint(Target))
          BY <1>1, <2>1, Activation
    <3>2. Content(CheckpointCandidate) = Whole(Target)
          BY <1>2, <1>3, <2>1 DEF Scratch
    <3>3. CheckpointCandidate \in Names /\ Checkpoint(Target) \in Names
          BY <1>1, Entries
    <3>4. PICK e : e = Checkpoint(Target)
          OBVIOUS
    <3>5. Content(e)' = Content(CheckpointCandidate)
          BY <1>1, <3>1, <3>3, <3>4, Installing, Differ
    <3> QED BY <1>1, <3>2, <3>4, <3>5
  <2>2. CASE at # Prepared + 7
    <3>1. at > Prepared + 7
          BY <1>1, <1>2, <2>2
    <3>2. Spares(Checkpoint(Target)) /\ Content(Checkpoint(Target)) = Whole(Target)
          BY <1>1, <1>3, <2>2, <3>1, Spared DEF Installed
    <3> QED BY <1>1, <1>4, <3>2
  <2> QED BY <2>1, <2>2
<1>9. at' > Prepared' + 9 => Settled(Checkpoint(Target))'
  <2> SUFFICES ASSUME at + 1 > Prepared + 9 PROVE Settled(Checkpoint(Target))'
      BY <1>1
  <2>1. CASE at = Prepared + 9
    <3>1. Current = Sync("checkpoints")
          BY <1>1, <2>1, Activation
    <3>2. Synced("checkpoints")'
          BY <1>1, <3>1, Sweeping, Surviving
    <3>3. PICK e : e = Checkpoint(Target)
          OBVIOUS
    <3>4. Folder(e) = "checkpoints"
          BY <3>3, FoldersOf
    <3>5. Settled(e)'
          BY <1>1, <3>2, <3>4 DEF Stored, Synced, Settled
    <3> QED BY <1>1, <3>3, <3>5
  <2>2. CASE at # Prepared + 9
    <3>1. at > Prepared + 9 /\ at # Prepared + 7
          BY <1>1, <1>2, <2>2
    <3>2. Spares(Checkpoint(Target)) /\ Settled(Checkpoint(Target))
          BY <1>1, <1>3, <3>1, Spared DEF Installed
    <3> QED BY <1>1, <1>4, <3>2
  <2> QED BY <2>1, <2>2
<1> QED BY <1>5, <1>6, <1>7, <1>8, <1>9 DEF Installed

LEMMA FinishingGoesOn ==
    ASSUME Onward
    PROVE  Finishing'
<1>1. /\ Stored /\ Stored' /\ Stepping /\ at \in 1..Len(Rotation) /\ at \in Nat
      /\ from \in Seq(Nat) /\ upto \in Nat /\ at' = at + 1 /\ Retired' = Retired
      BY OnwardFacts
<1>2. Retired \in Nat /\ Len(Rotation) = Retired + 9
      BY <1>1, Positions
<1>3. Finishing
      BY DEF Onward
<1>4. /\ at = Retired + 5 => Synced(".private")'
      /\ at = Retired + 6 => Synced("wal")'
      /\ at = Retired + 7 => Synced("checkpoints")'
      /\ at = Retired + 8 => Synced("receipts")'
  <2>1. \A folder : Current = Sync(folder) => Synced(folder)'
        BY <1>1, Sweeping, Surviving
  <2> QED BY <1>1, <2>1, Retirement
<1>5. at > Retired + 5 => \A folder : Synced(folder) => Synced(folder)'
  <2> SUFFICES ASSUME at > Retired + 5 PROVE \A folder : Synced(folder) => Synced(folder)'
      OBVIOUS
  <2>1. at = Retired + 6 \/ at = Retired + 7 \/ at = Retired + 8 \/ at = Retired + 9
        BY <1>1, <1>2
  <2>2. \E folder : Current = Sync(folder)
        BY <1>1, <2>1, Retirement
  <2> QED BY <1>1, <2>2, Sweeping, Surviving
<1>6. /\ at + 1 > Retired + 5 => Synced(".private")'
      /\ at + 1 > Retired + 6 => Synced("wal")'
      /\ at + 1 > Retired + 7 => Synced("checkpoints")'
      /\ at + 1 > Retired + 8 => Synced("receipts")'
  <2>1. /\ at > Retired + 5 => Synced(".private")
        /\ at > Retired + 6 => Synced("wal")
        /\ at > Retired + 7 => Synced("checkpoints")
        /\ at > Retired + 8 => Synced("receipts")
        BY <1>3 DEF Finishing
  <2>2. at \in Nat /\ Retired \in Nat
        BY <1>1, <1>2
  <2>3. /\ at + 1 > Retired + 5 => at = Retired + 5 \/ at > Retired + 5
        /\ at + 1 > Retired + 6 => at = Retired + 6 \/ (at > Retired + 6 /\ at > Retired + 5)
        /\ at + 1 > Retired + 7 => at = Retired + 7 \/ (at > Retired + 7 /\ at > Retired + 5)
        /\ at + 1 > Retired + 8 => at = Retired + 8 \/ (at > Retired + 8 /\ at > Retired + 5)
        BY <2>2
  <2>4. at + 1 > Retired + 5 => Synced(".private")'
        BY <1>4, <1>5, <2>1, <2>3, Zenon
  <2>5. at + 1 > Retired + 6 => Synced("wal")'
        BY <1>4, <1>5, <2>1, <2>3, Zenon
  <2>6. at + 1 > Retired + 7 => Synced("checkpoints")'
        BY <1>4, <1>5, <2>1, <2>3, Zenon
  <2>7. at + 1 > Retired + 8 => Synced("receipts")'
        BY <1>4, <1>5, <2>1, <2>3, Zenon
  <2> QED BY <2>4, <2>5, <2>6, <2>7
<1> QED BY <1>1, <1>6 DEF Finishing

-------------------------------------------------------------------------------
(* The steps of a rotation preserve the invariant *)

LEMMA RunningFacts ==
    ASSUME Recoverable, Running
    PROVE  Going /\ Finishing /\ at \in Nat /\ Len(Rotation) \in Nat
<1>1. from \in Seq(Nat) /\ upto \in Nat /\ committed \in Nat /\ at \in 0..Len(Rotation) /\ Stored
      BY DEF Recoverable, TypeOK, Stored
<1>2. Len(Rotation) \in Nat
      BY <1>1, Positions
<1>3. at \in 1..Len(Rotation) /\ at \in Nat
      BY <1>1, <1>2 DEF Running
<1> QED BY <1>1, <1>2, <1>3 DEF Recoverable, Going, Core

\* Nothing that earlier attempts left stops a rotation.
LEMMA NothingInTheWay ==
    ASSUME Recoverable, Running
    PROVE  Succeeds(Current)
<1>1. Going /\ at \in Nat /\ Stored /\ from \in Seq(Nat) /\ upto \in Nat /\ at \in 1..Len(Rotation)
      BY RunningFacts DEF Going
<1>2. /\ Prepared \in Nat /\ Prepared >= 9 /\ Confirmed = Prepared + 16 /\ Retired \in Nat
      /\ Retired >= Prepared + 18 /\ Retired =< Prepared + 19 /\ Len(Rotation) = Retired + 9
      /\ (from # Initial => Retired = Prepared + 19) /\ (from = Initial => Retired = Prepared + 18)
      /\ (upto > Cut(from) => Prepared >= 12)
      BY <1>1, Positions
<1>3. Lineage /\ Scratch /\ Installed
      BY <1>1 DEF Going
<1>4. /\ \A e : Succeeds(Do("discard", e)) /\ Succeeds(Do("ensure", e)) /\ Succeeds(Do("fill", e))
      /\ \A e : ~Has(e) => Succeeds(Do("make", e))
      /\ \A e : Has(e) => Succeeds(Do("remove", e))
      /\ \A e : Has(e) /\ disk[e].whole => Succeeds(Do("verify", e))
      /\ \A e, x : Has(x) /\ Folder(e) # "receipts" => Succeeds(Move(x, e))
      /\ \A e, x : Has(x) /\ Has(Receipts) => Succeeds(Move(x, e))
      BY DEF Succeeds, Do, Move
<1>5. /\ Succeeds(Sync(".private")) /\ Succeeds(Sync("wal")) /\ Succeeds(Sync("checkpoints"))
      /\ Succeeds(Sync("store")) /\ (Has(Receipts) => Succeeds(Sync("receipts")))
      BY Tags DEF Succeeds, Sync
<1>6. \A e : \A l \in Seq(Nat) : Content(e) = Whole(l) => Has(e) /\ disk[e].whole
  <2> SUFFICES ASSUME NEW e, NEW l \in Seq(Nat), Content(e) = Whole(l) PROVE Has(e) /\ disk[e].whole
      OBVIOUS
  <2>1. Whole(l) \in Contents /\ Whole(l).whole /\ None \notin Contents
        BY Kinds, RotationConstantsOK DEF Contents, RotationConstantsOK
  <2> QED BY <1>1, <2>1, Held
<1>7. Target \in Seq(Nat)
      BY <1>1, Targets
<1>8. CASE at \in 1..5
  <2>1. at = 1 \/ at = 2 \/ at = 3 \/ at = 4 \/ at = 5
        BY <1>8
  <2> QED BY <1>1, <1>4, <1>5, <2>1, Preparation, Zenon
<1>9. ASSUME from # Initial, at = 6 PROVE Succeeds(Current)
  <2>1. Safe(from)
        BY <1>2, <1>3, <1>9 DEF Lineage
  <2>2. Content(Ledger(from)) = Whole(from)
        BY <1>9, <2>1 DEF Safe
  <2> QED BY <1>1, <1>4, <1>6, <1>9, <2>2, Preparation
<1>10. ASSUME upto > Cut(from), at = Prepared - 6 PROVE Succeeds(Current)
  <2>1. Safe(from) /\ upto = committed
        BY <1>2, <1>3, <1>10 DEF Lineage
  <2>2. Content(Wal(from)) = Whole(from)
    <3>1. from = Initial \/ Cut(from) \in Nat
          BY <1>1 DEF Cut, Initial
    <3>2. Cut(from) < committed
      <4>1. Cut(from) \in Nat
            BY <3>1 DEF Cut
      <4> QED BY <1>1, <1>10, <2>1, <4>1
    <3> QED BY <2>1, <3>2 DEF Safe
  <2> QED BY <1>1, <1>4, <1>6, <1>10, <2>2, Preparation
<1>11. ASSUME upto > Cut(from), at = Prepared - 5 PROVE Succeeds(Current)
  <2>1. ~Has(Runs)
        BY <1>2, <1>3, <1>11 DEF Scratch
  <2> QED BY <1>1, <1>4, <1>11, <2>1, Preparation
<1>12. ASSUME upto > Cut(from), at = Prepared - 4 PROVE Succeeds(Current)
      BY <1>1, <1>4, <1>12, Preparation, Zenon
<1>13. at = Prepared - 3 \/ at = Prepared - 1 \/ at = Prepared => Succeeds(Current)
      BY <1>1, <1>4, Preparation, Zenon
<1>14. ASSUME at = Prepared - 2 PROVE Succeeds(Current)
  <2>1. ~Has(LedgerCandidate)
        BY <1>2, <1>3, <1>14 DEF Scratch
  <2> QED BY <1>1, <1>4, <1>14, <2>1, Preparation
<1>15. CASE at \in 6..Prepared
  <2>1. \/ from # Initial /\ at = 6
        \/ upto > Cut(from) /\ at = Prepared - 6
        \/ upto > Cut(from) /\ at = Prepared - 5
        \/ upto > Cut(from) /\ at = Prepared - 4
        \/ at = Prepared - 3 \/ at = Prepared - 2 \/ at = Prepared - 1 \/ at = Prepared
    <3>1. Prepared = 9 + Verifying + Sorting
          BY <1>1, Lengths DEF Verifying, Sorting
    <3>2. /\ Verifying \in {0, 1} /\ (Verifying = 1 => from # Initial)
          /\ Sorting \in {0, 3} /\ (Sorting = 3 => upto > Cut(from))
          BY DEF Verifying, Sorting
    <3> QED BY <1>2, <1>15, <3>1, <3>2
  <2> QED BY <1>9, <1>10, <1>11, <1>12, <1>13, <1>14, <2>1, Zenon
<1>16. ASSUME at = Prepared + 1 PROVE Succeeds(Current)
  <2>1. Content(LedgerCandidate) = Whole(Target) /\ Has(Receipts)
        BY <1>2, <1>3, <1>16 DEF Scratch, Installed
  <2> QED BY <1>1, <1>4, <1>6, <1>7, <1>16, <2>1, Activation
<1>17. ASSUME at = Prepared + 2 PROVE Succeeds(Current)
  <2>1. Content(Ledger(Target)) = Whole(Target)
        BY <1>2, <1>3, <1>17 DEF Installed
  <2> QED BY <1>1, <1>4, <1>6, <1>7, <1>17, <2>1, Activation
<1>18. ASSUME at = Prepared + 3 PROVE Succeeds(Current)
  <2>1. Has(Receipts)
        BY <1>2, <1>3, <1>18 DEF Installed
  <2> QED BY <1>1, <1>5, <1>18, <2>1, Activation
<1>19. ASSUME at = Prepared + 4 PROVE Succeeds(Current)
  <2>1. ~Has(CheckpointCandidate)
        BY <1>2, <1>3, <1>19 DEF Scratch
  <2> QED BY <1>1, <1>4, <1>19, <2>1, Activation
<1>20. ASSUME at = Prepared + 7 PROVE Succeeds(Current)
  <2>1. Content(CheckpointCandidate) = Whole(Target)
        BY <1>2, <1>3, <1>20 DEF Scratch
  <2>2. Has(CheckpointCandidate) /\ Folder(Checkpoint(Target)) # "receipts"
        BY <1>6, <1>7, <2>1, FoldersOf
  <2> QED BY <1>1, <1>4, <1>20, <2>2, Activation
<1>21. ASSUME at = Prepared + 8 PROVE Succeeds(Current)
  <2>1. Content(Checkpoint(Target)) = Whole(Target)
        BY <1>2, <1>3, <1>21 DEF Installed
  <2> QED BY <1>1, <1>4, <1>6, <1>7, <1>21, <2>1, Activation
<1>22. ASSUME at = Prepared + 10 PROVE Succeeds(Current)
  <2>1. ~Has(HeadCandidate)
        BY <1>2, <1>3, <1>22 DEF Scratch
  <2> QED BY <1>1, <1>4, <1>22, <2>1, Activation
<1>23. ASSUME at = Prepared + 13 PROVE Succeeds(Current)
  <2>1. Content(HeadCandidate) = Whole(Target)
        BY <1>2, <1>3, <1>23 DEF Scratch
  <2> QED BY <1>1, <1>4, <1>6, <1>7, <1>23, <2>1, Activation
<1>24. ASSUME at = Prepared + 14 PROVE Succeeds(Current)
  <2>1. Content(HeadCandidate) = Whole(Target)
        BY <1>2, <1>3, <1>24 DEF Scratch
  <2>2. Has(HeadCandidate) /\ Folder(HEAD) # "receipts"
        BY <1>6, <1>7, <2>1, FoldersOf
  <2> QED BY <1>1, <1>4, <1>24, <2>2, Activation
<1>25. at = Prepared + 5 \/ at = Prepared + 6 \/ at = Prepared + 9 \/ at = Prepared + 11 \/ at = Prepared + 12
       \/ at = Prepared + 15 \/ at = Prepared + 16 => Succeeds(Current)
      BY <1>1, <1>4, <1>5, Activation, Zenon
<1>26. CASE at \in (Prepared + 1)..(Prepared + 16)
  <2> DEFINE k == at - Prepared
  <2>1. k \in 1..16 /\ at = Prepared + k
        BY <1>2, <1>26
  <2> HIDE DEF k
  <2>2. \/ k = 1 \/ k = 2 \/ k = 3 \/ k = 4 \/ k = 5 \/ k = 6 \/ k = 7 \/ k = 8
        \/ k = 9 \/ k = 10 \/ k = 11 \/ k = 12 \/ k = 13 \/ k = 14 \/ k = 15 \/ k = 16
        BY <2>1
  <2> QED BY <1>16, <1>17, <1>18, <1>19, <1>20, <1>21, <1>22, <1>23, <1>24, <1>25, <2>1, <2>2, Zenon
<1>27. CASE at \in (Prepared + 17)..Retired
  <2>1. at = Prepared + 17 \/ at = Prepared + 18 \/ (at = Prepared + 19 /\ from # Initial)
        BY <1>2, <1>27
  <2>2. at = Prepared + 17 => Succeeds(Current)
        BY <1>1, <1>4, Retirement, Zenon
  <2>3. ASSUME at = Prepared + 18 PROVE Succeeds(Current)
    <3>1. Content(Checkpoint(from)) = Whole(from)
          BY <1>2, <1>3, <2>3 DEF Lineage
    <3> QED BY <1>1, <1>4, <1>6, <2>3, <3>1, Retirement
  <2>4. ASSUME at = Prepared + 19, from # Initial PROVE Succeeds(Current)
    <3>1. Has(Ledger(from))
          BY <1>2, <1>3, <2>4 DEF Lineage
    <3> QED BY <1>1, <1>4, <2>4, <3>1, Retirement
  <2> QED BY <2>1, <2>2, <2>3, <2>4
<1>28. CASE at \in (Retired + 1)..(Retired + 9)
  <2>1. \/ at = Retired + 1 \/ at = Retired + 2 \/ at = Retired + 3 \/ at = Retired + 4 \/ at = Retired + 5
        \/ at = Retired + 6 \/ at = Retired + 7 \/ at = Retired + 8 \/ at = Retired + 9
        BY <1>2, <1>28
  <2>2. Has(Receipts)
        BY <1>2, <1>3, <1>28 DEF Installed
  <2> QED BY <1>1, <1>4, <1>5, <2>1, <2>2, Retirement, Zenon
<1>29. \/ at \in 1..5 \/ at \in 6..Prepared \/ at \in (Prepared + 1)..(Prepared + 16)
       \/ at \in (Prepared + 17)..Retired \/ at \in (Retired + 1)..(Retired + 9)
      BY <1>1, <1>2
<1> QED BY <1>8, <1>15, <1>26, <1>27, <1>28, <1>29

\* When every folder is synced, nothing is unsynced.
LEMMA AllSynced ==
    ASSUME Stored', Synced("store")', Synced("receipts")', Synced("checkpoints")', Synced("wal")', Synced(".private")'
    PROVE  unsynced' = << >>
<1>1. ASSUME NEW i \in DOMAIN unsynced' PROVE unsynced'[i].folder \in Folders
  <2>1. unsynced'[i] \in Changes
        BY DEF Stored
  <2> QED BY <2>1 DEF Changes
<1>2. DOMAIN unsynced' = {}
      BY <1>1 DEF Synced, Folders
<1> QED BY <1>2, ChangingNext DEF Stored

LEMMA LastStep ==
    ASSUME Going, Finishing, Stepping, at = Len(Rotation), UNCHANGED <<committed, from, upto>>
    PROVE  /\ Stored' /\ Core' /\ unsynced' = << >> /\ disk'[HEAD].of = Target'
           /\ ~Has(Wal(from))' /\ ~Has(Checkpoint(from))' /\ ~Has(Ledger(from))'
<1>1. Stored /\ from \in Seq(Nat) /\ upto \in Nat /\ from' = from /\ upto' = upto /\ committed' = committed
      BY DEF Going
<1>2. /\ Prepared \in Nat /\ Switched = Prepared + 14 /\ Confirmed = Prepared + 16 /\ Retired \in Nat
      /\ Retired >= Prepared + 18 /\ Len(Rotation) = Retired + 9
      BY <1>1, Positions
<1>3. Stored' /\ Core'
      BY <1>1, SteppingKeepsCore
<1>4. Current = Sync("store")
      BY <1>1, <1>2, Retirement
<1>5. Syncs({"store"})
      BY <1>4, Sweeping
<1>6. disk' = disk /\ Synced("store")' /\ \A folder : Synced(folder) => Synced(folder)'
      BY <1>1, <1>5, Surviving
<1>7. at > Retired + 5 /\ at > Retired + 6 /\ at > Retired + 7 /\ at > Retired + 8 /\ at > Retired
      /\ at > Switched /\ at > Confirmed + 1 /\ at > Confirmed + 2
      BY <1>2
<1>8. Synced(".private")' /\ Synced("wal")' /\ Synced("checkpoints")' /\ Synced("receipts")'
      BY <1>6, <1>7 DEF Finishing
<1>9. unsynced' = << >>
      BY <1>3, <1>6, <1>8, AllSynced
<1>10. disk[HEAD].of = Target /\ ~Has(Wal(from)) /\ ~Has(Checkpoint(from)) /\ ~Has(Ledger(from))
      BY <1>7 DEF Going, Lineage
<1>11. Target' = Target
      BY <1>1 DEF Target
<1> QED BY <1>1, <1>3, <1>6, <1>9, <1>10, <1>11 DEF Has

\* What the typing needs after a step.
LEMMA TypeNext ==
    ASSUME Stored', committed' \in Nat, from' \in Seq(Nat), upto' \in Nat, at' \in Nat, at' =< Len(Rotation)',
           outcome' \in {"none", "rotated", "pre-activation", "unconfirmed", "cleanup-pending"}
    PROVE  TypeOK'
<1>1. Len(Rotation)' \in Nat
      BY PlacedNext
<1>2. at' \in 0..Len(Rotation)'
      BY <1>1
<1> QED BY <1>2 DEF TypeOK, Stored

LEMMA AdvanceKeeps ==
    ASSUME Recoverable, Advance
    PROVE  Recoverable'
<1>1. Running /\ Succeeds(Current) /\ Effect(Current) /\ UNCHANGED <<committed, from, upto>>
      BY DEF Advance
<1>2. Going /\ Finishing /\ at \in Nat /\ Len(Rotation) \in Nat
      BY <1>1, RunningFacts
<1>3. Stepping
      BY <1>1, <1>2 DEF Stepping, Going
<1>4. /\ from' = from /\ upto' = upto /\ committed' = committed
      /\ from \in Seq(Nat) /\ upto \in Nat /\ committed \in Nat /\ at \in 1..Len(Rotation)
      BY <1>1, <1>2 DEF Going
<1>5. Len(Rotation)' = Len(Rotation)
      BY <1>4, Same
<1>6. outcome = "none"
      BY <1>2 DEF Going, Lineage
<1>7. CASE at < Len(Rotation)
  <2>1. at' = at + 1 /\ outcome' = outcome
        BY <1>7 DEF Advance
  <2>2. Onward
        BY <1>2, <1>3, <1>4, <2>1 DEF Onward
  <2>3. Lineage' /\ Scratch' /\ Installed' /\ Finishing'
        BY <2>2, LineageGoesOn, ScratchGoesOn, InstalledGoesOn, FinishingGoesOn
  <2>4. Stored' /\ Core'
        BY <2>2, OnwardFacts
  <2>5. at' \in Nat /\ at' =< Len(Rotation)'
        BY <1>2, <1>4, <1>5, <1>7, <2>1
  <2>6. TypeOK'
        BY <1>4, <1>6, <2>1, <2>4, <2>5, TypeNext
  <2>7. Reported'
        BY <1>6, <2>1 DEF Reported
  <2> QED BY <2>3, <2>4, <2>6, <2>7 DEF Recoverable, Core
<1>8. CASE ~(at < Len(Rotation))
  <2>1. at' = 0 /\ outcome' = "rotated"
        BY <1>8 DEF Advance
  <2>2. at = Len(Rotation)
        BY <1>2, <1>4, <1>8
  <2>3. /\ Stored' /\ Core' /\ unsynced' = << >> /\ disk'[HEAD].of = Target'
        /\ ~Has(Wal(from))' /\ ~Has(Checkpoint(from))' /\ ~Has(Ledger(from))'
        BY <1>1, <1>2, <1>3, <2>2, LastStep
  <2>4. at' \in Nat /\ at' =< Len(Rotation)'
        BY <1>2, <1>5, <2>1
  <2>5. TypeOK'
        BY <1>4, <2>1, <2>3, <2>4, TypeNext
  <2>6. Reported'
        BY <2>1, <2>3 DEF Reported, HeadChanges
  <2>7. ~Running'
        BY <2>1 DEF Running
  <2> QED BY <2>3, <2>5, <2>6, <2>7 DEF Recoverable, Core
<1> QED BY <1>7, <1>8

\* A step that fails ends the rotation, and what is reported of it is so.
LEMMA FailKeeps ==
    ASSUME Recoverable, Fail
    PROVE  Recoverable'
<1>1. Running /\ at' = 0 /\ outcome' = Report /\ UNCHANGED <<disk, unsynced, committed, from, upto>>
      BY DEF Fail
<1>2. Going /\ Finishing /\ at \in Nat /\ Len(Rotation) \in Nat
      BY <1>1, RunningFacts
<1>3. from \in Seq(Nat) /\ upto \in Nat /\ committed \in Nat /\ Stored /\ Core /\ Lineage
      BY <1>2 DEF Going
<1>4. Stored' /\ Core' /\ HeadChanges' = HeadChanges /\ Target' = Target
      BY <1>1, <1>3 DEF Stored, Core, Selected, LedgersFollow, NoInitialLedger, HeadChanges, Safe, Settled,
                        Content, Has, Target
<1>5. Switched \in Nat /\ Confirmed = Switched + 2
      BY <1>3, Positions
<1>6. /\ outcome' = "pre-activation" => at =< Switched
      /\ outcome' = "cleanup-pending" => at > Switched /\ at > Confirmed
      /\ outcome' \in {"pre-activation", "unconfirmed", "cleanup-pending"}
      BY <1>1, <1>2, <1>5 DEF Report
<1>7. Reported'
      BY <1>1, <1>3, <1>4, <1>6 DEF Reported, Lineage
<1>8. Len(Rotation)' = Len(Rotation)
      BY <1>1, <1>3, Same
<1>9. TypeOK'
      BY <1>1, <1>2, <1>3, <1>4, <1>6, <1>8, TypeNext
<1>10. ~Running'
      BY <1>1 DEF Running
<1> QED BY <1>4, <1>7, <1>9, <1>10 DEF Recoverable, Core

LEMMA PositionsNext ==
    (from \in Seq(Nat) /\ upto \in Nat =>
        /\ Prepared \in Nat /\ Prepared >= 9 /\ Switched = Prepared + 14 /\ Confirmed = Prepared + 16
        /\ Retired \in Nat /\ Retired >= Prepared + 18 /\ Len(Rotation) = Retired + 9)'
<1>1. from \in Seq(Nat) /\ upto \in Nat =>
        /\ Prepared \in Nat /\ Prepared >= 9 /\ Switched = Prepared + 14 /\ Confirmed = Prepared + 16
        /\ Retired \in Nat /\ Retired >= Prepared + 18 /\ Len(Rotation) = Retired + 9
      BY Positions
<1> QED BY <1>1, PTL

LEMMA LengthNext ==
    (from \in Seq(Nat) /\ upto \in Nat => Len(Rotation) \in Nat)'
<1>1. from \in Seq(Nat) /\ upto \in Nat => Len(Rotation) \in Nat
      BY Positions
<1> QED BY <1>1, PTL

LEMMA NoHeadChanges ==
    Stored' /\ Synced("store")' => HeadChanges' = {}
  BY FoldersOf DEF Stored, Synced, HeadChanges

\* A rotation begins with the lineage HEAD selects, which is complete.
LEMMA BeginKeeps ==
    ASSUME Recoverable, Begin
    PROVE  Recoverable'
<1> DEFINE first == {"store", "wal"}
<1>1. /\ from' = disk[HEAD].of /\ upto' = committed /\ at' = 1 /\ outcome' = "none"
      /\ unsynced' = StillUnsynced(first) /\ disk' = disk /\ committed' = committed
      BY DEF Begin
<1>2. Stored /\ Core /\ committed \in Nat
      BY DEF Recoverable, TypeOK, Stored, Core
<1>3. Stored' /\ Syncs(first)
      BY <1>1, <1>2, SyncKeeps
<1>4. Core' /\ disk'[HEAD] = disk[HEAD]
      BY <1>1, <1>2, <1>3, CoreSynced
<1>5. Synced("store")' /\ Synced("wal")' /\ HeadChanges' = {}
      BY <1>2, <1>3, Surviving, NoHeadChanges
<1>6. from' \in Seq(Nat) /\ upto' \in Nat
  <2>1. disk[HEAD] \in Contents
        BY <1>2 DEF Core, Selected, Stored, Has
  <2> QED BY <1>1, <1>2, <2>1 DEF Contents
<1>7. /\ Prepared' \in Nat /\ Prepared' >= 9 /\ Switched' = Prepared' + 14 /\ Confirmed' = Prepared' + 16
      /\ Retired' \in Nat /\ Retired' >= Prepared' + 18 /\ Len(Rotation)' = Retired' + 9
      /\ at' = 1
      BY <1>1, <1>6, PositionsNext
<1>18. PICK p \in Nat : p = Prepared'
      BY <1>7
<1>19. PICK r \in Nat : r = Retired'
      BY <1>7
<1>20. p >= 9 /\ r >= p + 18 /\ Switched' = p + 14 /\ Confirmed' = p + 16 /\ Len(Rotation)' = r + 9 /\ at' = 1
      BY <1>7, <1>18, <1>19, Zenon
<1>8. Safe(from)'
      BY <1>1, <1>4 DEF Core, Selected
<1>9. /\ Content(Checkpoint(from))' = Whole(from')
      /\ from' # Initial => Has(Ledger(from))'
  <2>1. PICK l \in Seq(Nat) : l = from'
        BY <1>6
  <2>2. Content(Checkpoint(l))' = Whole(l) /\ (l # Initial => Content(Ledger(l))' = Whole(l))
        BY <1>8, <2>1 DEF Safe
  <2>3. Whole(l) # None
        BY Kinds, RotationConstantsOK DEF RotationConstantsOK, Contents
  <2>4. l # Initial => Has(Ledger(l))'
        BY <1>3, <2>2, <2>3, HeldNext
  <2> QED BY <2>1, <2>2, <2>4
<1>16. at' =< Switched' /\ ~(at' > Confirmed') /\ ~(at' > Confirmed' + 1) /\ ~(at' > Confirmed' + 2) /\ ~(at' > Retired')
       /\ ~(at' > Switched')
      BY <1>19, <1>20
<1>17. disk'[HEAD].of = from' /\ outcome' = "none" /\ upto' = committed'
      BY <1>1, <1>4
<1>10. Lineage'
      BY <1>5, <1>8, <1>9, <1>16, <1>17 DEF Lineage
<1>11. Scratch'
  <2>1. /\ ~(1 \in 2..(p - 2)) /\ ~(1 \in p..(p + 1)) /\ ~(1 \in 3..(p + 4)) /\ ~(1 \in (p + 6)..(p + 7))
        /\ ~(1 \in 4..(p + 10)) /\ ~(1 \in (p + 12)..(p + 14)) /\ ~(1 \in 5..(p - 5))
        BY <1>20
  <2>2. at' = 1 /\ Prepared' = p
        BY <1>18, <1>20
  <2> QED BY <2>1, <2>2, Zenon DEF Scratch
<1>12. Installed' /\ Finishing'
  <2>1. /\ ~(1 > p - 3) /\ ~(1 > p + 1) /\ ~(1 > p + 3) /\ ~(1 > p + 7) /\ ~(1 > p + 9)
        /\ ~(1 > r + 5) /\ ~(1 > r + 6) /\ ~(1 > r + 7) /\ ~(1 > r + 8)
        BY <1>20
  <2>2. at' = 1 /\ Prepared' = p /\ Retired' = r
        BY <1>18, <1>19, <1>20
  <2> QED BY <2>1, <2>2, Zenon DEF Installed, Finishing
<1>13. at' \in Nat /\ at' =< Len(Rotation)'
      BY <1>20
<1>14. TypeOK'
      BY <1>1, <1>2, <1>3, <1>6, <1>13, TypeNext
<1>15. Reported'
      BY <1>1 DEF Reported
<1> QED BY <1>4, <1>10, <1>11, <1>12, <1>14, <1>15 DEF Recoverable, Core

\* A commit is in the log of the lineage HEAD selects, and its lock is taken first.
LEMMA CommitKeeps ==
    ASSUME Recoverable, Commit
    PROVE  Recoverable'
<1> DEFINE first == {"store", "wal"}
<1>0. PICK h : h = disk[HEAD].of
      OBVIOUS
<1>1. /\ at = 0 /\ disk' = With(disk, Wal(h), Whole(h)) /\ unsynced' = StillUnsynced(first)
      /\ committed' = committed + 1 /\ from' = from /\ upto' = upto /\ at' = at /\ outcome' = outcome
      BY <1>0 DEF Commit, Running
<1>2. /\ Stored /\ Core /\ committed \in Nat /\ Reported
      /\ from \in Seq(Nat) /\ upto \in Nat
      /\ outcome \in {"none", "rotated", "pre-activation", "unconfirmed", "cleanup-pending"}
      BY DEF Recoverable, TypeOK, Stored, Core
<1>3. h \in Seq(Nat) /\ Has(HEAD) /\ disk[HEAD] = Content(HEAD) /\ disk[HEAD].whole /\ Safe(h)
  <2>1. disk[HEAD] \in Contents /\ Has(HEAD) /\ disk[HEAD].whole /\ Safe(h)
        BY <1>0, <1>2 DEF Core, Selected, Stored, Has
  <2> QED BY <1>0, <2>1 DEF Contents, Content
<1> HIDE DEF first
<1>4. Wal(h) \in Names /\ Whole(h) \in Contents
      BY <1>3, Entries, Kinds
<1>5. /\ Content(Wal(h))' = Whole(h) /\ \A x : x # Wal(h) => Content(x)' = Content(x)
      /\ DOMAIN disk' \subseteq Names /\ \A x \in DOMAIN disk' : disk'[x] \in Contents
      BY <1>1, <1>2, <1>4, Written
<1>6. /\ unsynced' \in Seq(Changes)
      /\ \A i \in DOMAIN unsynced' : \E k \in DOMAIN unsynced :
            unsynced'[i] = unsynced[k] /\ unsynced[k].folder \notin first
  <2>1. unsynced \in Seq(Changes)
        BY <1>2 DEF Stored
  <2>2. Filtered(unsynced', Len(unsynced), first)
        BY <1>1, <2>1, StillFacts
  <2>3. unsynced' \in Seq(Changes)
        BY <2>2 DEF Filtered
  <2>4. DOMAIN unsynced' = 1..Len(unsynced') /\ DOMAIN unsynced = 1..Len(unsynced)
        BY <2>1, <2>3
  <2> QED BY <2>2, <2>3, <2>4 DEF Filtered
<1>7. Stored'
      BY <1>2, <1>5, <1>6 DEF Stored
<1>8. Synced("store")' /\ HeadChanges' = {}
  <2>1. Synced("store")'
        BY <1>6 DEF Synced, first
  <2> QED BY <1>7, <2>1, NoHeadChanges
<1>9. \A e : Settled(e) => Settled(e)'
      BY <1>6 DEF Settled
<1>10. \A e : e # Wal(h) => (Has(e)' <=> Has(e))
      BY <1>2, <1>5, <1>7, Held, HeldNext
<1>11. /\ Receipts # Wal(h) /\ HEAD # Wal(h)
       /\ \A l : Checkpoint(l) # Wal(h) /\ Ledger(l) # Wal(h)
      BY Tags
<1>12. disk'[HEAD] = disk[HEAD] /\ Has(HEAD)'
  <2>1. Has(HEAD)' /\ Content(HEAD)' = Content(HEAD)
        BY <1>3, <1>5, <1>10, <1>11
  <2> QED BY <1>3, <1>7, <2>1, HeldNext
<1>13. Safe(h)'
  <2>1. Settled(Checkpoint(h))' /\ Settled(Ledger(h))' /\ Settled(Wal(h))'
        BY <1>3, <1>9 DEF Safe
  <2>2. Content(Checkpoint(h))' = Whole(h)
        BY <1>3, <1>5, <1>11 DEF Safe
  <2>3. h # Initial => Has(Receipts)' /\ Content(Ledger(h))' = Whole(h)
        BY <1>3, <1>5, <1>10, <1>11 DEF Safe
  <2> QED BY <1>5, <2>1, <2>2, <2>3 DEF Safe
<1>14. Selected'
  <2>1. disk'[HEAD].whole /\ Safe(disk[HEAD].of)'
        BY <1>0, <1>3, <1>12, <1>13
  <2> QED BY <1>8, <1>12, <2>1 DEF Selected
<1>15. LedgersFollow'
      BY <1>7, <1>8, FoldersOf DEF LedgersFollow, Synced, Stored
<1>16. NoInitialLedger'
      BY <1>2, <1>9, <1>10, <1>11 DEF Core, NoInitialLedger
<1>17. Target' = Target /\ Target # from
      BY <1>1, <1>2, Targets DEF Target
<1>18. outcome = "rotated" => unsynced' = << >> /\ ~Has(Wal(from))' /\ ~Has(Checkpoint(from))' /\ ~Has(Ledger(from))'
  <2> SUFFICES ASSUME outcome = "rotated"
               PROVE  unsynced' = << >> /\ ~Has(Wal(from))' /\ ~Has(Checkpoint(from))' /\ ~Has(Ledger(from))'
      OBVIOUS
  <2>1. /\ unsynced = << >> /\ ~Has(Wal(from)) /\ ~Has(Checkpoint(from)) /\ ~Has(Ledger(from))
        /\ h = Target
        BY <1>0, <1>2 DEF Reported
  <2>2. DOMAIN unsynced' = {}
    <3>1. \A i \in DOMAIN unsynced' : \E k \in DOMAIN unsynced : TRUE
          BY <1>6
    <3>2. DOMAIN unsynced = {}
          BY <2>1
    <3> QED BY <3>1, <3>2, Zenon
  <2>3. unsynced' = << >>
        BY <1>6, <2>2
  <2>4. Wal(from) # Wal(h)
        BY <1>17, <2>1, Tags
  <2>5. PICK l : l = from
        OBVIOUS
  <2>6. ~Has(Wal(l))' /\ ~Has(Checkpoint(l))' /\ ~Has(Ledger(l))'
        BY <1>10, <1>11, <2>1, <2>4, <2>5
  <2>7. l = from'
        BY <1>1, <2>5
  <2> QED BY <2>3, <2>6, <2>7
<1>19. Reported'
      BY <1>1, <1>2, <1>8, <1>12, <1>17, <1>18 DEF Reported
<1>20. Len(Rotation)' \in Nat /\ Len(Rotation)' >= 0
      BY <1>1, <1>2, PositionsNext
<1>21. at' \in Nat /\ at' =< Len(Rotation)' /\ committed' \in Nat
      BY <1>1, <1>2, <1>20
<1>22. TypeOK'
      BY <1>1, <1>2, <1>7, <1>21, TypeNext
<1>23. ~Running'
      BY <1>1 DEF Running
<1> QED BY <1>14, <1>15, <1>16, <1>19, <1>22, <1>23 DEF Recoverable

\* A kill forgets the rotation; what is stored stays.
LEMMA CrashKeeps ==
    ASSUME Recoverable, Crash
    PROVE  Recoverable'
<1>1. /\ Running /\ at' = 0 /\ from' = Initial /\ upto' = 0 /\ outcome' = outcome
      /\ disk' = disk /\ unsynced' = unsynced /\ committed' = committed
      BY DEF Crash, Forget
<1>2. Stored /\ Core /\ committed \in Nat /\ outcome = "none"
      BY <1>1, RunningFacts DEF Going, Lineage
<1>3. Stored' /\ Touches({})
      BY <1>1, <1>2, Kept
<1>4. Core'
      BY <1>1, <1>2, <1>3, CoreTouched
<1>5. from' \in Seq(Nat) /\ upto' \in Nat /\ at' \in Nat
      BY <1>1 DEF Initial
<1>6. at' =< Len(Rotation)'
  <2>1. Len(Rotation)' \in Nat
        BY <1>5, LengthNext
  <2> QED BY <1>1, <2>1
<1>7. TypeOK'
      BY <1>1, <1>2, <1>3, <1>5, <1>6, TypeNext
<1>8. Reported'
      BY <1>1, <1>2 DEF Reported
<1>9. ~Running'
      BY <1>1 DEF Running
<1> QED BY <1>4, <1>7, <1>8, <1>9 DEF Recoverable, Core

-------------------------------------------------------------------------------
(* A power loss *)

\* Of an entry comes back what it held before its first lost change.
LEMMA ComesBack ==
    ASSUME Stored, NEW lost \in SUBSET DOMAIN unsynced, NEW e
    PROVE  /\ \/ Left(lost, e) = Content(e) /\ \A i \in lost : unsynced[i].entry # e
              \/ \E i \in lost : /\ unsynced[i].entry = e /\ Left(lost, e) = unsynced[i].was
                                 /\ \A j \in lost : unsynced[j].entry = e => i =< j
           /\ Left(lost, e) \in Contents \cup {None}
<1> DEFINE mine == {i \in lost : unsynced[i].entry = e}
<1>1. Left(lost, e) = IF mine = {} THEN Content(e)
                      ELSE unsynced[CHOOSE i \in mine : \A j \in mine : i =< j].was
      BY DEF Left
<1>2. mine \in SUBSET Nat
      BY Changing
<1>3. CASE mine = {}
  <2>1. \A i \in lost : unsynced[i].entry # e
        BY <1>3
  <2>2. Left(lost, e) = Content(e)
        BY <1>1, <1>3
  <2> QED BY <2>1, <2>2, Held
<1>4. CASE mine # {}
  <2> DEFINE first == CHOOSE i \in mine : \A j \in mine : i =< j
  <2> HIDE DEF mine
  <2>1. first \in mine /\ \A j \in mine : first =< j
        BY <1>2, <1>4, Least
  <2>2. Left(lost, e) = unsynced[first].was
        BY <1>1, <1>4
  <2> HIDE DEF first
  <2>3. first \in lost /\ unsynced[first].entry = e /\ \A j \in lost : unsynced[j].entry = e => first =< j
        BY <2>1 DEF mine
  <2>4. unsynced[first] \in Changes
        BY <2>3 DEF Stored
  <2>5. unsynced[first].was \in Contents \cup {None}
        BY <2>4 DEF Changes
  <2> QED BY <2>2, <2>3, <2>5
<1> QED BY <1>3, <1>4

\* What a power loss makes of the directory.
Loses(lost) ==
    LET gone == Left(lost, Receipts) = None
    IN  /\ lost \in SUBSET DOMAIN unsynced /\ Losable(lost)
        /\ \A e : Content(e)' = IF gone /\ Folder(e) = "receipts" THEN None ELSE Left(lost, e)

LEMMA PowerLost ==
    ASSUME Stored, LosePower
    PROVE  Stored' /\ \E lost : Loses(lost)
<1>1. PICK lost \in SUBSET DOMAIN unsynced :
        /\ Losable(lost)
        /\ LET names == DOMAIN disk \cup {unsynced[i].entry : i \in lost}
               gone == Left(lost, Receipts) = None
               kept == {e \in names : Left(lost, e) # None /\ (gone => Folder(e) # "receipts")}
           IN  disk' = [e \in kept |-> Left(lost, e)]
      BY DEF LosePower
<1> DEFINE names == DOMAIN disk \cup {unsynced[i].entry : i \in lost}
           gone == Left(lost, Receipts) = None
           kept == {e \in names : Left(lost, e) # None /\ (gone => Folder(e) # "receipts")}
<1>2. disk' = [e \in kept |-> Left(lost, e)]
      BY <1>1
<1>3. unsynced' = << >>
      BY DEF LosePower
<1>4. names \subseteq Names
  <2>1. DOMAIN disk \subseteq Names
        BY DEF Stored
  <2>2. ASSUME NEW i \in lost PROVE unsynced[i].entry \in Names
    <3>1. unsynced[i] \in Changes
          BY DEF Stored
    <3> QED BY <3>1 DEF Changes
  <2> QED BY <2>1, <2>2
<1>5. \A e : e \notin names => Left(lost, e) = None
  <2> SUFFICES ASSUME NEW e, e \notin names PROVE Left(lost, e) = None
      OBVIOUS
  <2>1. \A i \in lost : unsynced[i].entry # e
        OBVIOUS
  <2>2. Left(lost, e) = Content(e)
        BY <2>1, ComesBack
  <2>3. e \notin DOMAIN disk
        OBVIOUS
  <2> QED BY <2>2, <2>3 DEF Content, Has
<1>6. \A e : Left(lost, e) \in Contents \cup {None}
      BY ComesBack
<1>7. \A e : e \in kept <=> e \in names /\ Left(lost, e) # None /\ ~(gone /\ Folder(e) = "receipts")
      OBVIOUS
<1> HIDE DEF kept, names
<1>8. DOMAIN disk' = kept /\ \A e \in kept : disk'[e] = Left(lost, e)
      BY <1>2
<1>9. DOMAIN disk' \subseteq Names /\ \A e \in DOMAIN disk' : disk'[e] \in Contents
      BY <1>4, <1>6, <1>7, <1>8
<1>10. Stored'
      BY <1>3, <1>9 DEF Stored
<1>11. \A e : Content(e)' = IF e \in kept THEN Left(lost, e) ELSE None
      BY <1>8 DEF Content, Has
<1>12. \A e : Content(e)' = IF gone /\ Folder(e) = "receipts" THEN None ELSE Left(lost, e)
      BY <1>5, <1>7, <1>11
<1> QED BY <1>1, <1>10, <1>12 DEF Loses

LEMMA SettledStays ==
    ASSUME Stored, NEW lost, Loses(lost), NEW e, Settled(e)
    PROVE  Left(lost, e) = Content(e)
  BY ComesBack DEF Loses, Settled

\* HEAD comes back with a lineage that everything it needs is there for.
LEMMA HeadComesBack ==
    ASSUME Stored, Core, NEW lost, Loses(lost)
    PROVE  /\ Left(lost, HEAD) # None /\ Left(lost, HEAD).whole /\ Safe(Left(lost, HEAD).of)
           /\ Content(HEAD)' = Left(lost, HEAD)
           /\ HeadChanges = {} => Left(lost, HEAD) = disk[HEAD]
<1>1. Content(HEAD)' = Left(lost, HEAD)
      BY FoldersOf DEF Loses
<1>2. Content(HEAD) = disk[HEAD] /\ Content(HEAD) # None
      BY Held DEF Core, Selected
<1>3. lost \subseteq DOMAIN unsynced
      BY DEF Loses
<1>4. CASE Left(lost, HEAD) = Content(HEAD)
      BY <1>1, <1>2, <1>4 DEF Core, Selected
<1>5. CASE \E i \in lost : unsynced[i].entry = HEAD /\ Left(lost, HEAD) = unsynced[i].was
  <2>1. PICK i \in HeadChanges : Left(lost, HEAD) = unsynced[i].was
        BY <1>3, <1>5 DEF HeadChanges
  <2> QED BY <1>1, <2>1 DEF Core, Selected
<1> QED BY <1>3, <1>4, <1>5, ComesBack

\* Without the directory of the ledgers, that is the initial lineage: the
\* store directory loses its last changes first.
LEMMA LedgersComeBack ==
    ASSUME Stored, Core, NEW lost, Loses(lost), InOrder, Left(lost, Receipts) = None
    PROVE  Left(lost, HEAD).of = Initial
<1>1. lost \in SUBSET DOMAIN unsynced /\ Losable(lost)
      BY DEF Loses
<1>2. Content(HEAD) = disk[HEAD]
      BY Held DEF Core, Selected
<1>3. CASE \A i \in lost : unsynced[i].entry # Receipts
  <2>1. Left(lost, Receipts) = Content(Receipts)
        BY <1>1, <1>3, ComesBack
  <2>2. ~Has(Receipts)
        BY <2>1, Held
  <2> QED BY <2>2, HeadComesBack DEF Safe
<1>4. CASE ~(\A i \in lost : unsynced[i].entry # Receipts)
  <2>1. PICK i \in lost : unsynced[i].entry = Receipts
        BY <1>4
  <2>2. /\ i \in DOMAIN unsynced
        /\ HeadChanges = {} => disk[HEAD].of = Initial
        /\ \A j \in HeadChanges : i < j /\ unsynced[j].was.of = Initial
        BY <1>1, <2>1 DEF Core, LedgersFollow
  <2>3. ASSUME NEW j \in HeadChanges PROVE j \in lost
    <3>1. j \in DOMAIN unsynced /\ unsynced[i].folder = unsynced[j].folder /\ i < j
          BY <2>1, <2>2, FoldersOf DEF HeadChanges, Stored
    <3> QED BY <1>1, <3>1 DEF Losable
  <2>4. CASE HeadChanges = {}
        BY <2>2, <2>4, HeadComesBack
  <2>5. CASE HeadChanges # {}
    <3>1. PICK j \in lost : unsynced[j].entry = HEAD
          BY <2>3, <2>5 DEF HeadChanges
    <3>2. PICK k \in lost : unsynced[k].entry = HEAD /\ Left(lost, HEAD) = unsynced[k].was
          BY <1>1, <3>1, ComesBack
    <3>3. k \in HeadChanges
          BY <1>1, <3>2 DEF HeadChanges
    <3> QED BY <2>2, <3>2, <3>3
  <2> QED BY <2>4, <2>5
<1> QED BY <1>3, <1>4

\* After a power loss no rotation is running, and nothing is unsynced.
LEMMA LostForgets ==
    ASSUME Stored', Selected', LedgersFollow', NoInitialLedger', Reported', at' = 0, committed' \in Nat,
           from' \in Seq(Nat), upto' \in Nat,
           outcome' \in {"none", "rotated", "pre-activation", "unconfirmed", "cleanup-pending"}
    PROVE  Recoverable'
<1>1. Len(Rotation)' \in Nat
      BY LengthNext
<1>2. at' \in Nat /\ at' =< Len(Rotation)'
      BY <1>1
<1>3. TypeOK'
      BY <1>2, TypeNext
<1>4. ~Running'
      BY DEF Running
<1> QED BY <1>3, <1>4 DEF Recoverable

LEMMA LosePowerKeeps ==
    ASSUME Recoverable, LosePower, InOrder
    PROVE  Recoverable'
<1>1. /\ unsynced # << >> /\ unsynced' = << >> /\ at' = 0 /\ committed' = committed /\ outcome' = outcome
      /\ Running => from' = Initial /\ upto' = 0
      /\ ~Running => from' = from /\ upto' = upto
      BY DEF LosePower, Forget
<1>2. /\ Stored /\ Core /\ Reported /\ committed \in Nat /\ from \in Seq(Nat) /\ upto \in Nat
      /\ outcome \in {"none", "rotated", "pre-activation", "unconfirmed", "cleanup-pending"}
      BY DEF Recoverable, TypeOK, Stored, Core
<1>3. Stored'
      BY <1>2, PowerLost
<1>4. PICK lost : Loses(lost)
      BY <1>2, PowerLost
<1>5. PICK h : h = Left(lost, HEAD).of
      OBVIOUS
<1>6. /\ Left(lost, HEAD) # None /\ Left(lost, HEAD).whole /\ Safe(h)
      /\ Content(HEAD)' = Left(lost, HEAD)
      /\ HeadChanges = {} => Left(lost, HEAD) = disk[HEAD]
      BY <1>2, <1>4, <1>5, HeadComesBack
<1>7. Has(HEAD)' /\ disk'[HEAD] = Left(lost, HEAD)
      BY <1>3, <1>6, HeldNext
<1>8. \A e : Settled(e)'
      BY <1>1 DEF Settled
<1>9. HeadChanges' = {} /\ LedgersFollow'
      BY <1>1 DEF HeadChanges, LedgersFollow
<1>10. Content(Checkpoint(h))' = Whole(h)
  <2>1. Left(lost, Checkpoint(h)) = Content(Checkpoint(h)) /\ Content(Checkpoint(h)) = Whole(h)
        BY <1>2, <1>4, <1>6, SettledStays DEF Safe
  <2> QED BY <1>4, <2>1, FoldersOf DEF Loses
<1>11. Cut(h) < committed => Content(Wal(h))' = Whole(h)
  <2> SUFFICES ASSUME Cut(h) < committed PROVE Content(Wal(h))' = Whole(h)
      OBVIOUS
  <2>1. Left(lost, Wal(h)) = Content(Wal(h)) /\ Content(Wal(h)) = Whole(h)
        BY <1>2, <1>4, <1>6, SettledStays DEF Safe
  <2> QED BY <1>4, <2>1, FoldersOf DEF Loses
<1>12. ASSUME h # Initial PROVE Has(Receipts)' /\ Content(Ledger(h))' = Whole(h)
  <2>1. Left(lost, Receipts) # None
        BY <1>2, <1>4, <1>5, <1>12, LedgersComeBack
  <2>2. Content(Receipts)' # None
        BY <1>4, <2>1 DEF Loses
  <2>3. Left(lost, Ledger(h)) = Content(Ledger(h)) /\ Content(Ledger(h)) = Whole(h)
        BY <1>2, <1>4, <1>6, <1>12, SettledStays DEF Safe
  <2> QED BY <1>3, <1>4, <2>1, <2>2, <2>3, HeldNext DEF Loses
<1>13. Safe(h)'
      BY <1>1, <1>8, <1>10, <1>11, <1>12 DEF Safe
<1>14. Selected'
      BY <1>5, <1>6, <1>7, <1>9, <1>13 DEF Selected
<1>15. NoInitialLedger'
  <2>1. Left(lost, Ledger(Initial)) = Content(Ledger(Initial)) /\ Content(Ledger(Initial)) = None
        BY <1>2, <1>4, SettledStays, Held DEF Core, NoInitialLedger
  <2>2. Content(Ledger(Initial))' = None
        BY <1>4, <2>1 DEF Loses
  <2> QED BY <1>3, <1>8, <2>2, HeldNext DEF NoInitialLedger
<1>16. CASE Running
  <2>1. outcome = "none"
        BY <1>16, RunningFacts DEF Going, Lineage
  <2>2. Reported' /\ from' \in Seq(Nat) /\ upto' \in Nat
        BY <1>1, <1>16, <2>1 DEF Reported, Initial
  <2> QED BY <1>1, <1>2, <1>3, <1>9, <1>14, <1>15, <2>2, LostForgets
<1>17. CASE ~Running
  <2>1. /\ outcome = "pre-activation" => disk'[HEAD].of = from
        /\ outcome = "cleanup-pending" => disk'[HEAD].of = Target
        /\ outcome # "rotated"
        BY <1>1, <1>2, <1>6, <1>7 DEF Reported
  <2>2. Target' = Target
        BY <1>1, <1>17 DEF Target
  <2>3. Reported'
        BY <1>1, <1>9, <1>17, <2>1, <2>2 DEF Reported
  <2> QED BY <1>1, <1>2, <1>3, <1>9, <1>14, <1>15, <1>17, <2>3, LostForgets
<1> QED BY <1>16, <1>17

-------------------------------------------------------------------------------
(* The invariant, and what follows from it *)

LEMMA InitRecoverable ==
    ASSUME Init
    PROVE  Recoverable
<1>1. /\ DOMAIN disk = {HEAD, Checkpoint(Initial)}
      /\ disk[HEAD] = Whole(Initial) /\ disk[Checkpoint(Initial)] = Whole(Initial)
      /\ unsynced = << >> /\ committed = 0 /\ from = Initial /\ upto = 0 /\ at = 0 /\ outcome = "none"
      BY DEF Init
<1>2. Initial \in Seq(Nat)
      BY DEF Initial
<1>3. Whole(Initial) \in Contents /\ Whole(Initial).of = Initial /\ Whole(Initial).whole
      BY <1>2, Kinds
<1>4. Stored
      BY <1>1, <1>2, <1>3, Entries DEF Stored
<1>5. Len(Rotation) \in Nat
      BY <1>1, <1>2, Positions
<1>6. TypeOK
  <2>1. at \in 0..Len(Rotation)
        BY <1>1, <1>5
  <2> QED BY <1>1, <1>2, <1>4, <2>1 DEF TypeOK, Stored
<1>7. HeadChanges = {} /\ LedgersFollow /\ \A e : Settled(e)
      BY <1>1 DEF HeadChanges, LedgersFollow, Settled
<1>8. Safe(Initial)
  <2>1. Cut(Initial) = 0
        BY DEF Cut
  <2>2. Content(Checkpoint(Initial)) = Whole(Initial)
        BY <1>1 DEF Content, Has
  <2> QED BY <1>1, <1>7, <2>1, <2>2 DEF Safe
<1>9. Selected
      BY <1>1, <1>3, <1>7, <1>8 DEF Selected, Has
<1>10. NoInitialLedger
  <2>1. Ledger(Initial) # HEAD /\ Ledger(Initial) # Checkpoint(Initial)
        BY Tags
  <2> QED BY <1>1, <1>7, <2>1 DEF NoInitialLedger, Has
<1>11. Reported /\ ~Running
      BY <1>1 DEF Reported, Running
<1> QED BY <1>6, <1>7, <1>9, <1>10, <1>11 DEF Recoverable

LEMMA StutterKeeps ==
    ASSUME Recoverable, UNCHANGED vars
    PROVE  Recoverable'
<1>1. /\ disk' = disk /\ unsynced' = unsynced /\ committed' = committed
      /\ from' = from /\ upto' = upto /\ at' = at /\ outcome' = outcome
      BY DEF vars
<1>2. /\ Stored /\ Core /\ Reported /\ from \in Seq(Nat) /\ upto \in Nat /\ committed \in Nat
      /\ at \in 0..Len(Rotation)
      BY DEF Recoverable, TypeOK, Stored, Core
<1>3. Stored' /\ Touches({})
      BY <1>1, <1>2, Kept
<1>4. Core' /\ HeadChanges' = HeadChanges
      BY <1>1, <1>2, <1>3, CoreTouched
<1>5. /\ Prepared' = Prepared /\ Switched' = Switched /\ Confirmed' = Confirmed /\ Retired' = Retired
      /\ Len(Rotation)' = Len(Rotation) /\ Target' = Target
      BY <1>1, <1>2, Same
<1>6. \A e : Content(e)' = Content(e) /\ (Has(e)' <=> Has(e)) /\ (Settled(e)' <=> Settled(e))
      BY <1>1 DEF Content, Has, Settled
<1>7. \A folder : Synced(folder)' <=> Synced(folder)
      BY <1>1 DEF Synced
<1>8. Safe(from) => Safe(from)'
  <2>1. PICK l : l = from
        OBVIOUS
  <2>2. Safe(l) => Safe(l)'
        BY <1>1, <1>2, <1>3, <1>6, SafeTouched
  <2> QED BY <1>1, <2>1, <2>2
<1>9. TypeOK'
      BY <1>1, <1>5 DEF Recoverable, TypeOK
<1>10. Reported'
      BY <1>1, <1>2, <1>4, <1>5, <1>6 DEF Reported
<1>11. Running' <=> Running
      BY <1>1 DEF Running
<1>12. Lineage => Lineage'
      BY <1>1, <1>4, <1>5, <1>6, <1>7, <1>8 DEF Lineage
<1>13. Scratch => Scratch'
      BY <1>1, <1>5, <1>6 DEF Scratch
<1>14. Installed => Installed'
      BY <1>1, <1>5, <1>6 DEF Installed
<1>15. Finishing => Finishing'
      BY <1>1, <1>5, <1>7 DEF Finishing
<1> QED BY <1>4, <1>9, <1>10, <1>11, <1>12, <1>13, <1>14, <1>15 DEF Recoverable, Core

\* Recoverable is an invariant, for every number of commits and rotations and
\* every choice of faults, when a power loss keeps the changes to each
\* directory in order: for when it does not, HEAD may select a lineage whose
\* ledger is lost.
THEOREM RotationSound ==
    ASSUME InOrder
    PROVE  Spec => []Recoverable
<1>1. Init => Recoverable
      BY InitRecoverable
<1>2. Recoverable /\ [Next]_vars => Recoverable'
  <2> SUFFICES ASSUME Recoverable, [Next]_vars PROVE Recoverable'
      OBVIOUS
  <2> QED BY BeginKeeps, CommitKeeps, AdvanceKeeps, FailKeeps, CrashKeeps, LosePowerKeeps, StutterKeeps DEF Next
<1> QED BY <1>1, <1>2, PTL DEF Spec

LEMMA SelectedIsComplete == Recoverable => HeadSelectsComplete
  BY DEF Recoverable, Selected, Safe, HeadSelectsComplete

LEMMA ReportedHolds == Recoverable => ReportHolds
  BY DEF Recoverable, Reported, HeadChanges, ReportHolds

LEMMA RetiredStaysAway == Recoverable => RetiredIsGone
  BY DEF Recoverable, Reported, RetiredIsGone

LEMMA NeverStopped == Recoverable => NeverInItsOwnWay
  BY NothingInTheWay DEF NeverInItsOwnWay

\* However rotations fail, are killed or lose power, HEAD selects a complete
\* lineage: its checkpoint and ledger are whole and, with its WAL, hold every
\* committed transaction.
THEOREM HeadStaysComplete ==
    ASSUME InOrder
    PROVE  Spec => []HeadSelectsComplete
<1>1. Spec => []Recoverable
      BY RotationSound
<1> QED BY <1>1, SelectedIsComplete, PTL

\* Nothing that failed, killed or powerless attempts leave behind makes a step
\* of a later rotation fail.
THEOREM LeftoversNeverStop ==
    ASSUME InOrder
    PROVE  Spec => []NeverInItsOwnWay
<1>1. Spec => []Recoverable
      BY RotationSound
<1> QED BY <1>1, NeverStopped, PTL

\* What a rotation reported of HEAD stays true until the next one begins.
THEOREM ReportsHold ==
    ASSUME InOrder
    PROVE  Spec => []ReportHolds
<1>1. Spec => []Recoverable
      BY RotationSound
<1> QED BY <1>1, ReportedHolds, PTL

\* A rotation that reports complete success has removed the retired lineage for good.
THEOREM RetiredForGood ==
    ASSUME InOrder
    PROVE  Spec => []RetiredIsGone
<1>1. Spec => []Recoverable
      BY RotationSound
<1> QED BY <1>1, RetiredStaysAway, PTL
===============================================================================
