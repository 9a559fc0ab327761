--------------------------- MODULE MemoryCore_proofs ---------------------------
(***************************************************************************)
(* What the memory core promises for any drafts, patches, payloads, links  *)
(* and saved snapshots, any identifiers, and any number of asynchronous    *)
(* calls: the graph mirrors the notes and the diary, every state is        *)
(* restored exactly from its export, an index that claims to be current is *)
(* it, and the recorded effects of a mutation replay to its outcome.       *)
(***************************************************************************)
EXTENDS MemoryCore, FiniteSetTheorems, WellFoundedInduction, TLAPS

-------------------------------------------------------------------------------
(* Induction *)

LEMMA Least ==
    ASSUME NEW T \in SUBSET Nat, T # {}
    PROVE  \E n \in T : \A m \in T : n =< m
<1>1. IsWellFoundedOn(OpToRel(<, Nat), Nat)
      BY NatLessThanWellFounded
<1>2. PICK n \in T : \A m \in T : ~(<<m, n>> \in OpToRel(<, Nat))
      BY <1>1, WFMin
<1>3. \A m \in T : ~(m < n)
      BY <1>2 DEF OpToRel
<1> QED BY <1>3

\* Induction, about a set.
LEMMA Induction ==
    ASSUME NEW T \in SUBSET Nat, 0 \in T, \A n \in T : n + 1 \in T
    PROVE  T = Nat
<1> SUFFICES ASSUME Nat \ T # {} PROVE FALSE
    OBVIOUS
<1>1. PICK n \in Nat \ T : \A m \in Nat \ T : n =< m
      BY Least
<1>2. n # 0 /\ n - 1 \in Nat
      BY <1>1
<1>3. n - 1 \in T
      BY <1>1, <1>2
<1> QED BY <1>2, <1>3

-------------------------------------------------------------------------------
(* Collections *)

List(s) == s \in Seq(ToSet(s))

LEMMA ListFacts ==
    ASSUME NEW s, List(s)
    PROVE  /\ Len(s) \in Nat /\ DOMAIN s = 1..Len(s)
           /\ s = [i \in 1..Len(s) |-> s[i]]
           /\ \A i \in 1..Len(s) : s[i] \in ToSet(s)
<1>1. Len(s) \in Nat /\ DOMAIN s = 1..Len(s)
      BY DEF List
<1>2. s = [i \in 1..Len(s) |-> s[i]]
      BY <1>1 DEF List
<1> QED BY <1>1, <1>2 DEF ToSet

LEMMA ToSetIs == \A s : \A x : x \in ToSet(s) <=> \E i \in DOMAIN s : x = s[i]
  BY DEF ToSet

LEMMA MakesList ==
    ASSUME NEW n \in Nat, NEW s, DOMAIN s = 1..n, s = [i \in 1..n |-> s[i]]
    PROVE  List(s) /\ Len(s) = n
<1>1. \A i \in 1..n : s[i] \in ToSet(s)
      BY DEF ToSet
<1>2. s \in [1..n -> ToSet(s)]
      BY <1>1
<1>3. s \in Seq(ToSet(s))
      BY <1>2
<1>4. Len(s) \in Nat /\ DOMAIN s = 1..Len(s)
      BY <1>3
<1>5. Len(s) = n
      BY <1>4
<1> QED BY <1>3, <1>5 DEF List

LEMMA NoneListed == List(<< >>) /\ Len(<< >>) = 0 /\ ToSet(<< >>) = {} /\ Distinct(<< >>)
<1>1. DOMAIN << >> = {} /\ Len(<< >>) = 0
      OBVIOUS
<1>2. << >> \in Seq(ToSet(<< >>))
      OBVIOUS
<1> QED BY <1>1, <1>2 DEF List, ToSet, Distinct

LEMMA SeqFacts ==
    ASSUME NEW S, NEW s \in Seq(S)
    PROVE  DOMAIN s = 1..Len(s) /\ s = [i \in 1..Len(s) |-> s[i]]
  OBVIOUS

LEMMA AppendAt ==
    ASSUME NEW S, NEW s \in Seq(S), NEW x \in S
    PROVE  /\ Append(s, x) \in Seq(S) /\ Len(Append(s, x)) = Len(s) + 1 /\ Len(s) \in Nat
           /\ \A i \in 1..Len(s) : Append(s, x)[i] = s[i]
           /\ Append(s, x)[Len(s) + 1] = x
  OBVIOUS

LEMMA Appended ==
    ASSUME NEW s, NEW x, List(s)
    PROVE  /\ List(Append(s, x)) /\ Len(Append(s, x)) = Len(s) + 1
           /\ DOMAIN Append(s, x) = 1..(Len(s) + 1)
           /\ \A i \in 1..Len(s) : Append(s, x)[i] = s[i]
           /\ Append(s, x)[Len(s) + 1] = x
           /\ ToSet(Append(s, x)) = ToSet(s) \cup {x}
<1> DEFINE S == ToSet(s) \cup {x}
           t == Append(s, x)
<1>1. s \in Seq(S) /\ x \in S
      BY DEF List
<1>2. /\ t \in Seq(S) /\ Len(t) = Len(s) + 1 /\ Len(s) \in Nat
      /\ DOMAIN t = 1..(Len(s) + 1) /\ \A i \in 1..Len(s) : t[i] = s[i]
      /\ t[Len(s) + 1] = x
  <2>1. /\ t \in Seq(S) /\ Len(t) = Len(s) + 1 /\ Len(s) \in Nat
        /\ \A i \in 1..Len(s) : t[i] = s[i]
        /\ t[Len(s) + 1] = x
        BY <1>1, AppendAt
  <2>2. DOMAIN t = 1..Len(t)
        BY <2>1, SeqFacts
  <2> QED BY <2>1, <2>2
<1>3. t = [i \in 1..(Len(s) + 1) |-> t[i]]
  <2>1. t = [i \in 1..Len(t) |-> t[i]]
        BY <1>2, SeqFacts
  <2> QED BY <1>2, <2>1
<1> HIDE DEF t
<1>4. List(t)
      BY <1>2, <1>3, MakesList
<1>5. ToSet(t) = ToSet(s) \cup {x}
  <2>1. ASSUME NEW y PROVE y \in ToSet(t) <=> y \in ToSet(s) \/ y = x
    <3>1. y \in ToSet(t) <=> \E i \in 1..(Len(s) + 1) : y = t[i]
          BY <1>2, ToSetIs
    <3>2. y \in ToSet(s) <=> \E i \in 1..Len(s) : y = s[i]
          BY ListFacts, ToSetIs
    <3>3. \A i : i \in 1..(Len(s) + 1) <=> i \in 1..Len(s) \/ i = Len(s) + 1
          BY <1>2
    <3> QED BY <1>2, <3>1, <3>2, <3>3
  <2> QED BY <2>1
<1> QED BY <1>2, <1>4, <1>5 DEF t

LEMMA IdsAre == \A s : \A id : id \in Ids(s) <=> \E x \in ToSet(s) : x.id = id
  BY DEF Ids

\* Of distinct items one has an identifier.
LEMMA DistinctItems ==
    ASSUME NEW s, List(s), Distinct(s), NEW x \in ToSet(s), NEW y \in ToSet(s), x.id = y.id
    PROVE  x = y
<1>1. PICK i \in DOMAIN s : x = s[i]
      BY ToSetIs
<1>2. PICK j \in DOMAIN s : y = s[j]
      BY ToSetIs
<1> QED BY <1>1, <1>2 DEF Distinct

LEMMA PutFacts ==
    ASSUME NEW s, List(s), Distinct(s), NEW item
    PROVE  /\ List(Put(s, item)) /\ Distinct(Put(s, item))
           /\ ToSet(Put(s, item)) = {x \in ToSet(s) : x.id # item.id} \cup {item}
           /\ Ids(Put(s, item)) = Ids(s) \cup {item.id}
<1> DEFINE p == Put(s, item)
<1>0. Len(s) \in Nat /\ DOMAIN s = 1..Len(s) /\ \A i \in 1..Len(s) : s[i] \in ToSet(s)
      BY ListFacts
<1>1. /\ List(p) /\ Distinct(p)
      /\ ToSet(p) = {x \in ToSet(s) : x.id # item.id} \cup {item}
  <2>1. CASE item.id \in Ids(s)
    <3> DEFINE q == [i \in 1..Len(s) |-> IF s[i].id = item.id THEN item ELSE s[i]]
    <3>1. p = q
          BY <1>0, <2>1 DEF Put
    <3>2. DOMAIN q = 1..Len(s) /\ q = [i \in 1..Len(s) |-> q[i]]
          OBVIOUS
    <3>3. \A i \in 1..Len(s) : q[i] = IF s[i].id = item.id THEN item ELSE s[i]
          OBVIOUS
    <3> HIDE DEF q
    <3>4. List(q)
          BY <1>0, <3>2, MakesList
    <3>5. \A i \in 1..Len(s) : q[i].id = s[i].id
          BY <3>3
    <3>6. Distinct(q)
          BY <1>0, <3>2, <3>5 DEF Distinct
    <3>7. PICK k \in 1..Len(s) : s[k].id = item.id
          BY <1>0, <2>1, IdsAre, ToSetIs
    <3>8. ASSUME NEW y PROVE y \in ToSet(q) <=> (y \in ToSet(s) /\ y.id # item.id) \/ y = item
      <4>1. y \in ToSet(q) <=> \E i \in 1..Len(s) : y = q[i]
            BY <3>2, ToSetIs
      <4>2. y \in ToSet(s) <=> \E i \in 1..Len(s) : y = s[i]
            BY <1>0, ToSetIs
      <4>3. q[k] = item
            BY <3>3, <3>7
      <4> QED BY <3>3, <3>7, <4>1, <4>2, <4>3
    <3>9. ToSet(q) = {x \in ToSet(s) : x.id # item.id} \cup {item}
          BY <3>8
    <3> QED BY <3>1, <3>4, <3>6, <3>9
  <2>2. CASE item.id \notin Ids(s)
    <3>1. p = Append(s, item)
          BY <2>2 DEF Put
    <3>2. \A x \in ToSet(s) : x.id # item.id
          BY <2>2, IdsAre
    <3> DEFINE t == Append(s, item)
    <3>3. /\ List(t) /\ DOMAIN t = 1..(Len(s) + 1)
          /\ \A i \in 1..Len(s) : t[i] = s[i]
          /\ t[Len(s) + 1] = item /\ ToSet(t) = ToSet(s) \cup {item}
          BY Appended
    <3> HIDE DEF t
    <3>4. ASSUME NEW i \in 1..(Len(s) + 1), NEW j \in 1..(Len(s) + 1), t[i].id = t[j].id
          PROVE  i = j
      <4>1. \A k \in 1..Len(s) : t[k].id # item.id
            BY <1>0, <3>2, <3>3
      <4>2. (i \in 1..Len(s) \/ i = Len(s) + 1) /\ (j \in 1..Len(s) \/ j = Len(s) + 1)
            BY <1>0
      <4>3. CASE i \in 1..Len(s) /\ j \in 1..Len(s)
            BY <1>0, <3>3, <3>4, <4>3 DEF Distinct
      <4> QED BY <3>3, <3>4, <4>1, <4>2, <4>3
    <3>5. Distinct(t)
          BY <3>3, <3>4 DEF Distinct
    <3>6. ToSet(t) = {x \in ToSet(s) : x.id # item.id} \cup {item}
          BY <3>2, <3>3
    <3> QED BY <3>1, <3>3, <3>5, <3>6 DEF t
  <2> QED BY <2>1, <2>2
<1> HIDE DEF p
<1>2. Ids(p) = Ids(s) \cup {item.id}
      BY <1>1, IdsAre
<1> QED BY <1>1, <1>2 DEF p
-------------------------------------------------------------------------------
(* Loops *)

\* One turn of the loop of Remaining.
KeepStep(f, items, gone, n) ==
    IF n = 0 THEN << >>
    ELSE IF items[n] \in gone THEN f[n - 1] ELSE Append(f[n - 1], items[n])

LEMMA RemainingExists ==
    ASSUME NEW items, NEW gone, NEW last \in Nat
    PROVE  \E f : f = [n \in 0..last |-> KeepStep(f, items, gone, n)]
<1> DEFINE good(m) == \E f : DOMAIN f = 0..m /\ f = [n \in 0..m |-> KeepStep(f, items, gone, n)]
           T == {m \in Nat : good(m)}
<1>1. 0 \in T
  <2> DEFINE g == [n \in 0..0 |-> << >>]
  <2>1. \A n \in 0..0 : KeepStep(g, items, gone, n) = << >>
        BY DEF KeepStep
  <2>2. g = [n \in 0..0 |-> KeepStep(g, items, gone, n)]
        BY <2>1
  <2> QED BY <2>2
<1>2. ASSUME NEW m \in T PROVE m + 1 \in T
  <2>1. PICK f : DOMAIN f = 0..m /\ f = [n \in 0..m |-> KeepStep(f, items, gone, n)]
        OBVIOUS
  <2> DEFINE g == [n \in 0..(m + 1) |-> IF n = m + 1 THEN KeepStep(f, items, gone, n) ELSE f[n]]
  <2>2. \A n \in 0..(m + 1) : n = 0 \/ g[n - 1] = f[n - 1]
        OBVIOUS
  <2>3. \A n \in 0..(m + 1) : KeepStep(g, items, gone, n) = KeepStep(f, items, gone, n)
        BY <2>2 DEF KeepStep
  <2>4. \A n \in 0..(m + 1) : g[n] = KeepStep(f, items, gone, n)
    <3>1. \A n \in 0..m : f[n] = KeepStep(f, items, gone, n)
          BY <2>1
    <3>2. \A n \in 0..(m + 1) : n = m + 1 \/ n \in 0..m
          OBVIOUS
    <3> QED BY <3>1, <3>2
  <2>5. g = [n \in 0..(m + 1) |-> g[n]] /\ DOMAIN g = 0..(m + 1)
        OBVIOUS
  <2> HIDE DEF g
  <2>6. g = [n \in 0..(m + 1) |-> KeepStep(g, items, gone, n)]
        BY <2>3, <2>4, <2>5
  <2> QED BY <2>5, <2>6
<1>3. T = Nat
      BY <1>1, <1>2, Induction
<1> QED BY <1>3

LEMMA RemainingIs ==
    ASSUME NEW items, NEW gone, List(items)
    PROVE  \E f : /\ Remaining(items, gone) = f[Len(items)]
                  /\ \A n \in 0..Len(items) : f[n] = KeepStep(f, items, gone, n)
<1>1. Len(items) \in Nat
      BY ListFacts
<1> DEFINE f == CHOOSE f : f = [n \in 0..Len(items) |-> KeepStep(f, items, gone, n)]
<1>2. Remaining(items, gone) = f[Len(items)]
      BY DEF Remaining, KeepStep
<1>3. f = [n \in 0..Len(items) |-> KeepStep(f, items, gone, n)]
      BY <1>1, RemainingExists
<1> HIDE DEF f
<1> QED BY <1>2, <1>3

\* ... of PutAll.
PutStep(f, items, added, n) ==
    IF n = 0 THEN items ELSE Put(f[n - 1], added[n])

LEMMA PutAllExists ==
    ASSUME NEW items, NEW added, NEW last \in Nat
    PROVE  \E f : f = [n \in 0..last |-> PutStep(f, items, added, n)]
<1> DEFINE good(m) == \E f : DOMAIN f = 0..m /\ f = [n \in 0..m |-> PutStep(f, items, added, n)]
           T == {m \in Nat : good(m)}
<1>1. 0 \in T
  <2> DEFINE g == [n \in 0..0 |-> items]
  <2>1. \A n \in 0..0 : PutStep(g, items, added, n) = items
        BY DEF PutStep
  <2>2. g = [n \in 0..0 |-> PutStep(g, items, added, n)]
        BY <2>1
  <2> QED BY <2>2
<1>2. ASSUME NEW m \in T PROVE m + 1 \in T
  <2>1. PICK f : DOMAIN f = 0..m /\ f = [n \in 0..m |-> PutStep(f, items, added, n)]
        OBVIOUS
  <2> DEFINE g == [n \in 0..(m + 1) |-> IF n = m + 1 THEN PutStep(f, items, added, n) ELSE f[n]]
  <2>2. \A n \in 0..(m + 1) : n = 0 \/ g[n - 1] = f[n - 1]
        OBVIOUS
  <2>3. \A n \in 0..(m + 1) : PutStep(g, items, added, n) = PutStep(f, items, added, n)
        BY <2>2 DEF PutStep
  <2>4. \A n \in 0..(m + 1) : g[n] = PutStep(f, items, added, n)
    <3>1. \A n \in 0..m : f[n] = PutStep(f, items, added, n)
          BY <2>1
    <3>2. \A n \in 0..(m + 1) : n = m + 1 \/ n \in 0..m
          OBVIOUS
    <3> QED BY <3>1, <3>2
  <2>5. g = [n \in 0..(m + 1) |-> g[n]] /\ DOMAIN g = 0..(m + 1)
        OBVIOUS
  <2> HIDE DEF g
  <2>6. g = [n \in 0..(m + 1) |-> PutStep(g, items, added, n)]
        BY <2>3, <2>4, <2>5
  <2> QED BY <2>5, <2>6
<1>3. T = Nat
      BY <1>1, <1>2, Induction
<1> QED BY <1>3

LEMMA PutAllIs ==
    ASSUME NEW items, NEW added, List(added)
    PROVE  \E f : /\ PutAll(items, added) = f[Len(added)]
                  /\ \A n \in 0..Len(added) : f[n] = PutStep(f, items, added, n)
<1>1. Len(added) \in Nat
      BY ListFacts
<1> DEFINE f == CHOOSE f : f = [n \in 0..Len(added) |-> PutStep(f, items, added, n)]
<1>2. PutAll(items, added) = f[Len(added)]
      BY DEF PutAll, PutStep
<1>3. f = [n \in 0..Len(added) |-> PutStep(f, items, added, n)]
      BY <1>1, PutAllExists
<1> HIDE DEF f
<1> QED BY <1>2, <1>3

\* ... of LinkNotes.
NotesStep(f, c, notes, n) ==
    IF n = 0 THEN c ELSE LinkNote(f[n - 1], notes[n])

LEMMA LinkNotesExists ==
    ASSUME NEW c, NEW notes, NEW last \in Nat
    PROVE  \E f : f = [n \in 0..last |-> NotesStep(f, c, notes, n)]
<1> DEFINE good(m) == \E f : DOMAIN f = 0..m /\ f = [n \in 0..m |-> NotesStep(f, c, notes, n)]
           T == {m \in Nat : good(m)}
<1>1. 0 \in T
  <2> DEFINE g == [n \in 0..0 |-> c]
  <2>1. \A n \in 0..0 : NotesStep(g, c, notes, n) = c
        BY DEF NotesStep
  <2>2. g = [n \in 0..0 |-> NotesStep(g, c, notes, n)]
        BY <2>1
  <2> QED BY <2>2
<1>2. ASSUME NEW m \in T PROVE m + 1 \in T
  <2>1. PICK f : DOMAIN f = 0..m /\ f = [n \in 0..m |-> NotesStep(f, c, notes, n)]
        OBVIOUS
  <2> DEFINE g == [n \in 0..(m + 1) |-> IF n = m + 1 THEN NotesStep(f, c, notes, n) ELSE f[n]]
  <2>2. \A n \in 0..(m + 1) : n = 0 \/ g[n - 1] = f[n - 1]
        OBVIOUS
  <2>3. \A n \in 0..(m + 1) : NotesStep(g, c, notes, n) = NotesStep(f, c, notes, n)
        BY <2>2 DEF NotesStep
  <2>4. \A n \in 0..(m + 1) : g[n] = NotesStep(f, c, notes, n)
    <3>1. \A n \in 0..m : f[n] = NotesStep(f, c, notes, n)
          BY <2>1
    <3>2. \A n \in 0..(m + 1) : n = m + 1 \/ n \in 0..m
          OBVIOUS
    <3> QED BY <3>1, <3>2
  <2>5. g = [n \in 0..(m + 1) |-> g[n]] /\ DOMAIN g = 0..(m + 1)
        OBVIOUS
  <2> HIDE DEF g
  <2>6. g = [n \in 0..(m + 1) |-> NotesStep(g, c, notes, n)]
        BY <2>3, <2>4, <2>5
  <2> QED BY <2>5, <2>6
<1>3. T = Nat
      BY <1>1, <1>2, Induction
<1> QED BY <1>3

LEMMA LinkNotesIs ==
    ASSUME NEW c, NEW notes, List(notes)
    PROVE  \E f : /\ LinkNotes(c, notes) = f[Len(notes)]
                  /\ \A n \in 0..Len(notes) : f[n] = NotesStep(f, c, notes, n)
<1>1. Len(notes) \in Nat
      BY ListFacts
<1> DEFINE f == CHOOSE f : f = [n \in 0..Len(notes) |-> NotesStep(f, c, notes, n)]
<1>2. LinkNotes(c, notes) = f[Len(notes)]
      BY DEF LinkNotes, NotesStep
<1>3. f = [n \in 0..Len(notes) |-> NotesStep(f, c, notes, n)]
      BY <1>1, LinkNotesExists
<1> HIDE DEF f
<1> QED BY <1>2, <1>3

\* ... of LinkEntries.
EntriesStep(f, c, entries, n) ==
    IF n = 0 THEN c ELSE LinkDiary(f[n - 1], entries[n])

LEMMA LinkEntriesExists ==
    ASSUME NEW c, NEW entries, NEW last \in Nat
    PROVE  \E f : f = [n \in 0..last |-> EntriesStep(f, c, entries, n)]
<1> DEFINE good(m) == \E f : DOMAIN f = 0..m /\ f = [n \in 0..m |-> EntriesStep(f, c, entries, n)]
           T == {m \in Nat : good(m)}
<1>1. 0 \in T
  <2> DEFINE g == [n \in 0..0 |-> c]
  <2>1. \A n \in 0..0 : EntriesStep(g, c, entries, n) = c
        BY DEF EntriesStep
  <2>2. g = [n \in 0..0 |-> EntriesStep(g, c, entries, n)]
        BY <2>1
  <2> QED BY <2>2
<1>2. ASSUME NEW m \in T PROVE m + 1 \in T
  <2>1. PICK f : DOMAIN f = 0..m /\ f = [n \in 0..m |-> EntriesStep(f, c, entries, n)]
        OBVIOUS
  <2> DEFINE g == [n \in 0..(m + 1) |-> IF n = m + 1 THEN EntriesStep(f, c, entries, n) ELSE f[n]]
  <2>2. \A n \in 0..(m + 1) : n = 0 \/ g[n - 1] = f[n - 1]
        OBVIOUS
  <2>3. \A n \in 0..(m + 1) : EntriesStep(g, c, entries, n) = EntriesStep(f, c, entries, n)
        BY <2>2 DEF EntriesStep
  <2>4. \A n \in 0..(m + 1) : g[n] = EntriesStep(f, c, entries, n)
    <3>1. \A n \in 0..m : f[n] = EntriesStep(f, c, entries, n)
          BY <2>1
    <3>2. \A n \in 0..(m + 1) : n = m + 1 \/ n \in 0..m
          OBVIOUS
    <3> QED BY <3>1, <3>2
  <2>5. g = [n \in 0..(m + 1) |-> g[n]] /\ DOMAIN g = 0..(m + 1)
        OBVIOUS
  <2> HIDE DEF g
  <2>6. g = [n \in 0..(m + 1) |-> EntriesStep(g, c, entries, n)]
        BY <2>3, <2>4, <2>5
  <2> QED BY <2>5, <2>6
<1>3. T = Nat
      BY <1>1, <1>2, Induction
<1> QED BY <1>3

LEMMA LinkEntriesIs ==
    ASSUME NEW c, NEW entries, List(entries)
    PROVE  \E f : /\ LinkEntries(c, entries) = f[Len(entries)]
                  /\ \A n \in 0..Len(entries) : f[n] = EntriesStep(f, c, entries, n)
<1>1. Len(entries) \in Nat
      BY ListFacts
<1> DEFINE f == CHOOSE f : f = [n \in 0..Len(entries) |-> EntriesStep(f, c, entries, n)]
<1>2. LinkEntries(c, entries) = f[Len(entries)]
      BY DEF LinkEntries, EntriesStep
<1>3. f = [n \in 0..Len(entries) |-> EntriesStep(f, c, entries, n)]
      BY <1>1, LinkEntriesExists
<1> HIDE DEF f
<1> QED BY <1>2, <1>3

\* ... of Purged.
PurgeStep(f, c, ids, n) ==
    IF n = 0 THEN c
    ELSE IF c.notes[n].id \in ids THEN DeleteMemory(f[n - 1], c.notes[n].id) ELSE f[n - 1]

LEMMA PurgedExists ==
    ASSUME NEW c, NEW ids, NEW last \in Nat
    PROVE  \E f : f = [n \in 0..last |-> PurgeStep(f, c, ids, n)]
<1> DEFINE good(m) == \E f : DOMAIN f = 0..m /\ f = [n \in 0..m |-> PurgeStep(f, c, ids, n)]
           T == {m \in Nat : good(m)}
<1>1. 0 \in T
  <2> DEFINE g == [n \in 0..0 |-> c]
  <2>1. \A n \in 0..0 : PurgeStep(g, c, ids, n) = c
        BY DEF PurgeStep
  <2>2. g = [n \in 0..0 |-> PurgeStep(g, c, ids, n)]
        BY <2>1
  <2> QED BY <2>2
<1>2. ASSUME NEW m \in T PROVE m + 1 \in T
  <2>1. PICK f : DOMAIN f = 0..m /\ f = [n \in 0..m |-> PurgeStep(f, c, ids, n)]
        OBVIOUS
  <2> DEFINE g == [n \in 0..(m + 1) |-> IF n = m + 1 THEN PurgeStep(f, c, ids, n) ELSE f[n]]
  <2>2. \A n \in 0..(m + 1) : n = 0 \/ g[n - 1] = f[n - 1]
        OBVIOUS
  <2>3. \A n \in 0..(m + 1) : PurgeStep(g, c, ids, n) = PurgeStep(f, c, ids, n)
        BY <2>2 DEF PurgeStep
  <2>4. \A n \in 0..(m + 1) : g[n] = PurgeStep(f, c, ids, n)
    <3>1. \A n \in 0..m : f[n] = PurgeStep(f, c, ids, n)
          BY <2>1
    <3>2. \A n \in 0..(m + 1) : n = m + 1 \/ n \in 0..m
          OBVIOUS
    <3> QED BY <3>1, <3>2
  <2>5. g = [n \in 0..(m + 1) |-> g[n]] /\ DOMAIN g = 0..(m + 1)
        OBVIOUS
  <2> HIDE DEF g
  <2>6. g = [n \in 0..(m + 1) |-> PurgeStep(g, c, ids, n)]
        BY <2>3, <2>4, <2>5
  <2> QED BY <2>5, <2>6
<1>3. T = Nat
      BY <1>1, <1>2, Induction
<1> QED BY <1>3

LEMMA PurgedIs ==
    ASSUME NEW c, NEW ids, List(c.notes)
    PROVE  \E f : /\ Purged(c, ids) = f[Len(c.notes)]
                  /\ \A n \in 0..Len(c.notes) : f[n] = PurgeStep(f, c, ids, n)
<1>1. Len(c.notes) \in Nat
      BY ListFacts
<1> DEFINE f == CHOOSE f : f = [n \in 0..Len(c.notes) |-> PurgeStep(f, c, ids, n)]
<1>2. Purged(c, ids) = f[Len(c.notes)]
      BY DEF Purged, PurgeStep
<1>3. f = [n \in 0..Len(c.notes) |-> PurgeStep(f, c, ids, n)]
      BY <1>1, PurgedExists
<1> HIDE DEF f
<1> QED BY <1>2, <1>3

\* ... of WithNodes.
NodesStep(f, c, nodes, n) ==
    IF n = 0 THEN c ELSE AddNode(f[n - 1], nodes[n])

LEMMA WithNodesExists ==
    ASSUME NEW c, NEW nodes, NEW last \in Nat
    PROVE  \E f : f = [n \in 0..last |-> NodesStep(f, c, nodes, n)]
<1> DEFINE good(m) == \E f : DOMAIN f = 0..m /\ f = [n \in 0..m |-> NodesStep(f, c, nodes, n)]
           T == {m \in Nat : good(m)}
<1>1. 0 \in T
  <2> DEFINE g == [n \in 0..0 |-> c]
  <2>1. \A n \in 0..0 : NodesStep(g, c, nodes, n) = c
        BY DEF NodesStep
  <2>2. g = [n \in 0..0 |-> NodesStep(g, c, nodes, n)]
        BY <2>1
  <2> QED BY <2>2
<1>2. ASSUME NEW m \in T PROVE m + 1 \in T
  <2>1. PICK f : DOMAIN f = 0..m /\ f = [n \in 0..m |-> NodesStep(f, c, nodes, n)]
        OBVIOUS
  <2> DEFINE g == [n \in 0..(m + 1) |-> IF n = m + 1 THEN NodesStep(f, c, nodes, n) ELSE f[n]]
  <2>2. \A n \in 0..(m + 1) : n = 0 \/ g[n - 1] = f[n - 1]
        OBVIOUS
  <2>3. \A n \in 0..(m + 1) : NodesStep(g, c, nodes, n) = NodesStep(f, c, nodes, n)
        BY <2>2 DEF NodesStep
  <2>4. \A n \in 0..(m + 1) : g[n] = NodesStep(f, c, nodes, n)
    <3>1. \A n \in 0..m : f[n] = NodesStep(f, c, nodes, n)
          BY <2>1
    <3>2. \A n \in 0..(m + 1) : n = m + 1 \/ n \in 0..m
          OBVIOUS
    <3> QED BY <3>1, <3>2
  <2>5. g = [n \in 0..(m + 1) |-> g[n]] /\ DOMAIN g = 0..(m + 1)
        OBVIOUS
  <2> HIDE DEF g
  <2>6. g = [n \in 0..(m + 1) |-> NodesStep(g, c, nodes, n)]
        BY <2>3, <2>4, <2>5
  <2> QED BY <2>5, <2>6
<1>3. T = Nat
      BY <1>1, <1>2, Induction
<1> QED BY <1>3

LEMMA WithNodesIs ==
    ASSUME NEW c, NEW nodes, List(nodes)
    PROVE  \E f : /\ WithNodes(c, nodes) = f[Len(nodes)]
                  /\ \A n \in 0..Len(nodes) : f[n] = NodesStep(f, c, nodes, n)
<1>1. Len(nodes) \in Nat
      BY ListFacts
<1> DEFINE f == CHOOSE f : f = [n \in 0..Len(nodes) |-> NodesStep(f, c, nodes, n)]
<1>2. WithNodes(c, nodes) = f[Len(nodes)]
      BY DEF WithNodes, NodesStep
<1>3. f = [n \in 0..Len(nodes) |-> NodesStep(f, c, nodes, n)]
      BY <1>1, WithNodesExists
<1> HIDE DEF f
<1> QED BY <1>2, <1>3

\* ... of WithEdges.
EdgesStep(f, c, edges, n) ==
    IF n = 0 THEN c
    ELSE AddEdgeWithId(f[n - 1], edges[n].id, edges[n].source, edges[n].target, edges[n].relation)

LEMMA WithEdgesExists ==
    ASSUME NEW c, NEW edges, NEW last \in Nat
    PROVE  \E f : f = [n \in 0..last |-> EdgesStep(f, c, edges, n)]
<1> DEFINE good(m) == \E f : DOMAIN f = 0..m /\ f = [n \in 0..m |-> EdgesStep(f, c, edges, n)]
           T == {m \in Nat : good(m)}
<1>1. 0 \in T
  <2> DEFINE g == [n \in 0..0 |-> c]
  <2>1. \A n \in 0..0 : EdgesStep(g, c, edges, n) = c
        BY DEF EdgesStep
  <2>2. g = [n \in 0..0 |-> EdgesStep(g, c, edges, n)]
        BY <2>1
  <2> QED BY <2>2
<1>2. ASSUME NEW m \in T PROVE m + 1 \in T
  <2>1. PICK f : DOMAIN f = 0..m /\ f = [n \in 0..m |-> EdgesStep(f, c, edges, n)]
        OBVIOUS
  <2> DEFINE g == [n \in 0..(m + 1) |-> IF n = m + 1 THEN EdgesStep(f, c, edges, n) ELSE f[n]]
  <2>2. \A n \in 0..(m + 1) : n = 0 \/ g[n - 1] = f[n - 1]
        OBVIOUS
  <2>3. \A n \in 0..(m + 1) : EdgesStep(g, c, edges, n) = EdgesStep(f, c, edges, n)
        BY <2>2 DEF EdgesStep
  <2>4. \A n \in 0..(m + 1) : g[n] = EdgesStep(f, c, edges, n)
    <3>1. \A n \in 0..m : f[n] = EdgesStep(f, c, edges, n)
          BY <2>1
    <3>2. \A n \in 0..(m + 1) : n = m + 1 \/ n \in 0..m
          OBVIOUS
    <3> QED BY <3>1, <3>2
  <2>5. g = [n \in 0..(m + 1) |-> g[n]] /\ DOMAIN g = 0..(m + 1)
        OBVIOUS
  <2> HIDE DEF g
  <2>6. g = [n \in 0..(m + 1) |-> EdgesStep(g, c, edges, n)]
        BY <2>3, <2>4, <2>5
  <2> QED BY <2>5, <2>6
<1>3. T = Nat
      BY <1>1, <1>2, Induction
<1> QED BY <1>3

LEMMA WithEdgesIs ==
    ASSUME NEW c, NEW edges, List(edges)
    PROVE  \E f : /\ WithEdges(c, edges) = f[Len(edges)]
                  /\ \A n \in 0..Len(edges) : f[n] = EdgesStep(f, c, edges, n)
<1>1. Len(edges) \in Nat
      BY ListFacts
<1> DEFINE f == CHOOSE f : f = [n \in 0..Len(edges) |-> EdgesStep(f, c, edges, n)]
<1>2. WithEdges(c, edges) = f[Len(edges)]
      BY DEF WithEdges, EdgesStep
<1>3. f = [n \in 0..Len(edges) |-> EdgesStep(f, c, edges, n)]
      BY <1>1, WithEdgesExists
<1> HIDE DEF f
<1> QED BY <1>2, <1>3

-------------------------------------------------------------------------------
(* What is left of a collection *)

\* What the loop has kept lies in the same order as before: each item at a place
\* of its own.
Within(kept, items, gone, last) ==
    /\ List(kept)
    /\ \E place \in [1..Len(kept) -> 1..last] :
        /\ \A i \in 1..Len(kept) : kept[i] = items[place[i]]
        /\ \A i, j \in 1..Len(kept) : place[i] = place[j] => i = j
    /\ \A i \in 1..last : items[i] \notin gone => items[i] \in ToSet(kept)
    /\ \A x \in ToSet(kept) : x \notin gone

LEMMA RemainingWithin ==
    ASSUME NEW items, NEW gone, List(items)
    PROVE  Within(Remaining(items, gone), items, gone, Len(items))
<1>1. PICK f : /\ Remaining(items, gone) = f[Len(items)]
               /\ \A n \in 0..Len(items) : f[n] = KeepStep(f, items, gone, n)
      BY RemainingIs
<1>2. Len(items) \in Nat
      BY ListFacts
<1> DEFINE T == {n \in Nat : n =< Len(items) => Within(f[n], items, gone, n)}
<1>3. 0 \in T
  <2>1. f[0] = << >>
        BY <1>1, <1>2 DEF KeepStep
  <2>2. 1..0 = {} /\ 1..Len(<< >>) = {}
        BY NoneListed
  <2>3. << >> \in [1..Len(<< >>) -> 1..0]
        BY <2>2
  <2>4. Within(<< >>, items, gone, 0)
        BY <2>2, <2>3, NoneListed DEF Within
  <2> QED BY <2>1, <2>4
<1>4. ASSUME NEW n \in T PROVE n + 1 \in T
  <2> SUFFICES ASSUME n + 1 =< Len(items) PROVE Within(f[n + 1], items, gone, n + 1)
      OBVIOUS
  <2>1. Within(f[n], items, gone, n)
        BY <1>2
  <2>2. f[n + 1] = IF items[n + 1] \in gone THEN f[n] ELSE Append(f[n], items[n + 1])
    <3>1. f[n + 1] = KeepStep(f, items, gone, n + 1) /\ n + 1 # 0 /\ (n + 1) - 1 = n
          BY <1>1, <1>2
    <3> QED BY <3>1 DEF KeepStep
  <2> DEFINE k == f[n]
  <2>3. PICK place \in [1..Len(k) -> 1..n] :
            /\ \A i \in 1..Len(k) : k[i] = items[place[i]]
            /\ \A i, j \in 1..Len(k) : place[i] = place[j] => i = j
        BY <2>1 DEF Within
  <2>4. /\ List(k) /\ Len(k) \in Nat
        /\ \A i \in 1..n : items[i] \notin gone => items[i] \in ToSet(k)
        /\ \A x \in ToSet(k) : x \notin gone
        BY <2>1, ListFacts DEF Within
  <2> HIDE DEF k
  <2>5. CASE items[n + 1] \in gone
    <3>1. place \in [1..Len(k) -> 1..(n + 1)]
          BY <2>3
    <3>2. \A i \in 1..(n + 1) : items[i] \notin gone => items[i] \in ToSet(k)
      <4>1. \A i \in 1..(n + 1) : i \in 1..n \/ i = n + 1
            OBVIOUS
      <4> QED BY <2>4, <2>5, <4>1
    <3>3. Within(k, items, gone, n + 1)
          BY <2>3, <2>4, <3>1, <3>2 DEF Within
    <3> QED BY <2>2, <2>5, <3>3 DEF k
  <2>6. CASE items[n + 1] \notin gone
    <3> DEFINE t == Append(k, items[n + 1])
    <3>1. /\ List(t) /\ Len(t) = Len(k) + 1
          /\ \A i \in 1..Len(k) : t[i] = k[i]
          /\ t[Len(k) + 1] = items[n + 1] /\ ToSet(t) = ToSet(k) \cup {items[n + 1]}
          BY <2>4, Appended
    <3> HIDE DEF t
    <3> DEFINE there == [i \in 1..Len(t) |-> IF i = Len(k) + 1 THEN n + 1 ELSE place[i]]
    <3>2. \A i \in 1..Len(t) : i \in 1..Len(k) \/ i = Len(k) + 1
          BY <2>4, <3>1
    <3>3. \A i \in 1..Len(k) : place[i] \in 1..n /\ i # Len(k) + 1
          BY <2>3, <2>4
    <3>4. there \in [1..Len(t) -> 1..(n + 1)]
          BY <3>2, <3>3
    <3>5. \A i \in 1..Len(t) : t[i] = items[there[i]]
          BY <2>3, <3>1, <3>2, <3>3
    <3>6. \A i, j \in 1..Len(t) : there[i] = there[j] => i = j
          BY <2>3, <3>2, <3>3
    <3>7. \A i \in 1..(n + 1) : items[i] \notin gone => items[i] \in ToSet(t)
      <4>1. \A i \in 1..(n + 1) : i \in 1..n \/ i = n + 1
            OBVIOUS
      <4> QED BY <2>4, <3>1, <4>1
    <3>8. \A x \in ToSet(t) : x \notin gone
          BY <2>4, <2>6, <3>1
    <3> HIDE DEF there
    <3>9. Within(t, items, gone, n + 1)
          BY <3>1, <3>4, <3>5, <3>6, <3>7, <3>8 DEF Within
    <3> QED BY <2>2, <2>6, <3>9 DEF t, k
  <2> QED BY <2>5, <2>6
<1>5. T \in SUBSET Nat
      OBVIOUS
<1> HIDE DEF T
<1>6. Len(items) \in T
      BY <1>2, <1>3, <1>4, <1>5, Induction
<1> QED BY <1>1, <1>2, <1>6 DEF T

\* So items that differed in something still do.
LEMMA RemainingFacts ==
    ASSUME NEW items, NEW gone, List(items)
    PROVE  /\ List(Remaining(items, gone))
           /\ ToSet(Remaining(items, gone)) = ToSet(items) \ gone
           /\ Distinct(items) => Distinct(Remaining(items, gone))
           /\ (\A i, j \in DOMAIN items : Ends(items[i]) = Ends(items[j]) => i = j)
              => \A i, j \in DOMAIN Remaining(items, gone) :
                    Ends(Remaining(items, gone)[i]) = Ends(Remaining(items, gone)[j]) => i = j
<1> DEFINE r == Remaining(items, gone)
<1>1. Within(r, items, gone, Len(items))
      BY RemainingWithin
<1> HIDE DEF r
<1>2. PICK place \in [1..Len(r) -> 1..Len(items)] :
        /\ \A i \in 1..Len(r) : r[i] = items[place[i]]
        /\ \A i, j \in 1..Len(r) : place[i] = place[j] => i = j
      BY <1>1 DEF Within
<1>3. /\ List(r) /\ DOMAIN r = 1..Len(r)
      /\ DOMAIN items = 1..Len(items) /\ \A i \in 1..Len(items) : items[i] \in ToSet(items)
      BY <1>1, ListFacts DEF Within
<1>4. \A i \in 1..Len(r) : place[i] \in 1..Len(items)
      BY <1>2
<1>5. ASSUME NEW x PROVE x \in ToSet(r) <=> x \in ToSet(items) \ gone
  <2>1. ASSUME x \in ToSet(r) PROVE x \in ToSet(items) \ gone
    <3>1. PICK i \in 1..Len(r) : x = r[i]
          BY <1>3, <2>1, ToSetIs
    <3> QED BY <1>1, <1>2, <1>3, <1>4, <2>1, <3>1 DEF Within
  <2>2. ASSUME x \in ToSet(items) \ gone PROVE x \in ToSet(r)
    <3>1. PICK i \in 1..Len(items) : x = items[i]
          BY <1>3, <2>2, ToSetIs
    <3> QED BY <1>1, <2>2, <3>1 DEF Within
  <2> QED BY <2>1, <2>2
<1>6. Distinct(items) => Distinct(r)
      BY <1>2, <1>3, <1>4 DEF Distinct
<1>7. (\A i, j \in DOMAIN items : Ends(items[i]) = Ends(items[j]) => i = j)
      => \A i, j \in DOMAIN r : Ends(r[i]) = Ends(r[j]) => i = j
      BY <1>2, <1>3, <1>4
<1> QED BY <1>3, <1>5, <1>6, <1>7 DEF r

LEMMA WithoutFacts ==
    ASSUME NEW items, List(items), Distinct(items), NEW id
    PROVE  /\ List(Without(items, id)) /\ Distinct(Without(items, id))
           /\ ToSet(Without(items, id)) = {x \in ToSet(items) : x.id # id}
<1> DEFINE gone == {item \in ToSet(items) : item.id = id}
<1>1. Without(items, id) = Remaining(items, gone)
      BY DEF Without
<1>2. ToSet(items) \ gone = {x \in ToSet(items) : x.id # id}
      OBVIOUS
<1> HIDE DEF gone
<1> QED BY <1>1, <1>2, RemainingFacts

\* Several items are put one by one.
LEMMA PutAllFacts ==
    ASSUME NEW items, List(items), Distinct(items), NEW added, List(added), Distinct(added)
    PROVE  /\ List(PutAll(items, added)) /\ Distinct(PutAll(items, added))
           /\ ToSet(added) \subseteq ToSet(PutAll(items, added))
           /\ ToSet(PutAll(items, added)) \subseteq ToSet(items) \cup ToSet(added)
           /\ Ids(PutAll(items, added)) = Ids(items) \cup Ids(added)
<1>1. PICK f : /\ PutAll(items, added) = f[Len(added)]
               /\ \A n \in 0..Len(added) : f[n] = PutStep(f, items, added, n)
      BY PutAllIs
<1>2. Len(added) \in Nat /\ DOMAIN added = 1..Len(added) /\ \A i \in 1..Len(added) : added[i] \in ToSet(added)
      BY ListFacts
<1> DEFINE Good(s, n) ==
        /\ List(s) /\ Distinct(s)
        /\ \A i \in 1..n : added[i] \in ToSet(s)
        /\ ToSet(s) \subseteq ToSet(items) \cup ToSet(added)
        /\ \A x : x \in Ids(s) <=> x \in Ids(items) \/ \E i \in 1..n : added[i].id = x
    T == {n \in Nat : n =< Len(added) => Good(f[n], n)}
<1>3. 0 \in T
  <2>1. f[0] = items
        BY <1>1, <1>2 DEF PutStep
  <2>2. 1..0 = {}
        OBVIOUS
  <2> QED BY <2>1, <2>2
<1>4. ASSUME NEW n \in T PROVE n + 1 \in T
  <2> SUFFICES ASSUME n + 1 =< Len(added) PROVE Good(f[n + 1], n + 1)
      OBVIOUS
  <2> DEFINE x == added[n + 1]
             s == f[n]
             p == Put(s, x)
  <2>1. Good(s, n)
        BY <1>2
  <2>2. f[n + 1] = p
    <3>1. f[n + 1] = PutStep(f, items, added, n + 1) /\ n + 1 # 0 /\ (n + 1) - 1 = n
          BY <1>1, <1>2
    <3> QED BY <3>1 DEF PutStep
  <2>3. /\ List(p) /\ Distinct(p)
        /\ ToSet(p) = {y \in ToSet(s) : y.id # x.id} \cup {x}
        /\ Ids(p) = Ids(s) \cup {x.id}
        BY <2>1, PutFacts
  <2>4. n + 1 \in 1..Len(added) /\ x \in ToSet(added) /\ \A i \in 1..n : i \in 1..Len(added) /\ i # n + 1
        BY <1>2
  <2>5. \A i \in 1..(n + 1) : i \in 1..n \/ i = n + 1
        OBVIOUS
  <2>6. \A i \in 1..n : added[i].id # x.id
        BY <1>2, <2>4 DEF Distinct
  <2>7. \A i \in 1..(n + 1) : added[i] \in ToSet(p)
        BY <2>1, <2>3, <2>5, <2>6
  <2>8. ToSet(p) \subseteq ToSet(items) \cup ToSet(added)
        BY <2>1, <2>3, <2>4
  <2>9. \A y : y \in Ids(p) <=> y \in Ids(items) \/ \E i \in 1..(n + 1) : added[i].id = y
    <3>1. \A i \in 1..n : i \in 1..(n + 1)
          OBVIOUS
    <3>2. n + 1 \in 1..(n + 1)
          OBVIOUS
    <3> QED BY <2>1, <2>3, <2>5, <3>1, <3>2
  <2> HIDE DEF p, x, s
  <2> QED BY <2>2, <2>3, <2>7, <2>8, <2>9
<1>5. T \in SUBSET Nat
      OBVIOUS
<1> HIDE DEF T
<1>6. Len(added) \in T
      BY <1>2, <1>3, <1>4, <1>5, Induction
<1>7. Good(PutAll(items, added), Len(added))
      BY <1>1, <1>2, <1>6 DEF T
<1>8. ToSet(added) \subseteq ToSet(PutAll(items, added))
  <2>1. \A y \in ToSet(added) : \E i \in 1..Len(added) : y = added[i]
        BY <1>2, ToSetIs
  <2> QED BY <1>7, <2>1
<1>9. Ids(PutAll(items, added)) = Ids(items) \cup Ids(added)
  <2>1. \A y : y \in Ids(added) <=> \E i \in 1..Len(added) : added[i].id = y
        BY <1>2, IdsAre, ToSetIs
  <2> QED BY <1>7, <2>1
<1> QED BY <1>7, <1>8, <1>9

-------------------------------------------------------------------------------
(* Cores *)

IsCore(c) == c = [notes |-> c.notes, diary |-> c.diary, nodes |-> c.nodes, edges |-> c.edges]
Core(notes, diary, nodes, edges) == [notes |-> notes, diary |-> diary, nodes |-> nodes, edges |-> edges]

LEMMA CoreParts ==
    ASSUME NEW notes, NEW diary, NEW nodes, NEW edges
    PROVE  /\ IsCore(Core(notes, diary, nodes, edges))
           /\ Core(notes, diary, nodes, edges).notes = notes
           /\ Core(notes, diary, nodes, edges).diary = diary
           /\ Core(notes, diary, nodes, edges).nodes = nodes
           /\ Core(notes, diary, nodes, edges).edges = edges
  BY DEF IsCore, Core

LEMMA CoreExcept ==
    ASSUME NEW c, IsCore(c)
    PROVE  /\ \A v : [c EXCEPT !.notes = v] = Core(v, c.diary, c.nodes, c.edges)
           /\ \A v : [c EXCEPT !.diary = v] = Core(c.notes, v, c.nodes, c.edges)
           /\ \A v : [c EXCEPT !.nodes = v] = Core(c.notes, c.diary, v, c.edges)
           /\ \A v : [c EXCEPT !.edges = v] = Core(c.notes, c.diary, c.nodes, v)
           /\ \A v, w : [c EXCEPT !.nodes = v, !.edges = w] = Core(c.notes, c.diary, v, w)
           /\ \A v, w : [c EXCEPT !.notes = v, !.diary = w] = Core(v, w, c.nodes, c.edges)
<1>0. PICK notes, diary, nodes, edges : c = [notes |-> notes, diary |-> diary, nodes |-> nodes, edges |-> edges]
      BY DEF IsCore
<1>1. ASSUME NEW v PROVE [c EXCEPT !.notes = v] = Core(v, c.diary, c.nodes, c.edges)
      BY <1>0 DEF Core
<1>2. ASSUME NEW v PROVE [c EXCEPT !.diary = v] = Core(c.notes, v, c.nodes, c.edges)
      BY <1>0 DEF Core
<1>3. ASSUME NEW v PROVE [c EXCEPT !.nodes = v] = Core(c.notes, c.diary, v, c.edges)
      BY <1>0 DEF Core
<1>4. ASSUME NEW v PROVE [c EXCEPT !.edges = v] = Core(c.notes, c.diary, c.nodes, v)
      BY <1>0 DEF Core
<1>5. ASSUME NEW v, NEW w PROVE [c EXCEPT !.nodes = v, !.edges = w] = Core(c.notes, c.diary, v, w)
  <2>1. [c EXCEPT !.nodes = v, !.edges = w] = [[c EXCEPT !.nodes = v] EXCEPT !.edges = w]
        OBVIOUS
  <2>2. [c EXCEPT !.nodes = v] = Core(c.notes, c.diary, v, c.edges)
        BY <1>3
  <2>3. [Core(c.notes, c.diary, v, c.edges) EXCEPT !.edges = w] = Core(c.notes, c.diary, v, w)
        BY DEF Core
  <2> QED BY <2>1, <2>2, <2>3
<1>6. ASSUME NEW v, NEW w PROVE [c EXCEPT !.notes = v, !.diary = w] = Core(v, w, c.nodes, c.edges)
  <2>1. [c EXCEPT !.notes = v, !.diary = w] = [[c EXCEPT !.notes = v] EXCEPT !.diary = w]
        OBVIOUS
  <2>2. [c EXCEPT !.notes = v] = Core(v, c.diary, c.nodes, c.edges)
        BY <1>1
  <2>3. [Core(v, c.diary, c.nodes, c.edges) EXCEPT !.diary = w] = Core(v, w, c.nodes, c.edges)
        BY DEF Core
  <2> QED BY <2>1, <2>2, <2>3
<1> QED BY <1>1, <1>2, <1>3, <1>4, <1>5, <1>6

EdgesApart(edges) == \A i, j \in DOMAIN edges : Ends(edges[i]) = Ends(edges[j]) => i = j

Graph(c) ==
    /\ List(c.nodes) /\ Distinct(c.nodes)
    /\ List(c.edges) /\ Distinct(c.edges) /\ EdgesApart(c.edges)
    /\ \A e \in ToSet(c.edges) : IsEdge(e) /\ {e.source, e.target} \subseteq Ids(c.nodes)

Records(c) ==
    /\ List(c.notes) /\ Distinct(c.notes) /\ \A note \in ToSet(c.notes) : IsNote(note)
    /\ List(c.diary) /\ Distinct(c.diary) /\ \A entry \in ToSet(c.diary) : IsEntry(entry)

\* Notes and entries have their nodes, but for those that are linked late.
Mirrored(c, late) ==
    /\ \A note \in ToSet(c.notes) : MemoryNode(note.id) \notin late => MirrorOfNote(note) \in ToSet(c.nodes)
    /\ \A n \in ToSet(c.nodes) :
        n.id \in MemoryNodes => \E note \in ToSet(c.notes) : n.id = MemoryNode(note.id)
    /\ \A entry \in ToSet(c.diary) : DiaryNode(entry.id) \notin late => MirrorOfEntry(entry) \in ToSet(c.nodes)
    /\ \A n \in ToSet(c.nodes) :
        n.id \in DiaryNodes => \/ \E entry \in ToSet(c.diary) : n.id = DiaryNode(entry.id)
                               \/ n = Placeholder(n.id)

Whole(c, late) == IsCore(c) /\ Graph(c) /\ Records(c) /\ Mirrored(c, late)

LEMMA NodeIds ==
    /\ \A i, j \in RecordIds : MemoryNode(i) # DiaryNode(j)
    /\ \A i, j \in RecordIds : MemoryNode(i) = MemoryNode(j) => i = j
    /\ \A i, j \in RecordIds : DiaryNode(i) = DiaryNode(j) => i = j
    /\ \A i \in RecordIds : MemoryNode(i) \in MemoryNodes /\ MemoryNode(i) \notin DiaryNodes
    /\ \A i \in RecordIds : DiaryNode(i) \in DiaryNodes /\ DiaryNode(i) \notin MemoryNodes
<1>1. /\ \A i, j \in RecordIds : MemoryNode(i) # DiaryNode(j)
      /\ \A i, j \in RecordIds : MemoryNode(i) = MemoryNode(j) => i = j
      /\ \A i, j \in RecordIds : DiaryNode(i) = DiaryNode(j) => i = j
  <2>1. MaxId \in Nat
        BY CoreConstantsOK
  <2> QED BY <2>1 DEF RecordIds, MemoryNode, DiaryNode
<1>2. /\ \A i \in RecordIds : MemoryNode(i) \in MemoryNodes /\ MemoryNode(i) \notin DiaryNodes
      /\ \A i \in RecordIds : DiaryNode(i) \in DiaryNodes /\ DiaryNode(i) \notin MemoryNodes
      BY <1>1 DEF MemoryNodes, DiaryNodes
<1> QED BY <1>1, <1>2

LEMMA MirrorIds ==
    /\ \A note : MirrorOfNote(note).id = MemoryNode(note.id)
    /\ \A entry : MirrorOfEntry(entry).id = DiaryNode(entry.id)
    /\ \A id : Placeholder(id).id = id
  BY DEF MirrorOfNote, MirrorOfEntry, Placeholder, Node

\* What is sound is whole.
LEMMA SoundWhole ==
    ASSUME NEW c
    PROVE  Sound(c) <=> Whole(c, {})
<1>1. (Formed(c) /\ Accepted(c)) <=> (IsCore(c) /\ Graph(c) /\ Records(c))
  <2> DEFINE Lists == List(c.notes) /\ List(c.diary) /\ List(c.nodes) /\ List(c.edges)
  <2>1. IsCore(c) => ((\A collection \in DOMAIN c : c[collection] \in Seq(ToSet(c[collection]))) <=> Lists)
    <3> SUFFICES ASSUME IsCore(c)
                 PROVE  (\A collection \in DOMAIN c : c[collection] \in Seq(ToSet(c[collection]))) <=> Lists
        OBVIOUS
    <3>1. DOMAIN c = {"notes", "diary", "nodes", "edges"}
          BY DEF IsCore
    <3> QED BY <3>1 DEF List
  <2> QED BY <2>1 DEF Formed, Accepted, IsCore, Graph, Records, EdgesApart
<1>2. ASSUME Graph(c), Records(c)
      PROVE  Mirrors(c) <=> Mirrored(c, {})
  <2> DEFINE nodes == ToSet(c.nodes)
             A == {n \in nodes : n.id \in MemoryNodes}
             B == {MirrorOfNote(note) : note \in ToSet(c.notes)}
  <2>0. \A note \in ToSet(c.notes) : note.id \in RecordIds /\ MemoryNode(note.id) \in MemoryNodes
        BY <1>2, NodeIds DEF Records, IsNote
  <2>1. ASSUME A = B
        PROVE  /\ \A note \in ToSet(c.notes) : MirrorOfNote(note) \in nodes
               /\ \A n \in nodes : n.id \in MemoryNodes => \E note \in ToSet(c.notes) : n.id = MemoryNode(note.id)
        BY <2>1, MirrorIds
  <2>2. ASSUME \A note \in ToSet(c.notes) : MirrorOfNote(note) \in nodes,
               \A n \in nodes : n.id \in MemoryNodes => \E note \in ToSet(c.notes) : n.id = MemoryNode(note.id)
        PROVE  A = B
    <3>1. ASSUME NEW n \in A PROVE n \in B
      <4>1. PICK note \in ToSet(c.notes) : n.id = MemoryNode(note.id)
            BY <2>2
      <4>2. MirrorOfNote(note) \in nodes /\ MirrorOfNote(note).id = n.id
            BY <2>2, <4>1, MirrorIds
      <4>3. n = MirrorOfNote(note)
            BY <1>2, <4>2, DistinctItems DEF Graph
      <4> QED BY <4>3
    <3>2. ASSUME NEW n \in B PROVE n \in A
          BY <2>0, <2>2, MirrorIds
    <3> QED BY <3>1, <3>2
  <2>3. ({MirrorOfEntry(entry) : entry \in ToSet(c.diary)} \subseteq nodes)
        <=> \A entry \in ToSet(c.diary) : MirrorOfEntry(entry) \in nodes
        OBVIOUS
  <2>4. \A n : n.id \in {DiaryNode(entry.id) : entry \in ToSet(c.diary)}
               <=> \E entry \in ToSet(c.diary) : n.id = DiaryNode(entry.id)
        OBVIOUS
  <2>5. Mirrors(c) <=>
            /\ A = B
            /\ {MirrorOfEntry(entry) : entry \in ToSet(c.diary)} \subseteq nodes
            /\ \A n \in nodes : n.id \in DiaryNodes =>
                n.id \in {DiaryNode(entry.id) : entry \in ToSet(c.diary)} \/ n = Placeholder(n.id)
        BY DEF Mirrors
  <2>6. Mirrored(c, {}) <=>
            /\ \A note \in ToSet(c.notes) : MirrorOfNote(note) \in nodes
            /\ \A n \in nodes : n.id \in MemoryNodes => \E note \in ToSet(c.notes) : n.id = MemoryNode(note.id)
            /\ \A entry \in ToSet(c.diary) : MirrorOfEntry(entry) \in nodes
            /\ \A n \in nodes :
                n.id \in DiaryNodes => \/ \E entry \in ToSet(c.diary) : n.id = DiaryNode(entry.id)
                                       \/ n = Placeholder(n.id)
        BY DEF Mirrored
  <2> HIDE DEF A, B, nodes
  <2> QED BY <2>1, <2>2, <2>3, <2>4, <2>5, <2>6
<1> QED BY <1>1, <1>2 DEF Sound, Whole

-------------------------------------------------------------------------------
(* The graph *)

LEMMA EnsureNodeFacts ==
    ASSUME NEW c, IsCore(c), Graph(c), NEW node
    PROVE  /\ IsCore(EnsureNode(c, node)) /\ Graph(EnsureNode(c, node))
           /\ EnsureNode(c, node).notes = c.notes /\ EnsureNode(c, node).diary = c.diary
           /\ ToSet(EnsureNode(c, node).nodes) = {n \in ToSet(c.nodes) : n.id # node.id} \cup {node}
<1> DEFINE p == Put(c.nodes, node)
           d == Core(c.notes, c.diary, p, c.edges)
<1>1. EnsureNode(c, node) = d
      BY CoreExcept DEF EnsureNode
<1>2. /\ List(p) /\ Distinct(p) /\ ToSet(p) = {n \in ToSet(c.nodes) : n.id # node.id} \cup {node}
      /\ Ids(p) = Ids(c.nodes) \cup {node.id}
      BY PutFacts DEF Graph
<1> HIDE DEF p
<1>3. IsCore(d) /\ d.notes = c.notes /\ d.diary = c.diary /\ d.nodes = p /\ d.edges = c.edges
      BY CoreParts
<1> HIDE DEF d
<1>4. Graph(d)
      BY <1>2, <1>3 DEF Graph
<1> QED BY <1>1, <1>2, <1>3, <1>4

LEMMA AddNodeFacts ==
    ASSUME NEW c, IsCore(c), Graph(c), NEW node
    PROVE  /\ IsCore(AddNode(c, node)) /\ Graph(AddNode(c, node))
           /\ AddNode(c, node).notes = c.notes /\ AddNode(c, node).diary = c.diary
           /\ ToSet(AddNode(c, node).nodes) =
                IF node.id \in Ids(c.nodes) THEN ToSet(c.nodes) ELSE ToSet(c.nodes) \cup {node}
<1>1. CASE node.id \in Ids(c.nodes)
      BY <1>1 DEF AddNode
<1>2. CASE node.id \notin Ids(c.nodes)
  <2>1. \A n \in ToSet(c.nodes) : n.id # node.id
        BY <1>2, IdsAre
  <2>2. AddNode(c, node) = EnsureNode(c, node)
        BY <1>2 DEF AddNode
  <2>3. {n \in ToSet(c.nodes) : n.id # node.id} = ToSet(c.nodes)
        BY <2>1
  <2> DEFINE e == EnsureNode(c, node)
             others == {n \in ToSet(c.nodes) : n.id # node.id}
  <2>4. /\ IsCore(e) /\ Graph(e) /\ e.notes = c.notes /\ e.diary = c.diary
        /\ ToSet(e.nodes) = ToSet(c.nodes) \cup {node}
    <3>1. /\ IsCore(e) /\ Graph(e) /\ e.notes = c.notes /\ e.diary = c.diary
          /\ ToSet(e.nodes) = others \cup {node}
          BY EnsureNodeFacts, Zenon
    <3> HIDE DEF others, e
    <3> QED BY <2>3, <3>1 DEF others
  <2> HIDE DEF e
  <2> QED BY <1>2, <2>2, <2>4 DEF e
<1> QED BY <1>1, <1>2

\* There is always an identifier left.
LEMMA ListFinite ==
    ASSUME NEW s, List(s)
    PROVE  IsFiniteSet(Ids(s))
<1>1. Len(s) \in Nat /\ DOMAIN s = 1..Len(s)
      BY ListFacts
<1> DEFINE f == [i \in 1..Len(s) |-> s[i].id]
<1>2. \A id \in Ids(s) : \E i \in 1..Len(s) : f[i] = id
      BY <1>1, IdsAre, ToSetIs
<1>3. \A i \in 1..Len(s) : f[i] \in Ids(s)
      BY <1>1, IdsAre, ToSetIs
<1>4. f \in Surjection(1..Len(s), Ids(s))
      BY <1>2, <1>3 DEF Surjection
<1>5. IsFiniteSet(1..Len(s))
      BY <1>1, FS_Interval
<1> HIDE DEF f
<1> QED BY <1>4, <1>5, FS_Surjection

LEMMA NewEdgeFacts ==
    ASSUME NEW c, Graph(c)
    PROVE  NewEdge(c) \in Nat
<1> DEFINE taken == Ids(c.edges) \cup UserEdges
           count == Cardinality(taken)
<1>1. IsFiniteSet(Ids(c.edges)) /\ IsFiniteSet(UserEdges)
      BY ListFinite, CoreConstantsOK DEF Graph
<1>2. IsFiniteSet(taken)
      BY <1>1, FS_Union
<1>3. count \in Nat
      BY <1>2, FS_CardinalityType
<1>4. NewEdge(c) = CHOOSE n \in 1..(count + 1) : n \notin taken
      BY DEF NewEdge
<1> HIDE DEF taken
<1>5. \E n \in 1..(count + 1) : n \notin taken
  <2> SUFFICES ASSUME \A n \in 1..(count + 1) : n \in taken PROVE FALSE
      OBVIOUS
  <2>1. 1..(count + 1) \in SUBSET taken
        OBVIOUS
  <2>2. Cardinality(1..(count + 1)) =< count
        BY <1>2, <2>1, FS_Subset
  <2>3. 1 \in Int /\ count + 1 \in Int
        BY <1>3
  <2> HIDE DEF count
  <2>4. Cardinality(1..(count + 1)) = IF 1 > count + 1 THEN 0 ELSE (count + 1) - 1 + 1
        BY <2>3, FS_Interval
  <2> QED BY <1>3, <2>2, <2>4
<1> HIDE DEF count
<1>6. NewEdge(c) \in 1..(count + 1)
      BY <1>4, <1>5
<1> QED BY <1>3, <1>6

LEMMA AddEdgeFacts ==
    ASSUME NEW c, IsCore(c), Graph(c), NEW id \in Nat, NEW source, NEW target, NEW relation
    PROVE  /\ IsCore(AddEdgeWithId(c, id, source, target, relation))
           /\ Graph(AddEdgeWithId(c, id, source, target, relation))
           /\ AddEdgeWithId(c, id, source, target, relation).notes = c.notes
           /\ AddEdgeWithId(c, id, source, target, relation).diary = c.diary
           /\ AddEdgeWithId(c, id, source, target, relation).nodes = c.nodes
<1> DEFINE a == AddEdgeWithId(c, id, source, target, relation)
<1>1. CASE ~CanAddEdge(c, id, source, target)
  <2>1. a = c
        BY <1>1 DEF AddEdgeWithId
  <2> QED BY <2>1
<1>2. CASE CanAddEdge(c, id, source, target)
  <2> DEFINE e == [id |-> id, source |-> source, target |-> target, relation |-> Normalized(relation)]
             t == Append(c.edges, e)
             d == Core(c.notes, c.diary, c.nodes, t)
  <2>1. a = d
        BY <1>2, CoreExcept DEF AddEdgeWithId
  <2> HIDE DEF t
  <2>2. IsCore(d) /\ d.notes = c.notes /\ d.diary = c.diary /\ d.nodes = c.nodes /\ d.edges = t
        BY CoreParts
  <2> HIDE DEF d
  <2>3. /\ e.id = id /\ e.source = source /\ e.target = target
        /\ e = [id |-> e.id, source |-> e.source, target |-> e.target, relation |-> e.relation]
        /\ e.relation = Normalized(relation)
        OBVIOUS
  <2> HIDE DEF e
  <2>4. Normalized(relation) \in STARTER_RELATIONS
        BY DEF Normalized, STARTER_RELATIONS
  <2>5. IsEdge(e)
        BY <2>3, <2>4 DEF IsEdge
  <2>6. List(c.edges) /\ Distinct(c.edges) /\ EdgesApart(c.edges)
        BY DEF Graph
  <2>7. /\ List(t) /\ DOMAIN t = 1..(Len(c.edges) + 1)
        /\ \A i \in 1..Len(c.edges) : t[i] = c.edges[i]
        /\ t[Len(c.edges) + 1] = e /\ ToSet(t) = ToSet(c.edges) \cup {e}
        BY <2>6, Appended DEF t
  <2>8. /\ Len(c.edges) \in Nat /\ DOMAIN c.edges = 1..Len(c.edges)
        /\ \A i \in 1..Len(c.edges) : c.edges[i] \in ToSet(c.edges)
        BY <2>6, ListFacts
  <2>9. \A i \in 1..Len(c.edges) : c.edges[i].id # id
        BY <1>2, <2>8, IdsAre DEF CanAddEdge
  <2>10. \A i \in 1..Len(c.edges) : Ends(c.edges[i]) # Ends(e)
        BY <1>2, <2>3, <2>8 DEF CanAddEdge, Ends
  <2>11. \A i \in 1..(Len(c.edges) + 1) : i \in 1..Len(c.edges) \/ i = Len(c.edges) + 1
        BY <2>8
  <2>12. Distinct(t)
    <3> SUFFICES ASSUME NEW i \in 1..(Len(c.edges) + 1), NEW j \in 1..(Len(c.edges) + 1), t[i].id = t[j].id
                 PROVE  i = j
        BY <2>7 DEF Distinct
    <3>1. CASE i \in 1..Len(c.edges) /\ j \in 1..Len(c.edges)
          BY <2>6, <2>7, <2>8, <3>1 DEF Distinct
    <3> QED BY <2>3, <2>7, <2>9, <2>11, <3>1
  <2>13. EdgesApart(t)
    <3> SUFFICES ASSUME NEW i \in 1..(Len(c.edges) + 1), NEW j \in 1..(Len(c.edges) + 1), Ends(t[i]) = Ends(t[j])
                 PROVE  i = j
        BY <2>7 DEF EdgesApart
    <3>1. CASE i \in 1..Len(c.edges) /\ j \in 1..Len(c.edges)
          BY <2>6, <2>7, <2>8, <3>1 DEF EdgesApart
    <3> QED BY <2>7, <2>10, <2>11, <3>1
  <2>14. {e.source, e.target} \subseteq Ids(c.nodes)
        BY <1>2, <2>3 DEF CanAddEdge
  <2>15. Graph(d)
        BY <2>2, <2>5, <2>7, <2>12, <2>13, <2>14 DEF Graph
  <2> HIDE DEF a
  <2> QED BY <2>1, <2>2, <2>15 DEF a
<1> QED BY <1>1, <1>2

LEMMA RemoveNodeIs ==
    ASSUME NEW c, IsCore(c), NEW id
    PROVE  RemoveNode(c, id) =
                Core(c.notes, c.diary, Without(c.nodes, id),
                     Remaining(c.edges, {e \in ToSet(c.edges) : id \in {e.source, e.target}}))
<1> DEFINE w == Without(c.nodes, id)
           r == Remaining(c.edges, {e \in ToSet(c.edges) : id \in {e.source, e.target}})
<1>1. RemoveNode(c, id) = [c EXCEPT !.nodes = w, !.edges = r]
      BY DEF RemoveNode
<1> HIDE DEF w, r
<1>2. [c EXCEPT !.nodes = w, !.edges = r] = [[c EXCEPT !.nodes = w] EXCEPT !.edges = r]
      OBVIOUS
<1>3. [c EXCEPT !.nodes = w] = Core(c.notes, c.diary, w, c.edges)
      BY CoreExcept
<1>4. [Core(c.notes, c.diary, w, c.edges) EXCEPT !.edges = r] = Core(c.notes, c.diary, w, r)
      BY DEF Core
<1>5. RemoveNode(c, id) = Core(c.notes, c.diary, w, r)
      BY <1>1, <1>2, <1>3, <1>4
<1> QED BY <1>5 DEF w, r

LEMMA RemoveNodeFacts ==
    ASSUME NEW c, IsCore(c), Graph(c), NEW id
    PROVE  /\ IsCore(RemoveNode(c, id)) /\ Graph(RemoveNode(c, id))
           /\ RemoveNode(c, id).notes = c.notes /\ RemoveNode(c, id).diary = c.diary
           /\ ToSet(RemoveNode(c, id).nodes) = {n \in ToSet(c.nodes) : n.id # id}
<1> DEFINE w == Without(c.nodes, id)
           gone == {e \in ToSet(c.edges) : id \in {e.source, e.target}}
           r == Remaining(c.edges, gone)
           d == Core(c.notes, c.diary, w, r)
<1>1. RemoveNode(c, id) = d
      BY RemoveNodeIs
<1>2. IsCore(d) /\ d.notes = c.notes /\ d.diary = c.diary /\ d.nodes = w /\ d.edges = r
      BY CoreParts
<1>3. List(w) /\ Distinct(w) /\ ToSet(w) = {n \in ToSet(c.nodes) : n.id # id}
      BY WithoutFacts DEF Graph
<1> HIDE DEF w, d
<1>4. List(r) /\ Distinct(r) /\ EdgesApart(r) /\ ToSet(r) = ToSet(c.edges) \ gone
  <2> HIDE DEF gone
  <2> QED BY RemainingFacts DEF Graph, EdgesApart
<1> HIDE DEF r
<1>5. ASSUME NEW e \in ToSet(r) PROVE IsEdge(e) /\ {e.source, e.target} \subseteq Ids(w)
  <2>1. IsEdge(e) /\ {e.source, e.target} \subseteq Ids(c.nodes) /\ e.source # id /\ e.target # id
        BY <1>4 DEF Graph
  <2>2. \A x \in Ids(c.nodes) : x # id => x \in Ids(w)
        BY <1>3, IdsAre
  <2> QED BY <2>1, <2>2
<1>6. Graph(d)
      BY <1>2, <1>3, <1>4, <1>5 DEF Graph
<1> QED BY <1>1, <1>2, <1>3, <1>6

-------------------------------------------------------------------------------
(* The linker *)

LEMMA EnsureMirrorsNote ==
    ASSUME NEW c, NEW late, Whole(c, late), NEW note \in ToSet(c.notes)
    PROVE  /\ Whole(EnsureNode(c, MirrorOfNote(note)), late \ {MemoryNode(note.id)})
           /\ EnsureNode(c, MirrorOfNote(note)).notes = c.notes
           /\ EnsureNode(c, MirrorOfNote(note)).diary = c.diary
<1> DEFINE e == EnsureNode(c, MirrorOfNote(note))
           m == MemoryNode(note.id)
<1>1. IsCore(c) /\ Graph(c) /\ Records(c) /\ Mirrored(c, late)
      BY DEF Whole
<1>2. MirrorOfNote(note).id = m
      BY MirrorIds
<1>3. /\ IsCore(e) /\ Graph(e) /\ e.notes = c.notes /\ e.diary = c.diary
      /\ ToSet(e.nodes) = {n \in ToSet(c.nodes) : n.id # m} \cup {MirrorOfNote(note)}
  <2> DEFINE mirror == MirrorOfNote(note)
  <2>1. mirror.id = m
        BY <1>2
  <2> HIDE DEF m, mirror
  <2>2. /\ IsCore(e) /\ Graph(e) /\ e.notes = c.notes /\ e.diary = c.diary
        /\ ToSet(e.nodes) = {n \in ToSet(c.nodes) : n.id # mirror.id} \cup {mirror}
        BY <1>1, EnsureNodeFacts DEF mirror
  <2> QED BY <2>1, <2>2 DEF mirror
<1>4. note.id \in RecordIds /\ m \in MemoryNodes /\ m \notin DiaryNodes
      BY <1>1, NodeIds DEF Records, IsNote
<1> HIDE DEF e
<1>5. Records(e)
      BY <1>1, <1>3 DEF Records
<1>6. ASSUME NEW x \in ToSet(c.notes), MemoryNode(x.id) \notin late \ {m}
      PROVE  MirrorOfNote(x) \in ToSet(e.nodes)
  <2>1. CASE x.id = note.id
    <3>1. x = note
          BY <1>1, <2>1, DistinctItems DEF Records
    <3> QED BY <1>3, <3>1
  <2>2. CASE x.id # note.id
    <3>1. x.id \in RecordIds
          BY <1>1 DEF Records, IsNote
    <3>2. MemoryNode(x.id) # m
          BY <1>4, <2>2, <3>1, NodeIds
    <3> HIDE DEF m
    <3>3. MirrorOfNote(x) \in ToSet(c.nodes)
          BY <1>1, <1>6, <3>2 DEF Mirrored
    <3> QED BY <1>3, <3>2, <3>3, MirrorIds
  <2> QED BY <2>1, <2>2
<1>7. ASSUME NEW n \in ToSet(e.nodes), n.id \in MemoryNodes
      PROVE  \E x \in ToSet(c.notes) : n.id = MemoryNode(x.id)
      BY <1>1, <1>2, <1>3, <1>7 DEF Mirrored
<1>8. ASSUME NEW x \in ToSet(c.diary), DiaryNode(x.id) \notin late \ {m}
      PROVE  MirrorOfEntry(x) \in ToSet(e.nodes)
  <2>1. x.id \in RecordIds
        BY <1>1 DEF Records, IsEntry
  <2>2. DiaryNode(x.id) # m
        BY <1>4, <2>1, NodeIds
  <2> HIDE DEF m
  <2>3. MirrorOfEntry(x) \in ToSet(c.nodes)
        BY <1>1, <1>8, <2>2 DEF Mirrored
  <2> QED BY <1>3, <2>2, <2>3, MirrorIds
<1>9. ASSUME NEW n \in ToSet(e.nodes), n.id \in DiaryNodes
      PROVE  \/ \E x \in ToSet(c.diary) : n.id = DiaryNode(x.id)
             \/ n = Placeholder(n.id)
  <2>1. n \in ToSet(c.nodes)
        BY <1>2, <1>3, <1>4, <1>9
  <2> QED BY <1>1, <1>9, <2>1 DEF Mirrored
<1> HIDE DEF m
<1>10. Mirrored(e, late \ {m})
      BY <1>3, <1>6, <1>7, <1>8, <1>9 DEF Mirrored
<1> QED BY <1>3, <1>5, <1>10 DEF Whole, e, m

LEMMA EnsureMirrorsEntry ==
    ASSUME NEW c, NEW late, Whole(c, late), NEW entry \in ToSet(c.diary)
    PROVE  /\ Whole(LinkDiary(c, entry), late \ {DiaryNode(entry.id)})
           /\ LinkDiary(c, entry).notes = c.notes
           /\ LinkDiary(c, entry).diary = c.diary
<1> DEFINE e == LinkDiary(c, entry)
           m == DiaryNode(entry.id)
<1>1. IsCore(c) /\ Graph(c) /\ Records(c) /\ Mirrored(c, late)
      BY DEF Whole
<1>2. MirrorOfEntry(entry).id = m
      BY MirrorIds
<1>3. /\ IsCore(e) /\ Graph(e) /\ e.notes = c.notes /\ e.diary = c.diary
      /\ ToSet(e.nodes) = {n \in ToSet(c.nodes) : n.id # m} \cup {MirrorOfEntry(entry)}
  <2> DEFINE mirror == MirrorOfEntry(entry)
  <2>1. mirror.id = m
        BY <1>2
  <2> HIDE DEF m, mirror
  <2>2. /\ IsCore(e) /\ Graph(e) /\ e.notes = c.notes /\ e.diary = c.diary
        /\ ToSet(e.nodes) = {n \in ToSet(c.nodes) : n.id # mirror.id} \cup {mirror}
        BY <1>1, EnsureNodeFacts DEF mirror, LinkDiary
  <2> QED BY <2>1, <2>2 DEF mirror
<1>4. entry.id \in RecordIds /\ m \in DiaryNodes /\ m \notin MemoryNodes
      BY <1>1, NodeIds DEF Records, IsEntry
<1> HIDE DEF e
<1>5. Records(e)
      BY <1>1, <1>3 DEF Records
<1>6. ASSUME NEW x \in ToSet(c.notes), MemoryNode(x.id) \notin late \ {m}
      PROVE  MirrorOfNote(x) \in ToSet(e.nodes)
  <2>1. x.id \in RecordIds
        BY <1>1 DEF Records, IsNote
  <2>2. MemoryNode(x.id) # m
        BY <1>4, <2>1, NodeIds
  <2> HIDE DEF m
  <2>3. MirrorOfNote(x) \in ToSet(c.nodes)
        BY <1>1, <1>6, <2>2 DEF Mirrored
  <2> QED BY <1>3, <2>2, <2>3, MirrorIds
<1>7. ASSUME NEW n \in ToSet(e.nodes), n.id \in MemoryNodes
      PROVE  \E x \in ToSet(c.notes) : n.id = MemoryNode(x.id)
  <2>1. n \in ToSet(c.nodes)
        BY <1>2, <1>3, <1>4, <1>7
  <2> QED BY <1>1, <1>7, <2>1 DEF Mirrored
<1>8. ASSUME NEW x \in ToSet(c.diary), DiaryNode(x.id) \notin late \ {m}
      PROVE  MirrorOfEntry(x) \in ToSet(e.nodes)
  <2>1. CASE x.id = entry.id
    <3>1. x = entry
          BY <1>1, <2>1, DistinctItems DEF Records
    <3> QED BY <1>3, <3>1
  <2>2. CASE x.id # entry.id
    <3>1. x.id \in RecordIds
          BY <1>1 DEF Records, IsEntry
    <3>2. DiaryNode(x.id) # m
          BY <1>4, <2>2, <3>1, NodeIds
    <3> HIDE DEF m
    <3>3. MirrorOfEntry(x) \in ToSet(c.nodes)
          BY <1>1, <1>8, <3>2 DEF Mirrored
    <3> QED BY <1>3, <3>2, <3>3, MirrorIds
  <2> QED BY <2>1, <2>2
<1>9. ASSUME NEW n \in ToSet(e.nodes), n.id \in DiaryNodes
      PROVE  \/ \E x \in ToSet(c.diary) : n.id = DiaryNode(x.id)
             \/ n = Placeholder(n.id)
      BY <1>1, <1>2, <1>3, <1>9 DEF Mirrored
<1> HIDE DEF m
<1>10. Mirrored(e, late \ {m})
      BY <1>3, <1>6, <1>7, <1>8, <1>9 DEF Mirrored
<1> QED BY <1>3, <1>5, <1>10 DEF Whole, e, m

\* A node that is not a note's is added without data, if it is not there.
LEMMA PlaceholderWhole ==
    ASSUME NEW c, NEW late, Whole(c, late), NEW id, id \notin MemoryNodes
    PROVE  /\ Whole(AddNode(c, Placeholder(id)), late)
           /\ AddNode(c, Placeholder(id)).notes = c.notes
           /\ AddNode(c, Placeholder(id)).diary = c.diary
<1> DEFINE a == AddNode(c, Placeholder(id))
<1>1. IsCore(c) /\ Graph(c) /\ Records(c) /\ Mirrored(c, late)
      BY DEF Whole
<1>2. Placeholder(id).id = id
      BY MirrorIds
<1>3. /\ IsCore(a) /\ Graph(a) /\ a.notes = c.notes /\ a.diary = c.diary
      /\ ToSet(a.nodes) =
            IF Placeholder(id).id \in Ids(c.nodes) THEN ToSet(c.nodes) ELSE ToSet(c.nodes) \cup {Placeholder(id)}
      BY <1>1, AddNodeFacts
<1> HIDE DEF a
<1>4. Records(a)
      BY <1>1, <1>3 DEF Records
<1>5. /\ ToSet(c.nodes) \subseteq ToSet(a.nodes)
      /\ \A n \in ToSet(a.nodes) : n \in ToSet(c.nodes) \/ n = Placeholder(id)
      BY <1>3
<1>6. Mirrored(a, late)
      BY <1>1, <1>2, <1>3, <1>5 DEF Mirrored
<1> QED BY <1>3, <1>4, <1>6 DEF Whole, a

LEMMA EdgeWhole ==
    ASSUME NEW c, NEW late, Whole(c, late), NEW id \in Nat, NEW source, NEW target, NEW relation
    PROVE  /\ Whole(AddEdgeWithId(c, id, source, target, relation), late)
           /\ AddEdgeWithId(c, id, source, target, relation).notes = c.notes
           /\ AddEdgeWithId(c, id, source, target, relation).diary = c.diary
<1> DEFINE a == AddEdgeWithId(c, id, source, target, relation)
<1>1. IsCore(c) /\ Graph(c) /\ Records(c) /\ Mirrored(c, late)
      BY DEF Whole
<1>2. IsCore(a) /\ Graph(a) /\ a.notes = c.notes /\ a.diary = c.diary /\ a.nodes = c.nodes
      BY <1>1, AddEdgeFacts
<1> HIDE DEF a
<1>3. Records(a) /\ Mirrored(a, late)
      BY <1>1, <1>2 DEF Records, Mirrored
<1> QED BY <1>2, <1>3 DEF Whole, a

LEMMA LinkNoteWhole ==
    ASSUME NEW c, NEW late, Whole(c, late), NEW note \in ToSet(c.notes)
    PROVE  /\ Whole(LinkNote(c, note), late \ {MemoryNode(note.id)})
           /\ LinkNote(c, note).notes = c.notes
           /\ LinkNote(c, note).diary = c.diary
<1> DEFINE noded == EnsureNode(c, MirrorOfNote(note))
           parent == DiaryNode(note.parent)
           placed == AddNode(noded, Placeholder(parent))
           linked == AddEdge(placed, MemoryNode(note.id), parent, "derived_from")
           rest == late \ {MemoryNode(note.id)}
<1>1. LinkNote(c, note) = IF note.parent = None THEN noded ELSE linked
      BY DEF LinkNote
<1>2. Whole(noded, rest) /\ noded.notes = c.notes /\ noded.diary = c.diary
      BY EnsureMirrorsNote
<1>3. CASE note.parent = None
  <2> HIDE DEF noded, linked, rest
  <2> QED BY <1>1, <1>2, <1>3 DEF rest
<1>4. CASE note.parent # None
  <2>1. note.parent \in RecordIds
        BY <1>4 DEF Whole, Records, IsNote, Parents
  <2>2. parent \notin MemoryNodes
        BY <2>1, NodeIds
  <2> HIDE DEF noded, rest, parent
  <2>3. Whole(placed, rest) /\ placed.notes = c.notes /\ placed.diary = c.diary
        BY <1>2, <2>2, PlaceholderWhole
  <2> HIDE DEF placed
  <2>4. NewEdge(placed) \in Nat
        BY <2>3, NewEdgeFacts DEF Whole
  <2>5. Whole(linked, rest) /\ linked.notes = c.notes /\ linked.diary = c.diary
        BY <2>3, <2>4, EdgeWhole DEF AddEdge
  <2> HIDE DEF linked
  <2> QED BY <1>1, <1>4, <2>5 DEF rest
<1> QED BY <1>3, <1>4

-------------------------------------------------------------------------------
(* Operations keep a core sound *)

LEMMA PutNoteWhole ==
    ASSUME NEW c, Sound(c), NEW note, IsNote(note)
    PROVE  Sound(PutNote(c, note)) /\ PutNote(c, note).diary = c.diary
<1> DEFINE p == Put(c.notes, note)
           d == Core(p, c.diary, c.nodes, c.edges)
           m == MemoryNode(note.id)
<1>1. IsCore(c) /\ Graph(c) /\ Records(c) /\ Mirrored(c, {})
      BY SoundWhole DEF Whole
<1>2. PutNote(c, note) = LinkNote(d, note)
  <2>1. [c EXCEPT !.notes = p] = d
        BY <1>1, CoreExcept
  <2> QED BY <2>1 DEF PutNote
<1>3. /\ List(p) /\ Distinct(p) /\ ToSet(p) = {x \in ToSet(c.notes) : x.id # note.id} \cup {note}
      BY <1>1, PutFacts DEF Records
<1> HIDE DEF p
<1>4. IsCore(d) /\ d.notes = p /\ d.diary = c.diary /\ d.nodes = c.nodes /\ d.edges = c.edges
      BY CoreParts
<1> HIDE DEF d
<1>5. Graph(d) /\ Records(d)
      BY <1>1, <1>3, <1>4 DEF Graph, Records
<1>6. ASSUME NEW x \in ToSet(p), MemoryNode(x.id) \notin {m} PROVE MirrorOfNote(x) \in ToSet(c.nodes)
  <2>1. x # note
        BY <1>6
  <2> QED BY <1>1, <1>3, <2>1 DEF Mirrored
<1>7. ASSUME NEW n \in ToSet(c.nodes), n.id \in MemoryNodes
      PROVE  \E x \in ToSet(p) : n.id = MemoryNode(x.id)
  <2>1. PICK x \in ToSet(c.notes) : n.id = MemoryNode(x.id)
        BY <1>1, <1>7 DEF Mirrored
  <2>2. CASE x.id = note.id
        BY <1>3, <2>1, <2>2
  <2>3. CASE x.id # note.id
        BY <1>3, <2>1, <2>3
  <2> QED BY <2>2, <2>3
<1>8. Mirrored(d, {m})
  <2> HIDE DEF m
  <2> QED BY <1>1, <1>4, <1>6, <1>7 DEF Mirrored
<1>9. Whole(d, {m}) /\ note \in ToSet(d.notes)
      BY <1>3, <1>4, <1>5, <1>8 DEF Whole
<1>10. Whole(LinkNote(d, note), {m} \ {m}) /\ LinkNote(d, note).diary = d.diary
      BY <1>9, LinkNoteWhole
<1>11. {m} \ {m} = {}
      OBVIOUS
<1> HIDE DEF m
<1> QED BY <1>2, <1>4, <1>10, <1>11, SoundWhole

LEMMA PutEntryWhole ==
    ASSUME NEW c, Sound(c), NEW entry, IsEntry(entry)
    PROVE  Sound(PutEntry(c, entry)) /\ PutEntry(c, entry).notes = c.notes
<1> DEFINE p == Put(c.diary, entry)
           d == Core(c.notes, p, c.nodes, c.edges)
           m == DiaryNode(entry.id)
<1>1. IsCore(c) /\ Graph(c) /\ Records(c) /\ Mirrored(c, {})
      BY SoundWhole DEF Whole
<1>2. PutEntry(c, entry) = LinkDiary(d, entry)
  <2>1. [c EXCEPT !.diary = p] = d
        BY <1>1, CoreExcept
  <2> QED BY <2>1 DEF PutEntry
<1>3. /\ List(p) /\ Distinct(p) /\ ToSet(p) = {x \in ToSet(c.diary) : x.id # entry.id} \cup {entry}
      BY <1>1, PutFacts DEF Records
<1> HIDE DEF p
<1>4. IsCore(d) /\ d.notes = c.notes /\ d.diary = p /\ d.nodes = c.nodes /\ d.edges = c.edges
      BY CoreParts
<1> HIDE DEF d
<1>5. Graph(d) /\ Records(d)
      BY <1>1, <1>3, <1>4 DEF Graph, Records
<1>6. ASSUME NEW x \in ToSet(p), DiaryNode(x.id) \notin {m} PROVE MirrorOfEntry(x) \in ToSet(c.nodes)
  <2>1. x # entry
        BY <1>6
  <2> QED BY <1>1, <1>3, <2>1 DEF Mirrored
<1>7. ASSUME NEW n \in ToSet(c.nodes), n.id \in DiaryNodes
      PROVE  \/ \E x \in ToSet(p) : n.id = DiaryNode(x.id)
             \/ n = Placeholder(n.id)
  <2> SUFFICES ASSUME n # Placeholder(n.id) PROVE \E x \in ToSet(p) : n.id = DiaryNode(x.id)
      OBVIOUS
  <2>1. PICK x \in ToSet(c.diary) : n.id = DiaryNode(x.id)
        BY <1>1, <1>7 DEF Mirrored
  <2>2. CASE x.id = entry.id
        BY <1>3, <2>1, <2>2
  <2>3. CASE x.id # entry.id
        BY <1>3, <2>1, <2>3
  <2> QED BY <2>2, <2>3
<1>8. Mirrored(d, {m})
  <2> HIDE DEF m
  <2> QED BY <1>1, <1>4, <1>6, <1>7 DEF Mirrored
<1>9. Whole(d, {m}) /\ entry \in ToSet(d.diary)
      BY <1>3, <1>4, <1>5, <1>8 DEF Whole
<1>10. Whole(LinkDiary(d, entry), {m} \ {m}) /\ LinkDiary(d, entry).notes = d.notes
      BY <1>9, EnsureMirrorsEntry
<1>11. {m} \ {m} = {}
      OBVIOUS
<1> HIDE DEF m
<1> QED BY <1>2, <1>4, <1>10, <1>11, SoundWhole

LEMMA DeleteMemoryWhole ==
    ASSUME NEW c, Sound(c), NEW id \in RecordIds
    PROVE  Sound(DeleteMemory(c, id)) /\ DeleteMemory(c, id).diary = c.diary
<1> DEFINE w == Without(c.notes, id)
           d == Core(w, c.diary, c.nodes, c.edges)
           m == MemoryNode(id)
           r == RemoveNode(d, m)
<1>1. IsCore(c) /\ Graph(c) /\ Records(c) /\ Mirrored(c, {})
      BY SoundWhole DEF Whole
<1>2. DeleteMemory(c, id) = r
  <2>1. [c EXCEPT !.notes = w] = d
        BY <1>1, CoreExcept
  <2> QED BY <2>1 DEF DeleteMemory
<1>3. List(w) /\ Distinct(w) /\ ToSet(w) = {x \in ToSet(c.notes) : x.id # id}
      BY <1>1, WithoutFacts DEF Records
<1> HIDE DEF w
<1>4. IsCore(d) /\ d.notes = w /\ d.diary = c.diary /\ d.nodes = c.nodes /\ d.edges = c.edges
      BY CoreParts
<1> HIDE DEF d
<1>5. Graph(d) /\ Records(d)
      BY <1>1, <1>3, <1>4 DEF Graph, Records
<1>6. /\ IsCore(r) /\ Graph(r) /\ r.notes = w /\ r.diary = c.diary
      /\ ToSet(r.nodes) = {n \in ToSet(c.nodes) : n.id # m}
      BY <1>4, <1>5, RemoveNodeFacts
<1> HIDE DEF r
<1>7. Records(r)
      BY <1>4, <1>5, <1>6 DEF Records
<1>8. ASSUME NEW x \in ToSet(w) PROVE MirrorOfNote(x) \in ToSet(r.nodes)
  <2>1. x.id \in RecordIds /\ x.id # id /\ x \in ToSet(c.notes)
        BY <1>1, <1>3 DEF Records, IsNote
  <2>2. MemoryNode(x.id) # m
        BY <2>1, NodeIds
  <2> QED BY <1>1, <1>6, <2>1, <2>2, MirrorIds DEF Mirrored
<1>9. ASSUME NEW n \in ToSet(r.nodes), n.id \in MemoryNodes PROVE \E x \in ToSet(w) : n.id = MemoryNode(x.id)
      BY <1>1, <1>3, <1>6, <1>9 DEF Mirrored
<1>10. ASSUME NEW x \in ToSet(c.diary) PROVE MirrorOfEntry(x) \in ToSet(r.nodes)
  <2>1. x.id \in RecordIds
        BY <1>1 DEF Records, IsEntry
  <2>2. DiaryNode(x.id) # m
        BY <2>1, NodeIds
  <2> QED BY <1>1, <1>6, <2>2, MirrorIds DEF Mirrored
<1>11. Mirrored(r, {})
      BY <1>1, <1>6, <1>8, <1>9, <1>10 DEF Mirrored
<1>12. Whole(r, {})
      BY <1>6, <1>7, <1>11 DEF Whole
<1> QED BY <1>2, <1>6, <1>12, SoundWhole

LEMMA DeleteDiaryWhole ==
    ASSUME NEW c, Sound(c), NEW id \in RecordIds
    PROVE  Sound(DeleteDiary(c, id)) /\ DeleteDiary(c, id).notes = c.notes
<1> DEFINE w == Without(c.diary, id)
           d == Core(c.notes, w, c.nodes, c.edges)
           m == DiaryNode(id)
           r == RemoveNode(d, m)
<1>1. IsCore(c) /\ Graph(c) /\ Records(c) /\ Mirrored(c, {})
      BY SoundWhole DEF Whole
<1>2. DeleteDiary(c, id) = r
  <2>1. [c EXCEPT !.diary = w] = d
        BY <1>1, CoreExcept
  <2> QED BY <2>1 DEF DeleteDiary
<1>3. List(w) /\ Distinct(w) /\ ToSet(w) = {x \in ToSet(c.diary) : x.id # id}
      BY <1>1, WithoutFacts DEF Records
<1> HIDE DEF w
<1>4. IsCore(d) /\ d.notes = c.notes /\ d.diary = w /\ d.nodes = c.nodes /\ d.edges = c.edges
      BY CoreParts
<1> HIDE DEF d
<1>5. Graph(d) /\ Records(d)
      BY <1>1, <1>3, <1>4 DEF Graph, Records
<1>6. /\ IsCore(r) /\ Graph(r) /\ r.notes = c.notes /\ r.diary = w
      /\ ToSet(r.nodes) = {n \in ToSet(c.nodes) : n.id # m}
      BY <1>4, <1>5, RemoveNodeFacts
<1> HIDE DEF r
<1>7. Records(r)
      BY <1>4, <1>5, <1>6 DEF Records
<1>8. ASSUME NEW x \in ToSet(c.notes) PROVE MirrorOfNote(x) \in ToSet(r.nodes)
  <2>1. x.id \in RecordIds
        BY <1>1 DEF Records, IsNote
  <2>2. MemoryNode(x.id) # m
        BY <2>1, NodeIds
  <2> QED BY <1>1, <1>6, <2>2, MirrorIds DEF Mirrored
<1>9. ASSUME NEW x \in ToSet(w) PROVE MirrorOfEntry(x) \in ToSet(r.nodes)
  <2>1. x.id \in RecordIds /\ x.id # id /\ x \in ToSet(c.diary)
        BY <1>1, <1>3 DEF Records, IsEntry
  <2>2. DiaryNode(x.id) # m
        BY <2>1, NodeIds
  <2> QED BY <1>1, <1>6, <2>1, <2>2, MirrorIds DEF Mirrored
<1>10. ASSUME NEW n \in ToSet(r.nodes), n.id \in DiaryNodes
       PROVE  \/ \E x \in ToSet(w) : n.id = DiaryNode(x.id)
              \/ n = Placeholder(n.id)
      BY <1>1, <1>3, <1>6, <1>10 DEF Mirrored
<1>11. Mirrored(r, {})
      BY <1>1, <1>6, <1>8, <1>9, <1>10 DEF Mirrored
<1>12. Whole(r, {})
      BY <1>6, <1>7, <1>11 DEF Whole
<1> QED BY <1>2, <1>6, <1>12, SoundWhole
\* Notes are purged one by one, in their order.
LEMMA PurgedWhole ==
    ASSUME NEW c, Sound(c), NEW ids
    PROVE  Sound(Purged(c, ids)) /\ Purged(c, ids).diary = c.diary
<1>1. Records(c)
      BY SoundWhole DEF Whole
<1>2. List(c.notes) /\ \A note \in ToSet(c.notes) : note.id \in RecordIds
      BY <1>1 DEF Records, IsNote
<1>3. PICK f : /\ Purged(c, ids) = f[Len(c.notes)]
               /\ \A n \in 0..Len(c.notes) : f[n] = PurgeStep(f, c, ids, n)
      BY <1>2, PurgedIs
<1>4. Len(c.notes) \in Nat /\ \A i \in 1..Len(c.notes) : c.notes[i].id \in RecordIds
      BY <1>2, ListFacts
<1> DEFINE T == {n \in Nat : n =< Len(c.notes) => Sound(f[n]) /\ f[n].diary = c.diary}
<1>5. 0 \in T
  <2>1. f[0] = c
        BY <1>3, <1>4 DEF PurgeStep
  <2> QED BY <2>1
<1>6. ASSUME NEW n \in T PROVE n + 1 \in T
  <2> SUFFICES ASSUME n + 1 =< Len(c.notes) PROVE Sound(f[n + 1]) /\ f[n + 1].diary = c.diary
      OBVIOUS
  <2>1. Sound(f[n]) /\ f[n].diary = c.diary /\ c.notes[n + 1].id \in RecordIds
        BY <1>4
  <2>2. f[n + 1] = IF c.notes[n + 1].id \in ids THEN DeleteMemory(f[n], c.notes[n + 1].id) ELSE f[n]
    <3>1. f[n + 1] = PurgeStep(f, c, ids, n + 1) /\ n + 1 # 0 /\ (n + 1) - 1 = n
          BY <1>3, <1>4
    <3> QED BY <3>1 DEF PurgeStep
  <2>3. Sound(DeleteMemory(f[n], c.notes[n + 1].id)) /\ DeleteMemory(f[n], c.notes[n + 1].id).diary = f[n].diary
        BY <2>1, DeleteMemoryWhole
  <2> QED BY <2>1, <2>2, <2>3
<1>7. T \in SUBSET Nat
      OBVIOUS
<1> HIDE DEF T
<1>8. Len(c.notes) \in T
      BY <1>4, <1>5, <1>6, <1>7, Induction
<1> QED BY <1>3, <1>4, <1>8 DEF T

LEMMA LinkNotesWhole ==
    ASSUME NEW c, NEW late, Whole(c, late), NEW notes, List(notes), ToSet(notes) \subseteq ToSet(c.notes)
    PROVE  /\ Whole(LinkNotes(c, notes), late \ {MemoryNode(x.id) : x \in ToSet(notes)})
           /\ LinkNotes(c, notes).notes = c.notes /\ LinkNotes(c, notes).diary = c.diary
<1>1. PICK f : /\ LinkNotes(c, notes) = f[Len(notes)]
               /\ \A n \in 0..Len(notes) : f[n] = NotesStep(f, c, notes, n)
      BY LinkNotesIs
<1>2. Len(notes) \in Nat /\ DOMAIN notes = 1..Len(notes) /\ \A i \in 1..Len(notes) : notes[i] \in ToSet(notes)
      BY ListFacts
<1> DEFINE linked(n) == {MemoryNode(notes[i].id) : i \in 1..n}
           Good(d, n) == Whole(d, late \ linked(n)) /\ d.notes = c.notes /\ d.diary = c.diary
           T == {n \in Nat : n =< Len(notes) => Good(f[n], n)}
<1>3. 0 \in T
  <2>1. f[0] = c
        BY <1>1, <1>2 DEF NotesStep
  <2>2. late \ linked(0) = late
        OBVIOUS
  <2> HIDE DEF linked
  <2> QED BY <2>1, <2>2
<1>4. ASSUME NEW n \in T PROVE n + 1 \in T
  <2> SUFFICES ASSUME n + 1 =< Len(notes) PROVE Good(f[n + 1], n + 1)
      OBVIOUS
  <2> DEFINE x == notes[n + 1]
             m == MemoryNode(x.id)
  <2>1. Whole(f[n], late \ linked(n)) /\ f[n].notes = c.notes /\ f[n].diary = c.diary
        BY <1>2
  <2>2. f[n + 1] = LinkNote(f[n], x)
    <3>1. f[n + 1] = NotesStep(f, c, notes, n + 1) /\ n + 1 # 0 /\ (n + 1) - 1 = n
          BY <1>1, <1>2
    <3> QED BY <3>1 DEF NotesStep
  <2>3. x \in ToSet(c.notes)
        BY <1>2
  <2>4. (late \ linked(n)) \ {m} = late \ linked(n + 1)
    <3>1. \A i : i \in 1..(n + 1) <=> i \in 1..n \/ i = n + 1
          OBVIOUS
    <3>2. \A y : y \in linked(n + 1) <=> y \in linked(n) \/ y = m
          BY <3>1
    <3> HIDE DEF linked, m
    <3> QED BY <3>2
  <2> HIDE DEF linked, x
  <2>5. Whole(LinkNote(f[n], x), (late \ linked(n)) \ {m}) /\ LinkNote(f[n], x).notes = f[n].notes
        /\ LinkNote(f[n], x).diary = f[n].diary
        BY <2>1, <2>3, LinkNoteWhole
  <2> HIDE DEF m
  <2> QED BY <2>1, <2>2, <2>4, <2>5
<1>5. T \in SUBSET Nat
      OBVIOUS
<1> HIDE DEF T
<1>6. Len(notes) \in T
      BY <1>2, <1>3, <1>4, <1>5, Induction
<1>7. linked(Len(notes)) = {MemoryNode(x.id) : x \in ToSet(notes)}
      BY <1>2, ToSetIs
<1> HIDE DEF linked
<1>8. Good(f[Len(notes)], Len(notes))
  <2>1. \A n \in T : n =< Len(notes) => Good(f[n], n)
        BY DEF T
  <2> HIDE DEF Good
  <2> QED BY <1>2, <1>6, <2>1
<1>9. Good(LinkNotes(c, notes), Len(notes))
      BY <1>1, <1>8
<1> QED BY <1>7, <1>9

LEMMA LinkEntriesWhole ==
    ASSUME NEW c, NEW late, Whole(c, late), NEW entries, List(entries), ToSet(entries) \subseteq ToSet(c.diary)
    PROVE  /\ Whole(LinkEntries(c, entries), late \ {DiaryNode(x.id) : x \in ToSet(entries)})
           /\ LinkEntries(c, entries).notes = c.notes /\ LinkEntries(c, entries).diary = c.diary
<1>1. PICK f : /\ LinkEntries(c, entries) = f[Len(entries)]
               /\ \A n \in 0..Len(entries) : f[n] = EntriesStep(f, c, entries, n)
      BY LinkEntriesIs
<1>2. /\ Len(entries) \in Nat /\ DOMAIN entries = 1..Len(entries)
      /\ \A i \in 1..Len(entries) : entries[i] \in ToSet(entries)
      BY ListFacts
<1> DEFINE linked(n) == {DiaryNode(entries[i].id) : i \in 1..n}
           Good(d, n) == Whole(d, late \ linked(n)) /\ d.notes = c.notes /\ d.diary = c.diary
           T == {n \in Nat : n =< Len(entries) => Good(f[n], n)}
<1>3. 0 \in T
  <2>1. f[0] = c
        BY <1>1, <1>2 DEF EntriesStep
  <2>2. late \ linked(0) = late
        OBVIOUS
  <2> HIDE DEF linked
  <2> QED BY <2>1, <2>2
<1>4. ASSUME NEW n \in T PROVE n + 1 \in T
  <2> SUFFICES ASSUME n + 1 =< Len(entries) PROVE Good(f[n + 1], n + 1)
      OBVIOUS
  <2> DEFINE x == entries[n + 1]
             m == DiaryNode(x.id)
  <2>1. Whole(f[n], late \ linked(n)) /\ f[n].notes = c.notes /\ f[n].diary = c.diary
        BY <1>2
  <2>2. f[n + 1] = LinkDiary(f[n], x)
    <3>1. f[n + 1] = EntriesStep(f, c, entries, n + 1) /\ n + 1 # 0 /\ (n + 1) - 1 = n
          BY <1>1, <1>2
    <3> QED BY <3>1 DEF EntriesStep
  <2>3. x \in ToSet(c.diary)
        BY <1>2
  <2>4. (late \ linked(n)) \ {m} = late \ linked(n + 1)
    <3>1. \A i : i \in 1..(n + 1) <=> i \in 1..n \/ i = n + 1
          OBVIOUS
    <3>2. \A y : y \in linked(n + 1) <=> y \in linked(n) \/ y = m
          BY <3>1
    <3> HIDE DEF linked, m
    <3> QED BY <3>2
  <2> HIDE DEF linked, x
  <2>5. Whole(LinkDiary(f[n], x), (late \ linked(n)) \ {m}) /\ LinkDiary(f[n], x).notes = f[n].notes
        /\ LinkDiary(f[n], x).diary = f[n].diary
        BY <2>1, <2>3, EnsureMirrorsEntry
  <2> HIDE DEF m
  <2> QED BY <2>1, <2>2, <2>4, <2>5
<1>5. T \in SUBSET Nat
      OBVIOUS
<1> HIDE DEF T
<1>6. Len(entries) \in T
      BY <1>2, <1>3, <1>4, <1>5, Induction
<1>7. linked(Len(entries)) = {DiaryNode(x.id) : x \in ToSet(entries)}
      BY <1>2, ToSetIs
<1> HIDE DEF linked
<1>8. Good(f[Len(entries)], Len(entries))
  <2>1. \A n \in T : n =< Len(entries) => Good(f[n], n)
        BY DEF T
  <2> HIDE DEF Good
  <2> QED BY <1>2, <1>6, <2>1
<1>9. Good(LinkEntries(c, entries), Len(entries))
      BY <1>1, <1>8
<1> QED BY <1>7, <1>9

\* What is imported has its nodes late, and all of them in the end.
LEMMA ImportedWhole ==
    ASSUME Sound(core), NEW payload \in Payloads
    PROVE  Sound(Imported(payload))
<1> DEFINE p == PutAll(core.notes, payload.notes)
           q == PutAll(core.diary, payload.diary)
           d == Core(p, q, core.nodes, core.edges)
           M == {MemoryNode(x.id) : x \in ToSet(payload.notes)}
           D == {DiaryNode(x.id) : x \in ToSet(payload.diary)}
           l == LinkNotes(d, payload.notes)
<1>1. IsCore(core) /\ Graph(core) /\ Records(core) /\ Mirrored(core, {})
      BY SoundWhole DEF Whole
<1>2. /\ List(payload.notes) /\ Distinct(payload.notes) /\ \A x \in ToSet(payload.notes) : IsNote(x)
      /\ List(payload.diary) /\ Distinct(payload.diary) /\ \A x \in ToSet(payload.diary) : IsEntry(x)
      BY PayloadsOK DEF List
<1>3. Imported(payload) = LinkEntries(l, payload.diary)
  <2>1. [core EXCEPT !.notes = p, !.diary = q] = [[core EXCEPT !.notes = p] EXCEPT !.diary = q]
        OBVIOUS
  <2>2. [core EXCEPT !.notes = p] = Core(p, core.diary, core.nodes, core.edges)
        BY <1>1, CoreExcept
  <2>3. [Core(p, core.diary, core.nodes, core.edges) EXCEPT !.diary = q] = d
        BY DEF Core
  <2>4. [core EXCEPT !.notes = p, !.diary = q] = d
        BY <2>1, <2>2, <2>3
  <2> QED BY <2>4 DEF Imported
<1>4. /\ List(p) /\ Distinct(p) /\ ToSet(payload.notes) \subseteq ToSet(p)
      /\ ToSet(p) \subseteq ToSet(core.notes) \cup ToSet(payload.notes)
      /\ Ids(p) = Ids(core.notes) \cup Ids(payload.notes)
      BY <1>1, <1>2, PutAllFacts DEF Records
<1>5. /\ List(q) /\ Distinct(q) /\ ToSet(payload.diary) \subseteq ToSet(q)
      /\ ToSet(q) \subseteq ToSet(core.diary) \cup ToSet(payload.diary)
      /\ Ids(q) = Ids(core.diary) \cup Ids(payload.diary)
      BY <1>1, <1>2, PutAllFacts DEF Records
<1> HIDE DEF p, q
<1>6. IsCore(d) /\ d.notes = p /\ d.diary = q /\ d.nodes = core.nodes /\ d.edges = core.edges
      BY CoreParts
<1> HIDE DEF d
<1>7. Graph(d)
      BY <1>1, <1>6 DEF Graph
<1>8. Records(d)
      BY <1>1, <1>2, <1>4, <1>5, <1>6 DEF Records
<1>9. Mirrored(d, M \cup D)
  <2>1. ASSUME NEW x \in ToSet(p), MemoryNode(x.id) \notin M \cup D PROVE MirrorOfNote(x) \in ToSet(core.nodes)
    <3>1. x \notin ToSet(payload.notes)
          BY <2>1
    <3> QED BY <1>1, <1>4, <3>1 DEF Mirrored
  <2>2. ASSUME NEW n \in ToSet(core.nodes), n.id \in MemoryNodes PROVE \E x \in ToSet(p) : n.id = MemoryNode(x.id)
    <3>1. PICK x \in ToSet(core.notes) : n.id = MemoryNode(x.id)
          BY <1>1, <2>2 DEF Mirrored
    <3>2. x.id \in Ids(p)
          BY <1>4, IdsAre
    <3> QED BY <3>1, <3>2, IdsAre
  <2>3. ASSUME NEW x \in ToSet(q), DiaryNode(x.id) \notin M \cup D PROVE MirrorOfEntry(x) \in ToSet(core.nodes)
    <3>1. x \notin ToSet(payload.diary)
          BY <2>3
    <3> QED BY <1>1, <1>5, <3>1 DEF Mirrored
  <2>4. ASSUME NEW n \in ToSet(core.nodes), n.id \in DiaryNodes, n # Placeholder(n.id)
        PROVE  \E x \in ToSet(q) : n.id = DiaryNode(x.id)
    <3>1. PICK x \in ToSet(core.diary) : n.id = DiaryNode(x.id)
          BY <1>1, <2>4 DEF Mirrored
    <3>2. x.id \in Ids(q)
          BY <1>5, IdsAre
    <3> QED BY <3>1, <3>2, IdsAre
  <2> HIDE DEF M, D
  <2> QED BY <1>6, <2>1, <2>2, <2>3, <2>4 DEF Mirrored
<1>10. Whole(d, M \cup D)
      BY <1>6, <1>7, <1>8, <1>9 DEF Whole
<1>11. Whole(l, (M \cup D) \ M) /\ l.notes = d.notes /\ l.diary = d.diary
      BY <1>2, <1>4, <1>6, <1>10, LinkNotesWhole
<1> HIDE DEF l
<1>12. Whole(LinkEntries(l, payload.diary), ((M \cup D) \ M) \ D)
      BY <1>2, <1>5, <1>6, <1>11, LinkEntriesWhole
<1>13. ((M \cup D) \ M) \ D = {}
  <2> HIDE DEF M, D
  <2> QED OBVIOUS
<1> HIDE DEF M, D
<1> QED BY <1>3, <1>12, <1>13, SoundWhole

-------------------------------------------------------------------------------
(* A sound core is restored exactly *)

Pre(s, n) == [i \in 1..n |-> s[i]]

LEMMA PreFacts ==
    ASSUME NEW s, List(s), NEW n \in Nat, n =< Len(s)
    PROVE  /\ List(Pre(s, n)) /\ Len(Pre(s, n)) = n
           /\ \A x \in ToSet(Pre(s, n)) : \E i \in 1..n : x = s[i]
           /\ n + 1 =< Len(s) => Append(Pre(s, n), s[n + 1]) = Pre(s, n + 1)
<1> DEFINE p == Pre(s, n)
<1>1. DOMAIN p = 1..n /\ p = [i \in 1..n |-> p[i]] /\ \A i \in 1..n : p[i] = s[i]
      BY DEF Pre
<1> HIDE DEF p
<1>2. List(p) /\ Len(p) = n
      BY <1>1, MakesList
<1>3. \A x \in ToSet(p) : \E i \in 1..n : x = s[i]
      BY <1>1, ToSetIs
<1>4. ASSUME n + 1 =< Len(s) PROVE Append(p, s[n + 1]) = Pre(s, n + 1)
  <2> DEFINE t == Append(p, s[n + 1])
  <2>1. /\ List(t) /\ Len(t) = n + 1
        /\ \A i \in 1..n : t[i] = p[i]
        /\ t[n + 1] = s[n + 1]
        BY <1>2, Appended
  <2> HIDE DEF t
  <2>2. t = [i \in 1..(n + 1) |-> t[i]]
        BY <2>1, ListFacts
  <2>3. \A i \in 1..(n + 1) : t[i] = s[i]
    <3>1. \A i \in 1..(n + 1) : i \in 1..n \/ i = n + 1
          OBVIOUS
    <3> QED BY <1>1, <2>1, <3>1
  <2> QED BY <2>2, <2>3 DEF t, Pre
<1> QED BY <1>2, <1>3, <1>4 DEF p

LEMMA PreEnds ==
    ASSUME NEW s, List(s)
    PROVE  Pre(s, 0) = << >> /\ Pre(s, Len(s)) = s
<1>1. Pre(s, Len(s)) = s
      BY ListFacts DEF Pre
<1>2. 1..0 = {}
      OBVIOUS
<1> QED BY <1>1, <1>2 DEF Pre

LEMMA NodesRestored ==
    ASSUME NEW notes, NEW diary, NEW nodes, List(nodes), Distinct(nodes)
    PROVE  WithNodes(Core(notes, diary, << >>, << >>), nodes) = Core(notes, diary, nodes, << >>)
<1> DEFINE c == Core(notes, diary, << >>, << >>)
           Upto(n) == Core(notes, diary, Pre(nodes, n), << >>)
<1>1. PICK f : /\ WithNodes(c, nodes) = f[Len(nodes)]
               /\ \A n \in 0..Len(nodes) : f[n] = NodesStep(f, c, nodes, n)
      BY WithNodesIs
<1>2. Len(nodes) \in Nat /\ DOMAIN nodes = 1..Len(nodes)
      BY ListFacts
<1> DEFINE T == {n \in Nat : n =< Len(nodes) => f[n] = Upto(n)}
<1>3. 0 \in T
  <2>1. f[0] = c
        BY <1>1, <1>2 DEF NodesStep
  <2> QED BY <2>1, PreEnds
<1>4. ASSUME NEW n \in T PROVE n + 1 \in T
  <2> SUFFICES ASSUME n + 1 =< Len(nodes) PROVE f[n + 1] = Upto(n + 1)
      OBVIOUS
  <2> DEFINE x == nodes[n + 1]
             d == Upto(n)
  <2>1. f[n] = d
        BY <1>2
  <2>2. f[n + 1] = AddNode(f[n], x)
    <3>1. f[n + 1] = NodesStep(f, c, nodes, n + 1) /\ n + 1 # 0 /\ (n + 1) - 1 = n
          BY <1>1, <1>2
    <3> QED BY <3>1 DEF NodesStep
  <2>3. IsCore(d) /\ d.notes = notes /\ d.diary = diary /\ d.nodes = Pre(nodes, n) /\ d.edges = << >>
        BY CoreParts
  <2>4. x.id \notin Ids(Pre(nodes, n))
    <3> SUFFICES ASSUME NEW y \in ToSet(Pre(nodes, n)), y.id = x.id PROVE FALSE
        BY IdsAre
    <3>1. PICK i \in 1..n : y = nodes[i]
          BY <1>2, PreFacts
    <3>2. i \in 1..Len(nodes) /\ n + 1 \in 1..Len(nodes) /\ i # n + 1
          BY <1>2
    <3> QED BY <1>2, <3>1, <3>2 DEF Distinct
  <2>5. Append(Pre(nodes, n), x) = Pre(nodes, n + 1)
        BY <1>2, PreFacts
  <2> HIDE DEF d
  <2>6. AddNode(d, x) = [d EXCEPT !.nodes = Pre(nodes, n + 1)]
        BY <2>3, <2>4, <2>5 DEF AddNode, EnsureNode, Put
  <2>7. [d EXCEPT !.nodes = Pre(nodes, n + 1)] = Core(notes, diary, Pre(nodes, n + 1), << >>)
    <3>1. [d EXCEPT !.nodes = Pre(nodes, n + 1)] = Core(d.notes, d.diary, Pre(nodes, n + 1), d.edges)
          BY <2>3, CoreExcept
    <3> QED BY <2>3, <3>1
  <2> QED BY <2>1, <2>2, <2>6, <2>7
<1>5. T \in SUBSET Nat
      OBVIOUS
<1> HIDE DEF T
<1>6. Len(nodes) \in T
      BY <1>2, <1>3, <1>4, <1>5, Induction
<1>7. f[Len(nodes)] = Core(notes, diary, nodes, << >>)
      BY <1>2, <1>6, PreEnds DEF T
<1> QED BY <1>1, <1>7

LEMMA EdgesRestored ==
    ASSUME NEW c, IsCore(c), Graph(c)
    PROVE  WithEdges(Core(c.notes, c.diary, c.nodes, << >>), c.edges) = c
<1> DEFINE b == Core(c.notes, c.diary, c.nodes, << >>)
           edges == c.edges
           Upto(n) == Core(c.notes, c.diary, c.nodes, Pre(edges, n))
<1>0. List(edges) /\ Distinct(edges) /\ EdgesApart(edges)
      BY DEF Graph
<1>1. PICK f : /\ WithEdges(b, edges) = f[Len(edges)]
               /\ \A n \in 0..Len(edges) : f[n] = EdgesStep(f, b, edges, n)
      BY <1>0, WithEdgesIs
<1>2. Len(edges) \in Nat /\ DOMAIN edges = 1..Len(edges) /\ \A i \in 1..Len(edges) : edges[i] \in ToSet(edges)
      BY <1>0, ListFacts
<1> DEFINE T == {n \in Nat : n =< Len(edges) => f[n] = Upto(n)}
<1>3. 0 \in T
  <2>1. f[0] = b
        BY <1>1, <1>2 DEF EdgesStep
  <2> QED BY <1>0, <2>1, PreEnds
<1>4. ASSUME NEW n \in T PROVE n + 1 \in T
  <2> SUFFICES ASSUME n + 1 =< Len(edges) PROVE f[n + 1] = Upto(n + 1)
      OBVIOUS
  <2> DEFINE x == edges[n + 1]
             d == Upto(n)
  <2>1. f[n] = d
        BY <1>2
  <2>2. f[n + 1] = AddEdgeWithId(f[n], x.id, x.source, x.target, x.relation)
    <3>1. f[n + 1] = EdgesStep(f, b, edges, n + 1) /\ n + 1 # 0 /\ (n + 1) - 1 = n
          BY <1>1, <1>2
    <3> QED BY <3>1 DEF EdgesStep
  <2>3. IsCore(d) /\ d.notes = c.notes /\ d.diary = c.diary /\ d.nodes = c.nodes /\ d.edges = Pre(edges, n)
        BY CoreParts
  <2>4. IsEdge(x) /\ {x.source, x.target} \subseteq Ids(c.nodes)
        BY <1>2 DEF Graph
  <2>5. ASSUME NEW y \in ToSet(Pre(edges, n)) PROVE y.id # x.id /\ Ends(y) # Ends(x)
    <3>0. n \in Nat /\ n =< Len(edges)
          BY <1>2
    <3> HIDE DEF edges
    <3>1. PICK i \in 1..n : y = edges[i]
          BY <1>0, <3>0, PreFacts
    <3>2. i \in 1..Len(edges) /\ n + 1 \in 1..Len(edges) /\ i # n + 1
          BY <1>2
    <3> QED BY <1>0, <1>2, <3>1, <3>2 DEF Distinct, EdgesApart
  <2>6. x.id \notin Ids(Pre(edges, n))
        BY <2>5, IdsAre
  <2>7. Append(Pre(edges, n), x) = Pre(edges, n + 1)
        BY <1>0, <1>2, PreFacts
  <2>8. Normalized(x.relation) = x.relation
        BY <2>4 DEF IsEdge, Normalized
  <2>9. [id |-> x.id, source |-> x.source, target |-> x.target, relation |-> Normalized(x.relation)] = x
        BY <2>4, <2>8 DEF IsEdge
  <2> HIDE DEF d, x
  <2>10. CanAddEdge(d, x.id, x.source, x.target)
        BY <2>3, <2>4, <2>5, <2>6 DEF CanAddEdge, Ends
  <2>11. AddEdgeWithId(d, x.id, x.source, x.target, x.relation) = [d EXCEPT !.edges = Append(@, x)]
        BY <2>9, <2>10 DEF AddEdgeWithId
  <2>12. [d EXCEPT !.edges = Append(@, x)] = Core(c.notes, c.diary, c.nodes, Pre(edges, n + 1))
    <3> DEFINE longer == Append(d.edges, x)
    <3>1. longer = Pre(edges, n + 1)
          BY <2>3, <2>7
    <3>2. [d EXCEPT !.edges = Append(@, x)] = [d EXCEPT !.edges = longer]
          OBVIOUS
    <3> HIDE DEF longer
    <3>3. [d EXCEPT !.edges = longer] = Core(d.notes, d.diary, d.nodes, longer)
          BY <2>3, CoreExcept
    <3> QED BY <2>3, <3>1, <3>2, <3>3
  <2> QED BY <2>1, <2>2, <2>11, <2>12
<1>5. T \in SUBSET Nat
      OBVIOUS
<1> HIDE DEF T
<1>6. Len(edges) \in T
      BY <1>2, <1>3, <1>4, <1>5, Induction
<1>7. f[Len(edges)] = Core(c.notes, c.diary, c.nodes, c.edges)
      BY <1>0, <1>2, <1>6, PreEnds DEF T
<1> QED BY <1>1, <1>7 DEF IsCore, Core

LEMMA CommittedSame ==
    ASSUME NEW c, Sound(c)
    PROVE  Committed(c) = c
<1>1. IsCore(c) /\ Graph(c)
      BY SoundWhole DEF Whole
<1>2. [c EXCEPT !.nodes = << >>, !.edges = << >>] = Core(c.notes, c.diary, << >>, << >>)
  <2>1. [c EXCEPT !.nodes = << >>, !.edges = << >>] = [[c EXCEPT !.nodes = << >>] EXCEPT !.edges = << >>]
        OBVIOUS
  <2>2. [c EXCEPT !.nodes = << >>] = Core(c.notes, c.diary, << >>, c.edges)
        BY <1>1, CoreExcept
  <2>3. [Core(c.notes, c.diary, << >>, c.edges) EXCEPT !.edges = << >>] = Core(c.notes, c.diary, << >>, << >>)
        BY DEF Core
  <2> QED BY <2>1, <2>2, <2>3
<1>3. WithNodes(Core(c.notes, c.diary, << >>, << >>), c.nodes) = Core(c.notes, c.diary, c.nodes, << >>)
      BY <1>1, NodesRestored DEF Graph
<1>4. WithEdges(Core(c.notes, c.diary, c.nodes, << >>), c.edges) = c
      BY <1>1, EdgesRestored
<1> QED BY <1>2, <1>3, <1>4 DEF Committed
-------------------------------------------------------------------------------
(* What is left of what is left *)

\* f is what the loop of Remaining goes through.
Keeps(f, items, gone) ==
    /\ Remaining(items, gone) = f[Len(items)]
    /\ f[0] = << >>
    /\ \A n \in Nat : n < Len(items) =>
        f[n + 1] = IF items[n + 1] \in gone THEN f[n] ELSE Append(f[n], items[n + 1])

LEMMA RemainingKeeps ==
    ASSUME NEW items, NEW gone, List(items)
    PROVE  \E f : Keeps(f, items, gone)
<1>1. PICK f : /\ Remaining(items, gone) = f[Len(items)]
               /\ \A n \in 0..Len(items) : f[n] = KeepStep(f, items, gone, n)
      BY RemainingIs
<1>2. Len(items) \in Nat
      BY ListFacts
<1>3. f[0] = << >>
      BY <1>1, <1>2 DEF KeepStep
<1>4. ASSUME NEW n \in Nat, n < Len(items)
      PROVE  f[n + 1] = IF items[n + 1] \in gone THEN f[n] ELSE Append(f[n], items[n + 1])
  <2>1. f[n + 1] = KeepStep(f, items, gone, n + 1) /\ n + 1 # 0 /\ (n + 1) - 1 = n
        BY <1>1, <1>2, <1>4
  <2> QED BY <2>1 DEF KeepStep
<1> QED BY <1>1, <1>3, <1>4 DEF Keeps

LEMMA RemainingNone == \A gone : Remaining(<< >>, gone) = << >>
<1> SUFFICES ASSUME NEW gone PROVE Remaining(<< >>, gone) = << >>
    OBVIOUS
<1> QED BY RemainingKeeps, NoneListed DEF Keeps

LEMMA RemainingLonger ==
    ASSUME NEW s, List(s), NEW t, List(t), Len(t) = Len(s) + 1,
           \A i \in 1..Len(s) : t[i] = s[i], NEW gone
    PROVE  Remaining(t, gone) = IF t[Len(s) + 1] \in gone THEN Remaining(s, gone)
                                ELSE Append(Remaining(s, gone), t[Len(s) + 1])
<1>1. Len(s) \in Nat
      BY ListFacts
<1>2. PICK f : Keeps(f, t, gone)
      BY RemainingKeeps
<1>3. PICK g : Keeps(g, s, gone)
      BY RemainingKeeps
<1> DEFINE T == {n \in Nat : n =< Len(s) => f[n] = g[n]}
<1>4. 0 \in T
      BY <1>2, <1>3 DEF Keeps
<1>5. ASSUME NEW n \in T PROVE n + 1 \in T
  <2> SUFFICES ASSUME n + 1 =< Len(s) PROVE f[n + 1] = g[n + 1]
      OBVIOUS
  <2>1. f[n] = g[n] /\ t[n + 1] = s[n + 1] /\ n < Len(s) /\ n < Len(t)
        BY <1>1
  <2> QED BY <1>2, <1>3, <2>1 DEF Keeps
<1>6. T \in SUBSET Nat
      OBVIOUS
<1> HIDE DEF T
<1>7. Len(s) \in T
      BY <1>1, <1>4, <1>5, <1>6, Induction
<1>8. f[Len(s)] = Remaining(s, gone)
      BY <1>1, <1>3, <1>7 DEF T, Keeps
<1>9. f[Len(s) + 1] = IF t[Len(s) + 1] \in gone THEN f[Len(s)] ELSE Append(f[Len(s)], t[Len(s) + 1])
      BY <1>1, <1>2 DEF Keeps
<1> QED BY <1>2, <1>8, <1>9 DEF Keeps

LEMMA RemainingAppend ==
    ASSUME NEW s, List(s), NEW x, NEW gone
    PROVE  Remaining(Append(s, x), gone) =
                IF x \in gone THEN Remaining(s, gone) ELSE Append(Remaining(s, gone), x)
<1> DEFINE t == Append(s, x)
<1>1. List(t) /\ Len(t) = Len(s) + 1 /\ (\A i \in 1..Len(s) : t[i] = s[i]) /\ t[Len(s) + 1] = x
      BY Appended
<1> HIDE DEF t
<1>2. Remaining(t, gone) = IF t[Len(s) + 1] \in gone THEN Remaining(s, gone)
                           ELSE Append(Remaining(s, gone), t[Len(s) + 1])
      BY <1>1, RemainingLonger
<1> QED BY <1>1, <1>2 DEF t

\* Items taken out in two turns are taken out.
LEMMA RemainingTwice ==
    ASSUME NEW items, List(items), NEW first, NEW second, NEW gone,
           \A x \in ToSet(items) : x \in gone <=> x \in first \/ x \in second
    PROVE  Remaining(Remaining(items, first), second) = Remaining(items, gone)
<1>1. Len(items) \in Nat /\ \A i \in 1..Len(items) : items[i] \in ToSet(items)
      BY ListFacts
<1>2. PICK f : Keeps(f, items, first)
      BY RemainingKeeps
<1>3. PICK g : Keeps(g, items, gone)
      BY RemainingKeeps
<1> DEFINE T == {n \in Nat : n =< Len(items) => List(f[n]) /\ Remaining(f[n], second) = g[n]}
<1>4. 0 \in T
      BY <1>2, <1>3, NoneListed, RemainingNone DEF Keeps
<1>5. ASSUME NEW n \in T PROVE n + 1 \in T
  <2> SUFFICES ASSUME n + 1 =< Len(items) PROVE List(f[n + 1]) /\ Remaining(f[n + 1], second) = g[n + 1]
      OBVIOUS
  <2> DEFINE x == items[n + 1]
  <2>1. List(f[n]) /\ Remaining(f[n], second) = g[n] /\ x \in ToSet(items) /\ n < Len(items)
        BY <1>1
  <2>2. f[n + 1] = IF x \in first THEN f[n] ELSE Append(f[n], x)
        BY <1>2, <2>1 DEF Keeps
  <2>3. g[n + 1] = IF x \in gone THEN g[n] ELSE Append(g[n], x)
        BY <1>3, <2>1 DEF Keeps
  <2>4. x \in gone <=> x \in first \/ x \in second
        BY <2>1
  <2> HIDE DEF x
  <2>5. CASE x \in first
        BY <2>1, <2>2, <2>3, <2>4, <2>5
  <2>6. CASE x \notin first
    <3>1. List(Append(f[n], x))
          BY <2>1, Appended
    <3>2. Remaining(Append(f[n], x), second) =
              IF x \in second THEN Remaining(f[n], second) ELSE Append(Remaining(f[n], second), x)
          BY <2>1, RemainingAppend
    <3> QED BY <2>1, <2>2, <2>3, <2>4, <2>6, <3>1, <3>2
  <2> QED BY <2>5, <2>6
<1>6. T \in SUBSET Nat
      OBVIOUS
<1> HIDE DEF T
<1>7. Len(items) \in T
      BY <1>1, <1>4, <1>5, <1>6, Induction
<1> QED BY <1>1, <1>2, <1>3, <1>7 DEF T, Keeps

LEMMA RemainingAll ==
    ASSUME NEW items, List(items), NEW gone, \A x \in ToSet(items) : x \notin gone
    PROVE  Remaining(items, gone) = items
<1>1. Len(items) \in Nat /\ \A i \in 1..Len(items) : items[i] \in ToSet(items)
      BY ListFacts
<1>2. PICK f : Keeps(f, items, gone)
      BY RemainingKeeps
<1> DEFINE T == {n \in Nat : n =< Len(items) => f[n] = Pre(items, n)}
<1>3. 0 \in T
      BY <1>2, PreEnds DEF Keeps
<1>4. ASSUME NEW n \in T PROVE n + 1 \in T
  <2> SUFFICES ASSUME n + 1 =< Len(items) PROVE f[n + 1] = Pre(items, n + 1)
      OBVIOUS
  <2>1. n \in Nat /\ n =< Len(items) /\ n < Len(items) /\ n + 1 \in 1..Len(items) /\ f[n] = Pre(items, n)
        BY <1>1
  <2>2. f[n + 1] = Append(f[n], items[n + 1])
        BY <1>1, <1>2, <2>1 DEF Keeps
  <2>3. Append(Pre(items, n), items[n + 1]) = Pre(items, n + 1)
        BY <2>1, PreFacts
  <2> QED BY <2>1, <2>2, <2>3
<1>5. T \in SUBSET Nat
      OBVIOUS
<1> HIDE DEF T
<1>6. Len(items) \in T
      BY <1>1, <1>3, <1>4, <1>5, Induction
<1> QED BY <1>1, <1>2, <1>6, PreEnds DEF T, Keeps

\* Only which of the items go matters.
LEMMA RemainingSame ==
    ASSUME NEW items, List(items), NEW some, NEW others,
           \A x \in ToSet(items) : x \in some <=> x \in others
    PROVE  Remaining(items, some) = Remaining(items, others)
<1>1. List(Remaining(items, others))
      BY RemainingFacts
<1>2. Remaining(Remaining(items, others), {}) = Remaining(items, others)
      BY <1>1, RemainingAll
<1>3. \A x \in ToSet(items) : x \in some <=> x \in others \/ x \in {}
      OBVIOUS
<1>4. Remaining(Remaining(items, others), {}) = Remaining(items, some)
      BY <1>3, RemainingTwice
<1> QED BY <1>2, <1>4

-------------------------------------------------------------------------------
(* The replay of effects *)

ReplayStep(f, replay, effects, n) ==
    IF n = 0 THEN replay ELSE Reduced(f[n - 1], effects[n])

LEMMA ReplayExists ==
    ASSUME NEW replay, NEW effects, NEW last \in Nat
    PROVE  \E f : f = [n \in 0..last |-> ReplayStep(f, replay, effects, n)]
<1> DEFINE good(m) == \E f : DOMAIN f = 0..m /\ f = [n \in 0..m |-> ReplayStep(f, replay, effects, n)]
           T == {m \in Nat : good(m)}
<1>1. 0 \in T
  <2> DEFINE g == [n \in 0..0 |-> replay]
  <2>1. \A n \in 0..0 : ReplayStep(g, replay, effects, n) = replay
        BY DEF ReplayStep
  <2>2. g = [n \in 0..0 |-> ReplayStep(g, replay, effects, n)]
        BY <2>1
  <2> QED BY <2>2
<1>2. ASSUME NEW m \in T PROVE m + 1 \in T
  <2>1. PICK f : DOMAIN f = 0..m /\ f = [n \in 0..m |-> ReplayStep(f, replay, effects, n)]
        OBVIOUS
  <2> DEFINE g == [n \in 0..(m + 1) |-> IF n = m + 1 THEN ReplayStep(f, replay, effects, n) ELSE f[n]]
  <2>2. \A n \in 0..(m + 1) : n = 0 \/ g[n - 1] = f[n - 1]
        OBVIOUS
  <2>3. \A n \in 0..(m + 1) : ReplayStep(g, replay, effects, n) = ReplayStep(f, replay, effects, n)
        BY <2>2 DEF ReplayStep
  <2>4. \A n \in 0..(m + 1) : g[n] = ReplayStep(f, replay, effects, n)
    <3>1. \A n \in 0..m : f[n] = ReplayStep(f, replay, effects, n)
          BY <2>1
    <3>2. \A n \in 0..(m + 1) : n = m + 1 \/ n \in 0..m
          OBVIOUS
    <3> QED BY <3>1, <3>2
  <2>5. g = [n \in 0..(m + 1) |-> g[n]] /\ DOMAIN g = 0..(m + 1)
        OBVIOUS
  <2> HIDE DEF g
  <2>6. g = [n \in 0..(m + 1) |-> ReplayStep(g, replay, effects, n)]
        BY <2>3, <2>4, <2>5
  <2> QED BY <2>5, <2>6
<1>3. T = Nat
      BY <1>1, <1>2, Induction
<1> QED BY <1>3

\* f is what a replay goes through.
Reaches(f, replay, effects) ==
    /\ Replay(replay, effects) = f[Len(effects)]
    /\ f[0] = replay
    /\ \A n \in Nat : n < Len(effects) => f[n + 1] = Reduced(f[n], effects[n + 1])

LEMMA ReplayIs ==
    ASSUME NEW replay, NEW effects, List(effects)
    PROVE  \E f : Reaches(f, replay, effects)
<1>1. Len(effects) \in Nat
      BY ListFacts
<1> DEFINE f == CHOOSE f : f = [n \in 0..Len(effects) |-> ReplayStep(f, replay, effects, n)]
<1>2. Replay(replay, effects) = f[Len(effects)]
      BY DEF Replay, ReplayStep
<1>3. f = [n \in 0..Len(effects) |-> ReplayStep(f, replay, effects, n)]
      BY <1>1, ReplayExists
<1> HIDE DEF f
<1>4. \A n \in 0..Len(effects) : f[n] = ReplayStep(f, replay, effects, n)
      BY <1>3
<1>5. f[0] = replay
      BY <1>1, <1>4 DEF ReplayStep
<1>6. ASSUME NEW n \in Nat, n < Len(effects) PROVE f[n + 1] = Reduced(f[n], effects[n + 1])
  <2>1. n + 1 \in 0..Len(effects) /\ n + 1 # 0 /\ (n + 1) - 1 = n
        BY <1>1, <1>6
  <2> QED BY <1>4, <2>1 DEF ReplayStep
<1> QED BY <1>2, <1>5, <1>6 DEF Reaches

LEMMA ReplayNone == \A replay : Replay(replay, << >>) = replay
<1> SUFFICES ASSUME NEW replay PROVE Replay(replay, << >>) = replay
    OBVIOUS
<1> QED BY ReplayIs, NoneListed DEF Reaches

LEMMA OneListed ==
    ASSUME NEW x
    PROVE  List(<<x>>) /\ Len(<<x>>) = 1 /\ <<x>>[1] = x /\ ToSet(<<x>>) = {x} /\ DOMAIN <<x>> = 1..1
<1> DEFINE s == <<x>>
<1>1. s \in Seq({x}) /\ Len(s) = 1 /\ s[1] = x /\ DOMAIN s = 1..1
      OBVIOUS
<1> HIDE DEF s
<1>2. ToSet(s) = {x}
      BY <1>1 DEF ToSet
<1> QED BY <1>1, <1>2 DEF List, s

LEMMA ReplayFirst ==
    ASSUME NEW replay, NEW s, List(s), Len(s) = 1
    PROVE  Replay(replay, s) = Reduced(replay, s[1])
<1>2. PICK f : Reaches(f, replay, s)
      BY ReplayIs
<1>3. f[0 + 1] = Reduced(f[0], s[0 + 1])
      BY <1>2 DEF Reaches
<1> QED BY <1>2, <1>3 DEF Reaches

LEMMA ReplayOne == \A replay, effect : Replay(replay, <<effect>>) = Reduced(replay, effect)
<1> SUFFICES ASSUME NEW replay, NEW effect PROVE Replay(replay, <<effect>>) = Reduced(replay, effect)
    OBVIOUS
<1>1. List(<<effect>>) /\ Len(<<effect>>) = 1 /\ <<effect>>[1] = effect
      BY OneListed
<1>2. Replay(replay, <<effect>>) = Reduced(replay, <<effect>>[1])
      BY <1>1, ReplayFirst
<1> QED BY <1>1, <1>2

LEMMA JoinAt ==
    ASSUME NEW S, NEW s \in Seq(S), NEW t \in Seq(S)
    PROVE  /\ s \o t \in Seq(S) /\ Len(s \o t) = Len(s) + Len(t) /\ Len(s) \in Nat /\ Len(t) \in Nat
           /\ \A i \in 1..Len(s) : (s \o t)[i] = s[i]
           /\ \A i \in 1..Len(t) : (s \o t)[Len(s) + i] = t[i]
  OBVIOUS

IsJoin(j, s, t) ==
    /\ Len(j) = Len(s) + Len(t)
    /\ \A i \in 1..Len(s) : j[i] = s[i]
    /\ \A i \in 1..Len(t) : j[Len(s) + i] = t[i]

LEMMA Joined ==
    ASSUME NEW s, List(s), NEW t, List(t)
    PROVE  List(s \o t) /\ IsJoin(s \o t, s, t)
<1> DEFINE S == ToSet(s) \cup ToSet(t)
           j == s \o t
<1>1. s \in Seq(S) /\ t \in Seq(S)
      BY DEF List
<1>2. /\ j \in Seq(S) /\ Len(j) = Len(s) + Len(t) /\ Len(s) \in Nat /\ Len(t) \in Nat
      /\ \A i \in 1..Len(s) : j[i] = s[i]
      /\ \A i \in 1..Len(t) : j[Len(s) + i] = t[i]
      BY <1>1, JoinAt
<1>3. DOMAIN j = 1..Len(j) /\ j = [i \in 1..Len(j) |-> j[i]]
      BY <1>2, SeqFacts
<1> HIDE DEF j
<1>4. List(j)
      BY <1>2, <1>3, MakesList
<1> QED BY <1>2, <1>4 DEF j, IsJoin

\* Effects are reduced one after the other, wherever the list is cut.
LEMMA ReplayCut ==
    ASSUME NEW replay, NEW s, List(s), NEW t, List(t),
           NEW j, List(j), IsJoin(j, s, t)
    PROVE  Replay(replay, j) = Replay(Replay(replay, s), t)
<1>1. /\ Len(j) = Len(s) + Len(t)
      /\ \A i \in 1..Len(s) : j[i] = s[i]
      /\ \A i \in 1..Len(t) : j[Len(s) + i] = t[i]
      BY DEF IsJoin
<1>2. Len(s) \in Nat /\ Len(t) \in Nat
      BY ListFacts
<1>3. PICK f : Reaches(f, replay, j)
      BY ReplayIs
<1>4. PICK g : Reaches(g, replay, s)
      BY ReplayIs
<1> DEFINE middle == Replay(replay, s)
<1>5. PICK h : Reaches(h, middle, t)
      BY ReplayIs
<1>6. f[Len(s)] = middle
  <2> DEFINE T == {n \in Nat : n =< Len(s) => f[n] = g[n]}
  <2>1. 0 \in T
        BY <1>3, <1>4 DEF Reaches
  <2>2. ASSUME NEW n \in T PROVE n + 1 \in T
    <3> SUFFICES ASSUME n + 1 =< Len(s) PROVE f[n + 1] = g[n + 1]
        OBVIOUS
    <3>1. f[n] = g[n] /\ j[n + 1] = s[n + 1] /\ n < Len(j) /\ n < Len(s)
          BY <1>1, <1>2
    <3> QED BY <1>3, <1>4, <3>1 DEF Reaches
  <2>3. T \in SUBSET Nat
        OBVIOUS
  <2> HIDE DEF T
  <2>4. Len(s) \in T
        BY <1>2, <2>1, <2>2, <2>3, Induction
  <2> QED BY <1>2, <1>4, <2>4 DEF T, Reaches
<1> HIDE DEF middle
<1>7. f[Len(s) + Len(t)] = h[Len(t)]
  <2> DEFINE T == {n \in Nat : n =< Len(t) => f[Len(s) + n] = h[n]}
  <2>1. 0 \in T
        BY <1>2, <1>5, <1>6 DEF Reaches
  <2>2. ASSUME NEW n \in T PROVE n + 1 \in T
    <3> SUFFICES ASSUME n + 1 =< Len(t) PROVE f[Len(s) + (n + 1)] = h[n + 1]
        OBVIOUS
    <3>1. /\ f[Len(s) + n] = h[n] /\ j[Len(s) + (n + 1)] = t[n + 1] /\ n < Len(t)
          /\ Len(s) + n < Len(j) /\ Len(s) + n \in Nat /\ (Len(s) + n) + 1 = Len(s) + (n + 1)
          BY <1>1, <1>2
    <3>2. f[(Len(s) + n) + 1] = Reduced(f[Len(s) + n], j[(Len(s) + n) + 1])
          BY <1>3, <3>1 DEF Reaches
    <3> QED BY <1>5, <3>1, <3>2 DEF Reaches
  <2>3. T \in SUBSET Nat
        OBVIOUS
  <2> HIDE DEF T
  <2>4. Len(t) \in T
        BY <1>2, <2>1, <2>2, <2>3, Induction
  <2> QED BY <1>2, <2>4 DEF T
<1>8. Replay(replay, j) = Replay(middle, t)
      BY <1>1, <1>3, <1>5, <1>7 DEF Reaches
<1> QED BY <1>8 DEF middle

LEMMA ReplayJoined ==
    ASSUME NEW replay, NEW s, List(s), NEW t, List(t)
    PROVE  Replay(replay, s \o t) = Replay(Replay(replay, s), t)
<1>1. List(s \o t) /\ IsJoin(s \o t, s, t)
      BY Joined
<1> QED BY <1>1, ReplayCut

-------------------------------------------------------------------------------
(* Identifiers in order *)

Rank(x, S) == Cardinality({y \in S : y < x})

LEMMA Ranks ==
    ASSUME NEW S, S \subseteq Nat, IsFiniteSet(S)
    PROVE  /\ Cardinality(S) \in Nat
           /\ \A x \in S : Rank(x, S) \in 0..(Cardinality(S) - 1)
           /\ \A x, y \in S : Rank(x, S) = Rank(y, S) => x = y
           /\ \A k \in 1..Cardinality(S) : \E x \in S : Rank(x, S) = k - 1
<1> DEFINE Below(x) == {y \in S : y < x}
           count == Cardinality(S)
<1>1. count \in Nat
      BY FS_CardinalityType
<1>2. ASSUME NEW x \in S PROVE IsFiniteSet(Below(x)) /\ Rank(x, S) \in Nat
  <2>1. Below(x) \in SUBSET S
        OBVIOUS
  <2>2. IsFiniteSet(Below(x))
        BY <2>1, FS_Subset
  <2>3. Cardinality(Below(x)) \in Nat
        BY <2>2, FS_CardinalityType
  <2> QED BY <2>2, <2>3 DEF Rank
\* Fewer are below the lesser of two.
<1>3. ASSUME NEW T, IsFiniteSet(T), NEW U \in SUBSET T, NEW x \in T, x \notin U
      PROVE  Cardinality(U) < Cardinality(T)
  <2>1. Cardinality(U) =< Cardinality(T) /\ (Cardinality(T) = Cardinality(U) => T = U) /\ IsFiniteSet(U)
        BY <1>3, FS_Subset
  <2>2. Cardinality(U) \in Nat /\ Cardinality(T) \in Nat
        BY <1>3, <2>1, FS_CardinalityType
  <2> QED BY <1>3, <2>1, <2>2
<1>4. ASSUME NEW x \in S PROVE Rank(x, S) < count
  <2>1. Below(x) \in SUBSET S /\ x \notin Below(x)
        OBVIOUS
  <2> HIDE DEF Below
  <2>2. Cardinality(Below(x)) < Cardinality(S)
        BY <1>3, <2>1
  <2> QED BY <2>2 DEF Rank, Below
<1>5. ASSUME NEW x \in S, NEW y \in S, x < y PROVE Rank(x, S) < Rank(y, S)
  <2>0. x \in Nat /\ y \in Nat /\ ~(x < x) /\ \A z \in S : z < x => z < y
    <3>1. \A z \in S : z \in Nat
          OBVIOUS
    <3> QED BY <1>5, <3>1
  <2>1. Below(x) \in SUBSET Below(y) /\ x \in Below(y) /\ x \notin Below(x)
        BY <1>5, <2>0, Zenon
  <2>2. IsFiniteSet(Below(y))
        BY <1>2
  <2> HIDE DEF Below
  <2>3. Cardinality(Below(x)) < Cardinality(Below(y))
        BY <1>3, <2>1, <2>2
  <2> QED BY <2>3 DEF Rank, Below
<1>6. \A x, y \in S : Rank(x, S) = Rank(y, S) => x = y
  <2> SUFFICES ASSUME NEW x \in S, NEW y \in S, Rank(x, S) = Rank(y, S), x # y PROVE FALSE
      OBVIOUS
  <2>1. x < y \/ y < x
        OBVIOUS
  <2>2. Rank(x, S) \in Nat /\ Rank(y, S) \in Nat
        BY <1>2
  <2>3. CASE x < y
        BY <1>5, <2>2, <2>3
  <2>4. CASE y < x
        BY <1>5, <2>2, <2>4
  <2> QED BY <2>1, <2>3, <2>4
<1>7. \A x \in S : Rank(x, S) \in 0..(count - 1)
  <2>1. \A x \in S : Rank(x, S) \in Nat /\ Rank(x, S) < count
        BY <1>2, <1>4
  <2> HIDE DEF count
  <2> QED BY <1>1, <2>1
<1> DEFINE r == [x \in S |-> Rank(x, S)]
           range == 0..(count - 1)
<1>8. r \in Injection(S, range)
      BY <1>6, <1>7 DEF Injection, IsInjective
<1>9. IsFiniteSet(range) /\ Cardinality(range) = count
  <2>1. 0 \in Int /\ count - 1 \in Int
        BY <1>1
  <2> HIDE DEF count
  <2>2. IsFiniteSet(range) /\ Cardinality(range) = IF 0 > count - 1 THEN 0 ELSE (count - 1) - 0 + 1
        BY <2>1, FS_Interval
  <2> HIDE DEF range
  <2> QED BY <1>1, <2>2
<1>10. r \in Surjection(S, range)
  <2> HIDE DEF r, range
  <2> QED BY <1>8, <1>9, FS_Injection
<1>11. ASSUME NEW k \in 1..count PROVE \E x \in S : Rank(x, S) = k - 1
  <2>1. k - 1 \in range
        BY <1>1
  <2>2. \E x \in S : r[x] = k - 1
    <3> HIDE DEF r, range
    <3> QED BY <1>10, <2>1 DEF Surjection
  <2> QED BY <2>2
<1> HIDE DEF count
<1> QED BY <1>1, <1>6, <1>7, <1>11 DEF count

\* Each identifier once.
LEMMA Ordered ==
    ASSUME NEW S, S \subseteq Nat, IsFiniteSet(S)
    PROVE  /\ List(InOrder(S)) /\ Len(InOrder(S)) = Cardinality(S)
           /\ DOMAIN InOrder(S) = 1..Cardinality(S)
           /\ ToSet(InOrder(S)) = S
           /\ \A k \in 1..Cardinality(S) : InOrder(S)[k] \in S /\ Rank(InOrder(S)[k], S) = k - 1
<1> DEFINE s == InOrder(S)
           count == Cardinality(S)
<1>1. count \in Nat
      BY Ranks
<1> DEFINE Nth(k) == CHOOSE x \in S : Rank(x, S) = k - 1
<1>0. s = [k \in 1..count |-> Nth(k)]
      BY DEF InOrder, Rank
<1> HIDE DEF Nth, s
<1>2. DOMAIN s = 1..count /\ s = [k \in 1..count |-> s[k]]
      BY <1>0
<1>3. ASSUME NEW k \in 1..count PROVE s[k] \in S /\ Rank(s[k], S) = k - 1
  <2>1. \E x \in S : Rank(x, S) = k - 1
        BY Ranks
  <2>2. Nth(k) \in S /\ Rank(Nth(k), S) = k - 1
        BY <2>1 DEF Nth
  <2> QED BY <1>0, <2>2
<1>4. List(s) /\ Len(s) = count
      BY <1>1, <1>2, MakesList
<1>5. ASSUME NEW x \in S PROVE x \in ToSet(s)
  <2>1. Rank(x, S) \in 0..(count - 1)
        BY Ranks
  <2> DEFINE k == Rank(x, S) + 1
  <2>2. k \in 1..count /\ k - 1 = Rank(x, S)
        BY <1>1, <2>1
  <2>3. s[k] \in S /\ Rank(s[k], S) = Rank(x, S)
        BY <1>3, <2>2
  <2>4. s[k] = x
        BY <2>3, Ranks
  <2> QED BY <1>2, <2>2, <2>4, ToSetIs
<1>6. ASSUME NEW x \in ToSet(s) PROVE x \in S
  <2>1. PICK k \in DOMAIN s : x = s[k]
        BY ToSetIs
  <2> QED BY <1>2, <1>3, <2>1
<1>7. ToSet(s) = S
      BY <1>5, <1>6
<1> QED BY <1>2, <1>3, <1>4, <1>7 DEF s

LEMMA OrderedNone == InOrder({}) = << >>
<1>1. IsFiniteSet({}) /\ Cardinality({}) = 0
      BY FS_EmptySet
<1>2. List(InOrder({})) /\ Len(InOrder({})) = 0
      BY <1>1, Ordered
<1> QED BY <1>2 DEF List

LEMMA OrderedOne ==
    ASSUME NEW x \in Nat
    PROVE  InOrder({x}) = <<x>>
<1>1. IsFiniteSet({x}) /\ Cardinality({x}) = 1
      BY FS_Singleton
<1> DEFINE s == InOrder({x})
<1>2. List(s) /\ Len(s) = 1 /\ s[1] = x
      BY <1>1, Ordered
<1> HIDE DEF s
<1>3. s = [i \in 1..1 |-> s[i]]
      BY <1>2, ListFacts
<1>4. <<x>> = [i \in 1..1 |-> x]
      OBVIOUS
<1>5. s = [i \in 1..1 |-> x]
      BY <1>2, <1>3
<1> QED BY <1>4, <1>5 DEF s

LEMMA OrderedTwo ==
    ASSUME NEW x \in Nat, NEW y \in Nat, x < y
    PROVE  InOrder({x, y}) = <<x, y>>
<1> DEFINE S == {x, y}
           s == InOrder(S)
<1>1. IsFiniteSet(S) /\ Cardinality(S) = 2
  <2>1. IsFiniteSet({x}) /\ Cardinality({x}) = 1
        BY FS_Singleton
  <2>2. S = {x} \cup {y} /\ y \notin {x}
        OBVIOUS
  <2> HIDE DEF S
  <2>3. IsFiniteSet({x} \cup {y}) /\ Cardinality({x} \cup {y}) = Cardinality({x}) + 1
        BY <2>1, <2>2, FS_AddElement
  <2> QED BY <2>1, <2>2, <2>3
<1>2. S \subseteq Nat
      OBVIOUS
<1>3. Rank(x, S) = 0
  <2>1. {z \in S : z < x} = {}
        OBVIOUS
  <2> QED BY <2>1, FS_EmptySet DEF Rank
<1>4. \A z \in S : z = x \/ z = y
      OBVIOUS
<1>5. x \in S /\ y \in S
      OBVIOUS
<1> HIDE DEF S
<1>6. /\ List(s) /\ Len(s) = 2
      /\ \A k \in 1..2 : s[k] \in S /\ Rank(s[k], S) = k - 1
      BY <1>1, <1>2, Ordered
<1> HIDE DEF s
<1>7. s[1] \in S /\ Rank(s[1], S) = 0 /\ s[2] \in S /\ Rank(s[2], S) = 1
  <2>1. 1 \in 1..2 /\ 2 \in 1..2 /\ 1 - 1 = 0 /\ 2 - 1 = 1
        OBVIOUS
  <2> QED BY <1>6, <2>1
<1>8. s[1] = x
  <2>1. \A u, v \in S : Rank(u, S) = Rank(v, S) => u = v
        BY <1>1, <1>2, Ranks
  <2> QED BY <1>3, <1>5, <1>7, <2>1
<1>9. s[2] = y
      BY <1>3, <1>4, <1>7
<1>10. s = [i \in 1..2 |-> s[i]]
      BY <1>6, ListFacts
<1>11. <<x, y>> = [i \in 1..2 |-> IF i = 1 THEN x ELSE y]
      OBVIOUS
<1>12. s = [i \in 1..2 |-> IF i = 1 THEN x ELSE y]
      BY <1>8, <1>9, <1>10
<1> QED BY <1>11, <1>12 DEF s, S

-------------------------------------------------------------------------------
(* The effects of a difference, and what each does *)

Going(c) == [core |-> c, missing |-> FALSE]
With(c, type, items) == [c EXCEPT ![type] = items]
Types == {"notes", "diary", "nodes", "edges"}

LEMMA RemovalsNone ==
    ASSUME NEW type, NEW before, NEW after, Ids(before) \subseteq Ids(after)
    PROVE  Removals(type, before, after) = << >>
<1>1. Ids(before) \ Ids(after) = {}
      OBVIOUS
<1>2. InOrder(Ids(before) \ Ids(after)) = << >>
      BY <1>1, OrderedNone
<1>3. Removals(type, before, after) = [i \in DOMAIN << >> |-> Removal(type, << >>[i])]
      BY <1>2 DEF Removals
<1>4. DOMAIN << >> = {}
      OBVIOUS
<1>5. [i \in DOMAIN << >> |-> Removal(type, << >>[i])] = << >>
      BY <1>4
<1> QED BY <1>3, <1>5

LEMMA RemovalsOne ==
    ASSUME NEW type, NEW before, NEW after, NEW id \in Nat, Ids(before) \ Ids(after) = {id}
    PROVE  Removals(type, before, after) = <<Removal(type, id)>>
<1>1. InOrder(Ids(before) \ Ids(after)) = <<id>>
      BY OrderedOne
<1>2. Removals(type, before, after) = [i \in DOMAIN <<id>> |-> Removal(type, <<id>>[i])]
      BY <1>1 DEF Removals
<1>3. DOMAIN <<id>> = 1..1 /\ <<id>>[1] = id
      OBVIOUS
<1>4. [i \in DOMAIN <<id>> |-> Removal(type, <<id>>[i])] = [i \in 1..1 |-> Removal(type, id)]
      BY <1>3
<1>5. [i \in 1..1 |-> Removal(type, id)] = <<Removal(type, id)>>
      OBVIOUS
<1> QED BY <1>2, <1>4, <1>5

LEMMA PutsNone ==
    ASSUME NEW type, NEW before, NEW after, ToSet(after) \subseteq ToSet(before)
    PROVE  Puts(type, before, after) = << >>
<1> DEFINE S == {item.id : item \in ToSet(after) \ ToSet(before)}
<1>1. S = {}
      OBVIOUS
<1>2. InOrder(S) = << >>
      BY <1>1, OrderedNone
<1>3. Puts(type, before, after) = [i \in DOMAIN InOrder(S) |-> Postimage(type, Get(after, InOrder(S)[i]))]
      BY DEF Puts
<1> HIDE DEF S
<1>4. DOMAIN << >> = {}
      OBVIOUS
<1>5. [i \in DOMAIN << >> |-> Postimage(type, Get(after, << >>[i]))] = << >>
      BY <1>4
<1> QED BY <1>2, <1>3, <1>5

LEMMA GetItem ==
    ASSUME NEW items, List(items), Distinct(items), NEW item \in ToSet(items)
    PROVE  Get(items, item.id) = item
<1>1. \E x \in ToSet(items) : x.id = item.id
      OBVIOUS
<1>2. Get(items, item.id) \in ToSet(items) /\ Get(items, item.id).id = item.id
      BY <1>1 DEF Get
<1> QED BY <1>2, DistinctItems

LEMMA PutsOne ==
    ASSUME NEW type, NEW before, NEW after, List(after), Distinct(after),
           NEW item, item.id \in Nat, ToSet(after) \ ToSet(before) = {item}
    PROVE  Puts(type, before, after) = <<Postimage(type, item)>>
<1> DEFINE S == {x.id : x \in ToSet(after) \ ToSet(before)}
           id == item.id
<1>1. S = {id} /\ item \in ToSet(after)
      OBVIOUS
<1>2. Get(after, id) = item
      BY <1>1, GetItem
<1>3. Puts(type, before, after) = [i \in DOMAIN InOrder(S) |-> Postimage(type, Get(after, InOrder(S)[i]))]
      BY DEF Puts
<1> HIDE DEF S, id
<1>4. InOrder(S) = <<id>>
      BY <1>1, OrderedOne DEF id
<1>5. DOMAIN <<id>> = 1..1 /\ <<id>>[1] = id
      OBVIOUS
<1>6. [i \in DOMAIN <<id>> |-> Postimage(type, Get(after, <<id>>[i]))] = [i \in 1..1 |-> Postimage(type, item)]
      BY <1>2, <1>5
<1>7. [i \in 1..1 |-> Postimage(type, item)] = <<Postimage(type, item)>>
      OBVIOUS
<1> QED BY <1>3, <1>4, <1>6, <1>7

LEMMA PutsTwo ==
    ASSUME NEW type, NEW before, NEW after, List(after), Distinct(after),
           NEW item, item.id \in Nat, NEW other, other.id \in Nat, item.id < other.id,
           ToSet(after) \ ToSet(before) = {item, other}
    PROVE  Puts(type, before, after) = <<Postimage(type, item), Postimage(type, other)>>
<1> DEFINE S == {x.id : x \in ToSet(after) \ ToSet(before)}
           id == item.id
           od == other.id
<1>1. S = {id, od} /\ item \in ToSet(after) /\ other \in ToSet(after)
      OBVIOUS
<1>2. Get(after, id) = item /\ Get(after, od) = other
      BY <1>1, GetItem
<1>3. Puts(type, before, after) = [i \in DOMAIN InOrder(S) |-> Postimage(type, Get(after, InOrder(S)[i]))]
      BY DEF Puts
<1> HIDE DEF S, id, od
<1>4. InOrder(S) = <<id, od>>
      BY <1>1, OrderedTwo DEF id, od
<1> DEFINE p == Postimage(type, item)
           q == Postimage(type, other)
<1> HIDE DEF p, q
<1>5. DOMAIN <<id, od>> = 1..2 /\ <<id, od>>[1] = id /\ <<id, od>>[2] = od
      OBVIOUS
<1>6. [i \in DOMAIN <<id, od>> |-> Postimage(type, Get(after, <<id, od>>[i]))] = [i \in 1..2 |-> IF i = 1 THEN p ELSE q]
  <2>1. \A i \in 1..2 : i = 1 \/ i = 2
        OBVIOUS
  <2>2. \A i \in 1..2 : Postimage(type, Get(after, <<id, od>>[i])) = IF i = 1 THEN p ELSE q
        BY <1>2, <1>5, <2>1 DEF p, q
  <2> QED BY <1>5, <2>2
<1>7. [i \in 1..2 |-> IF i = 1 THEN p ELSE q] = <<p, q>>
      OBVIOUS
<1> QED BY <1>3, <1>4, <1>6, <1>7 DEF p, q

\* One effect.
LEMMA ReducedPut ==
    ASSUME NEW c, NEW type, type # "edges", NEW item
    PROVE  Reduced(Going(c), Postimage(type, item)) = Going(With(c, type, Put(c[type], item)))
<1> DEFINE e == Postimage(type, item)
<1>1. e.type = type /\ e.item = item /\ "item" \in DOMAIN e
      BY DEF Postimage
<1> HIDE DEF e
<1>2. ~Missing(c, e)
      BY <1>1 DEF Missing
<1>3. Applied(c, e) = With(c, type, Put(c[type], item))
      BY <1>1 DEF Applied, With
<1>4. Reduced(Going(c), e) = Going(Applied(c, e))
      BY <1>2 DEF Reduced, Going
<1> QED BY <1>3, <1>4 DEF e

LEMMA ReducedEdge ==
    ASSUME NEW c, NEW item, IsEdge(item)
    PROVE  Reduced(Going(c), Postimage("edges", item)) = Going(With(c, "edges", Put(c.edges, item)))
<1> DEFINE e == Postimage("edges", item)
<1>1. e.type = "edges" /\ e.item = item /\ "item" \in DOMAIN e
      BY DEF Postimage
<1> HIDE DEF e
<1>2. ~Missing(c, e)
      BY <1>1 DEF Missing
<1>3. [item EXCEPT !.relation = Normalized(@)] = item
  <2>1. Normalized(item.relation) = item.relation
        BY DEF IsEdge, Normalized
  <2>2. PICK id, source, target, relation :
            item = [id |-> id, source |-> source, target |-> target, relation |-> relation]
        BY DEF IsEdge
  <2> QED BY <2>1, <2>2
<1>4. Applied(c, e) = With(c, "edges", Put(c.edges, item))
      BY <1>1, <1>3 DEF Applied, With
<1>5. Reduced(Going(c), e) = Going(Applied(c, e))
      BY <1>2 DEF Reduced, Going
<1> QED BY <1>4, <1>5 DEF e

LEMMA ReducedRemoval ==
    ASSUME NEW c, NEW type, type # "nodes", NEW id \in Ids(c[type])
    PROVE  Reduced(Going(c), Removal(type, id)) = Going(With(c, type, Without(c[type], id)))
<1> DEFINE e == Removal(type, id)
<1>1. e.type = type /\ e.id = id /\ "item" \notin DOMAIN e
      BY DEF Removal
<1> HIDE DEF e
<1>2. ~Missing(c, e)
      BY <1>1 DEF Missing
<1>3. Applied(c, e) = With(c, type, Without(c[type], id))
      BY <1>1 DEF Applied, With
<1>4. Reduced(Going(c), e) = Going(Applied(c, e))
      BY <1>2 DEF Reduced, Going
<1> QED BY <1>3, <1>4 DEF e

LEMMA ReducedNode ==
    ASSUME NEW c, NEW id \in Ids(c.nodes)
    PROVE  Reduced(Going(c), Removal("nodes", id)) = Going(RemoveNode(c, id))
<1> DEFINE e == Removal("nodes", id)
<1>1. e.type = "nodes" /\ e.id = id /\ "item" \notin DOMAIN e
      BY DEF Removal
<1> HIDE DEF e
<1>2. ~Missing(c, e)
      BY <1>1 DEF Missing
<1>3. Applied(c, e) = RemoveNode(c, id)
      BY <1>1 DEF Applied
<1>4. Reduced(Going(c), e) = Going(Applied(c, e))
      BY <1>2 DEF Reduced, Going
<1> QED BY <1>3, <1>4 DEF e

LEMMA WithIs ==
    ASSUME NEW c, IsCore(c), NEW items
    PROVE  /\ With(c, "notes", items) = Core(items, c.diary, c.nodes, c.edges)
           /\ With(c, "diary", items) = Core(c.notes, items, c.nodes, c.edges)
           /\ With(c, "nodes", items) = Core(c.notes, c.diary, items, c.edges)
           /\ With(c, "edges", items) = Core(c.notes, c.diary, c.nodes, items)
  BY CoreExcept DEF With

LEMMA WithSame ==
    ASSUME NEW c, IsCore(c), NEW type \in Types
    PROVE  With(c, type, c[type]) = c
<1>1. Core(c.notes, c.diary, c.nodes, c.edges) = c
      BY DEF IsCore, Core
<1> QED BY <1>1, WithIs DEF Types

-------------------------------------------------------------------------------
(* What the effects of one collection lead to *)

Leads(from, effects, to) == List(effects) /\ Replay(from, effects) = to

LEMMA LeadsNowhere == \A from : Leads(from, << >>, from)
  BY NoneListed, ReplayNone DEF Leads

LEMMA LeadsOne == \A from, effect : Leads(from, <<effect>>, Reduced(from, effect))
  BY OneListed, ReplayOne DEF Leads

LEMMA LeadsOn ==
    ASSUME NEW from, NEW middle, NEW to, NEW s, NEW t, Leads(from, s, middle), Leads(middle, t, to)
    PROVE  Leads(from, s \o t, to)
<1>1. List(s) /\ List(t) /\ Replay(from, s) = middle /\ Replay(middle, t) = to
      BY DEF Leads
<1>2. List(s \o t)
      BY <1>1, Joined
<1>3. Replay(from, s \o t) = Replay(Replay(from, s), t)
      BY <1>1, ReplayJoined
<1> QED BY <1>1, <1>2, <1>3 DEF Leads

\* A collection that stays as it was has no effects, nor one that only grows removals.
LEMMA StillLeads ==
    ASSUME NEW from, NEW type, NEW items
    PROVE  Leads(from, Removals(type, items, items) \o Puts(type, items, items), from)
<1>1. Removals(type, items, items) = << >> /\ Puts(type, items, items) = << >>
      BY RemovalsNone, PutsNone
<1>2. Leads(from, Removals(type, items, items), from) /\ Leads(from, Puts(type, items, items), from)
      BY <1>1, LeadsNowhere
<1> QED BY <1>2, LeadsOn

LEMMA NoRemovalLeads ==
    ASSUME NEW from, NEW type, NEW before, NEW after, Ids(before) \subseteq Ids(after)
    PROVE  Leads(from, Removals(type, before, after), from)
<1>1. Removals(type, before, after) = << >>
      BY RemovalsNone
<1> QED BY <1>1, LeadsNowhere

LEMMA NoPutLeads ==
    ASSUME NEW from, NEW type, NEW before, NEW after, ToSet(after) \subseteq ToSet(before)
    PROVE  Leads(from, Puts(type, before, after), from)
<1>1. Puts(type, before, after) = << >>
      BY PutsNone
<1> QED BY <1>1, LeadsNowhere

LEMMA SameList ==
    ASSUME NEW s, List(s), NEW t, List(t), Len(s) = Len(t), \A i \in 1..Len(s) : s[i] = t[i]
    PROVE  s = t
<1>1. s = [i \in 1..Len(s) |-> s[i]] /\ t = [i \in 1..Len(t) |-> t[i]]
      BY ListFacts
<1>2. [i \in 1..Len(s) |-> s[i]] = [i \in 1..Len(t) |-> t[i]]
      OBVIOUS
<1> QED BY <1>1, <1>2

LEMMA PutSame ==
    ASSUME NEW s, List(s), Distinct(s), NEW item \in ToSet(s)
    PROVE  Put(s, item) = s
<1>1. s = [i \in 1..Len(s) |-> s[i]] /\ DOMAIN s = 1..Len(s) /\ \A i \in 1..Len(s) : s[i] \in ToSet(s)
      BY ListFacts
<1>2. item.id \in Ids(s)
      BY IdsAre
<1>3. \A i \in 1..Len(s) : s[i].id = item.id => s[i] = item
      BY <1>1, DistinctItems
<1>4. Put(s, item) = [i \in 1..Len(s) |-> IF s[i].id = item.id THEN item ELSE s[i]]
      BY <1>1, <1>2 DEF Put
<1>5. [i \in 1..Len(s) |-> IF s[i].id = item.id THEN item ELSE s[i]] = [i \in 1..Len(s) |-> s[i]]
      BY <1>3
<1> QED BY <1>1, <1>4, <1>5

LEMMA PutLeads ==
    ASSUME NEW c, IsCore(c), NEW type \in Types, List(c[type]), Distinct(c[type]),
           NEW item, item.id \in Nat, type = "edges" => IsEdge(item)
    PROVE  Leads(Going(c), Puts(type, c[type], Put(c[type], item)),
                 Going(With(c, type, Put(c[type], item))))
<1> DEFINE b == c[type]
           p == Put(b, item)
<1>1. /\ List(p) /\ Distinct(p)
      /\ ToSet(p) = {x \in ToSet(b) : x.id # item.id} \cup {item}
      BY PutFacts
<1>2. CASE item \in ToSet(b)
  <2>1. p = b
        BY <1>2, PutSame
  <2>2. With(c, type, p) = c
        BY <2>1, WithSame
  <2>3. Leads(Going(c), Puts(type, b, p), Going(c))
        BY <2>1, NoPutLeads
  <2> QED BY <2>2, <2>3
<1>3. CASE item \notin ToSet(b)
  <2>1. ToSet(p) \ ToSet(b) = {item}
        BY <1>1, <1>3
  <2> HIDE DEF p
  <2>2. Puts(type, b, p) = <<Postimage(type, item)>>
        BY <1>1, <2>1, PutsOne
  <2>3. Reduced(Going(c), Postimage(type, item)) = Going(With(c, type, p))
    <3>1. CASE type = "edges"
          BY <3>1, ReducedEdge DEF p
    <3>2. CASE type # "edges"
          BY <3>2, ReducedPut DEF p
    <3> QED BY <3>1, <3>2
  <2> HIDE DEF b
  <2>4. Leads(Going(c), <<Postimage(type, item)>>, Going(With(c, type, p)))
        BY <2>3, LeadsOne
  <2> QED BY <2>2, <2>4 DEF p, b
<1> QED BY <1>2, <1>3

LEMMA RemovalLeads ==
    ASSUME NEW c, IsCore(c), NEW type, type # "nodes", List(c[type]), Distinct(c[type]),
           NEW id \in Ids(c[type]), id \in Nat
    PROVE  Leads(Going(c), Removals(type, c[type], Without(c[type], id)),
                 Going(With(c, type, Without(c[type], id))))
<1> DEFINE b == c[type]
           w == Without(b, id)
<1>1. ToSet(w) = {x \in ToSet(b) : x.id # id}
      BY WithoutFacts
<1>2. Ids(b) \ Ids(w) = {id}
  <2> HIDE DEF w, b
  <2>1. ASSUME NEW x PROVE x \in Ids(w) <=> x \in Ids(b) /\ x # id
        BY <1>1, IdsAre
  <2>2. id \in Ids(b)
        BY DEF b
  <2> QED BY <2>1, <2>2
<1>3. Removals(type, b, w) = <<Removal(type, id)>>
      BY <1>2, RemovalsOne
<1>4. Reduced(Going(c), Removal(type, id)) = Going(With(c, type, w))
      BY ReducedRemoval
<1>5. Leads(Going(c), <<Removal(type, id)>>, Going(With(c, type, w)))
      BY <1>4, LeadsOne
<1> QED BY <1>3, <1>5

-------------------------------------------------------------------------------
(* Collections that grow *)

\* What is put into a collection b to make it p is replayed into one that has
\* become q, in any core that has b.
Grows(type, b, p, q) ==
    /\ Ids(b) \subseteq Ids(p)
    /\ \A c : IsCore(c) /\ c[type] = b => Leads(Going(c), Puts(type, b, p), Going(With(c, type, q)))

LEMMA GrowsNot == \A type \in Types : \A b : Grows(type, b, b, b)
<1> SUFFICES ASSUME NEW type \in Types, NEW b, NEW c, IsCore(c), c[type] = b
             PROVE  Leads(Going(c), Puts(type, b, b), Going(With(c, type, b)))
    BY DEF Grows
<1>1. With(c, type, b) = c
      BY WithSame
<1>2. Leads(Going(c), Puts(type, b, b), Going(c))
      BY NoPutLeads
<1> QED BY <1>1, <1>2

LEMMA GrowsPut ==
    ASSUME NEW type \in Types, NEW b, List(b), Distinct(b),
           NEW item, item.id \in Nat, type = "edges" => IsEdge(item)
    PROVE  Grows(type, b, Put(b, item), Put(b, item))
<1>1. Ids(b) \subseteq Ids(Put(b, item))
      BY PutFacts
<1>2. ASSUME NEW c, IsCore(c), c[type] = b
      PROVE  Leads(Going(c), Puts(type, b, Put(b, item)), Going(With(c, type, Put(b, item))))
      BY <1>2, PutLeads
<1> QED BY <1>1, <1>2 DEF Grows

LEMMA WithParts ==
    ASSUME NEW c, IsCore(c), NEW type \in Types, NEW items
    PROVE  /\ IsCore(With(c, type, items)) /\ With(c, type, items)[type] = items
           /\ \A other \in Types \ {type} : With(c, type, items)[other] = c[other]
           /\ \A more : With(With(c, type, items), type, more) = With(c, type, more)
<1>0. PICK notes, diary, nodes, edges : c = [notes |-> notes, diary |-> diary, nodes |-> nodes, edges |-> edges]
      BY DEF IsCore
<1> DEFINE d == With(c, type, items)
<1>1. IsCore(d) /\ d[type] = items /\ \A other \in Types \ {type} : d[other] = c[other]
  <2>1. CASE type = "notes"
        BY <1>0, <2>1 DEF With, IsCore, Types
  <2>2. CASE type = "diary"
        BY <1>0, <2>2 DEF With, IsCore, Types
  <2>3. CASE type = "nodes"
        BY <1>0, <2>3 DEF With, IsCore, Types
  <2>4. CASE type = "edges"
        BY <1>0, <2>4 DEF With, IsCore, Types
  <2> QED BY <2>1, <2>2, <2>3, <2>4 DEF Types
<1>2. ASSUME NEW more PROVE With(d, type, more) = With(c, type, more)
      BY DEF With
<1> QED BY <1>1, <1>2

\* A new item and one that has its place may be put in either order.
LEMMA PutsChangePlaces ==
    ASSUME NEW b, List(b), Distinct(b), NEW item, item.id \in Ids(b), NEW other, other.id \notin Ids(b)
    PROVE  Put(Put(b, other), item) = Put(Put(b, item), other)
<1> DEFINE n == Len(b)
           p == Put(b, item)
           s == Put(Put(b, other), item)
           t == Put(p, other)
           o == Append(b, other)
           Changed(x) == IF x.id = item.id THEN item ELSE x
<1>1. n \in Nat /\ DOMAIN b = 1..n /\ \A i \in 1..n : b[i] \in ToSet(b)
      BY ListFacts
<1>2. other.id # item.id
      OBVIOUS
<1>3. p = [i \in 1..n |-> Changed(b[i])]
      BY <1>1 DEF Put
<1>4. List(p) /\ Distinct(p) /\ Ids(p) = Ids(b) \cup {item.id}
      BY PutFacts
<1>5. DOMAIN p = 1..n /\ \A i \in 1..n : p[i] = Changed(b[i])
      BY <1>3
<1>6. Len(p) = n
      BY <1>1, <1>4, <1>5, ListFacts
<1>7. Put(b, other) = o
      BY DEF Put
<1>8. /\ List(o) /\ Len(o) = n + 1 /\ DOMAIN o = 1..(n + 1)
      /\ \A i \in 1..n : o[i] = b[i]
      /\ o[n + 1] = other /\ ToSet(o) = ToSet(b) \cup {other}
      BY Appended
<1>9. other.id \notin Ids(p)
      BY <1>2, <1>4
<1> HIDE DEF p
<1>10. t = Append(p, other)
      BY <1>9 DEF Put
<1>11. /\ List(t) /\ Len(t) = n + 1 /\ \A i \in 1..n : t[i] = p[i]
       /\ t[n + 1] = other
      BY <1>4, <1>6, <1>10, Appended
<1> HIDE DEF o, t
<1>12. item.id \in Ids(o)
      BY <1>8, IdsAre
<1>13. s = [i \in 1..(n + 1) |-> Changed(o[i])]
      BY <1>7, <1>8, <1>12 DEF Put
<1> HIDE DEF s
<1>14. DOMAIN s = 1..(n + 1) /\ s = [i \in 1..(n + 1) |-> s[i]] /\ \A i \in 1..(n + 1) : s[i] = Changed(o[i])
      BY <1>13
<1> HIDE DEF n
<1>15. List(s) /\ Len(s) = n + 1
      BY <1>1, <1>14, MakesList
<1>16. \A i \in 1..(n + 1) : s[i] = t[i]
  <2>1. \A i \in 1..(n + 1) : i \in 1..n \/ i = n + 1
        BY <1>1
  <2>2. \A i \in 1..n : i \in 1..(n + 1)
        BY <1>1
  <2>3. ASSUME NEW i \in 1..n PROVE s[i] = t[i]
        BY <1>5, <1>8, <1>11, <1>14, <2>2
  <2>4. s[n + 1] = t[n + 1]
    <3>1. n + 1 \in 1..(n + 1)
          BY <1>1
    <3> QED BY <1>2, <1>8, <1>11, <1>14, <3>1
  <2> QED BY <2>1, <2>3, <2>4
<1>17. s = t
      BY <1>11, <1>15, <1>16, SameList
<1> QED BY <1>17 DEF s, t, p

LEMMA OneAndOne ==
    ASSUME NEW x, NEW y
    PROVE  <<x>> \o <<y>> = <<x, y>>
<1> DEFINE j == <<x>> \o <<y>>
           p == <<x, y>>
<1>1. List(<<x>>) /\ Len(<<x>>) = 1 /\ <<x>>[1] = x /\ List(<<y>>) /\ Len(<<y>>) = 1 /\ <<y>>[1] = y
      BY OneListed
<1>2. p \in Seq({x, y}) /\ Len(p) = 2 /\ p[1] = x /\ p[2] = y /\ DOMAIN p = 1..2
      OBVIOUS
<1>3. List(j) /\ IsJoin(j, <<x>>, <<y>>)
      BY <1>1, Joined
<1>4. Len(j) = 2 /\ j[1] = x /\ j[2] = y
  <2>1. 1 \in 1..1 /\ 1 + 1 = 2
        OBVIOUS
  <2> HIDE DEF j
  <2> QED BY <1>1, <1>3, <2>1 DEF IsJoin
<1> HIDE DEF j, p
<1>5. List(p)
  <2>1. p = [i \in 1..2 |-> p[i]]
        BY <1>2, SeqFacts
  <2> QED BY <1>2, <2>1, MakesList
<1>6. \A i \in 1..2 : j[i] = p[i]
      BY <1>2, <1>4
<1>7. j = p
      BY <1>2, <1>3, <1>4, <1>5, <1>6, SameList
<1> QED BY <1>7 DEF j, p

\* A note's own node, and the node of its parent entry if that has none.
LEMMA GrowsByTwo ==
    ASSUME NEW b, List(b), Distinct(b), NEW item, item.id \in Nat, item \notin ToSet(b),
           NEW other, other.id \in Nat, other.id \notin Ids(b), other.id < item.id
    PROVE  Grows("nodes", b, Put(Put(b, item), other), Put(Put(b, other), item))
<1> DEFINE p == Put(b, item)
           after == Put(p, other)
           o == Put(b, other)
           q == Put(o, item)
<1>1. List(p) /\ Distinct(p) /\ Ids(p) = Ids(b) \cup {item.id}
      /\ ToSet(p) = {x \in ToSet(b) : x.id # item.id} \cup {item}
      BY PutFacts
<1> HIDE DEF p
<1>2. /\ List(after) /\ Distinct(after)
      /\ ToSet(after) = {x \in ToSet(p) : x.id # other.id} \cup {other}
      /\ Ids(after) = Ids(p) \cup {other.id}
      BY <1>1, PutFacts
<1> HIDE DEF after
<1>3. ToSet(after) \ ToSet(b) = {other, item}
  <2>1. item.id # other.id /\ other \notin ToSet(b)
        BY IdsAre
  <2>2. ASSUME NEW x PROVE x \in ToSet(after) \ ToSet(b) <=> x = other \/ x = item
        BY <1>1, <1>2, <2>1
  <2> QED BY <2>2
<1>4. Puts("nodes", b, after) = <<Postimage("nodes", other), Postimage("nodes", item)>>
      BY <1>2, <1>3, PutsTwo
<1>5. ASSUME NEW c, IsCore(c), c["nodes"] = b
      PROVE  Leads(Going(c), Puts("nodes", b, after), Going(With(c, "nodes", q)))
  <2> DEFINE d == With(c, "nodes", o)
             e1 == Postimage("nodes", other)
             e2 == Postimage("nodes", item)
  <2>1. Reduced(Going(c), e1) = Going(d)
        BY <1>5, ReducedPut
  <2>2. IsCore(d) /\ d["nodes"] = o /\ With(d, "nodes", q) = With(c, "nodes", q)
        BY <1>5, WithParts DEF Types
  <2> HIDE DEF d, o
  <2>3. Reduced(Going(d), e2) = Going(With(d, "nodes", q))
    <3>1. Reduced(Going(d), e2) = Going(With(d, "nodes", Put(d["nodes"], item)))
          BY ReducedPut
    <3> QED BY <2>2, <3>1
  <2> HIDE DEF q, e1, e2
  <2>4. Leads(Going(c), <<e1>>, Going(d)) /\ Leads(Going(d), <<e2>>, Going(With(c, "nodes", q)))
        BY <2>1, <2>2, <2>3, LeadsOne
  <2>5. Leads(Going(c), <<e1>> \o <<e2>>, Going(With(c, "nodes", q)))
        BY <2>4, LeadsOn
  <2>6. <<e1>> \o <<e2>> = <<e1, e2>>
        BY OneAndOne
  <2> QED BY <1>4, <2>5, <2>6 DEF e1, e2
<1>6. Ids(b) \subseteq Ids(after)
      BY <1>1, <1>2
<1> QED BY <1>5, <1>6 DEF Grows, after, p, q, o

\* In the same order, but for two nodes that are both new.
GrowsTo(b, after) ==
    \E q : /\ Grows("nodes", b, after, q) /\ ToSet(q) = ToSet(after)
           /\ Cardinality(Ids(after) \ Ids(b)) < 2 => q = after

LEMMA NodesGrow ==
    ASSUME NEW b, List(b), Distinct(b), NEW item, item.id \in Nat
    PROVE  GrowsTo(b, Put(b, item))
<1>1. Grows("nodes", b, Put(b, item), Put(b, item))
      BY GrowsPut DEF Types
<1> QED BY <1>1 DEF GrowsTo

LEMMA NodesGrowByTwo ==
    ASSUME NEW b, List(b), Distinct(b), NEW item, item.id \in Nat,
           NEW other, other.id \in Nat, other.id < item.id
    PROVE  GrowsTo(b, IF other.id \in Ids(Put(b, item)) THEN Put(b, item) ELSE Put(Put(b, item), other))
<1> DEFINE p == Put(b, item)
           after == Put(p, other)
           o == Put(b, other)
           q == Put(o, item)
<1>0. item.id # other.id
      OBVIOUS
<1>1. CASE other.id \in Ids(p)
      BY <1>1, NodesGrow
<1>2. CASE other.id \notin Ids(p) /\ item \in ToSet(b)
  <2>1. p = b
        BY <1>2, PutSame
  <2>2. GrowsTo(b, Put(b, other))
        BY NodesGrow
  <2> QED BY <1>2, <2>1, <2>2
<1>3. CASE other.id \notin Ids(p) /\ item \notin ToSet(b)
  <2>1. List(p) /\ Distinct(p) /\ Ids(p) = Ids(b) \cup {item.id}
        /\ ToSet(p) = {x \in ToSet(b) : x.id # item.id} \cup {item}
        BY PutFacts
  <2>2. other.id \notin Ids(b)
        BY <1>3, <2>1
  <2>3. Grows("nodes", b, after, q)
        BY <1>3, <2>2, GrowsByTwo
  <2>4. List(o) /\ Distinct(o) /\ ToSet(o) = {x \in ToSet(b) : x.id # other.id} \cup {other}
        BY PutFacts
  <2> HIDE DEF p, o
  <2>5. ToSet(after) = {x \in ToSet(p) : x.id # other.id} \cup {other} /\ Ids(after) = Ids(p) \cup {other.id}
        BY <2>1, PutFacts
  <2>6. ToSet(q) = {x \in ToSet(o) : x.id # item.id} \cup {item}
        BY <2>4, PutFacts
  <2>7. ToSet(q) = ToSet(after)
    <3> HIDE DEF q, after
    <3>1. ASSUME NEW x PROVE x \in ToSet(q) <=> x \in ToSet(after)
          BY <1>0, <2>1, <2>4, <2>5, <2>6
    <3> QED BY <3>1
  <2>8. Cardinality(Ids(after) \ Ids(b)) < 2 => q = after
    <3>1. CASE item.id \in Ids(b)
      <4>1. q = after
            BY <2>2, <3>1, PutsChangePlaces DEF p, o
      <4> QED BY <4>1
    <3>2. CASE item.id \notin Ids(b)
      <4> HIDE DEF after
      <4>1. Ids(after) \ Ids(b) = {item.id} \cup {other.id} /\ other.id \notin {item.id}
            BY <1>0, <2>1, <2>2, <2>5, <3>2
      <4>2. IsFiniteSet({item.id}) /\ Cardinality({item.id}) = 1
            BY FS_Singleton
      <4>3. Cardinality({item.id} \cup {other.id}) = Cardinality({item.id}) + 1
            BY <4>1, <4>2, FS_AddElement
      <4> QED BY <4>1, <4>2, <4>3
    <3> QED BY <3>1, <3>2
  <2>9. GrowsTo(b, after)
    <3> HIDE DEF q, after
    <3> QED BY <2>3, <2>7, <2>8 DEF GrowsTo
  <2> QED BY <1>3, <2>9 DEF p
<1> QED BY <1>1, <1>2, <1>3

-------------------------------------------------------------------------------
(* Collections that shrink *)

\* Several edges, in the order of their identifiers.
LEMMA EdgesLead ==
    ASSUME NEW c, IsCore(c), Graph(c), NEW gone
    PROVE  Leads(Going(c), Removals("edges", c.edges, Remaining(c.edges, gone)),
                 Going(With(c, "edges", Remaining(c.edges, gone))))
<1> DEFINE b == c.edges
           after == Remaining(b, gone)
           S == Ids(b) \ Ids(after)
           ids == InOrder(S)
           count == Cardinality(S)
           effects == Removals("edges", b, after)
           Gone(n) == {x \in ToSet(b) : x.id \in S /\ Rank(x.id, S) < n}
           At(n) == With(c, "edges", Remaining(b, Gone(n)))
<1>1. List(b) /\ Distinct(b) /\ \A x \in ToSet(b) : x.id \in Nat
      BY DEF Graph, IsEdge
<1>2. List(after) /\ ToSet(after) = ToSet(b) \ gone
      BY <1>1, RemainingFacts
<1>3. S \subseteq Nat
  <2>1. \A id \in Ids(b) : id \in Nat
        BY <1>1, IdsAre
  <2> QED BY <2>1
<1>4. IsFiniteSet(S)
  <2>1. IsFiniteSet(Ids(b)) /\ S \in SUBSET Ids(b)
        BY <1>1, ListFinite
  <2> QED BY <2>1, FS_Subset
<1>5. ASSUME NEW x \in ToSet(b) PROVE x \in gone <=> x.id \in S
  <2>1. x.id \in Ids(b)
        BY IdsAre
  <2>2. ASSUME NEW y \in ToSet(after), y.id = x.id PROVE x \notin gone
    <3>1. y \in ToSet(b) /\ y \notin gone
          BY <1>2
    <3>2. y = x
          BY <1>1, <2>2, <3>1, DistinctItems
    <3> QED BY <3>1, <3>2
  <2>3. x \notin gone => x.id \in Ids(after)
        BY <1>2, IdsAre
  <2>4. x.id \in Ids(after) => x \notin gone
        BY <2>2, IdsAre
  <2> QED BY <2>1, <2>3, <2>4
<1> HIDE DEF S
<1>6. /\ count \in Nat
      /\ \A x \in S : Rank(x, S) \in 0..(count - 1)
      /\ \A x, y \in S : Rank(x, S) = Rank(y, S) => x = y
      BY <1>3, <1>4, Ranks
<1>7. /\ List(ids) /\ Len(ids) = count /\ DOMAIN ids = 1..count
      /\ \A k \in 1..count : ids[k] \in S /\ Rank(ids[k], S) = k - 1
      BY <1>3, <1>4, Ordered
<1>8. effects = [i \in DOMAIN ids |-> Removal("edges", ids[i])]
      BY DEF Removals, S
<1> HIDE DEF ids, count
<1>9. List(effects) /\ Len(effects) = count /\ \A i \in 1..count : effects[i] = Removal("edges", ids[i])
  <2> HIDE DEF effects
  <2>1. DOMAIN effects = 1..count /\ \A i \in 1..count : effects[i] = Removal("edges", ids[i])
        BY <1>7, <1>8
  <2>2. effects = [i \in 1..count |-> effects[i]]
        BY <1>7, <1>8
  <2> QED BY <1>6, <2>1, <2>2, MakesList
<1> HIDE DEF effects
<1>10. PICK f : Reaches(f, Going(c), effects)
      BY <1>9, ReplayIs
<1>11. /\ Replay(Going(c), effects) = f[count] /\ f[0] = Going(c)
       /\ \A n \in Nat : n < count => f[n + 1] = Reduced(f[n], effects[n + 1])
      BY <1>9, <1>10 DEF Reaches
<1> DEFINE T == {n \in Nat : n =< count => f[n] = Going(At(n))}
<1>12. 0 \in T
  <2>1. \A x \in ToSet(b) : x \notin Gone(0)
    <3>1. \A x \in S : Rank(x, S) \in Nat
          BY <1>6
    <3> QED BY <3>1
  <2>2. Remaining(b, Gone(0)) = b
    <3> HIDE DEF Gone
    <3> QED BY <1>1, <2>1, RemainingAll
  <2>3. At(0) = c
        BY <2>2, WithSame DEF Types
  <2> QED BY <1>11, <2>3
<1>13. ASSUME NEW n \in T PROVE n + 1 \in T
  <2> SUFFICES ASSUME n + 1 =< count PROVE f[n + 1] = Going(At(n + 1))
      OBVIOUS
  <2> DEFINE id == ids[n + 1]
             r == Remaining(b, Gone(n))
             d == With(c, "edges", r)
  <2>1. n \in Nat /\ n < count /\ n + 1 \in 1..count /\ f[n] = Going(d)
        BY <1>6
  <2>2. id \in S /\ Rank(id, S) = n
    <3>1. (n + 1) - 1 = n
          BY <2>1
    <3> QED BY <1>7, <2>1, <3>1
  <2>3. f[n + 1] = Reduced(Going(d), Removal("edges", id))
        BY <1>9, <1>11, <2>1
  <2> HIDE DEF id
  <2>4. List(r) /\ ToSet(r) = ToSet(b) \ Gone(n)
    <3> HIDE DEF Gone
    <3> QED BY <1>1, RemainingFacts
  <2>5. PICK x \in ToSet(b) : x.id = id
        BY <2>2, IdsAre DEF S
  <2>6. x \in ToSet(r)
    <3>1. ~(Rank(id, S) < n)
          BY <2>1, <2>2
    <3> QED BY <2>4, <2>5, <3>1
  <2> DEFINE now == {y \in ToSet(r) : y.id = id}
  <2>7. ASSUME NEW y \in ToSet(b) PROVE y \in Gone(n + 1) <=> y \in Gone(n) \/ y \in now
    <3>1. CASE y.id = id
      <4>1. y.id \in S /\ Rank(y.id, S) = n /\ ~(n < n) /\ n < n + 1
            BY <2>1, <2>2, <3>1
      <4>2. y \in Gone(n + 1) /\ y \notin Gone(n)
            BY <4>1
      <4> QED BY <2>4, <3>1, <4>2
    <3>2. CASE y.id # id
      <4>1. y.id \in S => Rank(y.id, S) # n /\ Rank(y.id, S) \in Nat
            BY <1>6, <2>2, <3>2
      <4>2. y.id \in S => (Rank(y.id, S) < n + 1 <=> Rank(y.id, S) < n)
            BY <2>1, <4>1
      <4> QED BY <3>2, <4>2
    <3> QED BY <3>1, <3>2
  <2>8. Without(r, id) = Remaining(b, Gone(n + 1))
    <3>1. Without(r, id) = Remaining(r, now)
          BY DEF Without
    <3> HIDE DEF Gone, now
    <3>2. Remaining(Remaining(b, Gone(n)), now) = Remaining(b, Gone(n + 1))
          BY <1>1, <2>7, RemainingTwice
    <3> QED BY <3>1, <3>2
  <2> HIDE DEF r
  <2>9. /\ IsCore(d) /\ d["edges"] = r
        /\ With(d, "edges", Without(r, id)) = With(c, "edges", Without(r, id))
        BY WithParts DEF Types
  <2>10. id \in Ids(d["edges"])
        BY <2>5, <2>6, <2>9, IdsAre
  <2> HIDE DEF d
  <2>11. Reduced(Going(d), Removal("edges", id)) = Going(With(d, "edges", Without(d["edges"], id)))
        BY <2>10, ReducedRemoval
  <2> QED BY <2>3, <2>8, <2>9, <2>11
<1>14. T \in SUBSET Nat
      OBVIOUS
<1> HIDE DEF T
<1>15. count \in T
      BY <1>6, <1>12, <1>13, <1>14, Induction
<1>16. Remaining(b, Gone(count)) = after
  <2>1. ASSUME NEW x \in ToSet(b) PROVE x \in Gone(count) <=> x \in gone
    <3>1. x.id \in S => Rank(x.id, S) < count
          BY <1>6
    <3> QED BY <1>5, <3>1
  <2> HIDE DEF Gone
  <2> QED BY <1>1, <2>1, RemainingSame
<1>17. f[count] = Going(With(c, "edges", after))
      BY <1>6, <1>15, <1>16 DEF T
<1>18. Leads(Going(c), effects, Going(With(c, "edges", after)))
      BY <1>9, <1>11, <1>17 DEF Leads
<1> QED BY <1>18 DEF effects

\* A node whose edges are gone.
LEMMA NodeLeads ==
    ASSUME NEW c, IsCore(c), Graph(c), NEW id \in Nat,
           \A e \in ToSet(c.edges) : id \notin {e.source, e.target}
    PROVE  Leads(Going(c), Removals("nodes", c.nodes, Without(c.nodes, id)),
                 Going(With(c, "nodes", Without(c.nodes, id))))
<1> DEFINE b == c.nodes
           w == Without(b, id)
<1>0. List(b) /\ Distinct(b)
      BY DEF Graph
<1>1. ToSet(w) = {x \in ToSet(b) : x.id # id}
      BY <1>0, WithoutFacts
<1>2. CASE id \in Ids(b)
  <2>1. Ids(b) \ Ids(w) = {id}
    <3> HIDE DEF w, b
    <3>1. ASSUME NEW x PROVE x \in Ids(w) <=> x \in Ids(b) /\ x # id
          BY <1>1, IdsAre
    <3> QED BY <1>2, <3>1
  <2>2. Removals("nodes", b, w) = <<Removal("nodes", id)>>
        BY <2>1, RemovalsOne
  <2> DEFINE gone == {e \in ToSet(c.edges) : id \in {e.source, e.target}}
  <2>3. Remaining(c.edges, gone) = c.edges
    <3>1. \A e \in ToSet(c.edges) : e \notin gone
          OBVIOUS
    <3> HIDE DEF gone
    <3> QED BY <3>1, RemainingAll DEF Graph
  <2>4. RemoveNode(c, id) = With(c, "nodes", w)
    <3>1. RemoveNode(c, id) = Core(c.notes, c.diary, w, Remaining(c.edges, gone))
          BY RemoveNodeIs
    <3>2. With(c, "nodes", w) = Core(c.notes, c.diary, w, c.edges)
          BY WithIs
    <3> HIDE DEF gone, w
    <3> QED BY <2>3, <3>1, <3>2
  <2>5. Reduced(Going(c), Removal("nodes", id)) = Going(With(c, "nodes", w))
        BY <1>2, <2>4, ReducedNode
  <2> HIDE DEF w
  <2>6. Leads(Going(c), <<Removal("nodes", id)>>, Going(With(c, "nodes", w)))
        BY <2>5, LeadsOne
  <2> QED BY <2>2, <2>6 DEF w
<1>3. CASE id \notin Ids(b)
  <2>1. w = b
    <3> DEFINE gone == {x \in ToSet(b) : x.id = id}
    <3>1. \A x \in ToSet(b) : x \notin gone
          BY <1>3, IdsAre
    <3>2. w = Remaining(b, gone)
          BY DEF Without
    <3> HIDE DEF gone, b
    <3> QED BY <1>0, <3>1, <3>2, RemainingAll
  <2>2. With(c, "nodes", w) = c
        BY <2>1, WithSame DEF Types
  <2>3. Leads(Going(c), Removals("nodes", b, w), Going(c))
        BY <2>1, NoRemovalLeads
  <2> QED BY <2>2, <2>3
<1> QED BY <1>2, <1>3

-------------------------------------------------------------------------------
(* The effects of a mutation *)

\* One collection after the other.
LEMMA EffectsLead ==
    ASSUME NEW before, NEW after, NEW c0, NEW c1, NEW c2, NEW c3, NEW c4, NEW c5, NEW c6, NEW c7, NEW c8,
           Leads(c0, Removals("notes", before.notes, after.notes), c1),
           Leads(c1, Puts("notes", before.notes, after.notes), c2),
           Leads(c2, Removals("diary", before.diary, after.diary), c3),
           Leads(c3, Puts("diary", before.diary, after.diary), c4),
           Leads(c4, Removals("edges", before.edges, after.edges), c5),
           Leads(c5, Removals("nodes", before.nodes, after.nodes), c6),
           Leads(c6, Puts("nodes", before.nodes, after.nodes), c7),
           Leads(c7, Puts("edges", before.edges, after.edges), c8)
    PROVE  Leads(c0, Effects(before, after), c8)
<1> DEFINE s1 == Removals("notes", before.notes, after.notes)
           s2 == Puts("notes", before.notes, after.notes)
           s3 == Removals("diary", before.diary, after.diary)
           s4 == Puts("diary", before.diary, after.diary)
           s5 == Removals("edges", before.edges, after.edges)
           s6 == Removals("nodes", before.nodes, after.nodes)
           s7 == Puts("nodes", before.nodes, after.nodes)
           s8 == Puts("edges", before.edges, after.edges)
<1>1. Effects(before, after) = s1 \o s2 \o s3 \o s4 \o s5 \o s6 \o s7 \o s8
      BY DEF Effects
<1>2. Leads(c0, s1, c1) /\ Leads(c1, s2, c2) /\ Leads(c2, s3, c3) /\ Leads(c3, s4, c4)
      /\ Leads(c4, s5, c5) /\ Leads(c5, s6, c6) /\ Leads(c6, s7, c7) /\ Leads(c7, s8, c8)
      OBVIOUS
<1> HIDE DEF s1, s2, s3, s4, s5, s6, s7, s8
<1>3. Leads(c0, s1 \o s2, c2)
      BY <1>2, LeadsOn
<1>4. Leads(c0, s1 \o s2 \o s3, c3)
      BY <1>2, <1>3, LeadsOn
<1>5. Leads(c0, s1 \o s2 \o s3 \o s4, c4)
      BY <1>2, <1>4, LeadsOn
<1>6. Leads(c0, s1 \o s2 \o s3 \o s4 \o s5, c5)
      BY <1>2, <1>5, LeadsOn
<1>7. Leads(c0, s1 \o s2 \o s3 \o s4 \o s5 \o s6, c6)
      BY <1>2, <1>6, LeadsOn
<1>8. Leads(c0, s1 \o s2 \o s3 \o s4 \o s5 \o s6 \o s7, c7)
      BY <1>2, <1>7, LeadsOn
<1>9. Leads(c0, s1 \o s2 \o s3 \o s4 \o s5 \o s6 \o s7 \o s8, c8)
      BY <1>2, <1>8, LeadsOn
<1> QED BY <1>1, <1>9

\* What EffectsReproduce says of one outcome.
Reproduced(c, after) ==
    LET replayed == Replayed(c, Effects(c, after))
    IN  /\ ~replayed.missing
        /\ [replayed.core EXCEPT !.nodes = ToSet(@)] = [after EXCEPT !.nodes = ToSet(@)]
        /\ Cardinality(Ids(after.nodes) \ Ids(c.nodes)) < 2 => replayed.core = after

LEMMA ReproducedFrom ==
    ASSUME NEW c, NEW after, IsCore(after), NEW nodes, ToSet(nodes) = ToSet(after.nodes),
           Cardinality(Ids(after.nodes) \ Ids(c.nodes)) < 2 => nodes = after.nodes,
           Leads(Going(c), Effects(c, after), Going(With(after, "nodes", nodes)))
    PROVE  Reproduced(c, after)
<1> DEFINE replayed == Replayed(c, Effects(c, after))
           r == With(after, "nodes", nodes)
<1>1. replayed = Going(r)
      BY DEF Leads, Replayed, Going
<1>2. IsCore(r) /\ r.nodes = nodes /\ \A more : With(r, "nodes", more) = With(after, "nodes", more)
      BY WithParts DEF Types
<1>3. [r EXCEPT !.nodes = ToSet(@)] = With(r, "nodes", ToSet(nodes))
      BY <1>2 DEF With
<1>4. [after EXCEPT !.nodes = ToSet(@)] = With(after, "nodes", ToSet(after.nodes))
      BY DEF With
<1>5. [r EXCEPT !.nodes = ToSet(@)] = [after EXCEPT !.nodes = ToSet(@)]
      BY <1>2, <1>3, <1>4
<1>6. nodes = after.nodes => r = after
      BY WithSame DEF Types
<1> HIDE DEF r, replayed
<1>7. replayed.core = r /\ ~replayed.missing
      BY <1>1 DEF Going
<1> QED BY <1>5, <1>6, <1>7 DEF Reproduced, replayed

\* Additions and edits.
LEMMA GrowthReproduced ==
    ASSUME NEW c, IsCore(c), NEW after, IsCore(after),
           Grows("notes", c.notes, after.notes, after.notes),
           Grows("diary", c.diary, after.diary, after.diary),
           GrowsTo(c.nodes, after.nodes),
           Grows("edges", c.edges, after.edges, after.edges)
    PROVE  Reproduced(c, after)
<1>1. PICK nodes : /\ Grows("nodes", c.nodes, after.nodes, nodes) /\ ToSet(nodes) = ToSet(after.nodes)
                   /\ Cardinality(Ids(after.nodes) \ Ids(c.nodes)) < 2 => nodes = after.nodes
      BY DEF GrowsTo
<1> DEFINE c1 == With(c, "notes", after.notes)
           c2 == With(c1, "diary", after.diary)
           c3 == With(c2, "nodes", nodes)
           c4 == With(c3, "edges", after.edges)
<1>2. IsCore(c1) /\ c1.notes = after.notes /\ c1.diary = c.diary /\ c1.nodes = c.nodes /\ c1.edges = c.edges
      BY WithParts DEF Types
<1> HIDE DEF c1
<1>3. IsCore(c2) /\ c2.notes = after.notes /\ c2.diary = after.diary /\ c2.nodes = c.nodes /\ c2.edges = c.edges
      BY <1>2, WithParts DEF Types
<1> HIDE DEF c2
<1>4. IsCore(c3) /\ c3.notes = after.notes /\ c3.diary = after.diary /\ c3.nodes = nodes /\ c3.edges = c.edges
      BY <1>3, WithParts DEF Types
<1> HIDE DEF c3
<1>5. IsCore(c4) /\ c4.notes = after.notes /\ c4.diary = after.diary /\ c4.nodes = nodes /\ c4.edges = after.edges
      BY <1>4, WithParts DEF Types
<1>6. Leads(Going(c), Puts("notes", c.notes, after.notes), Going(c1))
      BY DEF Grows, c1
<1>7. Leads(Going(c1), Puts("diary", c.diary, after.diary), Going(c2))
      BY <1>2 DEF Grows, c2
<1>8. Leads(Going(c2), Puts("nodes", c.nodes, after.nodes), Going(c3))
      BY <1>1, <1>3 DEF Grows, c3
<1>9. Leads(Going(c3), Puts("edges", c.edges, after.edges), Going(c4))
      BY <1>4 DEF Grows, c4
<1> HIDE DEF c4
<1>10. /\ Leads(Going(c), Removals("notes", c.notes, after.notes), Going(c))
       /\ Leads(Going(c1), Removals("diary", c.diary, after.diary), Going(c1))
       /\ Leads(Going(c2), Removals("edges", c.edges, after.edges), Going(c2))
       /\ Leads(Going(c2), Removals("nodes", c.nodes, after.nodes), Going(c2))
       BY <1>1, NoRemovalLeads DEF Grows
<1>11. Leads(Going(c), Effects(c, after), Going(c4))
       BY <1>6, <1>7, <1>8, <1>9, <1>10, EffectsLead
<1>12. c4 = With(after, "nodes", nodes)
  <2>1. c4 = Core(after.notes, after.diary, nodes, after.edges)
        BY <1>5 DEF IsCore, Core
  <2>2. With(after, "nodes", nodes) = Core(after.notes, after.diary, nodes, after.edges)
        BY WithIs
  <2> QED BY <2>1, <2>2
<1> QED BY <1>1, <1>11, <1>12, ReproducedFrom


\* A collection that only loses, as Grows says of one that only gains.
Shrinks(type, b, p) ==
    /\ ToSet(p) \subseteq ToSet(b)
    /\ \A c : IsCore(c) /\ c[type] = b => Leads(Going(c), Removals(type, b, p), Going(With(c, type, p)))

LEMMA ShrinksNot == \A type \in Types : \A b : Shrinks(type, b, b)
<1> SUFFICES ASSUME NEW type \in Types, NEW b, NEW c, IsCore(c), c[type] = b
             PROVE  Leads(Going(c), Removals(type, b, b), Going(With(c, type, b)))
    BY DEF Shrinks
<1>1. With(c, type, b) = c
      BY WithSame
<1>2. Leads(Going(c), Removals(type, b, b), Going(c))
      BY NoRemovalLeads
<1> QED BY <1>1, <1>2

LEMMA ShrinksByOne ==
    ASSUME NEW type \in Types, type # "nodes", NEW b, List(b), Distinct(b), NEW id \in Ids(b), id \in Nat
    PROVE  Shrinks(type, b, Without(b, id))
<1>1. ToSet(Without(b, id)) \subseteq ToSet(b)
      BY WithoutFacts
<1>2. ASSUME NEW c, IsCore(c), c[type] = b
      PROVE  Leads(Going(c), Removals(type, b, Without(b, id)), Going(With(c, type, Without(b, id))))
      BY <1>2, RemovalLeads
<1> QED BY <1>1, <1>2 DEF Shrinks

\* Deletions: the edges of a node go before the node does.
LEMMA DeletionReproduced ==
    ASSUME NEW c, IsCore(c), Graph(c), NEW id \in Nat, NEW notes, NEW diary,
           Shrinks("notes", c.notes, notes), Shrinks("diary", c.diary, diary)
    PROVE  Reproduced(c, RemoveNode(Core(notes, diary, c.nodes, c.edges), id))
<1> DEFINE before == Core(notes, diary, c.nodes, c.edges)
           after == RemoveNode(before, id)
           w == Without(c.nodes, id)
           gone == {e \in ToSet(c.edges) : id \in {e.source, e.target}}
           r == Remaining(c.edges, gone)
           c1 == With(c, "notes", notes)
           c2 == With(c1, "diary", diary)
           c3 == With(c2, "edges", r)
           c4 == With(c3, "nodes", w)
<1>1. /\ IsCore(before) /\ before.notes = notes /\ before.diary = diary
      /\ before.nodes = c.nodes /\ before.edges = c.edges
      BY CoreParts
<1>2. after = Core(notes, diary, w, r)
  <2> HIDE DEF before
  <2>1. after = Core(before.notes, before.diary, Without(before.nodes, id),
                     Remaining(before.edges, {e \in ToSet(before.edges) : id \in {e.source, e.target}}))
        BY <1>1, RemoveNodeIs
  <2> HIDE DEF after
  <2> QED BY <1>1, <2>1
<1> HIDE DEF after
<1>3. IsCore(after) /\ after.notes = notes /\ after.diary = diary /\ after.nodes = w /\ after.edges = r
      BY <1>2, CoreParts
<1>4. List(r) /\ Distinct(r) /\ EdgesApart(r) /\ ToSet(r) = ToSet(c.edges) \ gone
  <2> HIDE DEF gone
  <2> QED BY RemainingFacts DEF Graph, EdgesApart
<1>5. \A e \in ToSet(r) : id \notin {e.source, e.target}
      BY <1>4
<1>6. ToSet(w) \subseteq ToSet(c.nodes) /\ ToSet(r) \subseteq ToSet(c.edges)
  <2>1. ToSet(w) = {x \in ToSet(c.nodes) : x.id # id}
        BY WithoutFacts DEF Graph
  <2> HIDE DEF w, r, gone
  <2> QED BY <1>4, <2>1
<1> HIDE DEF before, w, r, gone
<1>7. IsCore(c1) /\ c1.notes = notes /\ c1.diary = c.diary /\ c1.nodes = c.nodes /\ c1.edges = c.edges
      BY WithParts DEF Types
<1> HIDE DEF c1
<1>8. IsCore(c2) /\ c2.notes = notes /\ c2.diary = diary /\ c2.nodes = c.nodes /\ c2.edges = c.edges
      BY <1>7, WithParts DEF Types
<1> HIDE DEF c2
<1>9. IsCore(c3) /\ c3.notes = notes /\ c3.diary = diary /\ c3.nodes = c.nodes /\ c3.edges = r
      BY <1>8, WithParts DEF Types
<1> HIDE DEF c3
<1>10. IsCore(c4) /\ c4.notes = notes /\ c4.diary = diary /\ c4.nodes = w /\ c4.edges = r
      BY <1>9, WithParts DEF Types
<1> HIDE DEF c4
<1>11. Graph(c2)
      BY <1>8 DEF Graph
<1>12. Graph(c3)
      BY <1>4, <1>6, <1>9 DEF Graph
<1>13. Leads(Going(c), Removals("notes", c.notes, notes), Going(c1))
      BY DEF Shrinks, c1
<1>14. Leads(Going(c1), Removals("diary", c.diary, diary), Going(c2))
      BY <1>7 DEF Shrinks, c2
<1>15. Leads(Going(c2), Removals("edges", c.edges, r), Going(c3))
      BY <1>8, <1>11, EdgesLead DEF c3, r
<1>16. Leads(Going(c3), Removals("nodes", c.nodes, w), Going(c4))
      BY <1>5, <1>9, <1>12, NodeLeads DEF c4, w
<1>17. /\ Leads(Going(c1), Puts("notes", c.notes, notes), Going(c1))
       /\ Leads(Going(c2), Puts("diary", c.diary, diary), Going(c2))
       /\ Leads(Going(c4), Puts("nodes", c.nodes, w), Going(c4))
       /\ Leads(Going(c4), Puts("edges", c.edges, r), Going(c4))
      BY <1>6, NoPutLeads DEF Shrinks
<1>18. Leads(Going(c), Effects(c, after), Going(c4))
      BY <1>3, <1>13, <1>14, <1>15, <1>16, <1>17, EffectsLead
<1>19. c4 = With(after, "nodes", after.nodes)
  <2>1. c4 = after
        BY <1>3, <1>10 DEF IsCore
  <2>2. With(after, "nodes", after.nodes) = after
        BY <1>3, WithSame DEF Types
  <2> QED BY <2>1, <2>2
<1>20. Reproduced(c, after)
      BY <1>3, <1>18, <1>19, ReproducedFrom
<1> QED BY <1>20 DEF after, before

-------------------------------------------------------------------------------
(* The invariant *)

Collections == {"notes", "diary"}

CallOK(call) ==
    \/ call = Idle
    \/ call.kind \in {"save", "load"} /\ Sound(call.snapshot)
    \/ call.kind = "import" /\ call.payload \in Payloads

\* Every core in memory, in the file or on its way between them is sound.
CoresSound ==
    /\ Sound(core)
    /\ file = None \/ Sound(file)
    /\ calls = [c \in Calls |-> calls[c]] /\ \A c \in Calls : CallOK(calls[c])

IndexFormed == fresh \in [Collections -> BOOLEAN] /\ DOMAIN index = Collections

CoreInvariant == CoresSound /\ IndexFormed /\ IndexAgrees

\* The core becomes a sound one, and says what it revised.
LEMMA BecomeKeeps ==
    ASSUME CoreInvariant, NEW c, Sound(c), NEW revised, Become(c, revised),
           \A collection \in Collections : collection \notin revised => c[collection] = core[collection]
    PROVE  Sound(core') /\ file' = file /\ IndexFormed' /\ IndexAgrees'
<1>1. core' = c /\ file' = file /\ index' = index
      BY DEF Become
<1>2. fresh \in [Collections -> BOOLEAN] /\ DOMAIN index = Collections
      BY DEF CoreInvariant, IndexFormed
<1>3. fresh' = [collection \in Collections |-> fresh[collection] /\ collection \notin revised]
      BY <1>2 DEF Become
<1>4. \A collection \in Collections : fresh[collection] => index[collection] = Documents(core[collection])
      BY <1>2 DEF CoreInvariant, IndexAgrees
<1>5. fresh' \in [Collections -> BOOLEAN]
  <2>1. \A collection \in Collections : (fresh[collection] /\ collection \notin revised) \in BOOLEAN
        OBVIOUS
  <2> QED BY <1>3, <2>1
<1>6. \A collection \in Collections : fresh'[collection] => fresh[collection] /\ collection \notin revised
      BY <1>3
<1>7. \A collection \in Collections : fresh'[collection] => index'[collection] = Documents(core'[collection])
      BY <1>1, <1>4, <1>6
<1>8. IndexAgrees'
  <2>1. DOMAIN fresh' = Collections
        BY <1>3
  <2> QED BY <1>7, <2>1 DEF IndexAgrees
<1> QED BY <1>1, <1>2, <1>5, <1>8 DEF IndexFormed

LEMMA CallsStill ==
    ASSUME CoresSound, Sound(core'), file' = file, calls' = calls
    PROVE  CoresSound'
  BY DEF CoresSound

\* An operation that is over at once.
LEMMA OperationKeeps ==
    ASSUME CoreInvariant, NEW c, Sound(c), NEW revised, Become(c, revised), calls' = calls,
           \A collection \in Collections : collection \notin revised => c[collection] = core[collection]
    PROVE  CoreInvariant'
<1>1. Sound(core') /\ file' = file /\ IndexFormed' /\ IndexAgrees'
      BY BecomeKeeps
<1>2. CoresSound'
      BY <1>1, CallsStill DEF CoreInvariant
<1> QED BY <1>1, <1>2 DEF CoreInvariant

LEMMA NotesRevised ==
    ASSUME CoreInvariant, NEW c, Sound(c), c.diary = core.diary, Become(c, {"notes"}), calls' = calls
    PROVE  CoreInvariant'
<1>1. \A collection \in Collections : collection \notin {"notes"} => c[collection] = core[collection]
      BY DEF Collections
<1> QED BY <1>1, OperationKeeps

LEMMA DiaryRevised ==
    ASSUME CoreInvariant, NEW c, Sound(c), c.notes = core.notes, Become(c, {"diary"}), calls' = calls
    PROVE  CoreInvariant'
<1>1. \A collection \in Collections : collection \notin {"diary"} => c[collection] = core[collection]
      BY DEF Collections
<1> QED BY <1>1, OperationKeeps

LEMMA GraphRevised ==
    ASSUME CoreInvariant, NEW c, Sound(c), c.notes = core.notes, c.diary = core.diary, Become(c, {}), calls' = calls
    PROVE  CoreInvariant'
<1>1. \A collection \in Collections : collection \notin {} => c[collection] = core[collection]
      BY DEF Collections
<1> QED BY <1>1, OperationKeeps

LEMMA RecordsOf ==
    ASSUME NEW c, Sound(c)
    PROVE  /\ \A note \in ToSet(c.notes) : IsNote(note) /\ note.id \in RecordIds
           /\ Ids(c.notes) \subseteq RecordIds /\ Ids(c.diary) \subseteq RecordIds
<1>1. Records(c)
      BY SoundWhole DEF Whole
<1> QED BY <1>1, IdsAre DEF Records, IsNote, IsEntry

LEMMA NewNoteIs ==
    ASSUME NEW id \in RecordIds, NEW draft, DOMAIN draft = NoteFields \ {"id"}, draft.parent \in Parents
    PROVE  IsNote(NewNote(id, draft))
<1> DEFINE n == NewNote(id, draft)
<1>1. DOMAIN draft \cup {"id"} = NoteFields /\ "id" \in NoteFields /\ "parent" \in NoteFields
      BY DEF NoteFields
<1>2. n = [field \in NoteFields |-> IF field = "id" THEN id ELSE draft[field]]
      BY <1>1 DEF NewNote
<1> HIDE DEF n
<1>3. DOMAIN n = NoteFields /\ n.id = id /\ n.parent = draft.parent
      BY <1>1, <1>2
<1> QED BY <1>3 DEF IsNote, n

LEMMA PatchedIs ==
    ASSUME NEW note, IsNote(note), NEW patch \in Patches
    PROVE  IsNote(Patched(note, patch))
<1> DEFINE n == Patched(note, patch)
<1>1. DOMAIN note = NoteFields /\ note.id \in RecordIds /\ note.parent \in Parents
      BY DEF IsNote
<1>2. "id" \in NoteFields /\ "parent" \in NoteFields
      BY DEF NoteFields
<1>3. "id" \notin DOMAIN patch /\ ("parent" \in DOMAIN patch => patch.parent \in Parents)
      BY CallersOK
<1>4. n = [field \in NoteFields |-> IF field \in DOMAIN patch THEN patch[field] ELSE note[field]]
      BY <1>1 DEF Patched
<1> HIDE DEF n
<1>5. /\ DOMAIN n = NoteFields /\ n.id = note.id
      /\ n.parent = IF "parent" \in DOMAIN patch THEN patch.parent ELSE note.parent
      BY <1>2, <1>3, <1>4
<1> QED BY <1>1, <1>3, <1>5 DEF IsNote, n

LEMMA PromotedIs ==
    ASSUME NEW note, IsNote(note)
    PROVE  IsNote([note EXCEPT !.status = "active"])
<1>1. "id" \in NoteFields /\ "parent" \in NoteFields
      BY DEF NoteFields
<1> QED BY <1>1 DEF IsNote

-------------------------------------------------------------------------------
(* Every step keeps it *)

LEMMA AddMemoryKeeps == CoreInvariant /\ AddMemory => CoreInvariant'
<1> SUFFICES ASSUME CoreInvariant, AddMemory PROVE CoreInvariant'
    OBVIOUS
<1>1. PICK id \in OwnNotes, draft \in Drafts : Become(PutNote(core, NewNote(id, draft)), {"notes"})
      BY DEF AddMemory
<1>2. IsNote(NewNote(id, draft))
      BY CoreConstantsOK, CallersOK, NewNoteIs
<1>3. Sound(PutNote(core, NewNote(id, draft))) /\ PutNote(core, NewNote(id, draft)).diary = core.diary
      BY <1>2, PutNoteWhole DEF CoreInvariant, CoresSound
<1>4. calls' = calls
      BY DEF AddMemory
<1> QED BY <1>1, <1>3, <1>4, NotesRevised

LEMMA CondenseKeeps == CoreInvariant /\ Condense => CoreInvariant'
<1> SUFFICES ASSUME CoreInvariant, Condense PROVE CoreInvariant'
    OBVIOUS
<1>1. PICK id \in OwnNotes, text \in Texts, parent \in {None} \cup Ids(core.diary) :
        Become(PutNote(core, NewNote(id, Candidate(text, parent))), {"notes"})
      BY DEF Condense
<1>2. Sound(core) /\ parent \in Parents
      BY RecordsOf DEF CoreInvariant, CoresSound, Parents
<1>3. DOMAIN Candidate(text, parent) = NoteFields \ {"id"} /\ Candidate(text, parent).parent \in Parents
      BY <1>2 DEF Candidate, NoteFields
<1>4. IsNote(NewNote(id, Candidate(text, parent)))
      BY <1>3, CoreConstantsOK, NewNoteIs
<1>5. /\ Sound(PutNote(core, NewNote(id, Candidate(text, parent))))
      /\ PutNote(core, NewNote(id, Candidate(text, parent))).diary = core.diary
      BY <1>2, <1>4, PutNoteWhole
<1>6. calls' = calls
      BY DEF Condense
<1> QED BY <1>1, <1>5, <1>6, NotesRevised

LEMMA UpdateMemoryKeeps == CoreInvariant /\ UpdateMemory => CoreInvariant'
<1> SUFFICES ASSUME CoreInvariant, UpdateMemory PROVE CoreInvariant'
    OBVIOUS
<1>1. PICK note \in ToSet(core.notes), patch \in Patches : Become(PutNote(core, Patched(note, patch)), {"notes"})
      BY DEF UpdateMemory
<1>2. Sound(core) /\ IsNote(note)
      BY RecordsOf DEF CoreInvariant, CoresSound
<1>3. IsNote(Patched(note, patch))
      BY <1>2, PatchedIs
<1>4. Sound(PutNote(core, Patched(note, patch))) /\ PutNote(core, Patched(note, patch)).diary = core.diary
      BY <1>2, <1>3, PutNoteWhole
<1>5. calls' = calls
      BY DEF UpdateMemory
<1> QED BY <1>1, <1>4, <1>5, NotesRevised

LEMMA PromoteCandidateKeeps == CoreInvariant /\ PromoteCandidate => CoreInvariant'
<1> SUFFICES ASSUME CoreInvariant, PromoteCandidate PROVE CoreInvariant'
    OBVIOUS
<1>1. PICK note \in ToSet(core.notes) : Become(PutNote(core, [note EXCEPT !.status = "active"]), {"notes"})
      BY DEF PromoteCandidate
<1>2. Sound(core) /\ IsNote(note)
      BY RecordsOf DEF CoreInvariant, CoresSound
<1> DEFINE promoted == [note EXCEPT !.status = "active"]
<1>3. IsNote(promoted)
      BY <1>2, PromotedIs
<1>4. Become(PutNote(core, promoted), {"notes"})
      BY <1>1
<1> HIDE DEF promoted
<1>5. Sound(PutNote(core, promoted)) /\ PutNote(core, promoted).diary = core.diary
      BY <1>2, <1>3, PutNoteWhole
<1>6. calls' = calls
      BY DEF PromoteCandidate
<1> QED BY <1>4, <1>5, <1>6, NotesRevised

LEMMA DeleteMemoryKeeps == CoreInvariant /\ DeleteMemoryById => CoreInvariant'
<1> SUFFICES ASSUME CoreInvariant, DeleteMemoryById PROVE CoreInvariant'
    OBVIOUS
<1>1. PICK id \in Ids(core.notes) : Become(DeleteMemory(core, id), {"notes"})
      BY DEF DeleteMemoryById
<1>2. Sound(core) /\ id \in RecordIds
      BY RecordsOf DEF CoreInvariant, CoresSound
<1>3. Sound(DeleteMemory(core, id)) /\ DeleteMemory(core, id).diary = core.diary
      BY <1>2, DeleteMemoryWhole
<1>4. calls' = calls
      BY DEF DeleteMemoryById
<1> QED BY <1>1, <1>3, <1>4, NotesRevised

LEMMA PurgeExpiredKeeps == CoreInvariant /\ PurgeExpired => CoreInvariant'
<1> SUFFICES ASSUME CoreInvariant, PurgeExpired PROVE CoreInvariant'
    OBVIOUS
<1>1. PICK ids : Become(Purged(core, ids), {"notes"})
      BY DEF PurgeExpired
<1>2. Sound(Purged(core, ids)) /\ Purged(core, ids).diary = core.diary
      BY PurgedWhole DEF CoreInvariant, CoresSound
<1>3. calls' = calls
      BY DEF PurgeExpired
<1> QED BY <1>1, <1>2, <1>3, NotesRevised

LEMMA EntryIs == \A id \in RecordIds : \A text : IsEntry(Entry(id, text))
  BY DEF IsEntry, Entry

LEMMA AddDiaryEntryKeeps == CoreInvariant /\ AddDiaryEntry => CoreInvariant'
<1> SUFFICES ASSUME CoreInvariant, AddDiaryEntry PROVE CoreInvariant'
    OBVIOUS
<1>1. PICK id \in OwnDiaries, text \in Texts : Become(PutEntry(core, Entry(id, text)), {"diary"})
      BY DEF AddDiaryEntry
<1>2. IsEntry(Entry(id, text))
      BY CoreConstantsOK, EntryIs
<1>3. Sound(PutEntry(core, Entry(id, text))) /\ PutEntry(core, Entry(id, text)).notes = core.notes
      BY <1>2, PutEntryWhole DEF CoreInvariant, CoresSound
<1>4. calls' = calls
      BY DEF AddDiaryEntry
<1> QED BY <1>1, <1>3, <1>4, DiaryRevised

LEMMA UpdateDiaryKeeps == CoreInvariant /\ UpdateDiary => CoreInvariant'
<1> SUFFICES ASSUME CoreInvariant, UpdateDiary PROVE CoreInvariant'
    OBVIOUS
<1>1. PICK id \in Ids(core.diary), text \in Texts : Become(PutEntry(core, Entry(id, text)), {"diary"})
      BY DEF UpdateDiary
<1>2. Sound(core) /\ IsEntry(Entry(id, text))
      BY RecordsOf, EntryIs DEF CoreInvariant, CoresSound
<1>3. Sound(PutEntry(core, Entry(id, text))) /\ PutEntry(core, Entry(id, text)).notes = core.notes
      BY <1>2, PutEntryWhole
<1>4. calls' = calls
      BY DEF UpdateDiary
<1> QED BY <1>1, <1>3, <1>4, DiaryRevised

LEMMA DeleteDiaryKeeps == CoreInvariant /\ DeleteDiaryById => CoreInvariant'
<1> SUFFICES ASSUME CoreInvariant, DeleteDiaryById PROVE CoreInvariant'
    OBVIOUS
<1>1. PICK id \in Ids(core.diary) : Become(DeleteDiary(core, id), {"diary"})
      BY DEF DeleteDiaryById
<1>2. Sound(core) /\ id \in RecordIds
      BY RecordsOf DEF CoreInvariant, CoresSound
<1>3. Sound(DeleteDiary(core, id)) /\ DeleteDiary(core, id).notes = core.notes
      BY <1>2, DeleteDiaryWhole
<1>4. calls' = calls
      BY DEF DeleteDiaryById
<1> QED BY <1>1, <1>3, <1>4, DiaryRevised

LEMMA AddUserNodeKeeps == CoreInvariant /\ AddUserNode => CoreInvariant'
<1> SUFFICES ASSUME CoreInvariant, AddUserNode PROVE CoreInvariant'
    OBVIOUS
<1>1. PICK id \in UserNodes : Become(AddNode(core, Placeholder(id)), {})
      BY DEF AddUserNode
<1>2. Whole(core, {}) /\ id \notin MemoryNodes
      BY CoreConstantsOK, SoundWhole DEF CoreInvariant, CoresSound
<1> DEFINE a == AddNode(core, Placeholder(id))
<1>3. Whole(a, {}) /\ a.notes = core.notes /\ a.diary = core.diary
      BY <1>2, PlaceholderWhole
<1>4. Become(a, {}) /\ calls' = calls
      BY <1>1 DEF AddUserNode
<1> HIDE DEF a
<1> QED BY <1>3, <1>4, SoundWhole, GraphRevised

LEMMA AddUserEdgeKeeps == CoreInvariant /\ AddUserEdge => CoreInvariant'
<1> SUFFICES ASSUME CoreInvariant, AddUserEdge PROVE CoreInvariant'
    OBVIOUS
<1>1. PICK id \in UserEdges, link \in Links :
        Become(AddEdgeWithId(core, id, link.source, link.target, link.relation), {})
      BY DEF AddUserEdge
<1>2. Whole(core, {})
      BY SoundWhole DEF CoreInvariant, CoresSound
<1> DEFINE a == AddEdgeWithId(core, id, link.source, link.target, link.relation)
<1>3. Whole(a, {}) /\ a.notes = core.notes /\ a.diary = core.diary
  <2>1. id \in Nat
        BY CoreConstantsOK
  <2> QED BY <1>2, <2>1, EdgeWhole
<1>4. Become(a, {}) /\ calls' = calls
      BY <1>1 DEF AddUserEdge
<1> HIDE DEF a
<1> QED BY <1>3, <1>4, SoundWhole, GraphRevised

LEMMA QueryKeeps == CoreInvariant /\ Query => CoreInvariant'
<1> SUFFICES ASSUME CoreInvariant, Query PROVE CoreInvariant'
    OBVIOUS
<1>1. fresh \in [Collections -> BOOLEAN] /\ DOMAIN index = Collections /\ DOMAIN fresh = Collections
      BY DEF CoreInvariant, IndexFormed
<1>2. /\ index' = [collection \in Collections |->
                    IF fresh[collection] THEN index[collection] ELSE Documents(core[collection])]
      /\ fresh' = [collection \in Collections |-> TRUE]
      /\ core' = core /\ file' = file /\ calls' = calls
      BY <1>1 DEF Query
<1>3. \A collection \in Collections : fresh[collection] => index[collection] = Documents(core[collection])
      BY <1>1 DEF CoreInvariant, IndexAgrees
<1>4. \A collection \in Collections : index'[collection] = Documents(core'[collection])
      BY <1>2, <1>3
<1>5. IndexFormed' /\ IndexAgrees'
  <2>1. fresh' \in [Collections -> BOOLEAN] /\ DOMAIN fresh' = Collections /\ DOMAIN index' = Collections
        BY <1>2
  <2> QED BY <1>4, <2>1 DEF IndexFormed, IndexAgrees
<1>6. CoresSound'
      BY <1>2, CallsStill DEF CoreInvariant, CoresSound
<1> QED BY <1>5, <1>6 DEF CoreInvariant

\* A sound snapshot is imported as it is.
LEMMA ImportKeeps ==
    ASSUME CoreInvariant, NEW s, Sound(s), ImportData(s)
    PROVE  Sound(core') /\ file' = file /\ IndexFormed' /\ IndexAgrees'
<1>1. Become(s, {"notes", "diary"})
      BY CommittedSame DEF ImportData, Sound
<1>2. \A collection \in Collections : collection \notin {"notes", "diary"} => s[collection] = core[collection]
      BY DEF Collections
<1> QED BY <1>1, <1>2, BecomeKeeps

LEMMA ImportDataFailsKeeps == CoreInvariant /\ ImportDataFails => CoreInvariant'
<1> SUFFICES ASSUME CoreInvariant, ImportDataFails PROVE CoreInvariant'
    OBVIOUS
<1>1. Sound(core') /\ file' = file /\ IndexFormed' /\ IndexAgrees'
      BY ImportKeeps DEF ImportDataFails, CoreInvariant, CoresSound
<1>2. CoresSound'
      BY <1>1, CallsStill DEF CoreInvariant, ImportDataFails
<1> QED BY <1>1, <1>2 DEF CoreInvariant

LEMMA CallMade ==
    ASSUME CoresSound, Sound(core'), file' = None \/ Sound(file'), NEW c \in Calls, NEW call, CallOK(call), Call(c, call)
    PROVE  CoresSound'
<1>1. calls = [d \in Calls |-> calls[d]] /\ \A d \in Calls : CallOK(calls[d])
      BY DEF CoresSound
<1>2. calls' = [calls EXCEPT ![c] = call]
      BY DEF Call
<1>3. calls' = [d \in Calls |-> calls'[d]]
      BY <1>1, <1>2
<1>4. \A d \in Calls : calls'[d] = IF d = c THEN call ELSE calls[d]
      BY <1>1, <1>2
<1>5. \A d \in Calls : CallOK(calls'[d])
      BY <1>1, <1>4
<1> QED BY <1>3, <1>5 DEF CoresSound

LEMMA IndexStill ==
    ASSUME CoreInvariant, core' = core, index' = index, fresh' = fresh
    PROVE  IndexFormed' /\ IndexAgrees'
  BY DEF CoreInvariant, IndexFormed, IndexAgrees

LEMMA SnapshotOf ==
    ASSUME CoreInvariant, NEW c \in Calls, calls[c].kind \in {"save", "load"}
    PROVE  Sound(calls[c].snapshot)
<1>1. CallOK(calls[c])
      BY DEF CoreInvariant, CoresSound
<1> QED BY <1>1 DEF CallOK, Idle

LEMMA BeginSaveKeeps == \A c \in Calls : CoreInvariant /\ BeginSave(c) => CoreInvariant'
<1> SUFFICES ASSUME NEW c \in Calls, CoreInvariant, BeginSave(c) PROVE CoreInvariant'
    OBVIOUS
<1> DEFINE call == [kind |-> "save", snapshot |-> core]
<1>1. Call(c, call) /\ core' = core /\ index' = index /\ fresh' = fresh /\ file' = file
      BY DEF BeginSave
<1>2. CoresSound /\ Sound(core) /\ (file = None \/ Sound(file))
      BY DEF CoreInvariant, CoresSound
<1>3. CallOK(call)
      BY <1>2 DEF CallOK
<1> HIDE DEF call
<1>4. CoresSound'
      BY <1>1, <1>2, <1>3, CallMade
<1> QED BY <1>1, <1>4, IndexStill DEF CoreInvariant

LEMMA FinishSaveKeeps == \A c \in Calls : CoreInvariant /\ FinishSave(c) => CoreInvariant'
<1> SUFFICES ASSUME NEW c \in Calls, CoreInvariant, FinishSave(c) PROVE CoreInvariant'
    OBVIOUS
<1>1. /\ Call(c, Idle) /\ core' = core /\ index' = index /\ fresh' = fresh
      /\ file' = calls[c].snapshot /\ calls[c].kind = "save"
      BY DEF FinishSave
<1>2. CoresSound /\ Sound(core) /\ Sound(file') /\ CallOK(Idle)
      BY <1>1, SnapshotOf DEF CoreInvariant, CoresSound, CallOK
<1>3. CoresSound'
      BY <1>1, <1>2, CallMade
<1> QED BY <1>1, <1>3, IndexStill DEF CoreInvariant

LEMMA SaveFailsKeeps == \A c \in Calls : CoreInvariant /\ SaveFails(c) => CoreInvariant'
<1> SUFFICES ASSUME NEW c \in Calls, CoreInvariant, SaveFails(c) PROVE CoreInvariant'
    OBVIOUS
<1>1. Call(c, Idle) /\ core' = core /\ index' = index /\ fresh' = fresh /\ file' = file
      BY DEF SaveFails
<1>2. CoresSound /\ Sound(core) /\ (file = None \/ Sound(file)) /\ CallOK(Idle)
      BY DEF CoreInvariant, CoresSound, CallOK
<1>3. CoresSound'
      BY <1>1, <1>2, CallMade
<1> QED BY <1>1, <1>3, IndexStill DEF CoreInvariant

LEMMA BeginLoadKeeps == \A c \in Calls : CoreInvariant /\ BeginLoad(c) => CoreInvariant'
<1> SUFFICES ASSUME NEW c \in Calls, CoreInvariant, BeginLoad(c) PROVE CoreInvariant'
    OBVIOUS
<1> DEFINE call == [kind |-> "load", snapshot |-> file]
<1>1. Call(c, call) /\ core' = core /\ index' = index /\ fresh' = fresh /\ file' = file /\ file # None
      BY DEF BeginLoad
<1>2. CoresSound /\ Sound(core) /\ Sound(file)
      BY <1>1 DEF CoreInvariant, CoresSound
<1>3. CallOK(call)
      BY <1>2 DEF CallOK
<1> HIDE DEF call
<1>4. CoresSound'
      BY <1>1, <1>2, <1>3, CallMade
<1> QED BY <1>1, <1>4, IndexStill DEF CoreInvariant

LEMMA FinishLoadKeeps == \A c \in Calls : CoreInvariant /\ FinishLoad(c) => CoreInvariant'
<1> SUFFICES ASSUME NEW c \in Calls, CoreInvariant, FinishLoad(c) PROVE CoreInvariant'
    OBVIOUS
<1>1. calls[c].kind = "load" /\ ImportData(calls[c].snapshot) /\ Call(c, Idle)
      BY DEF FinishLoad
<1>2. Sound(calls[c].snapshot)
      BY <1>1, SnapshotOf
<1>3. Sound(core') /\ file' = file /\ IndexFormed' /\ IndexAgrees'
      BY <1>1, <1>2, ImportKeeps
<1>4. CoresSound /\ (file = None \/ Sound(file)) /\ CallOK(Idle)
      BY DEF CoreInvariant, CoresSound, CallOK
<1>5. CoresSound'
      BY <1>1, <1>3, <1>4, CallMade
<1> QED BY <1>3, <1>5 DEF CoreInvariant

LEMMA BeginImportKeeps == \A c \in Calls : CoreInvariant /\ BeginImport(c) => CoreInvariant'
<1> SUFFICES ASSUME NEW c \in Calls, CoreInvariant, BeginImport(c) PROVE CoreInvariant'
    OBVIOUS
<1>1. core' = core /\ index' = index /\ fresh' = fresh /\ file' = file
      BY DEF BeginImport
<1>2. PICK payload \in Payloads :
        Call(c, [kind |-> "import", payload |-> payload,
                 blocked |-> \/ Ids(payload.notes) \cap Ids(core.notes) # {}
                             \/ Ids(payload.diary) \cap Ids(core.diary) # {}])
      BY DEF BeginImport
<1>3. PICK call : /\ Call(c, call) /\ call.kind = "import" /\ call.payload = payload
      BY <1>2
<1>4. CoresSound /\ Sound(core) /\ (file = None \/ Sound(file))
      BY DEF CoreInvariant, CoresSound
<1>5. CallOK(call)
      BY <1>3 DEF CallOK
<1>6. CoresSound'
      BY <1>1, <1>3, <1>4, <1>5, CallMade
<1> QED BY <1>1, <1>6, IndexStill DEF CoreInvariant

LEMMA FinishImportKeeps == \A c \in Calls : CoreInvariant /\ FinishImport(c) => CoreInvariant'
<1> SUFFICES ASSUME NEW c \in Calls, CoreInvariant, FinishImport(c) PROVE CoreInvariant'
    OBVIOUS
<1>1. calls[c].kind = "import" /\ Call(c, Idle)
      BY DEF FinishImport
<1>2. CallOK(calls[c])
      BY DEF CoreInvariant, CoresSound
<1>3. calls[c].payload \in Payloads
      BY <1>1, <1>2 DEF CallOK, Idle
<1>4. CoresSound /\ Sound(core) /\ (file = None \/ Sound(file)) /\ CallOK(Idle)
      BY DEF CoreInvariant, CoresSound, CallOK
<1>5. Sound(core') /\ file' = file /\ IndexFormed' /\ IndexAgrees'
  <2>1. CASE calls[c].blocked
    <3>1. core' = core /\ index' = index /\ fresh' = fresh /\ file' = file
          BY <2>1 DEF FinishImport
    <3> QED BY <1>4, <3>1, IndexStill
  <2>2. CASE ~calls[c].blocked
    <3>1. Become(Imported(calls[c].payload), {"notes", "diary"})
          BY <2>2 DEF FinishImport
    <3>2. Sound(Imported(calls[c].payload))
          BY <1>3, <1>4, ImportedWhole
    <3>3. \A collection \in Collections :
            collection \notin {"notes", "diary"} => Imported(calls[c].payload)[collection] = core[collection]
          BY DEF Collections
    <3> QED BY <3>1, <3>2, <3>3, BecomeKeeps
  <2> QED BY <2>1, <2>2
<1>6. CoresSound'
      BY <1>1, <1>4, <1>5, CallMade
<1> QED BY <1>5, <1>6 DEF CoreInvariant

LEMMA EmptySound == Sound(Empty)
<1>1. Empty = Core(<< >>, << >>, << >>, << >>)
      BY DEF Empty, Core
<1>2. /\ IsCore(Empty) /\ Empty.notes = << >> /\ Empty.diary = << >>
      /\ Empty.nodes = << >> /\ Empty.edges = << >>
      BY <1>1, CoreParts
<1>3. DOMAIN << >> = {}
      OBVIOUS
<1>4. Graph(Empty) /\ Records(Empty)
      BY <1>2, <1>3, NoneListed DEF Graph, Records, EdgesApart
<1>5. Mirrored(Empty, {})
      BY <1>2, NoneListed DEF Mirrored
<1> QED BY <1>2, <1>4, <1>5, SoundWhole DEF Whole

LEMMA NothingFresh == [notes |-> FALSE, diary |-> FALSE] \in [Collections -> BOOLEAN]
<1> DEFINE nothing == [notes |-> FALSE, diary |-> FALSE]
<1>1. nothing = [collection \in DOMAIN nothing |-> nothing[collection]]
      OBVIOUS
<1>2. DOMAIN nothing = Collections
      BY DEF Collections
<1>3. nothing["notes"] = FALSE /\ nothing["diary"] = FALSE
      OBVIOUS
<1> HIDE DEF nothing
<1>4. nothing = [collection \in Collections |-> nothing[collection]]
      BY <1>1, <1>2
<1>5. nothing \in [Collections -> BOOLEAN]
      BY <1>3, <1>4 DEF Collections
<1> QED BY <1>5 DEF nothing

LEMMA IdleOK == CallOK(Idle)
  BY DEF CallOK, Idle

\* A process that has just started.
LEMMA StartedKeeps ==
    /\ Init => CoreInvariant
    /\ CoreInvariant /\ Restart => CoreInvariant'
<1>1. ASSUME Init PROVE CoreInvariant
  <2>1. /\ core = Empty /\ calls = [c \in Calls |-> Idle]
        /\ fresh = [notes |-> FALSE, diary |-> FALSE] /\ index = [notes |-> {}, diary |-> {}]
        /\ file = None \/ file \in Saved
        BY <1>1 DEF Init
  <2>2. CoresSound
    <3>1. Sound(core) /\ (file = None \/ Sound(file))
          BY <2>1, EmptySound, SavedOK
    <3>2. calls = [c \in Calls |-> calls[c]] /\ \A c \in Calls : calls[c] = Idle
          BY <2>1
    <3>3. \A c \in Calls : CallOK(calls[c])
          BY <3>2, IdleOK
    <3> QED BY <3>1, <3>2, <3>3, Zenon DEF CoresSound
  <2>3. IndexFormed
    <3>1. DOMAIN fresh = Collections /\ DOMAIN index = Collections
          BY <2>1 DEF Collections
    <3>2. fresh \in [Collections -> BOOLEAN]
          BY <2>1, NothingFresh
    <3> QED BY <3>1, <3>2 DEF IndexFormed
  <2>4. IndexAgrees
    <3>1. \A collection \in DOMAIN fresh : fresh[collection] = FALSE
          BY <2>1
    <3> QED BY <3>1 DEF IndexAgrees
  <2> QED BY <2>2, <2>3, <2>4 DEF CoreInvariant
<1>2. ASSUME CoreInvariant, Restart PROVE CoreInvariant'
  <2>1. /\ core' = Empty /\ calls' = [c \in Calls |-> Idle] /\ file' = file
        /\ fresh' = [notes |-> FALSE, diary |-> FALSE] /\ index' = [notes |-> {}, diary |-> {}]
        BY <1>2 DEF Restart
  <2>2. CoresSound'
    <3>1. Sound(core') /\ (file' = None \/ Sound(file'))
          BY <1>2, <2>1, EmptySound DEF CoreInvariant, CoresSound
    <3>2. calls' = [c \in Calls |-> calls'[c]] /\ \A c \in Calls : calls'[c] = Idle
          BY <2>1
    <3>3. \A c \in Calls : CallOK(calls'[c])
          BY <3>2, IdleOK
    <3> QED BY <3>1, <3>2, <3>3, Zenon DEF CoresSound
  <2>3. IndexFormed'
    <3>1. DOMAIN fresh' = Collections /\ DOMAIN index' = Collections
          BY <2>1 DEF Collections
    <3>2. fresh' \in [Collections -> BOOLEAN]
          BY <2>1, NothingFresh
    <3> QED BY <3>1, <3>2 DEF IndexFormed
  <2>4. IndexAgrees'
    <3>1. \A collection \in DOMAIN fresh' : fresh'[collection] = FALSE
          BY <2>1
    <3> QED BY <3>1 DEF IndexAgrees
  <2> QED BY <2>2, <2>3, <2>4 DEF CoreInvariant
<1> QED BY <1>1, <1>2

LEMMA UnchangedKeeps == CoreInvariant /\ UNCHANGED vars => CoreInvariant'
  BY DEF CoreInvariant, CoresSound, IndexFormed, IndexAgrees, vars

\* Every core in memory, in the file and in a call is one the program made, and
\* the index is in step, whatever operations, saves, loads, imports and
\* restarts follow each other.
THEOREM CoresStaySound == Spec => []CoreInvariant
<1>1. Init => CoreInvariant
      BY StartedKeeps
<1>2. CoreInvariant /\ [Next]_vars => CoreInvariant'
  <2> SUFFICES ASSUME CoreInvariant, [Next]_vars PROVE CoreInvariant'
      OBVIOUS
  <2>1. CASE UNCHANGED vars
        BY <2>1, UnchangedKeeps
  <2>2. CASE AddMemory \/ Condense \/ UpdateMemory \/ PromoteCandidate
        BY <2>2, AddMemoryKeeps, CondenseKeeps, UpdateMemoryKeeps, PromoteCandidateKeeps
  <2>3. CASE DeleteMemoryById \/ PurgeExpired
        BY <2>3, DeleteMemoryKeeps, PurgeExpiredKeeps
  <2>4. CASE AddDiaryEntry \/ UpdateDiary \/ DeleteDiaryById
        BY <2>4, AddDiaryEntryKeeps, UpdateDiaryKeeps, DeleteDiaryKeeps
  <2>5. CASE AddUserNode \/ AddUserEdge \/ Query
        BY <2>5, AddUserNodeKeeps, AddUserEdgeKeeps, QueryKeeps
  <2>6. CASE ImportDataFails \/ Restart
        BY <2>6, ImportDataFailsKeeps, StartedKeeps
  <2>7. ASSUME NEW c \in Calls,
               \/ BeginSave(c) \/ FinishSave(c) \/ SaveFails(c)
               \/ BeginLoad(c) \/ FinishLoad(c)
               \/ BeginImport(c) \/ FinishImport(c)
        PROVE  CoreInvariant'
        BY <2>7, BeginSaveKeeps, FinishSaveKeeps, SaveFailsKeeps, BeginLoadKeeps, FinishLoadKeeps,
           BeginImportKeeps, FinishImportKeeps
  <2> QED BY <2>1, <2>2, <2>3, <2>4, <2>5, <2>6, <2>7 DEF Next
<1> QED BY <1>1, <1>2, PTL DEF Spec

-------------------------------------------------------------------------------
(* What the runs check *)

\* NodesMirrorNotes, for any operations and any number of them: the linker
\* keeps the graph in step with what it mirrors.
THEOREM GraphMirrors == Spec => []NodesMirrorNotes
<1>1. CoreInvariant => NodesMirrorNotes
      BY DEF CoreInvariant, CoresSound, Sound, NodesMirrorNotes
<1> QED BY <1>1, CoresStaySound, PTL

\* RestoreIsExact: whatever state is reached, its export is accepted by an
\* import and gives it back.
THEOREM RestoresExactly == Spec => []RestoreIsExact
<1>1. CoreInvariant => RestoreIsExact
      BY CommittedSame DEF CoreInvariant, CoresSound, Sound, RestoreIsExact
<1> QED BY <1>1, CoresStaySound, PTL

\* IndexAgrees: an index that claims to be current is one of the current content.
THEOREM IndexNeverStale == Spec => []IndexAgrees
<1>1. CoreInvariant => IndexAgrees
      BY DEF CoreInvariant
<1> QED BY <1>1, CoresStaySound, PTL

-------------------------------------------------------------------------------
(* Each mutation is reproduced *)

LEMMA NatIds ==
    /\ \A id \in RecordIds : DiaryNode(id) \in Nat /\ MemoryNode(id) \in Nat /\ id \in Nat
    /\ \A id, other \in RecordIds : DiaryNode(id) < MemoryNode(other)
<1>1. MaxId \in Nat
      BY CoreConstantsOK
<1> QED BY <1>1 DEF RecordIds, DiaryNode, MemoryNode

LEMMA EdgeGrows ==
    ASSUME NEW c, IsCore(c), Graph(c), NEW id \in Nat, NEW source, NEW target, NEW relation
    PROVE  Grows("edges", c.edges, AddEdgeWithId(c, id, source, target, relation).edges,
                                   AddEdgeWithId(c, id, source, target, relation).edges)
<1> DEFINE after == AddEdgeWithId(c, id, source, target, relation)
<1>1. CASE ~CanAddEdge(c, id, source, target)
  <2>1. after = c
        BY <1>1 DEF AddEdgeWithId
  <2> QED BY <2>1, GrowsNot DEF Types
<1>2. CASE CanAddEdge(c, id, source, target)
  <2> DEFINE e == [id |-> id, source |-> source, target |-> target, relation |-> Normalized(relation)]
             t == Append(c.edges, e)
  <2>1. after = Core(c.notes, c.diary, c.nodes, t)
        BY <1>2, CoreExcept DEF AddEdgeWithId
  <2>2. after.edges = t
    <3> HIDE DEF after, t
    <3> QED BY <2>1, CoreParts
  <2>3. Normalized(relation) \in STARTER_RELATIONS
        BY DEF Normalized, STARTER_RELATIONS
  <2>4. e.id = id /\ IsEdge(e)
        BY <2>3 DEF IsEdge
  <2>5. Put(c.edges, e) = t
        BY <1>2, <2>4 DEF Put, CanAddEdge
  <2> HIDE DEF after, t, e
  <2>6. Grows("edges", c.edges, Put(c.edges, e), Put(c.edges, e))
        BY <2>4, GrowsPut DEF Types, Graph
  <2>7. Grows("edges", c.edges, after.edges, after.edges)
        BY <2>2, <2>5, <2>6
  <2> QED BY <2>7 DEF after
<1> QED BY <1>1, <1>2

LEMMA PutNoteReproduced ==
    ASSUME NEW c, Sound(c), NEW note, IsNote(note)
    PROVE  Reproduced(c, PutNote(c, note))
<1> DEFINE p == Put(c.notes, note)
           d == Core(p, c.diary, c.nodes, c.edges)
           mirror == MirrorOfNote(note)
           noded == EnsureNode(d, mirror)
           parent == DiaryNode(note.parent)
           placed == AddNode(noded, Placeholder(parent))
           linked == AddEdge(placed, MemoryNode(note.id), parent, "derived_from")
           after == PutNote(c, note)
           b == c.nodes
<1>1. IsCore(c) /\ Graph(c) /\ Records(c)
      BY SoundWhole DEF Whole
<1>2. after = IF note.parent = None THEN noded ELSE linked
  <2>1. [c EXCEPT !.notes = p] = d
        BY <1>1, CoreExcept
  <2> QED BY <2>1 DEF PutNote, LinkNote
<1>3. note.id \in RecordIds /\ note.id \in Nat /\ mirror.id = MemoryNode(note.id) /\ mirror.id \in Nat
      BY NatIds, MirrorIds DEF IsNote
<1> HIDE DEF after
<1>4. Grows("notes", c.notes, p, p)
      BY <1>1, <1>3, GrowsPut DEF Types, Records
<1>5. Grows("diary", c.diary, c.diary, c.diary) /\ Grows("edges", c.edges, c.edges, c.edges)
      BY GrowsNot DEF Types
<1> HIDE DEF p, mirror
<1>6. IsCore(d) /\ d.notes = p /\ d.diary = c.diary /\ d.nodes = b /\ d.edges = c.edges /\ Graph(d)
      BY <1>1, CoreParts DEF Graph
<1> HIDE DEF d
<1>7. IsCore(noded) /\ Graph(noded) /\ noded.notes = p /\ noded.diary = c.diary
      BY <1>6, EnsureNodeFacts
<1>8. noded.nodes = Put(b, mirror) /\ noded.edges = c.edges
  <2>1. noded = Core(d.notes, d.diary, Put(b, mirror), d.edges)
        BY <1>6, CoreExcept DEF EnsureNode
  <2> QED BY <1>6, <2>1, CoreParts
<1> HIDE DEF noded
<1>9. CASE note.parent = None
  <2>1. GrowsTo(b, Put(b, mirror))
        BY <1>1, <1>3, NodesGrow DEF Graph
  <2>2. Reproduced(c, noded)
        BY <1>1, <1>4, <1>5, <1>7, <1>8, <2>1, GrowthReproduced
  <2>3. after = noded
        BY <1>2, <1>9
  <2> QED BY <2>2, <2>3 DEF after
<1>10. CASE note.parent # None
  <2> DEFINE other == Placeholder(parent)
  <2>1. note.parent \in RecordIds
        BY <1>10 DEF IsNote, Parents
  <2>2. other.id = parent /\ parent \in Nat /\ parent < mirror.id
        BY <1>3, <2>1, NatIds, MirrorIds
  <2> HIDE DEF other, parent
  <2>3. GrowsTo(b, IF other.id \in Ids(Put(b, mirror)) THEN Put(b, mirror) ELSE Put(Put(b, mirror), other))
        BY <1>1, <1>3, <2>2, NodesGrowByTwo DEF Graph
  <2>4. IsCore(placed) /\ Graph(placed) /\ placed.notes = p /\ placed.diary = c.diary
        BY <1>7, AddNodeFacts
  <2>5. placed.nodes = (IF other.id \in Ids(Put(b, mirror)) THEN Put(b, mirror) ELSE Put(Put(b, mirror), other))
        /\ placed.edges = c.edges
    <3>1. placed = IF other.id \in Ids(noded.nodes) THEN noded ELSE EnsureNode(noded, other)
          BY DEF AddNode, other
    <3>2. EnsureNode(noded, other) = Core(noded.notes, noded.diary, Put(noded.nodes, other), noded.edges)
          BY <1>7, CoreExcept DEF EnsureNode
    <3>3. EnsureNode(noded, other).nodes = Put(noded.nodes, other) /\ EnsureNode(noded, other).edges = noded.edges
          BY <3>2, CoreParts
    <3> HIDE DEF placed
    <3> QED BY <1>8, <3>1, <3>3
  <2> HIDE DEF placed
  <2>6. NewEdge(placed) \in Nat
        BY <2>4, NewEdgeFacts
  <2>7. IsCore(linked) /\ linked.notes = p /\ linked.diary = c.diary /\ linked.nodes = placed.nodes
        BY <2>4, <2>6, AddEdgeFacts DEF AddEdge
  <2>8. Grows("edges", c.edges, linked.edges, linked.edges)
        BY <2>4, <2>5, <2>6, EdgeGrows DEF AddEdge
  <2> HIDE DEF linked
  <2>9. GrowsTo(b, linked.nodes)
        BY <2>3, <2>5, <2>7
  <2>10. Reproduced(c, linked)
        BY <1>1, <1>4, <1>5, <2>7, <2>8, <2>9, GrowthReproduced
  <2>11. after = linked
        BY <1>2, <1>10
  <2> QED BY <2>10, <2>11 DEF after
<1> QED BY <1>9, <1>10

LEMMA PutEntryReproduced ==
    ASSUME NEW c, Sound(c), NEW entry, IsEntry(entry)
    PROVE  Reproduced(c, PutEntry(c, entry))
<1> DEFINE p == Put(c.diary, entry)
           mirror == MirrorOfEntry(entry)
           d == Core(c.notes, p, c.nodes, c.edges)
           after == Core(c.notes, p, Put(c.nodes, mirror), c.edges)
<1>1. IsCore(c) /\ Graph(c) /\ Records(c)
      BY SoundWhole DEF Whole
<1>2. entry.id \in Nat /\ mirror.id \in Nat
      BY NatIds, MirrorIds DEF IsEntry
<1>3. Grows("diary", c.diary, p, p)
      BY <1>1, <1>2, GrowsPut DEF Types, Records
<1> HIDE DEF p, mirror
<1>4. PutEntry(c, entry) = after
  <2>1. [c EXCEPT !.diary = p] = d
        BY <1>1, CoreExcept
  <2>2. PutEntry(c, entry) = EnsureNode(d, mirror)
        BY <2>1 DEF PutEntry, LinkDiary, p, mirror
  <2>3. IsCore(d) /\ d.notes = c.notes /\ d.diary = p /\ d.nodes = c.nodes /\ d.edges = c.edges
        BY CoreParts
  <2> HIDE DEF d
  <2>4. EnsureNode(d, mirror) = Core(d.notes, d.diary, Put(d.nodes, mirror), d.edges)
        BY <2>3, CoreExcept DEF EnsureNode
  <2> QED BY <2>2, <2>3, <2>4
<1>5. /\ IsCore(after) /\ after.notes = c.notes /\ after.diary = p
      /\ after.nodes = Put(c.nodes, mirror) /\ after.edges = c.edges
      BY CoreParts
<1>6. GrowsTo(c.nodes, Put(c.nodes, mirror))
      BY <1>1, <1>2, NodesGrow DEF Graph
<1>7. Grows("notes", c.notes, c.notes, c.notes) /\ Grows("edges", c.edges, c.edges, c.edges)
      BY GrowsNot DEF Types
<1> HIDE DEF after
<1>8. Reproduced(c, after)
      BY <1>1, <1>3, <1>5, <1>6, <1>7, GrowthReproduced
<1> QED BY <1>4, <1>8

LEMMA DeleteMemoryReproduced ==
    ASSUME NEW c, Sound(c), NEW id \in Ids(c.notes)
    PROVE  Reproduced(c, DeleteMemory(c, id))
<1> DEFINE w == Without(c.notes, id)
<1>1. IsCore(c) /\ Graph(c) /\ Records(c)
      BY SoundWhole DEF Whole
<1>2. id \in Nat /\ MemoryNode(id) \in Nat
      BY RecordsOf, NatIds
<1>3. Shrinks("notes", c.notes, w)
      BY <1>1, <1>2, ShrinksByOne DEF Types, Records
<1>4. Shrinks("diary", c.diary, c.diary)
      BY ShrinksNot DEF Types
<1>5. DeleteMemory(c, id) = RemoveNode(Core(w, c.diary, c.nodes, c.edges), MemoryNode(id))
      BY <1>1, CoreExcept DEF DeleteMemory
<1> HIDE DEF w
<1>6. Reproduced(c, RemoveNode(Core(w, c.diary, c.nodes, c.edges), MemoryNode(id)))
      BY <1>1, <1>2, <1>3, <1>4, DeletionReproduced
<1> QED BY <1>5, <1>6

LEMMA DeleteDiaryReproduced ==
    ASSUME NEW c, Sound(c), NEW id \in Ids(c.diary)
    PROVE  Reproduced(c, DeleteDiary(c, id))
<1> DEFINE w == Without(c.diary, id)
<1>1. IsCore(c) /\ Graph(c) /\ Records(c)
      BY SoundWhole DEF Whole
<1>2. id \in Nat /\ DiaryNode(id) \in Nat
      BY RecordsOf, NatIds
<1>3. Shrinks("diary", c.diary, w)
      BY <1>1, <1>2, ShrinksByOne DEF Types, Records
<1>4. Shrinks("notes", c.notes, c.notes)
      BY ShrinksNot DEF Types
<1>5. DeleteDiary(c, id) = RemoveNode(Core(c.notes, w, c.nodes, c.edges), DiaryNode(id))
      BY <1>1, CoreExcept DEF DeleteDiary
<1> HIDE DEF w
<1>6. Reproduced(c, RemoveNode(Core(c.notes, w, c.nodes, c.edges), DiaryNode(id)))
      BY <1>1, <1>2, <1>3, <1>4, DeletionReproduced
<1> QED BY <1>5, <1>6

LEMMA AddEdgeReproduced ==
    ASSUME NEW c, Sound(c), NEW id \in Nat, NEW source, NEW target, NEW relation
    PROVE  Reproduced(c, AddEdgeWithId(c, id, source, target, relation))
<1> DEFINE after == AddEdgeWithId(c, id, source, target, relation)
<1>1. IsCore(c) /\ Graph(c)
      BY SoundWhole DEF Whole
<1>2. IsCore(after) /\ after.notes = c.notes /\ after.diary = c.diary /\ after.nodes = c.nodes
      BY <1>1, AddEdgeFacts
<1>3. Grows("edges", c.edges, after.edges, after.edges)
      BY <1>1, EdgeGrows
<1>4. /\ Grows("notes", c.notes, c.notes, c.notes) /\ Grows("diary", c.diary, c.diary, c.diary)
      /\ Grows("nodes", c.nodes, c.nodes, c.nodes)
      BY GrowsNot DEF Types
<1>5. GrowsTo(c.nodes, c.nodes)
      BY <1>4 DEF GrowsTo
<1> HIDE DEF after
<1>6. Reproduced(c, after)
      BY <1>1, <1>2, <1>3, <1>4, <1>5, GrowthReproduced
<1> QED BY <1>6 DEF after

LEMMA OutcomesReproduced == CoreInvariant => EffectsReproduce
<1> SUFFICES ASSUME CoreInvariant, NEW after \in Outcomes(core) PROVE Reproduced(core, after)
    BY DEF EffectsReproduce, Reproduced
<1>1. Sound(core)
      BY DEF CoreInvariant, CoresSound
<1>2. CASE \E id \in OwnNotes \ used.notes, draft \in Drafts : after = PutNote(core, NewNote(id, draft))
  <2>1. PICK id \in OwnNotes, draft \in Drafts : after = PutNote(core, NewNote(id, draft))
        BY <1>2
  <2>2. IsNote(NewNote(id, draft))
        BY CoreConstantsOK, CallersOK, NewNoteIs
  <2> QED BY <1>1, <2>1, <2>2, PutNoteReproduced
<1>3. CASE \E edit \in {e \in ToSet(core.notes) \X Patches : Editable(e[1], e[2])} :
                after = PutNote(core, Patched(edit[1], edit[2]))
  <2>1. PICK note \in ToSet(core.notes), patch \in Patches : after = PutNote(core, Patched(note, patch))
        BY <1>3
  <2>2. IsNote(note)
        BY <1>1, RecordsOf
  <2>3. IsNote(Patched(note, patch))
        BY <2>2, PatchedIs
  <2> QED BY <1>1, <2>1, <2>3, PutNoteReproduced
<1>4. CASE \E id \in Ids(core.notes) : after = DeleteMemory(core, id)
      BY <1>1, <1>4, DeleteMemoryReproduced
<1>5. CASE \E id \in (OwnDiaries \ used.diary) \cup Ids(core.diary), text \in Texts :
                after = PutEntry(core, Entry(id, text))
  <2>1. PICK id \in (OwnDiaries \ used.diary) \cup Ids(core.diary), text \in Texts :
                after = PutEntry(core, Entry(id, text))
        BY <1>5
  <2>2. id \in RecordIds
        BY <1>1, RecordsOf, CoreConstantsOK
  <2>3. IsEntry(Entry(id, text))
        BY <2>2, EntryIs
  <2> QED BY <1>1, <2>1, <2>3, PutEntryReproduced
<1>6. CASE \E id \in Ids(core.diary) : after = DeleteDiary(core, id)
      BY <1>1, <1>6, DeleteDiaryReproduced
<1>7. CASE \E id \in UserEdges, link \in Links :
                after = AddEdgeWithId(core, id, link.source, link.target, link.relation)
  <2>1. PICK id \in UserEdges, link \in Links :
                after = AddEdgeWithId(core, id, link.source, link.target, link.relation)
        BY <1>7
  <2>2. id \in Nat
        BY CoreConstantsOK
  <2> QED BY <1>1, <2>1, <2>2, AddEdgeReproduced
<1> DEFINE added == {PutNote(core, NewNote(id, draft)) : id \in OwnNotes \ used.notes, draft \in Drafts}
           edits == {e \in ToSet(core.notes) \X Patches : Editable(e[1], e[2])}
           edited == {PutNote(core, Patched(edit[1], edit[2])) : edit \in edits}
           deleted == {DeleteMemory(core, id) : id \in Ids(core.notes)}
           written == {PutEntry(core, Entry(id, text)) : id \in (OwnDiaries \ used.diary) \cup Ids(core.diary), text \in Texts}
           erased == {DeleteDiary(core, id) : id \in Ids(core.diary)}
           joined == {AddEdgeWithId(core, id, link.source, link.target, link.relation) : id \in UserEdges, link \in Links}
<1>8. after \in added \cup edited \cup deleted \cup written \cup erased \cup joined
      BY DEF Outcomes
<1>9. after \in added => Reproduced(core, after)
      BY <1>2
<1>10. after \in edited => Reproduced(core, after)
      BY <1>3
<1>11. after \in deleted => Reproduced(core, after)
      BY <1>4
<1>12. after \in written => Reproduced(core, after)
      BY <1>5
<1>13. after \in erased => Reproduced(core, after)
      BY <1>6
<1>14. after \in joined => Reproduced(core, after)
      BY <1>7
<1> HIDE DEF added, edited, deleted, written, erased, joined
<1> QED BY <1>8, <1>9, <1>10, <1>11, <1>12, <1>13, <1>14

\* Whatever one durable mutation makes of a core, replaying the effects that
\* prepareCoreMutation records of it meets nothing missing and gives that
\* outcome, in its order but for two nodes that are new at once.
THEOREM EffectsReplayExactly == Spec => []EffectsReproduce
<1>1. CoreInvariant => EffectsReproduce
      BY OutcomesReproduced
<1> QED BY <1>1, CoresStaySound, PTL
===============================================================================
