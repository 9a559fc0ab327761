-------------------------- MODULE Maintenance_proofs --------------------------
(***************************************************************************)
(* What a rotation and a collection promise, for any identities and        *)
(* objects, segments and runs of any length, and any number of attempts,   *)
(* failures, kills and power losses.  The receipt ledger holds what the    *)
(* predecessor and the segment hold, and a segment is refused only for the *)
(* reason given.  A collection leaves what is referenced, reports success  *)
(* only of a store that holds nothing else, and is never stopped by its    *)
(* own files or another attempt's.                                         *)
(*                                                                         *)
(* LedgerSound is inductive for the merge, GcSound for the collection;     *)
(* each has one lemma for each action.                                     *)
(***************************************************************************)
EXTENDS Maintenance, WellFoundedInduction, TLAPS

-------------------------------------------------------------------------------
(* What holds of a ledger in the making *)

MergeTypeOK ==
    /\ segment \in Seq(Ids) /\ previous \in Seq(Ids) /\ buffer \in Seq(Ids) /\ ledger \in Seq(Ids)
    /\ runs \in Seq(Seq(Ids))
    /\ read \in Nat /\ read =< Len(segment)

\* As much of the segment as n chunks hold.
Upto(n) == n * Chunk

\* The positions of the segment the i-th run is made of.
Window(i) == {k \in DOMAIN segment : Upto(i - 1) < k /\ k =< Upto(i)}

\* Each run is its window, sorted, in which no identity is met twice.
RunsInOrder ==
    status \in {"scan", "sorted", "merge", "done"} =>
        /\ Increasing(previous) /\ Len(runs) =< Namespace
        /\ \A i \in DOMAIN runs :
            /\ Increasing(runs[i]) /\ Entries(runs[i]) = {segment[k] : k \in Window(i)}
            /\ \A k, l \in Window(i) : segment[k] = segment[l] => k = l
        /\ \A k \in DOMAIN segment : k =< Upto(Len(runs)) => \E i \in DOMAIN runs : k \in Window(i)

\* The buffer is what was read since the last window.
BufferIsNext ==
    /\ status = "verify" => read = 0 /\ buffer = << >> /\ runs = << >>
    /\ status = "scan" =>
        /\ read = Upto(Len(runs)) + Len(buffer) /\ Len(buffer) < Chunk
        /\ \A j \in DOMAIN buffer : buffer[j] = segment[Upto(Len(runs)) + j]
    /\ status \in {"sorted", "merge", "done"} => Len(segment) =< Upto(Len(runs))
    /\ status \in {"verify", "scan", "sorted"} => ledger = << >>

Sources == 0..Len(runs)
Consumed(i) == 1..(pos[i] - 1)

\* The ledger is what was consumed of the sources, each identity from one of
\* them, and not beyond what they still have.
MergeInOrder ==
    /\ status \in {"merge", "done"} =>
        /\ pos \in [Sources -> Nat \ {0}]
        /\ \A i \in Sources : pos[i] =< Len(Source(i)) + 1
        /\ Increasing(ledger)
        /\ Entries(ledger) = UNION {{Source(i)[p] : p \in Consumed(i)} : i \in Sources}
        /\ \A i, j \in Sources : \A p \in Consumed(i), q \in Consumed(j) :
            Source(i)[p] = Source(j)[q] => i = j
        /\ \A i \in Sources : Open(i) /\ ledger # << >> => ledger[Len(ledger)] =< Now(i)
    /\ status = "done" => \A i \in Sources : ~Open(i)

LedgerSound ==
    MergeTypeOK /\ RunsInOrder /\ BufferIsNext /\ MergeInOrder /\ RefusalsAreExact

-------------------------------------------------------------------------------
LEMMA Least ==
    ASSUME NEW T \in SUBSET Nat, T # {}
    PROVE  \E n \in T : \A m \in T : n =< m
<1>1. IsWellFoundedOn(OpToRel(<, Nat), Nat)
      BY NatLessThanWellFounded
<1>2. PICK n \in T : \A m \in T : ~(<<m, n>> \in OpToRel(<, Nat))
      BY <1>1, WFMin
<1>3. \A m \in T : ~(m < n)
      BY <1>2 DEF OpToRel
<1> QED BY <1>3


\* Induction, about a set.
LEMMA Induction ==
    ASSUME NEW T \in SUBSET Nat, 0 \in T, \A n \in T : n + 1 \in T
    PROVE  T = Nat
<1> SUFFICES ASSUME Nat \ T # {} PROVE FALSE
    OBVIOUS
<1>1. PICK n \in Nat \ T : \A m \in Nat \ T : n =< m
      BY Least
<1>2. n # 0 /\ n - 1 \in Nat
      BY <1>1
<1>3. n - 1 \in T
      BY <1>1, <1>2
<1> QED BY <1>2, <1>3

-------------------------------------------------------------------------------
(* Sorted runs *)

LEMMA SortedExists ==
    \A n \in Nat : \A s \in [1..n -> Ids] :
        Injective(s) => \E t \in [1..n -> Ids] : Entries(t) = Entries(s) /\ Increasing(t)
<1> DEFINE Sortable(n) ==
        \A s \in [1..n -> Ids] :
            Injective(s) => \E t \in [1..n -> Ids] : Entries(t) = Entries(s) /\ Increasing(t)
           T == {n \in Nat : Sortable(n)}
<1>1. 0 \in T
  <2> SUFFICES ASSUME NEW s \in [1..0 -> Ids], Injective(s)
               PROVE  \E t \in [1..0 -> Ids] : Entries(t) = Entries(s) /\ Increasing(t)
      OBVIOUS
  <2>1. Increasing(s)
        BY DEF Increasing
  <2> QED BY <2>1
<1>2. ASSUME NEW n \in T PROVE n + 1 \in T
  <2> SUFFICES ASSUME NEW s \in [1..(n + 1) -> Ids], Injective(s)
               PROVE  \E t \in [1..(n + 1) -> Ids] : Entries(t) = Entries(s) /\ Increasing(t)
      OBVIOUS
  <2>0. n \in Nat /\ Ids \subseteq Nat
        BY MergeConstantsOK
  <2>1. Entries(s) \in SUBSET Nat /\ Entries(s) # {}
    <3>1. s[1] \in Entries(s)
          BY <2>0 DEF Entries
    <3>2. Entries(s) \subseteq Ids
          BY DEF Entries
    <3> QED BY <3>1, <3>2, <2>0
  <2>2. PICK m \in Entries(s) : \A x \in Entries(s) : m =< x
        BY <2>1, Least
  <2>3. PICK k \in 1..(n + 1) : s[k] = m
        BY <2>2 DEF Entries
  <2> DEFINE rest == [i \in 1..n |-> IF i < k THEN s[i] ELSE s[i + 1]]
  <2>4. rest \in [1..n -> Ids]
    <3>1. \A i \in 1..n : i \in 1..(n + 1) /\ i + 1 \in 1..(n + 1)
          BY <2>0
    <3> QED BY <3>1
  <2>5. \A x : x \in Entries(rest) <=> x \in Entries(s) /\ x # m
    <3>1. ASSUME NEW i \in 1..n PROVE rest[i] \in Entries(s) /\ rest[i] # m
      <4>1. CASE i < k
        <5>1. i \in 1..(n + 1) /\ i # k /\ rest[i] = s[i]
              BY <4>1, <2>0, <2>3
        <5> QED BY <5>1, <2>3 DEF Entries, Injective
      <4>2. CASE ~(i < k)
        <5>1. i + 1 \in 1..(n + 1) /\ i + 1 # k /\ rest[i] = s[i + 1]
              BY <4>2, <2>0, <2>3
        <5> QED BY <5>1, <2>3 DEF Entries, Injective
      <4> QED BY <4>1, <4>2
    <3>2. ASSUME NEW j \in 1..(n + 1), s[j] # m PROVE s[j] \in Entries(rest)
      <4>1. CASE j < k
        <5>1. j \in 1..n /\ rest[j] = s[j]
              BY <4>1, <2>0, <2>3
        <5> QED BY <5>1 DEF Entries
      <4>2. CASE k < j
        <5>1. j - 1 \in 1..n /\ ~(j - 1 < k) /\ (j - 1) + 1 = j
              BY <4>2, <2>0, <2>3
        <5>2. rest[j - 1] = s[j]
              BY <5>1
        <5>3. j - 1 \in DOMAIN rest
              BY <5>1
        <5> QED BY <5>2, <5>3 DEF Entries
      <4>3. j # k
            BY <3>2, <2>3
      <4> QED BY <4>1, <4>2, <4>3, <2>0, <2>3
    <3> HIDE DEF rest
    <3> QED BY <3>1, <3>2, <2>4 DEF Entries
  <2>6. Injective(rest)
    <3> SUFFICES ASSUME NEW i \in 1..n, NEW j \in 1..n, rest[i] = rest[j] PROVE i = j
        BY DEF Injective
    <3> DEFINE at(p) == IF p < k THEN p ELSE p + 1
    <3>1. at(i) \in 1..(n + 1) /\ at(j) \in 1..(n + 1) /\ s[at(i)] = rest[i] /\ s[at(j)] = rest[j]
          BY <2>0, <2>3
    <3>2. at(i) = at(j)
      <4> HIDE DEF at, rest
      <4> QED BY <3>1 DEF Injective
    <3> QED BY <3>2, <2>0, <2>3
  <2> HIDE DEF rest
  <2>7. PICK t \in [1..n -> Ids] : Entries(t) = Entries(rest) /\ Increasing(t)
    <3>1. Sortable(n)
          OBVIOUS
    <3> QED BY <3>1, <2>4, <2>6
  <2> DEFINE u == [i \in 1..(n + 1) |-> IF i = 1 THEN m ELSE t[i - 1]]
  <2>8. m \in Ids /\ u \in [1..(n + 1) -> Ids]
    <3>1. m \in Ids
          BY <2>3
    <3>2. \A i \in 1..(n + 1) : i # 1 => i - 1 \in 1..n
          BY <2>0
    <3> QED BY <3>1, <3>2
  <2>9. \A x : x \in Entries(u) <=> x = m \/ x \in Entries(t)
    <3>1. u[1] = m /\ 1 \in 1..(n + 1)
          BY <2>0
    <3>2. ASSUME NEW i \in 1..(n + 1), i # 1 PROVE u[i] = t[i - 1] /\ i - 1 \in 1..n
          BY <3>2, <2>0
    <3>3. ASSUME NEW j \in 1..n PROVE u[j + 1] = t[j] /\ j + 1 \in 1..(n + 1)
      <4>1. j + 1 \in 1..(n + 1) /\ j + 1 # 1 /\ (j + 1) - 1 = j
            BY <2>0
      <4> QED BY <4>1
    <3> HIDE DEF u
    <3>4. ASSUME NEW x, x \in Entries(u) PROVE x = m \/ x \in Entries(t)
      <4>1. PICK i \in 1..(n + 1) : x = u[i]
            BY <3>4, <2>8 DEF Entries
      <4>2. CASE i = 1
            BY <4>1, <4>2, <3>1
      <4>3. CASE i # 1
            BY <4>1, <4>3, <3>2, <2>8 DEF Entries
      <4> QED BY <4>2, <4>3
    <3>5. ASSUME NEW x, x = m \/ x \in Entries(t) PROVE x \in Entries(u)
      <4>1. CASE x = m
            BY <4>1, <3>1, <2>8 DEF Entries
      <4>2. CASE x \in Entries(t)
        <5>1. PICK j \in 1..n : x = t[j]
              BY <4>2, <2>8 DEF Entries
        <5> QED BY <5>1, <3>3, <2>8 DEF Entries
      <4> QED BY <3>5, <4>1, <4>2
    <3> QED BY <3>4, <3>5
  <2>10. Entries(u) = Entries(s)
        BY <2>2, <2>5, <2>7, <2>9
  <2>11. Increasing(u)
    <3> SUFFICES ASSUME NEW i \in 1..(n + 1), NEW j \in 1..(n + 1), i < j PROVE u[i] < u[j]
        BY DEF Increasing
    <3>1. j # 1 /\ j - 1 \in 1..n /\ u[j] = t[j - 1]
          BY <2>0
    <3>2. CASE i = 1
      <4>1. t[j - 1] \in Entries(t)
            BY <3>1 DEF Entries
      <4>2. t[j - 1] \in Entries(s) /\ t[j - 1] # m
            BY <4>1, <2>5, <2>7
      <4>3. m =< t[j - 1] /\ t[j - 1] \in Nat /\ m \in Nat
            BY <4>2, <2>1, <2>2
      <4>4. u[i] = m
            BY <3>2
      <4> HIDE DEF u
      <4> QED BY <3>1, <4>2, <4>3, <4>4
    <3>3. CASE i # 1
      <4>1. i - 1 \in 1..n /\ u[i] = t[i - 1] /\ i - 1 < j - 1
            BY <3>3, <2>0
      <4>2. DOMAIN t = 1..n
            OBVIOUS
      <4>3. t[i - 1] < t[j - 1]
        <5> DEFINE p == i - 1
                   q == j - 1
        <5>1. p \in DOMAIN t /\ q \in DOMAIN t /\ p < q
              BY <4>1, <4>2, <3>1
        <5> HIDE DEF p, q
        <5>2. t[p] < t[q]
              BY <5>1, <2>7 DEF Increasing
        <5> QED BY <5>2 DEF p, q
      <4> HIDE DEF u
      <4> QED BY <4>1, <4>3, <3>1
    <3> QED BY <3>2, <3>3
  <2> HIDE DEF u
  <2> QED BY <2>8, <2>10, <2>11
<1>3. T = Nat
  <2>1. T \in SUBSET Nat
        OBVIOUS
  <2> HIDE DEF T
  <2> QED BY <1>1, <1>2, <2>1, Induction
<1> QED BY <1>3

LEMMA SortedIs ==
    ASSUME NEW s \in Seq(Ids), Injective(s)
    PROVE  /\ Sorted(s) \in Seq(Ids) /\ Len(Sorted(s)) = Len(s)
           /\ Entries(Sorted(s)) = Entries(s) /\ Increasing(Sorted(s))
<1>1. Len(s) \in Nat /\ s \in [1..Len(s) -> Ids] /\ DOMAIN s = 1..Len(s)
      OBVIOUS
<1>2. PICK t \in [1..Len(s) -> Ids] : Entries(t) = Entries(s) /\ Increasing(t)
      BY <1>1, SortedExists
<1>3. t \in [DOMAIN s -> Entries(s)]
  <2>1. \A i \in 1..Len(s) : t[i] \in Entries(s)
        BY <1>2 DEF Entries
  <2> QED BY <1>1, <2>1
<1>4. Sorted(s) \in [DOMAIN s -> Entries(s)] /\ Entries(Sorted(s)) = Entries(s) /\ Increasing(Sorted(s))
      BY <1>2, <1>3 DEF Sorted
<1>5. Entries(s) \subseteq Ids
      BY DEF Entries
<1>6. Sorted(s) \in [1..Len(s) -> Ids]
      BY <1>1, <1>4, <1>5
<1> HIDE DEF Sorted
<1>7. Sorted(s) \in Seq(Ids) /\ Len(Sorted(s)) = Len(s)
      BY <1>1, <1>6
<1> QED BY <1>4, <1>7

\* A lookup that gives up at the first greater entry finds what is there.
LEMMA LookupIs ==
    ASSUME NEW s \in Seq(Ids), Increasing(s), NEW id \in Ids
    PROVE  Lookup(s, id) <=> id \in Entries(s)
<1> DEFINE stops == {i \in DOMAIN s : s[i] >= id}
<1>1. stops \in SUBSET Nat /\ DOMAIN s \subseteq Nat /\ Ids \subseteq Nat
      /\ \A i \in DOMAIN s : s[i] \in Ids
      BY MergeConstantsOK
<1>2. ASSUME stops # {} PROVE First(stops) \in stops /\ \A j \in stops : First(stops) =< j
  <2> HIDE DEF stops
  <2> QED BY <1>1, <1>2, Least DEF First
<1>3. ASSUME NEW k \in DOMAIN s, s[k] = id PROVE Lookup(s, id)
  <2>1. k \in stops
        BY <1>1, <1>3
  <2>2. First(stops) \in DOMAIN s /\ s[First(stops)] >= id /\ First(stops) =< k
        BY <2>1, <1>2
  <2> DEFINE first == First(stops)
  <2>3. ASSUME first < k PROVE FALSE
    <3>1. first \in DOMAIN s /\ s[first] >= id
          BY <2>2
    <3> HIDE DEF first
    <3>2. s[first] < s[k]
          BY <3>1, <2>3 DEF Increasing
    <3>3. s[first] \in Nat /\ id \in Nat
          BY <3>1, <1>1
    <3> QED BY <3>1, <3>2, <3>3, <1>3
  <2>4. first = k
    <3>1. first =< k /\ first \in Nat /\ k \in Nat
          BY <2>2, <1>1
    <3> HIDE DEF first
    <3> QED BY <3>1, <2>3
  <2> QED BY <2>1, <2>4, <1>3 DEF Lookup
<1>4. ASSUME Lookup(s, id) PROVE id \in Entries(s)
  <2>1. stops # {} /\ s[First(stops)] = id
        BY <1>4 DEF Lookup
  <2> QED BY <2>1, <1>2 DEF Entries
<1> QED BY <1>3, <1>4 DEF Entries

-------------------------------------------------------------------------------
(* Windows of the segment *)

LEMMA Times ==
    /\ Chunk \in Nat /\ 0 < Chunk /\ Namespace \in Nat /\ Ids \subseteq Nat
    /\ \A n \in Nat : Upto(n) \in Nat /\ Upto(n + 1) = Upto(n) + Chunk
    /\ \A i, j \in Nat : i =< j => Upto(i) =< Upto(j)
    /\ Upto(0) = 0 /\ Upto(Namespace) = Namespace * Chunk
<1>1. Chunk \in Nat /\ 0 < Chunk /\ Namespace \in Nat /\ Ids \subseteq Nat
      BY MergeConstantsOK
<1>2. ASSUME NEW n \in Nat PROVE Upto(n) \in Nat /\ Upto(n + 1) = Upto(n) + Chunk
      BY <1>1 DEF Upto
<1>3. ASSUME NEW i \in Nat, NEW j \in Nat, i =< j PROVE Upto(i) =< Upto(j)
  <2>1. (j - i) \in Nat /\ (j - i) * Chunk \in Nat
        BY <1>1, <1>3
  <2>2. j * Chunk = i * Chunk + (j - i) * Chunk
        BY <1>1, <1>3
  <2>3. i * Chunk \in Nat /\ j * Chunk \in Nat
        BY <1>1
  <2> QED BY <2>1, <2>2, <2>3 DEF Upto
<1>4. Upto(0) = 0 /\ Upto(Namespace) = Namespace * Chunk
      BY <1>1 DEF Upto
<1> QED BY <1>1, <1>2, <1>3, <1>4

LEMMA WindowsApart ==
    ASSUME segment \in Seq(Ids), NEW i \in Nat \ {0}, NEW j \in Nat \ {0}, NEW k,
           k \in Window(i), k \in Window(j)
    PROVE  i = j
<1>1. k \in Nat /\ Upto(i - 1) < k /\ k =< Upto(i) /\ Upto(j - 1) < k /\ k =< Upto(j)
      BY DEF Window
<1>2. \A x, y \in Nat \ {0} : x < y => Upto(x) =< Upto(y - 1)
  <2> SUFFICES ASSUME NEW x \in Nat \ {0}, NEW y \in Nat \ {0}, x < y
               PROVE  Upto(x) =< Upto(y - 1)
      OBVIOUS
  <2>1. x \in Nat /\ y - 1 \in Nat /\ x =< y - 1
        OBVIOUS
  <2> QED BY <2>1, Times
<1>3. \A x \in Nat : Upto(x) \in Nat
      BY Times
<1>4. i - 1 \in Nat /\ j - 1 \in Nat
      OBVIOUS
<1>5. ASSUME i < j PROVE FALSE
  <2>1. Upto(i) =< Upto(j - 1)
        BY <1>2, <1>5
  <2>2. Upto(i) \in Nat /\ Upto(j - 1) \in Nat
        BY <1>3, <1>4
  <2> QED BY <1>1, <2>1, <2>2
<1>6. ASSUME j < i PROVE FALSE
  <2>1. Upto(j) =< Upto(i - 1)
        BY <1>2, <1>6
  <2>2. Upto(j) \in Nat /\ Upto(i - 1) \in Nat
        BY <1>3, <1>4
  <2> QED BY <1>1, <2>1, <2>2
<1> QED BY <1>5, <1>6

\* The window that begins where the last run ends.
LEMMA NextWindow ==
    ASSUME MergeTypeOK, NEW n \in Nat, NEW entries \in Seq(Ids), Len(entries) =< Chunk,
           Upto(n) + Len(entries) =< Len(segment),
           Len(entries) = Chunk \/ Upto(n) + Len(entries) = Len(segment),
           \A j \in DOMAIN entries : entries[j] = segment[Upto(n) + j]
    PROVE  /\ \A k : k \in Window(n + 1) <=> \E j \in DOMAIN entries : k = Upto(n) + j
           /\ Entries(entries) = {segment[k] : k \in Window(n + 1)}
           /\ Injective(entries) => \A k, l \in Window(n + 1) : segment[k] = segment[l] => k = l
<1> DEFINE base == Upto(n)
<1>1. base \in Nat /\ Upto(n + 1) = base + Chunk /\ Upto((n + 1) - 1) = base
      /\ Chunk \in Nat /\ Len(entries) \in Nat /\ DOMAIN entries = 1..Len(entries)
      /\ Len(segment) \in Nat /\ DOMAIN segment = 1..Len(segment)
  <2>1. (n + 1) - 1 = n
        OBVIOUS
  <2>2. Upto((n + 1) - 1) = base
        BY <2>1
  <2>3. base \in Nat /\ Upto(n + 1) = base + Chunk /\ Chunk \in Nat
        BY Times
  <2>4. Len(entries) \in Nat /\ DOMAIN entries = 1..Len(entries)
        OBVIOUS
  <2>5. Len(segment) \in Nat /\ DOMAIN segment = 1..Len(segment)
        BY DEF MergeTypeOK
  <2> HIDE DEF base
  <2> QED BY <2>2, <2>3, <2>4, <2>5
<1>2. \A k : k \in Window(n + 1) <=> k \in 1..Len(segment) /\ base < k /\ k =< base + Chunk
  <2> HIDE DEF base
  <2> QED BY <1>1 DEF Window
<1> HIDE DEF base
<1> DEFINE size == Len(entries)
           all == Len(segment)
<1>3. /\ size = Chunk \/ base + size = all
      /\ base + size =< all /\ size =< Chunk
      /\ base \in Nat /\ size \in Nat /\ all \in Nat /\ Chunk \in Nat
      /\ DOMAIN entries = 1..size
      BY <1>1 DEF base
<1>4. \A k : k \in Window(n + 1) <=> k \in 1..all /\ base < k /\ k =< base + Chunk
      BY <1>2
<1> HIDE DEF size, all
<1>5. \A k : k \in Window(n + 1) <=> \E j \in DOMAIN entries : k = base + j
  <2>1. ASSUME NEW k, k \in Window(n + 1) PROVE k - base \in DOMAIN entries /\ k = base + (k - base)
    <3>1. k \in Nat /\ 1 =< k /\ k =< all /\ base < k /\ k =< base + Chunk
          BY <1>3, <1>4, <2>1
    <3>2. k - base \in 1..size /\ k = base + (k - base)
          BY <1>3, <3>1
    <3> QED BY <1>3, <3>2
  <2>2. ASSUME NEW j \in 1..size PROVE base + j \in Window(n + 1)
    <3>1. base + j \in 1..all /\ base < base + j /\ base + j =< base + Chunk
          BY <1>3
    <3> QED BY <3>1, <1>4
  <2>3. DOMAIN entries = 1..size
        BY <1>3
  <2> QED BY <2>1, <2>2, <2>3
<1>6. \A j \in DOMAIN entries : entries[j] = segment[base + j]
      BY DEF base
<1>7. Entries(entries) = {segment[k] : k \in Window(n + 1)}
      BY <1>5, <1>6 DEF Entries
<1>8. ASSUME Injective(entries), NEW k \in Window(n + 1), NEW l \in Window(n + 1), segment[k] = segment[l]
      PROVE  k = l
  <2>1. PICK i \in DOMAIN entries : k = base + i
        BY <1>5
  <2>2. PICK j \in DOMAIN entries : l = base + j
        BY <1>5
  <2>3. entries[i] = entries[j]
        BY <1>6, <1>8, <2>1, <2>2
  <2>4. i = j
        BY <1>8, <2>3 DEF Injective
  <2> QED BY <2>1, <2>2, <2>4
<1>9. \A k : k \in Window(n + 1) <=> \E j \in DOMAIN entries : k = Upto(n) + j
      BY <1>5 DEF base
<1> QED BY <1>7, <1>8, <1>9

-------------------------------------------------------------------------------
(* Identities met twice *)

\* The predecessor and the segment, one after the other.
LEMMA InAll ==
    ASSUME MergeTypeOK
    PROVE  /\ \A p \in DOMAIN previous : p \in DOMAIN (previous \o segment) /\ (previous \o segment)[p] = previous[p]
           /\ \A k \in DOMAIN segment :
                /\ Len(previous) + k \in DOMAIN (previous \o segment)
                /\ (previous \o segment)[Len(previous) + k] = segment[k]
           /\ \A q \in DOMAIN (previous \o segment) :
                q \in DOMAIN previous \/ \E k \in DOMAIN segment : q = Len(previous) + k
           /\ Len(previous) \in Nat /\ DOMAIN previous = 1..Len(previous)
           /\ DOMAIN segment = 1..Len(segment) /\ Len(segment) \in Nat
<1>1. previous \in Seq(Ids) /\ segment \in Seq(Ids)
      BY DEF MergeTypeOK
<1> DEFINE all == previous \o segment
<1>2. /\ Len(all) = Len(previous) + Len(segment) /\ DOMAIN all = 1..Len(all)
      /\ Len(previous) \in Nat /\ DOMAIN previous = 1..Len(previous)
      /\ DOMAIN segment = 1..Len(segment) /\ Len(segment) \in Nat
      BY <1>1
<1>3. \A p \in 1..Len(all) : all[p] = IF p =< Len(previous) THEN previous[p] ELSE segment[p - Len(previous)]
      BY <1>1
<1> HIDE DEF all
<1>4. ASSUME NEW p \in DOMAIN previous PROVE p \in DOMAIN all /\ all[p] = previous[p]
      BY <1>2, <1>3
<1>5. ASSUME NEW k \in DOMAIN segment PROVE Len(previous) + k \in DOMAIN all /\ all[Len(previous) + k] = segment[k]
  <2>1. Len(previous) + k \in DOMAIN all /\ ~(Len(previous) + k =< Len(previous))
        /\ (Len(previous) + k) - Len(previous) = k
        BY <1>2
  <2> QED BY <2>1, <1>2, <1>3
<1>6. ASSUME NEW q \in DOMAIN all, q \notin DOMAIN previous
      PROVE  q - Len(previous) \in DOMAIN segment /\ q = Len(previous) + (q - Len(previous))
      BY <1>2, <1>6
<1> QED BY <1>2, <1>4, <1>5, <1>6 DEF all

LEMMA MetTwice ==
    ASSUME MergeTypeOK, NEW k \in DOMAIN segment
    PROVE  /\ \A l \in DOMAIN segment : k # l /\ segment[k] = segment[l] => ~Injective(previous \o segment)
           /\ \A p \in DOMAIN previous : previous[p] = segment[k] => ~Injective(previous \o segment)
<1> DEFINE all == previous \o segment
           n == Len(previous)
<1>0. /\ \A p \in DOMAIN previous : p \in DOMAIN all /\ all[p] = previous[p]
      /\ \A l \in DOMAIN segment : n + l \in DOMAIN all /\ all[n + l] = segment[l]
      /\ n \in Nat /\ DOMAIN previous = 1..n /\ DOMAIN segment = 1..Len(segment) /\ Len(segment) \in Nat
      BY InAll
<1> HIDE DEF all, n
<1>1. ASSUME NEW l \in DOMAIN segment, k # l, segment[k] = segment[l], Injective(all) PROVE FALSE
  <2>1. n + k = n + l
        BY <1>0, <1>1 DEF Injective
  <2> QED BY <1>0, <1>1, <2>1
<1>2. ASSUME NEW p \in DOMAIN previous, previous[p] = segment[k], Injective(all) PROVE FALSE
  <2>1. p = n + k
        BY <1>0, <1>2 DEF Injective
  <2> QED BY <1>0, <2>1
<1> QED BY <1>1, <1>2 DEF all

-------------------------------------------------------------------------------
(* The steps of the sorter *)

LEMMA FlushKeeps ==
    ASSUME LedgerSound, status = "scan", NEW entries \in Seq(Ids), NEW next \in {"scan", "sorted"},
           Flush(entries, next), UNCHANGED <<input, pos, ledger>>,
           entries # << >>, Len(entries) =< Chunk,
           read' = Upto(Len(runs)) + Len(entries), read' =< Len(segment),
           Len(entries) = Chunk \/ read' = Len(segment),
           \A j \in DOMAIN entries : entries[j] = segment[Upto(Len(runs)) + j],
           next = "scan" => Len(entries) = Chunk,
           next = "sorted" => read' = Len(segment)
    PROVE  LedgerSound'
<1>0. MergeTypeOK
      BY DEF LedgerSound
<1>1. PICK n \in Nat : n = Len(runs)
      BY <1>0 DEF MergeTypeOK
<1>2. PICK to : to = read'
      OBVIOUS
<1>3. /\ to = Upto(n) + Len(entries) /\ to =< Len(segment) /\ Len(entries) \in Nat /\ 0 < Len(entries)
      /\ DOMAIN entries = 1..Len(entries) /\ to \in Nat
      /\ Upto(n) \in Nat /\ Len(segment) \in Nat /\ DOMAIN segment = 1..Len(segment)
  <2>1. Upto(n) \in Nat
        BY Times
  <2> QED BY <2>1, <1>0, <1>1, <1>2 DEF MergeTypeOK
<1>4. /\ \A k : k \in Window(n + 1) <=> \E j \in DOMAIN entries : k = Upto(n) + j
      /\ Entries(entries) = {segment[k] : k \in Window(n + 1)}
      /\ Injective(entries) => \A k, l \in Window(n + 1) : segment[k] = segment[l] => k = l
  <2>1. Upto(n) + Len(entries) =< Len(segment)
        BY <1>3
  <2>2. Len(entries) = Chunk \/ Upto(n) + Len(entries) = Len(segment)
        BY <1>2, <1>3
  <2>3. \A j \in DOMAIN entries : entries[j] = segment[Upto(n) + j]
        BY <1>1
  <2> QED BY <1>0, <2>1, <2>2, <2>3, NextWindow
<1>5. segment' = segment /\ previous' = previous /\ pos' = pos /\ ledger' = ledger
      /\ \A i : Window(i)' = Window(i)
      BY DEF input, Window
<1>6. CASE Len(runs) >= Namespace /\ status' = "exhausted" /\ UNCHANGED <<buffer, runs>>
  <2>1. MergeTypeOK'
        BY <1>0, <1>2, <1>3, <1>5, <1>6 DEF MergeTypeOK
  <2>2. Len(segment) > Upto(Namespace)
    <3>1. Upto(Namespace) =< Upto(n) /\ Upto(Namespace) \in Nat
          BY <1>1, <1>6, Times
    <3> HIDE DEF Flush
    <3> QED BY <3>1, <1>3
  <2>3. RefusalsAreExact'
    <3>1. Upto(Namespace) = Namespace * Chunk
          BY Times
    <3>2. segment' = segment /\ status' = "exhausted"
          BY <1>5, <1>6
    <3>3. Len(segment') > Namespace * Chunk
          BY <2>2, <3>1, <3>2
    <3> QED BY <3>2, <3>3 DEF RefusalsAreExact
  <2> QED BY <1>6, <2>1, <2>3 DEF LedgerSound, RunsInOrder, BufferIsNext, MergeInOrder
<1>7. CASE ~Injective(entries) /\ status' = "corrupt" /\ UNCHANGED <<buffer, runs>>
  <2>1. MergeTypeOK'
        BY <1>0, <1>2, <1>3, <1>5, <1>7 DEF MergeTypeOK
  <2>2. PICK i \in DOMAIN entries, j \in DOMAIN entries : entries[i] = entries[j] /\ i # j
        BY <1>7 DEF Injective
  <2>3. /\ Upto(n) + i \in DOMAIN segment /\ Upto(n) + j \in DOMAIN segment
        /\ Upto(n) + i # Upto(n) + j
    <3> DEFINE base == Upto(n)
               size == Len(entries)
               all == Len(segment)
    <3>1. /\ base \in Nat /\ size \in Nat /\ all \in Nat /\ base + size =< all
          /\ DOMAIN entries = 1..size /\ DOMAIN segment = 1..all
          BY <1>3
    <3> HIDE DEF base, size, all
    <3>2. base + i \in 1..all /\ base + j \in 1..all /\ base + i # base + j
          BY <3>1, <2>2
    <3> QED BY <3>1, <3>2 DEF base
  <2>4. segment[Upto(n) + i] = segment[Upto(n) + j]
        BY <1>1, <2>2
  <2>5. ~Injective(previous \o segment)
        BY <1>0, <2>3, <2>4, MetTwice
  <2>6. RefusalsAreExact'
        BY <1>5, <1>7, <2>5 DEF RefusalsAreExact
  <2> QED BY <1>7, <2>1, <2>6 DEF LedgerSound, RunsInOrder, BufferIsNext, MergeInOrder
<1>8. CASE /\ Len(runs) < Namespace /\ Injective(entries)
           /\ runs' = Append(runs, Sorted(entries)) /\ buffer' = << >> /\ status' = next
  <2> DEFINE run == Sorted(entries)
  <2>1. run \in Seq(Ids) /\ Entries(run) = Entries(entries) /\ Increasing(run)
        BY <1>8, SortedIs
  <2> HIDE DEF run
  <2>2. /\ runs' = Append(runs, run) /\ runs \in Seq(Seq(Ids)) /\ runs' \in Seq(Seq(Ids))
        /\ Len(runs') = n + 1 /\ DOMAIN runs' = 1..(n + 1) /\ DOMAIN runs = 1..n
        /\ runs'[n + 1] = run /\ \A i \in 1..n : runs'[i] = runs[i]
        BY <1>0, <1>1, <1>8, <2>1 DEF MergeTypeOK, run
  <2>3. MergeTypeOK'
        BY <1>0, <1>2, <1>3, <1>5, <1>8, <2>2 DEF MergeTypeOK
  <2>4. /\ Increasing(previous) /\ n =< Namespace
        /\ \A i \in 1..n :
            /\ Increasing(runs[i]) /\ Entries(runs[i]) = {segment[k] : k \in Window(i)}
            /\ \A k, l \in Window(i) : segment[k] = segment[l] => k = l
        /\ \A k \in DOMAIN segment : k =< Upto(n) => \E i \in 1..n : k \in Window(i)
        BY <1>1, <2>2 DEF LedgerSound, RunsInOrder
  <2>5. ASSUME NEW k \in DOMAIN segment, k =< Upto(n + 1) PROVE \E i \in 1..(n + 1) : k \in Window(i)
    <3>1. CASE k =< Upto(n)
          BY <2>4, <3>1
    <3>2. CASE Upto(n) < k
      <4>1. (n + 1) - 1 = n
            OBVIOUS
      <4>2. k \in Window(n + 1)
            BY <2>5, <3>2, <4>1 DEF Window
      <4> QED BY <4>2
    <3>3. k \in Nat /\ Upto(n) \in Nat
          BY <1>3
    <3> QED BY <3>1, <3>2, <3>3
  <2>6. RunsInOrder'
    <3>1. Increasing(previous') /\ Len(runs') =< Namespace
      <4>1. n + 1 =< Namespace
            BY <1>1, <1>8, Times
      <4> QED BY <4>1, <2>2, <2>4, <1>5
    <3>2. ASSUME NEW i \in 1..(n + 1)
          PROVE  /\ Increasing(runs'[i]) /\ Entries(runs'[i]) = {segment[k] : k \in Window(i)}
                 /\ \A k, l \in Window(i) : segment[k] = segment[l] => k = l
      <4>1. CASE i = n + 1
            BY <4>1, <1>4, <1>8, <2>1, <2>2
      <4>2. CASE i \in 1..n
            BY <4>2, <2>2, <2>4
      <4> QED BY <4>1, <4>2
    <3>3. \A i \in DOMAIN runs' :
            /\ Increasing(runs'[i]) /\ Entries(runs'[i]) = {segment'[k] : k \in Window(i)'}
            /\ \A k, l \in Window(i)' : segment'[k] = segment'[l] => k = l
      <4> SUFFICES ASSUME NEW i \in 1..(n + 1)
                   PROVE  /\ Increasing(runs'[i]) /\ Entries(runs'[i]) = {segment'[k] : k \in Window(i)'}
                          /\ \A k, l \in Window(i)' : segment'[k] = segment'[l] => k = l
          BY <2>2
      <4>1. Window(i)' = Window(i) /\ segment' = segment
            BY <1>5
      <4>2. {segment'[k] : k \in Window(i)'} = {segment[k] : k \in Window(i)}
            BY <4>1
      <4>3. Increasing(runs'[i]) /\ Entries(runs'[i]) = {segment[k] : k \in Window(i)}
            BY <3>2
      <4>4. \A k, l \in Window(i)' : segment'[k] = segment'[l] => k = l
            BY <3>2, <4>1
      <4> QED BY <4>2, <4>3, <4>4
    <3>4. \A k \in DOMAIN segment' : k =< Upto(Len(runs')) => \E i \in DOMAIN runs' : k \in Window(i)'
      <4>1. Upto(Len(runs')) = Upto(n + 1) /\ DOMAIN runs' = 1..(n + 1) /\ DOMAIN segment' = DOMAIN segment
            BY <2>2, <1>5
      <4> QED BY <4>1, <2>5, <1>5
    <3> QED BY <3>1, <3>3, <3>4 DEF RunsInOrder
  <2>7. BufferIsNext'
    <3>1. Upto(n + 1) = Upto(n) + Chunk /\ Chunk \in Nat /\ 0 < Chunk
          BY Times
    <3>2. next = "scan" => to = Upto(n + 1)
          BY <1>3, <3>1
    <3>3. next = "sorted" => Len(segment) =< Upto(n + 1)
      <4> DEFINE base == Upto(n)
                 size == Len(entries)
                 all == Len(segment)
                 then == Upto(n + 1)
      <4>1. /\ base \in Nat /\ size \in Nat /\ all \in Nat /\ to = base + size /\ size =< Chunk
            /\ then = base + Chunk
            /\ next = "sorted" => to = all
            BY <1>2, <1>3, <3>1
      <4> HIDE DEF base, size, all, then
      <4>2. next = "sorted" => all =< then
            BY <3>1, <4>1
      <4> QED BY <4>2 DEF all, then
    <3>4. read' = to /\ Len(buffer') = 0 /\ DOMAIN buffer' = {} /\ Upto(n + 1) \in Nat
      <4>1. buffer' = << >> /\ read' = to
            BY <1>2, <1>8
      <4>2. n + 1 \in Nat
            OBVIOUS
      <4>3. Upto(n + 1) \in Nat
            BY <4>2, Times
      <4>4. Len(<< >>) = 0 /\ DOMAIN << >> = {}
            OBVIOUS
      <4> QED BY <4>1, <4>3, <4>4
    <3>5. ledger' = << >>
          BY <1>5 DEF LedgerSound, BufferIsNext
    <3>6. next = "scan" => read' = Upto(Len(runs')) + Len(buffer')
      <4>1. Upto(Len(runs')) = Upto(n + 1)
            BY <2>2
      <4>2. next = "scan" => to = Upto(n + 1) + 0
            BY <3>2, <3>4
      <4> QED BY <3>4, <4>1, <4>2
    <3> QED BY <1>5, <1>8, <2>2, <3>1, <3>3, <3>4, <3>5, <3>6 DEF BufferIsNext
  <2>8. MergeInOrder' /\ RefusalsAreExact'
        BY <1>8 DEF MergeInOrder, RefusalsAreExact
  <2> QED BY <2>3, <2>6, <2>7, <2>8 DEF LedgerSound
<1> QED BY <1>6, <1>7, <1>8 DEF Flush

LEMMA AddKeeps == ASSUME LedgerSound, Add PROVE LedgerSound'
<1> DEFINE entries == Append(buffer, segment[read + 1])
<1>0. MergeTypeOK /\ status = "scan" /\ read < Len(segment) /\ read' = read + 1
      /\ UNCHANGED <<input, pos, ledger>>
      BY DEF LedgerSound, Add
<1>1. PICK n \in Nat : n = Len(runs)
      BY <1>0 DEF MergeTypeOK
<1>2. /\ read = Upto(n) + Len(buffer) /\ Len(buffer) < Chunk
      /\ \A j \in DOMAIN buffer : buffer[j] = segment[Upto(n) + j]
      BY <1>0, <1>1 DEF LedgerSound, BufferIsNext
<1>3. /\ buffer \in Seq(Ids) /\ segment \in Seq(Ids) /\ Len(buffer) \in Nat /\ Len(segment) \in Nat
      /\ read \in Nat /\ read + 1 \in 1..Len(segment) /\ segment[read + 1] \in Ids
  <2>1. buffer \in Seq(Ids) /\ segment \in Seq(Ids) /\ read \in Nat /\ Len(segment) \in Nat
        BY <1>0 DEF MergeTypeOK
  <2>2. read + 1 \in 1..Len(segment)
        BY <1>0, <2>1
  <2> QED BY <2>1, <2>2
<1>4. /\ entries \in Seq(Ids) /\ Len(entries) = Len(buffer) + 1 /\ DOMAIN entries = 1..(Len(buffer) + 1)
      /\ \A j \in 1..Len(buffer) : entries[j] = buffer[j]
      /\ entries[Len(buffer) + 1] = segment[read + 1] /\ entries # << >>
      BY <1>3
<1>5. \A j \in DOMAIN entries : entries[j] = segment[Upto(n) + j]
  <2> SUFFICES ASSUME NEW j \in 1..(Len(buffer) + 1) PROVE entries[j] = segment[Upto(n) + j]
      BY <1>4
  <2>1. CASE j \in 1..Len(buffer)
        BY <2>1, <1>2, <1>3, <1>4
  <2>2. CASE j = Len(buffer) + 1
    <3>1. Upto(n) \in Nat
          BY Times
    <3>2. Upto(n) + (Len(buffer) + 1) = read + 1
          BY <3>1, <1>2, <1>3
    <3>3. entries[Len(buffer) + 1] = segment[Upto(n) + (Len(buffer) + 1)]
          BY <3>2, <1>4
    <3> HIDE DEF entries
    <3> QED BY <2>2, <3>3
  <2> QED BY <2>1, <2>2, <1>3
<1>6. IF Len(entries) >= Chunk
      THEN Flush(entries, "scan")
      ELSE buffer' = entries /\ UNCHANGED <<runs, status>>
      BY DEF Add
<1>7. PICK size \in Nat : size = Len(entries)
      BY <1>3, <1>4
<1> HIDE DEF entries
<1>8. PICK to \in Nat : to = read' /\ to = read + 1
      BY <1>0, <1>3
<1>9. size =< Chunk /\ to = Upto(n) + size /\ to =< Len(segment)
  <2>1. Chunk \in Nat /\ Upto(n) \in Nat
        BY Times
  <2>2. size = Len(buffer) + 1
        BY <1>4, <1>7
  <2> QED BY <2>1, <2>2, <1>0, <1>2, <1>3, <1>8
<1>10. CASE Len(entries) >= Chunk
  <2>1. Flush(entries, "scan") /\ size >= Chunk
        BY <1>6, <1>7, <1>10
  <2>2. Len(entries) = Chunk /\ Len(entries) =< Chunk
        BY <1>7, <1>9, <2>1, Times
  <2>3. read' = Upto(Len(runs)) + Len(entries) /\ read' =< Len(segment)
        BY <1>1, <1>7, <1>8, <1>9
  <2>4. \A j \in DOMAIN entries : entries[j] = segment[Upto(Len(runs)) + j]
        BY <1>1, <1>5
  <2> QED BY <1>0, <1>4, <2>1, <2>2, <2>3, <2>4, FlushKeeps
<1>11. CASE ~(Len(entries) >= Chunk)
  <2>1. buffer' = entries /\ UNCHANGED <<runs, status, segment, previous, pos, ledger>>
        BY <1>0, <1>6, <1>11 DEF input
  <2>2. MergeTypeOK'
        BY <1>0, <1>4, <1>8, <1>9, <2>1 DEF MergeTypeOK
  <2>3. \A i : Window(i)' = Window(i)
        BY <2>1 DEF Window
  <2>4. RunsInOrder'
    <3>1. /\ Increasing(previous) /\ Len(runs) =< Namespace
          /\ \A i \in DOMAIN runs :
              /\ Increasing(runs[i]) /\ Entries(runs[i]) = {segment[k] : k \in Window(i)}
              /\ \A k, l \in Window(i) : segment[k] = segment[l] => k = l
          /\ \A k \in DOMAIN segment : k =< Upto(Len(runs)) => \E i \in DOMAIN runs : k \in Window(i)
          BY <1>0 DEF LedgerSound, RunsInOrder
    <3> QED BY <2>1, <3>1 DEF RunsInOrder, Window
  <2>5. BufferIsNext'
    <3>1. size < Chunk /\ Len(buffer') = size /\ read' = Upto(Len(runs')) + Len(buffer')
      <4>1. ~(size >= Chunk) /\ Len(buffer') = size /\ Upto(Len(runs')) = Upto(n)
            BY <1>1, <1>7, <1>11, <2>1
      <4>2. size < Chunk
            BY <4>1, <1>7, Times
      <4> QED BY <4>1, <4>2, <1>8, <1>9
    <3>2. \A j \in DOMAIN buffer' : buffer'[j] = segment'[Upto(Len(runs')) + j]
          BY <1>1, <1>5, <2>1
    <3>3. ledger' = << >> /\ status' = "scan"
          BY <1>0, <2>1 DEF LedgerSound, BufferIsNext
    <3>4. Len(buffer') < Chunk
          BY <3>1
    <3> QED BY <3>1, <3>2, <3>3, <3>4 DEF BufferIsNext
  <2>6. MergeInOrder' /\ RefusalsAreExact'
        BY <1>0, <2>1 DEF MergeInOrder, RefusalsAreExact
  <2> QED BY <2>2, <2>4, <2>5, <2>6 DEF LedgerSound
<1> QED BY <1>10, <1>11

\* A step that leaves the segment and the runs alone keeps the runs in order.
LEMMA RunsKept ==
    ASSUME LedgerSound, status \in {"scan", "sorted", "merge", "done"},
           UNCHANGED <<segment, previous, runs>>
    PROVE  RunsInOrder'
<1>1. /\ Increasing(previous) /\ Len(runs) =< Namespace
      /\ \A i \in DOMAIN runs :
          /\ Increasing(runs[i]) /\ Entries(runs[i]) = {segment[k] : k \in Window(i)}
          /\ \A k, l \in Window(i) : segment[k] = segment[l] => k = l
      /\ \A k \in DOMAIN segment : k =< Upto(Len(runs)) => \E i \in DOMAIN runs : k \in Window(i)
      BY DEF LedgerSound, RunsInOrder
<1> QED BY <1>1 DEF RunsInOrder, Window

LEMMA FinishKeeps == ASSUME LedgerSound, Finish PROVE LedgerSound'
<1>0. /\ MergeTypeOK /\ status = "scan" /\ read = Len(segment) /\ read' = read
      /\ UNCHANGED <<input, pos, ledger>>
      BY DEF LedgerSound, Finish
<1>1. PICK n \in Nat : n = Len(runs)
      BY <1>0 DEF MergeTypeOK
<1>2. /\ read = Upto(n) + Len(buffer) /\ Len(buffer) < Chunk
      /\ \A j \in DOMAIN buffer : buffer[j] = segment[Upto(n) + j]
      /\ ledger = << >>
      BY <1>0, <1>1 DEF LedgerSound, BufferIsNext
<1>3. buffer \in Seq(Ids) /\ Len(buffer) \in Nat /\ Len(segment) \in Nat /\ read \in Nat
      BY <1>0 DEF MergeTypeOK
<1>4. CASE buffer = << >>
  <2>1. status' = "sorted" /\ UNCHANGED <<segment, previous, read, buffer, runs, pos, ledger>>
        BY <1>0, <1>4 DEF Finish, input
  <2>2. MergeTypeOK' /\ RunsInOrder'
        BY <1>0, <2>1, RunsKept DEF MergeTypeOK
  <2>3. Len(segment) =< Upto(n)
    <3>1. Len(buffer) = 0 /\ Upto(n) \in Nat
          BY <1>4, Times
    <3> QED BY <3>1, <1>0, <1>2
  <2>4. BufferIsNext'
        BY <1>1, <1>2, <2>1, <2>3 DEF BufferIsNext
  <2>5. MergeInOrder' /\ RefusalsAreExact'
        BY <2>1 DEF MergeInOrder, RefusalsAreExact
  <2> QED BY <2>2, <2>4, <2>5 DEF LedgerSound
<1>5. CASE buffer # << >>
  <2>1. Flush(buffer, "sorted")
        BY <1>5 DEF Finish
  <2>2. Len(buffer) =< Chunk
        BY <1>2, <1>3, Times
  <2>3. read' = Upto(Len(runs)) + Len(buffer) /\ read' = Len(segment)
        BY <1>0, <1>1, <1>2
  <2>4. read' =< Len(segment)
        BY <2>3, <1>3
  <2>5. \A j \in DOMAIN buffer : buffer[j] = segment[Upto(Len(runs)) + j]
        BY <1>1, <1>2
  <2> QED BY <1>0, <1>3, <1>5, <2>1, <2>2, <2>3, <2>4, <2>5, FlushKeeps
<1> QED BY <1>4, <1>5

LEMMA VerifyKeeps == ASSUME LedgerSound, Verify PROVE LedgerSound'
<1>1. /\ status = "verify" /\ status' = IF Increasing(previous) THEN "scan" ELSE "corrupt"
      /\ UNCHANGED <<segment, previous, read, buffer, runs, pos, ledger>>
      BY DEF Verify, input
<1>2. MergeTypeOK' /\ read = 0 /\ buffer = << >> /\ runs = << >> /\ ledger = << >>
      BY <1>1 DEF LedgerSound, MergeTypeOK, BufferIsNext
<1>3. Len(runs) = 0 /\ DOMAIN runs = {} /\ Len(buffer) = 0 /\ DOMAIN buffer = {}
      BY <1>2
<1>4. Upto(0) = 0 /\ 0 < Chunk /\ 0 =< Namespace
      BY Times
<1>5. RunsInOrder'
  <2>1. ASSUME NEW k \in DOMAIN segment PROVE ~(k =< Upto(Len(runs)))
        BY <1>1, <1>3, <1>4 DEF LedgerSound, MergeTypeOK
  <2>2. status' = "scan" => Increasing(previous)
        BY <1>1
  <2>3. Len(runs) =< Namespace
        BY <1>3, <1>4
  <2> QED BY <1>1, <1>3, <2>1, <2>2, <2>3 DEF RunsInOrder
<1>6. BufferIsNext'
  <2>1. read = Upto(Len(runs)) + Len(buffer) /\ Len(buffer) < Chunk
        BY <1>2, <1>3, <1>4
  <2> QED BY <1>1, <1>2, <1>3, <2>1 DEF BufferIsNext
<1>7. MergeInOrder' /\ RefusalsAreExact'
      BY <1>1 DEF MergeInOrder, RefusalsAreExact
<1> QED BY <1>2, <1>5, <1>6, <1>7 DEF LedgerSound

-------------------------------------------------------------------------------
(* The steps of the merge *)

LEMMA SourcesInOrder ==
    ASSUME LedgerSound, status \in {"sorted", "merge", "done"}
    PROVE  /\ Len(runs) \in Nat /\ DOMAIN runs = 1..Len(runs) /\ Sources \subseteq Nat /\ 0 \in Sources
           /\ \A i \in DOMAIN runs : i \in Sources /\ i # 0 /\ Source(i) = runs[i]
           /\ \A i \in Sources : i = 0 \/ i \in DOMAIN runs
           /\ \A i \in Sources : Source(i) \in Seq(Ids) /\ Increasing(Source(i))
           /\ Source(0) = previous
<1>1. runs \in Seq(Seq(Ids)) /\ previous \in Seq(Ids) /\ Increasing(previous)
      /\ \A i \in DOMAIN runs : Increasing(runs[i])
      BY DEF LedgerSound, MergeTypeOK, RunsInOrder
<1>2. Len(runs) \in Nat /\ DOMAIN runs = 1..Len(runs)
      BY <1>1
<1>3. Sources \subseteq Nat /\ 0 \in Sources /\ \A i \in Sources : i = 0 \/ i \in DOMAIN runs
      BY <1>2 DEF Sources
<1>4. \A i \in DOMAIN runs : i \in Sources /\ i # 0 /\ Source(i) = runs[i]
      BY <1>2 DEF Sources, Source
<1>5. Source(0) = previous
      BY DEF Source
<1>6. \A i \in DOMAIN runs : runs[i] \in Seq(Ids)
      BY <1>1
<1> QED BY <1>1, <1>2, <1>3, <1>4, <1>5, <1>6

LEMMA StartMergeKeeps == ASSUME LedgerSound, StartMerge PROVE LedgerSound'
<1>1. /\ status = "sorted" /\ status' = "merge" /\ pos' = [i \in 0..Len(runs) |-> 1]
      /\ UNCHANGED <<segment, previous, read, buffer, runs, ledger>>
      BY DEF StartMerge, input
<1>2. MergeTypeOK' /\ RunsInOrder'
      BY <1>1, RunsKept DEF LedgerSound, MergeTypeOK
<1>3. BufferIsNext' /\ ledger = << >>
      BY <1>1 DEF LedgerSound, BufferIsNext
<1>4. RefusalsAreExact'
      BY <1>1 DEF RefusalsAreExact
<1>5. MergeInOrder'
  <2>1. /\ Sources' = Sources /\ Sources \subseteq Nat
        /\ \A i \in Sources : pos'[i] = 1 /\ Source(i)' = Source(i) /\ Source(i) \in Seq(Ids)
        BY <1>1, SourcesInOrder DEF Sources, Source
  <2>2. pos' \in [Sources -> Nat \ {0}]
        BY <1>1 DEF Sources
  <2>3. \A i \in Sources : Consumed(i)' = {}
        BY <2>1 DEF Consumed
  <2>4. \A i \in Sources : pos'[i] =< Len(Source(i)') + 1
        BY <2>1
  <2>5. Increasing(ledger') /\ Entries(ledger') = {}
        BY <1>1, <1>3 DEF Increasing, Entries
  <2>6. UNION {{Source(i)'[p] : p \in Consumed(i)'} : i \in Sources} = {}
        BY <2>3
  <2> QED BY <1>1, <1>3, <2>1, <2>2, <2>3, <2>4, <2>5, <2>6 DEF MergeInOrder
<1> QED BY <1>2, <1>3, <1>4, <1>5 DEF LedgerSound

\* One identity in two sources is one met twice.
LEMMA TwoSources ==
    ASSUME LedgerSound, status \in {"sorted", "merge", "done"},
           NEW i \in Sources, NEW j \in Sources, i # j,
           NEW x, x \in Entries(Source(i)), x \in Entries(Source(j))
    PROVE  ~Injective(previous \o segment)
<1>0. MergeTypeOK /\ \A k \in DOMAIN runs : Entries(runs[k]) = {segment[l] : l \in Window(k)}
      BY DEF LedgerSound, RunsInOrder
<1>1. ASSUME NEW n \in Sources, n # 0, x \in Entries(Source(n))
      PROVE  \E l \in Window(n) : x = segment[l]
      BY <1>0, <1>1, SourcesInOrder
<1>2. ASSUME NEW n \in Sources, n # 0, x \in Entries(Source(n)), x \in Entries(Source(0))
      PROVE  ~Injective(previous \o segment)
  <2>1. PICK l \in DOMAIN segment : x = segment[l]
        BY <1>1, <1>2 DEF Window
  <2>2. PICK p \in DOMAIN previous : x = previous[p]
        BY <1>2, SourcesInOrder DEF Entries
  <2> QED BY <1>0, <2>1, <2>2, MetTwice
<1>3. CASE i = 0
      BY <1>2, <1>3
<1>4. CASE j = 0
      BY <1>2, <1>4
<1>5. CASE i # 0 /\ j # 0
  <2>1. PICK k \in Window(i) : x = segment[k]
        BY <1>1, <1>5
  <2>2. PICK l \in Window(j) : x = segment[l]
        BY <1>1, <1>5
  <2>3. k # l
    <3>1. i \in Nat \ {0} /\ j \in Nat \ {0} /\ segment \in Seq(Ids)
          BY <1>0, <1>5, SourcesInOrder DEF MergeTypeOK
    <3> QED BY <3>1, <2>1, <2>2, WindowsApart
  <2>4. k \in DOMAIN segment /\ l \in DOMAIN segment
        BY DEF Window
  <2> QED BY <1>0, <2>1, <2>2, <2>3, <2>4, MetTwice
<1> QED BY <1>3, <1>4, <1>5

LEMMA IdSequence ==
    ASSUME NEW s \in Seq(Ids)
    PROVE  /\ DOMAIN s = 1..Len(s) /\ Len(s) \in Nat
           /\ \A i \in DOMAIN s : s[i] \in Ids /\ s[i] \in Nat
           /\ s # << >> => Len(s) \in DOMAIN s
<1>1. DOMAIN s = 1..Len(s) /\ Len(s) \in Nat /\ \A i \in DOMAIN s : s[i] \in Ids
      OBVIOUS
<1>2. s # << >> => Len(s) # 0
      OBVIOUS
<1>3. s # << >> => Len(s) \in DOMAIN s
      BY <1>1, <1>2
<1> QED BY <1>1, <1>3, MergeConstantsOK

\* The last entry of an increasing sequence is its greatest.
LEMMA LastIsGreatest ==
    ASSUME NEW s \in Seq(Ids), Increasing(s), s # << >>
    PROVE  /\ s[Len(s)] \in Entries(s) /\ s[Len(s)] \in Nat
           /\ \A x \in Entries(s) : x \in Nat /\ x =< s[Len(s)]
<1>1. Len(s) \in DOMAIN s /\ DOMAIN s = 1..Len(s) /\ Len(s) \in Nat
      /\ \A i \in DOMAIN s : s[i] \in Nat
      BY IdSequence
<1>2. ASSUME NEW i \in DOMAIN s PROVE s[i] =< s[Len(s)]
  <2>1. CASE i = Len(s)
        BY <2>1, <1>1
  <2>2. CASE i < Len(s)
    <3>1. s[i] < s[Len(s)]
          BY <1>1, <2>2 DEF Increasing
    <3> QED BY <3>1, <1>1
  <2> QED BY <2>1, <2>2, <1>1
<1> QED BY <1>1, <1>2 DEF Entries

LEMMA WriteKeeps == ASSUME LedgerSound, Write PROVE LedgerSound'
<1>0. MergeTypeOK /\ status = "merge" /\ UNCHANGED <<segment, previous, read, buffer, runs>>
      BY DEF LedgerSound, Write, input
<1>1. /\ pos \in [Sources -> Nat \ {0}]
      /\ \A i \in Sources : pos[i] =< Len(Source(i)) + 1
      /\ Increasing(ledger)
      /\ Entries(ledger) = UNION {{Source(i)[p] : p \in Consumed(i)} : i \in Sources}
      /\ \A i, j \in Sources : \A p \in Consumed(i), q \in Consumed(j) :
          Source(i)[p] = Source(j)[q] => i = j
      /\ \A i \in Sources : Open(i) /\ ledger # << >> => ledger[Len(ledger)] =< Now(i)
      BY <1>0 DEF LedgerSound, MergeInOrder
<1>2. /\ Sources \subseteq Nat
      /\ \A i \in Sources : /\ Source(i) \in Seq(Ids) /\ Increasing(Source(i)) /\ Source(i)' = Source(i)
                            /\ DOMAIN Source(i) = 1..Len(Source(i)) /\ Len(Source(i)) \in Nat
                            /\ \A p \in DOMAIN Source(i) : Source(i)[p] \in Ids /\ Source(i)[p] \in Nat
      /\ Sources' = Sources
  <2>1. \A i \in Sources : Source(i) \in Seq(Ids) /\ Increasing(Source(i)) /\ Source(i)' = Source(i)
        BY <1>0, SourcesInOrder DEF Source
  <2>2. Sources' = Sources /\ Sources \subseteq Nat
        BY <1>0, SourcesInOrder DEF Sources
  <2>3. \A i \in Sources : /\ DOMAIN Source(i) = 1..Len(Source(i)) /\ Len(Source(i)) \in Nat
                            /\ \A p \in DOMAIN Source(i) : Source(i)[p] \in Ids /\ Source(i)[p] \in Nat
        BY <2>1, IdSequence
  <2> QED BY <2>1, <2>2, <2>3
<1>3. PICK i \in Sources :
        /\ Smallest(i)
        /\ IF ledger # << >> /\ Now(i) =< ledger[Len(ledger)]
           THEN status' = "corrupt" /\ UNCHANGED <<pos, ledger>>
           ELSE /\ ledger' = Append(ledger, Now(i))
                /\ pos' = [pos EXCEPT ![i] = @ + 1]
                /\ UNCHANGED status
  <2>1. Readers = Sources
        BY <1>1 DEF Readers
  <2> QED BY <2>1 DEF Write
<1>4. PICK at \in Nat \ {0} : at = pos[i] /\ at \in DOMAIN Source(i)
  <2>1. pos[i] \in Nat \ {0} /\ pos[i] =< Len(Source(i))
        BY <1>1, <1>3 DEF Smallest, Open
  <2>2. pos[i] \in DOMAIN Source(i)
        BY <2>1, <1>2
  <2> QED BY <2>1, <2>2
<1>5. PICK x \in Ids : x = Now(i) /\ x = Source(i)[at] /\ x \in Nat
      BY <1>2, <1>4 DEF Now
<1>6. BufferIsNext' /\ RunsInOrder'
  <2>1. status' \in {"merge", "corrupt"}
        BY <1>0, <1>3
  <2>2. Len(segment) =< Upto(Len(runs))
        BY <1>0 DEF LedgerSound, BufferIsNext
  <2> QED BY <1>0, <2>1, <2>2, RunsKept DEF BufferIsNext
<1>7. CASE ledger # << >> /\ x =< ledger[Len(ledger)]
  <2>1. status' = "corrupt" /\ UNCHANGED <<pos, ledger>>
        BY <1>3, <1>5, <1>7
  <2>2. MergeTypeOK'
        BY <1>0, <2>1 DEF MergeTypeOK
  <2>3. ledger[Len(ledger)] = x /\ x \in Entries(ledger)
    <3>1. ledger \in Seq(Ids)
          BY <1>0 DEF MergeTypeOK
    <3>2. ledger[Len(ledger)] \in Entries(ledger) /\ ledger[Len(ledger)] \in Nat
          BY <3>1, <1>1, <1>7, LastIsGreatest
    <3>3. ledger[Len(ledger)] =< x
          BY <1>1, <1>3, <1>5, <1>7 DEF Smallest
    <3> QED BY <3>2, <3>3, <1>5, <1>7
  <2>4. PICK j \in Sources : \E q \in Consumed(j) : x = Source(j)[q]
        BY <2>3, <1>1
  <2>10. PICK q \in Consumed(j) : x = Source(j)[q]
        BY <2>4
  <2>5. q \in DOMAIN Source(j)
    <3>1. pos[j] \in Nat /\ pos[j] =< Len(Source(j)) + 1 /\ q \in 1..(pos[j] - 1)
          BY <1>1, <2>10 DEF Consumed
    <3> QED BY <3>1, <1>2
  <2>6. j # i
    <3>1. ASSUME j = i PROVE FALSE
      <4>1. q < at /\ q \in DOMAIN Source(i)
            BY <3>1, <2>10, <2>5, <1>4 DEF Consumed
      <4>2. Source(i)[q] < Source(i)[at]
            BY <4>1, <1>2, <1>4 DEF Increasing
      <4> QED BY <4>2, <3>1, <2>10, <1>5
    <3> QED BY <3>1
  <2>7. x \in Entries(Source(i)) /\ x \in Entries(Source(j))
        BY <1>4, <1>5, <2>10, <2>5 DEF Entries
  <2>8. ~Injective(previous \o segment)
        BY <1>0, <2>6, <2>7, TwoSources
  <2>9. RefusalsAreExact' /\ MergeInOrder'
        BY <1>0, <2>1, <2>8 DEF RefusalsAreExact, MergeInOrder
  <2> QED BY <2>2, <2>9, <1>6 DEF LedgerSound
<1>8. CASE ~(ledger # << >> /\ x =< ledger[Len(ledger)])
  <2>1. ledger' = Append(ledger, x) /\ pos' = [pos EXCEPT ![i] = at + 1] /\ status' = "merge"
        BY <1>0, <1>3, <1>4, <1>5, <1>8
  <2>2. PICK np : np = pos'
        OBVIOUS
  <2>3. np \in [Sources -> Nat \ {0}] /\ np[i] = at + 1 /\ \A j \in Sources : j # i => np[j] = pos[j]
        BY <1>1, <1>4, <2>1, <2>2
  <2>4. /\ ledger \in Seq(Ids) /\ Len(ledger) \in Nat /\ DOMAIN ledger = 1..Len(ledger)
        /\ ledger' \in Seq(Ids) /\ Len(ledger') = Len(ledger) + 1 /\ DOMAIN ledger' = 1..(Len(ledger) + 1)
        /\ ledger'[Len(ledger) + 1] = x /\ \A k \in 1..Len(ledger) : ledger'[k] = ledger[k]
        BY <1>0, <2>1 DEF MergeTypeOK
  <2>5. MergeTypeOK'
        BY <1>0, <2>4 DEF MergeTypeOK
  <2>6. \A y \in Entries(ledger) : y \in Nat /\ y < x
    <3>1. CASE ledger = << >>
          BY <3>1 DEF Entries
    <3>2. CASE ledger # << >>
      <4>1. /\ ledger[Len(ledger)] \in Nat /\ ~(x =< ledger[Len(ledger)])
            /\ \A y \in Entries(ledger) : y \in Nat /\ y =< ledger[Len(ledger)]
            BY <3>2, <1>1, <1>8, <2>4, LastIsGreatest
      <4> QED BY <4>1, <1>5
    <3> QED BY <3>1, <3>2
  <2>7. Increasing(ledger')
    <3> SUFFICES ASSUME NEW k \in 1..(Len(ledger) + 1), NEW l \in 1..(Len(ledger) + 1), k < l
                 PROVE  ledger'[k] < ledger'[l]
        BY <2>4 DEF Increasing
    <3>1. k \in 1..Len(ledger) /\ ledger'[k] = ledger[k]
          BY <2>4
    <3>2. CASE l = Len(ledger) + 1
      <4>1. ledger[k] \in Entries(ledger)
            BY <3>1, <2>4 DEF Entries
      <4> QED BY <4>1, <3>1, <3>2, <2>4, <2>6
    <3>3. CASE l \in 1..Len(ledger)
      <4>1. ledger[k] < ledger[l] /\ ledger'[l] = ledger[l]
            BY <3>1, <3>3, <1>1, <2>4 DEF Increasing
      <4> QED BY <4>1, <3>1
    <3> QED BY <3>2, <3>3, <2>4
  <2> DEFINE C(j) == 1..(np[j] - 1)
  <2>8. C(i) = Consumed(i) \cup {at} /\ \A j \in Sources : j # i => C(j) = Consumed(j)
    <3>1. 1..((at + 1) - 1) = 1..(at - 1) \cup {at}
          BY <1>4
    <3> QED BY <3>1, <2>3, <1>4 DEF Consumed
  <2> HIDE DEF C
  <2>9. Entries(ledger') = UNION {{Source(j)[p] : p \in C(j)} : j \in Sources}
    <3>1. \A y : y \in Entries(ledger') <=> y = x \/ y \in Entries(ledger)
      <4>1. \A k \in 1..(Len(ledger) + 1) : k = Len(ledger) + 1 \/ k \in 1..Len(ledger)
            BY <2>4
      <4>2. Len(ledger) + 1 \in 1..(Len(ledger) + 1) /\ \A k \in 1..Len(ledger) : k \in 1..(Len(ledger) + 1)
            BY <2>4
      <4> QED BY <4>1, <4>2, <2>4 DEF Entries
    <3>2. \A y : y \in Entries(ledger) <=> \E j \in Sources : \E p \in Consumed(j) : y = Source(j)[p]
          BY <1>1
    <3>3. \A y : (\E j \in Sources : \E p \in C(j) : y = Source(j)[p])
                 <=> y = x \/ \E j \in Sources : \E p \in Consumed(j) : y = Source(j)[p]
          BY <1>5, <2>8
    <3>4. \A y : y \in UNION {{Source(j)[p] : p \in C(j)} : j \in Sources}
                 <=> \E j \in Sources : \E p \in C(j) : y = Source(j)[p]
          OBVIOUS
    <3>5. \A y : y \in Entries(ledger') <=> y \in UNION {{Source(j)[p] : p \in C(j)} : j \in Sources}
          BY <3>1, <3>2, <3>3, <3>4
    <3> QED BY <3>5
  <2>10. ASSUME NEW j \in Sources, NEW k \in Sources, NEW p \in C(j), NEW q \in C(k), Source(j)[p] = Source(k)[q]
         PROVE  j = k
    <3>1. \A m \in Sources : \A r \in Consumed(m) : Source(m)[r] \in Entries(ledger)
          BY <1>1
    <3>2. CASE p \in Consumed(j) /\ q \in Consumed(k)
          BY <3>2, <2>10, <1>1
    <3>3. CASE ~(p \in Consumed(j)) /\ q \in Consumed(k)
      <4>1. j = i /\ p = at
            BY <3>3, <2>8
      <4>2. x \in Entries(ledger)
            BY <4>1, <3>1, <3>3, <2>10, <1>5
      <4> QED BY <4>2, <2>6
    <3>4. CASE p \in Consumed(j) /\ ~(q \in Consumed(k))
      <4>1. k = i /\ q = at
            BY <3>4, <2>8
      <4>2. x \in Entries(ledger)
            BY <4>1, <3>1, <3>4, <2>10, <1>5
      <4> QED BY <4>2, <2>6
    <3>5. CASE ~(p \in Consumed(j)) /\ ~(q \in Consumed(k))
          BY <3>5, <2>8
    <3> QED BY <3>2, <3>3, <3>4, <3>5
  <2>11. \A j \in Sources : np[j] =< Len(Source(j)) + 1
    <3>1. at + 1 =< Len(Source(i)) + 1
          BY <1>2, <1>4
    <3> QED BY <3>1, <1>1, <2>3
  <2>12. ASSUME NEW j \in Sources, np[j] =< Len(Source(j)) PROVE x =< Source(j)[np[j]]
    <3>1. CASE j = i
      <4>1. at + 1 \in DOMAIN Source(i) /\ at < at + 1
            BY <3>1, <2>3, <2>12, <1>2, <1>4
      <4>2. Source(i)[at] < Source(i)[at + 1]
            BY <4>1, <1>2, <1>4 DEF Increasing
      <4>3. Source(i)[at + 1] \in Nat
            BY <4>1, <1>2
      <4> QED BY <4>2, <4>3, <3>1, <2>3, <1>5
    <3>2. CASE j # i
      <4>1. np[j] = pos[j] /\ Open(j)
            BY <3>2, <2>3, <2>12 DEF Open
      <4>2. x < Source(j)[np[j]] \/ x = Source(j)[np[j]]
        <5>1. j \in Readers
              BY <1>1 DEF Readers
        <5>2. x < Now(j) \/ x = Now(j)
              BY <5>1, <4>1, <1>3, <1>5 DEF Smallest
        <5> QED BY <5>2, <4>1 DEF Now
      <4>3. Source(j)[np[j]] \in Nat
        <5>1. np[j] \in DOMAIN Source(j)
              BY <2>3, <2>12, <1>2
        <5> QED BY <5>1, <1>2
      <4> QED BY <4>2, <4>3, <1>5
    <3> QED BY <3>1, <3>2
  <2>13. MergeInOrder'
    <3>1. \A j \in Sources : /\ Consumed(j)' = C(j) /\ Source(j)' = Source(j)
                             /\ (Open(j)' <=> np[j] =< Len(Source(j))) /\ Now(j)' = Source(j)[np[j]]
          BY <1>2, <2>2 DEF Consumed, Open, Now, C
    <3>2. Sources' = Sources /\ pos' \in [Sources -> Nat \ {0}] /\ Increasing(ledger')
          BY <1>2, <2>2, <2>3, <2>7
    <3>3. \A j \in Sources : pos'[j] =< Len(Source(j)') + 1
          BY <2>2, <2>11, <3>1
    <3>4. Entries(ledger') = UNION {{Source(j)'[p] : p \in Consumed(j)'} : j \in Sources}
      <4> DEFINE New(j) == {Source(j)'[p] : p \in Consumed(j)'}
                 Old(j) == {Source(j)[p] : p \in C(j)}
      <4>1. \A j \in Sources : New(j) = Old(j)
            BY <3>1
      <4>2. Entries(ledger') = UNION {Old(j) : j \in Sources}
            BY <2>9
      <4>3. UNION {New(j) : j \in Sources} = UNION {Old(j) : j \in Sources}
        <5> HIDE DEF New, Old
        <5> QED BY <4>1
      <4> QED BY <4>2, <4>3
    <3>5. \A j, k \in Sources : \A p \in Consumed(j)', q \in Consumed(k)' :
            Source(j)'[p] = Source(k)'[q] => j = k
          BY <3>1, <2>10
    <3>6. \A j \in Sources : Open(j)' /\ ledger' # << >> => ledger'[Len(ledger')] =< Now(j)'
      <4>1. ledger'[Len(ledger')] = x
            BY <2>4
      <4> QED BY <4>1, <3>1, <2>12
    <3> QED BY <2>1, <3>2, <3>3, <3>4, <3>5, <3>6 DEF MergeInOrder
  <2>14. RefusalsAreExact'
        BY <2>1 DEF RefusalsAreExact
  <2> QED BY <2>5, <2>13, <2>14, <1>6 DEF LedgerSound
<1> QED BY <1>7, <1>8

\* When no source has an entry left, everything was consumed.
LEMMA AllConsumed ==
    ASSUME LedgerSound, status \in {"merge", "done"}, \A i \in Readers : ~Open(i)
    PROVE  /\ \A i \in Sources : Consumed(i) = DOMAIN Source(i)
           /\ \A k \in DOMAIN segment : \E i \in Sources \ {0} : k \in Window(i)
<1>0. /\ MergeTypeOK /\ pos \in [Sources -> Nat \ {0}]
      /\ \A i \in Sources : pos[i] =< Len(Source(i)) + 1
      BY DEF LedgerSound, MergeInOrder
<1>1. ASSUME NEW i \in Sources PROVE Consumed(i) = DOMAIN Source(i)
  <2>1. Source(i) \in Seq(Ids)
        BY <1>1, SourcesInOrder
  <2>2. DOMAIN Source(i) = 1..Len(Source(i)) /\ Len(Source(i)) \in Nat
        BY <2>1, IdSequence
  <2>3. pos[i] \in Nat /\ pos[i] =< Len(Source(i)) + 1 /\ ~(pos[i] =< Len(Source(i)))
        BY <1>0, <1>1 DEF Readers, Open
  <2>4. pos[i] - 1 = Len(Source(i))
        BY <2>2, <2>3
  <2> QED BY <2>2, <2>4 DEF Consumed
<1>2. ASSUME NEW k \in DOMAIN segment PROVE \E i \in Sources \ {0} : k \in Window(i)
  <2>1. Len(segment) =< Upto(Len(runs))
        BY DEF LedgerSound, BufferIsNext
  <2>2. Len(runs) \in Nat
        BY SourcesInOrder
  <2>3. k =< Upto(Len(runs))
    <3>1. Upto(Len(runs)) \in Nat
          BY <2>2, Times
    <3>2. segment \in Seq(Ids)
          BY <1>0 DEF MergeTypeOK
    <3>3. k \in Nat /\ Len(segment) \in Nat /\ k =< Len(segment)
          BY <3>2
    <3> QED BY <3>1, <3>3, <2>1
  <2>4. PICK i \in DOMAIN runs : k \in Window(i)
        BY <2>3 DEF LedgerSound, RunsInOrder
  <2>5. i \in Sources \ {0}
        BY SourcesInOrder
  <2> QED BY <2>4, <2>5
<1> QED BY <1>1, <1>2

LEMMA RunOfWindow ==
    ASSUME LedgerSound, status \in {"merge", "done"}, NEW i \in Sources \ {0}
    PROVE  /\ Entries(Source(i)) = {segment[k] : k \in Window(i)}
           /\ \A k, l \in Window(i) : segment[k] = segment[l] => k = l
<1>1. i \in DOMAIN runs /\ Source(i) = runs[i]
      BY SourcesInOrder
<1> QED BY <1>1 DEF LedgerSound, RunsInOrder

\* Nothing is consumed or written.
LEMMA MergeKept ==
    ASSUME LedgerSound, status \in {"merge", "done"}, UNCHANGED <<previous, runs, pos, ledger>>,
           status' = "done" => \A i \in Sources : ~Open(i)
    PROVE  MergeInOrder'
<1>1. /\ pos \in [Sources -> Nat \ {0}]
      /\ \A i \in Sources : pos[i] =< Len(Source(i)) + 1
      /\ Increasing(ledger)
      /\ Entries(ledger) = UNION {{Source(i)[p] : p \in Consumed(i)} : i \in Sources}
      /\ \A i, j \in Sources : \A p \in Consumed(i), q \in Consumed(j) :
          Source(i)[p] = Source(j)[q] => i = j
      /\ \A i \in Sources : Open(i) /\ ledger # << >> => ledger[Len(ledger)] =< Now(i)
      BY DEF LedgerSound, MergeInOrder
<1>2. /\ Sources' = Sources
      /\ \A i \in Sources : /\ Source(i)' = Source(i) /\ Consumed(i)' = Consumed(i)
                            /\ (Open(i)' <=> Open(i)) /\ Now(i)' = Now(i)
      BY DEF Sources, Source, Consumed, Open, Now
<1> DEFINE New(j) == {Source(j)'[p] : p \in Consumed(j)'}
           Old(j) == {Source(j)[p] : p \in Consumed(j)}
<1>3. \A j \in Sources : New(j) = Old(j)
      BY <1>2
<1>4. Entries(ledger') = UNION {Old(j) : j \in Sources}
      BY <1>1
<1>5. UNION {New(j) : j \in Sources} = UNION {Old(j) : j \in Sources}
  <2> HIDE DEF New, Old
  <2> QED BY <1>3
<1>6. Entries(ledger') = UNION {{Source(j)'[p] : p \in Consumed(j)'} : j \in Sources}
      BY <1>4, <1>5
<1>7. \A i, j \in Sources : \A p \in Consumed(i)', q \in Consumed(j)' :
        Source(i)'[p] = Source(j)'[q] => i = j
      BY <1>1, <1>2
<1> HIDE DEF New, Old
<1>8. pos' \in [Sources -> Nat \ {0}] /\ Increasing(ledger') /\ \A i \in Sources : pos'[i] =< Len(Source(i)') + 1
      BY <1>1, <1>2
<1>9. \A i \in Sources : Open(i)' /\ ledger' # << >> => ledger'[Len(ledger')] =< Now(i)'
      BY <1>1, <1>2
<1>10. status' = "done" => \A i \in Sources : ~Open(i)'
      BY <1>2
<1> QED BY <1>2, <1>6, <1>7, <1>8, <1>9, <1>10 DEF MergeInOrder

LEMMA CloseKeeps == ASSUME LedgerSound, Close PROVE LedgerSound'
<1>0. /\ MergeTypeOK /\ status = "merge" /\ status' = "done" /\ \A i \in Readers : ~Open(i)
      /\ UNCHANGED <<segment, previous, read, buffer, runs, pos, ledger>>
      BY DEF LedgerSound, Close, input
<1>1. /\ pos \in [Sources -> Nat \ {0}]
      /\ \A i \in Sources : pos[i] =< Len(Source(i)) + 1
      /\ Increasing(ledger)
      /\ Entries(ledger) = UNION {{Source(i)[p] : p \in Consumed(i)} : i \in Sources}
      /\ \A i, j \in Sources : \A p \in Consumed(i), q \in Consumed(j) :
          Source(i)[p] = Source(j)[q] => i = j
      /\ \A i \in Sources : Open(i) /\ ledger # << >> => ledger[Len(ledger)] =< Now(i)
      BY <1>0 DEF LedgerSound, MergeInOrder
<1>2. MergeTypeOK' /\ RunsInOrder' /\ BufferIsNext'
      BY <1>0, RunsKept DEF LedgerSound, MergeTypeOK, BufferIsNext
<1>3. MergeInOrder'
  <2>1. \A i \in Sources : ~Open(i)
        BY <1>0, <1>1 DEF Readers
  <2> QED BY <1>0, <2>1, MergeKept
<1>4. \A i \in Sources : \A p \in Consumed(i) : Source(i)[p] \in Entries(Source(i))
      BY <1>0, AllConsumed DEF Entries
<1>5. ASSUME NEW i \in Sources, NEW j \in Sources, NEW x, x \in Entries(Source(i)), x \in Entries(Source(j))
      PROVE  i = j
  <2>1. PICK p \in Consumed(i) : x = Source(i)[p]
        BY <1>0, <1>5, AllConsumed DEF Entries
  <2>2. PICK q \in Consumed(j) : x = Source(j)[q]
        BY <1>0, <1>5, AllConsumed DEF Entries
  <2> QED BY <1>1, <2>1, <2>2
<1>6. Injective(previous \o segment)
  <2>1. ASSUME NEW k \in DOMAIN segment, NEW l \in DOMAIN segment, segment[k] = segment[l] PROVE k = l
    <3>1. PICK i \in Sources \ {0} : k \in Window(i)
          BY <1>0, AllConsumed
    <3>2. PICK j \in Sources \ {0} : l \in Window(j)
          BY <1>0, AllConsumed
    <3>3. segment[k] \in Entries(Source(i)) /\ segment[l] \in Entries(Source(j))
          BY <1>0, <3>1, <3>2, RunOfWindow
    <3>4. i = j
          BY <3>3, <2>1, <1>5
    <3> QED BY <1>0, <3>1, <3>2, <3>4, <2>1, RunOfWindow
  <2>2. ASSUME NEW p \in DOMAIN previous, NEW k \in DOMAIN segment, previous[p] = segment[k] PROVE FALSE
    <3>1. PICK i \in Sources \ {0} : k \in Window(i)
          BY <1>0, AllConsumed
    <3>2. segment[k] \in Entries(Source(i))
          BY <1>0, <3>1, RunOfWindow
    <3>3. 0 \in Sources /\ previous[p] \in Entries(Source(0))
          BY <1>0, SourcesInOrder DEF Entries
    <3> QED BY <3>2, <3>3, <2>2, <1>5
  <2>3. ASSUME NEW p \in DOMAIN previous, NEW q \in DOMAIN previous, previous[p] = previous[q] PROVE p = q
    <3>1. previous \in Seq(Ids) /\ Increasing(previous)
          BY <1>0, SourcesInOrder
    <3>2. p \in Nat /\ q \in Nat /\ previous[p] \in Nat /\ previous[q] \in Nat
          BY <3>1, IdSequence
    <3>3. ~(p < q) /\ ~(q < p)
          BY <3>1, <3>2, <2>3 DEF Increasing
    <3> QED BY <3>2, <3>3
  <2> DEFINE all == previous \o segment
             n == Len(previous)
  <2>4. /\ \A p \in DOMAIN previous : p \in DOMAIN all /\ all[p] = previous[p]
        /\ \A l \in DOMAIN segment : n + l \in DOMAIN all /\ all[n + l] = segment[l]
        /\ \A q \in DOMAIN all : q \in DOMAIN previous \/ \E k \in DOMAIN segment : q = n + k
        BY <1>0, InAll
  <2> HIDE DEF all, n
  <2>5. ASSUME NEW a \in DOMAIN all, NEW b \in DOMAIN all, all[a] = all[b] PROVE a = b
    <3>1. CASE a \in DOMAIN previous /\ b \in DOMAIN previous
          BY <3>1, <2>3, <2>4, <2>5
    <3>2. CASE a \notin DOMAIN previous /\ b \notin DOMAIN previous
      <4>1. PICK k \in DOMAIN segment : a = n + k
            BY <3>2, <2>4
      <4>2. PICK l \in DOMAIN segment : b = n + l
            BY <3>2, <2>4
      <4>3. segment[k] = segment[l]
            BY <4>1, <4>2, <2>4, <2>5
      <4> QED BY <4>1, <4>2, <4>3, <2>1
    <3>3. CASE a \in DOMAIN previous /\ b \notin DOMAIN previous
      <4>1. PICK l \in DOMAIN segment : b = n + l
            BY <3>3, <2>4
      <4> QED BY <4>1, <3>3, <2>2, <2>4, <2>5
    <3>4. CASE a \notin DOMAIN previous /\ b \in DOMAIN previous
      <4>1. PICK k \in DOMAIN segment : a = n + k
            BY <3>4, <2>4
      <4> QED BY <4>1, <3>4, <2>2, <2>4, <2>5
    <3> QED BY <3>1, <3>2, <3>3, <3>4
  <2> QED BY <2>5 DEF Injective, all
<1>7. Len(segment) =< Namespace * Chunk
  <2>1. Len(segment) =< Upto(Len(runs)) /\ Len(runs) =< Namespace
        BY <1>0 DEF LedgerSound, BufferIsNext, RunsInOrder
  <2>2. Len(runs) \in Nat /\ Namespace \in Nat
        BY <1>0, SourcesInOrder, Times
  <2>3. Upto(Len(runs)) =< Upto(Namespace)
        BY <2>1, <2>2, Times
  <2>4. Upto(Len(runs)) \in Nat /\ Upto(Namespace) \in Nat /\ Len(segment) \in Nat
        BY <1>0, <2>2, Times, IdSequence DEF MergeTypeOK
  <2>5. Len(segment) =< Upto(Namespace)
        BY <2>1, <2>3, <2>4
  <2> QED BY <2>5, Times
<1>8. RefusalsAreExact'
      BY <1>0, <1>6, <1>7 DEF RefusalsAreExact
<1> QED BY <1>2, <1>3, <1>8 DEF LedgerSound

-------------------------------------------------------------------------------
LEMMA MergeInitKeeps == MergeInit => LedgerSound
<1> SUFFICES ASSUME MergeInit PROVE LedgerSound
    OBVIOUS
<1>1. /\ read = 0 /\ buffer = << >> /\ runs = << >> /\ ledger = << >> /\ status = "verify"
      /\ segment \in SeqsUpTo(MaxSegment) /\ previous \in SeqsUpTo(2)
      BY DEF MergeInit
<1>2. \A n \in Nat : SeqsUpTo(n) \subseteq Seq(Ids)
  <2>1. \A k \in Nat : [1..k -> Ids] \subseteq Seq(Ids)
        OBVIOUS
  <2> QED BY <2>1 DEF SeqsUpTo
<1>3. segment \in Seq(Ids) /\ previous \in Seq(Ids)
  <2>1. MaxSegment \in Nat /\ 2 \in Nat
        BY MergeConstantsOK
  <2> QED BY <1>1, <1>2, <2>1
<1>4. MergeTypeOK
      BY <1>1, <1>3 DEF MergeTypeOK
<1>5. RunsInOrder /\ BufferIsNext /\ MergeInOrder /\ RefusalsAreExact
      BY <1>1 DEF RunsInOrder, BufferIsNext, MergeInOrder, RefusalsAreExact
<1> QED BY <1>4, <1>5 DEF LedgerSound

LEMMA MergeStep == ASSUME LedgerSound, MergeNext PROVE LedgerSound'
BY VerifyKeeps, AddKeeps, FinishKeeps, StartMergeKeeps, WriteKeeps, CloseKeeps DEF MergeNext

\* A finished ledger holds the entries of the predecessor and of the segment.
LEMMA LedgerHolds == LedgerSound => LedgerIsExact
<1> SUFFICES ASSUME LedgerSound, status = "done" PROVE LedgerIsExact
    BY DEF LedgerIsExact
<1>1. /\ ledger \in Seq(Ids) /\ Increasing(ledger)
      /\ Entries(ledger) = UNION {{Source(i)[p] : p \in Consumed(i)} : i \in Sources}
      /\ \A i \in Readers : ~Open(i)
      BY DEF LedgerSound, MergeTypeOK, MergeInOrder, Readers
<1>2. \A x : x \in Entries(ledger) <=> \E i \in Sources : x \in Entries(Source(i))
  <2>1. \A i \in Sources : {Source(i)[p] : p \in Consumed(i)} = Entries(Source(i))
        BY <1>1, AllConsumed DEF Entries
  <2> QED BY <1>1, <2>1
<1>3. ASSUME NEW x, x \in Entries(ledger) PROVE x \in Entries(previous) \cup Entries(segment)
  <2>1. PICK i \in Sources : x \in Entries(Source(i))
        BY <1>2, <1>3
  <2>2. CASE i = 0
        BY <2>1, <2>2, SourcesInOrder
  <2>3. CASE i # 0
    <3>1. PICK k \in Window(i) : x = segment[k]
          BY <2>1, <2>3, RunOfWindow
    <3> QED BY <3>1 DEF Window, Entries
  <2> QED BY <2>2, <2>3
<1>4. ASSUME NEW x, x \in Entries(previous) PROVE x \in Entries(ledger)
      BY <1>2, <1>4, SourcesInOrder
<1>5. ASSUME NEW x, x \in Entries(segment) PROVE x \in Entries(ledger)
  <2>1. PICK k \in DOMAIN segment : x = segment[k]
        BY <1>5 DEF Entries
  <2>2. PICK i \in Sources \ {0} : k \in Window(i)
        BY <1>1, AllConsumed
  <2>3. x \in Entries(Source(i))
        BY <2>1, <2>2, RunOfWindow
  <2> QED BY <2>3, <1>2
<1>6. \A id \in Ids : Lookup(ledger, id) <=> id \in Entries(ledger)
      BY <1>1, LookupIs
<1>7. \A id \in Ids : id \in Entries(ledger) <=> id \in Entries(previous) \cup Entries(segment)
      BY <1>3, <1>4, <1>5
<1> QED BY <1>1, <1>6, <1>7 DEF LedgerIsExact

-------------------------------------------------------------------------------
(* What holds of a collection between two steps *)

Sorter ==
    [bank : Banks, runs : [Banks -> Seq(SUBSET Digests)], buffer : SUBSET Digests,
     buffered : Nat, merging : BOOLEAN]

Attempt ==
    [phase : {"sweep", "mark", "inventory", "cover", "validate", "reclaim", "cleanup"},
     marked : Nat, unread : SUBSET Digests, sorters : [Streams -> Sorter],
     marks : SUBSET Digests, inventory : SUBSET Digests, candidates : SUBSET Digests,
     validated : SUBSET Digests, unlinked : SUBSET Digests, batch : Nat]

GcTypeOK ==
    /\ references \in Seq(Digests \cup {Inline}) /\ current \in BOOLEAN
    /\ objects \subseteq Digests /\ unsynced \subseteq Digests /\ reclaimed \subseteq Digests
    /\ scratch \subseteq GcScratchNames
    /\ gc \in Attempt \cup {GcIdle}

\* The digests a sorter has been given.
Held(sorter) == sorter.buffer \cup UNION {Active(sorter)[i] : i \in DOMAIN Active(sorter)}

\* All runs are in the active bank, between merges; nothing is lost.
SorterInOrder(sorter) ==
    /\ sorter.runs[Other(sorter.bank)] = << >>
    /\ Len(Active(sorter)) =< Slots
    /\ sorter.buffered = 0 => sorter.buffer = {}
    /\ sorter.merging => Active(sorter) # << >>

\* What the attempt has gathered, phase by phase.
Gathered ==
    /\ Phase("sweep") => gc = Started
    /\ Phase("mark") =>
        /\ gc.marked =< Len(references)
        /\ Held(gc.sorters["mark"]) = {references[i] : i \in 1..gc.marked} \ {Inline}
        /\ gc.sorters["inventory"] = EmptySorter
        /\ gc.candidates = {} /\ gc.unlinked = {} /\ gc.batch = 0
    /\ Phase("inventory") =>
        /\ gc.marks = Referenced
        /\ Held(gc.sorters["inventory"]) \cup gc.unread = objects
        /\ ~gc.sorters["mark"].merging
        /\ gc.candidates = {} /\ gc.unlinked = {} /\ gc.batch = 0
    /\ Phase("cover") =>
        /\ gc.marks \subseteq Referenced /\ gc.candidates \cap Referenced = {}
        /\ (Referenced \ gc.marks) \cap gc.inventory = {}
        /\ objects = gc.inventory \cup gc.candidates \cup (Referenced \ gc.marks)
        /\ \A stream \in Streams : ~gc.sorters[stream].merging
        /\ gc.unlinked = {} /\ gc.batch = 0
    /\ Phase("validate") =>
        /\ Referenced \subseteq objects /\ gc.candidates = objects \ Referenced
        /\ gc.unlinked = {} /\ gc.batch = 0

\* What is left of objects/ while it is reclaimed.
Reclaiming ==
    /\ Phase("reclaim") =>
        /\ objects = Referenced \cup gc.validated /\ gc.validated \cap Referenced = {}
        /\ gc.unlinked \cap objects = {}
        /\ gc.batch = 0 => gc.unlinked \cap unsynced = {}
    /\ Phase("cleanup") => objects = Referenced /\ gc.unlinked \cap (objects \cup unsynced) = {}

\* The files of an attempt are those its sorters know of, the output of a merge
\* and the candidates.
ScratchIsOwn ==
    /\ Phase("mark") \/ Phase("inventory") \/ Phase("cover") =>
        \A file \in scratch :
            \/ file \in Sealed(gc.sorters)
            \/ \E stream \in Streams :
                gc.sorters[stream].merging /\ file = ScratchRun(stream, Other(gc.sorters[stream].bank), 0)
            \/ file = Candidates /\ gc.candidates # {}
    /\ Phase("validate") => scratch \subseteq {Candidates}

GcSound ==
    /\ GcTypeOK
    /\ ~Phase("idle") => outcome = "none" /\ \A stream \in Streams : SorterInOrder(gc.sorters[stream])
    /\ Gathered /\ Reclaiming /\ ScratchIsOwn
    /\ SuccessIsExact /\ ScratchNeverInTheWay /\ ReclaimedStaysGone

-------------------------------------------------------------------------------
(* Numbers and names *)

LEMMA MinIsLeast ==
    ASSUME NEW T \in SUBSET Digests, T # {}
    PROVE  Min(T) \in T /\ \A m \in T : Min(T) =< m
<1>1. T \subseteq Nat
      BY ReclamationConstantsOK
<1> QED BY <1>1, Least DEF Min

LEMMA RunNames ==
    /\ \A s, b, i, t, c, j :
        ScratchRun(s, b, i) = ScratchRun(t, c, j) => s = t /\ b = c /\ i = j
    /\ \A s, b, i : ScratchRun(s, b, i) # Candidates /\ ScratchRun(s, b, i) # Validated
    /\ Candidates # Validated
    /\ \A s \in Streams, b \in Banks, i \in Nat : i < Slots => ScratchRun(s, b, i) \in GcScratchNames
    /\ Candidates \in GcScratchNames /\ Validated \in GcScratchNames
<1>1. Slots \in Nat
      BY ReclamationConstantsOK
<1>2. \A s \in Streams, b \in Banks, i \in Nat : i < Slots => ScratchRun(s, b, i) \in GcScratchNames
  <2> SUFFICES ASSUME NEW s \in Streams, NEW b \in Banks, NEW i \in Nat, i < Slots
               PROVE  ScratchRun(s, b, i) \in GcScratchNames
      OBVIOUS
  <2>1. i \in 0..(Slots - 1)
        BY <1>1
  <2> QED BY <2>1 DEF GcScratchNames
<1>3. \A s, b, i, t, c, j :
        ScratchRun(s, b, i) = ScratchRun(t, c, j) => s = t /\ b = c /\ i = j
      BY DEF ScratchRun
<1>4. \A s, b, i : ScratchRun(s, b, i) # Candidates /\ ScratchRun(s, b, i) # Validated
      BY DEF ScratchRun, Candidates, Validated
<1>5. Candidates # Validated
      BY DEF Candidates, Validated
<1>6. Candidates \in GcScratchNames /\ Validated \in GcScratchNames
      BY DEF GcScratchNames
<1> QED BY <1>2, <1>3, <1>4, <1>5, <1>6

LEMMA OtherBank == \A bank \in Banks : Other(bank) \in Banks /\ Other(bank) # bank /\ Other(Other(bank)) = bank
  BY DEF Banks, Other

-------------------------------------------------------------------------------
(* What a sorter does with what it holds *)

LEMMA EmptyHolds ==
    /\ EmptySorter \in Sorter /\ SorterInOrder(EmptySorter) /\ Held(EmptySorter) = {}
    /\ ~EmptySorter.merging /\ EmptySorter.buffered = 0
<1>1. EmptySorter \in Sorter
      BY DEF EmptySorter, Sorter, Banks
<1>2. Active(EmptySorter) = << >> /\ EmptySorter.runs[Other(EmptySorter.bank)] = << >>
      BY DEF EmptySorter, Active, Other, Banks
<1>3. EmptySorter.buffer = {} /\ ~EmptySorter.merging /\ EmptySorter.buffered = 0
      BY DEF EmptySorter
<1> QED BY <1>1, <1>2, <1>3, ReclamationConstantsOK DEF SorterInOrder, Held

LEMMA BufferedHolds ==
    ASSUME NEW sorter \in Sorter, SorterInOrder(sorter), NEW digest \in Digests
    PROVE  /\ Buffered(sorter, digest) \in Sorter /\ SorterInOrder(Buffered(sorter, digest))
           /\ Held(Buffered(sorter, digest)) = Held(sorter) \cup {digest}
           /\ Buffered(sorter, digest).merging = sorter.merging
           /\ Buffered(sorter, digest).runs = sorter.runs
           /\ Buffered(sorter, digest).bank = sorter.bank
<1> DEFINE next == Buffered(sorter, digest)
<1>0. sorter.buffered \in Nat /\ sorter.buffer \in SUBSET Digests
      BY DEF Sorter
<1>1. /\ next \in Sorter
      /\ next.bank = sorter.bank /\ next.runs = sorter.runs /\ next.merging = sorter.merging
      /\ next.buffer = sorter.buffer \cup {digest} /\ next.buffered = sorter.buffered + 1
  <2>1. next = [sorter EXCEPT !.buffer = sorter.buffer \cup {digest}, !.buffered = sorter.buffered + 1]
        BY DEF Buffered
  <2>2. sorter.buffer \cup {digest} \in SUBSET Digests /\ sorter.buffered + 1 \in Nat
        BY <1>0
  <2> HIDE DEF next
  <2> QED BY <2>1, <2>2 DEF Sorter
<1>2. sorter.buffered \in Nat
      BY DEF Sorter
<1>3. Active(next) = Active(sorter)
      BY <1>1 DEF Active
<1> QED BY <1>1, <1>2, <1>3 DEF SorterInOrder, Held

LEMMA ChunkedHolds ==
    ASSUME NEW sorter \in Sorter, SorterInOrder(sorter), ~Full(sorter), ~sorter.merging
    PROVE  /\ Chunked(sorter) \in Sorter /\ SorterInOrder(Chunked(sorter))
           /\ Held(Chunked(sorter)) = Held(sorter)
           /\ ~Chunked(sorter).merging /\ Chunked(sorter).bank = sorter.bank
           /\ Active(Chunked(sorter)) = Append(Active(sorter), sorter.buffer)
           /\ Len(Active(sorter)) \in Nat /\ Len(Active(sorter)) < Slots
           /\ \A b \in Banks : b # sorter.bank => Chunked(sorter).runs[b] = sorter.runs[b]
<1> DEFINE next == Chunked(sorter)
<1>0. /\ sorter.bank \in Banks /\ sorter.runs \in [Banks -> Seq(SUBSET Digests)]
      /\ sorter.buffer \in SUBSET Digests /\ Active(sorter) \in Seq(SUBSET Digests)
      BY DEF Sorter, Active
<1>1. /\ next.bank = sorter.bank /\ next.merging = sorter.merging
      /\ next.buffer = {} /\ next.buffered = 0
      /\ next.runs = [sorter.runs EXCEPT ![sorter.bank] = Append(Active(sorter), sorter.buffer)]
      BY DEF Chunked, Sorter, Active
<1>2. next \in Sorter
  <2>1. Append(Active(sorter), sorter.buffer) \in Seq(SUBSET Digests)
        BY <1>0
  <2> QED BY <2>1, <1>0 DEF Chunked, Sorter, Active
<1>3. Active(next) = Append(Active(sorter), sorter.buffer)
      BY <1>0, <1>1 DEF Active
<1>4. Len(Active(sorter)) < Slots /\ Slots \in Nat /\ Len(Active(sorter)) \in Nat
      BY <1>0, ReclamationConstantsOK DEF Full
<1>5. Held(next) = Held(sorter)
  <2> DEFINE act == Active(sorter)
             app == Append(act, sorter.buffer)
  <2>1. /\ Len(app) = Len(act) + 1 /\ app[Len(act) + 1] = sorter.buffer
        /\ \A i \in DOMAIN act : i \in DOMAIN app /\ app[i] = act[i]
        /\ \A i \in DOMAIN app : i \in DOMAIN act \/ i = Len(act) + 1
        /\ Len(act) + 1 \in DOMAIN app
        BY <1>0
  <2>2. UNION {app[i] : i \in DOMAIN app} = sorter.buffer \cup UNION {act[i] : i \in DOMAIN act}
    <3> HIDE DEF act, app
    <3> QED BY <2>1
  <2> QED BY <2>2, <1>1, <1>3 DEF Held
<1>6. next.runs[Other(next.bank)] = << >>
      BY <1>0, <1>1, OtherBank DEF SorterInOrder
<1>7. \A b \in Banks : b # sorter.bank => next.runs[b] = sorter.runs[b]
      BY <1>0, <1>1
<1>8. SorterInOrder(next)
  <2>1. Len(Active(next)) = Len(Active(sorter)) + 1
        BY <1>0, <1>3
  <2> QED BY <2>1, <1>1, <1>4, <1>6 DEF SorterInOrder
<1> QED BY <1>1, <1>2, <1>3, <1>4, <1>5, <1>7, <1>8

LEMMA SwappedHolds ==
    ASSUME NEW sorter \in Sorter, SorterInOrder(sorter), sorter.merging
    PROVE  /\ Swapped(sorter) \in Sorter /\ SorterInOrder(Swapped(sorter))
           /\ Held(Swapped(sorter)) = Held(sorter)
           /\ ~Swapped(sorter).merging /\ Swapped(sorter).bank = Other(sorter.bank)
           /\ Len(Active(Swapped(sorter))) = 1
           /\ Swapped(sorter).runs[sorter.bank] = << >>
           /\ sorter.buffered = 0 => Active(Swapped(sorter))[1] = Held(sorter)
<1> DEFINE next == Swapped(sorter)
           all == UNION {Active(sorter)[i] : i \in DOMAIN Active(sorter)}
<1>0. /\ sorter.bank \in Banks /\ sorter.runs \in [Banks -> Seq(SUBSET Digests)]
      /\ sorter.buffer \in SUBSET Digests /\ Active(sorter) \in Seq(SUBSET Digests)
      BY DEF Sorter, Active
<1>1. /\ next.bank = Other(sorter.bank) /\ next.merging = FALSE
      /\ next.buffer = sorter.buffer /\ next.buffered = sorter.buffered
      /\ next.runs = [b \in Banks |-> IF b = sorter.bank THEN << >> ELSE << all >>]
      BY DEF Swapped, Sorter
<1>2. all \in SUBSET Digests
      BY <1>0
<1>3. next \in Sorter
  <2> HIDE DEF all
  <2>1. << all >> \in Seq(SUBSET Digests) /\ << >> \in Seq(SUBSET Digests)
        BY <1>2
  <2>2. next.runs \in [Banks -> Seq(SUBSET Digests)] /\ next.bank \in Banks
        BY <1>0, <1>1, <2>1, OtherBank
  <2>3. next = [sorter EXCEPT !.bank = next.bank, !.merging = FALSE, !.runs = next.runs]
        BY <1>1 DEF Swapped
  <2>4. sorter \in Sorter
        OBVIOUS
  <2> HIDE DEF next
  <2> QED BY <2>2, <2>3, <2>4 DEF Sorter
<1>4. Active(next) = << all >> /\ next.runs[sorter.bank] = << >>
      BY <1>0, <1>1, OtherBank DEF Active
<1>5. Len(Active(next)) = 1 /\ Active(next)[1] = all /\ DOMAIN Active(next) = {1}
      BY <1>4
<1>6. Held(next) = Held(sorter) /\ (sorter.buffered = 0 => all = Held(sorter))
  <2> HIDE DEF all
  <2>1. Held(next) = sorter.buffer \cup all
        BY <1>1, <1>5 DEF Held
  <2>2. Held(sorter) = sorter.buffer \cup all
        BY DEF Held, all
  <2> QED BY <2>1, <2>2 DEF SorterInOrder
<1>7. SorterInOrder(next)
  <2>1. next.runs[Other(next.bank)] = << >>
        BY <1>0, <1>1, <1>4, OtherBank
  <2>2. next.buffered = 0 => next.buffer = {}
        BY <1>1 DEF SorterInOrder
  <2> QED BY <2>1, <2>2, <1>1, <1>5, ReclamationConstantsOK DEF SorterInOrder
<1> QED BY <1>1, <1>3, <1>4, <1>5, <1>6, <1>7

-------------------------------------------------------------------------------
(* Steps of an attempt *)

LEMMA IdleOrAttempt ==
    ASSUME GcTypeOK
    PROVE  /\ gc = GcIdle => /\ Phase("idle") 
                             /\ \A p \in {"sweep", "mark", "inventory", "cover", "validate",
                                          "reclaim", "cleanup"} : ~Phase(p)
           /\ gc # GcIdle => gc \in Attempt /\ ~Phase("idle")
  BY DEF GcTypeOK, Phase, GcIdle, Attempt

\* Whatever ends an attempt, what it had gathered is forgotten.
LEMMA StopSound ==
    ASSUME GcTypeOK', gc' = GcIdle, SuccessIsExact', ScratchNeverInTheWay', ReclaimedStaysGone'
    PROVE  GcSound'
<1>1. Phase("idle")' /\ ~Phase("sweep")' /\ ~Phase("mark")' /\ ~Phase("inventory")'
      /\ ~Phase("cover")' /\ ~Phase("validate")' /\ ~Phase("reclaim")' /\ ~Phase("cleanup")'
      BY DEF Phase, GcIdle
<1> QED BY <1>1 DEF GcSound, Gathered, Reclaiming, ScratchIsOwn

LEMMA KeepsReferenced == ASSUME UNCHANGED references PROVE Referenced' = Referenced
  BY DEF Referenced

\* A step that fails, or an attempt that is killed.
LEMMA FailureSound ==
    ASSUME GcSound, Keep, gc' = GcIdle, scratch' \subseteq GcScratchNames,
           outcome' # "success", outcome' # "in the way"
    PROVE  GcSound'
<1>1. GcTypeOK'
      BY DEF GcSound, GcTypeOK, Keep
<1>2. SuccessIsExact' /\ ScratchNeverInTheWay' /\ ReclaimedStaysGone'
      BY DEF GcSound, SuccessIsExact, ScratchNeverInTheWay, ReclaimedStaysGone, Keep
<1> QED BY <1>1, <1>2, StopSound

LEMMA BeginSound == ASSUME GcSound, BeginCollection PROVE GcSound'
<1>1. Started \in Attempt /\ Started.phase = "sweep" /\ \A s \in Streams : Started.sorters[s] = EmptySorter
  <2>1. [s \in Streams |-> EmptySorter] \in [Streams -> Sorter]
        BY EmptyHolds
  <2> QED BY <2>1 DEF Started, Attempt
<1>2. gc' = Started /\ outcome' = "none"
      BY DEF BeginCollection
<1>3. GcTypeOK'
      BY <1>1, <1>2 DEF BeginCollection, GcSound, GcTypeOK
<1>4. Phase("sweep")' /\ ~Phase("idle")' /\ ~Phase("mark")' /\ ~Phase("inventory")'
      /\ ~Phase("cover")' /\ ~Phase("validate")' /\ ~Phase("reclaim")' /\ ~Phase("cleanup")'
      BY <1>1, <1>2 DEF Phase
<1>5. \A s \in Streams : SorterInOrder(gc'.sorters[s])
      BY <1>1, <1>2, EmptyHolds
<1>6. SuccessIsExact' /\ ScratchNeverInTheWay' /\ ReclaimedStaysGone'
      BY <1>2 DEF GcSound, SuccessIsExact, ScratchNeverInTheWay, ReclaimedStaysGone, BeginCollection
<1> QED BY <1>2, <1>3, <1>4, <1>5, <1>6 DEF GcSound, Gathered, Reclaiming, ScratchIsOwn

LEMMA SweepSound == ASSUME GcSound, SweepScratch PROVE GcSound'
<1>1. gc = Started /\ gc' = [gc EXCEPT !.phase = "mark"] /\ scratch' = {}
      BY DEF GcSound, Gathered, SweepScratch, GcTypeOK
<1>2. gc \in Attempt
      BY IdleOrAttempt DEF GcSound, SweepScratch, Phase, GcIdle
<1>3. /\ gc' \in Attempt /\ gc'.phase = "mark" /\ gc'.marked = 0
      /\ gc'.sorters = [s \in Streams |-> EmptySorter]
      /\ gc'.candidates = {} /\ gc'.unlinked = {} /\ gc'.batch = 0
      BY <1>1, <1>2 DEF Started, Attempt
<1>4. Phase("mark")' /\ ~Phase("idle")' /\ ~Phase("sweep")' /\ ~Phase("inventory")'
      /\ ~Phase("cover")' /\ ~Phase("validate")' /\ ~Phase("reclaim")' /\ ~Phase("cleanup")'
      BY <1>3 DEF Phase
<1>5. GcTypeOK' /\ outcome' = "none"
      BY <1>1, <1>3 DEF SweepScratch, GcSound, GcTypeOK, Phase, GcIdle
<1>6. \A s \in Streams : gc'.sorters[s] = EmptySorter
      BY <1>3
<1>7. Gathered'
  <2>1. Held(gc'.sorters["mark"]) = {} /\ gc'.sorters["inventory"] = EmptySorter
        BY <1>6, EmptyHolds DEF Streams
  <2>2. {references'[i] : i \in 1..gc'.marked} = {}
        BY <1>3
  <2>3. gc'.marked =< Len(references')
        BY <1>3, <1>5 DEF GcTypeOK
  <2> QED BY <1>3, <1>4, <2>1, <2>2, <2>3 DEF Gathered
<1>8. SuccessIsExact' /\ ScratchNeverInTheWay' /\ ReclaimedStaysGone'
      BY <1>5 DEF GcSound, SuccessIsExact, ScratchNeverInTheWay, ReclaimedStaysGone, SweepScratch
<1> QED BY <1>1, <1>4, <1>5, <1>6, <1>7, <1>8, EmptyHolds DEF GcSound, Reclaiming, ScratchIsOwn

\* A step within a phase that leaves the store alone and keeps the facts about
\* what was gathered.
LEMMA WithinSound ==
    ASSUME GcSound, Keep, gc' \in Attempt, outcome' = "none", scratch' \subseteq GcScratchNames,
           \A stream \in Streams : SorterInOrder(gc'.sorters[stream]),
           Gathered', Reclaiming', ScratchIsOwn'
    PROVE  GcSound'
<1>1. GcTypeOK'
      BY DEF GcSound, GcTypeOK, Keep
<1>2. SuccessIsExact' /\ ScratchNeverInTheWay' /\ ReclaimedStaysGone'
      BY DEF GcSound, SuccessIsExact, ScratchNeverInTheWay, ReclaimedStaysGone, Keep
<1> QED BY <1>1, <1>2 DEF GcSound

\* What there is to know in a phase.
LEMMA InPhase ==
    ASSUME GcSound, NEW p, Phase(p), p # "idle"
    PROVE  /\ gc \in Attempt /\ outcome = "none" /\ gc.phase = p
           /\ \A s \in Streams : gc.sorters[s] \in Sorter /\ SorterInOrder(gc.sorters[s])
           /\ scratch \subseteq GcScratchNames
<1>1. gc \in Attempt /\ ~Phase("idle")
      BY IdleOrAttempt DEF GcSound, Phase
<1>2. gc.sorters \in [Streams -> Sorter]
      BY <1>1 DEF Attempt
<1> QED BY <1>1, <1>2 DEF GcSound, GcTypeOK, Phase

LEMMA SealedIs ==
    ASSUME NEW sorters \in [Streams -> Sorter], NEW file
    PROVE  file \in Sealed(sorters) <=>
            \E s \in Streams, b \in Banks : \E i \in 1..Len(sorters[s].runs[b]) :
                file = ScratchRun(s, b, i - 1)
<1>1. \A s \in Streams, b \in Banks : DOMAIN sorters[s].runs[b] = 1..Len(sorters[s].runs[b])
      BY DEF Sorter
<1>2. file \in Sealed(sorters) <=>
        \E s \in Streams, b \in Banks : file \in RunFiles(s, b, sorters[s])
      BY DEF Sealed
<1>3. \A s \in Streams, b \in Banks :
        file \in RunFiles(s, b, sorters[s]) <=>
            \E i \in 1..Len(sorters[s].runs[b]) : file = ScratchRun(s, b, i - 1)
      BY <1>1 DEF RunFiles
<1> QED BY <1>2, <1>3

-------------------------------------------------------------------------------
(* Sorting *)

\* A sorter is replaced by one that holds the same.
LEMMA SorterStep ==
    ASSUME GcSound, NEW stream \in Streams, Phase(stream),
           NEW next \in Sorter, SorterInOrder(next), Held(next) = Held(gc.sorters[stream]),
           gc' = [gc EXCEPT !.sorters[stream] = next],
           Keep, outcome' = outcome, scratch' \subseteq GcScratchNames, ScratchIsOwn'
    PROVE  GcSound'
<1>0. stream # "idle"
      BY DEF Streams
<1>1. gc \in Attempt /\ outcome = "none" /\ gc.phase = stream
      /\ \A s \in Streams : gc.sorters[s] \in Sorter /\ SorterInOrder(gc.sorters[s])
      BY <1>0, InPhase
<1>2. /\ gc' \in Attempt /\ gc'.phase = gc.phase /\ gc'.marked = gc.marked /\ gc'.unread = gc.unread
      /\ gc'.marks = gc.marks /\ gc'.candidates = gc.candidates
      /\ gc'.unlinked = gc.unlinked /\ gc'.batch = gc.batch
      /\ gc'.sorters = [gc.sorters EXCEPT ![stream] = next]
      BY <1>1 DEF Attempt
<1>3. gc'.sorters[stream] = next /\ \A s \in Streams : s # stream => gc'.sorters[s] = gc.sorters[s]
      BY <1>1, <1>2 DEF Attempt
<1>4. \A s \in Streams : SorterInOrder(gc'.sorters[s])
      BY <1>1, <1>3
<1>5. /\ ~Phase("sweep")' /\ ~Phase("cover")' /\ ~Phase("validate")' /\ ~Phase("reclaim")'
      /\ ~Phase("cleanup")' /\ (Phase("mark")' <=> stream = "mark")
      /\ (Phase("inventory")' <=> stream = "inventory")
      BY <1>1, <1>2 DEF Phase, Streams
<1>6. references' = references /\ objects' = objects /\ Referenced' = Referenced
      BY KeepsReferenced DEF Keep
<1>7. Gathered'
  <2>1. CASE stream = "mark"
    <3>1. /\ gc.marked =< Len(references)
          /\ Held(gc.sorters["mark"]) = {references[i] : i \in 1..gc.marked} \ {Inline}
          /\ gc.sorters["inventory"] = EmptySorter
          /\ gc.candidates = {} /\ gc.unlinked = {} /\ gc.batch = 0
          BY <2>1 DEF GcSound, Gathered
    <3>2. Held(gc'.sorters["mark"]) = Held(gc.sorters["mark"]) /\ gc'.sorters["inventory"] = gc.sorters["inventory"]
          BY <2>1, <1>3 DEF Streams
    <3> QED BY <2>1, <3>1, <3>2, <1>2, <1>5, <1>6 DEF Gathered
  <2>2. CASE stream = "inventory"
    <3>1. /\ gc.marks = Referenced
          /\ Held(gc.sorters["inventory"]) \cup gc.unread = objects
          /\ ~gc.sorters["mark"].merging
          /\ gc.candidates = {} /\ gc.unlinked = {} /\ gc.batch = 0
          BY <2>2 DEF GcSound, Gathered
    <3>2. Held(gc'.sorters["inventory"]) = Held(gc.sorters["inventory"]) /\ gc'.sorters["mark"] = gc.sorters["mark"]
          BY <2>2, <1>3 DEF Streams
    <3> QED BY <2>2, <3>1, <3>2, <1>2, <1>5, <1>6 DEF Gathered
  <2> QED BY <2>1, <2>2 DEF Streams
<1>8. Reclaiming'
      BY <1>5 DEF Reclaiming
<1> QED BY <1>1, <1>2, <1>4, <1>7, <1>8, WithinSound

\* The files are those of before, where the sorters' runs are.
LEMMA SameFiles ==
    ASSUME GcSound, NEW p \in Streams, Phase(p), gc' \in Attempt, Phase(p)', scratch' = scratch,
           gc'.candidates = gc.candidates,
           \A s \in Streams :
            /\ gc'.sorters[s].runs = gc.sorters[s].runs /\ gc'.sorters[s].bank = gc.sorters[s].bank
            /\ gc'.sorters[s].merging = gc.sorters[s].merging
    PROVE  ScratchIsOwn'
<1>0. p # "idle" /\ p # "validate"
      BY DEF Streams
<1>1. gc \in Attempt /\ gc.sorters \in [Streams -> Sorter] /\ gc'.sorters \in [Streams -> Sorter]
      BY <1>0, InPhase DEF Attempt
<1>2. \A file : file \in Sealed(gc.sorters) => file \in Sealed(gc'.sorters)
      BY <1>1, SealedIs
<1>3. ~Phase("validate")'
      BY <1>0 DEF Phase
<1>4. \A file \in scratch :
            \/ file \in Sealed(gc.sorters)
            \/ \E stream \in Streams :
                gc.sorters[stream].merging /\ file = ScratchRun(stream, Other(gc.sorters[stream].bank), 0)
            \/ file = Candidates /\ gc.candidates # {}
      BY DEF GcSound, ScratchIsOwn, Streams
<1> QED BY <1>2, <1>3, <1>4 DEF ScratchIsOwn

LEMMA MarkSound == ASSUME GcSound, MarkOperation PROVE GcSound'
<1> DEFINE reference == references[gc.marked + 1]
           old == gc.sorters["mark"]
           next == IF reference = Inline THEN old ELSE Buffered(old, reference)
<1>1. gc \in Attempt /\ outcome = "none" /\ gc.phase = "mark"
      /\ \A s \in Streams : gc.sorters[s] \in Sorter /\ SorterInOrder(gc.sorters[s])
      BY InPhase DEF MarkOperation
<1>2. /\ gc.marked \in Nat /\ gc.marked < Len(references) /\ references \in Seq(Digests \cup {Inline})
      /\ reference \in Digests \cup {Inline}
      BY <1>1 DEF MarkOperation, GcSound, GcTypeOK, Attempt
<1>3. /\ next \in Sorter /\ SorterInOrder(next)
      /\ next.runs = old.runs /\ next.bank = old.bank /\ next.merging = old.merging
      /\ Held(next) = Held(old) \cup ({reference} \ {Inline})
  <2>1. old \in Sorter /\ SorterInOrder(old)
        BY <1>1 DEF Streams
  <2>2. CASE reference = Inline
        BY <2>1, <2>2
  <2>3. CASE reference # Inline
        BY <2>1, <2>3, <1>2, BufferedHolds
  <2> QED BY <2>2, <2>3
<1>4. gc' = [gc EXCEPT !.marked = gc.marked + 1, !.sorters["mark"] = next]
      BY DEF MarkOperation
<1> HIDE DEF next
<1>5. /\ gc' \in Attempt /\ gc'.phase = "mark" /\ gc'.marked = gc.marked + 1
      /\ gc'.candidates = gc.candidates /\ gc'.unlinked = gc.unlinked /\ gc'.batch = gc.batch
      /\ gc'.sorters = [gc.sorters EXCEPT !["mark"] = next]
  <2>1. [gc.sorters EXCEPT !["mark"] = next] \in [Streams -> Sorter]
        BY <1>1, <1>3 DEF Attempt
  <2>2. gc' = [gc EXCEPT !.marked = gc.marked + 1, !.sorters = [gc.sorters EXCEPT !["mark"] = next]]
        BY <1>4
  <2>3. gc.marked + 1 \in Nat
        BY <1>2
  <2> QED BY <1>1, <2>1, <2>2, <2>3 DEF Attempt
<1>6. gc'.sorters["mark"] = next /\ gc'.sorters["inventory"] = gc.sorters["inventory"]
      BY <1>1, <1>5 DEF Attempt, Streams
<1>7. /\ ~Phase("sweep")' /\ ~Phase("cover")' /\ ~Phase("validate")' /\ ~Phase("reclaim")'
      /\ ~Phase("cleanup")' /\ Phase("mark")' /\ ~Phase("inventory")'
      BY <1>5 DEF Phase
<1>8. Keep /\ scratch' = scratch /\ outcome' = outcome /\ references' = references
      BY DEF MarkOperation, Keep
<1>9. Gathered'
  <2>1. /\ Held(old) = {references[i] : i \in 1..gc.marked} \ {Inline}
        /\ gc.sorters["inventory"] = EmptySorter
        /\ gc.candidates = {} /\ gc.unlinked = {} /\ gc.batch = 0
        BY DEF GcSound, Gathered, MarkOperation
  <2>2. {references[i] : i \in 1..(gc.marked + 1)} = {references[i] : i \in 1..gc.marked} \cup {reference}
    <3>1. 1..(gc.marked + 1) = (1..gc.marked) \cup {gc.marked + 1}
          BY <1>2
    <3> QED BY <3>1
  <2>3. Held(next) = {references[i] : i \in 1..(gc.marked + 1)} \ {Inline}
        BY <1>3, <2>1, <2>2
  <2>4. Held(gc'.sorters["mark"]) = {references'[i] : i \in 1..gc'.marked} \ {Inline}
        BY <2>3, <1>5, <1>6, <1>8
  <2>5. gc'.marked =< Len(references')
        BY <1>2, <1>5, <1>8
  <2> QED BY <1>5, <1>6, <1>7, <2>1, <2>4, <2>5 DEF Gathered
<1>10. Reclaiming'
      BY <1>7 DEF Reclaiming
<1>11. ScratchIsOwn'
  <2>1. \A s \in Streams :
            /\ gc'.sorters[s].runs = gc.sorters[s].runs /\ gc'.sorters[s].bank = gc.sorters[s].bank
            /\ gc'.sorters[s].merging = gc.sorters[s].merging
        BY <1>3, <1>6 DEF Streams
  <2> QED BY <2>1, <1>5, <1>7, <1>8, SameFiles DEF MarkOperation, Streams
<1>12. \A s \in Streams : SorterInOrder(gc'.sorters[s])
      BY <1>1, <1>3, <1>6 DEF Streams
<1>13. scratch' \subseteq GcScratchNames
      BY <1>8 DEF GcSound, GcTypeOK
<1> QED BY <1>1, <1>5, <1>8, <1>9, <1>10, <1>11, <1>12, <1>13, WithinSound

LEMMA ReadSound == ASSUME GcSound, ReadName PROVE GcSound'
<1>0. PICK digest \in gc.unread :
        gc' = [gc EXCEPT !.unread = @ \ {digest}, !.sorters["inventory"] = Buffered(@, digest)]
      BY DEF ReadName
<1> DEFINE old == gc.sorters["inventory"]
           next == Buffered(old, digest)
<1>1. gc \in Attempt /\ outcome = "none" /\ gc.phase = "inventory"
      /\ \A s \in Streams : gc.sorters[s] \in Sorter /\ SorterInOrder(gc.sorters[s])
      BY InPhase DEF ReadName
<1>2. digest \in Digests /\ gc.unread \in SUBSET Digests
      BY <1>0, <1>1 DEF Attempt
<1>3. /\ next \in Sorter /\ SorterInOrder(next)
      /\ next.runs = old.runs /\ next.bank = old.bank /\ next.merging = old.merging
      /\ Held(next) = Held(old) \cup {digest}
      BY <1>1, <1>2, BufferedHolds DEF Streams
<1>4. gc' = [gc EXCEPT !.unread = gc.unread \ {digest}, !.sorters["inventory"] = next]
      BY <1>0
<1> HIDE DEF next
<1>5. /\ gc' \in Attempt /\ gc'.phase = "inventory" /\ gc'.unread = gc.unread \ {digest}
      /\ gc'.marks = gc.marks
      /\ gc'.candidates = gc.candidates /\ gc'.unlinked = gc.unlinked /\ gc'.batch = gc.batch
      /\ gc'.sorters = [gc.sorters EXCEPT !["inventory"] = next]
      BY <1>1, <1>2, <1>3, <1>4 DEF Attempt
<1>6. gc'.sorters["inventory"] = next /\ gc'.sorters["mark"] = gc.sorters["mark"]
      BY <1>1, <1>5 DEF Attempt, Streams
<1>7. /\ ~Phase("sweep")' /\ ~Phase("cover")' /\ ~Phase("validate")' /\ ~Phase("reclaim")'
      /\ ~Phase("cleanup")' /\ ~Phase("mark")' /\ Phase("inventory")'
      BY <1>5 DEF Phase
<1>8. Keep /\ scratch' = scratch /\ outcome' = outcome /\ objects' = objects /\ Referenced' = Referenced
      BY KeepsReferenced DEF ReadName, Keep
<1>9. Gathered'
  <2>1. /\ gc.marks = Referenced
        /\ Held(old) \cup gc.unread = objects
        /\ ~gc.sorters["mark"].merging
        /\ gc.candidates = {} /\ gc.unlinked = {} /\ gc.batch = 0
        BY DEF GcSound, Gathered, ReadName
  <2>2. Held(gc'.sorters["inventory"]) \cup gc'.unread = objects'
        BY <1>0, <1>3, <1>5, <1>6, <1>8, <2>1
  <2> QED BY <1>5, <1>6, <1>7, <1>8, <2>1, <2>2 DEF Gathered
<1>10. Reclaiming'
      BY <1>7 DEF Reclaiming
<1>11. ScratchIsOwn'
  <2>1. \A s \in Streams :
            /\ gc'.sorters[s].runs = gc.sorters[s].runs /\ gc'.sorters[s].bank = gc.sorters[s].bank
            /\ gc'.sorters[s].merging = gc.sorters[s].merging
        BY <1>3, <1>6 DEF Streams
  <2> QED BY <2>1, <1>5, <1>7, <1>8, SameFiles DEF ReadName, Streams
<1>12. \A s \in Streams : SorterInOrder(gc'.sorters[s])
      BY <1>1, <1>3, <1>6 DEF Streams
<1>13. scratch' \subseteq GcScratchNames
      BY <1>8 DEF GcSound, GcTypeOK
<1> QED BY <1>1, <1>5, <1>8, <1>9, <1>10, <1>11, <1>12, <1>13, WithinSound

\* The file a chunk goes to is not there.
LEMMA FlushSound == ASSUME GcSound, NEW stream \in Streams, FlushChunk(stream) PROVE GcSound'
<1> DEFINE old == gc.sorters[stream]
           next == Chunked(old)
           file == ScratchRun(stream, old.bank, Len(Active(old)))
<1>1. gc \in Attempt /\ outcome = "none" /\ gc.phase = stream /\ scratch \subseteq GcScratchNames
      /\ \A s \in Streams : gc.sorters[s] \in Sorter /\ SorterInOrder(gc.sorters[s])
      BY InPhase DEF FlushChunk, Streams
<1>2. ~Full(old) /\ ~old.merging /\ Phase(stream) /\ Keep
      BY DEF FlushChunk, ChunkDue
<1>3. /\ next \in Sorter /\ SorterInOrder(next) /\ Held(next) = Held(old)
      /\ ~next.merging /\ next.bank = old.bank
      /\ Active(next) = Append(Active(old), old.buffer)
      /\ Len(Active(old)) \in Nat /\ Len(Active(old)) < Slots
      /\ \A b \in Banks : b # old.bank => next.runs[b] = old.runs[b]
      BY <1>1, <1>2, ChunkedHolds
<1>4. /\ old.bank \in Banks /\ Active(old) \in Seq(SUBSET Digests) /\ Active(old) = old.runs[old.bank]
      /\ old.buffer \in SUBSET Digests
      /\ Len(Append(Active(old), old.buffer)) = Len(Active(old)) + 1
      /\ gc.sorters \in [Streams -> Sorter]
      BY <1>1 DEF Sorter, Active, Attempt
<1>5. Create(file, [gc EXCEPT !.sorters[stream] = next])
      BY DEF FlushChunk
<1>6. \A f \in scratch :
            \/ f \in Sealed(gc.sorters)
            \/ \E s \in Streams :
                gc.sorters[s].merging /\ f = ScratchRun(s, Other(gc.sorters[s].bank), 0)
            \/ f = Candidates /\ gc.candidates # {}
      BY <1>2 DEF GcSound, ScratchIsOwn, Streams
<1>7. file \notin scratch
  <2>1. file \notin Sealed(gc.sorters)
    <3> SUFFICES ASSUME NEW s \in Streams, NEW b \in Banks,
                        NEW i \in 1..Len(gc.sorters[s].runs[b]), file = ScratchRun(s, b, i - 1)
                 PROVE  FALSE
        BY <1>4, SealedIs
    <3>1. s = stream /\ b = old.bank /\ i - 1 = Len(Active(old))
          BY RunNames
    <3>2. i \in Nat /\ i =< Len(Active(old))
      <4>1. gc.sorters[s].runs[b] = Active(old)
            BY <3>1, <1>4
      <4>2. i \in Nat /\ i =< Len(gc.sorters[s].runs[b])
            BY <4>1, <1>3
      <4> QED BY <4>1, <4>2
    <3> QED BY <3>1, <3>2, <1>3
  <2>2. \A s \in Streams : gc.sorters[s].merging => file # ScratchRun(s, Other(gc.sorters[s].bank), 0)
        BY <1>2, <1>3, RunNames
  <2>3. file # Candidates
        BY RunNames
  <2> QED BY <1>6, <2>1, <2>2, <2>3
<1>8. scratch' = scratch \cup {file} /\ gc' = [gc EXCEPT !.sorters[stream] = next] /\ outcome' = outcome
      BY <1>5, <1>7 DEF Create
<1>9. scratch' \subseteq GcScratchNames
  <2>1. file \in GcScratchNames
        BY <1>3, <1>4, RunNames
  <2> QED BY <1>1, <1>8, <2>1
<1> HIDE DEF next
<1>10. /\ gc'.sorters = [gc.sorters EXCEPT ![stream] = next] /\ gc'.candidates = gc.candidates
       /\ gc'.phase = gc.phase
      BY <1>1, <1>8 DEF Attempt
<1>11. /\ gc'.sorters \in [Streams -> Sorter] /\ gc'.sorters[stream] = next
       /\ \A s \in Streams : s # stream => gc'.sorters[s] = gc.sorters[s]
      BY <1>3, <1>4, <1>10
<1>12. ScratchIsOwn'
  <2>1. file \in Sealed(gc'.sorters)
    <3>1. next.runs[old.bank] = Append(Active(old), old.buffer)
          BY <1>3 DEF Active
    <3>2. Len(next.runs[old.bank]) = Len(Active(old)) + 1
          BY <3>1, <1>4
    <3>3. Len(Active(old)) + 1 \in 1..Len(next.runs[old.bank]) /\ (Len(Active(old)) + 1) - 1 = Len(Active(old))
          BY <3>2, <1>3
    <3> QED BY <3>3, <1>4, <1>11, SealedIs
  <2>2. \A f : f \in Sealed(gc.sorters) => f \in Sealed(gc'.sorters)
    <3> SUFFICES ASSUME NEW s \in Streams, NEW b \in Banks, NEW i \in 1..Len(gc.sorters[s].runs[b])
                 PROVE  ScratchRun(s, b, i - 1) \in Sealed(gc'.sorters)
        BY <1>4, SealedIs
    <3>1. i \in 1..Len(gc'.sorters[s].runs[b])
      <4>1. CASE s = stream /\ b = old.bank
        <5>1. Len(next.runs[b]) = Len(old.runs[b]) + 1
              BY <4>1, <1>3, <1>4 DEF Active
        <5>2. gc'.sorters[s].runs[b] = next.runs[b] /\ gc.sorters[s].runs[b] = old.runs[b]
              BY <4>1, <1>11
        <5>3. Len(old.runs[b]) \in Nat
              BY <4>1, <1>3, <1>4
        <5> QED BY <5>1, <5>2, <5>3
      <4>2. CASE ~(s = stream /\ b = old.bank)
            BY <4>2, <1>3, <1>11
      <4> QED BY <4>1, <4>2
    <3> QED BY <3>1, <1>11, SealedIs
  <2>3. \A s \in Streams : gc.sorters[s].merging => gc'.sorters[s] = gc.sorters[s]
        BY <1>2, <1>11
  <2>4. ~Phase("validate")'
        BY <1>1, <1>10 DEF Phase, Streams
  <2> QED BY <1>6, <1>8, <1>10, <2>1, <2>2, <2>3, <2>4 DEF ScratchIsOwn
<1> QED BY <1>2, <1>3, <1>8, <1>9, <1>12, SorterStep

\* Nor is the output of a merge, and the bank it goes to is empty.
LEMMA MergeSound == ASSUME GcSound, NEW stream \in Streams, MergeRuns(stream) PROVE GcSound'
<1> DEFINE old == gc.sorters[stream]
           next == [old EXCEPT !.merging = TRUE]
           file == ScratchRun(stream, Other(old.bank), 0)
<1>1. gc \in Attempt /\ outcome = "none" /\ gc.phase = stream /\ scratch \subseteq GcScratchNames
      /\ \A s \in Streams : gc.sorters[s] \in Sorter /\ SorterInOrder(gc.sorters[s])
      BY InPhase DEF MergeRuns, Streams
<1>2. ~old.merging /\ Phase(stream) /\ Keep
      BY DEF MergeRuns, MergeDue, ChunkDue
<1>3. old \in Sorter /\ SorterInOrder(old) /\ gc.sorters \in [Streams -> Sorter]
      /\ old.bank \in Banks /\ Active(old) \in Seq(SUBSET Digests)
      BY <1>1 DEF Attempt, Sorter, Active
<1>4. Active(old) # << >>
  <2>1. Full(old) => Active(old) # << >>
        BY <1>3, ReclamationConstantsOK DEF Full
  <2> QED BY <2>1 DEF MergeRuns, MergeDue
<1>5. /\ next \in Sorter /\ next.bank = old.bank /\ next.runs = old.runs /\ next.buffer = old.buffer
      /\ next.buffered = old.buffered /\ next.merging
      BY <1>3 DEF Sorter
<1>6. SorterInOrder(next) /\ Held(next) = Held(old)
  <2>1. Active(next) = Active(old)
        BY <1>5 DEF Active
  <2> QED BY <2>1, <1>3, <1>4, <1>5 DEF SorterInOrder, Held
<1>7. Create(file, [gc EXCEPT !.sorters[stream].merging = TRUE])
  <2>1. old.runs[Other(old.bank)] = << >>
        BY <1>3 DEF SorterInOrder
  <2> QED BY <2>1 DEF MergeRuns
<1>8. \A f \in scratch :
            \/ f \in Sealed(gc.sorters)
            \/ \E s \in Streams :
                gc.sorters[s].merging /\ f = ScratchRun(s, Other(gc.sorters[s].bank), 0)
            \/ f = Candidates /\ gc.candidates # {}
      BY <1>2 DEF GcSound, ScratchIsOwn, Streams
<1>9. file \notin scratch
  <2>1. file \notin Sealed(gc.sorters)
    <3> SUFFICES ASSUME NEW s \in Streams, NEW b \in Banks,
                        NEW i \in 1..Len(gc.sorters[s].runs[b]), file = ScratchRun(s, b, i - 1)
                 PROVE  FALSE
        BY <1>3, SealedIs
    <3>1. s = stream /\ b = Other(old.bank)
          BY RunNames
    <3>2. Len(gc.sorters[s].runs[b]) = 0
          BY <3>1, <1>3 DEF SorterInOrder
    <3> QED BY <3>2
  <2>2. \A s \in Streams : gc.sorters[s].merging => file # ScratchRun(s, Other(gc.sorters[s].bank), 0)
        BY <1>2, RunNames
  <2>3. file # Candidates
        BY RunNames
  <2> QED BY <1>8, <2>1, <2>2, <2>3
<1>10. scratch' = scratch \cup {file} /\ gc' = [gc EXCEPT !.sorters[stream].merging = TRUE] /\ outcome' = outcome
      BY <1>7, <1>9 DEF Create
<1>11. gc' = [gc EXCEPT !.sorters[stream] = next]
      BY <1>10
<1>12. scratch' \subseteq GcScratchNames
  <2>1. 0 < Slots
        BY ReclamationConstantsOK
  <2> QED BY <2>1, <1>1, <1>3, <1>10, RunNames, OtherBank
<1> HIDE DEF next
<1>13. /\ gc'.sorters = [gc.sorters EXCEPT ![stream] = next] /\ gc'.candidates = gc.candidates
       /\ gc'.phase = gc.phase
      BY <1>1, <1>11 DEF Attempt
<1>14. /\ gc'.sorters \in [Streams -> Sorter] /\ gc'.sorters[stream] = next
       /\ \A s \in Streams : s # stream => gc'.sorters[s] = gc.sorters[s]
      BY <1>3, <1>5, <1>13
<1>15. ScratchIsOwn'
  <2>1. \A f : f \in Sealed(gc.sorters) => f \in Sealed(gc'.sorters)
    <3>1. \A s \in Streams : gc'.sorters[s].runs = gc.sorters[s].runs
          BY <1>5, <1>14
    <3> QED BY <3>1, <1>3, <1>14, SealedIs
  <2>2. \A s \in Streams : gc.sorters[s].merging => gc'.sorters[s] = gc.sorters[s]
        BY <1>2, <1>14
  <2>3. gc'.sorters[stream].merging /\ file = ScratchRun(stream, Other(gc'.sorters[stream].bank), 0)
        BY <1>5, <1>14
  <2>4. ~Phase("validate")'
        BY <1>1, <1>13 DEF Phase, Streams
  <2>5. \A f \in scratch' :
            \/ f \in Sealed(gc'.sorters)
            \/ \E s \in Streams :
                gc'.sorters[s].merging /\ f = ScratchRun(s, Other(gc'.sorters[s].bank), 0)
            \/ f = Candidates /\ gc'.candidates # {}
    <3> SUFFICES ASSUME NEW f \in scratch \cup {file}
                 PROVE  \/ f \in Sealed(gc'.sorters)
                        \/ \E s \in Streams :
                            gc'.sorters[s].merging /\ f = ScratchRun(s, Other(gc'.sorters[s].bank), 0)
                        \/ f = Candidates /\ gc'.candidates # {}
        BY <1>10
    <3>1. CASE f = file
          BY <3>1, <2>3
    <3>2. CASE f \in Sealed(gc.sorters)
          BY <3>2, <2>1
    <3>3. CASE f = Candidates /\ gc.candidates # {}
          BY <3>3, <1>13
    <3>4. ASSUME NEW s \in Streams, gc.sorters[s].merging, f = ScratchRun(s, Other(gc.sorters[s].bank), 0)
          PROVE  gc'.sorters[s].merging /\ f = ScratchRun(s, Other(gc'.sorters[s].bank), 0)
          BY <3>4, <2>2
    <3> HIDE DEF file
    <3> QED BY <1>8, <3>1, <3>2, <3>3, <3>4
  <2> QED BY <2>4, <2>5 DEF ScratchIsOwn
<1> QED BY <1>2, <1>5, <1>6, <1>10, <1>11, <1>12, <1>15, SorterStep

\* A stream is sorted: what its sorter held goes to the next phase.
LEMMA FinishStep ==
    ASSUME GcSound, NEW stream \in Streams, Exhausted(stream),
           NEW next \in Sorter, SorterInOrder(next), ~next.merging,
           gc' = Finished([gc EXCEPT !.sorters[stream] = next], stream, Held(gc.sorters[stream])),
           Keep, outcome' = outcome, scratch' \subseteq scratch, ScratchIsOwn'
    PROVE  GcSound'
<1> DEFINE run == Held(gc.sorters[stream])
           moved == [gc.sorters EXCEPT ![stream] = next]
<1>1. gc \in Attempt /\ outcome = "none" /\ gc.phase = stream /\ scratch \subseteq GcScratchNames
      /\ \A s \in Streams : gc.sorters[s] \in Sorter /\ SorterInOrder(gc.sorters[s])
      BY InPhase DEF Exhausted, Streams
<1>2. moved \in [Streams -> Sorter] /\ moved[stream] = next
      /\ \A s \in Streams : s # stream => moved[s] = gc.sorters[s]
      BY <1>1 DEF Attempt
<1>3. run \subseteq Digests
  <2>1. gc.sorters[stream].buffer \subseteq Digests /\ Active(gc.sorters[stream]) \in Seq(SUBSET Digests)
        BY <1>1 DEF Sorter, Active
  <2> QED BY <2>1 DEF Held
<1>4. references' = references /\ objects' = objects /\ Referenced' = Referenced /\ objects \subseteq Digests
      BY KeepsReferenced DEF Keep, GcSound, GcTypeOK
<1> HIDE DEF run, moved
<1>5. CASE stream = "mark"
  <2>1. gc' = [gc EXCEPT !.sorters = moved, !.phase = "inventory", !.marks = run, !.unread = objects]
        BY <1>5 DEF Finished, run, moved
  <2>2. /\ gc' \in Attempt /\ gc'.phase = "inventory" /\ gc'.marks = run /\ gc'.unread = objects
        /\ gc'.sorters = moved /\ gc'.candidates = gc.candidates
        /\ gc'.unlinked = gc.unlinked /\ gc'.batch = gc.batch
        BY <1>1, <1>2, <1>3, <1>4, <2>1 DEF Attempt
  <2>3. /\ ~Phase("sweep")' /\ ~Phase("cover")' /\ ~Phase("validate")' /\ ~Phase("reclaim")'
        /\ ~Phase("cleanup")' /\ ~Phase("mark")' /\ Phase("inventory")'
        BY <2>2 DEF Phase
  <2>4. /\ run = {references[i] : i \in 1..gc.marked} \ {Inline}
        /\ gc.sorters["inventory"] = EmptySorter
        /\ gc.candidates = {} /\ gc.unlinked = {} /\ gc.batch = 0 /\ gc.marked = Len(references)
        BY <1>5 DEF GcSound, Gathered, Exhausted, run
  <2>5. run = Referenced
        BY <2>4 DEF GcSound, GcTypeOK, Referenced
  <2>6. moved["mark"] = next /\ moved["inventory"] = EmptySorter
        BY <1>2, <1>5, <2>4 DEF Streams
  <2>7. Gathered'
        BY <1>4, <2>2, <2>3, <2>4, <2>5, <2>6, EmptyHolds DEF Gathered
  <2>8. Reclaiming'
        BY <2>3 DEF Reclaiming
  <2>9. \A s \in Streams : SorterInOrder(gc'.sorters[s])
        BY <2>2, <2>6, EmptyHolds DEF Streams
  <2> QED BY <1>1, <2>2, <2>7, <2>8, <2>9, WithinSound
<1>6. CASE stream = "inventory"
  <2>1. gc' = [gc EXCEPT !.sorters = moved, !.phase = "cover", !.inventory = run]
        BY <1>6 DEF Finished, run, moved
  <2>2. /\ gc' \in Attempt /\ gc'.phase = "cover" /\ gc'.marks = gc.marks /\ gc'.inventory = run
        /\ gc'.sorters = moved /\ gc'.candidates = gc.candidates
        /\ gc'.unlinked = gc.unlinked /\ gc'.batch = gc.batch
        BY <1>1, <1>2, <1>3, <2>1 DEF Attempt
  <2>3. /\ ~Phase("sweep")' /\ Phase("cover")' /\ ~Phase("validate")' /\ ~Phase("reclaim")'
        /\ ~Phase("cleanup")' /\ ~Phase("mark")' /\ ~Phase("inventory")'
        BY <2>2 DEF Phase
  <2>4. /\ gc.marks = Referenced /\ run \cup gc.unread = objects /\ gc.unread = {}
        /\ ~gc.sorters["mark"].merging
        /\ gc.candidates = {} /\ gc.unlinked = {} /\ gc.batch = 0
        BY <1>6 DEF GcSound, Gathered, Exhausted, run
  <2>5. moved["inventory"] = next /\ moved["mark"] = gc.sorters["mark"]
        BY <1>2, <1>6 DEF Streams
  <2>6. \A s \in Streams : ~gc'.sorters[s].merging /\ SorterInOrder(gc'.sorters[s])
        BY <1>1, <2>2, <2>4, <2>5 DEF Streams
  <2>7. Gathered'
        BY <1>4, <2>2, <2>3, <2>4, <2>6 DEF Gathered
  <2>8. Reclaiming'
        BY <2>3 DEF Reclaiming
  <2> QED BY <1>1, <2>2, <2>6, <2>7, <2>8, WithinSound
<1> QED BY <1>5, <1>6 DEF Streams

LEMMA FinishEmptySound == ASSUME GcSound, NEW stream \in Streams, FinishEmpty(stream) PROVE GcSound'
<1> DEFINE old == gc.sorters[stream]
<1>1. gc \in Attempt /\ outcome = "none" /\ gc.phase = stream
      /\ \A s \in Streams : gc.sorters[s] \in Sorter /\ SorterInOrder(gc.sorters[s])
      BY InPhase DEF FinishEmpty, Streams
<1>2. Held(old) = {}
      BY <1>1 DEF FinishEmpty, Held, SorterInOrder
<1>3. gc = [gc EXCEPT !.sorters[stream] = old]
      BY <1>1 DEF Attempt
<1>4. gc' = Finished([gc EXCEPT !.sorters[stream] = old], stream, Held(old))
      BY <1>2, <1>3 DEF FinishEmpty
<1>5. Keep /\ outcome' = outcome /\ scratch' = scratch /\ ~old.merging /\ Exhausted(stream)
      BY DEF FinishEmpty
<1>6. ScratchIsOwn'
  <2>1. gc'.sorters = gc.sorters /\ gc'.candidates = gc.candidates /\ gc'.phase \in {"inventory", "cover"}
        BY <1>1 DEF FinishEmpty, Finished, Attempt
  <2>2. ~Phase("validate")'
        BY <2>1 DEF Phase
  <2>3. Phase("mark") \/ Phase("inventory")
        BY <1>1 DEF Phase, Streams
  <2> QED BY <1>5, <2>1, <2>2, <2>3 DEF GcSound, ScratchIsOwn
<1> QED BY <1>1, <1>4, <1>5, <1>6, FinishStep

\* The inputs of a merge are exactly the files of the bank that is left.
LEMMA SwapSound == ASSUME GcSound, NEW stream \in Streams, SwapBanks(stream) PROVE GcSound'
<1> DEFINE old == gc.sorters[stream]
           next == Swapped(old)
<1>1. gc \in Attempt /\ outcome = "none" /\ gc.phase = stream /\ scratch \subseteq GcScratchNames
      /\ \A s \in Streams : gc.sorters[s] \in Sorter /\ SorterInOrder(gc.sorters[s])
      BY InPhase DEF SwapBanks, Streams
<1>2. old.merging /\ Phase(stream) /\ Keep /\ outcome' = outcome
      /\ scratch' = scratch \ RunFiles(stream, old.bank, old)
      BY DEF SwapBanks
<1>3. /\ next \in Sorter /\ SorterInOrder(next) /\ Held(next) = Held(old)
      /\ ~next.merging /\ next.bank = Other(old.bank) /\ Len(Active(next)) = 1
      /\ next.runs[old.bank] = << >>
      /\ old.buffered = 0 => Active(next)[1] = Held(old)
      BY <1>1, <1>2, SwappedHolds
<1>4. gc.sorters \in [Streams -> Sorter] /\ old.bank \in Banks /\ old.runs[Other(old.bank)] = << >>
      BY <1>1 DEF Attempt, Sorter, SorterInOrder
<1>5. gc' = IF Exhausted(stream) /\ old.buffered = 0
            THEN Finished([gc EXCEPT !.sorters[stream] = next], stream, Active(next)[1])
            ELSE [gc EXCEPT !.sorters[stream] = next]
      BY DEF SwapBanks
<1> HIDE DEF next
<1>6. /\ gc'.sorters = [gc.sorters EXCEPT ![stream] = next] /\ gc'.candidates = gc.candidates
      /\ gc'.phase \in {"mark", "inventory", "cover"}
  <2>1. CASE Exhausted(stream) /\ old.buffered = 0
        BY <1>1, <1>5, <2>1 DEF Finished, Attempt
  <2>2. CASE ~(Exhausted(stream) /\ old.buffered = 0)
        BY <1>1, <1>5, <2>2 DEF Attempt, Streams
  <2> QED BY <2>1, <2>2
<1>7. /\ gc'.sorters \in [Streams -> Sorter] /\ gc'.sorters[stream] = next
      /\ \A s \in Streams : s # stream => gc'.sorters[s] = gc.sorters[s]
      BY <1>3, <1>4, <1>6
<1>8. ScratchIsOwn'
  <2>1. ~Phase("validate")'
        BY <1>6 DEF Phase
  <2>2. \A f : f \in Sealed(gc.sorters) /\ f \notin RunFiles(stream, old.bank, old) => f \in Sealed(gc'.sorters)
    <3> SUFFICES ASSUME NEW s \in Streams, NEW b \in Banks, NEW i \in 1..Len(gc.sorters[s].runs[b]),
                        ScratchRun(s, b, i - 1) \notin RunFiles(stream, old.bank, old)
                 PROVE  ScratchRun(s, b, i - 1) \in Sealed(gc'.sorters)
        BY <1>4, SealedIs
    <3>1. CASE s # stream
          BY <3>1, <1>7, SealedIs
    <3>2. CASE s = stream /\ b = old.bank
      <4>1. i \in DOMAIN old.runs[old.bank]
            BY <3>2, <1>1 DEF Sorter
      <4>2. ScratchRun(s, b, i - 1) \in RunFiles(stream, old.bank, old)
            BY <3>2, <4>1 DEF RunFiles
      <4> QED BY <4>2
    <3>3. CASE s = stream /\ b # old.bank
      <4>1. b = Other(old.bank)
            BY <3>3, <1>4 DEF Other, Banks
      <4>2. Len(old.runs[b]) = 0
            BY <4>1, <1>4
      <4> QED BY <3>3, <4>2
    <3> QED BY <3>1, <3>2, <3>3
  <2>3. ScratchRun(stream, Other(old.bank), 0) \in Sealed(gc'.sorters)
    <3>1. Len(next.runs[Other(old.bank)]) = 1 /\ Other(old.bank) \in Banks
          BY <1>3, <1>4, OtherBank DEF Active
    <3>2. 1 \in 1..Len(next.runs[Other(old.bank)]) /\ 1 - 1 = 0
          BY <3>1
    <3>3. \E i \in 1..Len(gc'.sorters[stream].runs[Other(old.bank)]) :
            ScratchRun(stream, Other(old.bank), 0) = ScratchRun(stream, Other(old.bank), i - 1)
      <4>1. gc'.sorters[stream].runs[Other(old.bank)] = next.runs[Other(old.bank)]
            BY <1>7
      <4> QED BY <3>2, <4>1
    <3> QED BY <3>1, <3>3, <1>7, SealedIs
  <2>4. \A f \in scratch :
            \/ f \in Sealed(gc.sorters)
            \/ \E s \in Streams :
                gc.sorters[s].merging /\ f = ScratchRun(s, Other(gc.sorters[s].bank), 0)
            \/ f = Candidates /\ gc.candidates # {}
        BY <1>2 DEF GcSound, ScratchIsOwn, Streams
  <2>5. ASSUME NEW f \in scratch'
        PROVE  \/ f \in Sealed(gc'.sorters)
               \/ \E s \in Streams :
                   gc'.sorters[s].merging /\ f = ScratchRun(s, Other(gc'.sorters[s].bank), 0)
               \/ f = Candidates /\ gc'.candidates # {}
    <3>0. f \in scratch /\ f \notin RunFiles(stream, old.bank, old)
          BY <1>2
    <3>1. CASE f \in Sealed(gc.sorters)
          BY <3>0, <3>1, <2>2
    <3>2. CASE f = Candidates /\ gc.candidates # {}
          BY <3>2, <1>6
    <3>3. ASSUME NEW s \in Streams, gc.sorters[s].merging, f = ScratchRun(s, Other(gc.sorters[s].bank), 0)
          PROVE  \/ f \in Sealed(gc'.sorters)
                 \/ gc'.sorters[s].merging /\ f = ScratchRun(s, Other(gc'.sorters[s].bank), 0)
          BY <3>3, <2>3, <1>7
    <3> QED BY <3>0, <3>1, <3>2, <3>3, <2>4
  <2> QED BY <2>1, <2>5 DEF ScratchIsOwn
<1>9. scratch' \subseteq scratch
      BY <1>2
<1>10. CASE Exhausted(stream) /\ old.buffered = 0
  <2>1. gc' = Finished([gc EXCEPT !.sorters[stream] = next], stream, Held(gc.sorters[stream]))
        BY <1>3, <1>5, <1>10
  <2> QED BY <2>1, <1>2, <1>3, <1>8, <1>9, <1>10, FinishStep
<1>11. CASE ~(Exhausted(stream) /\ old.buffered = 0)
  <2>1. gc' = [gc EXCEPT !.sorters[stream] = next]
        BY <1>5, <1>11
  <2> QED BY <2>1, <1>1, <1>2, <1>3, <1>8, <1>9, SorterStep
<1> QED BY <1>10, <1>11

-------------------------------------------------------------------------------
(* Comparing *)

\* What the comparison has settled, and what the files of its phase are.
LEMMA InCover ==
    ASSUME GcSound, Phase("cover")
    PROVE  /\ gc \in Attempt /\ outcome = "none" /\ gc.phase = "cover"
           /\ \A s \in Streams : SorterInOrder(gc.sorters[s]) /\ ~gc.sorters[s].merging
           /\ gc.marks \subseteq Referenced /\ gc.candidates \cap Referenced = {}
           /\ (Referenced \ gc.marks) \cap gc.inventory = {}
           /\ objects = gc.inventory \cup gc.candidates \cup (Referenced \ gc.marks)
           /\ gc.unlinked = {} /\ gc.batch = 0
           /\ gc.marks \in SUBSET Digests /\ gc.inventory \in SUBSET Digests
           /\ gc.candidates \in SUBSET Digests
           /\ \A f \in scratch : f \in Sealed(gc.sorters) \/ (f = Candidates /\ gc.candidates # {})
           /\ scratch \subseteq GcScratchNames
<1>1. gc \in Attempt /\ outcome = "none" /\ gc.phase = "cover" /\ scratch \subseteq GcScratchNames
      /\ \A s \in Streams : SorterInOrder(gc.sorters[s])
      BY InPhase
<1>2. /\ gc.marks \subseteq Referenced /\ gc.candidates \cap Referenced = {}
      /\ (Referenced \ gc.marks) \cap gc.inventory = {}
      /\ objects = gc.inventory \cup gc.candidates \cup (Referenced \ gc.marks)
      /\ \A s \in Streams : ~gc.sorters[s].merging
      /\ gc.unlinked = {} /\ gc.batch = 0
      BY DEF GcSound, Gathered
<1>3. \A f \in scratch : f \in Sealed(gc.sorters) \/ (f = Candidates /\ gc.candidates # {})
      BY <1>2 DEF GcSound, ScratchIsOwn
<1>4. gc.marks \in SUBSET Digests /\ gc.inventory \in SUBSET Digests /\ gc.candidates \in SUBSET Digests
      BY <1>1 DEF Attempt
<1> QED BY <1>1, <1>2, <1>3, <1>4

\* A step of the comparison, given what it makes of its three sets.
LEMMA CoverStep ==
    ASSUME GcSound, Phase("cover"), Keep, outcome' = outcome,
           NEW marks \in SUBSET Digests, NEW inventory \in SUBSET Digests, NEW candidates \in SUBSET Digests,
           gc' = [gc EXCEPT !.marks = marks, !.inventory = inventory, !.candidates = candidates],
           marks \subseteq Referenced, candidates \cap Referenced = {},
           (Referenced \ marks) \cap inventory = {},
           objects = inventory \cup candidates \cup (Referenced \ marks),
           gc.candidates # {} => candidates # {},
           scratch' = scratch \/ (scratch' = scratch \cup {Candidates} /\ candidates # {})
    PROVE  GcSound'
<1>1. /\ gc \in Attempt /\ outcome = "none" /\ gc.phase = "cover"
      /\ \A s \in Streams : SorterInOrder(gc.sorters[s]) /\ ~gc.sorters[s].merging
      /\ gc.unlinked = {} /\ gc.batch = 0
      /\ \A f \in scratch : f \in Sealed(gc.sorters) \/ (f = Candidates /\ gc.candidates # {})
      /\ scratch \subseteq GcScratchNames
      BY InCover
<1>2. /\ gc' \in Attempt /\ gc'.phase = "cover" /\ gc'.marks = marks /\ gc'.inventory = inventory
      /\ gc'.sorters = gc.sorters /\ gc'.candidates = candidates
      /\ gc'.unlinked = {} /\ gc'.batch = 0
      BY <1>1 DEF Attempt
<1>3. /\ ~Phase("sweep")' /\ Phase("cover")' /\ ~Phase("validate")' /\ ~Phase("reclaim")'
      /\ ~Phase("cleanup")' /\ ~Phase("mark")' /\ ~Phase("inventory")'
      BY <1>2 DEF Phase
<1>4. objects' = objects /\ Referenced' = Referenced
      BY KeepsReferenced DEF Keep
<1>5. Gathered'
      BY <1>1, <1>2, <1>3, <1>4 DEF Gathered
<1>6. Reclaiming'
      BY <1>3 DEF Reclaiming
<1>7. ScratchIsOwn'
      BY <1>1, <1>2, <1>3 DEF ScratchIsOwn
<1>8. scratch' \subseteq GcScratchNames
      BY <1>1, RunNames
<1> QED BY <1>1, <1>2, <1>5, <1>6, <1>7, <1>8, WithinSound

LEMMA ReachableSound == ASSUME GcSound, CoverReachable PROVE GcSound'
<1> DEFINE m == Min(gc.marks)
           marks == gc.marks \ {m}
           inventory == gc.inventory \ {m}
<1>1. Phase("cover") /\ gc.marks # {} /\ gc.inventory # {} /\ Min(gc.marks) = Min(gc.inventory)
      /\ Keep /\ scratch' = scratch /\ outcome' = outcome
      BY DEF CoverReachable
<1>2. /\ gc \in Attempt
      /\ gc.marks \subseteq Referenced /\ gc.candidates \cap Referenced = {}
      /\ (Referenced \ gc.marks) \cap gc.inventory = {}
      /\ objects = gc.inventory \cup gc.candidates \cup (Referenced \ gc.marks)
      /\ gc.marks \in SUBSET Digests /\ gc.inventory \in SUBSET Digests
      /\ gc.candidates \in SUBSET Digests
      BY <1>1, InCover
<1>3. m \in gc.marks /\ m \in gc.inventory
      BY <1>1, <1>2, MinIsLeast
<1>4. gc' = [gc EXCEPT !.marks = marks, !.inventory = inventory, !.candidates = gc.candidates]
      BY <1>1, <1>2 DEF CoverReachable, Attempt
<1> HIDE DEF m
<1>5. /\ marks \subseteq Referenced /\ (Referenced \ marks) \cap inventory = {}
      /\ objects = inventory \cup gc.candidates \cup (Referenced \ marks)
      /\ marks \in SUBSET Digests /\ inventory \in SUBSET Digests
      BY <1>2, <1>3
<1> HIDE DEF marks, inventory
<1> QED BY <1>1, <1>2, <1>4, <1>5, CoverStep

LEMMA CandidateSound == ASSUME GcSound, CoverCandidate PROVE GcSound'
<1> DEFINE m == Min(gc.inventory)
           inventory == gc.inventory \ {m}
           candidates == gc.candidates \cup {m}
           emitted == [gc EXCEPT !.inventory = inventory, !.candidates = candidates]
<1>1. Phase("cover") /\ Keep /\ gc.inventory # {} /\ \A y \in gc.marks : m < y
      BY DEF CoverCandidate, Ahead
<1>2. /\ gc \in Attempt
      /\ gc.marks \subseteq Referenced /\ gc.candidates \cap Referenced = {}
      /\ (Referenced \ gc.marks) \cap gc.inventory = {}
      /\ objects = gc.inventory \cup gc.candidates \cup (Referenced \ gc.marks)
      /\ gc.marks \in SUBSET Digests /\ gc.inventory \in SUBSET Digests
      /\ gc.candidates \in SUBSET Digests
      /\ \A f \in scratch : f \in Sealed(gc.sorters) \/ (f = Candidates /\ gc.candidates # {})
      BY <1>1, InCover
<1>3. m \in gc.inventory /\ m \notin gc.marks /\ m \in Digests
  <2>1. m \in gc.inventory
        BY <1>1, <1>2, MinIsLeast
  <2>2. m \in Nat
        BY <2>1, <1>2, ReclamationConstantsOK
  <2> QED BY <2>1, <2>2, <1>1, <1>2
<1>4. IF gc.candidates = {}
      THEN Create(Candidates, emitted)
      ELSE gc' = emitted /\ UNCHANGED <<scratch, outcome>>
      BY DEF CoverCandidate
<1> HIDE DEF m
<1>5. /\ (Referenced \ gc.marks) \cap inventory = {} /\ candidates \cap Referenced = {}
      /\ objects = inventory \cup candidates \cup (Referenced \ gc.marks)
      /\ candidates \in SUBSET Digests /\ inventory \in SUBSET Digests /\ candidates # {}
      BY <1>2, <1>3
<1>6. Candidates \notin scratch \/ gc.candidates # {}
  <2>1. gc.sorters \in [Streams -> Sorter]
        BY <1>2 DEF Attempt
  <2>2. Candidates \notin Sealed(gc.sorters)
        BY <2>1, SealedIs, RunNames
  <2> QED BY <1>2, <2>2
<1>7. gc' = emitted /\ outcome' = outcome
      /\ (scratch' = scratch \/ scratch' = scratch \cup {Candidates})
      BY <1>4, <1>6 DEF Create
<1>8. gc' = [gc EXCEPT !.marks = gc.marks, !.inventory = inventory, !.candidates = candidates]
      BY <1>2, <1>7 DEF Attempt
<1> HIDE DEF inventory, candidates
<1> QED BY <1>1, <1>2, <1>5, <1>7, <1>8, CoverStep

LEMMA CoverDoneSound == ASSUME GcSound, CoverDone PROVE GcSound'
<1> DEFINE fresh == [s \in Streams |-> EmptySorter]
<1>1. Phase("cover") /\ gc.marks = {} /\ gc.inventory = {} /\ Keep /\ outcome' = outcome
      /\ scratch' = scratch \ Sealed(gc.sorters)
      /\ gc' = [gc EXCEPT !.phase = "validate", !.sorters = fresh]
      BY DEF CoverDone
<1>2. /\ gc \in Attempt /\ outcome = "none"
      /\ gc.marks \subseteq Referenced /\ gc.candidates \cap Referenced = {}
      /\ objects = gc.inventory \cup gc.candidates \cup (Referenced \ gc.marks)
      /\ gc.unlinked = {} /\ gc.batch = 0
      /\ \A f \in scratch : f \in Sealed(gc.sorters) \/ (f = Candidates /\ gc.candidates # {})
      /\ scratch \subseteq GcScratchNames
      BY <1>1, InCover
<1>3. fresh \in [Streams -> Sorter] /\ \A s \in Streams : fresh[s] = EmptySorter
      BY EmptyHolds
<1> HIDE DEF fresh
<1>4. /\ gc' \in Attempt /\ gc'.phase = "validate" /\ gc'.sorters = fresh
      /\ gc'.candidates = gc.candidates /\ gc'.unlinked = {} /\ gc'.batch = 0
      BY <1>1, <1>2, <1>3 DEF Attempt
<1>5. /\ ~Phase("sweep")' /\ ~Phase("cover")' /\ Phase("validate")' /\ ~Phase("reclaim")'
      /\ ~Phase("cleanup")' /\ ~Phase("mark")' /\ ~Phase("inventory")'
      BY <1>4 DEF Phase
<1>6. objects' = objects /\ Referenced' = Referenced
      BY <1>1, KeepsReferenced DEF Keep
<1>7. Referenced \subseteq objects /\ gc.candidates = objects \ Referenced
      BY <1>1, <1>2
<1>8. Gathered' /\ Reclaiming'
      BY <1>4, <1>5, <1>6, <1>7 DEF Gathered, Reclaiming
<1>9. scratch' \subseteq {Candidates} /\ scratch' \subseteq GcScratchNames
      BY <1>1, <1>2
<1>10. ScratchIsOwn'
      BY <1>5, <1>9 DEF ScratchIsOwn
<1> QED BY <1>1, <1>2, <1>3, <1>4, <1>8, <1>9, <1>10, EmptyHolds, WithinSound

-------------------------------------------------------------------------------
(* Reclaiming *)

LEMMA ValidateSound == ASSUME GcSound, Validate PROVE GcSound'
<1> DEFINE files == gc.candidates \cap objects
           next == [gc EXCEPT !.phase = "reclaim", !.validated = files]
<1>1. Phase("validate") /\ Keep
      /\ IF files = {}
         THEN gc' = next /\ UNCHANGED <<scratch, outcome>>
         ELSE Create(Validated, next)
      BY DEF Validate
<1>2. gc \in Attempt /\ outcome = "none" /\ scratch \subseteq GcScratchNames
      /\ \A s \in Streams : SorterInOrder(gc.sorters[s])
      BY <1>1, InPhase
<1>3. /\ Referenced \subseteq objects /\ gc.candidates = objects \ Referenced
      /\ gc.unlinked = {} /\ gc.batch = 0 /\ scratch \subseteq {Candidates}
      BY <1>1 DEF GcSound, Gathered, ScratchIsOwn
<1>4. files \in SUBSET Digests /\ objects = Referenced \cup files /\ files \cap Referenced = {}
      BY <1>2, <1>3 DEF Attempt
<1> HIDE DEF files
<1>5. gc' = next /\ outcome' = outcome /\ scratch' \subseteq GcScratchNames
      BY <1>1, <1>2, <1>3, RunNames DEF Create
<1>6. /\ gc' \in Attempt /\ gc'.phase = "reclaim" /\ gc'.validated = files
      /\ gc'.sorters = gc.sorters /\ gc'.unlinked = {} /\ gc'.batch = 0
      BY <1>2, <1>3, <1>4, <1>5 DEF Attempt
<1>7. /\ ~Phase("sweep")' /\ ~Phase("cover")' /\ ~Phase("validate")' /\ Phase("reclaim")'
      /\ ~Phase("cleanup")' /\ ~Phase("mark")' /\ ~Phase("inventory")'
      BY <1>6 DEF Phase
<1>8. objects' = objects /\ Referenced' = Referenced
      BY <1>1, KeepsReferenced DEF Keep
<1>9. Gathered' /\ ScratchIsOwn'
      BY <1>7 DEF Gathered, ScratchIsOwn
<1>10. Reclaiming'
      BY <1>4, <1>6, <1>7, <1>8 DEF Reclaiming
<1> QED BY <1>1, <1>2, <1>5, <1>6, <1>9, <1>10, WithinSound

\* What is known while files are unlinked.
LEMMA InReclaim ==
    ASSUME GcSound, Phase("reclaim")
    PROVE  /\ gc \in Attempt /\ outcome = "none" /\ gc.phase = "reclaim"
           /\ \A s \in Streams : SorterInOrder(gc.sorters[s])
           /\ objects = Referenced \cup gc.validated /\ gc.validated \cap Referenced = {}
           /\ gc.unlinked \cap objects = {}
           /\ gc.batch = 0 => gc.unlinked \cap unsynced = {}
           /\ gc.validated \in SUBSET Digests /\ gc.unlinked \in SUBSET Digests /\ gc.batch \in Nat
           /\ reclaimed \cap (objects \cup unsynced) = {}
           /\ objects \subseteq Digests /\ unsynced \subseteq Digests
<1>1. gc \in Attempt /\ outcome = "none" /\ gc.phase = "reclaim"
      /\ \A s \in Streams : SorterInOrder(gc.sorters[s])
      BY InPhase
<1> QED BY <1>1 DEF GcSound, GcTypeOK, Reclaiming, ReclaimedStaysGone, Attempt

\* A step of the reclamation, given what it makes of the files and the attempt.
LEMMA ReclaimStep ==
    ASSUME GcSound, Phase("reclaim"), gc' \in Attempt, Phase("reclaim")' \/ Phase("cleanup")',
           gc'.sorters = gc.sorters, Reclaiming', ReclaimedStaysGone',
           objects' \subseteq Digests, unsynced' \subseteq Digests,
           UNCHANGED <<references, current, scratch, attempts, outcome, reclaimed>>
    PROVE  GcSound'
<1>1. gc \in Attempt /\ outcome = "none" /\ \A s \in Streams : SorterInOrder(gc.sorters[s])
      BY InReclaim
<1>2. /\ ~Phase("sweep")' /\ ~Phase("cover")' /\ ~Phase("validate")'
      /\ ~Phase("mark")' /\ ~Phase("inventory")'
      BY DEF Phase
<1>3. GcTypeOK'
      BY DEF GcSound, GcTypeOK
<1>4. Gathered' /\ ScratchIsOwn'
      BY <1>2 DEF Gathered, ScratchIsOwn
<1>5. SuccessIsExact' /\ ScratchNeverInTheWay'
      BY <1>1 DEF SuccessIsExact, ScratchNeverInTheWay
<1> QED BY <1>1, <1>3, <1>4, <1>5 DEF GcSound

LEMMA UnlinkSound == ASSUME GcSound, Unlink PROVE GcSound' /\ Referenced \cap objects \subseteq objects'
<1> DEFINE m == Min(gc.validated)
<1>1. /\ Phase("reclaim") /\ gc.validated # {}
      /\ gc' = [gc EXCEPT !.validated = @ \ {m}, !.unlinked = @ \cup {m}, !.batch = @ + 1]
      /\ objects' = objects \ {m} /\ unsynced' = unsynced \cup {m}
      /\ UNCHANGED <<references, current, scratch, attempts, outcome, reclaimed>>
      BY DEF Unlink
<1>2. /\ gc \in Attempt /\ gc.phase = "reclaim"
      /\ objects = Referenced \cup gc.validated /\ gc.validated \cap Referenced = {}
      /\ gc.unlinked \cap objects = {}
      /\ gc.validated \in SUBSET Digests /\ gc.unlinked \in SUBSET Digests /\ gc.batch \in Nat
      /\ reclaimed \cap (objects \cup unsynced) = {}
      /\ objects \subseteq Digests /\ unsynced \subseteq Digests
      BY <1>1, InReclaim
<1>3. m \in gc.validated /\ m \in Digests
      BY <1>1, <1>2, MinIsLeast
<1> HIDE DEF m
<1>4. /\ gc' \in Attempt /\ gc'.phase = "reclaim" /\ gc'.validated = gc.validated \ {m}
      /\ gc'.sorters = gc.sorters /\ gc'.unlinked = gc.unlinked \cup {m} /\ gc'.batch = gc.batch + 1
  <2>1. gc.validated \ {m} \in SUBSET Digests /\ gc.unlinked \cup {m} \in SUBSET Digests /\ gc.batch + 1 \in Nat
        BY <1>2, <1>3
  <2> QED BY <2>1, <1>1, <1>2 DEF Attempt
<1>5. Phase("reclaim")' /\ ~Phase("cleanup")' /\ Referenced' = Referenced /\ gc'.batch # 0
      BY <1>1, <1>2, <1>4, KeepsReferenced DEF Phase
<1>6. Reclaiming'
      BY <1>1, <1>2, <1>3, <1>4, <1>5 DEF Reclaiming
<1>7. ReclaimedStaysGone'
      BY <1>1, <1>2, <1>3 DEF ReclaimedStaysGone
<1>8. objects' \subseteq Digests /\ unsynced' \subseteq Digests
      BY <1>1, <1>2, <1>3
<1>9. Referenced \cap objects \subseteq objects'
      BY <1>1, <1>2, <1>3
<1> QED BY <1>1, <1>4, <1>5, <1>6, <1>7, <1>8, <1>9, ReclaimStep

LEMMA SyncBatchSound == ASSUME GcSound, SyncBatch PROVE GcSound'
<1>1. /\ Phase("reclaim") /\ gc' = [gc EXCEPT !.batch = 0] /\ unsynced' = {}
      /\ UNCHANGED <<references, current, objects, scratch, attempts, outcome, reclaimed>>
      BY DEF SyncBatch
<1>2. /\ gc \in Attempt /\ gc.phase = "reclaim"
      /\ objects = Referenced \cup gc.validated /\ gc.validated \cap Referenced = {}
      /\ gc.unlinked \cap objects = {}
      /\ reclaimed \cap (objects \cup unsynced) = {} /\ objects \subseteq Digests
      BY <1>1, InReclaim
<1>3. /\ gc' \in Attempt /\ gc'.phase = "reclaim" /\ gc'.validated = gc.validated
      /\ gc'.sorters = gc.sorters /\ gc'.unlinked = gc.unlinked
      BY <1>1, <1>2 DEF Attempt
<1>4. Phase("reclaim")' /\ ~Phase("cleanup")' /\ Referenced' = Referenced
      BY <1>1, <1>3, KeepsReferenced DEF Phase
<1>5. Reclaiming' /\ ReclaimedStaysGone'
      BY <1>1, <1>2, <1>3, <1>4 DEF Reclaiming, ReclaimedStaysGone
<1> QED BY <1>1, <1>2, <1>3, <1>4, <1>5, ReclaimStep

LEMMA ReclaimedSound == ASSUME GcSound, Reclaimed PROVE GcSound'
<1>1. /\ Phase("reclaim") /\ gc.validated = {} /\ gc' = [gc EXCEPT !.phase = "cleanup"]
      /\ unsynced' = IF gc.batch > 0 THEN {} ELSE unsynced
      /\ UNCHANGED <<references, current, objects, scratch, attempts, outcome, reclaimed>>
      BY DEF Reclaimed
<1>2. /\ gc \in Attempt /\ gc.phase = "reclaim"
      /\ objects = Referenced \cup gc.validated
      /\ gc.unlinked \cap objects = {} /\ gc.batch \in Nat
      /\ gc.batch = 0 => gc.unlinked \cap unsynced = {}
      /\ reclaimed \cap (objects \cup unsynced) = {}
      /\ objects \subseteq Digests /\ unsynced \subseteq Digests
      BY <1>1, InReclaim
<1>3. /\ gc' \in Attempt /\ gc'.phase = "cleanup"
      /\ gc'.sorters = gc.sorters /\ gc'.unlinked = gc.unlinked
      BY <1>1, <1>2 DEF Attempt
<1>4. ~Phase("reclaim")' /\ Phase("cleanup")' /\ Referenced' = Referenced
      BY <1>1, <1>3, KeepsReferenced DEF Phase
<1>5. gc.unlinked \cap unsynced' = {} /\ unsynced' \subseteq unsynced
      BY <1>1, <1>2
<1>6. Reclaiming' /\ ReclaimedStaysGone'
      BY <1>1, <1>2, <1>3, <1>4, <1>5 DEF Reclaiming, ReclaimedStaysGone
<1> QED BY <1>1, <1>2, <1>3, <1>4, <1>5, <1>6, ReclaimStep

LEMMA EndSound == ASSUME GcSound, EndCollection PROVE GcSound'
<1>1. /\ Phase("cleanup") /\ scratch' = scratch \ GcScratchNames /\ reclaimed' = reclaimed \cup gc.unlinked
      /\ gc' = GcIdle /\ outcome' = "success"
      /\ UNCHANGED <<references, current, objects, unsynced, attempts>>
      BY DEF EndCollection, Stop
<1>2. gc \in Attempt /\ outcome = "none"
      BY <1>1, InPhase
<1>3. objects = Referenced /\ gc.unlinked \cap (objects \cup unsynced) = {} /\ gc.unlinked \subseteq Digests
      BY <1>1, <1>2 DEF GcSound, Reclaiming, Attempt
<1>4. Referenced' = Referenced
      BY <1>1, KeepsReferenced
<1>5. SuccessIsExact' /\ ScratchNeverInTheWay' /\ ReclaimedStaysGone'
      BY <1>1, <1>3, <1>4 DEF GcSound, SuccessIsExact, ScratchNeverInTheWay, ReclaimedStaysGone
<1>6. GcTypeOK'
      BY <1>1, <1>3 DEF GcSound, GcTypeOK
<1> QED BY <1>1, <1>5, <1>6, StopSound

-------------------------------------------------------------------------------
(* Between attempts *)

LEMMA PowerLostSound == ASSUME GcSound, PowerLost PROVE GcSound' /\ objects \subseteq objects'
<1>1. PICK back \in SUBSET unsynced : objects' = objects \cup back
      BY DEF PowerLost
<1>2. /\ gc' = GcIdle /\ outcome' = "none" /\ unsynced' = {} /\ scratch' \in {{}, scratch, GcScratchNames}
      /\ UNCHANGED <<references, current, attempts, reclaimed>>
      BY DEF PowerLost, Stop
<1>3. GcTypeOK'
      BY <1>1, <1>2 DEF GcSound, GcTypeOK
<1>4. SuccessIsExact' /\ ScratchNeverInTheWay' /\ ReclaimedStaysGone'
      BY <1>1, <1>2 DEF GcSound, SuccessIsExact, ScratchNeverInTheWay, ReclaimedStaysGone
<1> QED BY <1>1, <1>2, <1>3, <1>4, StopSound

LEMMA CommitSound == ASSUME GcSound, CommitReference PROVE GcSound' /\ objects \subseteq objects'
<1>1. PICK digest \in Digests, own \in BOOLEAN :
        /\ references' = Append(references, digest)
        /\ objects' = objects \cup {digest}
        /\ unsynced' = unsynced \ {digest}
        /\ reclaimed' = reclaimed \ {digest}
        /\ current' = own
      BY DEF CommitReference
<1>2. outcome' = "none" /\ UNCHANGED <<scratch, gc, attempts>> /\ gc = GcIdle
  <2>1. gc = GcIdle
        BY IdleOrAttempt DEF CommitReference, GcSound
  <2> QED BY <2>1 DEF CommitReference
<1>3. GcTypeOK'
      BY <1>1, <1>2 DEF GcSound, GcTypeOK
<1>4. SuccessIsExact' /\ ScratchNeverInTheWay' /\ ReclaimedStaysGone'
      BY <1>1, <1>2 DEF GcSound, SuccessIsExact, ScratchNeverInTheWay, ReclaimedStaysGone
<1> QED BY <1>1, <1>2, <1>3, <1>4, StopSound

LEMMA RepublishSound == ASSUME GcSound, Republish PROVE GcSound'
<1>1. current' = TRUE /\ UNCHANGED <<references, objects, unsynced, scratch, gc, attempts, outcome, reclaimed>>
      BY DEF Republish
<1>2. gc = GcIdle
      BY IdleOrAttempt DEF Republish, GcSound
<1>3. Referenced' = Referenced
      BY <1>1, KeepsReferenced
<1>4. GcTypeOK' /\ SuccessIsExact' /\ ScratchNeverInTheWay' /\ ReclaimedStaysGone'
      BY <1>1, <1>3 DEF GcSound, GcTypeOK, SuccessIsExact, ScratchNeverInTheWay, ReclaimedStaysGone
<1> QED BY <1>1, <1>2, <1>4, StopSound

-------------------------------------------------------------------------------
(* All steps of a collection *)

\* Steps that leave objects/ alone.
LEMMA KeepSound ==
    ASSUME GcSound,
           \/ BeginCollection \/ SweepScratch \/ MarkOperation \/ TipDiffers \/ ReadName
           \/ \E stream \in Streams :
                FlushChunk(stream) \/ MergeRuns(stream) \/ SwapBanks(stream) \/ FinishEmpty(stream)
           \/ CoverReachable \/ CoverCandidate \/ CoverMissing \/ CoverDone
           \/ Validate \/ SyncBatch \/ Reclaimed \/ EndCollection \/ Fails \/ Killed \/ Republish
    PROVE  GcSound' /\ objects' = objects
<1>0. scratch \subseteq GcScratchNames
      BY DEF GcSound, GcTypeOK
<1>1. CASE TipDiffers
  <2>1. Keep /\ gc' = GcIdle /\ outcome' = "authoritative" /\ scratch' = scratch
        BY <1>1 DEF TipDiffers, Stop
  <2> QED BY <1>0, <2>1, FailureSound DEF Keep
<1>2. CASE CoverMissing
  <2>1. Keep /\ gc' = GcIdle /\ outcome' = "authoritative" /\ scratch' = scratch
        BY <1>2 DEF CoverMissing, Stop
  <2> QED BY <1>0, <2>1, FailureSound DEF Keep
<1>3. CASE Fails
  <2>1. Keep /\ gc' = GcIdle /\ outcome' \in {"maintenance", "authoritative"} /\ scratch' \subseteq scratch
        BY <1>3 DEF Fails, Stop
  <2> QED BY <1>0, <2>1, FailureSound DEF Keep
<1>4. CASE Killed
  <2>1. Keep /\ gc' = GcIdle /\ outcome' = "none" /\ scratch' = scratch
        BY <1>4 DEF Killed, Stop
  <2> QED BY <1>0, <2>1, FailureSound DEF Keep
<1>5. CASE BeginCollection \/ SweepScratch \/ MarkOperation \/ ReadName
      BY <1>5, BeginSound, SweepSound, MarkSound, ReadSound
         DEF BeginCollection, SweepScratch, MarkOperation, ReadName, Keep
<1>6. ASSUME NEW stream \in Streams,
             FlushChunk(stream) \/ MergeRuns(stream) \/ SwapBanks(stream) \/ FinishEmpty(stream)
      PROVE  GcSound' /\ objects' = objects
      BY <1>6, FlushSound, MergeSound, SwapSound, FinishEmptySound
         DEF FlushChunk, MergeRuns, SwapBanks, FinishEmpty, Keep
<1>7. CASE CoverReachable \/ CoverCandidate \/ CoverDone \/ Validate
      BY <1>7, ReachableSound, CandidateSound, CoverDoneSound, ValidateSound
         DEF CoverReachable, CoverCandidate, CoverDone, Validate, Keep
<1>8. CASE SyncBatch \/ Reclaimed \/ EndCollection \/ Republish
      BY <1>8, SyncBatchSound, ReclaimedSound, EndSound, RepublishSound
         DEF SyncBatch, Reclaimed, EndCollection, Republish
<1> QED BY <1>1, <1>2, <1>3, <1>4, <1>5, <1>6, <1>7, <1>8

LEMMA GcStep == ASSUME GcSound, GcNext PROVE GcSound' /\ Referenced \cap objects \subseteq objects'
<1>1. CASE Unlink
      BY <1>1, UnlinkSound
<1>2. CASE PowerLost
      BY <1>2, PowerLostSound
<1>3. CASE CommitReference
      BY <1>3, CommitSound
<1>4. CASE ~Unlink /\ ~PowerLost /\ ~CommitReference
  <2>1. GcSound' /\ objects' = objects
        BY <1>4, KeepSound DEF GcNext
  <2> QED BY <2>1
<1> QED BY <1>1, <1>2, <1>3, <1>4

\* A collection that never began, on any history and any files.
LEMMA IdleSound ==
    ASSUME references \in Seq(Digests \cup {Inline}), current \in BOOLEAN, objects \subseteq Digests,
           unsynced = {}, scratch = {}, gc = GcIdle, outcome = "none", reclaimed = {}
    PROVE  GcSound
<1>1. GcTypeOK
      BY DEF GcTypeOK
<1>2. ~Phase("sweep") /\ ~Phase("mark") /\ ~Phase("inventory") /\ ~Phase("cover")
      /\ ~Phase("validate") /\ ~Phase("reclaim") /\ ~Phase("cleanup") /\ Phase("idle")
      BY DEF Phase, GcIdle
<1>3. SuccessIsExact /\ ScratchNeverInTheWay /\ ReclaimedStaysGone
      BY DEF SuccessIsExact, ScratchNeverInTheWay, ReclaimedStaysGone
<1> QED BY <1>1, <1>2, <1>3 DEF GcSound, Gathered, Reclaiming, ScratchIsOwn

LEMMA EmptySound == GcEmpty => GcSound
<1> SUFFICES ASSUME GcEmpty PROVE GcSound
    OBVIOUS
<1>1. << >> \in Seq(Digests \cup {Inline})
      OBVIOUS
<1> QED BY <1>1, IdleSound DEF GcEmpty

LEMMA GcUnchanged == ASSUME GcSound, UNCHANGED gcVars PROVE GcSound'
<1>1. UNCHANGED <<references, current, objects, unsynced, scratch, gc, attempts, outcome, reclaimed>>
      BY DEF gcVars
<1>2. GcTypeOK' /\ SuccessIsExact' /\ ScratchNeverInTheWay' /\ ReclaimedStaysGone'
      BY <1>1 DEF GcSound, GcTypeOK, SuccessIsExact, ScratchNeverInTheWay, ReclaimedStaysGone, Referenced
<1>3. Gathered'
      BY <1>1 DEF GcSound, Gathered, Phase, Referenced
<1>4. Reclaiming'
      BY <1>1 DEF GcSound, Reclaiming, Phase, Referenced
<1>5. ScratchIsOwn'
      BY <1>1 DEF GcSound, ScratchIsOwn, Phase
<1> QED BY <1>1, <1>2, <1>3, <1>4, <1>5 DEF GcSound, Phase

LEMMA LedgerUnchanged == ASSUME LedgerSound, UNCHANGED mergeVars PROVE LedgerSound'
<1>1. UNCHANGED <<segment, previous, read, buffer, runs, pos, ledger, status>>
      BY DEF mergeVars
<1>2. MergeTypeOK' /\ RefusalsAreExact'
      BY <1>1 DEF LedgerSound, MergeTypeOK, RefusalsAreExact
<1>3. RunsInOrder' /\ BufferIsNext'
      BY <1>1 DEF LedgerSound, RunsInOrder, BufferIsNext, Window
<1>4. MergeInOrder'
  <2>1. CASE status \in {"merge", "done"}
        BY <1>1, <2>1, MergeKept DEF LedgerSound, MergeInOrder
  <2>2. CASE status \notin {"merge", "done"}
        BY <1>1, <2>2 DEF MergeInOrder
  <2> QED BY <2>1, <2>2
<1> QED BY <1>2, <1>3, <1>4 DEF LedgerSound

-------------------------------------------------------------------------------
(* Maintenance *)

\* A collection has begun only after a rotation.
MaintenanceSound == LedgerSound /\ GcSound /\ (status # "rotated" => GcEmpty)

\* What was merged is forgotten.
LEMMA ForgottenSound == ASSUME NEW next \in {"rotated", "reopened"}, Merging(next) PROVE LedgerSound'
<1>1. /\ segment' = << >> /\ previous' = << >> /\ read' = 0
      /\ buffer' = << >> /\ runs' = << >> /\ ledger' = << >> /\ status' = next
      BY DEF Merging
<1>2. /\ << >> \in Seq(Ids) /\ << >> \in Seq(Seq(Ids)) /\ Len(<< >>) = 0
      OBVIOUS
<1>3. MergeTypeOK'
      BY <1>1, <1>2 DEF MergeTypeOK
<1>4. RunsInOrder' /\ BufferIsNext' /\ MergeInOrder' /\ RefusalsAreExact'
      BY <1>1 DEF RunsInOrder, BufferIsNext, MergeInOrder, RefusalsAreExact
<1> QED BY <1>3, <1>4 DEF LedgerSound

LEMMA RotatedSound == ASSUME LedgerSound, GcEmpty, Rotated PROVE GcSound'
<1>1. ledger \in Seq(Ids)
      BY DEF LedgerSound, MergeTypeOK
<1>2. [i \in DOMAIN ledger |-> Refers[ledger[i]]] \in Seq(Digests \cup {Inline})
  <2>1. DOMAIN ledger = 1..Len(ledger) /\ Len(ledger) \in Nat /\ \A i \in DOMAIN ledger : ledger[i] \in Ids
        BY <1>1
  <2>2. \A i \in 1..Len(ledger) : Refers[ledger[i]] \in Digests \cup {Inline}
        BY <2>1, RefersOK
  <2> QED BY <2>1, <2>2
<1>3. /\ references' \in Seq(Digests \cup {Inline}) /\ objects' \subseteq Digests
      /\ UNCHANGED <<current, unsynced, scratch, gc, attempts, outcome, reclaimed>>
      BY <1>2 DEF Rotated
<1>4. GcTypeOK' /\ gc' = GcIdle
      BY <1>3 DEF GcEmpty, GcTypeOK
<1>5. SuccessIsExact' /\ ScratchNeverInTheWay' /\ ReclaimedStaysGone'
      BY <1>3 DEF GcEmpty, SuccessIsExact, ScratchNeverInTheWay, ReclaimedStaysGone
<1> QED BY <1>4, <1>5, StopSound

LEMMA InitSound == Init => MaintenanceSound
  BY MergeInitKeeps, EmptySound DEF Init, MaintenanceSound

\* A step of a merge, and where it ends.
LEMMA MergeStatus == ASSUME MergeNext PROVE status # "rotated" /\ status # "reopened" /\ status' # "rotated"
<1>1. CASE Verify \/ Finish \/ Add
      BY <1>1 DEF Verify, Finish, Add, Flush
<1>2. CASE StartMerge \/ Write \/ Close
      BY <1>2 DEF StartMerge, Write, Close
<1> QED BY <1>1, <1>2 DEF MergeNext

LEMMA EmptyKept == ASSUME GcEmpty, UNCHANGED gcVars PROVE GcEmpty'
  BY DEF GcEmpty, gcVars

LEMMA NextSound ==
    ASSUME MaintenanceSound, [Next]_vars
    PROVE  MaintenanceSound' /\ (UNCHANGED gcVars \/ Referenced \cap objects \subseteq objects')
<1>1. CASE MergeNext /\ UNCHANGED <<gcVars, scanVars>>
      BY <1>1, MergeStep, MergeStatus, GcUnchanged, EmptyKept DEF MaintenanceSound
<1>2. CASE Rotated
  <2>1. status = "done" /\ status' = "rotated" /\ Merging("rotated")
        BY <1>2 DEF Rotated, Merging
  <2>2. GcEmpty
        BY <2>1 DEF MaintenanceSound
  <2>3. LedgerSound' /\ GcSound'
        BY <1>2, <2>1, <2>2, RotatedSound, ForgottenSound DEF MaintenanceSound
  <2>4. Referenced \cap objects \subseteq objects'
        BY <2>2 DEF GcEmpty
  <2> QED BY <2>1, <2>3, <2>4 DEF MaintenanceSound
<1>3. CASE status = "rotated" /\ GcNext /\ UNCHANGED <<mergeVars, scanVars>>
  <2>1. LedgerSound' /\ status' = "rotated"
        BY <1>3, LedgerUnchanged DEF MaintenanceSound, mergeVars
  <2>2. GcSound' /\ Referenced \cap objects \subseteq objects'
        BY <1>3, GcStep DEF MaintenanceSound
  <2> QED BY <2>1, <2>2 DEF MaintenanceSound
<1>4. CASE Reopened
  <2>1. status = "done" /\ status' = "reopened" /\ Merging("reopened") /\ UNCHANGED gcVars
        BY <1>4 DEF Reopened, Merging
  <2>2. GcEmpty'
        BY <2>1, EmptyKept DEF MaintenanceSound
  <2> QED BY <2>1, <2>2, ForgottenSound, GcUnchanged DEF MaintenanceSound
<1>5. CASE (status = "reopened" /\ ScanNext /\ UNCHANGED <<mergeVars, gcVars>>) \/ UNCHANGED vars
  <2>1. UNCHANGED mergeVars /\ UNCHANGED gcVars /\ status' = status
        BY <1>5 DEF vars, mergeVars
  <2> QED BY <2>1, LedgerUnchanged, GcUnchanged, EmptyKept DEF MaintenanceSound
<1> QED BY <1>1, <1>2, <1>3, <1>4, <1>5 DEF Next

\* What the ledger in the making holds, what an attempt has gathered and which
\* files are its own, between any two steps of a maintenance.
THEOREM MaintenanceIsSound == Spec => []MaintenanceSound
<1>1. MaintenanceSound /\ [Next]_vars => MaintenanceSound'
      BY NextSound
<1> QED BY <1>1, InitSound, PTL DEF Spec

LEMMA SoundSuffices ==
    MaintenanceSound =>
        /\ LedgerIsExact /\ RefusalsAreExact
        /\ SuccessIsExact /\ MissingStopsCollection /\ ScratchNeverInTheWay /\ ReclaimedStaysGone
<1> SUFFICES ASSUME MaintenanceSound
             PROVE  /\ LedgerIsExact /\ RefusalsAreExact
                    /\ SuccessIsExact /\ MissingStopsCollection /\ ScratchNeverInTheWay /\ ReclaimedStaysGone
    OBVIOUS
<1>1. LedgerIsExact /\ RefusalsAreExact
      BY LedgerHolds DEF MaintenanceSound, LedgerSound
<1>2. SuccessIsExact /\ ScratchNeverInTheWay /\ ReclaimedStaysGone /\ Gathered /\ Reclaiming
      BY DEF MaintenanceSound, GcSound
<1>3. MissingStopsCollection
      BY <1>2 DEF MissingStopsCollection, Gathered, Reclaiming
<1> QED BY <1>1, <1>2, <1>3

\* A finished receipt ledger is strictly increasing, and a lookup in it finds
\* the predecessor's identities and the segment's, and no other, whatever the
\* sorter's chunks and however many runs were merged (receiptLedger.ts).
THEOREM LedgerExact == Spec => []LedgerIsExact
<1>1. MaintenanceSound => LedgerIsExact
      BY SoundSuffices
<1> QED BY <1>1, MaintenanceIsSound, PTL

\* An identity met twice, wherever, is reported as corruption and never merged
\* away, and only a segment with more entries than the namespace of run files
\* holds is refused for its size.
THEOREM RefusalsExact == Spec => []RefusalsAreExact
<1>1. MaintenanceSound => RefusalsAreExact
      BY SoundSuffices
<1> QED BY <1>1, MaintenanceIsSound, PTL

\* No step of a collection, of a commit between two or of a power loss takes
\* away a file the history refers to (objectReclamation.ts).
THEOREM ReferencedNeverGoes == Spec => ReferencedStays
<1>1. MaintenanceSound /\ [Next]_vars => [Referenced \cap objects \subseteq objects']_gcVars
      BY NextSound
<1> QED BY <1>1, MaintenanceIsSound, PTL DEF Spec, ReferencedStays

\* A collection that reports success has left the referenced files and no
\* other, after any sequence of cascades and of earlier failures.
THEOREM SuccessExact == Spec => []SuccessIsExact
<1>1. MaintenanceSound => SuccessIsExact
      BY SoundSuffices
<1> QED BY <1>1, MaintenanceIsSound, PTL

\* An attempt reaches its unlinks only over a store that has every file it
\* refers to.
THEOREM MissingStops == Spec => []MissingStopsCollection
<1>1. MaintenanceSound => MissingStopsCollection
      BY SoundSuffices
<1> QED BY <1>1, MaintenanceIsSound, PTL

\* The exclusive creation of a scratch file never meets a leftover, of an
\* earlier attempt or of the sorters' own other bank, for any number of slots.
THEOREM ScratchNeverMet == Spec => []ScratchNeverInTheWay
<1>1. MaintenanceSound => ScratchNeverInTheWay
      BY SoundSuffices
<1> QED BY <1>1, MaintenanceIsSound, PTL

\* What was reported as reclaimed had its directory synced: no power loss
\* brings it back.
THEOREM ReclaimedGone == Spec => []ReclaimedStaysGone
<1>1. MaintenanceSound => ReclaimedStaysGone
      BY SoundSuffices
<1> QED BY <1>1, MaintenanceIsSound, PTL
===============================================================================
